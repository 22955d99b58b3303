----------------------------- MODULE MCBilling -----------------------------
EXTENDS Billing, TLC

(* Handlers, rows and links are interchangeable. *)
Symmetry == Permutations(Handlers) \cup Permutations(PaymentIds)
            \cup Permutations(BillIds) \cup Permutations(Links)

EveryOp == {"createBill", "updateBill", "deleteBill", "meterData", "markBillAsPaid",
            "createPaymentLink", "createPayment", "updatePayment", "deletePayment",
            "webhookFailure", "crash"}
FairRun == {"createBill", "deleteBill", "createPaymentLink", "webhookFailure", "crash"}
=============================================================================
