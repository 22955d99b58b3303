------------------------------ MODULE Billing ------------------------------
(***************************************************************************)
(* Bills, payments and PayOS together over one database.                   *)
(***************************************************************************)
EXTENDS Bills, Payos, Payments

Init ==
    /\ bills = [b \in BillIds |-> Null]
    /\ payments = [p \in PaymentIds |-> Null]
    /\ credited = [p \in PaymentIds |-> 0]
    /\ links = [l \in Links |-> "unmade"]
    /\ call = [h \in Handlers |-> Idle]
    /\ started = 0
    /\ stale = [h \in Handlers |-> {}]
    /\ overwritten = {}
    /\ edited = {}

(* A handler in progress goes on. *)
Advance(h) == BillStep(h) \/ PayosStep(h) \/ PaymentStep(h)

(* PayOS reports the success of link l. *)
Report(l) == \E h \in Handlers : Success_Read(h, l) \/ Success_Ignore(h, l)

Next ==
    \/ \E h \in Handlers :
          \/ BillRequest(h) \/ PayosRequest(h) \/ PaymentRequest(h)
          \/ Advance(h) \/ Crash(h)
    \/ \E l \in Links : PayLink(l) \/ Report(l)

Spec == Init /\ [][Next]_vars

(* The event loop resumes every handler whose query has returned.  PayOS   *)
(* repeats the report of a payment until it is answered with success; that *)
(* it may repeat one which was answered is no reason to rely on it.        *)
FairSpec ==
    /\ Spec
    /\ \A h \in Handlers : WF_vars(Advance(h))
    /\ \A l \in Links : WF_vars(links[l] = "paid" /\ Report(l))

-----------------------------------------------------------------------------
(* Every row, frame and history variable has the shape its table or        *)
(* handler gives it.                                                       *)
TypeOK ==
    /\ bills \in [BillIds -> Bill \cup {Null, Gone}]
    /\ payments \in [PaymentIds -> Payment \cup {Null, Gone}]
    /\ credited \in [PaymentIds -> Nat]
    /\ links \in [Links -> {"unmade", "made", "given", "paid", "reported"}]
    /\ call \in [Handlers -> Frame]
    /\ started \in 0..MaxCalls
    /\ stale \in [Handlers -> SUBSET (BillIds \cup PaymentIds)]
    /\ overwritten \subseteq BillIds \cup PaymentIds
    /\ edited \subseteq PaymentIds

BillAddsUp(b) ==
    Live(bills[b]) => bills[b].remaining = bills[b].total - bills[b].paid

(* What is open on a bill is its total less what was paid, through every   *)
(* mix of edits, new meter data, marking as paid and payments arriving, as *)
(* long as no handler has written the bill from an outdated copy.          *)
BillsAddUp == \A b \in BillIds \ overwritten : BillAddsUp(b)

(* New meter data replaces the items of a bill: no order of requests,      *)
(* failures and crashes doubles them, unless somebody wrote the bill from  *)
(* an outdated copy.  Two requests that both clear the items before either *)
(* writes them do that, and leave both sets.                               *)
ItemsAreReplaced ==
    \A b \in BillIds \ overwritten : Live(bills[b]) => bills[b].items <= 1

CreditIsDue(p) ==
    credited[p] # 0 => /\ Live(payments[p])
                       /\ payments[p].status = "completed"
                       /\ credited[p] = payments[p].amount

(* A payment credits the landlord at most once, with its amount and only   *)
(* when it is completed, however often PayOS reports it, in whatever order *)
(* success and failure arrive, and whether the tenant completes it or      *)
(* PayOS does; unless somebody wrote it from an outdated copy, or a client *)
(* changed it after it was completed.                                      *)
CreditedAtMostOnce ==
    \A p \in PaymentIds \ (overwritten \cup edited) : CreditIsDue(p)

(* A settled bill stays settled, and in the database: late payments, meter *)
(* data and edits leave it alone, unless they write it from a copy which   *)
(* they read before it was settled, or another such write came earlier.    *)
SettledBillStays ==
    [][\A b \in BillIds \ overwritten' :
          Live(bills[b]) /\ bills[b].status = "paid" /\ bills[b].remaining = 0
          => Live(bills'[b]) /\ bills'[b].status = "paid" /\ bills'[b].remaining = 0]_vars

(* A completed payment is never deleted, reused for another link or marked *)
(* as failed by a late webhook, unless it is written from a copy that was  *)
(* read before it was completed, or a client has changed it since.         *)
CompletedPaymentStays ==
    [][\A p \in PaymentIds \ (overwritten' \cup edited') :
          Live(payments[p]) /\ payments[p].status = "completed"
          => /\ Live(payments'[p])
             /\ payments'[p].status = "completed"
             /\ payments'[p].amount = payments[p].amount
             /\ payments'[p].ref = payments[p].ref]_vars


-----------------------------------------------------------------------------
(* The inductive invariant behind the theorems of Billing_proofs.          *)

(* A frame has what its label needs. *)
Shape(h) ==
    LET f == call[h] IN
    /\ f.at = "createBill:insert" => f.brow \in NewBills
    /\ f.at = "createPayment:insert" => f.prow \in NewPayments
    /\ f.at \in {"updateBill:write", "deleteBill:delete", "meterData:clear",
                 "meterData:write", "markPaid:write", "link:find", "link:write"}
          => f.bill \in BillIds
    /\ f.bill # Null => f.brow \in Bill
    /\ f.at \in {"success:pay", "success:commit", "failure:write", "updatePayment:write",
                 "updatePayment:credit", "deletePayment:delete"}
          => f.payment \in PaymentIds
    /\ f.payment # Null => f.prow \in Payment
    /\ f.at = "link:find" => f.payment = Null
    /\ f.at \in {"link:write", "success:pay", "success:commit", "failure:write"}
          => f.link \in Links
    /\ f.at \in {"link:find", "link:write"} => f.brow.remaining > 0

SameBill(x, y) ==
    Live(x) /\ x.status = y.status /\ x.total = y.total /\ x.paid = y.paid

SamePayment(x, y) ==
    Live(x) /\ x.status = y.status /\ x.amount = y.amount /\ x.payer = y.payer

(* A copy nobody has outdated still says what the row says, and a row that *)
(* is locked is still there.                                               *)
Fresh(h) ==
    LET f == call[h] IN
    /\ f.bill # Null /\ f.bill \notin stale[h] => SameBill(bills[f.bill], f.brow)
    /\ f.payment # Null /\ f.payment \notin stale[h]
          => SamePayment(payments[f.payment], f.prow)
    /\ f.at = "meterData:write" /\ f.bill \notin stale[h] => bills[f.bill].items = 0
    /\ f.at = "success:commit" => Live(payments[f.payment])

(* What the checks at the first read found, said of the copy. *)
Checked(h) ==
    LET f == call[h] IN
    /\ f.at \in {"updateBill:write", "deleteBill:delete", "meterData:clear",
                 "meterData:write"}
          => f.brow.status # "paid"
    /\ f.at \in {"success:pay", "success:commit", "failure:write", "deletePayment:delete"}
          => f.prow.status # "completed"
    /\ f.at = "link:write" /\ f.payment # Null => f.prow.status # "completed"

(* A payment about to be credited has just been completed, has not been    *)
(* credited yet, and nobody else is about to.                              *)
Crediting(h) ==
    LET f == call[h]
        p == f.payment
    IN
    f.at = "updatePayment:credit" /\ p \notin overwritten \cup edited =>
        /\ SamePayment(payments[p], f.prow)
        /\ f.prow.status = "completed"
        /\ credited[p] = 0
        /\ \A g \in Handlers \ {h} : At(g, "updatePayment:credit") => call[g].payment # p

IInv ==
    /\ TypeOK
    /\ \A h \in Handlers : Shape(h) /\ Fresh(h) /\ Checked(h) /\ Crediting(h)
    /\ BillsAddUp
    /\ ItemsAreReplaced
    /\ CreditedAtMostOnce

=============================================================================
