------------------------------- MODULE Payos -------------------------------
(***************************************************************************)
(* Paying a bill through PayOS: the link, and the webhooks that tell how   *)
(* its transfer went.  PayOS is external: it may send a webhook any number *)
(* of times and in any order, but must repeat it only until it is answered *)
(* with success.                                                           *)
(***************************************************************************)
EXTENDS BillStore

(* createPayosPaymentLink: somebody asks for a link for what is open. *)
CreateLink_Read(h, b) ==
    /\ Live(bills[b])
    /\ bills[b].status # "paid"
    /\ bills[b].remaining > 0
    /\ Begin(h, "createPaymentLink",
             [Idle EXCEPT !.at = "link:find", !.bill = b, !.brow = bills[b]])
    /\ UNCHANGED <<bills, payments, credited, links, edited>>

(* Mutant: a transfer of any status is reused. *)
PendingTransfers_AnyStatus(b) ==
    {p \in PaymentIds : /\ Live(payments[p])
                        /\ payments[p].bill = b /\ payments[p].payer = "tenant"
                        /\ payments[p].transfer}

(* The pending transfers of the tenant for bill b. *)
PendingTransfers(b) ==
    {p \in PaymentIds : /\ Live(payments[p])
                        /\ payments[p].bill = b /\ payments[p].payer = "tenant"
                        /\ payments[p].status = "pending" /\ payments[p].transfer}

(* PayOS makes the link, and the handler looks for a payment to reuse, or  *)
(* PayOS is unavailable.                                                   *)
CreateLink_Find(h) ==
    LET found == PendingTransfers(call[h].bill)
        f == [call[h] EXCEPT !.at = "link:write"]
    IN
    /\ At(h, "link:find")
    /\ \/ \E l \in Links :
             /\ links[l] = "unmade"
             /\ links' = [links EXCEPT ![l] = "made"]
             /\ IF found = {}
                THEN Step(h, [f EXCEPT !.link = l], {})
                ELSE \E p \in found :
                       Step(h, [f EXCEPT !.link = l, !.payment = p, !.prow = payments[p]], {})
       \/ Return(h) /\ UNCHANGED links
    /\ UNCHANGED <<bills, payments, credited, edited, started>>

(* upsertPendingPaymentRecord.  A payment that is reused forgets the link  *)
(* it had; only now the client gets the new one.                           *)
CreateLink_Write(h) ==
    LET f == call[h]
        p == f.payment
        v == f.brow.remaining
    IN
    /\ At(h, "link:write")
    /\ IF p = Null
       THEN \/ /\ Live(bills[f.bill])
               /\ \E q \in PaymentIds :
                     /\ payments[q] = Null
                     /\ payments' = [payments EXCEPT ![q] =
                           [bill |-> f.bill, payer |-> "tenant", amount |-> v,
                            transfer |-> TRUE, status |-> "pending", ref |-> f.link]]
               /\ Return(h)
               /\ links' = [links EXCEPT ![f.link] = "given"]
            \/ /\ ~Live(bills[f.bill])
               /\ Return(h)
               /\ UNCHANGED <<payments, links>>
       ELSE \/ /\ Live(payments[p])
               /\ ~Locked(p)
               /\ payments' = [payments EXCEPT ![p].amount = v, ![p].ref = f.link]
               /\ Step(h, Idle, {p})
               /\ links' = [links EXCEPT ![f.link] = "given"]
            \/ /\ ~Live(payments[p])
               /\ Return(h)
               /\ UNCHANGED <<payments, links>>
    /\ UNCHANGED <<bills, credited, edited, started>>

(* The tenant transfers the money. *)
PayLink(l) ==
    /\ links[l] = "given"
    /\ links' = [links EXCEPT ![l] = "paid"]
    /\ UNCHANGED <<bills, payments, credited, call, started, history, edited>>

-----------------------------------------------------------------------------
(* Payment p carries the order code of link l. *)
Referenced(p, l) == Live(payments[p]) /\ payments[p].ref = l


(* Payment p waits for the webhook of link l. *)
Unprocessed(p, l) == Referenced(p, l) /\ payments[p].status # "completed"

(* processPayosPaymentSuccess, for a payment it finds waiting.             *)
Success_Read(h, l) ==
    /\ links[l] \in {"paid", "reported"}
    /\ At(h, "idle")
    /\ \E p \in PaymentIds :
          /\ Unprocessed(p, l)
          /\ Step(h, [Idle EXCEPT !.at = "success:pay", !.payment = p, !.link = l,
                                  !.prow = payments[p]], {})
    /\ UNCHANGED <<bills, payments, credited, links, edited, started>>

(* For no payment, or for one that is completed, there is nothing to do:   *)
(* the answer is success, and PayOS need not report again.                 *)
Success_Ignore(h, l) ==
    /\ links[l] = "paid"
    /\ At(h, "idle")
    /\ \/ \A p \in PaymentIds : ~Referenced(p, l)
       \/ \E p \in PaymentIds : Referenced(p, l) /\ ~Unprocessed(p, l)
    /\ links' = [links EXCEPT ![l] = "reported"]
    /\ UNCHANGED <<bills, payments, credited, call, started, history, edited>>

(* From the update of the payment, which nobody sees before the commit but *)
(* which locks the row, to the read of the bill.                           *)
Success_Pay(h) ==
    LET f == call[h]
        b == f.prow.bill
    IN
    /\ At(h, "success:pay")
    /\ ~Locked(f.payment)
    /\ IF /\ Live(payments[f.payment])
          /\ b # Null => Live(bills[b])
       THEN Step(h, [f EXCEPT !.at = "success:commit", !.bill = b,
                              !.brow = IF b = Null THEN Null ELSE bills[b]], {})
       ELSE Return(h)
    /\ UNCHANGED <<bills, payments, credited, links, edited, started>>

Lesser(m, n) == IF m < n THEN m ELSE n

(* Mutant: what was paid before is not counted. *)
AppliedPayment_Alone(now, seen, v) ==
    LET paid == Lesser(seen.total, v)
        remaining == seen.total - paid
    IN [now EXCEPT !.paid = paid, !.remaining = remaining,
                   !.status = IF remaining = 0 THEN "paid" ELSE "pending"]

(* applyAutomaticPayment, of v to a bill that is now and was seen.         *)
AppliedPayment(now, seen, v) ==
    LET paid == Lesser(seen.total, seen.paid + v)
        remaining == seen.total - paid
    IN [now EXCEPT !.paid = paid, !.remaining = remaining,
                   !.status = IF remaining = 0 THEN "paid" ELSE "pending"]

(* Only a transaction that commits is answered with success. *)
Success_Commit(h) ==
    LET f == call[h]
        p == f.payment
        b == f.bill
    IN
    /\ At(h, "success:commit")
    /\ IF b # Null /\ ~Live(bills[b])
       THEN Return(h) /\ UNCHANGED <<bills, payments, credited, links>>
       ELSE /\ \E r \in {f.prow.ref, Receipt(f.link)} :
                  payments' = [payments EXCEPT ![p].status = "completed", ![p].ref = r]
            /\ bills' = IF b = Null THEN bills
                        ELSE [bills EXCEPT ![b] = AppliedPayment(@, f.brow, f.prow.amount)]
            /\ credited' = IF f.prow.payer # "tenant" THEN credited
                           ELSE [credited EXCEPT ![p] = @ + f.prow.amount]
            /\ links' = [links EXCEPT ![f.link] = "reported"]
            /\ Step(h, Idle, {p, b} \ {Null})
    /\ UNCHANGED <<edited, started>>

(* processPayosPaymentFailure *)
Failure_Read(h, l) ==
    /\ links[l] \in {"given", "paid", "reported"}
    /\ \E p \in PaymentIds :
          /\ Unprocessed(p, l)
          /\ Begin(h, "webhookFailure",
                   [Idle EXCEPT !.at = "failure:write", !.payment = p, !.link = l,
                                !.prow = payments[p]])
    /\ UNCHANGED <<bills, payments, credited, links, edited>>

Failure_Write(h) ==
    LET f == call[h]
        p == f.payment
    IN
    /\ At(h, "failure:write")
    /\ \/ /\ Live(payments[p])
          /\ ~Locked(p)
          /\ \E r \in {f.prow.ref, Receipt(f.link)} :
                payments' = [payments EXCEPT ![p].status = "failed", ![p].ref = r]
          /\ Step(h, Idle, {p})
       \/ /\ ~Live(payments[p])
          /\ Return(h)
          /\ UNCHANGED payments
    /\ UNCHANGED <<bills, credited, links, edited, started>>

PayosStep(h) ==
    \/ CreateLink_Find(h)
    \/ CreateLink_Write(h)
    \/ Success_Pay(h)
    \/ Success_Commit(h)
    \/ Failure_Write(h)

PayosRequest(h) ==
    \/ \E b \in BillIds : CreateLink_Read(h, b)
    \/ \E l \in Links : Failure_Read(h, l)
=============================================================================
