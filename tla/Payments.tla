------------------------------ MODULE Payments ------------------------------
(***************************************************************************)
(* Payments as the parties of a rental record them, PaymentsService.       *)
(***************************************************************************)
EXTENDS BillStore

NotPayments == <<bills, links>>

(* The client may send a reference, an order code too.  Any other is as    *)
(* good as none: no webhook carries it.                                    *)
NewPayments == [bill: BillIds \cup {Null}, payer: Users, amount: Amounts,
                transfer: BOOLEAN, status: {"pending"}, ref: NewReferences]

(* A payment starts pending, so createPayment never credits the landlord.  *)
CreatePayment_Read(h, row) ==
    /\ row.bill # Null => Live(bills[row.bill])
    /\ Begin(h, "createPayment",
             [Idle EXCEPT !.at = "createPayment:insert", !.prow = row])
    /\ UNCHANGED <<NotPayments, payments, credited, edited>>

(* The foreign key refuses a bill that was deleted. *)
CreatePayment_Insert(h) ==
    LET row == call[h].prow
        dangling == row.bill # Null /\ ~Live(bills[row.bill])
    IN
    /\ At(h, "createPayment:insert")
    /\ \/ /\ ~dangling
          /\ \E p \in PaymentIds :
                payments[p] = Null /\ payments' = [payments EXCEPT ![p] = row]
       \/ /\ dangling
          /\ UNCHANGED payments
    /\ Return(h)
    /\ UNCHANGED <<NotPayments, credited, edited, started>>

UpdatePayment_Read(h, p) ==
    /\ Live(payments[p])
    /\ Begin(h, "updatePayment",
             [Idle EXCEPT !.at = "updatePayment:write", !.payment = p,
                          !.prow = payments[p]])
    /\ UNCHANGED <<NotPayments, payments, credited, edited>>

(* The row after a PATCH with status s: what is not sent stays.  A         *)
(* reference that is sent may be an order code.                            *)
PatchedPayments(now, s) ==
    [bill: {now.bill}, payer: {now.payer}, amount: Amounts \cup {now.amount},
     transfer: BOOLEAN, status: {s}, ref: Links \cup {now.ref, Null}]

(* Mutant: any change of a payment that is not completed credits. *)
CompletesByTenant_AnyChange(seen, sent, user) ==
    seen.status # "completed" /\ user = "tenant"

(* Whether the handler credits the landlord: by the status it has read,    *)
(* and by who asks, not by who pays.                                       *)
CompletesByTenant(seen, sent, user) ==
    sent = "completed" /\ seen.status # "completed" /\ user = "tenant"

(* No status may be sent (Null), or any. *)
UpdatePayment_Write(h) ==
    LET f == call[h]
        p == f.payment
        now == payments[p]
    IN
    /\ At(h, "updatePayment:write")
    /\ ~Locked(p)
    /\ IF Live(now)
       THEN \E sent \in PaymentEdits \cup {Null}, user \in Users :
            \E row \in PatchedPayments(now, IF sent = Null THEN now.status ELSE sent) :
               /\ payments' = [payments EXCEPT ![p] = row]
               /\ edited' = edited \cup {q \in {p} : now.status = "completed"}
               /\ Step(h, IF CompletesByTenant(f.prow, sent, user)
                          THEN [f EXCEPT !.at = "updatePayment:credit", !.prow = row]
                          ELSE Idle, {p})
       ELSE Return(h) /\ UNCHANGED <<payments, edited>>
    /\ UNCHANGED <<NotPayments, credited, started>>

(* incrementLandlordBalance: the amount is the one just written. *)
UpdatePayment_Credit(h) ==
    LET f == call[h] IN
    /\ At(h, "updatePayment:credit")
    /\ credited' = [credited EXCEPT ![f.payment] = @ + f.prow.amount]
    /\ Return(h)
    /\ UNCHANGED <<NotPayments, payments, edited, started>>

DeletePayment_Read(h, p) ==
    /\ Live(payments[p])
    /\ payments[p].status # "completed"
    /\ Begin(h, "deletePayment",
             [Idle EXCEPT !.at = "deletePayment:delete", !.payment = p,
                          !.prow = payments[p]])
    /\ UNCHANGED <<NotPayments, payments, credited, edited>>

DeletePayment_Delete(h) ==
    LET p == call[h].payment IN
    /\ At(h, "deletePayment:delete")
    /\ ~Locked(p)
    /\ payments' = [payments EXCEPT ![p] = Gone]
    /\ Step(h, Idle, {p})
    /\ UNCHANGED <<NotPayments, credited, edited, started>>

PaymentStep(h) ==
    \/ CreatePayment_Insert(h)
    \/ UpdatePayment_Write(h)
    \/ UpdatePayment_Credit(h)
    \/ DeletePayment_Delete(h)

PaymentRequest(h) ==
    \/ \E row \in NewPayments : CreatePayment_Read(h, row)
    \/ \E p \in PaymentIds : UpdatePayment_Read(h, p) \/ DeletePayment_Read(h, p)
=============================================================================
