------------------------------- MODULE Bills -------------------------------
(***************************************************************************)
(* What a landlord does with bills, BillsService.  Prices and meter        *)
(* readings are data: a calculation may come to any total in Amounts.      *)
(***************************************************************************)
EXTENDS BillStore

NotBills == <<payments, credited, links, edited>>

BillOf(d, t, s, n) ==
    [period |-> d, status |-> s, total |-> t, paid |-> 0, remaining |-> t, items |-> n]

(* createBill writes what it is sent, and no items. *)
SentBills == {BillOf(d, t, "draft", 0) : d \in Periods, t \in Amounts}

(* createBillForRoom computes items and leaves the status to its default.  *)
RoomBills == {BillOf(d, t, "draft", 1) : d \in Periods, t \in Amounts}

(* The monthly run of a building: a draft until its meters are read.       *)
MonthlyBills ==
    {BillOf(d, t, s, 1) : d \in Periods, t \in Amounts, s \in {"draft", "pending"}}

NewBills == SentBills \cup RoomBills \cup MonthlyBills

Billed(d) == \E b \in BillIds : Live(bills[b]) /\ bills[b].period = d

(* Also one round of the loop of the monthly run: nothing but a counter    *)
(* passes from one round to the next.                                      *)
CreateBill_FindExisting(h, row) ==
    /\ ~Billed(row.period)
    /\ Begin(h, "createBill", [Idle EXCEPT !.at = "createBill:insert", !.brow = row])
    /\ UNCHANGED <<NotBills, bills>>

(* The unique index on rental and period decides. *)
CreateBill_Insert(h) ==
    LET row == call[h].brow IN
    /\ At(h, "createBill:insert")
    /\ \/ /\ ~Billed(row.period)
          /\ \E b \in BillIds : bills[b] = Null /\ bills' = [bills EXCEPT ![b] = row]
       \/ /\ Billed(row.period)
          /\ UNCHANGED bills
    /\ Return(h)
    /\ UNCHANGED <<NotBills, started>>

(* The first read of the handlers that change a bill. *)
ReadBill(h, op, b, label) ==
    /\ Live(bills[b])
    /\ Begin(h, op, [Idle EXCEPT !.at = label, !.bill = b, !.brow = bills[b]])
    /\ UNCHANGED <<NotBills, bills>>

(* Their write: of the row as it is now, or of none if it was deleted.     *)
WriteBill(h, row) ==
    LET b == call[h].bill IN
    /\ \/ /\ Live(bills[b])
          /\ bills' = [bills EXCEPT ![b] = row]
          /\ Step(h, Idle, {b})
       \/ /\ ~Live(bills[b])
          /\ Return(h)
          /\ UNCHANGED bills
    /\ UNCHANGED <<NotBills, started>>

Unpaid(b) == Live(bills[b]) /\ bills[b].status # "paid"

UpdateBill_Read(h, b) ==
    /\ Unpaid(b)
    /\ ReadBill(h, "updateBill", b, "updateBill:write")

(* Mutant: the amount already paid is forgotten. *)
EditedBill_ForgetsPaid(now, seen, s, t) ==
    [now EXCEPT !.status = s, !.total = t, !.remaining = t]

EditedBill(now, seen, s, t) ==
    [now EXCEPT !.status = s, !.total = t, !.remaining = t - seen.paid]

(* A status that is not sent stays; so do the amounts when no total is.    *)
UpdateBill_Write(h) ==
    LET now == bills[call[h].bill] IN
    /\ At(h, "updateBill:write")
    /\ \/ ~Live(now) /\ WriteBill(h, now)
       \/ /\ Live(now)
          /\ \E s \in BillEdits \cup {now.status} :
                \/ WriteBill(h, [now EXCEPT !.status = s])
                \/ \E t \in Amounts : WriteBill(h, EditedBill(now, call[h].brow, s, t))

(* The readings deleteBill resets before it deletes are not modelled. *)
DeleteBill_Read(h, b) ==
    /\ Unpaid(b)
    /\ ReadBill(h, "deleteBill", b, "deleteBill:delete")

(* The foreign key of payments is set to null with it. *)
DeleteBill_Delete(h) ==
    LET b == call[h].bill
        of == {p \in PaymentIds : Live(payments[p]) /\ payments[p].bill = b}
    IN
    /\ At(h, "deleteBill:delete")
    /\ \A p \in of : ~Locked(p)
    /\ \/ /\ Live(bills[b])
          /\ bills' = [bills EXCEPT ![b] = Gone]
          /\ payments' = [p \in PaymentIds |-> IF p \in of
                                               THEN [payments[p] EXCEPT !.bill = Null]
                                               ELSE payments[p]]
          /\ Step(h, Idle, {b})
       \/ /\ ~Live(bills[b])
          /\ Return(h)
          /\ UNCHANGED <<bills, payments>>
    /\ UNCHANGED <<credited, links, edited, started>>

(* updateBillWithMeterData and updateMeterData. *)
MeterData_Read(h, b) ==
    /\ Unpaid(b)
    /\ ReadBill(h, "meterData", b, "meterData:clear")

(* Mutant: the old items are kept. *)
MeterData_ClearItems_Kept(h) ==
    /\ At(h, "meterData:clear")
    /\ Step(h, [call[h] EXCEPT !.at = "meterData:write"], {})
    /\ UNCHANGED <<NotBills, bills, started>>

(* Items are rows of their own: nobody's copy of the bill is outdated.     *)
MeterData_ClearItems(h) ==
    LET b == call[h].bill IN
    /\ At(h, "meterData:clear")
    /\ bills' = [bills EXCEPT ![b] = IF Live(@) THEN [@ EXCEPT !.items = 0] ELSE @]
    /\ Step(h, [call[h] EXCEPT !.at = "meterData:write"], {})
    /\ UNCHANGED <<NotBills, started>>

(* Every reading there makes a draft pending; any other status is written  *)
(* back as it was read.                                                    *)
MeterData_Write(h) ==
    LET now == bills[call[h].bill]
        seen == call[h].brow
    IN
    /\ At(h, "meterData:write")
    /\ \/ ~Live(now) /\ WriteBill(h, now)
       \/ /\ Live(now)
          /\ \E t \in Amounts, s \in {seen.status}
                    \cup (IF seen.status = "draft" THEN {"pending"} ELSE {}) :
                WriteBill(h, [EditedBill(now, seen, s, t) EXCEPT !.items = @ + 1])

MarkBillAsPaid_Read(h, b) == ReadBill(h, "markBillAsPaid", b, "markPaid:write")

MarkBillAsPaid_Write(h) ==
    LET now == bills[call[h].bill] IN
    /\ At(h, "markPaid:write")
    /\ \/ ~Live(now) /\ WriteBill(h, now)
       \/ /\ Live(now)
          /\ WriteBill(h, [now EXCEPT !.status = "paid", !.paid = call[h].brow.total,
                                      !.remaining = 0])

BillStep(h) ==
    \/ CreateBill_Insert(h)
    \/ UpdateBill_Write(h)
    \/ DeleteBill_Delete(h)
    \/ MeterData_ClearItems(h)
    \/ MeterData_Write(h)
    \/ MarkBillAsPaid_Write(h)

BillRequest(h) ==
    \/ \E row \in NewBills : CreateBill_FindExisting(h, row)
    \/ \E b \in BillIds : \/ UpdateBill_Read(h, b)
                          \/ DeleteBill_Read(h, b)
                          \/ MeterData_Read(h, b)
                          \/ MarkBillAsPaid_Read(h, b)
=============================================================================
