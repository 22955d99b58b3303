--------------------------- MODULE Billing_proofs ---------------------------
(***************************************************************************)
(* Proofs about Billing for any handlers, bills, payments, links and       *)
(* amounts.                                                                *)
(***************************************************************************)
EXTENDS Billing, TLAPS

Rows == BillIds \cup PaymentIds

(* What a step of handler h that writes the given rows does to frames. *)
Wrote(h, rows) ==
    /\ \A g \in Handlers \ {h} : /\ call'[g] = call[g]
                                 /\ stale'[g] = stale[g] \cup (rows \cap Holds(call[g]))
    /\ overwritten' = overwritten \cup (rows \cap stale[h])

(* A bill a step does not write: at most it loses its items, or is new.    *)
BillKept(b) ==
    \/ bills'[b] = bills[b]
    \/ /\ Live(bills[b]) /\ Live(bills'[b])
       /\ bills'[b].status = bills[b].status
       /\ bills'[b].total = bills[b].total
       /\ bills'[b].paid = bills[b].paid
       /\ bills'[b].remaining = bills[b].remaining
       /\ bills'[b].items = 0
    \/ /\ ~Live(bills[b]) /\ Live(bills'[b])
       /\ bills'[b].remaining = bills'[b].total - bills'[b].paid
       /\ bills'[b].items <= 1

(* A payment a step does not write: at most it loses its bill, or is new.  *)
PaymentKept(p) ==
    \/ payments'[p] = payments[p]
    \/ /\ Live(payments[p]) /\ Live(payments'[p])
       /\ payments'[p].status = payments[p].status
       /\ payments'[p].amount = payments[p].amount
       /\ payments'[p].payer = payments[p].payer
       /\ payments'[p].ref = payments[p].ref
    \/ ~Live(payments[p]) /\ Live(payments'[p])

-----------------------------------------------------------------------------
(* What handlers in progress rely on survives the steps of the others. *)

(* A copy the step does not outdate stays fresh. *)
LEMMA FreshKept ==
    ASSUME NEW h \in Handlers, NEW g \in Handlers \ {h}, NEW rows \in SUBSET Rows,
           TypeOK, Wrote(h, rows), Shape(g), Fresh(g),
           \A b \in BillIds \ rows : BillKept(b),
           \A p \in PaymentIds \ rows : PaymentKept(p),
           \A p \in PaymentIds \cap rows : Live(payments'[p]) \/ ~Locked(p)
    PROVE  Fresh(g)'
<1>1. /\ call'[g] = call[g]
      /\ stale'[g] = stale[g] \cup (rows \cap Holds(call[g]))
  BY DEF Wrote
<1>2. PICK f \in Frame : f = call[g]
  BY DEF TypeOK
<1>3. ASSUME f.bill # Null, f.bill \notin stale'[g]
      PROVE  SameBill(bills'[f.bill], f.brow)
  <2>1. f.bill \in BillIds \ rows /\ f.bill \notin stale[g]
    BY <1>1, <1>2, <1>3 DEF Frame, Holds
  <2>2. SameBill(bills[f.bill], f.brow)
    BY <1>2, <1>3, <2>1 DEF Fresh
  <2> QED
    BY <2>1, <2>2 DEF BillKept, SameBill
<1>4. ASSUME f.payment # Null, f.payment \notin stale'[g]
      PROVE  SamePayment(payments'[f.payment], f.prow)
  <2>1. f.payment \in PaymentIds \ rows /\ f.payment \notin stale[g]
    BY <1>1, <1>2, <1>4 DEF Frame, Holds
  <2>2. SamePayment(payments[f.payment], f.prow)
    BY <1>2, <1>4, <2>1 DEF Fresh
  <2> QED
    BY <2>1, <2>2 DEF PaymentKept, SamePayment
<1>5. ASSUME f.bill # Null, f.at = "meterData:write", f.bill \notin stale'[g]
      PROVE  bills'[f.bill].items = 0
  <2>1. f.bill \in BillIds \ rows /\ f.bill \notin stale[g]
    BY <1>1, <1>2, <1>5 DEF Frame, Holds
  <2>2. Live(bills[f.bill]) /\ bills[f.bill].items = 0
    BY <1>2, <1>5, <2>1 DEF Fresh, SameBill
  <2> QED
    BY <2>1, <2>2 DEF BillKept
<1>6. f.at = "meterData:write" => f.bill # Null
  BY <1>2, BillStoreAssumption DEF Shape
<1>7. ASSUME f.at = "success:commit"
      PROVE  Live(payments'[f.payment])
  <2>1. f.payment \in PaymentIds /\ Live(payments[f.payment])
    BY <1>2, <1>7 DEF Shape, Fresh
  <2>2. Locked(f.payment)
    BY <1>2, <1>7 DEF Locked, At
  <2> QED
    BY <2>1, <2>2 DEF PaymentKept
<1> QED
  BY <1>1, <1>2, <1>3, <1>4, <1>5, <1>6, <1>7 DEF Fresh

(* A credit that is due stays due as long as nobody else touches the       *)
(* payment.                                                                *)
LEMMA CreditingKept ==
    ASSUME NEW h \in Handlers, NEW g \in Handlers \ {h},
           NEW rows \in SUBSET Rows, NEW touched \in SUBSET Rows, rows \subseteq touched,
           Wrote(h, rows), edited \subseteq edited', Crediting(g), Crediting(h)',
           \A p \in PaymentIds \ rows : PaymentKept(p),
           \A p \in PaymentIds \ touched : credited'[p] = credited[p],
           \A p \in (PaymentIds \cap touched) \ (overwritten' \cup edited') :
              At(g, "updatePayment:credit") => call[g].payment # p,
           Shape(g), TypeOK
    PROVE  Crediting(g)'
<1>1. call'[g] = call[g] /\ \A k \in Handlers \ {h} : call'[k] = call[k]
  BY DEF Wrote
<1>2. PICK f \in Frame : f = call[g]
  BY DEF TypeOK
<1>3. PICK p : p = f.payment
  OBVIOUS
<1>4. SUFFICES ASSUME f.at = "updatePayment:credit", p \notin overwritten' \cup edited'
               PROVE  /\ SamePayment(payments'[p], f.prow)
                      /\ f.prow.status = "completed"
                      /\ credited'[p] = 0
                      /\ \A k \in Handlers \ {g} :
                            At(k, "updatePayment:credit")' => call'[k].payment # p
  BY <1>1, <1>2, <1>3 DEF Crediting
<1>5. p \in PaymentIds
  BY <1>2, <1>3, <1>4 DEF Shape
<1>6. p \notin overwritten \cup edited
  BY <1>4 DEF Wrote
<1>7. p \notin touched
  BY <1>2, <1>3, <1>4, <1>5 DEF At
<1>8. /\ SamePayment(payments[p], f.prow)
      /\ f.prow.status = "completed"
      /\ credited[p] = 0
      /\ \A k \in Handlers \ {g} : At(k, "updatePayment:credit") => call[k].payment # p
  BY <1>2, <1>3, <1>4, <1>6 DEF Crediting
<1>9. SamePayment(payments'[p], f.prow) /\ credited'[p] = 0
  BY <1>5, <1>7, <1>8 DEF PaymentKept, SamePayment
<1>10. At(h, "updatePayment:credit")' => call'[h].payment # p
  BY <1>1, <1>2, <1>3, <1>4 DEF Crediting, At
<1> QED
  BY <1>1, <1>8, <1>9, <1>10 DEF At

(* The invariant is kept by a step of one handler h if its new frame is    *)
(* good and what it writes from a fresh copy keeps the properties.         *)
LEMMA HandlerStep ==
    ASSUME IInv, TypeOK', NEW h \in Handlers,
           NEW rows \in SUBSET Rows, NEW touched \in SUBSET Rows, rows \subseteq touched,
           Wrote(h, rows), edited \subseteq edited',
           Shape(h)', Fresh(h)', Checked(h)', Crediting(h)',
           \A b \in BillIds \ rows : BillKept(b),
           \A p \in PaymentIds \ rows : PaymentKept(p),
           \A p \in PaymentIds \cap rows : Live(payments'[p]) \/ ~Locked(p),
           \A p \in PaymentIds \ touched : credited'[p] = credited[p],
           \A b \in (BillIds \cap rows) \ overwritten' :
              Live(bills'[b]) => /\ bills'[b].remaining = bills'[b].total - bills'[b].paid
                                 /\ bills'[b].items <= 1,
           \A p \in (PaymentIds \cap touched) \ (overwritten' \cup edited') :
              /\ CreditIsDue(p)'
              /\ \A g \in Handlers \ {h} :
                    At(g, "updatePayment:credit") => call[g].payment # p
    PROVE  IInv'
<1>1. ASSUME NEW g \in Handlers
      PROVE  Shape(g)' /\ Fresh(g)' /\ Checked(g)' /\ Crediting(g)'
  <2>1. CASE g = h
    BY <2>1
  <2>2. CASE g # h
    <3>1. call'[g] = call[g] /\ Shape(g) /\ Fresh(g) /\ Checked(g) /\ Crediting(g)
      BY <2>2 DEF Wrote, IInv
    <3>2. Shape(g)' /\ Checked(g)'
      BY <3>1 DEF Shape, Checked
    <3>3. Fresh(g)'
      BY <2>2, <3>1, FreshKept DEF IInv
    <3>4. Crediting(g)'
      BY <2>2, <3>1, CreditingKept DEF IInv
    <3> QED
      BY <3>2, <3>3, <3>4
  <2> QED
    BY <2>1, <2>2
<1>2. ASSUME NEW b \in BillIds \ overwritten', Live(bills'[b])
      PROVE  bills'[b].remaining = bills'[b].total - bills'[b].paid /\ bills'[b].items <= 1
  <2>1. CASE b \in rows
    BY <1>2, <2>1
  <2>2. CASE b \notin rows
    <3>1. b \notin overwritten
      BY <1>2 DEF Wrote
    <3>2. Live(bills[b]) => /\ bills[b].remaining = bills[b].total - bills[b].paid
                            /\ bills[b].items <= 1
      BY <3>1 DEF IInv, BillsAddUp, BillAddsUp, ItemsAreReplaced
    <3> QED
      BY <1>2, <2>2, <3>2 DEF BillKept
  <2> QED
    BY <2>1, <2>2
<1>3. ASSUME NEW p \in PaymentIds \ (overwritten' \cup edited')
      PROVE  CreditIsDue(p)'
  <2>1. CASE p \in touched
    BY <1>3, <2>1
  <2>2. CASE p \notin touched
    <3>1. CreditIsDue(p)
      BY <1>3 DEF Wrote, IInv, CreditedAtMostOnce
    <3>2. PaymentKept(p) /\ credited'[p] = credited[p]
      BY <2>2
    <3> QED
      BY <3>1, <3>2 DEF CreditIsDue, PaymentKept
  <2> QED
    BY <2>1, <2>2
<1> QED
  BY <1>1, <1>2, <1>3 DEF IInv, BillsAddUp, BillAddsUp, ItemsAreReplaced, CreditedAtMostOnce

-----------------------------------------------------------------------------
(* Steps by what they write. *)

LEMMA IdleFrame == Idle \in Frame
BY DEF Idle, Frame, Labels

LEMMA StepTypes ==
    ASSUME TypeOK, NEW h \in Handlers, NEW f \in Frame, NEW rows \in SUBSET Rows,
           Step(h, f, rows)
    PROVE  /\ call' \in [Handlers -> Frame]
           /\ stale' \in [Handlers -> SUBSET Rows]
           /\ overwritten' \subseteq Rows
           /\ call'[h] = f
           /\ stale'[h] = stale[h] \cap Holds(f)
           /\ Wrote(h, rows)
<1>1. stale \in [Handlers -> SUBSET Rows] /\ overwritten \subseteq Rows
  BY DEF TypeOK, Rows
<1>2. call' \in [Handlers -> Frame] /\ call'[h] = f
  BY DEF TypeOK, Step
<1>3. stale' \in [Handlers -> SUBSET Rows] /\ stale'[h] = stale[h] \cap Holds(f)
  BY <1>1 DEF Step
<1>4. Wrote(h, rows)
  BY <1>1 DEF TypeOK, Step, Wrote
<1> QED
  BY <1>1, <1>2, <1>3, <1>4 DEF Wrote

LEMMA IdleGood ==
    ASSUME NEW h \in Handlers, call'[h] = Idle
    PROVE  Shape(h)' /\ Fresh(h)' /\ Checked(h)' /\ Crediting(h)'
BY DEF Idle, Shape, Fresh, Checked, Crediting

(* A step that only reads. *)
LEMMA ReadStep ==
    ASSUME IInv, NEW h \in Handlers, NEW f \in Frame, Step(h, f, {}),
           UNCHANGED <<bills, payments, credited, edited>>,
           links' \in [Links -> {"unmade", "made", "given", "paid", "reported"}],
           started' \in 0..MaxCalls,
           Shape(h)', Fresh(h)', Checked(h)', Crediting(h)'
    PROVE  IInv'
<1>1. TypeOK
  BY DEF IInv
<1>2. {} \in SUBSET Rows
  OBVIOUS
<1>3. /\ call' \in [Handlers -> Frame]
      /\ stale' \in [Handlers -> SUBSET Rows]
      /\ overwritten' \subseteq Rows
      /\ Wrote(h, {})
  BY <1>1, <1>2, StepTypes
<1>4. TypeOK'
  BY <1>1, <1>3 DEF TypeOK, Rows
<1> QED
  BY <1>2, <1>3, <1>4, HandlerStep DEF BillKept, PaymentKept

LEMMA ReturnStep ==
    ASSUME IInv, NEW h \in Handlers, Return(h),
           UNCHANGED <<bills, payments, credited, edited>>,
           links' \in [Links -> {"unmade", "made", "given", "paid", "reported"}],
           started' \in 0..MaxCalls
    PROVE  IInv'
<1>1. Step(h, Idle, {}) /\ call'[h] = Idle
  BY DEF Return, Step, IInv, TypeOK
<1> QED
  BY <1>1, IdleFrame, IdleGood, ReadStep

(* A step that writes bill b and ends its handler. *)
LEMMA BillStepKeeps ==
    ASSUME IInv, NEW h \in Handlers, NEW b \in BillIds, Step(h, Idle, {b}),
           bills' \in [BillIds -> Bill \cup {Null, Gone}],
           payments' \in [PaymentIds -> Payment \cup {Null, Gone}],
           \A c \in BillIds \ {b} : bills'[c] = bills[c],
           \A p \in PaymentIds : PaymentKept(p),
           UNCHANGED <<credited, links, edited, started>>,
           b \notin overwritten \cup stale[h] /\ Live(bills'[b]) =>
              /\ bills'[b].remaining = bills'[b].total - bills'[b].paid
              /\ bills'[b].items <= 1
    PROVE  IInv'
<1>1. TypeOK
  BY DEF IInv
<1>2. {b} \in SUBSET Rows
  BY DEF Rows
<1>3. /\ call' \in [Handlers -> Frame]
      /\ stale' \in [Handlers -> SUBSET Rows]
      /\ overwritten' \subseteq Rows
      /\ call'[h] = Idle
      /\ Wrote(h, {b})
  BY <1>1, <1>2, StepTypes, IdleFrame
<1>4. TypeOK'
  BY <1>1, <1>3 DEF TypeOK, Rows
<1>5. PaymentIds \cap {b} = {}
  BY BillStoreAssumption
<1>6. b \notin overwritten' => b \notin overwritten \cup stale[h]
  BY <1>3 DEF Wrote
<1> QED
  BY <1>2, <1>3, <1>4, <1>5, <1>6, IdleGood, HandlerStep DEF BillKept

(* A step that writes payment p. *)
LEMMA PaymentStepKeeps ==
    ASSUME IInv, NEW h \in Handlers, NEW p \in PaymentIds, NEW f \in Frame,
           Step(h, f, {p}),
           payments' \in [PaymentIds -> Payment \cup {Null, Gone}],
           \A q \in PaymentIds \ {p} : payments'[q] = payments[q],
           links' \in [Links -> {"unmade", "made", "given", "paid", "reported"}],
           edited \subseteq edited', edited' \subseteq PaymentIds,
           UNCHANGED <<bills, credited, started>>,
           Shape(h)', Fresh(h)', Checked(h)', Crediting(h)',
           Live(payments'[p]) \/ ~Locked(p),
           p \notin overwritten \cup edited' /\ p \notin stale[h] =>
              /\ CreditIsDue(p)'
              /\ ~(Live(payments[p]) /\ payments[p].status = "completed")
    PROVE  IInv'
<1>1. TypeOK
  BY DEF IInv
<1>2. {p} \in SUBSET Rows
  BY DEF Rows
<1>3. /\ call' \in [Handlers -> Frame]
      /\ stale' \in [Handlers -> SUBSET Rows]
      /\ overwritten' \subseteq Rows
      /\ Wrote(h, {p})
  BY <1>1, <1>2, StepTypes
<1>4. TypeOK'
  BY <1>1, <1>3 DEF TypeOK, Rows
<1>5. BillIds \cap {p} = {}
  BY BillStoreAssumption
<1>6. p \notin overwritten' => p \notin stale[h] /\ p \notin overwritten
  BY <1>3 DEF Wrote
<1>7. ASSUME p \notin overwritten' \cup edited', NEW g \in Handlers,
             At(g, "updatePayment:credit"), call[g].payment = p
      PROVE  FALSE
  BY <1>6, <1>7 DEF IInv, Crediting, SamePayment, At
<1> QED
  BY <1>2, <1>3, <1>4, <1>5, <1>6, <1>7, HandlerStep DEF BillKept, PaymentKept

-----------------------------------------------------------------------------
(* The actions of Bills. *)

LEMMA LiveBill ==
    ASSUME TypeOK, NEW b \in BillIds, Live(bills[b])
    PROVE  bills[b] \in Bill
BY DEF TypeOK, Live

LEMMA LivePayment ==
    ASSUME TypeOK, NEW p \in PaymentIds, Live(payments[p])
    PROVE  payments[p] \in Payment
BY DEF TypeOK, Live

LEMMA NewBillsTyped ==
    \A row \in NewBills : /\ row \in Bill
                          /\ row.remaining = row.total - row.paid /\ row.items <= 1
<1>1. SUFFICES ASSUME NEW d \in Periods, NEW t \in Amounts, NEW s \in {"draft", "pending"},
                      NEW n \in {0, 1}, NEW row, row = BillOf(d, t, s, n)
               PROVE  /\ row \in Bill
                      /\ row.remaining = row.total - row.paid /\ row.items <= 1
  BY DEF NewBills, SentBills, RoomBills, MonthlyBills
<1>2. t \in Nat /\ s \in BillStatus
  BY BillStoreAssumption DEF BillStatus
<1> QED
  BY <1>1, <1>2 DEF Bill, BillOf

LEMMA BillIsLive == \A row \in Bill : Live(row)
BY BillStoreAssumption DEF Live

LEMMA PaymentIsLive == \A row \in Payment : Live(row)
BY BillStoreAssumption DEF Live

LEMMA CreateBillFindKeeps ==
    ASSUME IInv, NEW h \in Handlers, NEW row \in NewBills, CreateBill_FindExisting(h, row)
    PROVE  IInv'
<1> DEFINE f == [Idle EXCEPT !.at = "createBill:insert", !.brow = row]
<1>1. f \in Frame
  BY NewBillsTyped DEF Idle, Frame, Labels
<1>2. /\ Step(h, f, {}) /\ started' \in 0..MaxCalls
      /\ UNCHANGED <<bills, payments, credited, links, edited>>
  BY BillStoreAssumption DEF CreateBill_FindExisting, Begin, NotBills, IInv, TypeOK
<1>3. call'[h] = f
  BY <1>2 DEF Step, IInv, TypeOK
<1>4. Shape(h)' /\ Fresh(h)' /\ Checked(h)' /\ Crediting(h)'
  BY <1>3 DEF Idle, Shape, Fresh, Checked, Crediting
<1> QED
  BY <1>1, <1>2, <1>4, ReadStep DEF IInv, TypeOK

(* A step that inserts a row returns: nothing else changes. *)
LEMMA InsertStep ==
    ASSUME IInv, NEW h \in Handlers, Return(h),
           bills' \in [BillIds -> Bill \cup {Null, Gone}],
           payments' \in [PaymentIds -> Payment \cup {Null, Gone}],
           links' \in [Links -> {"unmade", "made", "given", "paid", "reported"}],
           \A b \in BillIds : BillKept(b),
           \A p \in PaymentIds : PaymentKept(p),
           UNCHANGED <<credited, edited, started>>
    PROVE  IInv'
<1>1. TypeOK
  BY DEF IInv
<1>2. {} \in SUBSET Rows
  OBVIOUS
<1>3. /\ call' \in [Handlers -> Frame]
      /\ stale' \in [Handlers -> SUBSET Rows]
      /\ overwritten' \subseteq Rows
      /\ call'[h] = Idle
      /\ Wrote(h, {})
  BY <1>1, <1>2, StepTypes, IdleFrame DEF Return
<1>4. TypeOK'
  BY <1>1, <1>3 DEF TypeOK, Rows
<1> QED
  BY <1>2, <1>3, <1>4, IdleGood, HandlerStep

LEMMA CreateBillInsertKeeps ==
    ASSUME IInv, NEW h \in Handlers, CreateBill_Insert(h)
    PROVE  IInv'
<1>1. PICK row \in NewBills : row = call[h].brow
  BY DEF CreateBill_Insert, At, IInv, Shape
<1>2. /\ Return(h) /\ UNCHANGED <<payments, credited, links, edited, started>>
      /\ row \in Bill /\ Live(row)
  BY NewBillsTyped, BillIsLive DEF CreateBill_Insert, NotBills
<1>3. CASE UNCHANGED bills
  BY <1>2, <1>3, ReturnStep DEF IInv, TypeOK
<1>4. CASE \E b \in BillIds : bills[b] = Null /\ bills' = [bills EXCEPT ![b] = row]
  <2>1. PICK b \in BillIds : bills[b] = Null /\ bills' = [bills EXCEPT ![b] = row]
    BY <1>4
  <2>2. bills' \in [BillIds -> Bill \cup {Null, Gone}]
    BY <1>2, <2>1 DEF IInv, TypeOK
  <2>3. \A c \in BillIds : BillKept(c)
    BY <1>1, <1>2, <2>1, NewBillsTyped DEF BillKept, Live, IInv, TypeOK
  <2> QED
    BY <1>2, <2>2, <2>3, InsertStep DEF PaymentKept, IInv, TypeOK
<1> QED
  BY <1>1, <1>3, <1>4 DEF CreateBill_Insert

LEMMA ReadBillKeeps ==
    ASSUME IInv, NEW h \in Handlers, NEW op, NEW b \in BillIds,
           NEW label \in {"updateBill:write", "deleteBill:delete", "meterData:clear",
                          "markPaid:write"},
           ReadBill(h, op, b, label),
           label # "markPaid:write" => bills[b].status # "paid"
    PROVE  IInv'
<1>1. PICK row \in Bill : row = bills[b]
  BY LiveBill DEF ReadBill, IInv
<1> DEFINE f == [Idle EXCEPT !.at = label, !.bill = b, !.brow = row]
<1>2. f \in Frame
  BY DEF Idle, Frame, Labels
<1>3. /\ Step(h, f, {}) /\ started' \in 0..MaxCalls
      /\ UNCHANGED <<bills, payments, credited, links, edited>>
  BY <1>1, BillStoreAssumption DEF ReadBill, Begin, NotBills, IInv, TypeOK
<1>4. call'[h] = f
  BY <1>3 DEF Step, IInv, TypeOK
<1>5. bills'[b] = row
  BY <1>1, <1>3
<1>6. Shape(h)' /\ Fresh(h)' /\ Checked(h)' /\ Crediting(h)'
  BY <1>1, <1>4, <1>5, BillIsLive
     DEF Idle, Shape, Fresh, SameBill, Checked, Crediting
<1> QED
  BY <1>2, <1>3, <1>6, ReadStep DEF IInv, TypeOK

(* What WriteBill writes is good if the new row is, when written from a    *)
(* fresh copy.                                                             *)
LEMMA WriteBillKeeps ==
    ASSUME IInv, NEW h \in Handlers, NEW row \in Bill, call[h].bill \in BillIds,
           WriteBill(h, row),
           call[h].bill \notin overwritten \cup stale[h] =>
              row.remaining = row.total - row.paid /\ row.items <= 1
    PROVE  IInv'
<1>1. PICK b \in BillIds : b = call[h].bill
  OBVIOUS
<1>2. CASE /\ bills' = [bills EXCEPT ![b] = row]
           /\ Step(h, Idle, {b})
           /\ UNCHANGED <<NotBills, started>>
  <2>1. /\ bills' \in [BillIds -> Bill \cup {Null, Gone}]
        /\ bills'[b] = row
        /\ \A c \in BillIds \ {b} : bills'[c] = bills[c]
    BY <1>2 DEF IInv, TypeOK
  <2>2. UNCHANGED <<payments, credited, links, edited, started>>
    BY <1>2 DEF NotBills
  <2> QED
    BY <1>1, <1>2, <2>1, <2>2, BillStepKeeps DEF PaymentKept, IInv, TypeOK
<1>3. CASE Return(h) /\ UNCHANGED <<bills, NotBills, started>>
  BY <1>3, ReturnStep DEF NotBills, IInv, TypeOK
<1> QED
  BY <1>1, <1>2, <1>3 DEF WriteBill

LEMMA PaidBillTyped ==
    ASSUME NEW now \in Bill, NEW s \in BillStatus, NEW v \in Nat, NEW r \in Int
    PROVE  [now EXCEPT !.status = s, !.paid = v, !.remaining = r] \in Bill
BY DEF Bill

LEMMA EditedBillTyped ==
    ASSUME NEW now \in Bill, NEW seen \in Bill, NEW s \in BillStatus, NEW t \in Nat
    PROVE  EditedBill(now, seen, s, t) \in Bill
<1>1. t - seen.paid \in Int
  BY DEF Bill
<1> QED
  BY <1>1 DEF Bill, EditedBill

LEMMA MeteredBillTyped ==
    ASSUME NEW now \in Bill, NEW seen \in Bill, NEW s \in BillStatus, NEW t \in Nat
    PROVE  [EditedBill(now, seen, s, t) EXCEPT !.items = @ + 1] \in Bill
<1>1. PICK row \in Bill : row = EditedBill(now, seen, s, t)
  BY EditedBillTyped
<1>2. [row EXCEPT !.items = @ + 1] \in Bill
  BY DEF Bill
<1> QED
  BY <1>1, <1>2

LEMMA UpdateBillWriteKeeps ==
    ASSUME IInv, NEW h \in Handlers, UpdateBill_Write(h)
    PROVE  IInv'
<1>1. PICK b \in BillIds : b = call[h].bill
  BY DEF UpdateBill_Write, At, IInv, Shape
<1>2. CASE ~Live(bills[b])
  <2>1. Return(h) /\ UNCHANGED <<bills, NotBills, started>>
    BY <1>1, <1>2 DEF UpdateBill_Write, WriteBill
  <2> QED
    BY <2>1, ReturnStep DEF NotBills, IInv, TypeOK
<1>3. CASE Live(bills[b])
  <2>1. PICK now \in Bill : now = bills[b]
    BY <1>3, LiveBill DEF IInv
  <2>2. PICK seen \in Bill : seen = call[h].brow
    BY <1>1, BillStoreAssumption DEF IInv, Shape
  <2>3. b \notin overwritten \cup stale[h] =>
           /\ now.remaining = now.total - now.paid /\ now.items <= 1
           /\ now.paid = seen.paid
    BY <1>1, <1>3, <2>1, <2>2, BillStoreAssumption
       DEF IInv, Fresh, SameBill, BillsAddUp, BillAddsUp, ItemsAreReplaced
  <2>4. ASSUME NEW s \in BillEdits \cup {now.status},
               WriteBill(h, [now EXCEPT !.status = s])
        PROVE  IInv'
    <3>1. PICK row \in Bill : row = [now EXCEPT !.status = s]
      BY BillStoreAssumption DEF Bill
    <3>2. b \notin overwritten \cup stale[h] =>
             row.remaining = row.total - row.paid /\ row.items <= 1
      BY <2>3, <3>1 DEF Bill
    <3> QED
      BY <1>1, <2>4, <3>1, <3>2, WriteBillKeeps
  <2>5. ASSUME NEW s \in BillEdits \cup {now.status}, NEW t \in Amounts,
               WriteBill(h, EditedBill(now, seen, s, t))
        PROVE  IInv'
    <3>1. s \in BillStatus /\ t \in Nat
      BY BillStoreAssumption DEF Bill
    <3>2. PICK row \in Bill : row = EditedBill(now, seen, s, t)
      BY <2>1, <2>2, <3>1, EditedBillTyped
    <3>3. b \notin overwritten \cup stale[h] =>
             row.remaining = row.total - row.paid /\ row.items <= 1
      BY <2>3, <3>1, <3>2 DEF Bill, EditedBill
    <3> QED
      BY <1>1, <2>5, <3>2, <3>3, WriteBillKeeps
  <2> QED
    BY <1>1, <1>3, <2>1, <2>2, <2>4, <2>5 DEF UpdateBill_Write
<1> QED
  BY <1>2, <1>3

LEMMA MeterDataWriteKeeps ==
    ASSUME IInv, NEW h \in Handlers, MeterData_Write(h)
    PROVE  IInv'
<1>1. PICK b \in BillIds : b = call[h].bill
  BY DEF MeterData_Write, At, IInv, Shape
<1>2. CASE ~Live(bills[b])
  <2>1. Return(h) /\ UNCHANGED <<bills, NotBills, started>>
    BY <1>1, <1>2 DEF MeterData_Write, WriteBill
  <2> QED
    BY <2>1, ReturnStep DEF NotBills, IInv, TypeOK
<1>3. CASE Live(bills[b])
  <2>1. PICK now \in Bill : now = bills[b]
    BY <1>3, LiveBill DEF IInv
  <2>2. PICK seen \in Bill : seen = call[h].brow
    BY <1>1, BillStoreAssumption DEF IInv, Shape
  <2>3. b \notin stale[h] => now.items = 0 /\ now.paid = seen.paid
    BY <1>1, <1>3, <2>1, <2>2, BillStoreAssumption
       DEF IInv, Fresh, SameBill, MeterData_Write, At
  <2>4. PICK t \in Amounts, s \in {seen.status} \cup {"pending"} :
           WriteBill(h, [EditedBill(now, seen, s, t) EXCEPT !.items = @ + 1])
    BY <1>1, <1>3, <2>1, <2>2 DEF MeterData_Write
  <2>5. s \in BillStatus /\ t \in Nat
    BY BillStoreAssumption DEF Bill, BillStatus
  <2>6. PICK row \in Bill : row = [EditedBill(now, seen, s, t) EXCEPT !.items = @ + 1]
    BY <2>1, <2>2, <2>5, MeteredBillTyped
  <2>7. b \notin overwritten \cup stale[h] =>
           row.remaining = row.total - row.paid /\ row.items <= 1
    BY <2>3, <2>5, <2>6 DEF Bill, EditedBill
  <2> QED
    BY <1>1, <2>4, <2>6, <2>7, WriteBillKeeps
<1> QED
  BY <1>2, <1>3

LEMMA MarkBillAsPaidWriteKeeps ==
    ASSUME IInv, NEW h \in Handlers, MarkBillAsPaid_Write(h)
    PROVE  IInv'
<1>1. PICK b \in BillIds : b = call[h].bill
  BY DEF MarkBillAsPaid_Write, At, IInv, Shape
<1>2. CASE ~Live(bills[b])
  <2>1. Return(h) /\ UNCHANGED <<bills, NotBills, started>>
    BY <1>1, <1>2 DEF MarkBillAsPaid_Write, WriteBill
  <2> QED
    BY <2>1, ReturnStep DEF NotBills, IInv, TypeOK
<1>3. CASE Live(bills[b])
  <2>1. PICK now \in Bill : now = bills[b]
    BY <1>3, LiveBill DEF IInv
  <2>2. PICK seen \in Bill : seen = call[h].brow
    BY <1>1, BillStoreAssumption DEF IInv, Shape
  <2>3. b \notin overwritten \cup stale[h] => now.items <= 1 /\ now.total = seen.total
    BY <1>1, <1>3, <2>1, <2>2, BillStoreAssumption
       DEF IInv, Fresh, SameBill, ItemsAreReplaced
  <2>4. PICK row \in Bill : row = [now EXCEPT !.status = "paid", !.paid = seen.total,
                                             !.remaining = 0]
    <3>1. "paid" \in BillStatus /\ seen.total \in Nat /\ 0 \in Int
      BY <2>2 DEF Bill, BillStatus
    <3> QED
      BY <2>1, <3>1, PaidBillTyped
  <2>5. b \notin overwritten \cup stale[h] =>
           row.remaining = row.total - row.paid /\ row.items <= 1
    BY <2>3, <2>4 DEF Bill
  <2>6. WriteBill(h, row)
    BY <1>1, <1>3, <2>1, <2>2, <2>4 DEF MarkBillAsPaid_Write
  <2> QED
    BY <1>1, <2>5, <2>6, WriteBillKeeps
<1> QED
  BY <1>2, <1>3

LEMMA DeleteBillKeeps ==
    ASSUME IInv, NEW h \in Handlers, DeleteBill_Delete(h)
    PROVE  IInv'
<1>1. PICK b \in BillIds : b = call[h].bill
  BY DEF DeleteBill_Delete, At, IInv, Shape
<1>2. CASE Return(h) /\ UNCHANGED <<bills, payments, credited, links, edited, started>>
  BY <1>2, ReturnStep DEF IInv, TypeOK
<1>3. CASE /\ bills' = [bills EXCEPT ![b] = Gone]
           /\ payments' = [p \in PaymentIds |->
                             IF Live(payments[p]) /\ payments[p].bill = b
                             THEN [payments[p] EXCEPT !.bill = Null]
                             ELSE payments[p]]
           /\ Step(h, Idle, {b})
           /\ UNCHANGED <<credited, links, edited, started>>
  <2>1. /\ bills' \in [BillIds -> Bill \cup {Null, Gone}]
        /\ \A c \in BillIds \ {b} : bills'[c] = bills[c]
        /\ ~Live(bills'[b])
    BY <1>3 DEF IInv, TypeOK, Live
  <2>2. ASSUME NEW p \in PaymentIds
        PROVE  payments'[p] \in Payment \cup {Null, Gone} /\ PaymentKept(p)
    <3>1. CASE Live(payments[p]) /\ payments[p].bill = b
      <4>1. PICK row \in Payment : row = payments[p]
        BY <3>1, LivePayment DEF IInv
      <4>2. payments'[p] = [row EXCEPT !.bill = Null]
        BY <1>3, <3>1, <4>1
      <4>3. [row EXCEPT !.bill = Null] \in Payment
        BY DEF Payment
      <4> QED
        BY <3>1, <4>1, <4>2, <4>3, PaymentIsLive DEF Payment, PaymentKept
    <3>2. CASE ~(Live(payments[p]) /\ payments[p].bill = b)
      BY <1>3, <3>2 DEF PaymentKept, IInv, TypeOK
    <3> QED
      BY <3>1, <3>2
  <2>3. payments' \in [PaymentIds -> Payment \cup {Null, Gone}]
    BY <1>3, <2>2
  <2> QED
    BY <1>3, <2>1, <2>2, <2>3, BillStepKeeps
<1> QED
  BY <1>1, <1>2, <1>3 DEF DeleteBill_Delete

LEMMA ClearItemsKeeps ==
    ASSUME IInv, NEW h \in Handlers, MeterData_ClearItems(h)
    PROVE  IInv'
<1>1. TypeOK /\ {} \in SUBSET Rows
  BY DEF IInv
<1>2. PICK f \in Frame : f = call[h]
  BY <1>1 DEF TypeOK
<1>3. PICK k \in Frame : k = [f EXCEPT !.at = "meterData:write"]
  BY DEF Frame, Labels
<1>4. /\ Step(h, k, {}) /\ UNCHANGED <<payments, credited, links, edited, started>>
      /\ f.at = "meterData:clear" /\ f.bill \in BillIds /\ f.bill # Null
  BY <1>2, <1>3, BillStoreAssumption
     DEF MeterData_ClearItems, NotBills, At, IInv, Shape
<1>5. /\ call' \in [Handlers -> Frame]
      /\ stale' \in [Handlers -> SUBSET Rows]
      /\ overwritten' \subseteq Rows
      /\ call'[h] = k
      /\ stale'[h] = stale[h] \cap Holds(k)
      /\ Wrote(h, {})
  BY <1>1, <1>4, StepTypes
<1>6. ASSUME NEW c \in BillIds
      PROVE  /\ bills'[c] \in Bill \cup {Null, Gone}
             /\ BillKept(c)
             /\ c = f.bill /\ Live(bills[c]) => bills'[c].items = 0
  <2>1. CASE c = f.bill /\ Live(bills[c])
    <3>1. PICK row \in Bill : row = bills[c]
      BY <1>1, <2>1, LiveBill
    <3>2. bills'[c] = [row EXCEPT !.items = 0]
      BY <1>1, <1>2, <2>1, <3>1 DEF MeterData_ClearItems, TypeOK
    <3>3. [row EXCEPT !.items = 0] \in Bill
      BY DEF Bill
    <3> QED
      BY <2>1, <3>1, <3>2, <3>3, BillIsLive DEF Bill, BillKept
  <2>2. CASE ~(c = f.bill /\ Live(bills[c]))
    BY <1>1, <1>2, <2>2 DEF MeterData_ClearItems, TypeOK, BillKept
  <2> QED
    BY <2>1, <2>2
<1>7. bills' \in [BillIds -> Bill \cup {Null, Gone}]
  BY <1>1, <1>2, <1>6 DEF MeterData_ClearItems, TypeOK
<1>8. TypeOK'
  BY <1>1, <1>4, <1>5, <1>7 DEF TypeOK, Rows
<1>9. f.bill \in stale'[h] <=> f.bill \in stale[h]
  BY <1>3, <1>4, <1>5 DEF Frame, Holds
<1>10. /\ f.bill \notin stale[h] => SameBill(bills[f.bill], f.brow)
       /\ f.payment # Null /\ f.payment \notin stale[h]
             => SamePayment(payments[f.payment], f.prow)
  BY <1>2, <1>4 DEF IInv, Fresh
<1>11. f.bill \notin stale'[h] => SameBill(bills'[f.bill], f.brow)
                                 /\ bills'[f.bill].items = 0
  BY <1>4, <1>6, <1>9, <1>10 DEF SameBill, BillKept
<1>12. f.payment # Null /\ f.payment \notin stale'[h]
          => SamePayment(payments'[f.payment], f.prow)
  BY <1>3, <1>4, <1>5, <1>10 DEF Frame, Holds
<1>13. Fresh(h)'
  BY <1>3, <1>5, <1>11, <1>12 DEF Frame, Fresh
<1>14. Shape(h)' /\ Checked(h)' /\ Crediting(h)'
  BY <1>2, <1>3, <1>4, <1>5 DEF Frame, IInv, Shape, Checked, Crediting
<1> QED
  BY <1>1, <1>4, <1>5, <1>6, <1>8, <1>13, <1>14, HandlerStep DEF PaymentKept

-----------------------------------------------------------------------------
(* The actions of Payos. *)

LEMMA CreateLinkReadKeeps ==
    ASSUME IInv, NEW h \in Handlers, NEW b \in BillIds, CreateLink_Read(h, b)
    PROVE  IInv'
<1>1. PICK row \in Bill : row = bills[b] /\ row.remaining > 0
  BY LiveBill DEF CreateLink_Read, IInv
<1> DEFINE f == [Idle EXCEPT !.at = "link:find", !.bill = b, !.brow = row]
<1>2. f \in Frame
  BY DEF Idle, Frame, Labels
<1>3. /\ Step(h, f, {}) /\ started' \in 0..MaxCalls
      /\ UNCHANGED <<bills, payments, credited, links, edited>>
  BY <1>1, BillStoreAssumption DEF CreateLink_Read, Begin, IInv, TypeOK
<1>4. call'[h] = f /\ bills'[b] = row
  BY <1>1, <1>3 DEF Step, IInv, TypeOK
<1>5. Shape(h)' /\ Fresh(h)' /\ Checked(h)' /\ Crediting(h)'
  BY <1>1, <1>4, BillIsLive DEF Idle, Shape, Fresh, SameBill, Checked, Crediting
<1> QED
  BY <1>2, <1>3, <1>5, ReadStep DEF IInv, TypeOK

LEMMA CreateLinkFindKeeps ==
    ASSUME IInv, NEW h \in Handlers, CreateLink_Find(h)
    PROVE  IInv'
<1>1. PICK f \in Frame : f = call[h]
  BY DEF IInv, TypeOK
<1>2. /\ f.at = "link:find" /\ f.bill \in BillIds /\ f.bill # Null /\ f.brow \in Bill
      /\ f.brow.remaining > 0
  BY <1>1, BillStoreAssumption DEF CreateLink_Find, At, IInv, Shape
<1>3. UNCHANGED <<bills, payments, credited, edited, started>>
  BY DEF CreateLink_Find
<1>4. CASE Return(h) /\ UNCHANGED links
  BY <1>3, <1>4, ReturnStep DEF IInv, TypeOK
<1>5. ASSUME NEW l \in Links, links' = [links EXCEPT ![l] = "made"],
             NEW k \in Frame, Step(h, k, {}),
             k.at = "link:write", k.link = l, k.bill = f.bill, k.brow = f.brow,
             \/ k.payment = f.payment /\ k.prow = f.prow /\ f.payment = Null
             \/ /\ k.payment \in PaymentIds /\ k.prow \in Payment
                /\ k.prow = payments[k.payment] /\ k.prow.status = "pending"
      PROVE  IInv'
  <2>1. TypeOK /\ {} \in SUBSET Rows
    BY DEF IInv
  <2>2. call'[h] = k /\ stale'[h] = stale[h] \cap Holds(k)
    BY <1>5, <2>1, StepTypes
  <2>3. f.bill \in stale'[h] <=> f.bill \in stale[h]
    BY <1>2, <1>5, <2>2 DEF Holds
  <2>4. f.bill \notin stale[h] => SameBill(bills[f.bill], f.brow)
    BY <1>1, <1>2 DEF IInv, Fresh
  <2>5. k.payment # Null => SamePayment(payments[k.payment], k.prow)
    BY <1>5, PaymentIsLive DEF SamePayment
  <2>6. Fresh(h)'
    BY <1>2, <1>3, <1>5, <2>2, <2>3, <2>4, <2>5 DEF Fresh
  <2>7. Shape(h)' /\ Checked(h)' /\ Crediting(h)'
    BY <1>2, <1>5, <2>2 DEF Shape, Checked, Crediting
  <2>8. links' \in [Links -> {"unmade", "made", "given", "paid", "reported"}]
    BY <1>5 DEF IInv, TypeOK
  <2> QED
    BY <1>3, <1>5, <2>6, <2>7, <2>8, ReadStep DEF IInv, TypeOK
<1>6. ASSUME NEW l \in Links, links' = [links EXCEPT ![l] = "made"],
             Step(h, [f EXCEPT !.at = "link:write", !.link = l], {})
      PROVE  IInv'
  <2>1. f.payment = Null
    BY <1>1, <1>2 DEF IInv, Shape
  <2>2. PICK k \in Frame : k = [f EXCEPT !.at = "link:write", !.link = l]
    BY DEF Frame, Labels
  <2> QED
    BY <1>5, <1>6, <2>1, <2>2 DEF Frame
<1>7. ASSUME NEW l \in Links, links' = [links EXCEPT ![l] = "made"],
             NEW p \in PendingTransfers(f.bill),
             Step(h, [f EXCEPT !.at = "link:write", !.link = l, !.payment = p,
                               !.prow = payments[p]], {})
      PROVE  IInv'
  <2>1. PICK row \in Payment : row = payments[p] /\ row.status = "pending" /\ p \in PaymentIds
    BY <1>7, LivePayment DEF PendingTransfers, IInv
  <2>2. PICK k \in Frame : k = [f EXCEPT !.at = "link:write", !.link = l, !.payment = p,
                                         !.prow = row]
    BY <2>1 DEF Frame, Labels
  <2> QED
    BY <1>5, <1>7, <2>1, <2>2 DEF Frame
<1> QED
  BY <1>1, <1>4, <1>6, <1>7 DEF CreateLink_Find

LEMMA CreateLinkWriteKeeps ==
    ASSUME IInv, NEW h \in Handlers, CreateLink_Write(h)
    PROVE  IInv'
<1>1. PICK f \in Frame : f = call[h]
  BY DEF IInv, TypeOK
<1>2. /\ f.at = "link:write" /\ f.bill \in BillIds /\ f.brow \in Bill
      /\ f.brow.remaining > 0 /\ f.link \in Links
      /\ f.payment # Null => /\ f.payment \in PaymentIds
                             /\ f.prow.status # "completed"
  BY <1>1, BillStoreAssumption DEF CreateLink_Write, At, IInv, Shape, Checked, Frame
<1>3. UNCHANGED <<bills, credited, edited, started>>
  BY DEF CreateLink_Write
<1>4. PICK v \in Nat : v = f.brow.remaining
  BY <1>2 DEF Bill
<1>5. links' = links \/ links' = [links EXCEPT ![f.link] = "given"]
  BY <1>1 DEF CreateLink_Write
<1>6. links' \in [Links -> {"unmade", "made", "given", "paid", "reported"}]
  BY <1>2, <1>5 DEF IInv, TypeOK
<1>7. CASE Return(h) /\ UNCHANGED payments
  BY <1>3, <1>6, <1>7, ReturnStep DEF IInv, TypeOK
<1>8. ASSUME NEW q \in PaymentIds, payments[q] = Null, Return(h),
             payments' = [payments EXCEPT ![q] =
                [bill |-> f.bill, payer |-> "tenant", amount |-> v,
                 transfer |-> TRUE, status |-> "pending", ref |-> f.link]]
      PROVE  IInv'
  <2>1. PICK row \in Payment : row = [bill |-> f.bill, payer |-> "tenant", amount |-> v,
                                     transfer |-> TRUE, status |-> "pending",
                                     ref |-> f.link]
    BY <1>2 DEF Payment, Users, PaymentStatus, References
  <2>2. payments' = [payments EXCEPT ![q] = row]
    BY <1>8, <2>1
  <2>3. payments' \in [PaymentIds -> Payment \cup {Null, Gone}]
    BY <2>2 DEF IInv, TypeOK
  <2>4. \A p \in PaymentIds : PaymentKept(p)
    BY <1>8, <2>2, PaymentIsLive DEF PaymentKept, Live, IInv, TypeOK
  <2> QED
    BY <1>3, <1>6, <1>8, <2>3, <2>4, InsertStep DEF BillKept, IInv, TypeOK
<1>9. ASSUME NEW p \in PaymentIds, p = f.payment, p # Null, Live(payments[p]), ~Locked(p),
             payments' = [payments EXCEPT ![p].amount = v, ![p].ref = f.link],
             Step(h, Idle, {p})
      PROVE  IInv'
  <2>1. PICK now \in Payment : now = payments[p]
    BY <1>9, LivePayment DEF IInv
  <2>2. PICK row \in Payment : row = [now EXCEPT !.amount = v, !.ref = f.link]
    BY <1>2 DEF Payment, References
  <2>3. payments' = [payments EXCEPT ![p] = row]
    BY <1>9, <2>1, <2>2 DEF IInv, TypeOK
  <2>4. /\ payments' \in [PaymentIds -> Payment \cup {Null, Gone}]
        /\ \A q \in PaymentIds \ {p} : payments'[q] = payments[q]
    BY <2>3 DEF IInv, TypeOK
  <2>5. call'[h] = Idle
    BY <1>9 DEF Step, IInv, TypeOK
  <2>6. p \notin stale[h] => payments[p].status # "completed"
    BY <1>1, <1>2, <1>9 DEF IInv, Fresh, SamePayment
  <2>7. p \notin overwritten \cup edited' /\ p \notin stale[h] => credited[p] = 0
    BY <1>3, <2>6 DEF IInv, CreditedAtMostOnce, CreditIsDue
  <2>8. p \notin overwritten \cup edited' /\ p \notin stale[h] => CreditIsDue(p)'
    BY <1>3, <2>7 DEF CreditIsDue
  <2>9. edited \subseteq edited' /\ edited' \subseteq PaymentIds
    BY <1>3 DEF IInv, TypeOK
  <2> QED
    BY <1>3, <1>6, <1>9, <2>4, <2>5, <2>6, <2>8, <2>9, IdleFrame, IdleGood,
       PaymentStepKeeps
<1> QED
  BY <1>1, <1>2, <1>4, <1>7, <1>8, <1>9 DEF CreateLink_Write

(* PayOS learns something about a link. *)
LEMMA LinkKeeps ==
    ASSUME IInv, NEW l \in Links,
           PayLink(l) \/ \E h \in Handlers : Success_Ignore(h, l)
    PROVE  IInv'
<1>1. /\ \E s \in {"paid", "reported"} : links' = [links EXCEPT ![l] = s]
      /\ UNCHANGED <<bills, payments, credited, call, started, stale, overwritten, edited>>
  BY DEF PayLink, Success_Ignore, history
<1>2. TypeOK'
  BY <1>1 DEF IInv, TypeOK
<1>3. ASSUME NEW h \in Handlers
      PROVE  Shape(h)' /\ Fresh(h)' /\ Checked(h)' /\ Crediting(h)'
  <2>1. Shape(h) /\ Fresh(h) /\ Checked(h) /\ Crediting(h)
    BY DEF IInv
  <2> QED
    BY <1>1, <2>1 DEF Shape, Fresh, Checked, Crediting, At
<1> QED
  BY <1>1, <1>2, <1>3
     DEF IInv, BillsAddUp, BillAddsUp, ItemsAreReplaced, CreditedAtMostOnce, CreditIsDue

(* The handlers whose first read is of a payment. *)
LEMMA ReadPaymentKeeps ==
    ASSUME IInv, NEW h \in Handlers, NEW p \in PaymentIds, NEW f \in Frame,
           f.at \in {"success:pay", "failure:write", "updatePayment:write",
                     "deletePayment:delete"},
           f.at \in {"success:pay", "failure:write"} => f.link \in Links,
           f.at # "updatePayment:write" => payments[p].status # "completed",
           f.bill = Null, f.payment = p, f.prow = payments[p],
           Live(payments[p]), Step(h, f, {}),
           UNCHANGED <<bills, payments, credited, links, edited>>,
           started' \in 0..MaxCalls
    PROVE  IInv'
<1>1. PICK row \in Payment : row = payments[p]
  BY LivePayment DEF IInv
<1>2. call'[h] = f /\ payments'[p] = row
  BY <1>1 DEF Step, IInv, TypeOK
<1>3. Shape(h)' /\ Fresh(h)' /\ Checked(h)' /\ Crediting(h)'
  BY <1>1, <1>2, PaymentIsLive DEF Shape, Fresh, SamePayment, Checked, Crediting
<1> QED
  BY <1>3, ReadStep DEF IInv, TypeOK

LEMMA SuccessReadKeeps ==
    ASSUME IInv, NEW h \in Handlers, NEW l \in Links, Success_Read(h, l)
    PROVE  IInv'
<1>1. PICK p \in PaymentIds :
         /\ Unprocessed(p, l)
         /\ Step(h, [Idle EXCEPT !.at = "success:pay", !.payment = p, !.link = l,
                                 !.prow = payments[p]], {})
  BY DEF Success_Read
<1>2. UNCHANGED <<bills, payments, credited, links, edited, started>>
  BY DEF Success_Read
<1>3. PICK row \in Payment : row = payments[p]
  BY <1>1, LivePayment DEF Unprocessed, Referenced, IInv
<1> DEFINE f == [Idle EXCEPT !.at = "success:pay", !.payment = p, !.link = l, !.prow = row]
<1>4. /\ f \in Frame /\ f.at = "success:pay" /\ f.bill = Null /\ f.payment = p
      /\ f.link = l /\ f.prow = row
  BY DEF Idle, Frame, Labels
<1>5. Step(h, f, {})
  BY <1>1, <1>3
<1> HIDE DEF f
<1> QED
  BY <1>1, <1>2, <1>3, <1>4, <1>5, ReadPaymentKeeps DEF Unprocessed, Referenced, IInv, TypeOK

LEMMA FailureReadKeeps ==
    ASSUME IInv, NEW h \in Handlers, NEW l \in Links, Failure_Read(h, l)
    PROVE  IInv'
<1>1. PICK p \in PaymentIds :
         /\ Unprocessed(p, l)
         /\ Begin(h, "webhookFailure",
                  [Idle EXCEPT !.at = "failure:write", !.payment = p, !.link = l,
                               !.prow = payments[p]])
  BY DEF Failure_Read
<1>2. /\ UNCHANGED <<bills, payments, credited, links, edited>>
      /\ started' \in 0..MaxCalls
  BY <1>1, BillStoreAssumption DEF Failure_Read, Begin, IInv, TypeOK
<1>3. PICK row \in Payment : row = payments[p]
  BY <1>1, LivePayment DEF Unprocessed, Referenced, IInv
<1> DEFINE f == [Idle EXCEPT !.at = "failure:write", !.payment = p, !.link = l, !.prow = row]
<1>4. /\ f \in Frame /\ f.at = "failure:write" /\ f.bill = Null /\ f.payment = p
      /\ f.link = l /\ f.prow = row
  BY DEF Idle, Frame, Labels
<1>5. Step(h, f, {})
  BY <1>1, <1>3 DEF Begin
<1> HIDE DEF f
<1> QED
  BY <1>1, <1>2, <1>3, <1>4, <1>5, ReadPaymentKeeps DEF Unprocessed, Referenced

LEMMA SuccessPayKeeps ==
    ASSUME IInv, NEW h \in Handlers, Success_Pay(h)
    PROVE  IInv'
<1>1. PICK f \in Frame : f = call[h]
  BY DEF IInv, TypeOK
<1>2. /\ f.at = "success:pay" /\ f.payment \in PaymentIds /\ f.payment # Null
      /\ f.prow \in Payment /\ f.prow.status # "completed" /\ f.link \in Links
  BY <1>1, BillStoreAssumption DEF Success_Pay, At, IInv, Shape, Checked
<1>3. UNCHANGED <<bills, payments, credited, links, edited, started>>
  BY DEF Success_Pay
<1>4. CASE Return(h)
  BY <1>3, <1>4, ReturnStep DEF IInv, TypeOK
<1>5. PICK b \in BillIds \cup {Null} : b = f.prow.bill
  BY <1>2 DEF Payment
<1>6. ASSUME Live(payments[f.payment]), b # Null => Live(bills[b]),
             Step(h, [f EXCEPT !.at = "success:commit", !.bill = b,
                               !.brow = IF b = Null THEN Null ELSE bills[b]], {})
      PROVE  IInv'
  <2>1. PICK seen \in Bill \cup {Null} : seen = IF b = Null THEN Null ELSE bills[b]
    BY <1>6, LiveBill DEF IInv
  <2>2. PICK k \in Frame : k = [f EXCEPT !.at = "success:commit", !.bill = b,
                                         !.brow = seen]
    BY DEF Frame, Labels
  <2>3. Step(h, k, {})
    BY <1>6, <2>1, <2>2
  <2>4. TypeOK /\ {} \in SUBSET Rows
    BY DEF IInv
  <2>5. call'[h] = k /\ stale'[h] = stale[h] \cap Holds(k)
    BY <2>3, <2>4, StepTypes
  <2>6. /\ k.at = "success:commit" /\ k.bill = b /\ k.brow = seen
        /\ k.payment = f.payment /\ k.prow = f.prow /\ k.link = f.link
    BY <2>2 DEF Frame
  <2>7. f.payment \in stale'[h] <=> f.payment \in stale[h]
    BY <1>2, <2>5, <2>6 DEF Holds
  <2>8. f.payment \notin stale[h] => SamePayment(payments[f.payment], f.prow)
    BY <1>1, <1>2 DEF IInv, Fresh
  <2>9. b # Null => SameBill(bills[b], seen) /\ seen \in Bill
    BY <1>5, <1>6, <2>1, BillIsLive DEF SameBill, Live
  <2>10. Fresh(h)'
    BY <1>3, <1>6, <2>5, <2>6, <2>7, <2>8, <2>9 DEF Fresh
  <2>11. Shape(h)' /\ Checked(h)' /\ Crediting(h)'
    BY <1>2, <2>5, <2>6, <2>9 DEF Shape, Checked, Crediting
  <2> QED
    BY <1>3, <2>3, <2>10, <2>11, ReadStep DEF IInv, TypeOK
<1> QED
  BY <1>1, <1>4, <1>5, <1>6 DEF Success_Pay

(* What a payment leaves open on a bill. *)
LEMMA AppliedPaymentAddsUp ==
    ASSUME NEW now \in Bill, NEW seen \in Bill, NEW v \in Nat
    PROVE  /\ AppliedPayment(now, seen, v) \in Bill
           /\ AppliedPayment(now, seen, v).total = now.total
           /\ AppliedPayment(now, seen, v).items = now.items
           /\ AppliedPayment(now, seen, v).remaining
                 = seen.total - AppliedPayment(now, seen, v).paid
           /\ AppliedPayment(now, seen, v).status \in {"paid", "pending"}
           /\ AppliedPayment(now, seen, v).status = "paid"
                 <=> AppliedPayment(now, seen, v).remaining = 0
<1>1. PICK total \in Nat, before \in Nat : total = seen.total /\ before = seen.paid
  BY DEF Bill
<1>2. PICK paid \in Nat : paid = Lesser(total, before + v)
  BY DEF Lesser
<1>3. PICK remaining \in Int : remaining = total - paid
  OBVIOUS
<1>4. PICK status \in {"paid", "pending"} :
         status = IF remaining = 0 THEN "paid" ELSE "pending"
  OBVIOUS
<1>5. AppliedPayment(now, seen, v)
         = [now EXCEPT !.paid = paid, !.remaining = remaining, !.status = status]
  BY <1>1, <1>2, <1>3, <1>4 DEF AppliedPayment
<1>6. now = [period |-> now.period, status |-> now.status, total |-> now.total,
             paid |-> now.paid, remaining |-> now.remaining, items |-> now.items]
  BY DEF Bill
<1>7. PICK row \in Bill : row = [now EXCEPT !.paid = paid, !.remaining = remaining,
                                            !.status = status]
  BY DEF Bill, BillStatus
<1>8. /\ row.total = now.total /\ row.items = now.items /\ row.paid = paid
      /\ row.remaining = remaining /\ row.status = status
  BY <1>7 DEF Bill
<1> QED
  BY <1>1, <1>3, <1>4, <1>5, <1>7, <1>8

LEMMA FailureWriteKeeps ==
    ASSUME IInv, NEW h \in Handlers, Failure_Write(h)
    PROVE  IInv'
<1>1. PICK f \in Frame : f = call[h]
  BY DEF IInv, TypeOK
<1>2. PICK p \in PaymentIds : p = f.payment
  BY <1>1 DEF Failure_Write, At, IInv, Shape
<1>3. /\ f.prow \in Payment /\ f.prow.status # "completed" /\ f.link \in Links
      /\ p # Null
  BY <1>1, <1>2, BillStoreAssumption DEF Failure_Write, At, IInv, Shape, Checked
<1>4. UNCHANGED <<bills, credited, links, edited, started>>
  BY DEF Failure_Write
<1>5. CASE Return(h) /\ UNCHANGED payments
  BY <1>4, <1>5, ReturnStep DEF IInv, TypeOK
<1>6. ASSUME NEW r \in {f.prow.ref, Receipt(f.link)}, Live(payments[p]), ~Locked(p),
             Step(h, Idle, {p}),
             payments' = [payments EXCEPT ![p].status = "failed", ![p].ref = r]
      PROVE  IInv'
  <2>1. PICK now \in Payment : now = payments[p]
    BY <1>6, LivePayment DEF IInv
  <2>2. r \in References
    BY <1>3 DEF Payment, References
  <2>3. PICK row \in Payment : row = [now EXCEPT !.status = "failed", !.ref = r]
    BY <2>2 DEF Payment, PaymentStatus
  <2>4. payments' = [payments EXCEPT ![p] = row]
    BY <1>6, <2>1, <2>3 DEF IInv, TypeOK
  <2>5. /\ payments' \in [PaymentIds -> Payment \cup {Null, Gone}]
        /\ \A q \in PaymentIds \ {p} : payments'[q] = payments[q]
    BY <2>4 DEF IInv, TypeOK
  <2>6. call'[h] = Idle
    BY <1>6 DEF Step, IInv, TypeOK
  <2>7. p \notin stale[h] => payments[p].status # "completed"
    BY <1>1, <1>2, <1>3 DEF IInv, Fresh, SamePayment
  <2>8. p \notin overwritten \cup edited' /\ p \notin stale[h] => CreditIsDue(p)'
    BY <1>4, <2>7 DEF IInv, CreditedAtMostOnce, CreditIsDue
  <2>9. /\ edited \subseteq edited' /\ edited' \subseteq PaymentIds
        /\ links' \in [Links -> {"unmade", "made", "given", "paid", "reported"}]
    BY <1>4 DEF IInv, TypeOK
  <2> QED
    BY <1>4, <1>6, <2>5, <2>6, <2>7, <2>8, <2>9, IdleFrame, IdleGood, PaymentStepKeeps
<1> QED
  BY <1>1, <1>2, <1>5, <1>6 DEF Failure_Write

LEMMA SuccessCommitKeeps ==
    ASSUME IInv, NEW h \in Handlers, Success_Commit(h)
    PROVE  IInv'
<1>1. TypeOK
  BY DEF IInv
<1>2. PICK f \in Frame : f = call[h]
  BY <1>1 DEF TypeOK
<1>3. PICK p \in PaymentIds : p = f.payment
  BY <1>2 DEF Success_Commit, At, IInv, Shape
<1>4. PICK b \in BillIds \cup {Null} : b = f.bill
  BY DEF Frame
<1>5. PICK paid \in Payment : paid = f.prow
  BY <1>2, BillStoreAssumption DEF Success_Commit, At, IInv, Shape
<1>6. PICK now \in Payment : now = payments[p]
  BY <1>1, <1>2, <1>3, LivePayment DEF Success_Commit, At, IInv, Fresh
<1>7. /\ paid.status # "completed" /\ f.link \in Links /\ p # Null
      /\ b # Null => f.brow \in Bill
      /\ p \notin stale[h] => SamePayment(now, paid)
      /\ b # Null /\ b \notin stale[h] => SameBill(bills[b], f.brow)
  BY <1>2, <1>3, <1>4, <1>5, <1>6, BillStoreAssumption
     DEF Success_Commit, At, IInv, Shape, Checked, Fresh
<1>8. /\ UNCHANGED <<edited, started>>
      /\ links' \in [Links -> {"unmade", "made", "given", "paid", "reported"}]
  BY <1>1, <1>2, <1>7 DEF Success_Commit, TypeOK
<1>9. CASE Return(h) /\ UNCHANGED <<bills, payments, credited, links>>
  BY <1>8, <1>9, ReturnStep DEF IInv, TypeOK
<1>10. ASSUME NEW r \in {paid.ref, Receipt(f.link)}, b = Null \/ Live(bills[b]),
              payments' = [payments EXCEPT ![p].status = "completed", ![p].ref = r],
              bills' = IF b = Null THEN bills
                       ELSE [bills EXCEPT ![b] = AppliedPayment(@, f.brow, paid.amount)],
              credited' = IF paid.payer # "tenant" THEN credited
                          ELSE [credited EXCEPT ![p] = @ + paid.amount],
              Step(h, Idle, {p, b} \ {Null})
       PROVE  IInv'
  <2> DEFINE rows == {p, b} \ {Null}
  <2>1. PICK row \in Payment : /\ row = [now EXCEPT !.status = "completed", !.ref = r]
                               /\ row.status = "completed" /\ row.amount = now.amount
    <3>1. r \in References
      BY <1>7 DEF Payment, References
    <3>2. PICK new \in Payment : new = [now EXCEPT !.status = "completed", !.ref = r]
      BY <3>1 DEF Payment, PaymentStatus
    <3>3. new.status = "completed" /\ new.amount = now.amount
      BY <3>2 DEF Payment
    <3> QED
      BY <3>2, <3>3
  <2>2. payments' = [payments EXCEPT ![p] = row]
    BY <1>1, <1>6, <1>10, <2>1 DEF TypeOK
  <2>3. /\ payments' \in [PaymentIds -> Payment \cup {Null, Gone}]
        /\ payments'[p] = row
        /\ \A q \in PaymentIds \ {p} : payments'[q] = payments[q]
    BY <1>1, <2>2 DEF TypeOK
  <2>4. /\ bills' \in [BillIds -> Bill \cup {Null, Gone}]
        /\ \A c \in BillIds \ {b} : bills'[c] = bills[c]
        /\ b # Null /\ b \notin stale[h] =>
              /\ bills'[b].remaining = bills'[b].total - bills'[b].paid
              /\ bills'[b].items = bills[b].items
    <3>1. CASE b = Null
      BY <1>1, <1>10, <3>1 DEF TypeOK
    <3>2. CASE b # Null
      <4>1. PICK old \in Bill : old = bills[b] /\ b \in BillIds
        BY <1>1, <1>4, <1>10, <3>2, LiveBill
      <4>2. PICK seen \in Bill : seen = f.brow
        BY <1>7, <3>2
      <4>3. PICK v \in Nat : v = paid.amount
        BY DEF Payment
      <4>4. PICK new \in Bill : /\ new = AppliedPayment(old, seen, v)
                                /\ new.total = old.total /\ new.items = old.items
                                /\ new.remaining = seen.total - new.paid
        BY AppliedPaymentAddsUp
      <4>5. bills' = [bills EXCEPT ![b] = new]
        BY <1>10, <3>2, <4>1, <4>2, <4>3, <4>4
      <4>6. b \notin stale[h] => old.total = seen.total
        BY <1>7, <3>2, <4>1, <4>2 DEF SameBill
      <4> QED
        BY <1>1, <4>1, <4>4, <4>5, <4>6 DEF TypeOK
    <3> QED
      BY <3>1, <3>2
  <2>5. PICK v \in Nat : v = paid.amount
    BY DEF Payment
  <2>6. /\ credited' \in [PaymentIds -> Nat]
        /\ \A q \in PaymentIds \ {p} : credited'[q] = credited[q]
        /\ credited'[p] = credited[p] \/ credited'[p] = credited[p] + v
    BY <1>1, <1>10, <2>5 DEF TypeOK
  <2>7. rows \in SUBSET Rows
    BY <1>4 DEF Rows
  <2>8. /\ call' \in [Handlers -> Frame]
        /\ stale' \in [Handlers -> SUBSET Rows]
        /\ overwritten' \subseteq Rows
        /\ call'[h] = Idle
        /\ Wrote(h, rows)
    BY <1>1, <1>10, <2>7, StepTypes, IdleFrame
  <2>9. TypeOK'
    BY <1>1, <1>8, <2>3, <2>4, <2>6, <2>8 DEF TypeOK, Rows
  <2>10. /\ PaymentIds \cap rows = {p}
         /\ BillIds \cap rows = {b} \ {Null}
         /\ p \in rows
    BY <1>3, <1>4, <1>7, BillStoreAssumption
  <2>11. ASSUME NEW c \in (BillIds \cap rows) \ overwritten'
         PROVE  /\ bills'[c].remaining = bills'[c].total - bills'[c].paid
                /\ bills'[c].items <= 1
    <3>1. c = b /\ b # Null /\ b \notin stale[h] /\ b \notin overwritten
      BY <2>8, <2>10, <2>11 DEF Wrote
    <3>2. bills[b].items <= 1
      BY <1>10, <3>1 DEF IInv, ItemsAreReplaced
    <3> QED
      BY <2>4, <3>1, <3>2
  <2>12. ASSUME p \notin overwritten' \cup edited'
         PROVE  /\ CreditIsDue(p)'
                /\ \A g \in Handlers \ {h} :
                      At(g, "updatePayment:credit") => call[g].payment # p
    <3>1. p \notin stale[h] /\ p \notin overwritten \cup edited
      BY <1>8, <2>8, <2>10, <2>12 DEF Wrote
    <3>2. now.status # "completed" /\ now.amount = v
      BY <1>7, <2>5, <3>1 DEF SamePayment
    <3>3. credited[p] = 0
      BY <1>6, <3>1, <3>2 DEF IInv, CreditedAtMostOnce, CreditIsDue
    <3>4. CreditIsDue(p)'
      BY <2>1, <2>3, <2>5, <2>6, <3>2, <3>3, PaymentIsLive DEF CreditIsDue
    <3>5. ASSUME NEW g \in Handlers, At(g, "updatePayment:credit"), call[g].payment = p
          PROVE  FALSE
      BY <1>6, <3>1, <3>2, <3>5 DEF IInv, Crediting, SamePayment, At
    <3> QED
      BY <3>4, <3>5
  <2>13. /\ \A c \in BillIds \ rows : BillKept(c)
         /\ \A q \in PaymentIds \ rows : PaymentKept(q)
         /\ \A q \in PaymentIds \ rows : credited'[q] = credited[q]
    BY <1>4, <2>3, <2>4, <2>6, <2>10, BillStoreAssumption DEF BillKept, PaymentKept
  <2>14. Live(payments'[p])
    BY <2>3, PaymentIsLive
  <2> QED
    BY <1>8, <2>7, <2>8, <2>9, <2>10, <2>11, <2>12, <2>13, <2>14, IdleGood, HandlerStep
<1> QED
  BY <1>2, <1>3, <1>4, <1>5, <1>9, <1>10 DEF Success_Commit

-----------------------------------------------------------------------------
(* The actions of Payments. *)

LEMMA NewPaymentsTyped == NewPayments \subseteq Payment
BY BillStoreAssumption DEF NewPayments, Payment, PaymentStatus, References

LEMMA CreatePaymentReadKeeps ==
    ASSUME IInv, NEW h \in Handlers, NEW row \in NewPayments, CreatePayment_Read(h, row)
    PROVE  IInv'
<1> DEFINE f == [Idle EXCEPT !.at = "createPayment:insert", !.prow = row]
<1>1. f \in Frame
  BY NewPaymentsTyped DEF Idle, Frame, Labels
<1>2. /\ Step(h, f, {}) /\ started' \in 0..MaxCalls
      /\ UNCHANGED <<bills, payments, credited, links, edited>>
  BY BillStoreAssumption DEF CreatePayment_Read, Begin, NotPayments, IInv, TypeOK
<1>3. call'[h] = f
  BY <1>2 DEF Step, IInv, TypeOK
<1>4. Shape(h)' /\ Fresh(h)' /\ Checked(h)' /\ Crediting(h)'
  BY <1>3 DEF Idle, Shape, Fresh, Checked, Crediting
<1> QED
  BY <1>1, <1>2, <1>4, ReadStep DEF IInv, TypeOK

LEMMA CreatePaymentInsertKeeps ==
    ASSUME IInv, NEW h \in Handlers, CreatePayment_Insert(h)
    PROVE  IInv'
<1>1. PICK row \in NewPayments : row = call[h].prow
  BY DEF CreatePayment_Insert, At, IInv, Shape
<1>2. /\ Return(h) /\ UNCHANGED <<bills, credited, links, edited, started>>
      /\ row \in Payment /\ Live(row)
  BY <1>1, NewPaymentsTyped, PaymentIsLive DEF CreatePayment_Insert, NotPayments
<1>3. CASE UNCHANGED payments
  BY <1>2, <1>3, ReturnStep DEF IInv, TypeOK
<1>4. CASE \E p \in PaymentIds : payments[p] = Null /\ payments' = [payments EXCEPT ![p] = row]
  <2>1. PICK p \in PaymentIds : payments[p] = Null /\ payments' = [payments EXCEPT ![p] = row]
    BY <1>4
  <2>2. payments' \in [PaymentIds -> Payment \cup {Null, Gone}]
    BY <1>2, <2>1 DEF IInv, TypeOK
  <2>3. \A q \in PaymentIds : PaymentKept(q)
    BY <1>2, <2>1 DEF PaymentKept, Live, IInv, TypeOK
  <2> QED
    BY <1>2, <2>2, <2>3, InsertStep DEF BillKept, IInv, TypeOK
<1> QED
  BY <1>1, <1>3, <1>4 DEF CreatePayment_Insert

LEMMA UpdatePaymentReadKeeps ==
    ASSUME IInv, NEW h \in Handlers, NEW p \in PaymentIds, UpdatePayment_Read(h, p)
    PROVE  IInv'
<1>1. /\ UNCHANGED <<bills, payments, credited, links, edited>>
      /\ started' \in 0..MaxCalls
  BY BillStoreAssumption DEF UpdatePayment_Read, Begin, NotPayments, IInv, TypeOK
<1>2. PICK row \in Payment : row = payments[p]
  BY LivePayment DEF UpdatePayment_Read, IInv
<1> DEFINE f == [Idle EXCEPT !.at = "updatePayment:write", !.payment = p, !.prow = row]
<1>3. /\ f \in Frame /\ f.at = "updatePayment:write" /\ f.bill = Null
      /\ f.payment = p /\ f.prow = row
  BY DEF Idle, Frame, Labels
<1>4. Step(h, f, {})
  BY <1>2 DEF UpdatePayment_Read, Begin
<1>5. Live(payments[p])
  BY DEF UpdatePayment_Read
<1> HIDE DEF f
<1> QED
  BY <1>1, <1>2, <1>3, <1>4, <1>5, ReadPaymentKeeps

LEMMA DeletePaymentReadKeeps ==
    ASSUME IInv, NEW h \in Handlers, NEW p \in PaymentIds, DeletePayment_Read(h, p)
    PROVE  IInv'
<1>1. /\ UNCHANGED <<bills, payments, credited, links, edited>>
      /\ started' \in 0..MaxCalls
  BY BillStoreAssumption DEF DeletePayment_Read, Begin, NotPayments, IInv, TypeOK
<1>2. PICK row \in Payment : row = payments[p] /\ row.status # "completed"
  BY LivePayment DEF DeletePayment_Read, IInv
<1> DEFINE f == [Idle EXCEPT !.at = "deletePayment:delete", !.payment = p, !.prow = row]
<1>3. /\ f \in Frame /\ f.at = "deletePayment:delete" /\ f.bill = Null
      /\ f.payment = p /\ f.prow = row
  BY DEF Idle, Frame, Labels
<1>4. Step(h, f, {})
  BY <1>2 DEF DeletePayment_Read, Begin
<1>5. Live(payments[p])
  BY DEF DeletePayment_Read
<1> HIDE DEF f
<1> QED
  BY <1>1, <1>2, <1>3, <1>4, <1>5, ReadPaymentKeeps

LEMMA PatchedPaymentsTyped ==
    ASSUME NEW now \in Payment, NEW s \in PaymentStatus, NEW row \in PatchedPayments(now, s)
    PROVE  row \in Payment /\ row.status = s
BY BillStoreAssumption DEF PatchedPayments, Payment, References

LEMMA UpdatePaymentWriteKeeps ==
    ASSUME IInv, NEW h \in Handlers, UpdatePayment_Write(h)
    PROVE  IInv'
<1>1. TypeOK
  BY DEF IInv
<1>2. PICK f \in Frame : f = call[h]
  BY <1>1 DEF TypeOK
<1>3. PICK p \in PaymentIds : p = f.payment /\ p # Null
  BY <1>2, BillStoreAssumption DEF UpdatePayment_Write, At, IInv, Shape
<1>4. UNCHANGED <<bills, links, credited, started>> /\ f.at = "updatePayment:write"
  BY <1>2 DEF UpdatePayment_Write, At, NotPayments
<1>5. CASE Return(h) /\ UNCHANGED <<payments, edited>>
  BY <1>1, <1>4, <1>5, ReturnStep DEF TypeOK
<1>6. ASSUME NEW sent \in PaymentEdits \cup {Null}, NEW user \in Users, Live(payments[p]),
             NEW row \in PatchedPayments(payments[p],
                            IF sent = Null THEN payments[p].status ELSE sent),
             payments' = [payments EXCEPT ![p] = row],
             edited' = edited \cup {q \in {p} : payments[p].status = "completed"},
             Step(h, IF CompletesByTenant(f.prow, sent, user)
                     THEN [f EXCEPT !.at = "updatePayment:credit", !.prow = row]
                     ELSE Idle, {p})
      PROVE  IInv'
  <2>1. PICK now \in Payment : now = payments[p]
    BY <1>1, <1>6, LivePayment
  <2>2. PICK s \in PaymentStatus : s = IF sent = Null THEN now.status ELSE sent
    BY BillStoreAssumption DEF Payment
  <2>3. row \in Payment /\ row.status = s
    BY <1>6, <2>1, <2>2, PatchedPaymentsTyped
  <2>4. /\ payments' \in [PaymentIds -> Payment \cup {Null, Gone}]
        /\ \A q \in PaymentIds \ {p} : payments'[q] = payments[q]
        /\ payments'[p] = row /\ Live(row)
    BY <1>1, <1>6, <2>3, PaymentIsLive DEF TypeOK
  <2>5. /\ edited \subseteq edited' /\ edited' \subseteq PaymentIds
        /\ p \notin edited' => now.status # "completed"
    BY <1>1, <1>6, <2>1 DEF TypeOK
  <2>6. p \notin overwritten \cup edited' => credited[p] = 0
    BY <2>1, <2>5 DEF IInv, CreditedAtMostOnce, CreditIsDue
  <2>7. p \notin overwritten \cup edited' => CreditIsDue(p)'
    BY <1>4, <2>6 DEF CreditIsDue
  <2>8. CASE Step(h, Idle, {p})
    <3>1. call'[h] = Idle
      BY <1>1, <2>8 DEF Step, TypeOK
    <3> QED
      BY <1>1, <1>4, <2>1, <2>4, <2>5, <2>7, <2>8, <3>1, IdleFrame, IdleGood,
         PaymentStepKeeps DEF TypeOK
  <2>9. CASE /\ CompletesByTenant(f.prow, sent, user)
             /\ Step(h, [f EXCEPT !.at = "updatePayment:credit", !.prow = row], {p})
    <3>1. PICK k \in Frame : k = [f EXCEPT !.at = "updatePayment:credit", !.prow = row]
      BY <2>3 DEF Frame, Labels
    <3>2. Step(h, k, {p}) /\ {p} \in SUBSET Rows
      BY <2>9, <3>1 DEF Rows
    <3>3. /\ call'[h] = k /\ stale'[h] = stale[h] \cap Holds(k)
          /\ Wrote(h, {p})
      BY <1>1, <3>2, StepTypes
    <3>4. /\ k.at = "updatePayment:credit" /\ k.payment = p /\ k.prow = row
          /\ k.bill = f.bill /\ k.brow = f.brow
      BY <1>3, <3>1 DEF Frame
    <3>5. s = "completed"
      BY <2>2, <2>9, BillStoreAssumption DEF CompletesByTenant, Payment, PaymentStatus
    <3>6. Shape(h)' /\ Checked(h)'
      BY <1>2, <1>3, <2>3, <3>3, <3>4 DEF IInv, Shape, Checked
    <3>7. /\ f.bill # Null /\ f.bill \notin stale[h] => SameBill(bills[f.bill], f.brow)
          /\ f.bill # Null => (f.bill \in stale'[h] <=> f.bill \in stale[h])
      BY <1>2, <3>3, <3>4 DEF IInv, Fresh, Holds
    <3>8. SamePayment(row, row)
      BY <2>4 DEF SamePayment
    <3>9. Fresh(h)'
      BY <1>4, <2>4, <3>3, <3>4, <3>7, <3>8 DEF Fresh
    <3>10. ASSUME p \notin overwritten \cup edited', NEW g \in Handlers,
                  At(g, "updatePayment:credit"), call[g].payment = p
           PROVE  FALSE
      BY <2>1, <2>5, <3>10 DEF IInv, Crediting, SamePayment, At
    <3>11. p \notin overwritten' => p \notin overwritten
      BY <3>3 DEF Wrote
    <3>12. \A g \in Handlers \ {h} : call'[g] = call[g]
      BY <3>3 DEF Wrote
    <3>13. ASSUME p \notin overwritten' \cup edited'
           PROVE  /\ SamePayment(payments'[p], row)
                  /\ row.status = "completed"
                  /\ credited'[p] = 0
                  /\ \A g \in Handlers \ {h} :
                        At(g, "updatePayment:credit")' => call'[g].payment # p
      BY <1>4, <2>3, <2>4, <2>6, <3>5, <3>8, <3>10, <3>11, <3>12, <3>13 DEF At
    <3>14. Crediting(h)'
      BY <3>3, <3>4, <3>13 DEF Crediting
    <3> QED
      BY <1>1, <1>4, <2>1, <2>4, <2>5, <2>7, <3>2, <3>6, <3>9, <3>14,
         PaymentStepKeeps DEF TypeOK
  <2> QED
    BY <1>6, <2>8, <2>9
<1> QED
  BY <1>2, <1>3, <1>5, <1>6 DEF UpdatePayment_Write

LEMMA UpdatePaymentCreditKeeps ==
    ASSUME IInv, NEW h \in Handlers, UpdatePayment_Credit(h)
    PROVE  IInv'
<1>1. TypeOK
  BY DEF IInv
<1>2. PICK f \in Frame : f = call[h]
  BY <1>1 DEF TypeOK
<1>3. PICK p \in PaymentIds : p = f.payment /\ p # Null
  BY <1>2, BillStoreAssumption DEF UpdatePayment_Credit, At, IInv, Shape
<1>4. PICK v \in Nat : v = f.prow.amount
  BY <1>2, <1>3 DEF UpdatePayment_Credit, At, IInv, Shape, Payment
<1>5. /\ UNCHANGED <<bills, payments, links, edited, started>> /\ Step(h, Idle, {})
      /\ credited' = [credited EXCEPT ![p] = @ + v]
      /\ f.at = "updatePayment:credit"
  BY <1>2, <1>3, <1>4 DEF UpdatePayment_Credit, At, NotPayments, Return
<1>6. /\ credited' \in [PaymentIds -> Nat]
      /\ \A q \in PaymentIds \ {p} : credited'[q] = credited[q]
      /\ credited'[p] = credited[p] + v
  BY <1>1, <1>5 DEF TypeOK
<1>7. {} \in SUBSET Rows /\ {p} \in SUBSET Rows
  BY DEF Rows
<1>8. /\ call' \in [Handlers -> Frame]
      /\ stale' \in [Handlers -> SUBSET Rows]
      /\ overwritten' \subseteq Rows
      /\ call'[h] = Idle
      /\ Wrote(h, {})
  BY <1>1, <1>5, <1>7, StepTypes, IdleFrame
<1>9. TypeOK'
  BY <1>1, <1>5, <1>6, <1>8 DEF TypeOK, Rows
<1>10. ASSUME p \notin overwritten' \cup edited'
       PROVE  /\ CreditIsDue(p)'
              /\ \A g \in Handlers \ {h} :
                    At(g, "updatePayment:credit") => call[g].payment # p
  <2>1. p \notin overwritten \cup edited
    BY <1>5, <1>8, <1>10 DEF Wrote
  <2>2. /\ SamePayment(payments[p], f.prow)
        /\ f.prow.status = "completed" /\ credited[p] = 0
        /\ \A g \in Handlers \ {h} : At(g, "updatePayment:credit") => call[g].payment # p
    BY <1>2, <1>3, <1>5, <2>1 DEF IInv, Crediting
  <2> QED
    BY <1>4, <1>5, <1>6, <2>2 DEF SamePayment, CreditIsDue
<1>11. /\ \A b \in BillIds : BillKept(b)
       /\ \A q \in PaymentIds : PaymentKept(q)
       /\ edited \subseteq edited'
  BY <1>5 DEF BillKept, PaymentKept
<1>12. Shape(h)' /\ Fresh(h)' /\ Checked(h)' /\ Crediting(h)'
  BY <1>8, IdleGood
<1> QED
  BY <1>6, <1>7, <1>8, <1>9, <1>10, <1>11, <1>12, HandlerStep, ZenonT(40)

LEMMA DeletePaymentDeleteKeeps ==
    ASSUME IInv, NEW h \in Handlers, DeletePayment_Delete(h)
    PROVE  IInv'
<1>1. TypeOK
  BY DEF IInv
<1>2. PICK f \in Frame : f = call[h]
  BY <1>1 DEF TypeOK
<1>3. PICK p \in PaymentIds : p = f.payment /\ p # Null
  BY <1>2, BillStoreAssumption DEF DeletePayment_Delete, At, IInv, Shape
<1>4. /\ UNCHANGED <<bills, credited, links, edited, started>> /\ Step(h, Idle, {p})
      /\ payments' = [payments EXCEPT ![p] = Gone] /\ ~Locked(p)
      /\ f.at = "deletePayment:delete"
  BY <1>2, <1>3 DEF DeletePayment_Delete, At, NotPayments
<1>5. /\ payments' \in [PaymentIds -> Payment \cup {Null, Gone}]
      /\ \A q \in PaymentIds \ {p} : payments'[q] = payments[q]
  BY <1>1, <1>4 DEF TypeOK
<1>6. call'[h] = Idle
  BY <1>1, <1>4 DEF Step, TypeOK
<1>7. p \notin stale[h] => payments[p].status # "completed"
  BY <1>2, <1>3, <1>4 DEF IInv, Fresh, Checked, SamePayment
<1>8. p \notin overwritten \cup edited' /\ p \notin stale[h] => CreditIsDue(p)'
  BY <1>4, <1>7 DEF IInv, CreditedAtMostOnce, CreditIsDue
<1> QED
  BY <1>1, <1>4, <1>5, <1>6, <1>7, <1>8, IdleFrame, IdleGood, PaymentStepKeeps DEF TypeOK

LEMMA CrashKeeps ==
    ASSUME IInv, NEW h \in Handlers, Crash(h)
    PROVE  IInv'
BY ReturnStep, BillStoreAssumption DEF Crash, IInv, TypeOK

-----------------------------------------------------------------------------
LEMMA InitEstablishes == Init => IInv
<1> SUFFICES ASSUME Init PROVE IInv
  OBVIOUS
<1>1. TypeOK
  BY IdleFrame, BillStoreAssumption DEF Init, TypeOK
<1>2. ASSUME NEW h \in Handlers
      PROVE  Shape(h) /\ Fresh(h) /\ Checked(h) /\ Crediting(h)
  BY DEF Init, Idle, Shape, Fresh, Checked, Crediting
<1>3. BillsAddUp /\ ItemsAreReplaced /\ CreditedAtMostOnce
  BY DEF Init, Live, BillsAddUp, BillAddsUp, ItemsAreReplaced, CreditedAtMostOnce, CreditIsDue
<1> QED
  BY <1>1, <1>2, <1>3 DEF IInv

LEMMA BillRequestKeeps ==
    ASSUME IInv, NEW h \in Handlers, BillRequest(h)
    PROVE  IInv'
<1>1. CASE \E row \in NewBills : CreateBill_FindExisting(h, row)
  BY <1>1, CreateBillFindKeeps
<1>2. ASSUME NEW b \in BillIds, UpdateBill_Read(h, b)
      PROVE  IInv'
  BY <1>2, ReadBillKeeps DEF UpdateBill_Read, Unpaid
<1>3. ASSUME NEW b \in BillIds, DeleteBill_Read(h, b)
      PROVE  IInv'
  BY <1>3, ReadBillKeeps DEF DeleteBill_Read, Unpaid
<1>4. ASSUME NEW b \in BillIds, MeterData_Read(h, b)
      PROVE  IInv'
  BY <1>4, ReadBillKeeps DEF MeterData_Read, Unpaid
<1>5. ASSUME NEW b \in BillIds, MarkBillAsPaid_Read(h, b)
      PROVE  IInv'
  BY <1>5, ReadBillKeeps DEF MarkBillAsPaid_Read
<1> QED
  BY <1>1, <1>2, <1>3, <1>4, <1>5 DEF BillRequest

LEMMA BillActionKeeps ==
    ASSUME IInv, NEW h \in Handlers, BillStep(h)
    PROVE  IInv'
BY CreateBillInsertKeeps, UpdateBillWriteKeeps, DeleteBillKeeps, ClearItemsKeeps,
   MeterDataWriteKeeps, MarkBillAsPaidWriteKeeps DEF BillStep

LEMMA PayosRequestKeeps ==
    ASSUME IInv, NEW h \in Handlers, PayosRequest(h)
    PROVE  IInv'
BY CreateLinkReadKeeps, FailureReadKeeps DEF PayosRequest

LEMMA PayosActionKeeps ==
    ASSUME IInv, NEW h \in Handlers, PayosStep(h)
    PROVE  IInv'
BY CreateLinkFindKeeps, CreateLinkWriteKeeps, SuccessPayKeeps, SuccessCommitKeeps,
   FailureWriteKeeps DEF PayosStep

LEMMA PaymentRequestKeeps ==
    ASSUME IInv, NEW h \in Handlers, PaymentRequest(h)
    PROVE  IInv'
BY CreatePaymentReadKeeps, UpdatePaymentReadKeeps, DeletePaymentReadKeeps DEF PaymentRequest

LEMMA PaymentActionKeeps ==
    ASSUME IInv, NEW h \in Handlers, PaymentStep(h)
    PROVE  IInv'
BY CreatePaymentInsertKeeps, UpdatePaymentWriteKeeps, UpdatePaymentCreditKeeps,
   DeletePaymentDeleteKeeps DEF PaymentStep

(* Every step of Billing, and a step that changes nothing.                 *)
LEMMA NextKeeps == IInv /\ [Next]_vars => IInv'
<1> SUFFICES ASSUME IInv, [Next]_vars PROVE IInv'
  OBVIOUS
<1>1. ASSUME NEW h \in Handlers, BillRequest(h) \/ PayosRequest(h) \/ PaymentRequest(h)
      PROVE  IInv'
  BY <1>1, BillRequestKeeps, PayosRequestKeeps, PaymentRequestKeeps
<1>2. ASSUME NEW h \in Handlers, Advance(h)
      PROVE  IInv'
  BY <1>2, BillActionKeeps, PayosActionKeeps, PaymentActionKeeps DEF Advance
<1>3. ASSUME NEW h \in Handlers, Crash(h)
      PROVE  IInv'
  BY <1>3, CrashKeeps
<1>4. ASSUME NEW l \in Links, PayLink(l) \/ Report(l)
      PROVE  IInv'
  BY <1>4, LinkKeeps, SuccessReadKeeps DEF Report
<1>5. CASE UNCHANGED vars
  <2>1. TypeOK' /\ BillsAddUp' /\ ItemsAreReplaced' /\ CreditedAtMostOnce'
    BY <1>5 DEF vars, IInv, TypeOK, BillsAddUp, BillAddsUp, ItemsAreReplaced,
                CreditedAtMostOnce, CreditIsDue
  <2>2. ASSUME NEW h \in Handlers
        PROVE  Shape(h)' /\ Fresh(h)' /\ Checked(h)' /\ Crediting(h)'
    <3>1. Shape(h) /\ Fresh(h) /\ Checked(h) /\ Crediting(h)
      BY DEF IInv
    <3> QED
      BY <1>5, <3>1 DEF vars, Shape, Fresh, Checked, Crediting, At
  <2> QED
    BY <2>1, <2>2 DEF IInv
<1> QED
  BY <1>1, <1>2, <1>3, <1>4, <1>5 DEF Next

-----------------------------------------------------------------------------
(* The invariant holds in every state the handlers can reach, for any      *)
(* number of handlers, bills, payments and links.                          *)
THEOREM Invariant == Spec => []IInv
<1>1. Init => IInv
  BY InitEstablishes
<1>2. IInv /\ [Next]_vars => IInv'
  BY NextKeeps
<1> QED
  BY <1>1, <1>2, PTL DEF Spec

(* Tables, frames and histories keep their shape; above all, what a webhook *)
(* or an edit stores in a bill is a status and an amount the columns have.  *)
THEOREM TypeCorrect == Spec => []TypeOK
<1>1. IInv => TypeOK
  BY DEF IInv
<1> QED
  BY <1>1, Invariant, PTL

(* The open amount of a bill is its total less what was paid, whatever     *)
(* edits, readings, payments and crashes interleave, unless a handler      *)
(* wrote the bill from an outdated copy.                                   *)
THEOREM BillsAlwaysAddUp == Spec => []BillsAddUp
<1>1. IInv => BillsAddUp
  BY DEF IInv
<1> QED
  BY <1>1, Invariant, PTL

(* However often meter data is sent for a bill, its items are there once,  *)
(* unless the bill was written from an outdated copy.                      *)
THEOREM ItemsAlwaysReplaced == Spec => []ItemsAreReplaced
<1>1. IInv => ItemsAreReplaced
  BY DEF IInv
<1> QED
  BY <1>1, Invariant, PTL

(* The landlord is credited for a payment at most once and with its        *)
(* amount, however webhooks are repeated and reordered and whoever         *)
(* completes it, unless it was written from an outdated copy or changed    *)
(* after completion.                                                       *)
THEOREM CreditedOnce == Spec => []CreditedAtMostOnce
<1>1. IInv => CreditedAtMostOnce
  BY DEF IInv
<1> QED
  BY <1>1, Invariant, PTL

-----------------------------------------------------------------------------
(* What a step may do to a settled bill. *)

Settled(row) == Live(row) /\ row.status = "paid" /\ row.remaining = 0

LEMMA SettledOrStale ==
    ASSUME IInv, NEW h \in Handlers, NEW b \in BillIds, b \notin stale[h], Settled(bills[b]),
           call[h].bill = b
    PROVE  ~ call[h].at \in {"updateBill:write", "deleteBill:delete", "meterData:clear",
                             "meterData:write"}
BY BillStoreAssumption DEF IInv, Fresh, SameBill, Checked, Settled

LEMMA WriteBillSettled ==
    ASSUME IInv, NEW h \in Handlers, NEW row, WriteBill(h, row),
           call[h].bill \in BillIds,
           NEW b \in BillIds, b \notin overwritten', Settled(bills[b]),
           call[h].at \in {"updateBill:write", "meterData:write"} \/ Settled(row)
    PROVE  Settled(bills'[b])
<1>1. CASE UNCHANGED bills
  BY <1>1
<1>2. CASE /\ bills' = [bills EXCEPT ![call[h].bill] = row]
           /\ Step(h, Idle, {call[h].bill})
  <2>1. CASE b = call[h].bill
    <3>1. b \notin stale[h]
      BY <1>2, <2>1 DEF Step
    <3>2. Settled(row)
      BY <2>1, <3>1, SettledOrStale
    <3> QED
      BY <1>2, <2>1, <3>2 DEF IInv, TypeOK
  <2>2. CASE b # call[h].bill
    BY <1>2, <2>2 DEF IInv, TypeOK
  <2> QED
    BY <2>1, <2>2
<1> QED
  BY <1>1, <1>2 DEF WriteBill

LEMMA BillActionSettled ==
    ASSUME IInv, NEW h \in Handlers, BillStep(h),
           NEW b \in BillIds, b \notin overwritten', Settled(bills[b])
    PROVE  Settled(bills'[b])
<1>1. CASE CreateBill_Insert(h)
  BY <1>1 DEF CreateBill_Insert, Settled, Live, IInv, TypeOK
<1>2. CASE UpdateBill_Write(h)
  <2>1. call[h].at = "updateBill:write" /\ call[h].bill \in BillIds
    BY <1>2 DEF UpdateBill_Write, At, IInv, Shape
  <2>2. PICK row : WriteBill(h, row)
    BY <1>2 DEF UpdateBill_Write
  <2> QED
    BY <2>1, <2>2, WriteBillSettled
<1>3. CASE DeleteBill_Delete(h)
  <2>1. call[h].at = "deleteBill:delete" /\ call[h].bill \in BillIds
    BY <1>3 DEF DeleteBill_Delete, At, IInv, Shape
  <2>2. CASE UNCHANGED bills
    BY <2>2
  <2>3. CASE /\ bills' = [bills EXCEPT ![call[h].bill] = Gone]
             /\ Step(h, Idle, {call[h].bill})
    <3>1. b # call[h].bill
      BY <2>1, <2>3, SettledOrStale DEF Step
    <3> QED
      BY <2>3, <3>1 DEF IInv, TypeOK
  <2> QED
    BY <1>3, <2>2, <2>3 DEF DeleteBill_Delete
<1>4. CASE MeterData_ClearItems(h)
  <2>1. PICK row \in Bill : row = bills[b]
    BY LiveBill DEF Settled, IInv
  <2>2. bills'[b] = row \/ bills'[b] = [row EXCEPT !.items = 0]
    BY <1>4, <2>1 DEF MeterData_ClearItems, IInv, TypeOK
  <2>3. [row EXCEPT !.items = 0] \in Bill
    BY DEF Bill
  <2> QED
    BY <2>1, <2>2, <2>3, BillIsLive DEF Bill, Settled
<1>5. CASE MeterData_Write(h)
  <2>1. call[h].at = "meterData:write" /\ call[h].bill \in BillIds
    BY <1>5 DEF MeterData_Write, At, IInv, Shape
  <2>2. PICK row : WriteBill(h, row)
    BY <1>5 DEF MeterData_Write
  <2> QED
    BY <2>1, <2>2, WriteBillSettled
<1>6. CASE MarkBillAsPaid_Write(h)
  <2>1. PICK f \in Frame : f = call[h]
    BY DEF IInv, TypeOK
  <2>2. f.at = "markPaid:write" /\ f.bill \in BillIds /\ f.brow \in Bill
    BY <1>6, <2>1, BillStoreAssumption DEF MarkBillAsPaid_Write, At, IInv, Shape
  <2>3. CASE ~Live(bills[f.bill])
    BY <1>6, <2>1, <2>3 DEF MarkBillAsPaid_Write, WriteBill
  <2>4. CASE Live(bills[f.bill])
    <3>1. PICK now \in Bill, total \in Nat : now = bills[f.bill] /\ total = f.brow.total
      BY <2>2, <2>4, LiveBill DEF Bill, IInv
    <3>2. PICK row \in Bill : row = [now EXCEPT !.status = "paid", !.paid = total,
                                                !.remaining = 0]
      <4>1. "paid" \in BillStatus /\ 0 \in Int
        BY DEF BillStatus
      <4> QED
        BY <4>1, PaidBillTyped
    <3>3. WriteBill(h, row)
      BY <1>6, <2>1, <2>4, <3>1, <3>2 DEF MarkBillAsPaid_Write
    <3>4. Settled(row)
      BY <3>2, BillIsLive DEF Bill, Settled
    <3> QED
      BY <2>1, <2>2, <3>3, <3>4, WriteBillSettled
  <2> QED
    BY <2>3, <2>4
<1> QED
  BY <1>1, <1>2, <1>3, <1>4, <1>5, <1>6 DEF BillStep

(* A payment that arrives for a settled bill leaves it settled: it was     *)
(* paid in full, and is not paid beyond its total.                         *)
LEMMA SuccessCommitSettled ==
    ASSUME IInv, NEW h \in Handlers, Success_Commit(h),
           NEW b \in BillIds, b \notin overwritten', Settled(bills[b])
    PROVE  Settled(bills'[b])
<1>1. PICK f \in Frame : f = call[h]
  BY DEF IInv, TypeOK
<1>2. f.payment \in PaymentIds /\ f.prow \in Payment
  BY <1>1, BillStoreAssumption DEF Success_Commit, At, IInv, Shape
<1>3. CASE bills' = bills
  BY <1>3
<1>4. ASSUME f.bill # Null,
             bills' = [bills EXCEPT ![f.bill] = AppliedPayment(@, f.brow, f.prow.amount)],
             Step(h, Idle, {f.payment, f.bill} \ {Null})
      PROVE  Settled(bills'[b])
  <2>1. CASE b # f.bill
    BY <1>4, <2>1 DEF IInv, TypeOK
  <2>2. CASE b = f.bill
    <3>1. PICK now \in Bill : now = bills[b]
      BY LiveBill DEF Settled, IInv
    <3>2. PICK seen \in Bill : seen = f.brow
      BY <1>1, <1>4 DEF IInv, Shape
    <3>3. PICK v \in Nat : v = f.prow.amount
      BY <1>2 DEF Payment
    <3>4. b \notin stale[h] /\ b \notin overwritten
      BY <1>4, <2>2 DEF Step
    <3>5. seen.total = now.total /\ seen.paid = now.paid
      BY <1>1, <1>4, <2>2, <3>1, <3>2, <3>4 DEF IInv, Fresh, SameBill
    <3>6. now.remaining = 0 /\ now.remaining = now.total - now.paid
      BY <3>1, <3>4 DEF IInv, BillsAddUp, BillAddsUp, Settled
    <3>7. PICK new \in Bill : /\ new = AppliedPayment(now, seen, v)
                              /\ new.remaining = seen.total - new.paid
                              /\ new.status = "paid" <=> new.remaining = 0
      BY AppliedPaymentAddsUp
    <3>8. new.paid = Lesser(seen.total, seen.paid + v)
      BY <3>7 DEF AppliedPayment, Bill
    <3>9. new.remaining = 0
      BY <3>5, <3>6, <3>7, <3>8 DEF Lesser, Bill
    <3>10. bills'[b] = new
      BY <1>4, <2>2, <3>1, <3>2, <3>3, <3>7 DEF IInv, TypeOK
    <3> QED
      BY <3>7, <3>9, <3>10, BillIsLive DEF Settled
  <2> QED
    BY <2>1, <2>2
<1> QED
  BY <1>1, <1>3, <1>4 DEF Success_Commit

(* A bill that is paid in full stays so: a payment that arrives late, new  *)
(* meter data, an edit and a deletion all leave it alone, unless they come *)
(* from an outdated copy.                                                  *)
THEOREM SettledStays == Spec => SettledBillStays
<1>1. ASSUME IInv, [Next]_vars, NEW b \in BillIds \ overwritten', Settled(bills[b])
      PROVE  Settled(bills'[b])
  <2>1. CASE UNCHANGED bills
    BY <1>1, <2>1
  <2>2. ASSUME NEW h \in Handlers, BillStep(h)
        PROVE  Settled(bills'[b])
    BY <1>1, <2>2, BillActionSettled
  <2>3. ASSUME NEW h \in Handlers, Success_Commit(h)
        PROVE  Settled(bills'[b])
    BY <1>1, <2>3, SuccessCommitSettled
  <2>4. ASSUME NEW h \in Handlers,
               BillRequest(h) \/ PayosRequest(h) \/ PaymentRequest(h) \/ Crash(h)
        PROVE  UNCHANGED bills
    BY <2>4 DEF BillRequest, PayosRequest, PaymentRequest, Crash, CreateBill_FindExisting,
       UpdateBill_Read, DeleteBill_Read, MeterData_Read, MarkBillAsPaid_Read, ReadBill,
       CreateLink_Read, Failure_Read, CreatePayment_Read, UpdatePayment_Read,
       DeletePayment_Read, NotPayments
  <2>5. ASSUME NEW h \in Handlers,
               \/ CreateLink_Find(h) \/ CreateLink_Write(h) \/ Success_Pay(h)
               \/ Failure_Write(h) \/ PaymentStep(h)
        PROVE  UNCHANGED bills
    BY <2>5 DEF CreateLink_Find, CreateLink_Write, Success_Pay, Failure_Write, PaymentStep,
       CreatePayment_Insert, UpdatePayment_Write, UpdatePayment_Credit,
       DeletePayment_Delete, NotPayments
  <2>6. ASSUME NEW l \in Links, PayLink(l) \/ Report(l)
        PROVE  UNCHANGED bills
    BY <2>6 DEF PayLink, Report, Success_Read, Success_Ignore
  <2> QED
    BY <1>1, <2>1, <2>2, <2>3, <2>4, <2>5, <2>6 DEF Next, Advance, PayosStep, vars
<1>2. IInv /\ [Next]_vars =>
         [\A b \in BillIds \ overwritten' :
             Live(bills[b]) /\ bills[b].status = "paid" /\ bills[b].remaining = 0
             => Live(bills'[b]) /\ bills'[b].status = "paid" /\ bills'[b].remaining = 0]_vars
  BY <1>1 DEF Settled
<1> QED
  BY <1>2, Invariant, PTL DEF Spec, SettledBillStays

-----------------------------------------------------------------------------
(* What a step may do to a completed payment. *)

Completed(row) == Live(row) /\ row.status = "completed"

(* The row but for its bill. *)
SameCompleted(x, y) == Completed(y) /\ y.amount = x.amount /\ y.ref = x.ref

LEMMA CompletedOrStale ==
    ASSUME IInv, NEW h \in Handlers, NEW p \in PaymentIds, p \notin stale[h],
           Completed(payments[p]), call[h].payment = p
    PROVE  ~ call[h].at \in {"success:pay", "success:commit", "failure:write",
                             "deletePayment:delete", "link:write"}
BY BillStoreAssumption DEF IInv, Fresh, SamePayment, Checked, Completed

(* A handler that has checked that its payment is not completed, and       *)
(* writes it, writes another one or writes from an outdated copy.          *)
LEMMA CheckedWriteMisses ==
    ASSUME IInv, NEW h \in Handlers, NEW rows, Step(h, Idle, rows),
           call[h].payment \in rows,
           call[h].at \in {"success:commit", "failure:write", "deletePayment:delete",
                           "link:write"},
           NEW p \in PaymentIds, p \notin overwritten', Completed(payments[p])
    PROVE  p # call[h].payment
BY CompletedOrStale DEF Step

LEMMA PayosActionCompleted ==
    ASSUME IInv, NEW h \in Handlers, PayosStep(h),
           NEW p \in PaymentIds, p \notin overwritten', Completed(payments[p])
    PROVE  SameCompleted(payments[p], payments'[p])
<1>1. CASE UNCHANGED payments
  BY <1>1 DEF SameCompleted
<1>2. CASE CreateLink_Write(h)
  <2>1. ASSUME NEW q \in PaymentIds, NEW row, payments[q] = Null,
               payments' = [payments EXCEPT ![q] = row]
        PROVE  payments'[p] = payments[p]
    BY <2>1 DEF Completed, Live, IInv, TypeOK
  <2>2. ASSUME NEW v, NEW r, call[h].payment # Null, Step(h, Idle, {call[h].payment}),
               payments' = [payments EXCEPT ![call[h].payment].amount = v,
                                            ![call[h].payment].ref = r]
        PROVE  payments'[p] = payments[p]
    <3>1. p # call[h].payment
      BY <1>2, <2>2, CheckedWriteMisses DEF CreateLink_Write, At
    <3> QED
      BY <2>2, <3>1 DEF IInv, TypeOK
  <2>3. UNCHANGED payments \/ payments'[p] = payments[p]
    BY <1>2, <2>1, <2>2 DEF CreateLink_Write
  <2> QED
    BY <2>3 DEF SameCompleted
<1>3. CASE Success_Commit(h)
  <2>1. CASE UNCHANGED payments
    BY <2>1 DEF SameCompleted
  <2>2. ASSUME NEW r, Step(h, Idle, {call[h].payment, call[h].bill} \ {Null}),
               payments' = [payments EXCEPT ![call[h].payment].status = "completed",
                                            ![call[h].payment].ref = r]
        PROVE  payments'[p] = payments[p]
    <3>1. call[h].payment \in {call[h].payment, call[h].bill} \ {Null}
      BY <1>3, BillStoreAssumption DEF Success_Commit, At, IInv, Shape
    <3>2. p # call[h].payment
      BY <1>3, <2>2, <3>1, CheckedWriteMisses DEF Success_Commit, At
    <3> QED
      BY <2>2, <3>2 DEF IInv, TypeOK
  <2>3. UNCHANGED payments \/ payments'[p] = payments[p]
    BY <1>3, <2>2 DEF Success_Commit
  <2> QED
    BY <2>3 DEF SameCompleted
<1>4. CASE Failure_Write(h)
  <2>1. ASSUME NEW r, Step(h, Idle, {call[h].payment}),
               payments' = [payments EXCEPT ![call[h].payment].status = "failed",
                                            ![call[h].payment].ref = r]
        PROVE  payments'[p] = payments[p]
    <3>1. p # call[h].payment
      BY <1>4, <2>1, CheckedWriteMisses DEF Failure_Write, At
    <3> QED
      BY <2>1, <3>1 DEF IInv, TypeOK
  <2>2. UNCHANGED payments \/ payments'[p] = payments[p]
    BY <1>4, <2>1 DEF Failure_Write
  <2> QED
    BY <2>2 DEF SameCompleted
<1>5. CASE CreateLink_Find(h) \/ Success_Pay(h)
  BY <1>1, <1>5 DEF CreateLink_Find, Success_Pay
<1> QED
  BY <1>2, <1>3, <1>4, <1>5 DEF PayosStep

LEMMA PaymentActionCompleted ==
    ASSUME IInv, NEW h \in Handlers, PaymentStep(h),
           NEW p \in PaymentIds, p \notin overwritten' \cup edited', Completed(payments[p])
    PROVE  SameCompleted(payments[p], payments'[p])
<1>1. CASE UNCHANGED payments
  BY <1>1 DEF SameCompleted
<1>2. CASE CreatePayment_Insert(h)
  <2>1. ASSUME NEW q \in PaymentIds, NEW row, payments[q] = Null,
               payments' = [payments EXCEPT ![q] = row]
        PROVE  payments'[p] = payments[p]
    BY <2>1 DEF Completed, Live, IInv, TypeOK
  <2>2. UNCHANGED payments \/ payments'[p] = payments[p]
    BY <1>2, <2>1 DEF CreatePayment_Insert
  <2> QED
    BY <2>2 DEF SameCompleted
<1>3. CASE UpdatePayment_Write(h)
  <2>1. ASSUME NEW row, payments' = [payments EXCEPT ![call[h].payment] = row],
               edited' = edited \cup {q \in {call[h].payment} :
                                         payments[call[h].payment].status = "completed"}
        PROVE  payments'[p] = payments[p]
    <3>1. p # call[h].payment
      BY <2>1 DEF Completed
    <3> QED
      BY <2>1, <3>1 DEF IInv, TypeOK
  <2>2. UNCHANGED payments \/ payments'[p] = payments[p]
    BY <1>3, <2>1 DEF UpdatePayment_Write
  <2> QED
    BY <2>2 DEF SameCompleted
<1>4. CASE UpdatePayment_Credit(h)
  BY <1>1, <1>4 DEF UpdatePayment_Credit
<1>5. CASE DeletePayment_Delete(h)
  <2>1. p # call[h].payment
    BY <1>5, CheckedWriteMisses DEF DeletePayment_Delete, At
  <2>2. payments'[p] = payments[p]
    BY <1>5, <2>1 DEF DeletePayment_Delete, IInv, TypeOK
  <2> QED
    BY <2>2 DEF SameCompleted
<1> QED
  BY <1>2, <1>3, <1>4, <1>5 DEF PaymentStep

LEMMA DeleteBillCompleted ==
    ASSUME IInv, NEW h \in Handlers, DeleteBill_Delete(h),
           NEW p \in PaymentIds, Completed(payments[p])
    PROVE  SameCompleted(payments[p], payments'[p])
<1>1. PICK row \in Payment : row = payments[p]
  BY LivePayment DEF Completed, IInv
<1>2. payments'[p] = row \/ payments'[p] = [row EXCEPT !.bill = Null]
  BY <1>1 DEF DeleteBill_Delete
<1>3. PICK new \in Payment : new = [row EXCEPT !.bill = Null]
  BY DEF Payment
<1>4. new.status = row.status /\ new.amount = row.amount /\ new.ref = row.ref
  BY <1>3 DEF Payment
<1> QED
  BY <1>1, <1>2, <1>3, <1>4, PaymentIsLive DEF Completed, SameCompleted

(* A completed payment stays as it is: a late failure, a second link, a    *)
(* repeated success and a deletion all leave it alone, unless they come    *)
(* from an outdated copy or a client changes it.                           *)
THEOREM CompletedStays == Spec => CompletedPaymentStays
<1>1. ASSUME IInv, [Next]_vars,
             NEW p \in PaymentIds \ (overwritten' \cup edited'), Completed(payments[p])
      PROVE  SameCompleted(payments[p], payments'[p])
  <2>1. CASE UNCHANGED payments
    BY <1>1, <2>1 DEF SameCompleted
  <2>2. ASSUME NEW h \in Handlers, PayosStep(h) \/ PaymentStep(h) \/ DeleteBill_Delete(h)
        PROVE  SameCompleted(payments[p], payments'[p])
    BY <1>1, <2>2, PayosActionCompleted, PaymentActionCompleted, DeleteBillCompleted
  <2>3. ASSUME NEW h \in Handlers,
               BillRequest(h) \/ PayosRequest(h) \/ PaymentRequest(h) \/ Crash(h)
        PROVE  UNCHANGED payments
    BY <2>3 DEF BillRequest, PayosRequest, PaymentRequest, Crash, CreateBill_FindExisting,
       UpdateBill_Read, DeleteBill_Read, MeterData_Read, MarkBillAsPaid_Read, ReadBill,
       CreateLink_Read, Failure_Read, CreatePayment_Read, UpdatePayment_Read,
       DeletePayment_Read, NotBills
  <2>4. ASSUME NEW h \in Handlers,
               \/ CreateBill_Insert(h) \/ UpdateBill_Write(h) \/ MeterData_ClearItems(h)
               \/ MeterData_Write(h) \/ MarkBillAsPaid_Write(h)
        PROVE  UNCHANGED payments
    BY <2>4 DEF CreateBill_Insert, UpdateBill_Write, MeterData_ClearItems, MeterData_Write,
       MarkBillAsPaid_Write, WriteBill, NotBills
  <2>5. ASSUME NEW l \in Links, PayLink(l) \/ Report(l)
        PROVE  UNCHANGED payments
    BY <2>5 DEF PayLink, Report, Success_Read, Success_Ignore
  <2> QED
    BY <1>1, <2>1, <2>2, <2>3, <2>4, <2>5 DEF Next, Advance, BillStep, vars
<1>2. IInv /\ [Next]_vars =>
         [\A p \in PaymentIds \ (overwritten' \cup edited') :
             Live(payments[p]) /\ payments[p].status = "completed"
             => /\ Live(payments'[p])
                /\ payments'[p].status = "completed"
                /\ payments'[p].amount = payments[p].amount
                /\ payments'[p].ref = payments[p].ref]_vars
  BY <1>1 DEF Completed, SameCompleted
<1> QED
  BY <1>2, Invariant, PTL DEF Spec, CompletedPaymentStays
=============================================================================
