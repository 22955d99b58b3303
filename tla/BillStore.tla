----------------------------- MODULE BillStore -----------------------------
(***************************************************************************)
(* The tables behind collecting rent, bills and payments, and the request  *)
(* handlers that read and write them.                                      *)
(*                                                                         *)
(* As in RentalStore each awaited call is one step.  A handler that has    *)
(* read a row works on its copy: what other handlers write to the row in   *)
(* the meantime is not seen, and may be overwritten.  The history variable *)
(* stale says whose copies are out of date, overwritten which rows were    *)
(* ever written from such a copy.                                          *)
(***************************************************************************)
EXTENDS Integers

CONSTANTS
    Handlers,       \* requests the server can have in progress at once
    Periods,        \* pairs of a rental and a billing period
    BillIds, PaymentIds,  \* rows each table can come to hold
    Links,          \* order codes of payment links at PayOS
    NewReferences,  \* references sent with a new payment: Null, or order codes
    Amounts,        \* what a bill can total and a payment amount to
    Null, Gone,     \* a row not inserted yet, a row deleted
    Ops,            \* the endpoints clients call, "webhookFailure" and "crash"
    BillEdits,      \* the statuses PATCH sets on a bill
    PaymentEdits,   \* the statuses PATCH sets on a payment
    MaxCalls        \* bound: requests sent, failures reported and crashes

BillStatus == {"draft", "pending", "paid", "overdue", "cancelled"}
PaymentStatus == {"pending", "completed", "failed", "refunded"}
Users == {"tenant", "owner"}  \* the two parties of a rental

(* The reference PayOS gives a transfer made through link l. *)
Receipt(l) == <<"receipt", l>>
References == Links \cup {Receipt(l) : l \in Links} \cup {Null}

(* items counts how often the bill's current items have been written. *)
Bill == [period: Periods, status: BillStatus,
         total: Nat, paid: Nat, remaining: Int, items: Nat]

Payment == [bill: BillIds \cup {Null}, payer: Users, amount: Nat,
            transfer: BOOLEAN,  \* paymentMethod is bank_transfer
            status: PaymentStatus, ref: References]

ASSUME BillStoreAssumption ==
    /\ Null \notin BillIds \cup PaymentIds \cup Links \cup Bill \cup Payment \cup PaymentStatus
    /\ Gone \notin {Null} \cup Bill \cup Payment
    /\ BillIds \cap PaymentIds = {}
    /\ NewReferences \subseteq Links \cup {Null}
    /\ Amounts \subseteq Nat
    /\ BillEdits \subseteq BillStatus
    /\ PaymentEdits \subseteq PaymentStatus
    /\ MaxCalls \in Nat

VARIABLES
    bills, payments,
    credited,     \* what each payment has added to the landlord's balance
    links,        \* at PayOS: not made, made, given to the client, paid, and
                  \* reported as paid with success as the answer
    call,         \* the frame of each handler
    started,      \* requests, failures and crashes so far
    stale,        \* history: rows each handler holds an outdated copy of
    overwritten,  \* history: rows ever written from an outdated copy
    edited        \* history: payments a client changed when they were completed

vars == <<bills, payments, credited, links, call, started, stale, overwritten, edited>>
history == <<stale, overwritten>>

Labels == {"idle", "createBill:insert", "updateBill:write", "deleteBill:delete",
           "meterData:clear", "meterData:write", "markPaid:write",
           "link:find", "link:write", "success:pay", "success:commit",
           "failure:write", "createPayment:insert", "updatePayment:write",
           "updatePayment:credit", "deletePayment:delete"}

(* brow and prow are the copies of the rows bill and payment, or a new row. *)
Frame == [at: Labels,
          bill: BillIds \cup {Null}, payment: PaymentIds \cup {Null},
          link: Links \cup {Null},
          brow: Bill \cup {Null}, prow: Payment \cup {Null}]

Idle == [at |-> "idle", bill |-> Null, payment |-> Null, link |-> Null,
         brow |-> Null, prow |-> Null]

-----------------------------------------------------------------------------
Live(row) == row # Null /\ row # Gone

At(h, label) == call[h].at = label

(* The transaction of a successful payment holds the row lock of its        *)
(* payment from its first write until it commits.                          *)
Locked(p) == \E g \in Handlers : At(g, "success:commit") /\ call[g].payment = p

(* The rows a frame has copies of. *)
Holds(f) == {f.bill, f.payment} \ {Null}

(* Handler h goes on with frame f, having written the given rows. *)
Step(h, f, rows) ==
    /\ call' = [call EXCEPT ![h] = f]
    /\ stale' = [g \in Handlers |-> IF g = h THEN stale[g] \cap Holds(f)
                                             ELSE stale[g] \cup (rows \cap Holds(call[g]))]
    /\ overwritten' = overwritten \cup (rows \cap stale[h])

(* The handler answers, or throws: nothing of its frame survives. *)
Return(h) == Step(h, Idle, {})

(* A request for endpoint op arrives and its first read succeeds. *)
Begin(h, op, f) ==
    /\ op \in Ops
    /\ At(h, "idle")
    /\ started < MaxCalls
    /\ started' = started + 1
    /\ Step(h, f, {})

(* The process dies or a query fails: what h has committed stays. *)
Crash(h) ==
    /\ "crash" \in Ops
    /\ ~At(h, "idle")
    /\ started < MaxCalls
    /\ started' = started + 1
    /\ Return(h)
    /\ UNCHANGED <<bills, payments, credited, links, edited>>
=============================================================================
