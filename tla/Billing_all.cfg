SPECIFICATION Spec
CONSTANTS
    Handlers = {h1, h2}
    Periods = {d1}
    BillIds = {b1}
    PaymentIds = {p1, p2}
    Links = {l1, l2}
    NewReferences = {Null}
    Amounts = {1, 2}
    Null = Null
    Gone = Gone
    Ops <- EveryOp
    BillEdits = {"paid"}
    PaymentEdits = {"completed"}
    MaxCalls = 4
SYMMETRY Symmetry
INVARIANTS BillsAddUp ItemsAreReplaced CreditedAtMostOnce
PROPERTIES SettledBillStays CompletedPaymentStays
CHECK_DEADLOCK FALSE
