SPECIFICATION Spec
CONSTANTS
    Handlers = {h1, h2}
    Tenants = {t1}
    Rooms = {r1, r2}
    Instances = {i1, i2}
    t1 = t1
    t2 = t2
    i1 = i1
    i2 = i2
    r1 = r1
    r2 = r2
    RoomOf <- OneRoomEach
    BookingIds = {b1, b2}
    InvitationIds = {}
    RentalIds = {x1, x2}
    Null = Null
    Ops <- BookingOps
    Answers = {"accepted"}
    RentalEdits = {}
    RoomEdits = {}
    MaxCalls = 6
SYMMETRY Symmetry
INVARIANTS OneRentalPerTenant
CHECK_DEADLOCK FALSE
