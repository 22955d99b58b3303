SPECIFICATION Spec
CONSTANTS
    Handlers = {h1, h2}
    Tenants = {t1, t2}
    Rooms = {r1, r2}
    Instances = {i1, i2}
    t1 = t1
    t2 = t2
    i1 = i1
    i2 = i2
    r1 = r1
    r2 = r2
    RoomOf <- OneRoomEach
    BookingIds = {b1}
    InvitationIds = {v1}
    RentalIds = {x1, x2}
    Null = Null
    Ops <- RequestRun
    Answers = {"accepted", "rejected"}
    RentalEdits = {}
    RoomEdits = {"available"}
    MaxCalls = 5
SYMMETRY Symmetry
INVARIANTS OneRentalPerRequest
PROPERTIES UndisturbedConfirmIsExclusive RequestsImplementConsent OnlyLooseWritesLoseTrack
CHECK_DEADLOCK FALSE
