SPECIFICATION Spec
CONSTANTS
    Handlers = {h1, h2}
    ann = ann
    bob = bob
    own = own
    home = home
    away = away
    p1 = p1
    x1 = x1
    People = {ann, bob, own}
    Instances = {home, away}
    MaxOccupancy = 2
    Host = ann
    Home = home
    FirstRental = x1
    SecondRental = x2
    Resident = own
    x2 = x2
    PostRooms = {home, Null}
    PostRentals = {x1}
    FirstPost = p1
    FirstRooms = {home, Null}
    FirstApplicants = {bob}
    Owner = own
    PostIds = {p1, p2}
    AppIds = {a1, a2}
    RentalIds = {x1, x2, x3}
    Null = Null
    Gone = Gone
    Ops <- EveryOp
    Counts = {1}
    MaxCalls = 3
SYMMETRY Symmetry
INVARIANT RoommatesFollowConsent
PROPERTY RoommatesImplementConsent
CHECK_DEADLOCK FALSE
