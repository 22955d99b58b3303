SPECIFICATION LandlordSpec
CONSTANTS
    Handlers = {h1, h2}
    Tenants = {t1}
    Reviewers = {u1, u2}
    Rooms = {r1, r2}
    Instances = {i1, i2, i3, i4}
    FirstBuilt = {i1}
    i1 = i1
    i2 = i2
    i3 = i3
    i4 = i4
    r1 = r1
    r2 = r2
    RoomOf <- TwoAndOne
    BookingIds = {b1}
    InvitationIds = {}
    RentalIds = {x1, x2}
    RatingIds = {g1, g2}
    Rated = {r1}
    Stars = {1, 5}
    Null = Null
    Ops <- LandlordOps
    Answers = {"accepted", "rejected"}
    RentalEdits = {"expired"}
    RoomEdits = {"available", "maintenance"}
    MaxCalls = 4
SYMMETRY Symmetry
INVARIANTS TotalsAgree OverallIsThatOfRatings
PROPERTIES UndisturbedCreateIsExclusive UndisturbedReleaseIsVacant UndisturbedRemovalTakesNoTenant
CHECK_DEADLOCK FALSE
