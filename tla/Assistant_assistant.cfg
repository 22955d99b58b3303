\* The requests of users and administrators, the summary jobs, and crashes.
SPECIFICATION Spec
CONSTANTS
    Handlers = {h1, h2}
    Sessions = {own, uuid}
    OwnSessions = {own}
    Questions = {q1, q2}
    typed = typed
    small = small
    Sqls = {typed, small}
    SqlOf <- TypedSql
    Normalized <- InSmall
    SummaryThreshold = 1
    OldLimit = 1
    MaxTries = 2
    MaxJobs = 1
    MaxRows = 2
    MaxCalls = 3
    EarlierEntries <- NoneOrTwo
    Ops <- AllOps
    Null = Null
    Gone = Gone
SYMMETRY Symmetry
CHECK_DEADLOCK FALSE
INVARIANTS
    NumbersFollowOrder
    SummaryIsOfThisConversation
    OnlyApprovedIsTaught
    ApprovedIsFindable
