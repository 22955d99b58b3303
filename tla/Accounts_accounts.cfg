SPECIFICATION Spec
CONSTANTS
    Handlers = {h1, h2}
    h1 = h1
    h2 = h2
    People = {a1, a2}
    Emails = {e1, e2}
    e1 = e1
    MaxCodes = 2
    MaxAttempts = 2
    Ops <- EveryOp
    MaxCalls = 4
    InitialAccount <- First
    Null = Null
SYMMETRY AlikeHandlers
INVARIANTS VerifiedMeansProved CodeIsUsedOnce GuessesAreLimited SessionIsTheLast
PROPERTY PasswordStaysChanged
CHECK_DEADLOCK FALSE
