SPECIFICATION Spec
CONSTANTS
    Handlers = {h1, h2}
    ann = ann
    bob = bob
    x1 = x1
    People = {ann, bob}
    Parties <- PartiesOfContracts
    ContractIds = {c1, c2}
    RentalIds = {x1}
    RentalParties <- PartiesOfRentals
    Targets <- AllTargets
    Codes = {k1, k2}
    MaxAttempts = 1
    Null = Null
    Gone = Gone
    Ops <- EveryOp
    MaxCalls = 3
SYMMETRY Symmetry
INVARIANTS SignaturesAreAuthenticated GuessesAreLimited SignedIsSigned
PROPERTIES UndisturbedSignatureCounts UndisturbedDeletionIsOfDraft UndisturbedContractIsCreated
CHECK_DEADLOCK FALSE
