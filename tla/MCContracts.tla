---------------------------- MODULE MCContracts ----------------------------
EXTENDS Contracts, TLC

CONSTANTS ann, bob, x1

Symmetry == Permutations(Handlers) \cup Permutations(ContractIds) \cup Permutations(Codes)

PartiesOfContracts == {<<ann, bob>>, <<ann, ann>>}
PartiesOfRentals == [x \in {x1} |-> <<ann, bob>>]
AllTargets == ContractIds \X People

EveryOp == {"createContract", "ensureContract", "fromRental", "sendOtp", "sign", "delete",
            "expire", "endRental", "crash"}
=============================================================================
