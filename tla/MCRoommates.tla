---------------------------- MODULE MCRoommates ----------------------------
EXTENDS Roommates, TLC

CONSTANTS ann, bob, own, home, away, p1, x1, x2

(* Handlers and rows are interchangeable, but for those present at first. *)
Symmetry == Permutations(Handlers) \cup Permutations(AppIds)
            \cup Permutations(PostIds \ {FirstPost})
            \cup Permutations(RentalIds \ {FirstRental, SecondRental})

EveryOp == {"createPost", "updatePost", "removePost", "updatePostStatus",
            "createApplication", "respondToApplication", "cancelApplication",
            "landlordApprove", "landlordReject", "confirmApplication", "addRoommate",
            "generateInviteLink", "acceptInvite", "letRoom", "endRental", "renewRental",
            "crash"}
MovingOps == {"respondToApplication", "landlordApprove", "confirmApplication",
              "addRoommate", "updatePost", "removePost", "endRental"}
=============================================================================
