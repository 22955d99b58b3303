----------------------------- MODULE MCLandlord -----------------------------
EXTENDS Landlord, TLC

CONSTANTS r1, r2, i1, i2, i3, i4

(* Two room types; all but i1 is yet to be built. *)
TwoAndOne == (i1 :> r1) @@ (i2 :> r1) @@ (i3 :> r1) @@ (i4 :> r2)

Symmetry == Permutations(Handlers) \cup Permutations(Reviewers)
            \cup Permutations(RentalIds) \cup Permutations(RatingIds)
            \cup Permutations({i2, i3})

LandlordOps == {"createBooking", "updateBooking",
                "createRental", "updateRental", "terminateRental", "renewRental",
                "updateRoomInstanceStatus", "bulkUpdateRoomInstanceStatus",
                "createRoom", "updateRoom", "removeRoom",
                "createRating", "updateRating", "removeRating", "crash"}
=============================================================================
