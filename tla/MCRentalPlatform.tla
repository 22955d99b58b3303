-------------------------- MODULE MCRentalPlatform --------------------------
EXTENDS RentalPlatform, TLC

CONSTANTS t1, t2, i1, i2, r1, r2

(* One room type per instance: a tenant can want two rooms. *)
OneRoomEach == (i1 :> r1) @@ (i2 :> r2)

BookingOps == {"createBooking", "updateBooking", "confirmBooking", "cancelBooking"}
InvitationOps == {"createInvitation", "updateInvitation", "confirmInvitation",
                  "withdrawInvitation"}

(* The two rooms change places, each with its instance. *)
SwapRooms == (r1 :> r2) @@ (r2 :> r1) @@ (i1 :> i2) @@ (i2 :> i1)

(* Handlers, rows, tenants and, for OneRoomEach, rooms are interchangeable. *)
Symmetry == {SwapRooms} \cup Permutations(Handlers) \cup Permutations(Tenants)
            \cup Permutations(BookingIds) \cup Permutations(InvitationIds)
            \cup Permutations(RentalIds)

RequestRun == BookingOps \cup InvitationOps \cup
              {"createRental", "terminateRental", "renewRental",
               "updateRoomInstanceStatus", "bulkUpdateRoomInstanceStatus", "crash"}
=============================================================================
