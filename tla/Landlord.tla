------------------------------ MODULE Landlord ------------------------------
(***************************************************************************)
(* Rentals, the rooms they are in, and the ratings of both, together.      *)
(***************************************************************************)
EXTENDS Ratings

(* The process dies while a handler of these services awaits; a            *)
(* transaction in progress leaves nothing.                                 *)
DeskCrash(h) ==
    /\ "crash" \in Ops
    /\ ~AtDesk(h, "idle")
    /\ Close(h)
    /\ fresh' = fresh \ {h}
    /\ UNCHANGED <<NotRatings, gone, ratings, overall, blurred>>

LandlordInit ==
    /\ bookings = [b \in BookingIds |-> Null]
    /\ invitations = [v \in InvitationIds |-> Null]
    /\ rentals = [x \in RentalIds |-> Null]
    /\ built = FirstBuilt
    /\ instances = [i \in Instances |-> IF i \in built THEN "available" ELSE "unavailable"]
    /\ call = [h \in Handlers |-> Idle]
    /\ started = 0 /\ agreed = {} /\ clean = {}
    /\ totals = [r \in Rooms |-> IF BuiltIn({r}) = {} THEN Null ELSE Cardinality(BuiltIn({r}))]
    /\ gone = {}
    /\ desk = [h \in Handlers |-> [at |-> "idle"]]
    /\ ratings = [g \in RatingIds |-> Null]
    /\ overall = [t \in Rated |-> IF IsThere(t) THEN NotRated ELSE Null]
    /\ miscounted = {} /\ fresh = {} /\ blurred = {}

LandlordNext ==
    \/ PlatformStep
    \/ \E r \in Rooms, n \in 1..Cardinality(Instances) : CreateRoom(r, n)
    \/ \E h \in Handlers : UpkeepStep(h) \/ RatingStep(h) \/ DeskCrash(h)

LandlordSpec == LandlordInit /\ [][LandlordNext]_landlordVars

-----------------------------------------------------------------------------
(* A room that is removed while nobody else writes rentals has no live     *)
(* rental that goes with it: "Cannot delete room with active rentals".     *)
UndisturbedRemovalTakesNoTenant ==
    [][\A h \in clean, x \in RentalIds :
          /\ AtDesk(h, "remove:delete") /\ desk'[h] # desk[h]
          /\ rentals[x] # Null /\ rentals[x].status \in {"active", "pending_renewal"}
          => rentals'[x] # Null]_landlordVars

(* A room says how many physical rooms it has, through creation, addition, *)
(* removal and crashes, unless two requests enlarged it at once.           *)
TotalsAgree ==
    \A r \in Rooms \ miscounted : Offered(r) => totals[r] = Cardinality(BuiltIn({r}))

(* The overall rating of a target is that of its ratings, however creating, *)
(* changing and removing them interleaves with each other and with the     *)
(* removal of rooms, unless it was last written by a transaction that      *)
(* another one overtook between its read and its commit.                   *)
OverallIsThatOfRatings ==
    \A t \in Rated \ blurred : IsThere(t) => overall[t] = Tally(ratings, t)
=============================================================================
