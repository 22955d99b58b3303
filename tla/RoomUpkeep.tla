----------------------------- MODULE RoomUpkeep -----------------------------
(***************************************************************************)
(* Landlords offering rooms, more physical rooms of one, and removing      *)
(* rooms: the parts of RoomsService and BuildingsService that reach into   *)
(* the tables of RentalPlatform.                                           *)
(*                                                                         *)
(* A removed room takes its physical rooms, requests and rentals with it,  *)
(* by foreign keys that cascade.  A handler of RentalPlatform that still   *)
(* works on one of them throws at its next write.  Removing a building     *)
(* removes several rooms at once.  What a room is like is left out.        *)
(***************************************************************************)
EXTENDS RentalPlatform

CONSTANTS
    FirstBuilt,     \* the physical rooms there are at the beginning
    Reviewers,      \* users who rate
    RatingIds,      \* rows ratings can come to hold
    Rated,          \* rooms and reviewers that are rated
    Stars           \* what a rating can say

VARIABLES
    built,          \* the rows of room_instances
    totals,         \* Room.totalRooms; Null while there is no such room
    gone,           \* rows that were deleted: ids are never used again
    desk,           \* the frame of each handler of these services
    ratings,
    overall,        \* overallRating and totalRatings of who or what is rated
    miscounted,     \* history: rooms that two requests enlarged at once
    fresh,          \* history: handlers at ratings that no commit has overtaken
    blurred         \* history: targets whose overall rating an overtaken handler wrote

upkeepVars == <<built, totals, miscounted>>
ratingVars == <<ratings, overall, fresh, blurred>>

landlordVars == <<vars, built, totals, gone, desk, ratings, overall, miscounted, fresh,
                  blurred>>

Rating == [by: Reviewers, of: Rated, stars: Stars]

(* An average is kept as what it is computed from. *)
Overall == [sum: Nat, count: Nat]

DeskFrame ==
    [at: {"idle"}]
    \cup [at: {"update:commit"}, room: Rooms, total: Nat, read: Nat]
    \cup [at: {"remove:delete"}, rooms: SUBSET Rooms]
    \cup [at: {"rating:change", "rating:read", "rating:commit"}, id: RatingIds \cup {Null},
          of: Rated, row: Rating \cup {Null}, result: Overall \cup {Null}]

ASSUME UpkeepAssumption ==
    /\ IsFiniteSet(Instances) /\ FirstBuilt \subseteq Instances
    /\ Rated \subseteq Rooms \cup Reviewers
    /\ Stars \subseteq Nat
    /\ Null \notin Nat \cup RatingIds \cup Rating \cup Overall
    /\ RatingIds \cap (Rooms \cup RequestIds \cup RentalIds) = {}

-----------------------------------------------------------------------------
AtDesk(h, label) == desk[h].at = label

Open(h, op, frame) ==
    /\ op \in Ops
    /\ At(h, "idle") /\ AtDesk(h, "idle")
    /\ started < MaxCalls
    /\ started' = started + 1
    /\ desk' = [desk EXCEPT ![h] = frame]
    /\ clean' = clean \cup {h}
    /\ UNCHANGED call

Close(h) ==
    /\ desk' = [desk EXCEPT ![h] = [at |-> "idle"]]
    /\ clean' = clean \ {h}
    /\ UNCHANGED <<started, call>>

(* The same after a write of rentals or room_instances. *)
CloseWritten(h) ==
    /\ desk' = [desk EXCEPT ![h] = [at |-> "idle"]]
    /\ clean' = {}
    /\ UNCHANGED <<started, call>>

Offered(r) == totals[r] # Null

BuiltIn(rs) == {i \in built : RoomOf[i] \in rs}

(* Rows of room_instances for n more rooms of r. *)
Build(r, n) ==
    \E new \in SUBSET {i \in Instances \ built : RoomOf[i] = r} :
        /\ Cardinality(new) = n
        /\ built' = built \cup new
        /\ instances' = [i \in Instances |-> IF i \in new THEN "available" ELSE instances[i]]

NotRated == [sum |-> 0, count |-> 0]

-----------------------------------------------------------------------------
(* create: a room with its physical rooms, in one transaction.  One that   *)
(* finds the slug it looked up taken leaves nothing, and is no step.       *)
CreateRoom(r, n) ==
    /\ "createRoom" \in Ops
    /\ ~Offered(r) /\ r \notin gone
    /\ started < MaxCalls
    /\ started' = started + 1
    /\ Build(r, n)
    /\ totals' = [totals EXCEPT ![r] = n]
    /\ overall' = [t \in Rated |-> IF t = r THEN NotRated ELSE overall[t]]
    /\ clean' = {}
    /\ UNCHANGED <<bookings, invitations, rentals, agreed, call, gone, desk, miscounted,
                   ratings, fresh, blurred>>

-----------------------------------------------------------------------------
(* update, where it changes how many rooms there are: only to more.        *)

UpdateRoom_Read(h, r, n) ==
    /\ Offered(r)
    /\ n > totals[r]
    /\ Open(h, "updateRoom",
            [at |-> "update:commit", room |-> r, total |-> n, read |-> totals[r]])
    /\ miscounted' = miscounted \cup
          IF \E g \in Handlers \ {h} : AtDesk(g, "update:commit") /\ desk[g].room = r
          THEN {r} ELSE {}
    /\ UNCHANGED <<bookings, invitations, rentals, instances, agreed, built, totals, gone,
                   ratingVars>>

(* Mutant: as many rooms are added as there are to be. *)
Additional_All(f) == f.total

(* How many are added, by the total read before the transaction. *)
Additional(f) == f.total - f.read

(* The transaction locks the room first, so that the numbers of the new    *)
(* rooms are free.                                                         *)
UpdateRoom_Commit(h) ==
    LET f == desk[h] IN
    /\ AtDesk(h, "update:commit")
    /\ \/ /\ ~Offered(f.room)
          /\ Close(h)
          /\ UNCHANGED <<instances, built, totals>>
       \/ /\ Offered(f.room)
          /\ Build(f.room, Additional(f))
          /\ totals' = [totals EXCEPT ![f.room] = f.total]
          /\ CloseWritten(h)
    /\ UNCHANGED <<bookings, invitations, rentals, agreed, gone, miscounted, ratingVars>>

-----------------------------------------------------------------------------
(* remove, of a room or of a building. *)

(* Mutant: only active rentals are in the way. *)
Inhabited_Active(i) == ActiveOn(i) # {}

Inhabited(i) == LiveOn(i) # {}

RemoveRooms_Read(h, rs) ==
    /\ rs # {} /\ \A r \in rs : Offered(r)
    /\ \A i \in BuiltIn(rs) : ~Inhabited(i)
    /\ Open(h, "removeRoom", [at |-> "remove:delete", rooms |-> rs])
    /\ UNCHANGED <<bookings, invitations, rentals, instances, agreed, upkeepVars, gone,
                   ratingVars>>

RequestsOf(rs) ==
    {b \in BookingIds : bookings[b] # Null /\ bookings[b].room \in rs}
    \cup {v \in InvitationIds : invitations[v] # Null /\ invitations[v].room \in rs}

RentalsOf(is) == {x \in RentalIds : rentals[x] # Null /\ rentals[x].inst \in is}

(* A rental elsewhere that came from a lost request forgets it.            *)
Orphaned(row, lost) ==
    LET kept(id) == IF id \in lost THEN Null ELSE id IN
    IF row = Null THEN Null
    ELSE [booking |-> kept(row.booking), invitation |-> kept(row.invitation),
          inst |-> row.inst, tenant |-> row.tenant, status |-> row.status]

RemoveRooms_Delete(h) ==
    LET rs == {r \in desk[h].rooms : Offered(r)}
        is == BuiltIn(rs)
        requests == RequestsOf(rs)
        lost == RentalsOf(is)
    IN
    /\ AtDesk(h, "remove:delete")
    /\ built' = built \ is
    /\ totals' = [r \in Rooms |-> IF r \in rs THEN Null ELSE totals[r]]
    /\ instances' = [i \in Instances |-> IF i \in is THEN "unavailable" ELSE instances[i]]
    /\ bookings' = [b \in BookingIds |-> IF b \in requests THEN Null ELSE bookings[b]]
    /\ invitations' = [v \in InvitationIds |-> IF v \in requests THEN Null ELSE invitations[v]]
    /\ rentals' = [x \in RentalIds |-> IF x \in lost THEN Null
                                       ELSE Orphaned(rentals[x], requests)]
    /\ gone' = gone \cup requests \cup lost \cup rs
    /\ overall' = [t \in Rated |-> IF t \in rs THEN Null ELSE overall[t]]
    /\ CloseWritten(h)
    /\ UNCHANGED <<agreed, miscounted, ratings, fresh, blurred>>

-----------------------------------------------------------------------------
(* The handlers of RentalPlatform among removals. *)

(* The rows without which a handler cannot go on.  Once createRental has   *)
(* inserted its rental it only writes to the physical room.                *)
Needs(f) ==
    {f.rental} \cup IF f.at = "createRental:occupy" THEN {} ELSE {f.req}

Dangling(f) ==
    \/ f.inst # Null /\ f.inst \notin built
    \/ ~(f.insts \subseteq built)
    \/ Needs(f) \cap gone # {}
    \/ f.room # Null /\ ~Offered(f.room)

(* Its next write throws. *)
Fails(h) ==
    /\ Dangling(call[h])
    /\ Return(h)
    /\ UNCHANGED <<bookings, invitations, rentals, instances, agreed, upkeepVars, gone, desk,
                   ratingVars>>

(* Any other step is on rows that are there; UpdateRental has no frame.    *)
PlatformStep ==
    /\ \/ \E h \in Handlers :
             /\ AtDesk(h, "idle") /\ ~Dangling(call[h])
             /\ BookingStep(h) \/ InvitationStep(h) \/ RentalStep(h) \/ Crash(h)
             /\ ~Dangling(call'[h])
       \/ \E x \in RentalIds, s \in RentalEdits : UpdateRental(x, s)
    /\ \A x \in RentalIds \cap gone : rentals'[x] = Null
    /\ \A b \in BookingIds \cap gone : bookings'[b] = Null
    /\ \A v \in InvitationIds \cap gone : invitations'[v] = Null
    /\ UNCHANGED <<upkeepVars, gone, desk, ratingVars>>

UpkeepStep(h) ==
    \/ \E r \in Rooms, n \in 1..Cardinality(Instances) : UpdateRoom_Read(h, r, n)
    \/ UpdateRoom_Commit(h)
    \/ \E rs \in SUBSET Rooms : RemoveRooms_Read(h, rs)
    \/ RemoveRooms_Delete(h)
    \/ Fails(h)
=============================================================================
