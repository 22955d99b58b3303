----------------------------- MODULE Roommates ------------------------------
(***************************************************************************)
(* Posts and applications together over one database, and what the rental  *)
(* services, in three coarse actions, do to the rentals meanwhile.         *)
(***************************************************************************)
EXTENDS RoommatePosts, RoommateApplications

(* What the other services do to rentals meanwhile, and failure. *)

(* createRental, or a confirmed booking or invitation. *)
LetRoom(t, i) ==
    /\ "letRoom" \in Ops
    /\ started < MaxCalls
    /\ Occupancy(i) = 0 /\ t # Owner
    /\ \E x \in RentalIds :
          /\ rentals[x] = Null
          /\ rentals' = [rentals EXCEPT ![x] =
                            [tenant |-> t, inst |-> i, status |-> "active", app |-> Null]]
    /\ instances' = [instances EXCEPT ![i] = "occupied"]
    /\ started' = started + 1
    /\ clean' = {}
    /\ UNCHANGED <<posts, apps, invites, call, history>>

(* terminateRental. *)
EndRental(x) ==
    /\ "endRental" \in Ops
    /\ started < MaxCalls
    /\ Live(rentals[x])
    /\ rentals[x].status # "terminated"
    /\ rentals' = [rentals EXCEPT ![x].status = "terminated"]
    /\ instances' = [instances EXCEPT ![rentals[x].inst] = "available"]
    /\ started' = started + 1
    /\ clean' = {}
    /\ UNCHANGED <<posts, apps, invites, call, history>>

(* renewRental. *)
RenewRental(x) ==
    /\ "renewRental" \in Ops
    /\ started < MaxCalls
    /\ Live(rentals[x])
    /\ rentals[x].status = "active"
    /\ rentals' = [rentals EXCEPT ![x].status = "pending_renewal"]
    /\ started' = started + 1
    /\ clean' = {}
    /\ UNCHANGED <<posts, apps, instances, invites, call, history>>

Crash(h) ==
    /\ "crash" \in Ops
    /\ ~At(h, "idle")
    /\ Return(h)
    /\ NoWrites

-----------------------------------------------------------------------------
Init ==
    /\ \E n \in Counts, i \in FirstRooms :
          posts = [p \in PostIds |-> IF p = FirstPost
                       THEN NewPost(Host, i, FirstRental, n, "active") ELSE Null]
    /\ \E t \in FirstApplicants, b \in AppIds :
          apps = [a \in AppIds |->
             IF a = b /\ t # Null THEN [post |-> FirstPost, who |-> t, status |-> "pending"]
             ELSE Null]
    /\ \E shared \in BOOLEAN :
          rentals = [x \in RentalIds |->
             IF x = FirstRental \/ (shared /\ x = SecondRental)
             THEN [tenant |-> IF x = FirstRental THEN Host ELSE Resident,
                   inst |-> Home, status |-> "active", app |-> Null]
             ELSE Null]
    /\ instances = [i \in Instances |-> IF i = Home THEN "occupied" ELSE "available"]
    /\ invites = {}
    /\ call = [h \in Handlers |-> Idle]
    /\ started = 0
    /\ welcomed = {} /\ cleared = {} /\ approved = {}
    /\ rerouted = {} /\ recounted = {}
    /\ clean = {}

PostRequest(h) ==
    \/ \E u \in People, i \in PostRooms, x \in PostRentals, n \in Counts :
          CreatePost_Check(h, u, i, x, n)
    \/ \E p \in PostIds, n \in Counts : UpdatePost_Read(h, p, {"seeking"}, n, Null, Null)
    \/ \E p \in PostIds, i \in PostRooms : UpdatePost_Read(h, p, {"room"}, 0, i, Null)
    \/ \E p \in PostIds, x \in PostRentals : UpdatePost_Read(h, p, {"rental"}, 0, Null, x)
    \/ \E p \in PostIds : RemovePost_Read(h, p)
    \/ \E p \in PostIds, s \in {"active", "closed"} : UpdatePostStatus_Read(h, p, s)

ApplicationRequest(h) ==
    \/ \E t \in People, p \in PostIds : CreateApplication_ReadPost(h, t, p)
    \/ \E a \in AppIds, s \in {"accepted", "rejected"} : RespondToApplication_Read(h, a, s)
    \/ \E a \in AppIds :
          \/ Cancel_Read(h, a) \/ LandlordApprove_Read(h, a) \/ LandlordReject_Read(h, a)
          \/ ConfirmApplication_Read(h, a)
    \/ \E u, t \in People, x \in RentalIds : AddRoommate_FindRental(h, u, x, t)
    \/ \E x \in RentalIds : GenerateInviteLink_FindRental(h, x)
    \/ \E t \in People, x \in RentalIds : AcceptInvite_ReadRental(h, t, x)

Advance(h) ==
    \/ CreatePost_Insert(h) \/ UpdatePost_Write(h) \/ RemovePost_Delete(h)
    \/ UpdatePostStatus_Write(h)
    \/ CreateApplication_FindExisting(h) \/ CreateApplication_Insert(h)
    \/ RespondToApplication_Write(h) \/ Cancel_Write(h)
    \/ LandlordApprove_Write(h) \/ HandleApproved_Count(h) \/ HandleApproved_Read(h)
    \/ HandleApproved_Close(h) \/ LandlordReject_Write(h)
    \/ CreateRentalForRoommate_CheckInstance(h) \/ CreateRentalForRoommate_CheckTenant(h)
    \/ CreateRentalForRoommate_Count(h) \/ CreateRentalForRoommate_Commit(h)
    \/ AddRoommate_FindPost(h) \/ AddRoommate_Occupancy(h) \/ AddRoommate_InsertPost(h)
    \/ AddRoommate_CheckTenant(h) \/ AddRoommate_FindExisting(h) \/ AddRoommate_Insert(h)
    \/ AddRoommate_Count(h) \/ AddRoommate_Commit(h)
    \/ GenerateInviteLink_FindPost(h) \/ GenerateInviteLink_Occupancy(h)
    \/ GenerateInviteLink_InsertPost(h) \/ GenerateInviteLink_UpdatePost(h)
    \/ AcceptInvite_FindExisting(h) \/ AcceptInvite_CheckTenant(h) \/ AcceptInvite_Count(h)
    \/ AcceptInvite_FindPost(h) \/ AcceptInvite_InsertPost(h) \/ AcceptInvite_UpdatePost(h)
    \/ AcceptInvite_Insert(h)

Elsewhere ==
    \/ \E t \in People, i \in Instances : LetRoom(t, i)
    \/ \E x \in RentalIds : EndRental(x) \/ RenewRental(x)

Next ==
    \/ \E h \in Handlers :
          PostRequest(h) \/ ApplicationRequest(h) \/ Advance(h) \/ Crash(h)
    \/ Elsewhere

Spec == Init /\ [][Next]_vars

-----------------------------------------------------------------------------
(* Every row, frame and history variable has the shape its table or        *)
(* handler gives it.                                                       *)
TypeOK ==
    /\ posts \in [PostIds -> Post \cup {Null, Gone}]
    /\ apps \in [AppIds -> App \cup {Null, Gone}]
    /\ rentals \in [RentalIds -> Rental \cup {Null}]
    /\ instances \in [Instances -> {"available", "occupied"}]
    /\ invites \subseteq RentalIds
    /\ call \in [Handlers -> Frame]
    /\ started \in 0..MaxCalls
    /\ welcomed \subseteq AppIds /\ cleared \subseteq AppIds /\ approved \subseteq AppIds
    /\ rerouted \subseteq PostIds /\ recounted \subseteq PostIds
    /\ clean \subseteq Handlers

(* Whoever moved in on an application applied themselves or was invited,   *)
(* was accepted by the tenant of the post, and by the landlord as well     *)
(* unless the post was moved to another room; however answers, confirms,   *)
(* edits and deletions interleave, and whatever became of the post since.  *)
RoommatesFollowConsent ==
    \A x \in RentalIds : Live(rentals[x]) /\ rentals[x].app # Null =>
        LET a == rentals[x].app IN
        /\ a \in welcomed
        /\ Live(apps[a]) => /\ apps[a].who = rentals[x].tenant
                            /\ a \in approved \/ apps[a].post \in rerouted

(* The slots of a post are the people sought less those approved, as the   *)
(* schema says of remainingSlots, through concurrent approvals, moves and  *)
(* edits; unless an edit was computed from outdated numbers or stopped at  *)
(* zero, or the numbers were replaced by the places an invite found.       *)
SlotsAddUp ==
    \A p \in PostIds \ recounted :
        Live(posts[p]) => posts[p].remaining = posts[p].seeking - posts[p].approved

(* Somebody who moves in while nobody else writes rentals, posts or        *)
(* applications finds a place, has no other active rental, and leaves a    *)
(* room that has become full marked as occupied; from every state the      *)
(* others can produce, crowded rooms included.                             *)
UndisturbedMoveInFits ==
    [][\A h \in clean, x \in RentalIds :
          /\ At(h, "confirm:commit") \/ At(h, "add:commit")
          /\ call'[h] # call[h]
          /\ rentals[x] = Null /\ rentals'[x] # Null
          => LET i == rentals'[x].inst IN
             /\ Occupancy(i) < MaxOccupancy
             /\ ActiveOf(rentals'[x].tenant) = {}
             /\ Occupancy(i) + 1 = MaxOccupancy => instances'[i] = "occupied"]_vars

-----------------------------------------------------------------------------
(* Refinement. *)

Stage(a) ==
    IF \E x \in RentalIds : Live(rentals[x]) /\ rentals[x].app = a THEN "in"
    ELSE IF a \in cleared THEN "cleared"
    ELSE IF a \in welcomed THEN "welcomed"
    ELSE IF apps[a] # Null THEN "asked" ELSE "none"

Consent == INSTANCE RoommateConsent WITH
    Applications <- AppIds,
    stage <- [a \in AppIds |-> Stage(a)]

(* An application goes through asking, being welcomed and being cleared    *)
(* before its applicant moves in, and never back.                          *)
RoommatesImplementConsent == Consent!Spec
=============================================================================
