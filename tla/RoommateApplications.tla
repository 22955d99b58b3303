------------------------ MODULE RoommateApplications ------------------------
(***************************************************************************)
(* Applying for a place in a shared room, inviting, answering, approving   *)
(* and moving in: RoommateApplicationService.                              *)
(*                                                                         *)
(* update of an application changes no modelled column and is no action;   *)
(* bulkRespondToApplications is a sequence of respondToApplication.        *)
(***************************************************************************)
EXTENDS RoommateStore

(* An insert into roommate_applications, refused when the post is gone. *)
InsertApp(h, row, status) ==
    IF Live(posts[row.post])
    THEN /\ \E a \in AppIds :
               /\ apps[a] = Null
               /\ apps' = [apps EXCEPT ![a] = row]
               /\ welcomed' = IF status = "accepted" THEN welcomed \cup {a}
                                                     ELSE welcomed
         /\ ReturnWritten(h)
         /\ OnlyApps /\ UNCHANGED <<cleared, approved>>
    ELSE Return(h) /\ NoWrites

CreateApplication_ReadPost(h, t, p) ==
    /\ Live(posts[p])
    /\ posts[p].status = "active"
    /\ posts[p].remaining > 0
    /\ posts[p].tenant # t
    /\ Begin(h, "createApplication",
             [Idle EXCEPT !.at = "apply:find", !.who = t, !.post = p])
    /\ NoWrites

CreateApplication_FindExisting(h) ==
    /\ At(h, "apply:find")
    /\ Check(h, Applied(call[h].who, {call[h].post}) = {}, "apply:insert")

CreateApplication_Insert(h) ==
    /\ At(h, "apply:insert")
    /\ InsertApp(h, [post |-> call[h].post, who |-> call[h].who, status |-> "pending"],
                 "pending")

(* A handler reads application a, finds one of these statuses, and will    *)
(* set it to s.                                                            *)
ReadApp(h, op, a, statuses, label, s) ==
    /\ Live(apps[a])
    /\ apps[a].status \in statuses
    /\ Begin(h, op, [Idle EXCEPT !.at = label, !.app = a, !.status = s])
    /\ NoWrites

(* It does, unless the application was deleted meanwhile. *)
WriteApp(h, label) ==
    LET a == call[h].app IN
    /\ At(h, label)
    /\ IF Live(apps[a])
       THEN apps' = [apps EXCEPT ![a].status = call[h].status]
       ELSE UNCHANGED apps

OnPlatform(a) == Live(apps[a]) /\ posts[apps[a].post].room # Null

(* Mutant: the landlord is never asked. *)
Answer_Alone(a, s) == IF s = "accepted" THEN "awaiting_confirmation" ELSE s

(* What the tenant's answer s makes of the application: outside the        *)
(* platform nobody else has to agree.                                      *)
Answer(a, s) ==
    IF s = "accepted" /\ ~OnPlatform(a) THEN "awaiting_confirmation" ELSE s

RespondToApplication_Read(h, a, s) ==
    ReadApp(h, "respondToApplication", a, {"pending"}, "respond:write", Answer(a, s))

RespondToApplication_Write(h) ==
    LET a == call[h].app
        s == call[h].status
    IN
    /\ WriteApp(h, "respond:write")
    /\ IF Live(apps[a])
       THEN /\ ReturnWritten(h)
            /\ welcomed' = welcomed \cup (IF s = "rejected" THEN {} ELSE {a})
            /\ cleared' = cleared \cup (IF s = "awaiting_confirmation" THEN {a} ELSE {})
       ELSE Return(h) /\ UNCHANGED <<welcomed, cleared>>
    /\ OnlyApps /\ UNCHANGED approved

Cancel_Read(h, a) ==
    ReadApp(h, "cancelApplication", a, {"pending"}, "cancel:write", "cancelled")

Cancel_Write(h) ==
    /\ WriteApp(h, "cancel:write")
    /\ IF Live(apps[call[h].app]) THEN ReturnWritten(h) ELSE Return(h)
    /\ OnlyApps /\ UNCHANGED <<welcomed, cleared, approved>>

-----------------------------------------------------------------------------
(* The landlord. *)

LandlordApprove_Read(h, a) ==
    /\ OnPlatform(a)
    /\ ReadApp(h, "landlordApprove", a, {"accepted"}, "approve:write",
               "awaiting_confirmation")

LandlordApprove_Write(h) ==
    LET a == call[h].app IN
    /\ WriteApp(h, "approve:write")
    /\ IF Live(apps[a])
       THEN /\ GotoWritten(h, [Goes(h, "approve:count") EXCEPT !.post = apps[a].post])
            /\ cleared' = cleared \cup {a}
            /\ approved' = approved \cup {a}
       ELSE Return(h) /\ UNCHANGED <<cleared, approved>>
    /\ OnlyApps /\ UNCHANGED welcomed

(* One more person approved, one slot less: increments in the database. *)
Counted(post) == [post EXCEPT !.approved = @ + 1, !.remaining = @ - 1]

(* handleApprovedApplication, in three calls. *)
HandleApproved_Count(h) ==
    LET p == call[h].post IN
    /\ At(h, "approve:count")
    /\ IF Live(posts[p])
       THEN /\ posts' = [posts EXCEPT ![p] = Counted(@)]
            /\ GotoWritten(h, Goes(h, "approve:read"))
       ELSE Return(h) /\ UNCHANGED posts
    /\ OnlyPosts /\ UNCHANGED <<rerouted, recounted>>

HandleApproved_Read(h) ==
    LET p == call[h].post IN
    /\ At(h, "approve:read")
    /\ Check(h, Live(posts[p]) /\ posts[p].remaining <= 0, "approve:close")

HandleApproved_Close(h) ==
    LET p == call[h].post IN
    /\ At(h, "approve:close")
    /\ IF Live(posts[p])
       THEN posts' = [posts EXCEPT ![p].status = "closed"] /\ ReturnWritten(h)
       ELSE Return(h) /\ UNCHANGED posts
    /\ OnlyPosts /\ UNCHANGED <<rerouted, recounted>>

LandlordReject_Read(h, a) ==
    /\ OnPlatform(a)
    /\ ReadApp(h, "landlordReject", a, {"accepted"}, "reject:write", "rejected")

LandlordReject_Write(h) ==
    /\ WriteApp(h, "reject:write")
    /\ IF Live(apps[call[h].app]) THEN ReturnWritten(h) ELSE Return(h)
    /\ OnlyApps /\ UNCHANGED <<welcomed, cleared, approved>>

-----------------------------------------------------------------------------
(* Moving in. *)

(* What both transactions that let somebody move in write: the rental, the *)
(* counts of the post, and the room when n people before make it full.     *)
MoveIn(t, i, a, p, n, close) ==
    LET post == Counted(posts[p]) IN
    /\ \E x \in RentalIds :
          /\ rentals[x] = Null
          /\ rentals' = [rentals EXCEPT ![x] =
                            [tenant |-> t, inst |-> i, status |-> "active", app |-> a]]
    /\ posts' = [posts EXCEPT ![p] =
                    IF close /\ post.remaining <= 0 THEN [post EXCEPT !.status = "closed"]
                                                    ELSE post]
    /\ instances' = IF n + 1 >= MaxOccupancy
                    THEN [instances EXCEPT ![i] = "occupied"] ELSE instances
    /\ UNCHANGED <<invites, history>>

(* Mutant: an application the tenant has accepted can be confirmed. *)
Confirmable_Accepted(a) == apps[a].status \in {"accepted", "awaiting_confirmation"}

Confirmable(a) == apps[a].status = "awaiting_confirmation"

(* confirmApplication; one for a room outside the platform ends here.      *)
ConfirmApplication_Read(h, a) ==
    /\ OnPlatform(a) /\ Confirmable(a)
    /\ Begin(h, "confirmApplication",
             [Idle EXCEPT !.at = "confirm:instance", !.app = a, !.who = apps[a].who,
                          !.post = apps[a].post, !.room = posts[apps[a].post].room])
    /\ NoWrites

(* createRentalForRoommate, in four calls. *)
CreateRentalForRoommate_CheckInstance(h) ==
    /\ At(h, "confirm:instance")
    /\ Check(h, \A x \in ActiveOf(call[h].who) : rentals[x].inst # call[h].room,
             "confirm:tenant")

CreateRentalForRoommate_CheckTenant(h) ==
    /\ At(h, "confirm:tenant")
    /\ Check(h, ActiveOf(call[h].who) = {}, "confirm:occupancy")

(* Mutant: one person too many is let in. *)
HasPlace_OneTooMany(i) == Occupancy(i) <= MaxOccupancy

HasPlace(i) == Occupancy(i) < MaxOccupancy

(* The count is asked outside the transaction that has just begun. *)
CountPeople(h, from, to) ==
    LET i == call[h].room IN
    /\ At(h, from)
    /\ IF HasPlace(i)
       THEN Goto(h, [Goes(h, to) EXCEPT !.count = Occupancy(i)])
       ELSE Return(h)
    /\ NoWrites

CreateRentalForRoommate_Count(h) == CountPeople(h, "confirm:occupancy", "confirm:commit")

CreateRentalForRoommate_Commit(h) ==
    LET f == call[h] IN
    /\ At(h, "confirm:commit")
    /\ IF Live(apps[f.app])
       THEN /\ apps' = [apps EXCEPT ![f.app].status = "accepted"]
            /\ MoveIn(f.who, f.room, f.app, f.post, f.count, FALSE)
            /\ ReturnWritten(h)
       ELSE Return(h) /\ NoWrites

-----------------------------------------------------------------------------
(* addRoommateDirectly: u, who rents x, adds t. *)

AddRoommate_FindRental(h, u, x, t) ==
    /\ x \in ActiveOf(u)
    /\ Begin(h, "addRoommate",
             [Idle EXCEPT !.at = "add:findPost", !.rental = x, !.who = t,
                          !.room = rentals[x].inst])
    /\ NoWrites

(* Slots, permission and person are checked on the post that was read, or  *)
(* made.                                                                   *)
MayAdd(u, t, post) ==
    /\ post.remaining > 0
    /\ post.tenant = u \/ (post.room # Null /\ u = Owner)
    /\ t # post.tenant
    /\ post.room # Null

AddRoommate_FindPost(h) ==
    LET f == call[h]
        u == rentals[f.rental].tenant
    IN
    /\ At(h, "add:findPost")
    /\ \/ \E p \in ActivePostsOf(f.rental) :
             IF MayAdd(u, f.who, posts[p])
             THEN Goto(h, [Goes(h, "add:tenant") EXCEPT !.post = p, !.room = posts[p].room])
             ELSE Return(h)
       \/ /\ ActivePostsOf(f.rental) = {}
          /\ Goto(h, Goes(h, "add:occupancy"))
    /\ NoWrites

(* A look at the occupancy, to derive the number of places from it. *)
LookAtOccupancy(h, from, to) ==
    /\ At(h, from)
    /\ Goto(h, [Goes(h, to) EXCEPT !.count = Occupancy(call[h].room)])
    /\ NoWrites

AddRoommate_Occupancy(h) == LookAtOccupancy(h, "add:occupancy", "add:insertPost")

(* The hidden post of rental x, for the places that are left. *)
HiddenPost(x, n) ==
    NewPost(rentals[x].tenant, rentals[x].inst, x, MaxOccupancy - n, "active")

(* Its insert, by handler h, which goes on at label if ok holds of it. *)
InsertHiddenPost(h, ok, label) ==
    LET f == call[h]
        row == HiddenPost(f.rental, f.count)
    IN
    /\ \E p \in PostIds :
          /\ posts[p] = Null
          /\ posts' = [posts EXCEPT ![p] = row]
          /\ IF ok THEN GotoWritten(h, [Goes(h, label) EXCEPT !.post = p])
                   ELSE ReturnWritten(h)
    /\ OnlyPosts /\ UNCHANGED <<rerouted, recounted>>

AddRoommate_InsertPost(h) ==
    LET f == call[h] IN
    /\ At(h, "add:insertPost")
    /\ InsertHiddenPost(h, MayAdd(rentals[f.rental].tenant, f.who,
                                  HiddenPost(f.rental, f.count)), "add:tenant")

(* The tenant of the post asks the landlord; the landlord need not. *)
AddRoommate_CheckTenant(h) ==
    LET f == call[h]
        asksLandlord == rentals[f.rental].tenant # Owner
    IN
    /\ At(h, "add:tenant")
    /\ Check(h, ActiveOf(f.who) = {}, IF asksLandlord THEN "add:find" ELSE "add:roomCount")

AddRoommate_FindExisting(h) ==
    /\ At(h, "add:find")
    /\ Check(h, Applied(call[h].who, {call[h].post}) = {}, "add:insert")

AddRoommate_Insert(h) ==
    /\ At(h, "add:insert")
    /\ InsertApp(h, [post |-> call[h].post, who |-> call[h].who, status |-> "accepted"],
                 "accepted")

AddRoommate_Count(h) == CountPeople(h, "add:roomCount", "add:commit")

AddRoommate_Commit(h) ==
    LET f == call[h] IN
    /\ At(h, "add:commit")
    /\ IF Live(posts[f.post])
       THEN /\ MoveIn(f.who, f.room, Null, f.post, f.count, TRUE)
            /\ ReturnWritten(h)
            /\ UNCHANGED apps
       ELSE Return(h) /\ NoWrites

-----------------------------------------------------------------------------
(* Invite links: the tenant makes a token for a rental, anybody who has it *)
(* applies with it, welcome in advance.                                    *)

GenerateInviteLink_FindRental(h, x) ==
    /\ Live(rentals[x])
    /\ rentals[x].status = "active"
    /\ Begin(h, "generateInviteLink",
             [Idle EXCEPT !.at = "link:findPost", !.rental = x, !.room = rentals[x].inst])
    /\ NoWrites

(* Find an active post of the rental, if any, and go on at label. *)
FindPost(h, from, label, none) ==
    /\ At(h, from)
    /\ \/ \E p \in ActivePostsOf(call[h].rental) :
             Goto(h, [Goes(h, label) EXCEPT !.post = p])
       \/ /\ ActivePostsOf(call[h].rental) = {}
          /\ Goto(h, Goes(h, none))
    /\ NoWrites

GenerateInviteLink_FindPost(h) ==
    FindPost(h, "link:findPost", "link:occupancy", "link:occupancy")

GenerateInviteLink_Occupancy(h) ==
    LookAtOccupancy(h, "link:occupancy",
                    IF call[h].post = Null THEN "link:insertPost" ELSE "link:updatePost")

GenerateInviteLink_InsertPost(h) ==
    LET f == call[h] IN
    /\ At(h, "link:insertPost")
    /\ InsertPost(HiddenPost(f.rental, f.count))
    /\ ReturnWritten(h)
    /\ invites' = invites \cup {f.rental}
    /\ UNCHANGED <<apps, rentals, instances, history>>

(* The number sought and the slots become the places that are left. *)
SetPlaces(p, n) ==
    /\ posts' = [posts EXCEPT ![p].seeking = MaxOccupancy - n,
                              ![p].remaining = MaxOccupancy - n]
    /\ recounted' = recounted \cup {p}

GenerateInviteLink_UpdatePost(h) ==
    LET f == call[h] IN
    /\ At(h, "link:updatePost")
    /\ IF Live(posts[f.post])
       THEN /\ SetPlaces(f.post, f.count)
            /\ ReturnWritten(h)
            /\ invites' = invites \cup {f.rental}
       ELSE Return(h) /\ UNCHANGED <<posts, recounted, invites>>
    /\ UNCHANGED <<apps, rentals, instances, welcomed, cleared, approved, rerouted>>

(* acceptInvite, with the token of rental x. *)
AcceptInvite_ReadRental(h, t, x) ==
    /\ x \in invites
    /\ rentals[x].status = "active"
    /\ t # rentals[x].tenant
    /\ Begin(h, "acceptInvite",
             [Idle EXCEPT !.at = "accept:find", !.rental = x, !.who = t,
                          !.room = rentals[x].inst])
    /\ NoWrites

PostsOf(x) == {p \in PostIds : Live(posts[p]) /\ posts[p].rental = x}

AcceptInvite_FindExisting(h) ==
    /\ At(h, "accept:find")
    /\ Check(h, Applied(call[h].who, PostsOf(call[h].rental)) = {}, "accept:tenant")

AcceptInvite_CheckTenant(h) ==
    /\ At(h, "accept:tenant")
    /\ Check(h, ActiveOf(call[h].who) = {}, "accept:occupancy")

AcceptInvite_Count(h) == CountPeople(h, "accept:occupancy", "accept:findPost")

AcceptInvite_FindPost(h) ==
    FindPost(h, "accept:findPost", "accept:updatePost", "accept:insertPost")

AcceptInvite_InsertPost(h) ==
    /\ At(h, "accept:insertPost")
    /\ InsertHiddenPost(h, TRUE, "accept:insert")

AcceptInvite_UpdatePost(h) ==
    LET f == call[h] IN
    /\ At(h, "accept:updatePost")
    /\ IF Live(posts[f.post])
       THEN SetPlaces(f.post, f.count) /\ GotoWritten(h, Goes(h, "accept:insert"))
       ELSE Return(h) /\ UNCHANGED <<posts, recounted>>
    /\ OnlyPosts /\ UNCHANGED rerouted

AcceptInvite_Insert(h) ==
    /\ At(h, "accept:insert")
    /\ InsertApp(h, [post |-> call[h].post, who |-> call[h].who, status |-> "accepted"],
                 "accepted")
=============================================================================
