--------------------------- MODULE RoommateStore ----------------------------
(***************************************************************************)
(* The tables that looking for a roommate works on, and the handlers of    *)
(* RoommateSeekingPostService and RoommateApplicationService.              *)
(*                                                                         *)
(* As in RentalStore, every awaited call is one atomic step and a handler  *)
(* is a frame.  A post's contactCount, its texts and all notifications are *)
(* left out.                                                               *)
(***************************************************************************)
EXTENDS Integers, FiniteSets

CONSTANTS
    Handlers,                         \* requests the server has in progress
    People,                           \* users
    Instances,                        \* physical rooms
    MaxOccupancy,                     \* maxOccupancy of the rooms
    Host, Home, FirstRental,          \* who rents which room at first
    Resident, SecondRental,           \* who may already share it
    FirstPost,                        \* the post the host has published
    FirstRooms,                       \* what it may be about: the home, or no room
    FirstApplicants,                  \* who may have applied; Null for nobody
    Owner,                            \* the user who owns the buildings
    PostIds, AppIds, RentalIds,       \* rows the tables can come to hold
    Null, Gone,                       \* no row or value; a deleted row
    Ops,                              \* the endpoints clients call, and "crash"
    Counts,                           \* numbers of people sought
    PostRooms, PostRentals,           \* rooms and rentals posts are made about
    MaxCalls                          \* bound: requests sent

PostStatus == {"draft", "pending_approval", "active", "paused", "closed", "expired"}
AppStatus == {"pending", "accepted", "rejected", "cancelled", "awaiting_confirmation"}
RentalStatus == {"active", "pending_renewal", "terminated"}

(* A row of roommate_seeking_posts; room is Null outside the platform. *)
Post == [tenant: People, room: Instances \cup {Null}, rental: RentalIds \cup {Null},
         seeking: Int, approved: Nat, remaining: Int, status: PostStatus]

App == [post: PostIds, who: People, status: AppStatus]

(* A row of rentals, and the application it was made from (no column). *)
Rental == [tenant: People, inst: Instances, status: RentalStatus,
           app: AppIds \cup {Null}]

ASSUME RoommateStoreAssumption ==
    /\ MaxOccupancy \in Nat \ {0}
    /\ Host \in People /\ Home \in Instances
    /\ FirstRental \in RentalIds /\ FirstPost \in PostIds
    /\ FirstRooms \subseteq {Home, Null}
    /\ FirstApplicants \subseteq (People \ {Host}) \cup {Null}
    /\ Resident \in People \ {Host} /\ SecondRental \in RentalIds \ {FirstRental}
    /\ Counts \subseteq Nat \ {0}
    /\ PostRooms \subseteq Instances \cup {Null}
    /\ PostRentals \subseteq RentalIds \cup {Null}
    /\ MaxCalls \in Nat
    /\ Null \notin People \cup Instances \cup PostIds \cup AppIds \cup RentalIds
    /\ {Null, Gone} \cap (Post \cup App \cup Rental) = {}
    /\ Null # Gone

VARIABLES
    posts, apps, rentals,
    instances,   \* status column of room_instances: "occupied" or not
    invites,     \* rentals an invite token has been made for
    call,        \* the frame of each handler
    started,     \* requests sent so far
    welcomed,    \* history: applications the tenant has accepted or invited
    cleared,     \* history: applications that could be confirmed
    approved,    \* history: applications the landlord has approved
    rerouted,    \* history: posts whose room was changed
    recounted,   \* history: posts whose slots were set otherwise than by
                 \* adding to, or subtracting from, what they were
    clean        \* history: handlers in progress whose reads no other handler's
                 \* write of posts, applications or rentals has outdated

vars == <<posts, apps, rentals, instances, invites, call, started, welcomed, cleared,
          approved, rerouted, recounted, clean>>

history == <<welcomed, cleared, approved, rerouted, recounted>>

Labels ==
    {"idle", "createPost:insert", "updatePost:write", "removePost:delete",
     "postStatus:write", "apply:find", "apply:insert", "respond:write", "cancel:write",
     "approve:write", "approve:count", "approve:read", "approve:close", "reject:write",
     "confirm:instance", "confirm:tenant", "confirm:occupancy", "confirm:commit",
     "add:findPost", "add:occupancy", "add:insertPost", "add:tenant", "add:find",
     "add:insert", "add:roomCount", "add:commit",
     "accept:find", "accept:tenant", "accept:occupancy", "accept:findPost",
     "accept:insertPost", "accept:updatePost", "accept:insert",
     "link:findPost", "link:occupancy", "link:insertPost", "link:updatePost"}

Frame == [at: Labels, who: People \cup {Null}, app: AppIds \cup {Null},
          post: PostIds \cup {Null}, copy: Post \cup {Null},
          room: Instances \cup {Null}, rental: RentalIds \cup {Null},
          edits: SUBSET {"seeking", "room", "rental"},
          status: AppStatus \cup PostStatus \cup {Null}, count: Nat]

Idle == [at |-> "idle", who |-> Null, app |-> Null, post |-> Null, copy |-> Null,
         room |-> Null, rental |-> Null, edits |-> {}, status |-> Null, count |-> 0]

-----------------------------------------------------------------------------
(* Queries. *)

Live(row) == row \notin {Null, Gone}

ActiveOf(t) == {x \in RentalIds : Live(rentals[x]) /\ rentals[x].tenant = t
                                  /\ rentals[x].status = "active"}

(* getOccupancyCountByRoomInstance *)
Occupancy(i) == Cardinality({x \in RentalIds :
    /\ Live(rentals[x])
    /\ rentals[x].inst = i
    /\ rentals[x].status \in {"active", "pending_renewal"}})

(* Not cancelled applications of t to a post of ps. *)
Applied(t, ps) == {a \in AppIds : Live(apps[a]) /\ apps[a].who = t
                                  /\ apps[a].post \in ps /\ apps[a].status # "cancelled"}

ActivePostsOf(x) == {p \in PostIds : Live(posts[p]) /\ posts[p].rental = x
                                     /\ posts[p].status = "active"}

-----------------------------------------------------------------------------
(* Moving a handler along. *)

At(h, label) == call[h].at = label

Begin(h, op, frame) ==
    /\ op \in Ops
    /\ At(h, "idle")
    /\ started < MaxCalls
    /\ started' = started + 1
    /\ call' = [call EXCEPT ![h] = frame]
    /\ clean' = clean \cup {h}

(* A read, and a write, after which the handler awaits its next call. *)
Goto(h, frame) ==
    /\ call' = [call EXCEPT ![h] = frame]
    /\ UNCHANGED <<started, clean>>

GotoWritten(h, frame) ==
    /\ call' = [call EXCEPT ![h] = frame]
    /\ clean' = clean \cap {h}
    /\ UNCHANGED started

(* The handler answers or throws, and the same after a write. *)
Return(h) ==
    /\ call' = [call EXCEPT ![h] = Idle]
    /\ clean' = clean \ {h}
    /\ UNCHANGED started

ReturnWritten(h) ==
    /\ call' = [call EXCEPT ![h] = Idle]
    /\ clean' = {}
    /\ UNCHANGED started

Goes(h, label) == [call[h] EXCEPT !.at = label]

NoWrites == UNCHANGED <<posts, apps, rentals, instances, invites, history>>
OnlyPosts == UNCHANGED <<apps, rentals, instances, invites, welcomed, cleared, approved>>
OnlyApps == UNCHANGED <<posts, rentals, instances, invites, rerouted, recounted>>

(* A read whose check decides whether the handler goes on. *)
Check(h, passes, label) ==
    /\ IF passes THEN Goto(h, Goes(h, label)) ELSE Return(h)
    /\ NoWrites

NewPost(u, i, x, n, s) == [tenant |-> u, room |-> i, rental |-> x, seeking |-> n,
                           approved |-> 0, remaining |-> n, status |-> s]

InsertPost(row) ==
    \E p \in PostIds :
        /\ posts[p] = Null
        /\ posts' = [posts EXCEPT ![p] = row]
=============================================================================
