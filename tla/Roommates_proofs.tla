-------------------------- MODULE Roommates_proofs ---------------------------
(***************************************************************************)
(* Proofs about Roommates for any handlers, people, rooms, rows, numbers   *)
(* of people sought and requests.                                          *)
(***************************************************************************)
EXTENDS Roommates, FiniteSetTheorems, TLAPS

-----------------------------------------------------------------------------
(* The invariant.                                                          *)

(* A post that no landlord needs to agree to, or whose room was changed.   *)
Unplaced(p) == p \in rerouted \/ posts[p].room = Null

(* The foreign keys: applications go with their post, rentals stay.        *)
KeysOK ==
    /\ \A a \in AppIds : Live(apps[a]) => Live(posts[apps[a].post])
    /\ \A x \in invites : Live(rentals[x])
    /\ IsFiniteSet({x \in RentalIds : Live(rentals[x])})

(* What the status of an application says of those who had to agree.       *)
ConsentOK(a) ==
    /\ apps[a] = Null => a \notin welcomed \cup cleared \cup approved
    /\ Live(apps[a]) =>
          /\ apps[a].status \in {"accepted", "awaiting_confirmation"} => a \in welcomed
          /\ apps[a].status = "awaiting_confirmation" =>
                a \in cleared /\ (a \in approved \/ Unplaced(apps[a].post))

Answering == {"respond:write", "cancel:write", "approve:write", "reject:write"}
Confirming == {"confirm:instance", "confirm:tenant", "confirm:occupancy", "confirm:commit"}
AddingTo == {"add:tenant", "add:find", "add:insert", "add:roomCount", "add:commit"}
Adding == AddingTo \cup {"add:findPost", "add:occupancy", "add:insertPost"}
Linking == {"link:findPost", "link:occupancy", "link:insertPost", "link:updatePost"}
Accepting == {"accept:find", "accept:tenant", "accept:occupancy", "accept:findPost",
              "accept:insertPost", "accept:updatePost", "accept:insert"}
Applying == {"apply:find", "apply:insert"}
AtPost == {"updatePost:write", "removePost:delete", "postStatus:write", "approve:count",
           "approve:read", "approve:close", "link:updatePost", "accept:updatePost",
           "accept:insert"} \cup Applying \cup AddingTo \cup Confirming

(* What a handler in progress relies on: the rows it names are there,      *)
FrameOK(h) ==
    LET f == call[h] IN
    /\ f.at \in AtPost => f.post \in PostIds
    /\ f.at \in {"createPost:insert"} \cup Applying \cup Adding \cup Accepting \cup Confirming
          => f.who \in People
    /\ f.at \in Adding \cup Confirming => f.room \in Instances
    /\ f.at \in Adding \cup Linking \cup Accepting =>
          f.rental \in RentalIds /\ Live(rentals[f.rental])
    /\ f.at = "updatePost:write" => f.copy \in Post
    /\ f.at = "postStatus:write" => f.status \in PostStatus
    /\ f.at \in Answering \cup Confirming => f.app \in AppIds /\ apps[f.app] # Null

(* and the people it read of have agreed to what it is about to write.     *)
AnswerOK(h) ==
    LET f == call[h] IN
    /\ f.at = "respond:write" =>
          /\ f.status \in {"accepted", "rejected", "awaiting_confirmation"}
          /\ f.status = "awaiting_confirmation" /\ Live(apps[f.app])
                => Unplaced(apps[f.app].post)
    /\ f.at \in {"cancel:write", "reject:write"} => f.status \in {"cancelled", "rejected"}
    /\ f.at = "approve:write" => f.status = "awaiting_confirmation" /\ f.app \in welcomed
    /\ f.at \in Confirming =>
          /\ f.app \in welcomed /\ f.app \in cleared
          /\ Live(apps[f.app]) =>
                /\ apps[f.app].who = f.who /\ apps[f.app].post = f.post
                /\ f.app \in approved \/ f.post \in rerouted

(* What an undisturbed handler read of rentals is so still.                *)
ReadsHold(h) ==
    LET f == call[h] IN
    /\ f.at \in {"confirm:occupancy", "confirm:commit", "add:find", "add:insert",
                 "add:roomCount", "add:commit"} => ActiveOf(f.who) = {}
    /\ f.at \in {"confirm:commit", "add:commit"} =>
          f.count = Occupancy(f.room) /\ HasPlace(f.room)

IInv ==
    /\ TypeOK
    /\ KeysOK
    /\ RoommatesFollowConsent
    /\ SlotsAddUp
    /\ \A a \in AppIds : ConsentOK(a)
    /\ \A h \in Handlers : FrameOK(h) /\ AnswerOK(h)
    /\ \A h \in clean : ReadsHold(h)

-----------------------------------------------------------------------------
(* Rows and frames.                                                        *)

LEMMA NullIsNoId ==
    /\ Null \notin People /\ Null \notin Instances /\ Null \notin PostIds
    /\ Null \notin AppIds /\ Null \notin RentalIds /\ Null # Gone
    /\ ~Live(Null) /\ ~Live(Gone)
BY RoommateStoreAssumption DEF Live

LEMMA RowIsLive ==
    ASSUME NEW row
    PROVE  /\ row \in Post \/ row \in App \/ row \in Rental => Live(row)
           /\ row \in Post \cup {Null, Gone} /\ Live(row) => row \in Post
           /\ row \in App \cup {Null, Gone} /\ Live(row) => row \in App
           /\ row \in Rental \cup {Null} /\ Live(row) => row \in Rental
BY RoommateStoreAssumption DEF Live

LEMMA LiveRows ==
    ASSUME TypeOK
    PROVE  /\ \A p \in PostIds : Live(posts[p]) => posts[p] \in Post /\ posts[p] # Null
           /\ \A a \in AppIds : Live(apps[a]) => apps[a] \in App /\ apps[a] # Null
           /\ \A x \in RentalIds : Live(rentals[x]) => rentals[x] \in Rental /\ rentals[x] # Null
           /\ \A x \in RentalIds : rentals[x] # Null => Live(rentals[x])
BY RowIsLive, NullIsNoId DEF TypeOK

LEMMA IdleInFrame ==
    /\ Idle \in Frame /\ Idle.at = "idle" /\ Idle.post = Null /\ Idle.copy = Null
    /\ Idle.who = Null /\ Idle.room = Null /\ Idle.rental = Null /\ Idle.app = Null
BY DEF Idle, Frame, Labels

LEMMA MovedFrame ==
    ASSUME NEW h, call[h] \in Frame, NEW label \in Labels
    PROVE  /\ Goes(h, label) \in Frame
           /\ Goes(h, label).at = label
           /\ Goes(h, label).who = call[h].who /\ Goes(h, label).app = call[h].app
           /\ Goes(h, label).post = call[h].post /\ Goes(h, label).copy = call[h].copy
           /\ Goes(h, label).room = call[h].room /\ Goes(h, label).rental = call[h].rental
           /\ Goes(h, label).edits = call[h].edits /\ Goes(h, label).count = call[h].count
           /\ Goes(h, label).status = call[h].status
BY DEF Frame, Goes

(* Handler h goes on with frame f, whatever it does to clean.              *)
Moves(h, f) == f \in Frame /\ call' = [call EXCEPT ![h] = f] /\ UNCHANGED started

LEMMA MovedCall ==
    ASSUME TypeOK, NEW h \in Handlers, NEW f \in Frame, call' = [call EXCEPT ![h] = f]
    PROVE  /\ call' \in [Handlers -> Frame] /\ call'[h] = f
           /\ \A g \in Handlers \ {h} : call'[g] = call[g]
BY DEF TypeOK

(* An idle handler relies on nothing. *)
LEMMA IdleRelies ==
    ASSUME NEW h \in Handlers, call'[h] = Idle
    PROVE  FrameOK(h)' /\ AnswerOK(h)' /\ ReadsHold(h)'
BY IdleInFrame DEF FrameOK, AnswerOK, ReadsHold, Answering, Confirming, AddingTo, Adding, Linking,
       Accepting, Applying, AtPost

-----------------------------------------------------------------------------
(* What handlers in progress rely on survives the steps of the others.     *)

(* No row comes back or goes to another person, post or room unnoticed.    *)
Grows ==
    /\ \A a \in AppIds : apps[a] # Null =>
          /\ apps'[a] # Null
          /\ Live(apps'[a]) => /\ Live(apps[a])
                               /\ apps'[a].who = apps[a].who /\ apps'[a].post = apps[a].post
    /\ \A x \in RentalIds : Live(rentals[x]) => Live(rentals'[x])
    /\ \A p \in PostIds : Live(posts[p]) /\ Live(posts'[p]) /\ Unplaced(p) => Unplaced(p)'
    /\ welcomed \subseteq welcomed' /\ cleared \subseteq cleared'
    /\ approved \subseteq approved' /\ rerouted \subseteq rerouted'

LEMMA OtherFrameKept ==
    ASSUME TypeOK, KeysOK, KeysOK', Grows, NEW g \in Handlers, call'[g] = call[g],
           FrameOK(g), AnswerOK(g)
    PROVE  FrameOK(g)' /\ AnswerOK(g)'
<1>1. FrameOK(g)'
  BY DEF FrameOK, Grows
<1>2. ASSUME NEW a \in AppIds, Live(apps'[a]), apps[a] # Null, Unplaced(apps[a].post)
      PROVE  Unplaced(apps[a].post)'
  <2>1. /\ Live(apps[a]) /\ apps'[a].post = apps[a].post
    BY <1>2 DEF Grows
  <2>2. /\ apps[a].post \in PostIds
        /\ Live(posts[apps[a].post]) /\ Live(posts'[apps'[a].post])
    BY <1>2, <2>1, LiveRows DEF KeysOK, App
  <2>3. \A p \in PostIds : p = apps'[a].post => Unplaced(p)'
    BY <1>2, <2>1, <2>2 DEF Grows
  <2> QED
    BY <2>1, <2>2, <2>3 DEF Unplaced
<1>3. AnswerOK(g)'
  BY <1>2 DEF AnswerOK, FrameOK, Grows, Answering
<1> QED
  BY <1>1, <1>3

(* What was read of rentals is so as long as rentals stay as they are.     *)
LEMMA OtherReadsKept ==
    ASSUME NEW g, call'[g] = call[g], UNCHANGED rentals, ReadsHold(g)
    PROVE  ReadsHold(g)'
BY DEF ReadsHold, ActiveOf, Occupancy, HasPlace, Live

LEMMA HandlerStep ==
    ASSUME IInv, NEW h \in Handlers, NEW f \in Frame, call' = [call EXCEPT ![h] = f],
           TypeOK', KeysOK', Grows, RoommatesFollowConsent', SlotsAddUp',
           \A a \in AppIds : ConsentOK(a)',
           FrameOK(h)' /\ AnswerOK(h)', h \in clean' => ReadsHold(h)',
           \/ clean' \subseteq {h}
           \/ UNCHANGED rentals /\ clean' \subseteq clean \cup {h}
    PROVE  IInv'
<1>1. call'[h] = f /\ \A g \in Handlers \ {h} : call'[g] = call[g]
  BY MovedCall DEF IInv
<1>2. \A g \in Handlers : FrameOK(g)' /\ AnswerOK(g)'
  BY <1>1, OtherFrameKept DEF IInv
<1>3. ASSUME NEW g \in clean' PROVE ReadsHold(g)'
  <2>1. CASE g = h
    BY <1>3, <2>1
  <2>2. CASE g # h
    BY <1>1, <1>3, <2>2, OtherReadsKept DEF IInv, TypeOK
  <2> QED
    BY <2>1, <2>2
<1> QED
  BY <1>2, <1>3 DEF IInv

(* Handlers that read. *)
LEMMA NothingWritten ==
    ASSUME IInv, NoWrites
    PROVE  /\ KeysOK' /\ Grows /\ RoommatesFollowConsent' /\ SlotsAddUp'
           /\ \A a \in AppIds : ConsentOK(a)'
<1>1. UNCHANGED <<posts, apps, rentals, instances, invites, welcomed, cleared, approved,
                  rerouted, recounted>>
  BY DEF NoWrites, history
<1>2. KeysOK'
  BY <1>1 DEF IInv, KeysOK
<1>3. Grows
  BY <1>1 DEF Grows, Unplaced
<1>4. RoommatesFollowConsent' /\ SlotsAddUp'
  BY <1>1 DEF IInv, RoommatesFollowConsent, SlotsAddUp
<1>5. \A a \in AppIds : ConsentOK(a)'
  BY <1>1 DEF IInv, ConsentOK, Unplaced
<1> QED
  BY <1>2, <1>3, <1>4, <1>5

LEMMA ReadStep ==
    ASSUME IInv, NEW h \in Handlers, NEW f \in Frame, call' = [call EXCEPT ![h] = f], NoWrites,
           started' \in 0..MaxCalls, clean' \subseteq clean \cup {h},
           FrameOK(h)' /\ AnswerOK(h)', h \in clean' => ReadsHold(h)'
    PROVE  IInv'
<1>1. TypeOK'
  BY MovedCall DEF IInv, TypeOK, NoWrites, history
<1>2. UNCHANGED rentals
  BY DEF NoWrites
<1> QED
  BY <1>1, <1>2, NothingWritten, HandlerStep

LEMMA ReturnStep ==
    ASSUME IInv, NEW h \in Handlers, Return(h), NoWrites
    PROVE  IInv'
<1>1. call'[h] = Idle
  BY IdleInFrame, MovedCall DEF IInv, Return
<1> QED
  BY <1>1, IdleInFrame, IdleRelies, ReadStep DEF Return, IInv, TypeOK

LEMMA BeginStep ==
    ASSUME IInv, NEW h \in Handlers, NEW f \in Frame, NEW op, Begin(h, op, f), NoWrites,
           call'[h] = f => FrameOK(h)' /\ AnswerOK(h)' /\ ReadsHold(h)'
    PROVE  IInv'
<1>1. call'[h] = f
  BY MovedCall DEF IInv, Begin
<1>2. started' \in 0..MaxCalls
  BY RoommateStoreAssumption DEF IInv, TypeOK, Begin
<1> QED
  BY <1>1, <1>2, ReadStep DEF Begin

LEMMA GotoStep ==
    ASSUME IInv, NEW h \in Handlers, NEW f \in Frame, Goto(h, f), NoWrites,
           call'[h] = f => /\ FrameOK(h)' /\ AnswerOK(h)'
                           /\ h \in clean => ReadsHold(h)'
    PROVE  IInv'
<1>1. call'[h] = f
  BY MovedCall DEF IInv, Goto
<1> QED
  BY <1>1, ReadStep DEF Goto, IInv, TypeOK

LEMMA CheckStep ==
    ASSUME IInv, NEW h \in Handlers, NEW passes \in BOOLEAN, NEW label \in Labels,
           Check(h, passes, label),
           passes /\ call'[h] = Goes(h, label) =>
               /\ FrameOK(h)' /\ AnswerOK(h)'
               /\ h \in clean => ReadsHold(h)'
    PROVE  IInv'
<1>1. CASE passes
  <2>1. Goes(h, label) \in Frame
    BY MovedFrame DEF IInv, TypeOK
  <2> QED
    BY <1>1, <2>1, GotoStep DEF Check
<1>2. CASE ~passes
  BY <1>2, ReturnStep DEF Check
<1> QED
  BY <1>1, <1>2

-----------------------------------------------------------------------------
(* Requests.                                                               *)

USE DEF Answering, Confirming, AddingTo, Adding, Linking, Accepting, Applying, AtPost

LEMMA CreatePost_CheckStep ==
    ASSUME IInv, NEW h \in Handlers, NEW u \in People, NEW i \in PostRooms,
           NEW x \in PostRentals, NEW n \in Counts, CreatePost_Check(h, u, i, x, n)
    PROVE  IInv'
<1> DEFINE f == [Idle EXCEPT !.at = "createPost:insert", !.who = u,
                             !.room = i, !.rental = x, !.count = n]
<1>1. f \in Frame /\ f.at = "createPost:insert" /\ f.who = u
  <2>1. "createPost:insert" \in Labels
    BY DEF Labels
  <2> QED
    BY <2>1, IdleInFrame, RoommateStoreAssumption DEF Frame
<1>2. Begin(h, "createPost", f) /\ NoWrites
  BY DEF CreatePost_Check
<1> HIDE DEF f
<1>3. call'[h] = f => FrameOK(h)' /\ AnswerOK(h)' /\ ReadsHold(h)'
  BY <1>1 DEF FrameOK, AnswerOK, ReadsHold
<1> QED
  BY <1>1, <1>2, <1>3, BeginStep

LEMMA UpdatePost_ReadStep ==
    ASSUME IInv, NEW h \in Handlers, NEW p \in PostIds, NEW i \in PostRooms \cup {Null},
           NEW x \in PostRentals \cup {Null}, NEW n \in Counts \cup {0},
           NEW e \in SUBSET {"seeking", "room", "rental"}, UpdatePost_Read(h, p, e, n, i, x)
    PROVE  IInv'
<1> DEFINE f == [Idle EXCEPT !.at = "updatePost:write", !.post = p, !.copy = posts[p],
                             !.edits = e, !.count = n, !.room = i, !.rental = x]
<1>1. Begin(h, "updatePost", f) /\ NoWrites /\ posts[p] \in Post
  BY LiveRows DEF UpdatePost_Read, IInv
<1>2. f \in Frame /\ f.at = "updatePost:write" /\ f.post = p /\ f.copy = posts[p]
  <2>1. "updatePost:write" \in Labels
    BY DEF Labels
  <2>2. n \in Nat /\ i \in Instances \cup {Null} /\ x \in RentalIds \cup {Null}
    BY RoommateStoreAssumption
  <2> QED
    BY <1>1, <2>1, <2>2, IdleInFrame, ZenonT(40) DEF Frame
<1> HIDE DEF f
<1>3. call'[h] = f => FrameOK(h)' /\ AnswerOK(h)' /\ ReadsHold(h)'
  BY <1>1, <1>2 DEF FrameOK, AnswerOK, ReadsHold
<1> QED
  BY <1>1, <1>2, <1>3, BeginStep

LEMMA RemovePost_ReadStep ==
    ASSUME IInv, NEW h \in Handlers, NEW p \in PostIds, RemovePost_Read(h, p)
    PROVE  IInv'
<1> DEFINE f == [Idle EXCEPT !.at = "removePost:delete", !.post = p]
<1>1. f \in Frame /\ f.at = "removePost:delete" /\ f.post = p
  <2>1. "removePost:delete" \in Labels
    BY DEF Labels
  <2> QED
    BY <2>1, IdleInFrame DEF Frame
<1>2. Begin(h, "removePost", f) /\ NoWrites
  BY DEF RemovePost_Read
<1> HIDE DEF f
<1>3. call'[h] = f => FrameOK(h)' /\ AnswerOK(h)' /\ ReadsHold(h)'
  BY <1>1 DEF FrameOK, AnswerOK, ReadsHold
<1> QED
  BY <1>1, <1>2, <1>3, BeginStep

LEMMA UpdatePostStatus_ReadStep ==
    ASSUME IInv, NEW h \in Handlers, NEW p \in PostIds, NEW s \in PostStatus,
           UpdatePostStatus_Read(h, p, s)
    PROVE  IInv'
<1> DEFINE f == [Idle EXCEPT !.at = "postStatus:write", !.post = p, !.status = s]
<1>1. f \in Frame /\ f.at = "postStatus:write" /\ f.post = p /\ f.status = s
  <2>1. "postStatus:write" \in Labels
    BY DEF Labels
  <2> QED
    BY <2>1, IdleInFrame DEF Frame
<1>2. Begin(h, "updatePostStatus", f) /\ NoWrites
  BY DEF UpdatePostStatus_Read
<1> HIDE DEF f
<1>3. call'[h] = f => FrameOK(h)' /\ AnswerOK(h)' /\ ReadsHold(h)'
  BY <1>1 DEF FrameOK, AnswerOK, ReadsHold
<1> QED
  BY <1>1, <1>2, <1>3, BeginStep

LEMMA CreateApplication_ReadPostStep ==
    ASSUME IInv, NEW h \in Handlers, NEW t \in People, NEW p \in PostIds,
           CreateApplication_ReadPost(h, t, p)
    PROVE  IInv'
<1> DEFINE f == [Idle EXCEPT !.at = "apply:find", !.who = t, !.post = p]
<1>1. f \in Frame /\ f.at = "apply:find" /\ f.post = p /\ f.who = t
  <2>1. "apply:find" \in Labels
    BY DEF Labels
  <2> QED
    BY <2>1, IdleInFrame DEF Frame
<1>2. Begin(h, "createApplication", f) /\ NoWrites
  BY DEF CreateApplication_ReadPost
<1> HIDE DEF f
<1>3. call'[h] = f => FrameOK(h)' /\ AnswerOK(h)' /\ ReadsHold(h)'
  BY <1>1 DEF FrameOK, AnswerOK, ReadsHold
<1> QED
  BY <1>1, <1>2, <1>3, BeginStep

(* The answers to an application, from what was read of it.                *)
LEMMA ReadAppStep ==
    ASSUME IInv, NEW h \in Handlers, NEW op, NEW a \in AppIds, NEW statuses,
           NEW label \in Answering, NEW s \in AppStatus,
           ReadApp(h, op, a, statuses, label, s),
           label = "respond:write" =>
              /\ s \in {"accepted", "rejected", "awaiting_confirmation"}
              /\ s = "awaiting_confirmation" => Unplaced(apps[a].post),
           label \in {"cancel:write", "reject:write"} => s \in {"cancelled", "rejected"},
           label = "approve:write" => s = "awaiting_confirmation" /\ a \in welcomed
    PROVE  IInv'
<1> DEFINE f == [Idle EXCEPT !.at = label, !.app = a, !.status = s]
<1>1. label \in Labels
  BY DEF Labels
<1>2. f \in Frame /\ f.at = label /\ f.app = a /\ f.status = s
  BY <1>1, IdleInFrame DEF Frame
<1>3. Begin(h, op, f) /\ NoWrites /\ apps[a] # Null
  BY LiveRows DEF ReadApp, IInv
<1> HIDE DEF f
<1>4. UNCHANGED <<apps, posts, rerouted, welcomed>>
  BY <1>3 DEF NoWrites, history
<1>5. call'[h] = f => FrameOK(h)' /\ AnswerOK(h)' /\ ReadsHold(h)'
  <2>1. call'[h] = f => FrameOK(h)' /\ ReadsHold(h)'
    BY <1>2, <1>3, <1>4 DEF FrameOK, ReadsHold
  <2>2. call'[h] = f => AnswerOK(h)'
    BY <1>2, <1>4 DEF AnswerOK, Unplaced
  <2> QED
    BY <2>1, <2>2
<1> QED
  BY <1>2, <1>3, <1>5, BeginStep

LEMMA RespondToApplication_ReadStep ==
    ASSUME IInv, NEW h \in Handlers, NEW a \in AppIds, NEW s \in {"accepted", "rejected"},
           RespondToApplication_Read(h, a, s)
    PROVE  IInv'
<1>1. /\ Answer(a, s) \in {"accepted", "rejected", "awaiting_confirmation"}
      /\ Answer(a, s) = "awaiting_confirmation" /\ Live(apps[a]) => Unplaced(apps[a].post)
  BY DEF Answer, OnPlatform, Unplaced
<1> QED
  BY <1>1, ReadAppStep DEF RespondToApplication_Read, ReadApp, AppStatus

LEMMA Cancel_ReadStep ==
    ASSUME IInv, NEW h \in Handlers, NEW a \in AppIds, Cancel_Read(h, a)
    PROVE  IInv'
BY ReadAppStep DEF Cancel_Read, AppStatus

LEMMA LandlordReject_ReadStep ==
    ASSUME IInv, NEW h \in Handlers, NEW a \in AppIds, LandlordReject_Read(h, a)
    PROVE  IInv'
BY ReadAppStep DEF LandlordReject_Read, AppStatus

LEMMA LandlordApprove_ReadStep ==
    ASSUME IInv, NEW h \in Handlers, NEW a \in AppIds, LandlordApprove_Read(h, a)
    PROVE  IInv'
<1>1. a \in welcomed
  BY DEF IInv, ConsentOK, LandlordApprove_Read, ReadApp
<1> QED
  BY <1>1, ReadAppStep DEF LandlordApprove_Read, AppStatus

LEMMA ConfirmApplication_ReadStep ==
    ASSUME IInv, NEW h \in Handlers, NEW a \in AppIds, ConfirmApplication_Read(h, a)
    PROVE  IInv'
<1> DEFINE f == [Idle EXCEPT !.at = "confirm:instance", !.app = a, !.who = apps[a].who,
                             !.post = apps[a].post, !.room = posts[apps[a].post].room]
<1>1. /\ Begin(h, "confirmApplication", f) /\ NoWrites
      /\ Live(apps[a]) /\ apps[a].status = "awaiting_confirmation"
      /\ posts[apps[a].post].room # Null
  BY DEF ConfirmApplication_Read, OnPlatform, Confirmable
<1>2. /\ apps[a] # Null /\ apps[a].who \in People /\ apps[a].post \in PostIds
      /\ a \in welcomed /\ a \in cleared
      /\ a \in approved \/ apps[a].post \in rerouted
  BY <1>1, LiveRows DEF IInv, ConsentOK, Unplaced, App
<1>3. posts[apps[a].post].room \in Instances
  BY <1>1, <1>2, LiveRows DEF IInv, KeysOK, Post
<1>4. /\ f \in Frame /\ f.at = "confirm:instance" /\ f.app = a /\ f.who = apps[a].who
      /\ f.post = apps[a].post /\ f.room \in Instances
  <2>1. "confirm:instance" \in Labels
    BY DEF Labels
  <2> QED
    BY <1>2, <1>3, <2>1, IdleInFrame DEF Frame
<1> HIDE DEF f
<1>5. UNCHANGED <<apps, welcomed, cleared, approved, rerouted>>
  BY <1>1 DEF NoWrites, history
<1>6. call'[h] = f => FrameOK(h)' /\ AnswerOK(h)' /\ ReadsHold(h)'
  BY <1>2, <1>4, <1>5 DEF FrameOK, AnswerOK, ReadsHold
<1> QED
  BY <1>1, <1>4, <1>6, BeginStep

(* The requests about a rental. *)
LEMMA FindRentalStep ==
    ASSUME IInv, NEW h \in Handlers, NEW op, NEW f \in Frame, Begin(h, op, f), NoWrites,
           f.at \in {"add:findPost", "link:findPost", "accept:find"},
           Live(rentals[f.rental]), f.rental \in RentalIds, f.room \in Instances,
           f.at # "link:findPost" => f.who \in People
    PROVE  IInv'
<1>1. UNCHANGED rentals
  BY DEF NoWrites
<1>2. call'[h] = f => FrameOK(h)' /\ AnswerOK(h)' /\ ReadsHold(h)'
  BY <1>1 DEF FrameOK, AnswerOK, ReadsHold
<1> QED
  BY <1>2, BeginStep

LEMMA AddRoommate_FindRentalStep ==
    ASSUME IInv, NEW h \in Handlers, NEW u \in People, NEW x \in RentalIds, NEW t \in People,
           AddRoommate_FindRental(h, u, x, t)
    PROVE  IInv'
<1> DEFINE f == [Idle EXCEPT !.at = "add:findPost", !.rental = x, !.who = t,
                             !.room = rentals[x].inst]
<1>1. Begin(h, "addRoommate", f) /\ NoWrites /\ Live(rentals[x])
  BY DEF AddRoommate_FindRental, ActiveOf
<1>2. rentals[x].inst \in Instances /\ "add:findPost" \in Labels
  BY <1>1, LiveRows DEF IInv, Rental, Labels
<1>3. f \in Frame /\ f.at = "add:findPost" /\ f.rental = x /\ f.who = t /\ f.room \in Instances
  BY <1>2, IdleInFrame DEF Frame
<1> HIDE DEF f
<1> QED
  BY <1>1, <1>3, FindRentalStep

LEMMA GenerateInviteLink_FindRentalStep ==
    ASSUME IInv, NEW h \in Handlers, NEW x \in RentalIds, GenerateInviteLink_FindRental(h, x)
    PROVE  IInv'
<1> DEFINE f == [Idle EXCEPT !.at = "link:findPost", !.rental = x, !.room = rentals[x].inst]
<1>1. Begin(h, "generateInviteLink", f) /\ NoWrites /\ Live(rentals[x])
  BY DEF GenerateInviteLink_FindRental
<1>2. rentals[x].inst \in Instances /\ "link:findPost" \in Labels
  BY <1>1, LiveRows DEF IInv, Rental, Labels
<1>3. f \in Frame /\ f.at = "link:findPost" /\ f.rental = x /\ f.room \in Instances
  BY <1>2, IdleInFrame DEF Frame
<1> HIDE DEF f
<1> QED
  BY <1>1, <1>3, FindRentalStep

LEMMA AcceptInvite_ReadRentalStep ==
    ASSUME IInv, NEW h \in Handlers, NEW t \in People, NEW x \in RentalIds,
           AcceptInvite_ReadRental(h, t, x)
    PROVE  IInv'
<1> DEFINE f == [Idle EXCEPT !.at = "accept:find", !.rental = x, !.who = t,
                             !.room = rentals[x].inst]
<1>1. Begin(h, "acceptInvite", f) /\ NoWrites /\ Live(rentals[x])
  BY DEF AcceptInvite_ReadRental, IInv, KeysOK
<1>2. rentals[x].inst \in Instances /\ "accept:find" \in Labels
  BY <1>1, LiveRows DEF IInv, Rental, Labels
<1>3. f \in Frame /\ f.at = "accept:find" /\ f.rental = x /\ f.who = t /\ f.room \in Instances
  BY <1>2, IdleInFrame DEF Frame
<1> HIDE DEF f
<1> QED
  BY <1>1, <1>3, FindRentalStep

-----------------------------------------------------------------------------
(* Reads that decide whether a handler goes on.                            *)

LEMMA OccupancyIsNat ==
    ASSUME KeysOK, NEW i
    PROVE  Occupancy(i) \in Nat
<1>1. {x \in RentalIds : /\ Live(rentals[x]) /\ rentals[x].inst = i
                         /\ rentals[x].status \in {"active", "pending_renewal"}}
      \subseteq {x \in RentalIds : Live(rentals[x])}
  OBVIOUS
<1> QED
  BY <1>1, FS_Subset, FS_CardinalityType DEF KeysOK, Occupancy

(* A handler that goes on with the values it has.                          *)
LEMMA GoesOn ==
    ASSUME IInv, NEW h \in Handlers, NoWrites, NEW label \in Labels, call'[h] = Goes(h, label)
    PROVE  /\ call'[h].at = label /\ call'[h].who = call[h].who
           /\ call'[h].post = call[h].post /\ call'[h].room = call[h].room
           /\ call'[h].rental = call[h].rental /\ call'[h].app = call[h].app
           /\ call'[h].copy = call[h].copy /\ call'[h].status = call[h].status
           /\ call'[h].count = call[h].count
           /\ UNCHANGED <<posts, apps, rentals, welcomed, cleared, approved, rerouted>>
           /\ \A t : ActiveOf(t)' = ActiveOf(t)
           /\ \A i : Occupancy(i)' = Occupancy(i)
           /\ FrameOK(h) /\ AnswerOK(h) /\ (h \in clean => ReadsHold(h))
BY MovedFrame DEF IInv, TypeOK, NoWrites, history, ActiveOf, Occupancy

LEMMA HandleApproved_ReadStep ==
    ASSUME IInv, NEW h \in Handlers, HandleApproved_Read(h)
    PROVE  IInv'
<1> DEFINE label == "approve:close"
<1>1. label \in Labels
  BY DEF Labels
<1>2. NoWrites
  BY DEF HandleApproved_Read, Check
<1>3. call'[h] = Goes(h, label) => /\ FrameOK(h)' /\ AnswerOK(h)'
                                   /\ h \in clean => ReadsHold(h)'
  BY <1>1, <1>2, GoesOn DEF HandleApproved_Read, FrameOK, AnswerOK, ReadsHold, At
<1> QED
  BY <1>1, <1>2, <1>3, CheckStep DEF HandleApproved_Read

LEMMA CreateApplication_FindExistingStep ==
    ASSUME IInv, NEW h \in Handlers, CreateApplication_FindExisting(h)
    PROVE  IInv'
<1> DEFINE label == "apply:insert"
<1>1. label \in Labels
  BY DEF Labels
<1>2. NoWrites
  BY DEF CreateApplication_FindExisting, Check
<1>3. call'[h] = Goes(h, label) => /\ FrameOK(h)' /\ AnswerOK(h)'
                                   /\ h \in clean => ReadsHold(h)'
  BY <1>1, <1>2, GoesOn DEF CreateApplication_FindExisting, FrameOK, AnswerOK, ReadsHold, At
<1> QED
  BY <1>1, <1>2, <1>3, CheckStep DEF CreateApplication_FindExisting

LEMMA CreateRentalForRoommate_CheckInstanceStep ==
    ASSUME IInv, NEW h \in Handlers, CreateRentalForRoommate_CheckInstance(h)
    PROVE  IInv'
<1> DEFINE label == "confirm:tenant"
           passes == \A x \in ActiveOf(call[h].who) : rentals[x].inst # call[h].room
<1>1. label \in Labels /\ passes \in BOOLEAN
  BY DEF Labels
<1>2. NoWrites /\ Check(h, passes, label) /\ call[h].at = "confirm:instance"
  BY DEF CreateRentalForRoommate_CheckInstance, Check, At
<1> HIDE DEF passes
<1>3. call'[h] = Goes(h, label) => /\ FrameOK(h)' /\ AnswerOK(h)'
                                   /\ h \in clean => ReadsHold(h)'
  BY <1>1, <1>2, GoesOn DEF FrameOK, AnswerOK, ReadsHold
<1> QED
  BY <1>1, <1>2, <1>3, CheckStep

(* The person has no active rental. *)
LEMMA CheckTenantStep ==
    ASSUME IInv, NEW h \in Handlers, NEW label \in Labels,
           Check(h, ActiveOf(call[h].who) = {}, label),
           \/ call[h].at = "confirm:tenant" /\ label = "confirm:occupancy"
           \/ call[h].at = "add:tenant" /\ label \in {"add:find", "add:roomCount"}
           \/ call[h].at = "accept:tenant" /\ label = "accept:occupancy"
    PROVE  IInv'
<1>1. NoWrites
  BY DEF Check
<1>2. ASSUME ActiveOf(call[h].who) = {}, call'[h] = Goes(h, label)
      PROVE  FrameOK(h)' /\ AnswerOK(h)' /\ ReadsHold(h)'
  <2>1. FrameOK(h)' /\ AnswerOK(h)'
    BY <1>1, <1>2, GoesOn DEF FrameOK, AnswerOK
  <2>2. ReadsHold(h)'
    BY <1>1, <1>2, GoesOn DEF ReadsHold
  <2> QED
    BY <2>1, <2>2
<1>3. (ActiveOf(call[h].who) = {}) \in BOOLEAN
  OBVIOUS
<1> QED
  BY <1>1, <1>2, <1>3, CheckStep

LEMMA CreateRentalForRoommate_CheckTenantStep ==
    ASSUME IInv, NEW h \in Handlers, CreateRentalForRoommate_CheckTenant(h)
    PROVE  IInv'
<1>1. "confirm:occupancy" \in Labels
  BY DEF Labels
<1> QED
  BY <1>1, CheckTenantStep DEF CreateRentalForRoommate_CheckTenant, At

LEMMA AddRoommate_CheckTenantStep ==
    ASSUME IInv, NEW h \in Handlers, AddRoommate_CheckTenant(h)
    PROVE  IInv'
<1>1. "add:find" \in Labels /\ "add:roomCount" \in Labels
  BY DEF Labels
<1>2. \E label \in {"add:find", "add:roomCount"} :
          Check(h, ActiveOf(call[h].who) = {}, label)
  BY DEF AddRoommate_CheckTenant
<1> QED
  BY <1>1, <1>2, CheckTenantStep DEF AddRoommate_CheckTenant, At

LEMMA AcceptInvite_CheckTenantStep ==
    ASSUME IInv, NEW h \in Handlers, AcceptInvite_CheckTenant(h)
    PROVE  IInv'
<1>1. "accept:occupancy" \in Labels
  BY DEF Labels
<1> QED
  BY <1>1, CheckTenantStep DEF AcceptInvite_CheckTenant, At

(* The applications there are. *)
LEMMA FindExistingStep ==
    ASSUME IInv, NEW h \in Handlers, NEW passes \in BOOLEAN, NEW label \in Labels,
           Check(h, passes, label),
           \/ call[h].at = "add:find" /\ label = "add:insert"
           \/ call[h].at = "accept:find" /\ label = "accept:tenant"
    PROVE  IInv'
<1>1. NoWrites
  BY DEF Check
<1>2. call'[h] = Goes(h, label) => /\ FrameOK(h)' /\ AnswerOK(h)'
                                   /\ h \in clean => ReadsHold(h)'
  BY <1>1, GoesOn DEF FrameOK, AnswerOK, ReadsHold
<1> QED
  BY <1>1, <1>2, CheckStep

LEMMA AddRoommate_FindExistingStep ==
    ASSUME IInv, NEW h \in Handlers, AddRoommate_FindExisting(h)
    PROVE  IInv'
<1>1. "add:insert" \in Labels
  BY DEF Labels
<1>2. (Applied(call[h].who, {call[h].post}) = {}) \in BOOLEAN
  OBVIOUS
<1> QED
  BY <1>1, <1>2, FindExistingStep DEF AddRoommate_FindExisting, At

LEMMA AcceptInvite_FindExistingStep ==
    ASSUME IInv, NEW h \in Handlers, AcceptInvite_FindExisting(h)
    PROVE  IInv'
<1>1. "accept:tenant" \in Labels
  BY DEF Labels
<1>2. (Applied(call[h].who, PostsOf(call[h].rental)) = {}) \in BOOLEAN
  OBVIOUS
<1> QED
  BY <1>1, <1>2, FindExistingStep DEF AcceptInvite_FindExisting, At

(* A handler that goes on with a number, or a post, it has just read.      *)
LEMMA GoesOnWith ==
    ASSUME IInv, NEW h \in Handlers, NoWrites, NEW label \in Labels, NEW f \in Frame, call'[h] = f,
           f.at = label, f.who = call[h].who, f.rental = call[h].rental, f.app = call[h].app,
           f.copy = call[h].copy, f.status = call[h].status
    PROVE  /\ UNCHANGED <<posts, apps, rentals, welcomed, cleared, approved, rerouted>>
           /\ \A t : ActiveOf(t)' = ActiveOf(t)
           /\ \A i : Occupancy(i)' = Occupancy(i) /\ (HasPlace(i)' <=> HasPlace(i))
           /\ FrameOK(h) /\ AnswerOK(h) /\ (h \in clean => ReadsHold(h))
BY DEF IInv, TypeOK, NoWrites, history, ActiveOf, Occupancy, HasPlace

LEMMA FrameWithCount ==
    ASSUME NEW h, call[h] \in Frame, NEW label \in Labels, NEW n \in Nat
    PROVE  LET f == [Goes(h, label) EXCEPT !.count = n] IN
           /\ f \in Frame /\ f.at = label /\ f.who = call[h].who /\ f.app = call[h].app
           /\ f.post = call[h].post /\ f.copy = call[h].copy /\ f.room = call[h].room
           /\ f.rental = call[h].rental /\ f.status = call[h].status /\ f.count = n
<1> DEFINE moved == Goes(h, label)
<1>1. /\ moved \in Frame /\ moved.at = label /\ moved.who = call[h].who /\ moved.app = call[h].app
      /\ moved.post = call[h].post /\ moved.copy = call[h].copy /\ moved.room = call[h].room
      /\ moved.rental = call[h].rental /\ moved.status = call[h].status
  BY MovedFrame
<1> HIDE DEF moved
<1>2. LET f == [moved EXCEPT !.count = n] IN
      /\ f \in Frame /\ f.at = label /\ f.who = call[h].who /\ f.app = call[h].app
      /\ f.post = call[h].post /\ f.copy = call[h].copy /\ f.room = call[h].room
      /\ f.rental = call[h].rental /\ f.status = call[h].status /\ f.count = n
  BY <1>1 DEF Frame
<1> QED
  BY <1>2 DEF moved

(* The people in the room are counted before somebody moves in. *)
LEMMA CountPeopleStep ==
    ASSUME IInv, NEW h \in Handlers, NEW from, NEW to \in Labels, CountPeople(h, from, to),
           \/ from = "confirm:occupancy" /\ to = "confirm:commit"
           \/ from = "add:roomCount" /\ to = "add:commit"
           \/ from = "accept:occupancy" /\ to = "accept:findPost"
    PROVE  IInv'
<1> DEFINE i == call[h].room
           f == [Goes(h, to) EXCEPT !.count = Occupancy(i)]
<1>1. CASE HasPlace(i) /\ Goto(h, f) /\ NoWrites
  <2>1. Occupancy(i) \in Nat /\ call[h] \in Frame /\ call[h].at = from
    BY OccupancyIsNat DEF IInv, TypeOK, CountPeople, At
  <2>2. /\ f \in Frame /\ f.at = to /\ f.who = call[h].who /\ f.app = call[h].app
        /\ f.post = call[h].post /\ f.copy = call[h].copy /\ f.room = call[h].room
        /\ f.rental = call[h].rental /\ f.status = call[h].status /\ f.count = Occupancy(i)
    BY <2>1, FrameWithCount
  <2> HIDE DEF f
  <2>3. call'[h] = f => FrameOK(h)' /\ AnswerOK(h)'
    BY <1>1, <2>1, <2>2, GoesOnWith DEF FrameOK, AnswerOK
  <2>4. call'[h] = f /\ h \in clean => ReadsHold(h)'
    BY <1>1, <2>1, <2>2, GoesOnWith DEF ReadsHold
  <2> QED
    BY <1>1, <2>2, <2>3, <2>4, GotoStep
<1>2. CASE Return(h) /\ NoWrites
  BY <1>2, ReturnStep
<1> QED
  BY <1>1, <1>2 DEF CountPeople

LEMMA CountSteps ==
    ASSUME IInv, NEW h \in Handlers,
           CreateRentalForRoommate_Count(h) \/ AddRoommate_Count(h) \/ AcceptInvite_Count(h)
    PROVE  IInv'
<1>1. "confirm:commit" \in Labels /\ "add:commit" \in Labels /\ "accept:findPost" \in Labels
  BY DEF Labels
<1> QED
  BY <1>1, CountPeopleStep DEF CreateRentalForRoommate_Count, AddRoommate_Count,
                               AcceptInvite_Count

(* Or to see how many places are left. *)
LEMMA LookAtOccupancyStep ==
    ASSUME IInv, NEW h \in Handlers, NEW from, NEW to \in Labels, LookAtOccupancy(h, from, to),
           \/ from = "add:occupancy" /\ to = "add:insertPost"
           \/ from = "link:occupancy" /\ to = "link:insertPost"
           \/ from = "link:occupancy" /\ to = "link:updatePost" /\ call[h].post # Null
    PROVE  IInv'
<1> DEFINE n == Occupancy(call[h].room)
           f == [Goes(h, to) EXCEPT !.count = n]
<1>1. /\ n \in Nat /\ call[h] \in Frame /\ call[h].at = from
      /\ Goto(h, f) /\ NoWrites
  BY OccupancyIsNat DEF IInv, TypeOK, LookAtOccupancy, At
<1>2. /\ f \in Frame /\ f.at = to /\ f.who = call[h].who /\ f.app = call[h].app
      /\ f.post = call[h].post /\ f.copy = call[h].copy /\ f.room = call[h].room
      /\ f.rental = call[h].rental /\ f.status = call[h].status
  BY <1>1, FrameWithCount
<1> HIDE DEF f
<1>3. call[h].post \in PostIds \cup {Null}
  BY <1>1 DEF Frame
<1>4. call'[h] = f => FrameOK(h)' /\ AnswerOK(h)' /\ ReadsHold(h)'
  BY <1>1, <1>2, <1>3, GoesOnWith DEF FrameOK, AnswerOK, ReadsHold
<1> QED
  BY <1>1, <1>2, <1>4, GotoStep

LEMMA AddRoommate_OccupancyStep ==
    ASSUME IInv, NEW h \in Handlers, AddRoommate_Occupancy(h)
    PROVE  IInv'
<1>1. "add:insertPost" \in Labels
  BY DEF Labels
<1> QED
  BY <1>1, LookAtOccupancyStep DEF AddRoommate_Occupancy

LEMMA GenerateInviteLink_OccupancyStep ==
    ASSUME IInv, NEW h \in Handlers, GenerateInviteLink_Occupancy(h)
    PROVE  IInv'
<1>1. "link:insertPost" \in Labels /\ "link:updatePost" \in Labels
  BY DEF Labels
<1>2. CASE call[h].post = Null
  BY <1>1, <1>2, LookAtOccupancyStep DEF GenerateInviteLink_Occupancy
<1>3. CASE call[h].post # Null
  BY <1>1, <1>3, LookAtOccupancyStep DEF GenerateInviteLink_Occupancy
<1> QED
  BY <1>2, <1>3

LEMMA FrameWithPost ==
    ASSUME NEW h, call[h] \in Frame, NEW label \in Labels, NEW p \in PostIds
    PROVE  LET f == [Goes(h, label) EXCEPT !.post = p] IN
           /\ f \in Frame /\ f.at = label /\ f.who = call[h].who /\ f.app = call[h].app
           /\ f.post = p /\ f.copy = call[h].copy /\ f.room = call[h].room
           /\ f.rental = call[h].rental /\ f.status = call[h].status
           /\ f.count = call[h].count
<1> DEFINE moved == Goes(h, label)
<1>1. /\ moved \in Frame /\ moved.at = label /\ moved.who = call[h].who /\ moved.app = call[h].app
      /\ moved.copy = call[h].copy /\ moved.room = call[h].room
      /\ moved.rental = call[h].rental /\ moved.status = call[h].status
      /\ moved.count = call[h].count
  BY MovedFrame
<1> HIDE DEF moved
<1>2. LET f == [moved EXCEPT !.post = p] IN
      /\ f \in Frame /\ f.at = label /\ f.who = call[h].who /\ f.app = call[h].app
      /\ f.post = p /\ f.copy = call[h].copy /\ f.room = call[h].room
      /\ f.rental = call[h].rental /\ f.status = call[h].status
      /\ f.count = call[h].count
  BY <1>1 DEF Frame
<1> QED
  BY <1>2 DEF moved

LEMMA AddRoommate_FindPostStep ==
    ASSUME IInv, NEW h \in Handlers, AddRoommate_FindPost(h)
    PROVE  IInv'
<1>1. /\ call[h].at = "add:findPost" /\ NoWrites
      /\ call[h] \in Frame /\ TypeOK
      /\ "add:tenant" \in Labels /\ "add:occupancy" \in Labels
  BY DEF AddRoommate_FindPost, At, IInv, TypeOK, Labels
<1>2. ASSUME NEW p \in ActivePostsOf(call[h].rental), posts[p].room # Null,
             Goto(h, [Goes(h, "add:tenant") EXCEPT !.post = p, !.room = posts[p].room])
      PROVE  IInv'
  <2> DEFINE i == posts[p].room
             moved == Goes(h, "add:tenant")
             f == [moved EXCEPT !.post = p, !.room = i]
  <2>1. p \in PostIds /\ i \in Instances /\ Goto(h, f)
    BY <1>1, <1>2, LiveRows DEF ActivePostsOf, Post
  <2> HIDE DEF i
  <2>2. /\ f \in Frame /\ f.at = "add:tenant" /\ f.who = call[h].who /\ f.app = call[h].app
        /\ f.post = p /\ f.copy = call[h].copy /\ f.room = i
        /\ f.rental = call[h].rental /\ f.status = call[h].status
    <3>1. /\ moved \in Frame /\ moved.at = "add:tenant" /\ moved.who = call[h].who
          /\ moved.app = call[h].app /\ moved.copy = call[h].copy
          /\ moved.rental = call[h].rental /\ moved.status = call[h].status
      BY <1>1, MovedFrame
    <3> HIDE DEF moved
    <3> QED
      BY <2>1, <3>1 DEF Frame
  <2> HIDE DEF f
  <2>3. call'[h] = f => FrameOK(h)' /\ AnswerOK(h)' /\ ReadsHold(h)'
    BY <1>1, <2>1, <2>2, GoesOnWith DEF FrameOK, AnswerOK, ReadsHold
  <2> QED
    BY <1>1, <2>1, <2>2, <2>3, GotoStep
<1>3. CASE Goto(h, Goes(h, "add:occupancy"))
  <2>1. call'[h] = Goes(h, "add:occupancy") => FrameOK(h)' /\ AnswerOK(h)' /\ ReadsHold(h)'
    BY <1>1, GoesOn DEF FrameOK, AnswerOK, ReadsHold
  <2> QED
    BY <1>1, <1>3, <2>1, MovedFrame, GotoStep
<1>4. CASE Return(h)
  BY <1>1, <1>4, ReturnStep
<1> QED
  BY <1>2, <1>3, <1>4 DEF AddRoommate_FindPost, MayAdd

LEMMA FindPostStep ==
    ASSUME IInv, NEW h \in Handlers, NEW from, NEW label \in Labels, NEW none \in Labels,
           FindPost(h, from, label, none),
           \/ from = "link:findPost" /\ label = "link:occupancy" /\ none = "link:occupancy"
           \/ from = "accept:findPost" /\ label = "accept:updatePost"
                                       /\ none = "accept:insertPost"
    PROVE  IInv'
<1>1. call[h].at = from /\ NoWrites /\ call[h] \in Frame /\ TypeOK
  BY DEF FindPost, At, IInv, TypeOK
<1>2. ASSUME NEW p \in ActivePostsOf(call[h].rental), Goto(h, [Goes(h, label) EXCEPT !.post = p])
      PROVE  IInv'
  <2> DEFINE f == [Goes(h, label) EXCEPT !.post = p]
  <2>1. /\ f \in Frame /\ f.at = label /\ f.who = call[h].who /\ f.app = call[h].app
        /\ f.post = p /\ f.copy = call[h].copy /\ f.room = call[h].room
        /\ f.rental = call[h].rental /\ f.status = call[h].status
        /\ p \in PostIds
    BY <1>1, <1>2, FrameWithPost DEF ActivePostsOf
  <2> HIDE DEF f
  <2>2. call'[h] = f => FrameOK(h)' /\ AnswerOK(h)' /\ ReadsHold(h)'
    BY <1>1, <2>1, GoesOnWith DEF FrameOK, AnswerOK, ReadsHold
  <2> QED
    BY <1>1, <1>2, <2>1, <2>2, GotoStep DEF f
<1>3. CASE Goto(h, Goes(h, none))
  <2>1. call'[h] = Goes(h, none) => FrameOK(h)' /\ AnswerOK(h)' /\ ReadsHold(h)'
    BY <1>1, GoesOn DEF FrameOK, AnswerOK, ReadsHold
  <2> QED
    BY <1>1, <1>3, <2>1, MovedFrame, GotoStep
<1> QED
  BY <1>2, <1>3 DEF FindPost

LEMMA FindPostSteps ==
    ASSUME IInv, NEW h \in Handlers, GenerateInviteLink_FindPost(h) \/ AcceptInvite_FindPost(h)
    PROVE  IInv'
<1>1. /\ "link:occupancy" \in Labels /\ "accept:updatePost" \in Labels
      /\ "accept:insertPost" \in Labels
  BY DEF Labels
<1> QED
  BY <1>1, FindPostStep DEF GenerateInviteLink_FindPost, AcceptInvite_FindPost

-----------------------------------------------------------------------------
(* Handlers that write posts.                                              *)

LEMMA PostWritten ==
    ASSUME TypeOK, NEW p \in PostIds, NEW row \in Post, posts' = [posts EXCEPT ![p] = row]
    PROVE  /\ posts' \in [PostIds -> Post \cup {Null, Gone}]
           /\ posts'[p] = row /\ Live(row)
           /\ \A q \in PostIds \ {p} : posts'[q] = posts[q]
           /\ \A q \in PostIds : Live(posts[q]) => Live(posts'[q])
BY RowIsLive DEF TypeOK

LEMMA PostsStep ==
    ASSUME IInv, NEW h \in Handlers, NEW f \in Frame, call' = [call EXCEPT ![h] = f],
           UNCHANGED <<apps, rentals, instances, welcomed, cleared, approved, started>>,
           invites' \subseteq RentalIds, \A x \in invites' \ invites : Live(rentals[x]),
           NEW p \in PostIds, NEW row \in Post, posts' = [posts EXCEPT ![p] = row],
           rerouted \subseteq rerouted', rerouted' \subseteq PostIds,
           recounted \subseteq recounted', recounted' \subseteq PostIds,
           Live(posts[p]) => row.room = posts[p].room \/ p \in rerouted',
           row.remaining = row.seeking - row.approved \/ p \in recounted',
           FrameOK(h)' /\ AnswerOK(h)', clean' \subseteq clean \cup {h},
           h \in clean' => ReadsHold(h)'
    PROVE  IInv'
<1>1. /\ posts' \in [PostIds -> Post \cup {Null, Gone}]
      /\ posts'[p] = row /\ Live(row)
      /\ \A q \in PostIds \ {p} : posts'[q] = posts[q]
      /\ \A q \in PostIds : Live(posts[q]) => Live(posts'[q])
  BY PostWritten DEF IInv
<1>2. TypeOK'
  BY <1>1, MovedCall DEF IInv, TypeOK
<1>3. KeysOK'
  BY <1>1, LiveRows DEF IInv, KeysOK, App
<1>4. ASSUME NEW q \in PostIds, Live(posts[q]), Unplaced(q) PROVE Unplaced(q)'
  <2>1. CASE q = p
    BY <1>1, <1>4, <2>1 DEF Unplaced
  <2>2. CASE q # p
    BY <1>1, <1>4, <2>2 DEF Unplaced
  <2> QED
    BY <2>1, <2>2
<1>5. Grows
  BY <1>4 DEF Grows
<1>6. RoommatesFollowConsent'
  BY DEF IInv, RoommatesFollowConsent
<1>7. SlotsAddUp'
  <2> SUFFICES ASSUME NEW q \in PostIds \ recounted', Live(posts'[q])
               PROVE  posts'[q].remaining = posts'[q].seeking - posts'[q].approved
    BY DEF SlotsAddUp
  <2>1. CASE q = p
    BY <1>1, <2>1
  <2>2. CASE q # p
    BY <1>1, <2>2 DEF IInv, SlotsAddUp
  <2> QED
    BY <2>1, <2>2
<1>8. ASSUME NEW a \in AppIds PROVE ConsentOK(a)'
  <2>1. Live(apps[a]) => apps[a].post \in PostIds /\ Live(posts[apps[a].post])
    BY LiveRows DEF IInv, KeysOK, App
  <2>2. ASSUME Live(apps[a]), Unplaced(apps[a].post) PROVE Unplaced(apps[a].post)'
    BY <1>4, <2>1, <2>2
  <2> QED
    BY <2>2 DEF IInv, ConsentOK
<1>9. UNCHANGED rentals /\ clean' \subseteq clean \cup {h}
  OBVIOUS
<1> QED
  BY <1>2, <1>3, <1>5, <1>6, <1>7, <1>8, <1>9, HandlerStep

(* Most of them change a post and answer, or go on.                        *)
LEMMA PostsReturnStep ==
    ASSUME IInv, NEW h \in Handlers, ReturnWritten(h),
           UNCHANGED <<apps, rentals, instances, welcomed, cleared, approved>>,
           invites' \subseteq RentalIds, \A x \in invites' \ invites : Live(rentals[x]),
           NEW p \in PostIds, NEW row \in Post, posts' = [posts EXCEPT ![p] = row],
           rerouted \subseteq rerouted', rerouted' \subseteq PostIds,
           recounted \subseteq recounted', recounted' \subseteq PostIds,
           Live(posts[p]) => row.room = posts[p].room \/ p \in rerouted',
           row.remaining = row.seeking - row.approved \/ p \in recounted'
    PROVE  IInv'
<1>1. call'[h] = Idle
  BY IdleInFrame, MovedCall DEF IInv, ReturnWritten
<1>2. call' = [call EXCEPT ![h] = Idle] /\ clean' = {} /\ UNCHANGED started
  BY DEF ReturnWritten
<1> QED
  BY <1>1, <1>2, IdleInFrame, IdleRelies, PostsStep

LEMMA NewPostAddsUp ==
    ASSUME NEW u \in People, NEW i \in Instances \cup {Null}, NEW x \in RentalIds \cup {Null},
           NEW n \in Int, NEW s \in PostStatus
    PROVE  LET row == NewPost(u, i, x, n, s) IN
           row \in Post /\ row.remaining = row.seeking - row.approved
BY DEF NewPost, Post

LEMMA CreatePost_InsertStep ==
    ASSUME IInv, NEW h \in Handlers, CreatePost_Insert(h)
    PROVE  IInv'
<1> DEFINE f == call[h]
           row == NewPost(f.who, f.room, f.rental, f.count, "draft")
<1>1. /\ f \in Frame /\ f.who \in People
      /\ ReturnWritten(h) /\ InsertPost(row)
      /\ UNCHANGED <<apps, rentals, instances, invites, welcomed, cleared, approved,
                     rerouted, recounted>>
  BY DEF CreatePost_Insert, IInv, TypeOK, FrameOK, At, OnlyPosts
<1>2. row \in Post /\ row.remaining = row.seeking - row.approved
  <2>1. /\ f.room \in Instances \cup {Null} /\ f.rental \in RentalIds \cup {Null}
        /\ f.count \in Int /\ "draft" \in PostStatus
    BY <1>1 DEF Frame, PostStatus
  <2> HIDE DEF f
  <2> QED
    BY <1>1, <2>1, NewPostAddsUp
<1> HIDE DEF row
<1>3. PICK p \in PostIds : posts[p] = Null /\ posts' = [posts EXCEPT ![p] = row]
  BY <1>1 DEF InsertPost
<1> QED
  BY <1>1, <1>2, <1>3, NullIsNoId, PostsReturnStep DEF IInv, TypeOK

(* An edit of up-to-date numbers adds to the slots what it adds to the     *)
(* people sought.                                                          *)
LEMMA UpdatePost_WriteStep ==
    ASSUME IInv, NEW h \in Handlers, UpdatePost_Write(h)
    PROVE  IInv'
<1> DEFINE f == call[h]
           p == f.post
           m == NewRemaining(f.copy, f.edits, f.count)
           n == IF "seeking" \in f.edits THEN f.count ELSE posts[p].seeking
           i == IF "room" \in f.edits THEN f.room ELSE posts[p].room
           x == IF "rental" \in f.edits THEN f.rental ELSE posts[p].rental
           row == [posts[p] EXCEPT !.remaining = m, !.seeking = n, !.room = i, !.rental = x]
           exact == /\ f.copy.remaining = posts[p].remaining
                    /\ f.copy.seeking = posts[p].seeking
                    /\ "seeking" \in f.edits => f.copy.remaining + (f.count - f.copy.seeking) >= 0
<1>1. /\ f \in Frame /\ p \in PostIds /\ f.copy \in Post
      /\ UNCHANGED <<apps, rentals, instances, invites, welcomed, cleared, approved>>
      /\ TypeOK
  BY DEF UpdatePost_Write, IInv, TypeOK, FrameOK, At, OnlyPosts
<1>2. CASE Return(h) /\ UNCHANGED <<posts, recounted, rerouted>>
  BY <1>1, <1>2, ReturnStep DEF NoWrites, history
<1>3. CASE Live(posts[p]) /\ UpdatePost_Write(h) /\ ReturnWritten(h)
  <2>1. posts[p] \in Post
    BY <1>1, <1>3, LiveRows
  <2>2. /\ posts' = [posts EXCEPT ![p] = row]
        /\ recounted' = recounted \cup (IF exact THEN {} ELSE {p})
        /\ rerouted' = rerouted \cup (IF row.room = posts[p].room THEN {} ELSE {p})
    BY <1>3 DEF UpdatePost_Write
  <2>3. /\ f.count \in Nat /\ f.copy.remaining \in Int /\ f.copy.seeking \in Int
        /\ f.room \in Instances \cup {Null} /\ f.rental \in RentalIds \cup {Null}
    BY <1>1 DEF Frame, Post
  <2>4. /\ posts[p].seeking \in Int /\ posts[p].approved \in Int
        /\ posts[p].room \in Instances \cup {Null} /\ posts[p].rental \in RentalIds \cup {Null}
    BY <2>1 DEF Post
  <2>5. m \in Int
    BY <2>3 DEF NewRemaining
  <2>6. n \in Int /\ i \in Instances \cup {Null} /\ x \in RentalIds \cup {Null}
    BY <2>3, <2>4
  <2>7. exact /\ p \notin recounted => m = n - posts[p].approved
    <3>1. p \notin recounted => posts[p].remaining = posts[p].seeking - posts[p].approved
      BY <1>1, <1>3 DEF IInv, SlotsAddUp
    <3> QED
      BY <2>3, <2>4, <3>1 DEF NewRemaining
  <2> HIDE DEF m, n, i, x, exact
  <2>8. /\ row \in Post /\ row.remaining = m /\ row.seeking = n /\ row.room = i
        /\ row.approved = posts[p].approved
    BY <2>1, <2>5, <2>6 DEF Post
  <2> HIDE DEF row, f
  <2>9. row.remaining = row.seeking - row.approved \/ p \in recounted'
    BY <2>2, <2>7, <2>8
  <2>10. row.room = posts[p].room \/ p \in rerouted'
    BY <2>2
  <2>11. /\ rerouted \subseteq rerouted' /\ rerouted' \subseteq PostIds
         /\ recounted \subseteq recounted' /\ recounted' \subseteq PostIds
    BY <1>1, <2>2 DEF TypeOK
  <2> QED
    BY <1>1, <1>3, <2>2, <2>8, <2>9, <2>10, <2>11, PostsReturnStep DEF TypeOK
<1> QED
  BY <1>2, <1>3 DEF UpdatePost_Write

(* A change of its status leaves the rest of a post.                       *)
LEMMA StatusStep ==
    ASSUME IInv, NEW h \in Handlers, NEW p \in PostIds, NEW s \in PostStatus,
           UNCHANGED <<apps, rentals, instances, invites, welcomed, cleared, approved,
                       rerouted, recounted>>,
           IF Live(posts[p])
           THEN posts' = [posts EXCEPT ![p].status = s] /\ ReturnWritten(h)
           ELSE Return(h) /\ UNCHANGED posts
    PROVE  IInv'
<1>1. CASE Live(posts[p])
  <2> DEFINE row == [posts[p] EXCEPT !.status = s]
  <2>1. posts[p] \in Post /\ TypeOK
    BY <1>1, LiveRows DEF IInv
  <2>2. /\ row \in Post /\ row.room = posts[p].room /\ row.remaining = posts[p].remaining
        /\ row.seeking = posts[p].seeking /\ row.approved = posts[p].approved
    BY <2>1 DEF Post
  <2>3. posts' = [posts EXCEPT ![p] = row]
    BY <1>1
  <2> HIDE DEF row
  <2>4. row.remaining = row.seeking - row.approved \/ p \in recounted
    BY <1>1, <2>2 DEF IInv, SlotsAddUp
  <2> QED
    BY <1>1, <2>1, <2>2, <2>3, <2>4, PostsReturnStep DEF TypeOK
<1>2. CASE ~Live(posts[p])
  BY <1>2, ReturnStep DEF NoWrites, history
<1> QED
  BY <1>1, <1>2

LEMMA UpdatePostStatus_WriteStep ==
    ASSUME IInv, NEW h \in Handlers, UpdatePostStatus_Write(h)
    PROVE  IInv'
<1>1. call[h].post \in PostIds /\ call[h].status \in PostStatus
  BY DEF IInv, FrameOK, UpdatePostStatus_Write, At
<1> QED
  BY <1>1, StatusStep DEF UpdatePostStatus_Write, OnlyPosts

LEMMA HandleApproved_CloseStep ==
    ASSUME IInv, NEW h \in Handlers, HandleApproved_Close(h)
    PROVE  IInv'
<1>1. call[h].post \in PostIds /\ "closed" \in PostStatus
  BY DEF IInv, FrameOK, HandleApproved_Close, At, PostStatus
<1> QED
  BY <1>1, StatusStep DEF HandleApproved_Close, OnlyPosts

LEMMA CountedPost ==
    ASSUME NEW post \in Post
    PROVE  /\ Counted(post) \in Post /\ Counted(post).room = post.room
           /\ Counted(post).remaining = post.remaining - 1
           /\ Counted(post).seeking = post.seeking
           /\ Counted(post).approved = post.approved + 1
<1>1. post.approved + 1 \in Nat /\ post.remaining - 1 \in Int
  BY DEF Post
<1> QED
  BY <1>1 DEF Post, Counted

(* One more person approved is one slot less. *)
LEMMA HandleApproved_CountStep ==
    ASSUME IInv, NEW h \in Handlers, HandleApproved_Count(h)
    PROVE  IInv'
<1> DEFINE p == call[h].post
           f == Goes(h, "approve:read")
           row == Counted(posts[p])
<1>1. /\ TypeOK /\ call[h] \in Frame /\ p \in PostIds
      /\ UNCHANGED <<apps, rentals, instances, invites, welcomed, cleared, approved,
                     rerouted, recounted>>
  BY DEF HandleApproved_Count, IInv, TypeOK, FrameOK, At, OnlyPosts
<1>2. CASE Live(posts[p]) /\ posts' = [posts EXCEPT ![p] = row] /\ GotoWritten(h, f)
  <2>1. posts[p] \in Post
    BY <1>1, <1>2, LiveRows
  <2>2. /\ row \in Post /\ row.room = posts[p].room
        /\ row.remaining = posts[p].remaining - 1 /\ row.seeking = posts[p].seeking
        /\ row.approved = posts[p].approved + 1
    BY <2>1, CountedPost
  <2>3. row.remaining = row.seeking - row.approved \/ p \in recounted
    <3>1. /\ posts[p].remaining \in Int /\ posts[p].seeking \in Int /\ posts[p].approved \in Int
      BY <2>1 DEF Post
    <3>2. p \notin recounted => posts[p].remaining = posts[p].seeking - posts[p].approved
      BY <1>1, <1>2 DEF IInv, SlotsAddUp
    <3> HIDE DEF row
    <3> QED
      BY <2>2, <3>1, <3>2
  <2>4. f \in Frame /\ f.at = "approve:read" /\ f.post = p
    <3>1. "approve:read" \in Labels
      BY DEF Labels
    <3> QED
      BY <1>1, <3>1, MovedFrame
  <2> HIDE DEF f, row
  <2>5. call'[h] = f /\ UNCHANGED started /\ clean' \subseteq clean \cup {h}
    BY <1>1, <1>2, <2>4, MovedCall DEF GotoWritten
  <2>6. FrameOK(h)' /\ AnswerOK(h)' /\ ReadsHold(h)'
    BY <1>1, <2>4, <2>5 DEF FrameOK, AnswerOK, ReadsHold
  <2> QED
    BY <1>1, <1>2, <2>2, <2>3, <2>4, <2>5, <2>6, PostsStep DEF GotoWritten, IInv, TypeOK
<1>3. CASE Return(h) /\ UNCHANGED posts
  BY <1>1, <1>3, ReturnStep DEF NoWrites, history
<1> QED
  BY <1>2, <1>3 DEF HandleApproved_Count

-----------------------------------------------------------------------------
(* Posts nobody wrote themselves: for somebody who is added or invited.    *)

LEMMA HiddenPostAddsUp ==
    ASSUME TypeOK, NEW x \in RentalIds, Live(rentals[x]), NEW n \in Nat
    PROVE  LET row == HiddenPost(x, n) IN
           row \in Post /\ row.remaining = row.seeking - row.approved
<1>1. /\ rentals[x].tenant \in People /\ rentals[x].inst \in Instances
      /\ MaxOccupancy - n \in Int /\ "active" \in PostStatus
  BY LiveRows, RoommateStoreAssumption DEF Rental, PostStatus
<1> QED
  BY <1>1, NewPostAddsUp DEF HiddenPost

LEMMA InsertHiddenPostStep ==
    ASSUME IInv, NEW h \in Handlers, NEW ok \in BOOLEAN, NEW label \in Labels,
           InsertHiddenPost(h, ok, label),
           \/ call[h].at = "add:insertPost" /\ label = "add:tenant"
           \/ call[h].at = "accept:insertPost" /\ label = "accept:insert"
    PROVE  IInv'
<1> DEFINE row == HiddenPost(call[h].rental, call[h].count)
<1>1. /\ TypeOK /\ call[h] \in Frame /\ FrameOK(h)
      /\ UNCHANGED <<apps, rentals, instances, invites, welcomed, cleared, approved,
                     rerouted, recounted>>
  BY DEF IInv, TypeOK, InsertHiddenPost, OnlyPosts
<1>2. /\ call[h].rental \in RentalIds /\ Live(rentals[call[h].rental]) /\ call[h].count \in Nat
  BY <1>1 DEF FrameOK, Frame
<1>3. row \in Post /\ row.remaining = row.seeking - row.approved
  BY <1>1, <1>2, HiddenPostAddsUp
<1> HIDE DEF row
<1>4. PICK p \in PostIds :
          /\ posts[p] = Null /\ posts' = [posts EXCEPT ![p] = row]
          /\ IF ok THEN GotoWritten(h, [Goes(h, label) EXCEPT !.post = p])
                   ELSE ReturnWritten(h)
  BY DEF InsertHiddenPost, row
<1>5. CASE ~ok
  BY <1>1, <1>3, <1>4, <1>5, NullIsNoId, PostsReturnStep DEF TypeOK
<1>6. CASE ok
  <2> DEFINE f == [Goes(h, label) EXCEPT !.post = p]
  <2>1. /\ f \in Frame /\ f.at = label /\ f.who = call[h].who /\ f.app = call[h].app
        /\ f.post = p /\ f.copy = call[h].copy /\ f.room = call[h].room
        /\ f.rental = call[h].rental /\ f.status = call[h].status
    BY <1>1, FrameWithPost
  <2>2. GotoWritten(h, f)
    BY <1>4, <1>6
  <2> HIDE DEF f
  <2>3. call'[h] = f /\ UNCHANGED started /\ clean' \subseteq clean \cup {h}
    BY <1>1, <2>1, <2>2, MovedCall DEF GotoWritten
  <2>4. FrameOK(h)' /\ AnswerOK(h)' /\ ReadsHold(h)'
    BY <1>1, <2>1, <2>3 DEF FrameOK, AnswerOK, ReadsHold
  <2> QED
    BY <1>1, <1>3, <1>4, <2>1, <2>2, <2>3, <2>4, NullIsNoId, PostsStep DEF GotoWritten, TypeOK
<1> QED
  BY <1>5, <1>6

LEMMA InsertHiddenPostSteps ==
    ASSUME IInv, NEW h \in Handlers, AddRoommate_InsertPost(h) \/ AcceptInvite_InsertPost(h)
    PROVE  IInv'
<1> DEFINE may == MayAdd(rentals[call[h].rental].tenant, call[h].who,
                         HiddenPost(call[h].rental, call[h].count))
<1>1. "add:tenant" \in Labels /\ "accept:insert" \in Labels /\ may \in BOOLEAN /\ TRUE \in BOOLEAN
  BY DEF Labels, MayAdd
<1>2. CASE AddRoommate_InsertPost(h)
  <2>1. InsertHiddenPost(h, may, "add:tenant")
    BY <1>2 DEF AddRoommate_InsertPost
  <2> HIDE DEF may
  <2> QED
    BY <1>1, <1>2, <2>1, InsertHiddenPostStep DEF AddRoommate_InsertPost, At
<1>3. CASE AcceptInvite_InsertPost(h)
  BY <1>1, <1>3, InsertHiddenPostStep DEF AcceptInvite_InsertPost, At
<1> QED
  BY <1>2, <1>3

LEMMA GenerateInviteLink_InsertPostStep ==
    ASSUME IInv, NEW h \in Handlers, GenerateInviteLink_InsertPost(h)
    PROVE  IInv'
<1> DEFINE x == call[h].rental
           row == HiddenPost(x, call[h].count)
<1>1. /\ TypeOK /\ x \in RentalIds /\ Live(rentals[x]) /\ call[h].count \in Nat
      /\ ReturnWritten(h) /\ InsertPost(row) /\ invites' = invites \cup {x}
      /\ UNCHANGED <<apps, rentals, instances, welcomed, cleared, approved, rerouted, recounted>>
  BY DEF GenerateInviteLink_InsertPost, IInv, TypeOK, FrameOK, Frame, At, history
<1>2. row \in Post /\ row.remaining = row.seeking - row.approved
  BY <1>1, HiddenPostAddsUp
<1> HIDE DEF row
<1>3. PICK p \in PostIds : posts[p] = Null /\ posts' = [posts EXCEPT ![p] = row]
  BY <1>1 DEF InsertPost
<1> QED
  BY <1>1, <1>2, <1>3, NullIsNoId, PostsReturnStep DEF TypeOK

LEMMA PlacesSet ==
    ASSUME TypeOK, NEW p \in PostIds, Live(posts[p]), NEW n \in Nat, SetPlaces(p, n)
    PROVE  \E row \in Post : /\ posts' = [posts EXCEPT ![p] = row]
                             /\ row.room = posts[p].room
                             /\ p \in recounted' /\ recounted' = recounted \cup {p}
<1> DEFINE m == MaxOccupancy - n
           row == [posts[p] EXCEPT !.seeking = m, !.remaining = m]
<1>1. posts[p] \in Post /\ m \in Int
  BY LiveRows, RoommateStoreAssumption
<1>2. posts' = [posts EXCEPT ![p] = row] /\ recounted' = recounted \cup {p}
  BY <1>1 DEF SetPlaces, TypeOK
<1> HIDE DEF m
<1>3. row \in Post /\ row.room = posts[p].room
  BY <1>1 DEF Post
<1> QED
  BY <1>2, <1>3

LEMMA GenerateInviteLink_UpdatePostStep ==
    ASSUME IInv, NEW h \in Handlers, GenerateInviteLink_UpdatePost(h)
    PROVE  IInv'
<1> DEFINE p == call[h].post
           x == call[h].rental
<1>1. /\ TypeOK /\ p \in PostIds /\ x \in RentalIds /\ Live(rentals[x]) /\ call[h].count \in Nat
      /\ UNCHANGED <<apps, rentals, instances, welcomed, cleared, approved, rerouted>>
  BY DEF GenerateInviteLink_UpdatePost, IInv, TypeOK, FrameOK, Frame, At
<1>2. CASE /\ Live(posts[p]) /\ SetPlaces(p, call[h].count) /\ ReturnWritten(h)
           /\ invites' = invites \cup {x}
  <2>1. PICK row \in Post : /\ posts' = [posts EXCEPT ![p] = row]
                            /\ row.room = posts[p].room
                            /\ p \in recounted' /\ recounted' = recounted \cup {p}
    BY <1>1, <1>2, PlacesSet
  <2> QED
    BY <1>1, <1>2, <2>1, PostsReturnStep DEF TypeOK
<1>3. CASE Return(h) /\ UNCHANGED <<posts, recounted, invites>>
  BY <1>1, <1>3, ReturnStep DEF NoWrites, history
<1> QED
  BY <1>2, <1>3 DEF GenerateInviteLink_UpdatePost

LEMMA AcceptInvite_UpdatePostStep ==
    ASSUME IInv, NEW h \in Handlers, AcceptInvite_UpdatePost(h)
    PROVE  IInv'
<1> DEFINE p == call[h].post
           f == Goes(h, "accept:insert")
<1>1. /\ TypeOK /\ call[h] \in Frame /\ FrameOK(h) /\ call[h].at = "accept:updatePost"
      /\ p \in PostIds /\ call[h].count \in Nat
      /\ UNCHANGED <<apps, rentals, instances, invites, welcomed, cleared, approved, rerouted>>
  BY DEF AcceptInvite_UpdatePost, IInv, TypeOK, FrameOK, Frame, At, OnlyPosts
<1>2. CASE Live(posts[p]) /\ SetPlaces(p, call[h].count) /\ GotoWritten(h, f)
  <2>1. PICK row \in Post : /\ posts' = [posts EXCEPT ![p] = row]
                            /\ row.room = posts[p].room
                            /\ p \in recounted' /\ recounted' = recounted \cup {p}
    BY <1>1, <1>2, PlacesSet
  <2>2. /\ f \in Frame /\ f.at = "accept:insert" /\ f.post = p /\ f.who = call[h].who
        /\ f.rental = call[h].rental
    <3>1. "accept:insert" \in Labels
      BY DEF Labels
    <3> QED
      BY <1>1, <3>1, MovedFrame
  <2> HIDE DEF f
  <2>3. call'[h] = f /\ UNCHANGED started /\ clean' \subseteq clean \cup {h}
    BY <1>1, <1>2, <2>2, MovedCall DEF GotoWritten
  <2>4. FrameOK(h)' /\ AnswerOK(h)' /\ ReadsHold(h)'
    BY <1>1, <2>2, <2>3 DEF FrameOK, AnswerOK, ReadsHold
  <2> QED
    BY <1>1, <1>2, <2>1, <2>2, <2>3, <2>4, PostsStep DEF GotoWritten, TypeOK
<1>3. CASE Return(h) /\ UNCHANGED <<posts, recounted>>
  BY <1>1, <1>3, ReturnStep DEF NoWrites, history
<1> QED
  BY <1>2, <1>3 DEF AcceptInvite_UpdatePost

-----------------------------------------------------------------------------
(* Handlers that write applications.                                       *)

LEMMA AppsStep ==
    ASSUME IInv, NEW h \in Handlers, NEW f \in Frame, call' = [call EXCEPT ![h] = f],
           UNCHANGED <<posts, rentals, instances, invites, rerouted, recounted, started>>,
           NEW a \in AppIds, NEW row \in App, apps' = [apps EXCEPT ![a] = row],
           Live(posts[row.post]),
           \/ apps[a] = Null
           \/ Live(apps[a]) /\ row.who = apps[a].who /\ row.post = apps[a].post,
           welcomed \subseteq welcomed', welcomed' \subseteq welcomed \cup {a},
           cleared \subseteq cleared', cleared' \subseteq cleared \cup {a},
           approved \subseteq approved', approved' \subseteq approved \cup {a},
           row.status \in {"accepted", "awaiting_confirmation"} => a \in welcomed',
           row.status = "awaiting_confirmation" =>
              a \in cleared' /\ (a \in approved' \/ Unplaced(row.post)),
           FrameOK(h)' /\ AnswerOK(h)', clean' \subseteq clean \cup {h},
           h \in clean' => ReadsHold(h)'
    PROVE  IInv'
<1>1. /\ apps' \in [AppIds -> App \cup {Null, Gone}]
      /\ apps'[a] = row /\ Live(row) /\ row # Null
      /\ \A b \in AppIds \ {a} : apps'[b] = apps[b]
  BY RowIsLive, NullIsNoId DEF IInv, TypeOK
<1>2. TypeOK'
  BY <1>1, MovedCall DEF IInv, TypeOK
<1>3. KeysOK'
  BY <1>1 DEF IInv, KeysOK
<1>4. Grows
  BY <1>1 DEF Grows, Unplaced
<1>5. RoommatesFollowConsent'
  <2> SUFFICES ASSUME NEW x \in RentalIds, Live(rentals[x]), rentals[x].app # Null
               PROVE  /\ rentals[x].app \in welcomed'
                      /\ Live(apps'[rentals[x].app]) =>
                            /\ apps'[rentals[x].app].who = rentals[x].tenant
                            /\ rentals[x].app \in approved'
                               \/ apps'[rentals[x].app].post \in rerouted'
    BY DEF RoommatesFollowConsent
  <2>1. rentals[x].app \in AppIds /\ rentals[x].app \in welcomed
    BY LiveRows DEF IInv, RoommatesFollowConsent, Rental
  <2>2. apps[rentals[x].app] # Null
    BY <2>1 DEF IInv, ConsentOK
  <2> QED
    BY <1>4, <2>1, <2>2 DEF Grows, IInv, RoommatesFollowConsent
<1>6. SlotsAddUp'
  BY DEF IInv, SlotsAddUp
<1>7. ASSUME NEW b \in AppIds PROVE ConsentOK(b)'
  <2>1. CASE b = a
    BY <1>1, <2>1 DEF ConsentOK, Unplaced
  <2>2. CASE b # a
    BY <1>1, <2>2 DEF IInv, ConsentOK, Unplaced
  <2> QED
    BY <2>1, <2>2
<1> QED
  BY <1>2, <1>3, <1>4, <1>5, <1>6, <1>7, HandlerStep

LEMMA InsertAppStep ==
    ASSUME IInv, NEW h \in Handlers, NEW row \in App, InsertApp(h, row, row.status),
           row.status \in {"pending", "accepted"}
    PROVE  IInv'
<1>1. CASE Live(posts[row.post]) /\ InsertApp(h, row, row.status)
  <2>1. PICK a \in AppIds :
           /\ apps[a] = Null /\ apps' = [apps EXCEPT ![a] = row]
           /\ welcomed' = IF row.status = "accepted" THEN welcomed \cup {a} ELSE welcomed
    BY <1>1 DEF InsertApp
  <2>2. /\ call' = [call EXCEPT ![h] = Idle] /\ clean' = {}
        /\ UNCHANGED <<posts, rentals, instances, invites, rerouted, recounted, started>>
        /\ UNCHANGED <<cleared, approved>>
    BY <1>1 DEF InsertApp, ReturnWritten, OnlyApps
  <2>3. call'[h] = Idle
    BY <2>2, IdleInFrame, MovedCall DEF IInv
  <2> QED
    BY <1>1, <2>1, <2>2, <2>3, IdleInFrame, IdleRelies, AppsStep
<1>2. CASE Return(h) /\ NoWrites
  BY <1>2, ReturnStep
<1> QED
  BY <1>1, <1>2 DEF InsertApp

LEMMA InsertAppSteps ==
    ASSUME IInv, NEW h \in Handlers,
           \/ CreateApplication_Insert(h)
           \/ AddRoommate_Insert(h) \/ AcceptInvite_Insert(h)
    PROVE  IInv'
<1> DEFINE row(s) == [post |-> call[h].post, who |-> call[h].who, status |-> s]
<1>1. call[h].post \in PostIds /\ call[h].who \in People
  BY DEF IInv, FrameOK, CreateApplication_Insert, AddRoommate_Insert, AcceptInvite_Insert, At
<1>2. \A s \in {"pending", "accepted"} : row(s) \in App /\ row(s).status = s
  BY <1>1 DEF App, AppStatus
<1>3. InsertApp(h, row("pending"), "pending") \/ InsertApp(h, row("accepted"), "accepted")
  BY DEF CreateApplication_Insert, AddRoommate_Insert, AcceptInvite_Insert
<1> HIDE DEF row
<1> QED
  BY <1>2, <1>3, InsertAppStep

LEMMA AnsweredApp ==
    ASSUME NEW app \in App, NEW s \in AppStatus
    PROVE  LET row == [app EXCEPT !.status = s] IN
           row \in App /\ row.status = s /\ row.who = app.who /\ row.post = app.post
BY DEF App

(* The answer that was chosen is written, unless the application is gone.  *)
LEMMA WriteAppStep ==
    ASSUME IInv, NEW h \in Handlers, NEW label \in Answering, WriteApp(h, label), OnlyApps,
           label # "approve:write",
           IF Live(apps[call[h].app])
           THEN ReturnWritten(h)
           ELSE Return(h) /\ UNCHANGED <<welcomed, cleared, approved>>,
           Live(apps[call[h].app]) =>
              IF label = "respond:write"
              THEN /\ welcomed' = welcomed \cup
                        (IF call[h].status = "rejected" THEN {} ELSE {call[h].app})
                   /\ cleared' = cleared \cup
                        (IF call[h].status = "awaiting_confirmation" THEN {call[h].app} ELSE {})
                   /\ UNCHANGED approved
              ELSE UNCHANGED <<welcomed, cleared, approved>>
    PROVE  IInv'
<1> DEFINE a == call[h].app
           s == call[h].status
           row == [apps[a] EXCEPT !.status = s]
<1>1. /\ TypeOK /\ call[h].at = label /\ a \in AppIds /\ s \in AppStatus
      /\ label = "respond:write" =>
            /\ s \in {"accepted", "rejected", "awaiting_confirmation"}
            /\ s = "awaiting_confirmation" /\ Live(apps[a]) => Unplaced(apps[a].post)
      /\ label # "respond:write" => s \in {"cancelled", "rejected"}
  BY DEF IInv, FrameOK, AnswerOK, WriteApp, At, AppStatus
<1>2. CASE Live(apps[a])
  <2>1. /\ apps[a] \in App /\ Live(posts[apps[a].post])
    BY <1>1, <1>2, LiveRows DEF IInv, KeysOK
  <2>2. row \in App /\ row.status = s /\ row.who = apps[a].who /\ row.post = apps[a].post
    BY <1>1, <2>1, AnsweredApp
  <2>3. /\ apps' = [apps EXCEPT ![a] = row] /\ call' = [call EXCEPT ![h] = Idle] /\ clean' = {}
        /\ UNCHANGED <<posts, rentals, instances, invites, rerouted, recounted, started>>
    BY <1>2 DEF WriteApp, ReturnWritten, OnlyApps
  <2>4. call'[h] = Idle
    BY <1>1, <2>3, IdleInFrame, MovedCall
  <2> HIDE DEF row, a, s
  <2>5. /\ welcomed \subseteq welcomed' /\ welcomed' \subseteq welcomed \cup {a}
        /\ cleared \subseteq cleared' /\ cleared' \subseteq cleared \cup {a}
        /\ UNCHANGED approved
        /\ s \in {"accepted", "awaiting_confirmation"} => a \in welcomed'
        /\ s = "awaiting_confirmation" => a \in cleared' /\ Unplaced(apps[a].post)
    BY <1>1, <1>2 DEF a, s
  <2> QED
    BY <1>1, <1>2, <2>1, <2>2, <2>3, <2>4, <2>5, IdleInFrame, IdleRelies, AppsStep
<1>3. CASE ~Live(apps[a])
  BY <1>1, <1>3, ReturnStep DEF WriteApp, OnlyApps, NoWrites, history
<1> QED
  BY <1>2, <1>3

LEMMA RespondToApplication_WriteStep ==
    ASSUME IInv, NEW h \in Handlers, RespondToApplication_Write(h)
    PROVE  IInv'
<1> DEFINE a == call[h].app
           s == call[h].status
<1>1. /\ WriteApp(h, "respond:write") /\ OnlyApps /\ UNCHANGED approved
      /\ IF Live(apps[a])
         THEN /\ ReturnWritten(h)
              /\ welcomed' = welcomed \cup (IF s = "rejected" THEN {} ELSE {a})
              /\ cleared' = cleared \cup (IF s = "awaiting_confirmation" THEN {a} ELSE {})
         ELSE Return(h) /\ UNCHANGED <<welcomed, cleared>>
  BY DEF RespondToApplication_Write
<1> QED
  BY <1>1, WriteAppStep

LEMMA RefuseSteps ==
    ASSUME IInv, NEW h \in Handlers, Cancel_Write(h) \/ LandlordReject_Write(h)
    PROVE  IInv'
BY WriteAppStep DEF Cancel_Write, LandlordReject_Write

(* The landlord approves what the tenant has accepted. *)
LEMMA LandlordApprove_WriteStep ==
    ASSUME IInv, NEW h \in Handlers, LandlordApprove_Write(h)
    PROVE  IInv'
<1> DEFINE a == call[h].app
           row == [apps[a] EXCEPT !.status = call[h].status]
           p == apps[a].post
           f == [Goes(h, "approve:count") EXCEPT !.post = p]
<1>1. /\ TypeOK /\ call[h] \in Frame /\ a \in AppIds
      /\ call[h].status = "awaiting_confirmation" /\ a \in welcomed
      /\ UNCHANGED <<posts, rentals, instances, invites, rerouted, recounted, welcomed>>
  BY DEF LandlordApprove_Write, WriteApp, IInv, TypeOK, FrameOK, AnswerOK, At, OnlyApps
<1>2. CASE /\ Live(apps[a]) /\ apps' = [apps EXCEPT ![a] = row] /\ GotoWritten(h, f)
           /\ cleared' = cleared \cup {a} /\ approved' = approved \cup {a}
  <2>1. apps[a] \in App /\ p \in PostIds /\ Live(posts[p])
    BY <1>1, <1>2, LiveRows DEF IInv, KeysOK, App
  <2>2. call[h].status \in AppStatus
    BY <1>1 DEF AppStatus
  <2>3. row \in App /\ row.status = call[h].status /\ row.who = apps[a].who /\ row.post = p
    BY <2>1, <2>2, AnsweredApp
  <2> HIDE DEF row, p
  <2>4. /\ f \in Frame /\ f.at = "approve:count" /\ f.post = p
    <3>1. "approve:count" \in Labels
      BY DEF Labels
    <3> QED
      BY <1>1, <2>1, <3>1, FrameWithPost
  <2> HIDE DEF f
  <2>5. call'[h] = f /\ UNCHANGED started /\ clean' \subseteq clean \cup {h}
    BY <1>1, <1>2, <2>4, MovedCall DEF GotoWritten
  <2>6. FrameOK(h)' /\ AnswerOK(h)' /\ ReadsHold(h)'
    BY <2>1, <2>4, <2>5 DEF FrameOK, AnswerOK, ReadsHold
  <2>7. call' = [call EXCEPT ![h] = f]
    BY <1>2 DEF GotoWritten
  <2>8. row.who = apps[a].who /\ row.post = apps[a].post
    BY <2>3 DEF p
  <2> QED
    BY <1>1, <1>2, <2>1, <2>3, <2>4, <2>5, <2>6, <2>7, <2>8, AppsStep
<1>3. CASE Return(h) /\ UNCHANGED <<apps, cleared, approved>>
  BY <1>1, <1>3, ReturnStep DEF NoWrites, history
<1> QED
  BY <1>2, <1>3 DEF LandlordApprove_Write, WriteApp

-----------------------------------------------------------------------------
(* A post that is deleted takes its applications along.                    *)
LEMMA RemovePost_DeleteStep ==
    ASSUME IInv, NEW h \in Handlers, RemovePost_Delete(h)
    PROVE  IInv'
<1> DEFINE p == call[h].post
<1>1. /\ TypeOK /\ p \in PostIds /\ posts' = [posts EXCEPT ![p] = Gone]
      /\ apps' = [a \in AppIds |-> IF Live(apps[a]) /\ apps[a].post = p THEN Gone ELSE apps[a]]
      /\ call' = [call EXCEPT ![h] = Idle] /\ clean' = {}
      /\ UNCHANGED <<rentals, instances, invites, started, welcomed, cleared, approved,
                     rerouted, recounted>>
  BY DEF RemovePost_Delete, IInv, FrameOK, At, ReturnWritten, history
<1> HIDE DEF p
<1>2. TypeOK' /\ call'[h] = Idle
  BY <1>1, IdleInFrame, MovedCall DEF TypeOK
<1>3. /\ posts'[p] = Gone /\ \A q \in PostIds \ {p} : posts'[q] = posts[q]
      /\ \A a \in AppIds : \/ apps'[a] = Gone /\ Live(apps[a]) /\ apps[a].post = p
                           \/ apps'[a] = apps[a] /\ (Live(apps[a]) => apps[a].post # p)
  BY <1>1 DEF TypeOK
<1>4. ~Live(Gone) /\ Gone # Null
  BY NullIsNoId
<1>5. \A a \in AppIds : Live(apps[a]) => apps[a].post \in PostIds
  BY <1>1, LiveRows DEF App
<1>6. KeysOK'
  BY <1>1, <1>3, <1>4, <1>5 DEF IInv, KeysOK
<1>7. Grows
  BY <1>1, <1>3, <1>4 DEF Grows, Unplaced
<1>8. RoommatesFollowConsent'
  <2>1. \A x \in RentalIds : Live(rentals[x]) => rentals[x].app \in AppIds \cup {Null}
    BY <1>1, LiveRows DEF Rental
  <2> QED
    BY <1>1, <1>3, <1>4, <2>1 DEF IInv, RoommatesFollowConsent
<1>9. SlotsAddUp'
  BY <1>1, <1>3, <1>4 DEF IInv, SlotsAddUp
<1>10. ASSUME NEW a \in AppIds PROVE ConsentOK(a)'
  <2>1. CASE apps'[a] = Gone /\ Live(apps[a])
    BY <1>4, <2>1 DEF ConsentOK
  <2>2. CASE apps'[a] = apps[a] /\ (Live(apps[a]) => apps[a].post # p)
    <3>1. Live(apps[a]) /\ Unplaced(apps[a].post) =>
            posts'[apps[a].post].room = Null \/ apps[a].post \in rerouted'
      BY <1>1, <1>3, <1>5, <2>2 DEF Unplaced
    <3> QED
      BY <1>1, <2>2, <3>1 DEF IInv, ConsentOK, Unplaced
  <2> QED
    BY <1>3, <2>1, <2>2
<1> QED
  BY <1>1, <1>2, <1>6, <1>7, <1>8, <1>9, <1>10, IdleInFrame, IdleRelies, HandlerStep

-----------------------------------------------------------------------------
(* Moving in.                                                              *)

LEMMA NewRental ==
    ASSUME NEW t \in People, NEW i \in Instances, NEW a \in AppIds \cup {Null}
    PROVE  [tenant |-> t, inst |-> i, status |-> "active", app |-> a] \in Rental
BY DEF Rental, RentalStatus

LEMMA RentalMade ==
    ASSUME TypeOK, KeysOK, NEW x \in RentalIds, rentals[x] = Null, NEW row \in Rental,
           rentals' = [rentals EXCEPT ![x] = row]
    PROVE  /\ rentals' \in [RentalIds -> Rental \cup {Null}]
           /\ rentals'[x] = row /\ Live(row)
           /\ \A y \in RentalIds \ {x} : rentals'[y] = rentals[y]
           /\ \A y \in RentalIds : Live(rentals[y]) => y # x /\ Live(rentals'[y])
           /\ IsFiniteSet({y \in RentalIds : Live(rentals'[y])})
<1> DEFINE lives == {y \in RentalIds : Live(rentals[y])}
<1>1. Live(row) /\ ~Live(rentals[x])
  BY RowIsLive, NullIsNoId
<1>2. /\ rentals' \in [RentalIds -> Rental \cup {Null}]
      /\ rentals'[x] = row
      /\ \A y \in RentalIds \ {x} : rentals'[y] = rentals[y]
  BY DEF TypeOK
<1>3. {y \in RentalIds : Live(rentals'[y])} = lives \cup {x}
  BY <1>1, <1>2
<1>4. IsFiniteSet(lives \cup {x})
  BY FS_AddElement DEF KeysOK
<1> QED
  BY <1>1, <1>2, <1>3, <1>4

(* The counts of the post go with whoever moves in. *)
LEMMA CountedOnMoveIn ==
    ASSUME IInv, NEW p \in PostIds, Live(posts[p]), NEW close \in BOOLEAN,
           posts' = [posts EXCEPT ![p] =
               IF close /\ Counted(posts[p]).remaining <= 0
               THEN [Counted(posts[p]) EXCEPT !.status = "closed"] ELSE Counted(posts[p])],
           UNCHANGED recounted
    PROVE  /\ posts' \in [PostIds -> Post \cup {Null, Gone}]
           /\ \A q \in PostIds : Live(posts[q]) => Live(posts'[q])
           /\ \A q \in PostIds : Live(posts[q]) => posts'[q].room = posts[q].room
           /\ SlotsAddUp'
<1> DEFINE post == Counted(posts[p])
           row == IF close /\ post.remaining <= 0 THEN [post EXCEPT !.status = "closed"] ELSE post
<1>1. posts[p] \in Post
  BY LiveRows DEF IInv
<1>2. /\ post \in Post /\ post.room = posts[p].room
      /\ post.remaining = posts[p].remaining - 1 /\ post.seeking = posts[p].seeking
      /\ post.approved = posts[p].approved + 1
  BY <1>1, CountedPost
<1> HIDE DEF post
<1>3. /\ row \in Post /\ row.room = post.room /\ row.remaining = post.remaining
      /\ row.seeking = post.seeking /\ row.approved = post.approved
  BY <1>2 DEF Post, PostStatus
<1>4. posts' = [posts EXCEPT ![p] = row]
  BY DEF post
<1> HIDE DEF row
<1>5. row.remaining = row.seeking - row.approved \/ p \in recounted
  <2>1. /\ posts[p].remaining \in Int /\ posts[p].seeking \in Int /\ posts[p].approved \in Int
    BY <1>1 DEF Post
  <2>2. p \notin recounted => posts[p].remaining = posts[p].seeking - posts[p].approved
    BY DEF IInv, SlotsAddUp
  <2> QED
    BY <1>2, <1>3, <2>1, <2>2
<1>6. /\ posts' \in [PostIds -> Post \cup {Null, Gone}]
      /\ posts'[p] = row /\ Live(row)
      /\ \A q \in PostIds \ {p} : posts'[q] = posts[q]
      /\ \A q \in PostIds : Live(posts[q]) => Live(posts'[q])
  BY <1>3, <1>4, PostWritten DEF IInv
<1>7. SlotsAddUp'
  <2> SUFFICES ASSUME NEW q \in PostIds \ recounted, Live(posts'[q])
               PROVE  posts'[q].remaining = posts'[q].seeking - posts'[q].approved
    BY DEF SlotsAddUp
  <2>1. CASE q = p
    BY <1>5, <1>6, <2>1
  <2>2. CASE q # p
    BY <1>6, <2>2 DEF IInv, SlotsAddUp
  <2> QED
    BY <2>1, <2>2
<1> QED
  BY <1>2, <1>3, <1>6, <1>7

LEMMA MoveInStep ==
    ASSUME IInv, NEW h \in Handlers, ReturnWritten(h),
           NEW t \in People, NEW i \in Instances, NEW a \in AppIds \cup {Null},
           NEW p \in PostIds, NEW n, NEW close \in BOOLEAN, MoveIn(t, i, a, p, n, close),
           Live(posts[p]),
           \/ a = Null /\ UNCHANGED apps
           \/ /\ a \in AppIds /\ Live(apps[a]) /\ apps' = [apps EXCEPT ![a].status = "accepted"]
              /\ a \in welcomed /\ apps[a].who = t
              /\ a \in approved \/ apps[a].post \in rerouted
    PROVE  IInv'
<1>1. /\ call' = [call EXCEPT ![h] = Idle] /\ clean' = {} /\ TypeOK
      /\ UNCHANGED <<started, invites, welcomed, cleared, approved, rerouted, recounted>>
  BY DEF ReturnWritten, MoveIn, history, IInv
<1> DEFINE row == [tenant |-> t, inst |-> i, status |-> "active", app |-> a]
<1>2. PICK x \in RentalIds : rentals[x] = Null /\ rentals' = [rentals EXCEPT ![x] = row]
  BY DEF MoveIn
<1>3. /\ rentals' \in [RentalIds -> Rental \cup {Null}]
      /\ rentals'[x].tenant = t /\ rentals'[x].inst = i /\ rentals'[x].app = a
      /\ Live(rentals'[x])
      /\ \A y \in RentalIds \ {x} : rentals'[y] = rentals[y]
      /\ \A y \in RentalIds : Live(rentals[y]) => y # x /\ Live(rentals'[y])
      /\ IsFiniteSet({y \in RentalIds : Live(rentals'[y])})
  <2>1. row \in Rental /\ row.tenant = t /\ row.inst = i /\ row.app = a
    BY NewRental
  <2> HIDE DEF row
  <2> QED
    BY <1>1, <1>2, <2>1, RentalMade DEF IInv
<1> HIDE DEF row
<1>4. /\ posts' \in [PostIds -> Post \cup {Null, Gone}]
      /\ \A q \in PostIds : Live(posts[q]) => Live(posts'[q])
      /\ \A q \in PostIds : Live(posts[q]) => posts'[q].room = posts[q].room
      /\ SlotsAddUp'
  BY <1>1, CountedOnMoveIn DEF MoveIn
<1>5. instances' \in [Instances -> {"available", "occupied"}]
  BY <1>1 DEF MoveIn, TypeOK
<1>6. /\ apps' \in [AppIds -> App \cup {Null, Gone}]
      /\ \A b \in AppIds : Live(apps[b]) => /\ Live(apps'[b]) /\ apps'[b].who = apps[b].who
                                            /\ apps'[b].post = apps[b].post
      /\ \A b \in AppIds \ {a} : apps'[b] = apps[b]
      /\ a = Null \/ apps'[a].status = "accepted"
      /\ \A b \in AppIds : ~Live(apps[b]) => apps'[b] = apps[b]
  <2>1. CASE a = Null /\ UNCHANGED apps
    BY <1>1, <2>1 DEF TypeOK
  <2>2. CASE a \in AppIds /\ Live(apps[a]) /\ apps' = [apps EXCEPT ![a].status = "accepted"]
    <3> DEFINE answer == [apps[a] EXCEPT !.status = "accepted"]
    <3>1. apps[a] \in App /\ "accepted" \in AppStatus
      BY <1>1, <2>2, LiveRows DEF AppStatus
    <3>2. answer \in App /\ answer.status = "accepted" /\ answer.who = apps[a].who /\ answer.post = apps[a].post
      BY <3>1, AnsweredApp
    <3>3. apps' = [apps EXCEPT ![a] = answer]
      BY <2>2
    <3> HIDE DEF answer
    <3> QED
      BY <1>1, <2>2, <3>2, <3>3, RowIsLive DEF TypeOK
  <2> QED
    BY <2>1, <2>2
<1>7. TypeOK' /\ call'[h] = Idle
  BY <1>1, <1>3, <1>4, <1>5, <1>6, IdleInFrame, MovedCall DEF TypeOK
<1>8. KeysOK'
  <2>1. ASSUME NEW b \in AppIds, Live(apps'[b]) PROVE Live(posts'[apps'[b].post])
    <3>1. Live(apps[b]) /\ apps'[b].post = apps[b].post
      BY <1>6, <2>1
    <3>2. apps[b].post \in PostIds /\ Live(posts[apps[b].post])
      BY <1>1, <3>1, LiveRows DEF IInv, KeysOK, App
    <3> QED
      BY <1>4, <3>1, <3>2
  <2>2. \A y \in invites : Live(rentals'[y])
    BY <1>1, <1>3 DEF IInv, KeysOK, TypeOK
  <2> QED
    BY <1>1, <1>3, <2>1, <2>2 DEF KeysOK
<1>9. Grows
  BY <1>1, <1>3, <1>4, <1>6, LiveRows DEF Grows, Unplaced
<1>10. RoommatesFollowConsent'
  <2> SUFFICES ASSUME NEW y \in RentalIds, Live(rentals'[y]), rentals'[y].app # Null
               PROVE  /\ rentals'[y].app \in welcomed
                      /\ Live(apps'[rentals'[y].app]) =>
                            /\ apps'[rentals'[y].app].who = rentals'[y].tenant
                            /\ rentals'[y].app \in approved
                               \/ apps'[rentals'[y].app].post \in rerouted
    BY <1>1 DEF RoommatesFollowConsent
  <2>1. CASE y = x
    BY <1>3, <1>6, <2>1
  <2>2. CASE y # x
    <3>1. rentals'[y] = rentals[y] /\ rentals[y].app \in AppIds
      BY <1>1, <1>3, <2>2, LiveRows DEF Rental
    <3> QED
      BY <1>6, <3>1 DEF IInv, RoommatesFollowConsent
  <2> QED
    BY <2>1, <2>2
<1>11. ASSUME NEW b \in AppIds PROVE ConsentOK(b)'
  <2>1. Live(apps[b]) => apps[b].post \in PostIds /\ Live(posts[apps[b].post])
    BY <1>1, LiveRows DEF IInv, KeysOK, App
  <2>2. Live(apps[b]) /\ Unplaced(apps[b].post) =>
           apps[b].post \in rerouted \/ posts'[apps[b].post].room = Null
    BY <1>4, <2>1 DEF Unplaced
  <2>3. CASE b = a
    BY <1>1, <1>6, <2>3, NullIsNoId DEF ConsentOK, IInv
  <2>4. CASE b # a
    BY <1>1, <1>6, <2>2, <2>4 DEF ConsentOK, IInv, Unplaced
  <2> QED
    BY <2>3, <2>4
<1> QED
  BY <1>1, <1>4, <1>7, <1>8, <1>9, <1>10, <1>11, IdleInFrame, IdleRelies, HandlerStep

LEMMA CreateRentalForRoommate_CommitStep ==
    ASSUME IInv, NEW h \in Handlers, CreateRentalForRoommate_Commit(h)
    PROVE  IInv'
<1> DEFINE f == call[h]
<1>1. /\ f.app \in AppIds /\ f.who \in People /\ f.room \in Instances /\ f.post \in PostIds
      /\ f.app \in welcomed
      /\ Live(apps[f.app]) => /\ apps[f.app].who = f.who /\ apps[f.app].post = f.post
                              /\ f.app \in approved \/ f.post \in rerouted
                              /\ Live(posts[f.post])
  BY DEF IInv, KeysOK, FrameOK, AnswerOK, CreateRentalForRoommate_Commit, At
<1>2. CASE /\ Live(apps[f.app]) /\ apps' = [apps EXCEPT ![f.app].status = "accepted"]
           /\ MoveIn(f.who, f.room, f.app, f.post, f.count, FALSE) /\ ReturnWritten(h)
  <2> DEFINE n == f.count
  <2>1. MoveIn(f.who, f.room, f.app, f.post, n, FALSE) /\ FALSE \in BOOLEAN
    BY <1>2
  <2> HIDE DEF n, f
  <2> QED
    BY <1>1, <1>2, <2>1, MoveInStep
<1>3. CASE Return(h) /\ NoWrites
  BY <1>3, ReturnStep
<1> QED
  BY <1>2, <1>3 DEF CreateRentalForRoommate_Commit

LEMMA AddRoommate_CommitStep ==
    ASSUME IInv, NEW h \in Handlers, AddRoommate_Commit(h)
    PROVE  IInv'
<1> DEFINE f == call[h]
<1>1. f.who \in People /\ f.room \in Instances /\ f.post \in PostIds
  BY DEF IInv, FrameOK, AddRoommate_Commit, At
<1>2. CASE /\ Live(posts[f.post]) /\ UNCHANGED apps
           /\ MoveIn(f.who, f.room, Null, f.post, f.count, TRUE) /\ ReturnWritten(h)
  <2> DEFINE n == f.count
  <2>1. MoveIn(f.who, f.room, Null, f.post, n, TRUE) /\ TRUE \in BOOLEAN
    BY <1>2
  <2> HIDE DEF n, f
  <2> QED
    BY <1>1, <1>2, <2>1, MoveInStep
<1>3. CASE Return(h) /\ NoWrites
  BY <1>3, ReturnStep
<1> QED
  BY <1>2, <1>3 DEF AddRoommate_Commit

-----------------------------------------------------------------------------
(* Rentals that others make and end, crashes, and the first state.         *)

LEMMA ElsewhereStep ==
    ASSUME IInv, UNCHANGED <<posts, apps, invites, call, history>>, clean' = {},
           started' \in 0..MaxCalls, instances' \in [Instances -> {"available", "occupied"}],
           rentals' \in [RentalIds -> Rental \cup {Null}],
           \A y \in RentalIds : Live(rentals[y]) => Live(rentals'[y]),
           \A y \in RentalIds : Live(rentals'[y]) /\ rentals'[y].app # Null =>
              /\ Live(rentals[y]) /\ rentals'[y].app = rentals[y].app
              /\ rentals'[y].tenant = rentals[y].tenant,
           IsFiniteSet({y \in RentalIds : Live(rentals'[y])})
    PROVE  IInv'
<1>1. UNCHANGED <<posts, apps, invites, call, welcomed, cleared, approved, rerouted, recounted>>
  BY DEF history
<1>2. TypeOK'
  BY <1>1 DEF IInv, TypeOK
<1>3. KeysOK'
  BY <1>1 DEF IInv, KeysOK, TypeOK
<1>4. Grows
  BY <1>1 DEF Grows, Unplaced
<1>5. \A g \in Handlers : FrameOK(g)' /\ AnswerOK(g)'
  BY <1>1, <1>3, <1>4, OtherFrameKept DEF IInv
<1>6. RoommatesFollowConsent'
  <2> SUFFICES ASSUME NEW y \in RentalIds, Live(rentals'[y]), rentals'[y].app # Null
               PROVE  /\ rentals'[y].app \in welcomed
                      /\ Live(apps[rentals'[y].app]) =>
                            /\ apps[rentals'[y].app].who = rentals'[y].tenant
                            /\ rentals'[y].app \in approved
                               \/ apps[rentals'[y].app].post \in rerouted
    BY <1>1 DEF RoommatesFollowConsent
  <2> QED
    BY DEF IInv, RoommatesFollowConsent
<1>7. SlotsAddUp'
  BY <1>1 DEF IInv, SlotsAddUp
<1>8. \A a \in AppIds : ConsentOK(a)'
  BY <1>1 DEF IInv, ConsentOK, Unplaced
<1> QED
  BY <1>2, <1>3, <1>5, <1>6, <1>7, <1>8 DEF IInv

LEMMA LetRoomStep ==
    ASSUME IInv, NEW t \in People, NEW i \in Instances, LetRoom(t, i)
    PROVE  IInv'
<1> DEFINE row == [tenant |-> t, inst |-> i, status |-> "active", app |-> Null]
<1>1. PICK x \in RentalIds : rentals[x] = Null /\ rentals' = [rentals EXCEPT ![x] = row]
  BY DEF LetRoom
<1>2. row \in Rental /\ row.app = Null
  BY NewRental
<1> HIDE DEF row
<1>3. /\ rentals' \in [RentalIds -> Rental \cup {Null}]
      /\ rentals'[x].app = Null
      /\ \A y \in RentalIds \ {x} : rentals'[y] = rentals[y]
      /\ \A y \in RentalIds : Live(rentals[y]) => y # x /\ Live(rentals'[y])
      /\ IsFiniteSet({y \in RentalIds : Live(rentals'[y])})
  BY <1>1, <1>2, RentalMade DEF IInv
<1>4. /\ instances' \in [Instances -> {"available", "occupied"}]
      /\ started' \in 0..MaxCalls /\ clean' = {}
      /\ UNCHANGED <<posts, apps, invites, call, history>>
  BY RoommateStoreAssumption DEF LetRoom, IInv, TypeOK
<1> QED
  BY <1>3, <1>4, ElsewhereStep

LEMMA RentalMoved ==
    ASSUME IInv, NEW x \in RentalIds, Live(rentals[x]), NEW s \in RentalStatus,
           rentals' = [rentals EXCEPT ![x].status = s]
    PROVE  /\ rentals' \in [RentalIds -> Rental \cup {Null}]
           /\ \A y \in RentalIds : Live(rentals[y]) => Live(rentals'[y])
           /\ \A y \in RentalIds : Live(rentals'[y]) =>
                 /\ Live(rentals[y]) /\ rentals'[y].app = rentals[y].app
                 /\ rentals'[y].tenant = rentals[y].tenant
           /\ IsFiniteSet({y \in RentalIds : Live(rentals'[y])})
<1> DEFINE row == [rentals[x] EXCEPT !.status = s]
<1>1. rentals[x] \in Rental /\ TypeOK
  BY LiveRows DEF IInv
<1>2. row \in Rental /\ row.app = rentals[x].app /\ row.tenant = rentals[x].tenant
  BY <1>1 DEF Rental
<1>3. rentals' = [rentals EXCEPT ![x] = row]
  OBVIOUS
<1> HIDE DEF row
<1>4. /\ rentals' \in [RentalIds -> Rental \cup {Null}]
      /\ rentals'[x] = row /\ Live(row)
      /\ \A y \in RentalIds \ {x} : rentals'[y] = rentals[y]
  BY <1>1, <1>2, <1>3, RowIsLive DEF TypeOK
<1>5. {y \in RentalIds : Live(rentals'[y])} = {y \in RentalIds : Live(rentals[y])}
  BY <1>4
<1> QED
  BY <1>2, <1>4, <1>5 DEF IInv, KeysOK

LEMMA EndRentalStep ==
    ASSUME IInv, NEW x \in RentalIds, EndRental(x)
    PROVE  IInv'
<1>1. /\ Live(rentals[x]) /\ "terminated" \in RentalStatus
      /\ rentals' = [rentals EXCEPT ![x].status = "terminated"]
      /\ clean' = {} /\ UNCHANGED <<posts, apps, invites, call, history>>
  BY DEF EndRental, RentalStatus
<1>2. instances' \in [Instances -> {"available", "occupied"}]
  BY DEF EndRental, IInv, TypeOK
<1>3. started' \in 0..MaxCalls
  BY RoommateStoreAssumption DEF EndRental, IInv, TypeOK
<1> QED
  BY <1>1, <1>2, <1>3, RentalMoved, ElsewhereStep

LEMMA RenewRentalStep ==
    ASSUME IInv, NEW x \in RentalIds, RenewRental(x)
    PROVE  IInv'
<1>1. /\ Live(rentals[x]) /\ "pending_renewal" \in RentalStatus
      /\ rentals' = [rentals EXCEPT ![x].status = "pending_renewal"]
      /\ clean' = {} /\ UNCHANGED <<posts, apps, invites, call, history>>
  BY DEF RenewRental, RentalStatus
<1>2. instances' \in [Instances -> {"available", "occupied"}]
  BY DEF RenewRental, IInv, TypeOK
<1>3. started' \in 0..MaxCalls
  BY RoommateStoreAssumption DEF RenewRental, IInv, TypeOK
<1> QED
  BY <1>1, <1>2, <1>3, RentalMoved, ElsewhereStep

LEMMA CrashStep ==
    ASSUME IInv, NEW h \in Handlers, Crash(h)
    PROVE  IInv'
BY ReturnStep DEF Crash

LEMMA StutterStep ==
    ASSUME IInv, UNCHANGED vars
    PROVE  IInv'
<1>1. NoWrites /\ UNCHANGED <<call, clean, started, rentals>>
  BY DEF vars, NoWrites, history
<1>2. TypeOK'
  BY DEF vars, IInv, TypeOK
<1>3. KeysOK' /\ Grows /\ RoommatesFollowConsent' /\ SlotsAddUp' /\ \A a \in AppIds : ConsentOK(a)'
  BY <1>1, NothingWritten
<1>4. \A h \in Handlers : FrameOK(h)' /\ AnswerOK(h)'
  BY <1>1, <1>3, OtherFrameKept DEF IInv
<1>5. \A h \in clean : ReadsHold(h)'
  BY <1>1, OtherReadsKept DEF IInv
<1> QED
  BY <1>1, <1>2, <1>3, <1>4, <1>5 DEF IInv

LEMMA InitHasInvariant == Init => IInv
<1> SUFFICES ASSUME Init PROVE IInv
  OBVIOUS
<1>1. /\ call = [h \in Handlers |-> Idle] /\ invites = {} /\ started = 0 /\ clean = {}
      /\ welcomed = {} /\ cleared = {} /\ approved = {} /\ rerouted = {} /\ recounted = {}
      /\ instances = [i \in Instances |-> IF i = Home THEN "occupied" ELSE "available"]
  BY DEF Init
<1>2. /\ posts \in [PostIds -> Post \cup {Null, Gone}] /\ SlotsAddUp /\ Live(posts[FirstPost])
  <2>1. PICK n \in Counts, i \in FirstRooms :
          posts = [p \in PostIds |-> IF p = FirstPost
                       THEN NewPost(Host, i, FirstRental, n, "active") ELSE Null]
    BY DEF Init
  <2> DEFINE row == NewPost(Host, i, FirstRental, n, "active")
  <2>2. row \in Post /\ row.remaining = row.seeking - row.approved
    <3>1. /\ i \in Instances \cup {Null} /\ FirstRental \in RentalIds \cup {Null} /\ n \in Int
          /\ Host \in People /\ "active" \in PostStatus
      BY RoommateStoreAssumption DEF PostStatus
    <3> QED
      BY <3>1, NewPostAddsUp
  <2> HIDE DEF row
  <2>3. posts = [p \in PostIds |-> IF p = FirstPost THEN row ELSE Null]
    BY <2>1 DEF row
  <2> QED
    BY <2>2, <2>3, RowIsLive, NullIsNoId, RoommateStoreAssumption DEF SlotsAddUp
<1>3. /\ apps \in [AppIds -> App \cup {Null, Gone}]
      /\ \A a \in AppIds : Live(apps[a]) => apps[a].post = FirstPost /\ apps[a].status = "pending"
  <2>1. PICK t \in FirstApplicants, b \in AppIds :
          apps = [a \in AppIds |->
             IF a = b /\ t # Null THEN [post |-> FirstPost, who |-> t, status |-> "pending"]
             ELSE Null]
    BY DEF Init
  <2> DEFINE row == [post |-> FirstPost, who |-> t, status |-> "pending"]
  <2>2. row.post = FirstPost /\ row.status = "pending" /\ (t # Null => row \in App)
    BY RoommateStoreAssumption DEF App, AppStatus
  <2> HIDE DEF row
  <2>3. apps = [a \in AppIds |-> IF a = b /\ t # Null THEN row ELSE Null]
    BY <2>1 DEF row
  <2> QED
    BY <2>2, <2>3, NullIsNoId
<1>4. /\ rentals \in [RentalIds -> Rental \cup {Null}]
      /\ \A x \in RentalIds : Live(rentals[x]) =>
            rentals[x].app = Null /\ x \in {FirstRental, SecondRental}
  <2>1. PICK shared \in BOOLEAN :
          rentals = [x \in RentalIds |->
             IF x = FirstRental \/ (shared /\ x = SecondRental)
             THEN [tenant |-> IF x = FirstRental THEN Host ELSE Resident,
                   inst |-> Home, status |-> "active", app |-> Null]
             ELSE Null]
    BY DEF Init
  <2> DEFINE row(t) == [tenant |-> t, inst |-> Home, status |-> "active", app |-> Null]
  <2>2. \A t \in People : row(t) \in Rental /\ row(t).app = Null
    BY RoommateStoreAssumption DEF Rental, RentalStatus
  <2>3. \A t : row(t).app = Null
    OBVIOUS
  <2> HIDE DEF row
  <2>4. rentals = [x \in RentalIds |->
             IF x = FirstRental \/ (shared /\ x = SecondRental)
             THEN row(IF x = FirstRental THEN Host ELSE Resident) ELSE Null]
    BY <2>1 DEF row
  <2>5. Host \in People /\ Resident \in People
    BY RoommateStoreAssumption
  <2> QED
    BY <2>2, <2>3, <2>4, <2>5, NullIsNoId
<1>5. TypeOK
  BY <1>1, <1>2, <1>3, <1>4, IdleInFrame, RoommateStoreAssumption DEF TypeOK
<1>6. KeysOK
  <2>1. IsFiniteSet({FirstRental, SecondRental})
    <3>1. IsFiniteSet({} \cup {FirstRental})
      BY FS_EmptySet, FS_AddElement
    <3>2. IsFiniteSet(({} \cup {FirstRental}) \cup {SecondRental})
      BY <3>1, FS_AddElement
    <3>3. ({} \cup {FirstRental}) \cup {SecondRental} = {FirstRental, SecondRental}
      OBVIOUS
    <3> QED
      BY <3>2, <3>3
  <2>2. {x \in RentalIds : Live(rentals[x])} \subseteq {FirstRental, SecondRental}
    BY <1>4
  <2>3. IsFiniteSet({x \in RentalIds : Live(rentals[x])})
    BY <2>1, <2>2, FS_Subset
  <2> QED
    BY <1>1, <1>2, <1>3, <2>3 DEF KeysOK
<1>7. RoommatesFollowConsent
  BY <1>4 DEF RoommatesFollowConsent
<1>8. \A a \in AppIds : ConsentOK(a)
  BY <1>1, <1>3 DEF ConsentOK
<1>9. \A h \in Handlers : FrameOK(h) /\ AnswerOK(h)
  BY <1>1, IdleInFrame DEF FrameOK, AnswerOK
<1> QED
  BY <1>1, <1>2, <1>5, <1>6, <1>7, <1>8, <1>9 DEF IInv

LEMMA PostRequestStep ==
    ASSUME IInv, NEW h \in Handlers, PostRequest(h)
    PROVE  IInv'
<1>1. /\ {"seeking"} \in SUBSET {"seeking", "room", "rental"}
      /\ {"room"} \in SUBSET {"seeking", "room", "rental"}
      /\ {"rental"} \in SUBSET {"seeking", "room", "rental"}
      /\ {"active", "closed"} \subseteq PostStatus
  BY DEF PostStatus
<1>2. ASSUME NEW u \in People, NEW i \in PostRooms, NEW x \in PostRentals, NEW n \in Counts,
             CreatePost_Check(h, u, i, x, n)
      PROVE  IInv'
  BY <1>2, CreatePost_CheckStep
<1>3. ASSUME NEW p \in PostIds, NEW n \in Counts, UpdatePost_Read(h, p, {"seeking"}, n, Null, Null)
      PROVE  IInv'
  BY <1>1, <1>3, UpdatePost_ReadStep
<1>4. ASSUME NEW p \in PostIds, NEW i \in PostRooms, UpdatePost_Read(h, p, {"room"}, 0, i, Null)
      PROVE  IInv'
  BY <1>1, <1>4, UpdatePost_ReadStep
<1>5. ASSUME NEW p \in PostIds, NEW x \in PostRentals, UpdatePost_Read(h, p, {"rental"}, 0, Null, x)
      PROVE  IInv'
  BY <1>1, <1>5, UpdatePost_ReadStep
<1>6. ASSUME NEW p \in PostIds, RemovePost_Read(h, p) PROVE IInv'
  BY <1>6, RemovePost_ReadStep
<1>7. ASSUME NEW p \in PostIds, NEW s \in {"active", "closed"}, UpdatePostStatus_Read(h, p, s)
      PROVE  IInv'
  BY <1>1, <1>7, UpdatePostStatus_ReadStep
<1> QED
  BY <1>2, <1>3, <1>4, <1>5, <1>6, <1>7 DEF PostRequest

LEMMA ApplicationRequestStep ==
    ASSUME IInv, NEW h \in Handlers, ApplicationRequest(h)
    PROVE  IInv'
BY CreateApplication_ReadPostStep, RespondToApplication_ReadStep, Cancel_ReadStep,
   LandlordApprove_ReadStep, LandlordReject_ReadStep, ConfirmApplication_ReadStep,
   AddRoommate_FindRentalStep, GenerateInviteLink_FindRentalStep, AcceptInvite_ReadRentalStep
   DEF ApplicationRequest

LEMMA AdvanceStep ==
    ASSUME IInv, NEW h \in Handlers, Advance(h)
    PROVE  IInv'
BY CreatePost_InsertStep, UpdatePost_WriteStep, RemovePost_DeleteStep, UpdatePostStatus_WriteStep,
   CreateApplication_FindExistingStep, InsertAppSteps, RespondToApplication_WriteStep, RefuseSteps,
   LandlordApprove_WriteStep, HandleApproved_CountStep, HandleApproved_ReadStep,
   HandleApproved_CloseStep, CreateRentalForRoommate_CheckInstanceStep,
   CreateRentalForRoommate_CheckTenantStep, CountSteps, CreateRentalForRoommate_CommitStep,
   AddRoommate_FindPostStep, AddRoommate_OccupancyStep, InsertHiddenPostSteps,
   AddRoommate_CheckTenantStep, AddRoommate_FindExistingStep, AddRoommate_CommitStep,
   FindPostSteps, GenerateInviteLink_OccupancyStep, GenerateInviteLink_InsertPostStep,
   GenerateInviteLink_UpdatePostStep, AcceptInvite_FindExistingStep,
   AcceptInvite_CheckTenantStep, AcceptInvite_UpdatePostStep
   DEF Advance

LEMMA NextKeepsInvariant == IInv /\ [Next]_vars => IInv'
BY PostRequestStep, ApplicationRequestStep, AdvanceStep, CrashStep, LetRoomStep, EndRentalStep,
   RenewRentalStep, StutterStep DEF Next, Elsewhere

-----------------------------------------------------------------------------
(* What the invariant says of every behaviour.                             *)

THEOREM Invariant == Spec => []IInv
<1> QED
  BY InitHasInvariant, NextKeepsInvariant, PTL DEF Spec

(* The tables and the frames of the handlers keep the shape that           *)
(* schema.prisma and the services give them.                               *)
THEOREM TypeCorrect == Spec => []TypeOK
<1>1. IInv => TypeOK
  BY DEF IInv
<1> QED
  BY <1>1, Invariant, PTL

(* confirmApplication rents the room to the person whom the tenant of the  *)
(* post accepted and, unless the post was moved, the landlord too, however *)
(* the answers, edits and deletions of others interleave with its calls.   *)
THEOREM ConsentFollowed == Spec => []RoommatesFollowConsent
<1>1. IInv => RoommatesFollowConsent
  BY DEF IInv
<1> QED
  BY <1>1, Invariant, PTL

(* remainingSlots stays the people sought less those approved, as long as  *)
(* every edit of the number worked with the numbers that were stored.      *)
THEOREM SlotsCounted == Spec => []SlotsAddUp
<1>1. IInv => SlotsAddUp
  BY DEF IInv
<1> QED
  BY <1>1, Invariant, PTL

-----------------------------------------------------------------------------
(* Who writes what, for what a step may do.                                *)

(* Nobody applies, is welcomed, is cleared or moves in. *)
Quiet == UNCHANGED <<apps, rentals, welcomed, cleared>>

LEMMA RequestsAreQuiet ==
    ASSUME NEW h \in Handlers, PostRequest(h) \/ ApplicationRequest(h) \/ Crash(h)
    PROVE  Quiet
<1>1. UNCHANGED <<posts, apps, rentals, instances, invites, history>>
  <2>1. CASE PostRequest(h)
    BY <2>1 DEF PostRequest, CreatePost_Check, UpdatePost_Read, RemovePost_Read,
       UpdatePostStatus_Read, NoWrites
  <2>2. CASE ApplicationRequest(h)
    BY <2>2 DEF ApplicationRequest, CreateApplication_ReadPost, RespondToApplication_Read,
       Cancel_Read, LandlordApprove_Read, LandlordReject_Read, ReadApp, ConfirmApplication_Read,
       AddRoommate_FindRental, GenerateInviteLink_FindRental, AcceptInvite_ReadRental, NoWrites
  <2>3. CASE Crash(h)
    BY <2>3 DEF Crash, NoWrites
  <2> QED
    BY <2>1, <2>2, <2>3
<1> QED
  BY <1>1 DEF Quiet, history

(* The calls that only read, *)
Reads(h) ==
    \/ CreateApplication_FindExisting(h) \/ HandleApproved_Read(h)
    \/ CreateRentalForRoommate_CheckInstance(h) \/ CreateRentalForRoommate_CheckTenant(h)
    \/ CreateRentalForRoommate_Count(h)
    \/ AddRoommate_FindPost(h) \/ AddRoommate_Occupancy(h)
    \/ AddRoommate_CheckTenant(h) \/ AddRoommate_FindExisting(h) \/ AddRoommate_Count(h)
    \/ GenerateInviteLink_FindPost(h) \/ GenerateInviteLink_Occupancy(h)
    \/ AcceptInvite_FindExisting(h) \/ AcceptInvite_CheckTenant(h) \/ AcceptInvite_Count(h)
    \/ AcceptInvite_FindPost(h)

(* those that write posts, *)
WritesPost(h) ==
    \/ CreatePost_Insert(h) \/ UpdatePost_Write(h) \/ UpdatePostStatus_Write(h)
    \/ HandleApproved_Count(h) \/ HandleApproved_Close(h)
    \/ AddRoommate_InsertPost(h) \/ GenerateInviteLink_InsertPost(h)
    \/ GenerateInviteLink_UpdatePost(h) \/ AcceptInvite_InsertPost(h)
    \/ AcceptInvite_UpdatePost(h)

(* those that write applications, *)
WritesApp(h) ==
    \/ CreateApplication_Insert(h) \/ AddRoommate_Insert(h) \/ AcceptInvite_Insert(h)
    \/ RespondToApplication_Write(h) \/ Cancel_Write(h)
    \/ LandlordApprove_Write(h) \/ LandlordReject_Write(h) \/ RemovePost_Delete(h)

(* and those that let somebody move in. *)
LetsMoveIn(h) == CreateRentalForRoommate_Commit(h) \/ AddRoommate_Commit(h)

LEMMA AdvanceKinds ==
    ASSUME NEW h \in Handlers, Advance(h)
    PROVE  Reads(h) \/ WritesPost(h) \/ WritesApp(h) \/ LetsMoveIn(h)
BY DEF Advance, Reads, WritesPost, WritesApp, LetsMoveIn

LEMMA ReadsAreQuiet ==
    ASSUME NEW h \in Handlers, Reads(h)
    PROVE  Quiet
<1>1. UNCHANGED <<posts, apps, rentals, instances, invites, history>>
  BY DEF Reads, CreateApplication_FindExisting, HandleApproved_Read,
     CreateRentalForRoommate_CheckInstance, CreateRentalForRoommate_CheckTenant,
     CreateRentalForRoommate_Count, AddRoommate_FindPost, AddRoommate_Occupancy,
     AddRoommate_CheckTenant, AddRoommate_FindExisting, AddRoommate_Count,
     GenerateInviteLink_FindPost, GenerateInviteLink_Occupancy, AcceptInvite_FindExisting,
     AcceptInvite_CheckTenant, AcceptInvite_Count, AcceptInvite_FindPost,
     Check, CountPeople, LookAtOccupancy, FindPost, NoWrites
<1> QED
  BY <1>1 DEF Quiet, history

LEMMA PostWritesAreQuiet ==
    ASSUME NEW h \in Handlers, WritesPost(h)
    PROVE  Quiet
<1>1. CASE GenerateInviteLink_InsertPost(h) \/ GenerateInviteLink_UpdatePost(h)
  BY <1>1 DEF GenerateInviteLink_InsertPost, GenerateInviteLink_UpdatePost, history, Quiet
<1>2. CASE OnlyPosts
  BY <1>2 DEF OnlyPosts, Quiet
<1> QED
  BY <1>1, <1>2 DEF WritesPost, CreatePost_Insert, UpdatePost_Write, UpdatePostStatus_Write,
     HandleApproved_Count, HandleApproved_Close, AddRoommate_InsertPost,
     AcceptInvite_InsertPost, AcceptInvite_UpdatePost, InsertHiddenPost

LEMMA AppWritesKeepRentals ==
    ASSUME NEW h \in Handlers, WritesApp(h)
    PROVE  UNCHANGED rentals
<1>1. CASE RemovePost_Delete(h)
  BY <1>1 DEF RemovePost_Delete
<1> QED
  BY <1>1 DEF WritesApp, CreateApplication_Insert, AddRoommate_Insert, AcceptInvite_Insert,
     InsertApp, RespondToApplication_Write, Cancel_Write, LandlordApprove_Write,
     LandlordReject_Write, OnlyApps, NoWrites

-----------------------------------------------------------------------------
(* A step that moves handler h and writes rentals is one of h's own.       *)

LEMMA MoveInIsOwn ==
    ASSUME IInv, [Next]_vars, NEW h \in Handlers, call'[h] # call[h], rentals' # rentals
    PROVE  LetsMoveIn(h) /\ ReturnWritten(h)
<1>1. ~Elsewhere /\ ~UNCHANGED vars
  BY DEF Elsewhere, LetRoom, EndRental, RenewRental, vars
<1>2. PICK g \in Handlers : PostRequest(g) \/ ApplicationRequest(g) \/ Advance(g) \/ Crash(g)
  BY <1>1 DEF Next
<1>3. ~Quiet
  BY DEF Quiet
<1>4. LetsMoveIn(g)
  BY <1>2, <1>3, RequestsAreQuiet, AdvanceKinds, ReadsAreQuiet, PostWritesAreQuiet,
     AppWritesKeepRentals
<1>5. ReturnWritten(g)
  BY <1>4 DEF LetsMoveIn, CreateRentalForRoommate_Commit, AddRoommate_Commit, NoWrites
<1>6. g = h
  BY <1>5 DEF ReturnWritten, IInv, TypeOK
<1> QED
  BY <1>4, <1>5, <1>6

(* Who moves in without being disturbed finds a place, lives nowhere else  *)
(* and leaves a full room occupied: createRentalForRoommate and            *)
(* addRoommateDirectly count outside their transactions, and what they     *)
(* counted holds as long as nobody else writes.                            *)
THEOREM MoveInsFit == Spec => UndisturbedMoveInFits
<1>1. ASSUME IInv, [Next]_vars, NEW h \in clean, NEW x \in RentalIds,
             At(h, "confirm:commit") \/ At(h, "add:commit"), call'[h] # call[h],
             rentals[x] = Null, rentals'[x] # Null
      PROVE  LET i == rentals'[x].inst IN
             /\ Occupancy(i) < MaxOccupancy
             /\ ActiveOf(rentals'[x].tenant) = {}
             /\ Occupancy(i) + 1 = MaxOccupancy => instances'[i] = "occupied"
  <2> DEFINE f == call[h]
  <2>1. TypeOK /\ h \in Handlers
    BY <1>1 DEF IInv, TypeOK
  <2>2. LetsMoveIn(h) /\ ReturnWritten(h)
    BY <1>1, <2>1, MoveInIsOwn
  <2>3. ActiveOf(f.who) = {} /\ f.count = Occupancy(f.room) /\ HasPlace(f.room)
    BY <1>1 DEF IInv, ReadsHold, At
  <2>4. f.who \in People /\ f.room \in Instances /\ f.app \in AppIds \cup {Null}
    BY <1>1, <2>1 DEF IInv, FrameOK, At, TypeOK, Frame
  <2>5. \E a \in {f.app, Null} : \E p, close : MoveIn(f.who, f.room, a, p, f.count, close)
    BY <1>1, <2>2 DEF LetsMoveIn, CreateRentalForRoommate_Commit, AddRoommate_Commit, NoWrites
  <2>6. PICK a \in AppIds \cup {Null} : \E p, close : MoveIn(f.who, f.room, a, p, f.count, close)
    BY <2>4, <2>5
  <2> DEFINE row == [tenant |-> f.who, inst |-> f.room, status |-> "active", app |-> a]
  <2>7. PICK y \in RentalIds : rentals[y] = Null /\ rentals' = [rentals EXCEPT ![y] = row]
    BY <2>6 DEF MoveIn
  <2>8. row \in Rental /\ row.tenant = f.who /\ row.inst = f.room
    BY <2>4, NewRental
  <2>9. instances' = IF f.count + 1 >= MaxOccupancy
                     THEN [instances EXCEPT ![f.room] = "occupied"] ELSE instances
    BY <2>6 DEF MoveIn
  <2> HIDE DEF row
  <2>10. x = y /\ rentals'[x] = row
    BY <1>1, <2>1, <2>7 DEF TypeOK
  <2>11. Occupancy(f.room) + 1 = MaxOccupancy => instances'[f.room] = "occupied"
    <3> SUFFICES ASSUME Occupancy(f.room) + 1 = MaxOccupancy
                 PROVE  instances'[f.room] = "occupied"
      OBVIOUS
    <3>1. f.count + 1 >= MaxOccupancy
      BY <2>3, RoommateStoreAssumption
    <3> QED
      BY <2>1, <2>4, <2>9, <3>1 DEF TypeOK
  <2> QED
    BY <2>3, <2>8, <2>10, <2>11 DEF HasPlace
<1>2. IInv /\ [Next]_vars =>
        [\A h \in clean, x \in RentalIds :
          /\ At(h, "confirm:commit") \/ At(h, "add:commit")
          /\ call'[h] # call[h]
          /\ rentals[x] = Null /\ rentals'[x] # Null
          => LET i == rentals'[x].inst IN
             /\ Occupancy(i) < MaxOccupancy
             /\ ActiveOf(rentals'[x].tenant) = {}
             /\ Occupancy(i) + 1 = MaxOccupancy => instances'[i] = "occupied"]_vars
  BY <1>1
<1> QED
  BY <1>2, Invariant, PTL DEF Spec, UndisturbedMoveInFits

-----------------------------------------------------------------------------
(* Refinement: an application at a time goes one stage further.            *)

(* Somebody moved in on application a. *)
In(a) == \E x \in RentalIds : Live(rentals[x]) /\ rentals[x].app = a

Further(from, to) ==
    \/ from = to
    \/ from = "none" /\ to \in {"asked", "welcomed"}
    \/ from = "asked" /\ to \in {"welcomed", "cleared"}
    \/ from = "welcomed" /\ to = "cleared"
    \/ from = "cleared" /\ to = "in"

Consenting ==
    \/ \A b \in AppIds : Stage(b)' = Stage(b)
    \/ \E a \in AppIds : /\ \A b \in AppIds \ {a} : Stage(b)' = Stage(b)
                         /\ Further(Stage(a), Stage(a)')

LEMMA StageKept ==
    ASSUME NEW b, In(b)' <=> In(b), b \in cleared' <=> b \in cleared,
           b \in welcomed' <=> b \in welcomed, apps'[b] = Null <=> apps[b] = Null
    PROVE  Stage(b)' = Stage(b)
BY DEF Stage, In

LEMMA InKept ==
    ASSUME UNCHANGED rentals, NEW b
    PROVE  In(b)' <=> In(b)
BY DEF In, Live

LEMMA QuietConsents ==
    ASSUME Quiet
    PROVE  Consenting
BY StageKept, InKept DEF Quiet, Consenting

(* Only those who were welcomed moved in. *)
LEMMA InIsWelcome ==
    ASSUME IInv, NEW a \in AppIds, In(a)
    PROVE  a \in welcomed
BY NullIsNoId DEF IInv, In, RoommatesFollowConsent

LEMMA InsertConsents ==
    ASSUME IInv, NEW h \in Handlers, NEW row \in App, NEW status, InsertApp(h, row, status)
    PROVE  Consenting
<1>1. CASE NoWrites
  BY <1>1, QuietConsents DEF NoWrites, history, Quiet
<1>2. ASSUME NEW a \in AppIds, apps[a] = Null, apps' = [apps EXCEPT ![a] = row],
             welcomed' = welcomed \/ welcomed' = welcomed \cup {a},
             UNCHANGED <<rentals, cleared>>
      PROVE  Consenting
  <2>1. apps'[a] # Null /\ \A b \in AppIds \ {a} : apps'[b] = apps[b]
    BY <1>2, RowIsLive, NullIsNoId DEF IInv, TypeOK
  <2>2. a \notin welcomed \cup cleared /\ ~In(a)
    BY <1>2, InIsWelcome DEF IInv, ConsentOK
  <2>3. Stage(a) = "none"
    BY <1>2, <2>2 DEF Stage, In
  <2>4. ~In(a)' /\ a \notin cleared'
    BY <1>2, <2>2, InKept
  <2>5. Stage(a)' \in {"asked", "welcomed"}
    BY <2>1, <2>4 DEF Stage, In
  <2>6. \A b \in AppIds \ {a} : Stage(b)' = Stage(b)
    BY <1>2, <2>1, InKept, StageKept
  <2> QED
    BY <2>3, <2>5, <2>6 DEF Consenting, Further
<1> QED
  BY <1>1, <1>2 DEF InsertApp, OnlyApps

(* Whatever an answer or a deletion does to the rows of applications.      *)
LEMMA AppsKept ==
    ASSUME UNCHANGED <<rentals, welcomed, cleared>>,
           \A b \in AppIds : apps'[b] = Null <=> apps[b] = Null
    PROVE  Consenting
BY InKept, StageKept DEF Consenting

LEMMA AnswerWritten ==
    ASSUME IInv, NEW h \in Handlers, NEW label \in Answering, WriteApp(h, label),
           Live(apps[call[h].app])
    PROVE  /\ call[h].app \in AppIds
           /\ \A b \in AppIds : apps'[b] = Null <=> apps[b] = Null
<1> DEFINE a == call[h].app
           row == [apps[a] EXCEPT !.status = call[h].status]
<1>1. /\ TypeOK /\ a \in AppIds /\ call[h].status \in AppStatus
      /\ apps' = [apps EXCEPT ![a] = row]
  BY DEF IInv, FrameOK, AnswerOK, WriteApp, At, AppStatus, Answering
<1>2. apps[a] \in App /\ apps[a] # Null
  BY <1>1, LiveRows
<1>3. row \in App
  BY <1>1, <1>2, AnsweredApp
<1> HIDE DEF a, row
<1>4. row # Null
  BY <1>3, RowIsLive, NullIsNoId
<1>5. \A b \in AppIds : apps'[b] = IF b = a THEN row ELSE apps[b]
  BY <1>1 DEF TypeOK
<1> QED
  BY <1>1, <1>2, <1>4, <1>5 DEF a

LEMMA AnsweredStage ==
    ASSUME NEW a, apps[a] # Null, apps'[a] # Null, UNCHANGED rentals,
           welcomed \subseteq welcomed', cleared \subseteq cleared'
    PROVE  Further(Stage(a), Stage(a)')
<1>1. CASE In(a)
  <2>1. In(a)'
    BY <1>1, InKept
  <2>2. Stage(a) = "in" /\ Stage(a)' = "in"
    BY <1>1, <2>1 DEF Stage, In
  <2> QED
    BY <2>2 DEF Further
<1>2. CASE ~In(a)
  <2>1. ~In(a)'
    BY <1>2, InKept
  <2>2. Stage(a) = IF a \in cleared THEN "cleared"
                   ELSE IF a \in welcomed THEN "welcomed" ELSE "asked"
    BY <1>2 DEF Stage, In
  <2>3. Stage(a)' = IF a \in cleared' THEN "cleared"
                    ELSE IF a \in welcomed' THEN "welcomed" ELSE "asked"
    BY <2>1 DEF Stage, In
  <2>4. CASE a \in cleared
    BY <2>2, <2>3, <2>4 DEF Further
  <2>5. CASE a \notin cleared
    BY <2>2, <2>3, <2>5 DEF Further
  <2> QED
    BY <2>4, <2>5
<1> QED
  BY <1>1, <1>2

(* The answers of the tenant and the landlord that welcome or clear. *)
LEMMA AnswerConsents ==
    ASSUME IInv, NEW h \in Handlers, RespondToApplication_Write(h) \/ LandlordApprove_Write(h)
    PROVE  Consenting
<1>1. CASE Live(apps[call[h].app])
  <2>1. PICK a \in AppIds :
           a = call[h].app /\ \A b \in AppIds : apps'[b] = Null <=> apps[b] = Null
    BY <1>1, AnswerWritten DEF RespondToApplication_Write, LandlordApprove_Write, Answering
  <2>2. apps[a] # Null
    BY <1>1, <2>1, NullIsNoId
  <2>3. /\ UNCHANGED rentals
        /\ welcomed' = welcomed \/ welcomed' = welcomed \cup {a}
        /\ cleared' = cleared \/ cleared' = cleared \cup {a}
    BY <1>1, <2>1 DEF RespondToApplication_Write, LandlordApprove_Write, OnlyApps
  <2>4. \A b \in AppIds \ {a} : Stage(b)' = Stage(b)
    BY <2>1, <2>3, InKept, StageKept
  <2>5. /\ welcomed \subseteq welcomed' /\ cleared \subseteq cleared'
        /\ apps'[a] # Null
    BY <2>1, <2>2, <2>3
  <2>6. Further(Stage(a), Stage(a)')
    BY <2>2, <2>3, <2>5, AnsweredStage
  <2> QED
    BY <2>1, <2>4, <2>6 DEF Consenting
<1>2. CASE ~Live(apps[call[h].app])
  BY <1>2, QuietConsents DEF RespondToApplication_Write, LandlordApprove_Write, WriteApp, OnlyApps,
     Quiet
<1> QED
  BY <1>1, <1>2

LEMMA RefusalConsents ==
    ASSUME IInv, NEW h \in Handlers,
           Cancel_Write(h) \/ LandlordReject_Write(h) \/ RemovePost_Delete(h)
    PROVE  Consenting
<1>1. CASE RemovePost_Delete(h)
  <2>1. UNCHANGED <<rentals, welcomed, cleared>>
    BY <1>1 DEF RemovePost_Delete, history
  <2>2. \A b \in AppIds : apps'[b] = IF Live(apps[b]) /\ apps[b].post = call[h].post
                                     THEN Gone ELSE apps[b]
    BY <1>1 DEF RemovePost_Delete
  <2>3. \A b \in AppIds : apps'[b] = Null <=> apps[b] = Null
    BY <2>2, NullIsNoId
  <2> QED
    BY <2>1, <2>3, AppsKept
<1>2. CASE Cancel_Write(h) \/ LandlordReject_Write(h)
  <2>1. UNCHANGED <<rentals, welcomed, cleared>>
    BY <1>2 DEF Cancel_Write, LandlordReject_Write, OnlyApps
  <2>2. CASE Live(apps[call[h].app])
    BY <1>2, <2>1, <2>2, AnswerWritten, AppsKept DEF Cancel_Write, LandlordReject_Write, Answering
  <2>3. CASE ~Live(apps[call[h].app])
    BY <1>2, <2>1, <2>3, QuietConsents DEF Cancel_Write, LandlordReject_Write, WriteApp, Quiet
  <2> QED
    BY <2>2, <2>3
<1> QED
  BY <1>1, <1>2

(* Rentals go on being of the application they were made from.             *)
LEMMA RentalsConsent ==
    ASSUME IInv, UNCHANGED <<welcomed, cleared>>,
           \A b \in AppIds : apps'[b] = Null <=> apps[b] = Null,
           \A b \in AppIds : In(b)' <=> In(b)
    PROVE  Consenting
BY StageKept DEF Consenting

LEMMA MoveInConsents ==
    ASSUME IInv, NEW h \in Handlers, LetsMoveIn(h)
    PROVE  Consenting
<1> DEFINE f == call[h]
<1>1. /\ TypeOK /\ f.who \in People /\ f.room \in Instances
      /\ f.at \in Confirming => f.app \in AppIds /\ f.app \in welcomed /\ f.app \in cleared
  BY DEF LetsMoveIn, CreateRentalForRoommate_Commit, AddRoommate_Commit, IInv, FrameOK, AnswerOK, At
<1>2. CASE NoWrites
  BY <1>2, QuietConsents DEF NoWrites, history, Quiet
<1>3. ASSUME NEW a \in AppIds \cup {Null}, NEW p, NEW close,
             MoveIn(f.who, f.room, a, p, f.count, close),
             a # Null => a \in cleared,
             \A b \in AppIds : apps'[b] = Null <=> apps[b] = Null
      PROVE  Consenting
  <2> DEFINE row == [tenant |-> f.who, inst |-> f.room, status |-> "active", app |-> a]
  <2>1. PICK x \in RentalIds : rentals[x] = Null /\ rentals' = [rentals EXCEPT ![x] = row]
    BY <1>3 DEF MoveIn
  <2>2. row \in Rental /\ row.app = a /\ UNCHANGED <<welcomed, cleared>>
    BY <1>1, <1>3, NewRental DEF MoveIn, history
  <2> HIDE DEF row
  <2>3. Live(row) /\ ~Live(rentals[x])
    BY <2>1, <2>2, RowIsLive, NullIsNoId
  <2>4. \A y \in RentalIds : rentals'[y] = IF y = x THEN row ELSE rentals[y]
    BY <1>1, <2>1 DEF TypeOK
  <2>5. \A b \in AppIds \ {a} : In(b)' <=> In(b)
    BY <2>2, <2>3, <2>4 DEF In
  <2>6. CASE a = Null
    BY <1>3, <2>2, <2>5, <2>6, NullIsNoId, RentalsConsent
  <2>7. CASE a # Null
    <3>1. a \in AppIds /\ Stage(a) \in {"cleared", "in"}
      BY <1>3, <2>7 DEF Stage
    <3>2. In(a)'
      BY <2>2, <2>3, <2>4 DEF In
    <3>3. Stage(a)' = "in"
      BY <3>2 DEF Stage, In
    <3>4. \A b \in AppIds \ {a} : Stage(b)' = Stage(b)
      BY <1>3, <2>2, <2>5, StageKept
    <3> QED
      BY <3>1, <3>3, <3>4 DEF Consenting, Further
  <2> QED
    BY <2>6, <2>7
<1>4. CASE CreateRentalForRoommate_Commit(h) /\ ~NoWrites
  <2> DEFINE a == f.app
             row == [apps[a] EXCEPT !.status = "accepted"]
  <2>1. /\ a \in AppIds /\ a \in cleared /\ Live(apps[a]) /\ apps' = [apps EXCEPT ![a] = row]
        /\ \E p, close : MoveIn(f.who, f.room, a, p, f.count, close)
    BY <1>1, <1>4 DEF CreateRentalForRoommate_Commit, At
  <2>2. apps[a] \in App /\ apps[a] # Null /\ "accepted" \in AppStatus
    BY <1>1, <2>1, LiveRows DEF AppStatus
  <2>3. row \in App
    BY <2>2, AnsweredApp
  <2> HIDE DEF a, row, f
  <2>4. row # Null
    BY <2>3, RowIsLive, NullIsNoId
  <2>5. \A b \in AppIds : apps'[b] = Null <=> apps[b] = Null
    BY <1>1, <2>1, <2>2, <2>4 DEF TypeOK
  <2> QED
    BY <1>3, <2>1, <2>5
<1>5. CASE AddRoommate_Commit(h) /\ ~NoWrites
  <2>1. UNCHANGED apps /\ \E p, close : MoveIn(f.who, f.room, Null, p, f.count, close)
    BY <1>5 DEF AddRoommate_Commit
  <2> HIDE DEF f
  <2> QED
    BY <1>3, <2>1
<1> QED
  BY <1>2, <1>4, <1>5 DEF LetsMoveIn

(* The rental services name no application, and never change one.          *)
LEMMA ElsewhereConsents ==
    ASSUME IInv, Elsewhere
    PROVE  Consenting
<1>1. TypeOK /\ UNCHANGED <<apps, welcomed, cleared>>
  BY DEF Elsewhere, LetRoom, EndRental, RenewRental, history, IInv
<1>2. ASSUME NEW t \in People, NEW i \in Instances, LetRoom(t, i)
      PROVE  Consenting
  <2> DEFINE row == [tenant |-> t, inst |-> i, status |-> "active", app |-> Null]
  <2>1. PICK x \in RentalIds : rentals[x] = Null /\ rentals' = [rentals EXCEPT ![x] = row]
    BY <1>2 DEF LetRoom
  <2>2. row.app = Null
    OBVIOUS
  <2> HIDE DEF row
  <2>3. \A y \in RentalIds : rentals'[y] = IF y = x THEN row ELSE rentals[y]
    BY <1>1, <2>1 DEF TypeOK
  <2>4. ~Live(rentals[x])
    BY <2>1, NullIsNoId
  <2>5. \A b \in AppIds : In(b)' <=> In(b)
    BY <2>2, <2>3, <2>4, NullIsNoId DEF In
  <2> QED
    BY <1>1, <2>5, RentalsConsent
<1>3. ASSUME NEW x \in RentalIds, Live(rentals[x]), NEW s \in RentalStatus,
             rentals' = [rentals EXCEPT ![x].status = s]
      PROVE  Consenting
  <2> DEFINE row == [rentals[x] EXCEPT !.status = s]
  <2>1. rentals[x] \in Rental
    BY <1>1, <1>3, LiveRows
  <2>2. row \in Rental /\ row.app = rentals[x].app
    BY <2>1 DEF Rental
  <2>3. rentals' = [rentals EXCEPT ![x] = row]
    BY <1>3
  <2> HIDE DEF row
  <2>4. Live(row)
    BY <2>2, RowIsLive
  <2>5. \A y \in RentalIds : rentals'[y] = IF y = x THEN row ELSE rentals[y]
    BY <1>1, <2>3 DEF TypeOK
  <2>6. \A b \in AppIds : In(b)' <=> In(b)
    BY <1>3, <2>2, <2>4, <2>5 DEF In
  <2> QED
    BY <1>1, <2>6, RentalsConsent
<1>4. ASSUME NEW x \in RentalIds, EndRental(x) \/ RenewRental(x)
      PROVE  Consenting
  BY <1>3, <1>4 DEF EndRental, RenewRental, RentalStatus
<1> QED
  BY <1>2, <1>4 DEF Elsewhere

LEMMA InsertsConsent ==
    ASSUME IInv, NEW h \in Handlers,
           CreateApplication_Insert(h) \/ AddRoommate_Insert(h) \/ AcceptInvite_Insert(h)
    PROVE  Consenting
<1> DEFINE row(s) == [post |-> call[h].post, who |-> call[h].who, status |-> s]
<1>1. call[h].post \in PostIds /\ call[h].who \in People
  BY DEF IInv, FrameOK, CreateApplication_Insert, AddRoommate_Insert, AcceptInvite_Insert, At
<1>2. \A s \in {"pending", "accepted"} : row(s) \in App
  BY <1>1 DEF App, AppStatus
<1>3. \E s \in {"pending", "accepted"} : InsertApp(h, row(s), s)
  BY DEF CreateApplication_Insert, AddRoommate_Insert, AcceptInvite_Insert
<1> HIDE DEF row
<1> QED
  BY <1>2, <1>3, InsertConsents

LEMMA ConsentStep == IInv /\ [Next]_vars => Consenting
<1> SUFFICES ASSUME IInv, [Next]_vars PROVE Consenting
  OBVIOUS
<1>1. CASE UNCHANGED vars
  BY <1>1, QuietConsents DEF vars, Quiet
<1>2. ASSUME NEW h \in Handlers, Advance(h) PROVE Consenting
  <2>1. CASE WritesApp(h)
    BY <2>1, InsertsConsent, AnswerConsents, RefusalConsents DEF WritesApp
  <2> QED
    BY <1>2, <2>1, AdvanceKinds, ReadsAreQuiet, PostWritesAreQuiet, QuietConsents, MoveInConsents
<1> QED
  BY <1>1, <1>2, RequestsAreQuiet, QuietConsents, ElsewhereConsents DEF Next

(* Applications, answers, approvals and move-ins of any number of people,  *)
(* served by any number of handlers, implement RoommateConsent.            *)
THEOREM RoommatesRefineConsent == Spec => RoommatesImplementConsent
<1>1. Init => Consent!Init
  <2> SUFFICES ASSUME Init PROVE Consent!Init
    OBVIOUS
  <2>1. /\ welcomed = {} /\ cleared = {}
        /\ \A x \in RentalIds : rentals[x] = Null \/ rentals[x].app = Null
    BY DEF Init
  <2>2. \A a \in AppIds : Stage(a) \in {"none", "asked"}
    BY <2>1, NullIsNoId DEF Stage
  <2> QED
    BY <2>2 DEF Consent!Init
<1>2. Consenting => [Consent!Next]_([a \in AppIds |-> Stage(a)])
  <2> SUFFICES ASSUME Consenting PROVE [Consent!Next]_([a \in AppIds |-> Stage(a)])
    OBVIOUS
  <2>1. CASE \A b \in AppIds : Stage(b)' = Stage(b)
    BY <2>1
  <2>2. ASSUME NEW a \in AppIds, \A b \in AppIds \ {a} : Stage(b)' = Stage(b),
               NEW from, NEW to, Stage(a) = from, Stage(a)' = to, Further(from, to)
        PROVE  [Consent!Next]_([b \in AppIds |-> Stage(b)])
    <3>1. from = to \/ Consent!Apply(a) \/ Consent!Welcome(a) \/ Consent!Clear(a)
             \/ Consent!MoveIn(a)
      <4> DEFINE st == [b \in AppIds |-> Stage(b)]
                 st1 == [b \in AppIds |-> Stage(b)']
      <4>1. Consent!Move(a, from, to)
        <5>1. st1 = [st EXCEPT ![a] = to] /\ st[a] = from
          BY <2>2
        <5> QED
          BY <5>1 DEF Consent!Move
      <4> QED
        BY <2>2, <4>1 DEF Further, Consent!Apply, Consent!Welcome, Consent!Clear, Consent!MoveIn
    <3> QED
      BY <2>2, <3>1 DEF Consent!Next
  <2> QED
    BY <2>1, <2>2 DEF Consenting
<1>3. IInv /\ [Next]_vars => [Consent!Next]_([a \in AppIds |-> Stage(a)])
  BY <1>2, ConsentStep
<1> QED
  BY <1>1, <1>3, Invariant, PTL DEF Spec, RoommatesImplementConsent, Consent!Spec
=============================================================================
