------------------------- MODULE SearchIndex_proofs -------------------------
(***************************************************************************)
(* Proofs about SearchIndex for any rooms, handlers and workers, queues of *)
(* any length and any number of requests and failures.                     *)
(***************************************************************************)
EXTENDS SearchIndex, FiniteSetTheorems, TLAPS

Elements(q) == {q[i] : i \in 1..Len(q)}

(* The jobs that no worker has taken. *)
Queue == Elements(waiting) \cup Elements(delayed)

Queued(kind, r) == \E j \in Queue : j.kind = kind /\ j.room = r

(* Worker w has taken a job of this kind for room r. *)
Runs(w, kind, r) == Busy(w) /\ worker[w].job.kind = kind /\ worker[w].job.room = r

(* An index job for r that has not read the room yet. *)
Unread(r) ==
    Queued("index-room", r) \/ \E w \in Workers : Runs(w, "index-room", r) /\ worker[w].copy = Null

(* A job that indexes r has not been taken, or not even queued. *)
Coming(r) ==
    \/ Queued("index-room", r)
    \/ \E h \in Handlers : call[h].room = r /\ call[h].at \in {"write:queue", "after:queue"}

Deletes(r) ==
    \/ Queued("delete-document", r)
    \/ \E w \in Workers : Runs(w, "delete-document", r)
    \/ \E h \in Handlers : call[h].room = r /\ At(h, "remove:queue")

Copied(w, r) == Busy(w) /\ worker[w].job.room = r /\ worker[w].copy # Null

(* What a request does where it stands. *)
FrameOK(f) ==
    /\ f.at = "idle" <=> f = Idle
    /\ f.at # "idle" => f.room \in Rooms
    /\ f.at \in {"tx:queue", "tx:commit"} => f.op \in {"create", "update", "occupy"}
    /\ f.at = "after:queue" => f.op # "occupy"

(* A transaction keeps its room: nobody deletes it meanwhile, and nobody   *)
(* else knows a room that is being created.                                *)
RoomOK(h) ==
    InTransaction(h) =>
        IF call[h].op = "create"
        THEN /\ rows[call[h].room] = Null
             /\ \A g \in Handlers \ {h} : call[g].room # call[h].room
        ELSE Committed(call[h].room)

WorkerOK(w) ==
    IF Busy(w) THEN worker[w].copy # Null => worker[w].job.kind = "index-room"
               ELSE worker[w].copy = Null

(* Nothing shows more of a room than is committed. *)
NeverAhead(r) ==
    /\ rows[r] = Null => docs[r] = Null /\ \A w \in Workers : ~Copied(w, r)
    /\ Committed(r) /\ docs[r] # Null => docs[r] <= rows[r]
    /\ Committed(r) => \A w \in Workers : Copied(w, r) => worker[w].copy <= rows[r]

OnlyGoneIsDeleted(r) == Deletes(r) => rows[r] = Gone

OneWorker(r) ==
    \A v, w \in Workers :
        Busy(v) /\ Busy(w) /\ worker[v].job.room = r /\ worker[w].job.room = r => v = w

(* Somebody is about to commit, who will not queue another job. *)
Occupying(r) == \E h \in Uncommitted(r) : call[h].op = "occupy"

(* While no job is lost, none overlap and none comes before its commit,    *)
(* what is older than the row, a copy or the document, has a job behind it.*)
Tidy(r) ==
    /\ OneWorker(r)
    /\ Occupying(r) => Unread(r)
    /\ \A w \in Workers : Copied(w, r) =>
          /\ docs[r] # Null => docs[r] <= worker[w].copy
          /\ Committed(r) /\ worker[w].copy # rows[r] => Coming(r)
    /\ Committed(r) /\ docs[r] # rows[r] =>
          Coming(r) \/ Unread(r) \/ \E w \in Workers : Copied(w, r) /\ worker[w].copy = rows[r]
    /\ rows[r] = Gone /\ (docs[r] # Null \/ \E w \in Workers : Copied(w, r)) => Deletes(r)

IInv ==
    /\ TypeOK
    /\ \A h \in Handlers : FrameOK(call[h]) /\ RoomOK(h)
    /\ \A w \in Workers : WorkerOK(w)
    /\ \A r \in Rooms : NeverAhead(r) /\ OnlyGoneIsDeleted(r)
    /\ \A r \in Rooms \ untidy : Tidy(r)

-----------------------------------------------------------------------------
(* The queues as sets. *)

LEMMA ElementsIn ==
    ASSUME NEW q \in Seq(Job)
    PROVE  /\ Elements(q) \subseteq Job
           /\ \A i \in 1..Len(q) : q[i] \in Elements(q)
BY DEF Elements

LEMMA SeqEqual ==
    ASSUME NEW p \in Seq(Job), NEW q \in Seq(Job), Len(p) = Len(q),
           \A i \in 1..Len(q) : p[i] = q[i]
    PROVE  p = q
OBVIOUS

LEMMA EmptyQueue == Elements(<<>>) = {}
BY DEF Elements

LEMMA ElementsOfOne ==
    ASSUME NEW j \in Job
    PROVE  <<j>> \in Seq(Job) /\ Elements(<<j>>) = {j}
BY DEF Elements

LEMMA ElementsOfBoth ==
    ASSUME NEW p \in Seq(Job), NEW q \in Seq(Job)
    PROVE  /\ p \o q \in Seq(Job)
           /\ Elements(p \o q) = Elements(p) \cup Elements(q)
<1>1. /\ p \o q \in Seq(Job) /\ Len(p \o q) = Len(p) + Len(q)
      /\ \A i \in 1..Len(p) : (p \o q)[i] = p[i]
      /\ \A i \in 1..Len(q) : (p \o q)[Len(p) + i] = q[i]
  OBVIOUS
<1>2. ASSUME NEW i \in 1..Len(p \o q) PROVE (p \o q)[i] \in Elements(p) \cup Elements(q)
  <2>1. CASE i <= Len(p)
    BY <1>1, <2>1 DEF Elements
  <2>2. CASE i > Len(p)
    <3>1. i - Len(p) \in 1..Len(q) /\ (p \o q)[Len(p) + (i - Len(p))] = q[i - Len(p)]
      BY <1>1, <2>2
    <3>2. (p \o q)[i] = q[i - Len(p)]
      BY <3>1
    <3> QED
      BY <3>1, <3>2 DEF Elements
  <2> QED
    BY <2>1, <2>2
<1>3. ASSUME NEW i \in 1..Len(p) PROVE p[i] \in Elements(p \o q)
  BY <1>1 DEF Elements
<1>4. ASSUME NEW i \in 1..Len(q) PROVE q[i] \in Elements(p \o q)
  <2>1. Len(p) + i \in 1..Len(p \o q) /\ (p \o q)[Len(p) + i] = q[i]
    BY <1>1
  <2> QED
    BY <2>1 DEF Elements
<1> QED
  BY <1>1, <1>2, <1>3, <1>4 DEF Elements

LEMMA ElementsOfTail ==
    ASSUME NEW q \in Seq(Job), q # <<>>
    PROVE  /\ Head(q) \in Elements(q) /\ Tail(q) \in Seq(Job)
           /\ Elements(q) = {Head(q)} \cup Elements(Tail(q))
<1>1. /\ Len(q) > 0 /\ Head(q) = q[1] /\ Tail(q) \in Seq(Job) /\ Len(Tail(q)) = Len(q) - 1
      /\ \A i \in 1..Len(q) - 1 : Tail(q)[i] = q[i + 1]
  OBVIOUS
<1>2. ASSUME NEW i \in 1..Len(q), i # 1 PROVE q[i] \in Elements(Tail(q))
  <2>1. i - 1 \in 1..Len(q) - 1 /\ Tail(q)[i - 1] = q[i]
    BY <1>1, <1>2
  <2> QED
    BY <1>1, <2>1 DEF Elements
<1>3. ASSUME NEW i \in 1..Len(Tail(q)) PROVE Tail(q)[i] \in Elements(q)
  BY <1>1 DEF Elements
<1> QED
  BY <1>1, <1>2, <1>3 DEF Elements

(* What a queue holds is what its two parts hold. *)
LEMMA ElementsOfParts ==
    ASSUME NEW q \in Seq(Job), NEW m \in Nat, m <= Len(q)
    PROVE  /\ SubSeq(q, 1, m) \in Seq(Job) /\ SubSeq(q, m + 1, Len(q)) \in Seq(Job)
           /\ Elements(q) = Elements(SubSeq(q, 1, m)) \cup Elements(SubSeq(q, m + 1, Len(q)))
<1> DEFINE a == SubSeq(q, 1, m)
           b == SubSeq(q, m + 1, Len(q))
<1>1. /\ a \in Seq(Job) /\ Len(a) = m /\ \A i \in 1..m : a[i] = q[i]
      /\ b \in Seq(Job) /\ Len(b) = Len(q) - m /\ \A i \in 1..Len(q) - m : b[i] = q[m + i]
  OBVIOUS
<1> HIDE DEF a, b
<1>2. ASSUME NEW i \in 1..Len(q) PROVE q[i] \in Elements(a) \cup Elements(b)
  <2>1. CASE i <= m
    BY <1>1, <2>1 DEF Elements
  <2>2. CASE i > m
    <3>1. i - m \in 1..Len(q) - m /\ b[i - m] = q[i]
      BY <1>1, <2>2
    <3> QED
      BY <1>1, <3>1 DEF Elements
  <2> QED
    BY <2>1, <2>2
<1>3. ASSUME NEW i \in 1..Len(a) PROVE a[i] \in Elements(q)
  BY <1>1 DEF Elements
<1>4. ASSUME NEW i \in 1..Len(b) PROVE b[i] \in Elements(q)
  <2>1. m + i \in 1..Len(q) /\ b[i] = q[m + i]
    BY <1>1
  <2> QED
    BY <2>1 DEF Elements
<1>5. Elements(q) = Elements(a) \cup Elements(b)
  BY <1>2, <1>3, <1>4 DEF Elements
<1> QED
  BY <1>1, <1>5 DEF a, b

LEMMA Placed ==
    ASSUME NEW q \in Seq(Job), NEW j \in Job
    PROVE  /\ Place(j, q) \in Seq(Job)
           /\ Elements(Place(j, q)) = Elements(q) \cup {j}
<1> DEFINE urgent == {i \in 1..Len(q) : q[i].priority <= j.priority}
           n == Cardinality(urgent)
           a == SubSeq(q, 1, n)
           b == SubSeq(q, n + 1, Len(q))
<1>1. n \in Nat /\ n <= Len(q)
  <2>1. IsFiniteSet(1..Len(q)) /\ Cardinality(1..Len(q)) = Len(q)
    <3>1. Len(q) \in Nat /\ 1 \in Int /\ Len(q) \in Int
      OBVIOUS
    <3> HIDE DEF n, a, b
    <3>2. IsFiniteSet(1..Len(q))
          /\ Cardinality(1..Len(q)) = IF 1 > Len(q) THEN 0 ELSE Len(q) - 1 + 1
      BY <3>1, FS_Interval
    <3> QED
      BY <3>1, <3>2
  <2>2. n \in Nat /\ n <= Cardinality(1..Len(q))
    BY <2>1, FS_Subset, FS_CardinalityType
  <2> QED
    BY <2>1, <2>2
<1>2. Place(j, q) = a \o <<j>> \o b
  BY DEF Place
<1>3. a \in Seq(Job) /\ b \in Seq(Job) /\ Elements(q) = Elements(a) \cup Elements(b)
  <2> HIDE DEF n
  <2> QED
    BY <1>1, ElementsOfParts
<1> HIDE DEF a, b
<1>4. a \o <<j>> \in Seq(Job) /\ Elements(a \o <<j>>) = Elements(a) \cup {j}
  BY <1>3, ElementsOfOne, ElementsOfBoth
<1>5. a \o <<j>> \o b \in Seq(Job) /\ Elements(a \o <<j>> \o b) = Elements(a \o <<j>>) \cup Elements(b)
  BY <1>3, <1>4, ElementsOfBoth
<1> QED
  BY <1>2, <1>3, <1>4, <1>5

(* Taking the i-th job out leaves the others. *)
LEMMA TakenOut ==
    ASSUME NEW q \in Seq(Job), NEW i \in 1..Len(q)
    PROVE  LET p == SubSeq(q, 1, i - 1) \o SubSeq(q, i + 1, Len(q))
           IN p \in Seq(Job) /\ Elements(q) = Elements(p) \cup {q[i]}
<1> DEFINE a == SubSeq(q, 1, i - 1)
           b == SubSeq(q, i, Len(q))
           c == SubSeq(q, i + 1, Len(q))
<1>1. a \in Seq(Job) /\ b \in Seq(Job) /\ Elements(q) = Elements(a) \cup Elements(b)
  <2>1. i - 1 \in Nat /\ i - 1 <= Len(q) /\ (i - 1) + 1 = i
    OBVIOUS
  <2> QED
    BY <2>1, ElementsOfParts
<1>2. b # <<>> /\ Head(b) = q[i] /\ Tail(b) = c
  <2>1. /\ b \in Seq(Job) /\ Len(b) = Len(q) - i + 1 /\ Head(b) = q[i]
        /\ \A k \in 1..Len(q) - i + 1 : b[k] = q[i + k - 1]
    OBVIOUS
  <2>2. /\ c \in Seq(Job) /\ Len(c) = Len(q) - i
        /\ \A k \in 1..Len(q) - i : c[k] = q[i + k]
    OBVIOUS
  <2> HIDE DEF b, c
  <2>3. Tail(b) \in Seq(Job) /\ Len(Tail(b)) = Len(b) - 1 /\ \A k \in 1..Len(b) - 1 : Tail(b)[k] = b[k + 1]
    BY <2>1
  <2>4. ASSUME NEW k \in 1..Len(q) - i PROVE Tail(b)[k] = c[k]
    <3>1. Tail(b)[k] = b[k + 1]
      BY <2>1, <2>3
    <3>2. b[k + 1] = q[i + (k + 1) - 1] /\ i + (k + 1) - 1 = i + k
      BY <2>1
    <3> QED
      BY <2>2, <3>1, <3>2
  <2>5. Tail(b) = c
    <3>1. Len(Tail(b)) = Len(c) /\ Len(c) = Len(q) - i
      <4>1. Len(Tail(b)) = Len(b) - 1 /\ Len(b) = Len(q) - i + 1 /\ Len(c) = Len(q) - i
        BY <2>1, <2>2, <2>3
      <4>2. Len(q) \in Nat /\ i \in Nat
        OBVIOUS
      <4> QED
        BY <4>1, <4>2
    <3>2. \A k \in 1..Len(c) : Tail(b)[k] = c[k]
      BY <2>4, <3>1
    <3> QED
      BY <2>2, <2>3, <3>1, <3>2, SeqEqual
  <2> QED
    BY <2>1, <2>5
<1> HIDE DEF a, b, c
<1>3. c \in Seq(Job) /\ Elements(b) = {q[i]} \cup Elements(c)
  BY <1>1, <1>2, ElementsOfTail
<1>4. a \o c \in Seq(Job) /\ Elements(a \o c) = Elements(a) \cup Elements(c)
  BY <1>1, <1>3, ElementsOfBoth
<1> QED
  BY <1>1, <1>3, <1>4 DEF a, c

-----------------------------------------------------------------------------
(* The parts of a state. *)

LEMMA Typed ==
    ASSUME TypeOK
    PROVE  /\ rows \in [Rooms -> Version \cup {Null, Gone}]
           /\ docs \in [Rooms -> Version \cup {Null}]
           /\ waiting \in Seq(Job) /\ delayed \in Seq(Job)
           /\ worker \in [Workers -> [job: Job \cup {Null}, copy: Version \cup {Null}]]
           /\ call \in [Handlers -> Frame]
           /\ Queue \subseteq Job
           /\ Null \notin Version \cup Rooms \cup Job /\ Gone \notin Version \cup Job /\ Null # Gone
BY ElementsIn, SearchIndexAssumption DEF TypeOK, Queue

LEMMA IdleInFrame == Idle \in Frame /\ Idle.at = "idle" /\ Idle.room = Null /\ FrameOK(Idle)
BY DEF Idle, Frame, FrameOK

LEMMA FreeIsFree ==
    Free \in [job: Job \cup {Null}, copy: Version \cup {Null}] /\ Free.job = Null /\ Free.copy = Null
BY DEF Free

LEMMA NewJobIsJob ==
    ASSUME NEW kind \in {"index-room", "delete-document"}, NEW r \in Rooms, NEW p \in {5, 7}
    PROVE  /\ NewJob(kind, r, p) \in Job
           /\ NewJob(kind, r, p).kind = kind /\ NewJob(kind, r, p).room = r
BY SearchIndexAssumption DEF NewJob, Job

(* A job is queued, or its room is no longer tidy. *)
LEMMA Added ==
    ASSUME TypeOK, NEW j \in Job, Add(j), UNCHANGED delayed
    PROVE  /\ waiting' \in Seq(Job) /\ faults' \in 0..MaxFaults /\ untidy' \subseteq Rooms
           /\ untidy \subseteq untidy'
           /\ Queue \subseteq Queue' /\ Queue' \subseteq Queue \cup {j}
           /\ j.room \notin untidy' => j \in Queue'
<1>1. j.room \in Rooms
  BY DEF Job
<1>2. CASE waiting' = Place(j, waiting) /\ UNCHANGED <<faults, untidy>>
  BY <1>2, Typed, Placed DEF Queue, TypeOK
<1>3. CASE Fault("redis") /\ untidy' = untidy \cup {j.room} /\ UNCHANGED waiting
  BY <1>1, <1>3, SearchIndexAssumption DEF Fault, TypeOK, Queue
<1> QED
  BY <1>2, <1>3 DEF Add

-----------------------------------------------------------------------------
(* What a step leaves alone. *)

LEMMA NeverAheadKept ==
    ASSUME TypeOK, NEW r \in Rooms, NeverAhead(r),
           \/ rows'[r] = rows[r] \/ rows'[r] = Gone
           \/ rows'[r] \in Version /\ (rows[r] = Null \/ (Committed(r) /\ rows'[r] >= rows[r])),
           \/ docs'[r] = docs[r] \/ docs'[r] = Null
           \/ \E w \in Workers : Copied(w, r) /\ docs'[r] = worker[w].copy,
           \A w \in Workers : Copied(w, r)' =>
              \/ Copied(w, r) /\ worker'[w].copy = worker[w].copy
              \/ Committed(r)' /\ worker'[w].copy = rows'[r]
    PROVE  NeverAhead(r)'
<1>1. /\ rows[r] \in Version \cup {Null, Gone} /\ docs[r] \in Version \cup {Null}
      /\ \A w \in Workers : worker[w].copy \in Version \cup {Null}
      /\ Null \notin Version /\ Gone \notin Version /\ Null # Gone
  BY Typed
<1>2. \A w \in Workers : Copied(w, r) => worker[w].copy # Null
  BY DEF Copied
<1> QED
  BY <1>1, <1>2 DEF NeverAhead, Committed, Version

LEMMA OnlyGoneKept ==
    ASSUME NEW r \in Rooms, OnlyGoneIsDeleted(r), rows[r] = Gone => rows'[r] = Gone,
           Deletes(r)' => Deletes(r) \/ rows'[r] = Gone
    PROVE  OnlyGoneIsDeleted(r)'
BY DEF OnlyGoneIsDeleted

(* Nothing is written, and no job is lost sight of. *)
LEMMA TidyKept ==
    ASSUME NEW r \in Rooms, Tidy(r), rows'[r] = rows[r], docs'[r] = docs[r],
           OneWorker(r)', Occupying(r)' => Occupying(r) \/ Unread(r)',
           \A w \in Workers : Copied(w, r)' => Copied(w, r) /\ worker'[w].copy = worker[w].copy,
           \/ Coming(r)'
           \/ \A w \in Workers : Copied(w, r) => Copied(w, r)',
           Unread(r) => Unread(r)', Deletes(r) => Deletes(r)',
           Coming(r) => Coming(r)' \/ (Unread(r)' /\ \A w \in Workers : ~Copied(w, r)')
    PROVE  Tidy(r)'
BY DEF Tidy, Committed

(* The same jobs are about, in the queue or with a worker. *)
LEMMA SameWorkers ==
    ASSUME UNCHANGED worker
    PROVE  /\ \A w \in Workers, r \in Rooms : Copied(w, r)' <=> Copied(w, r)
           /\ \A w \in Workers : worker'[w].copy = worker[w].copy
           /\ \A w \in Workers, r \in Rooms, kind \in {"index-room", "delete-document"} :
                 Runs(w, kind, r)' <=> Runs(w, kind, r)
           /\ \A r \in Rooms : OneWorker(r)' <=> OneWorker(r)
           /\ \A w \in Workers : WorkerOK(w) => WorkerOK(w)'
BY DEF Copied, Runs, OneWorker, Busy, WorkerOK

-----------------------------------------------------------------------------
(* Handlers. *)

LEMMA Moved ==
    ASSUME TypeOK, NEW h \in Handlers, NEW f \in Frame, call' = [call EXCEPT ![h] = f]
    PROVE  /\ call' \in [Handlers -> Frame] /\ call'[h] = f
           /\ \A g \in Handlers \ {h} : call'[g] = call[g]
BY Typed

(* A request begins; its room is one that no transaction is creating.      *)
LEMMA BeginRooms ==
    ASSUME TypeOK, \A g \in Handlers : FrameOK(call[g]) /\ RoomOK(g),
           NEW h \in Handlers, NEW f \in Frame, call' = [call EXCEPT ![h] = f],
           At(h, "idle"), FrameOK(f), f.at # "idle",
           Committed(f.room), \A r \in Rooms : rows'[r] # rows[r] => r = f.room,
           f.at \in {"tx:queue", "tx:commit"} => f.op # "create",
           Committed(f.room)' \/ (f.at = "remove:queue" /\
              \A g \in Handlers : ~(InTransaction(g) /\ call[g].room = f.room))
    PROVE  \A g \in Handlers : FrameOK(call'[g]) /\ RoomOK(g)'
<1>1. /\ call'[h] = f /\ \A g \in Handlers \ {h} : call'[g] = call[g]
      /\ Null \notin Version /\ f.room \in Rooms
  BY Moved, Typed DEF FrameOK
<1>2. ASSUME NEW g \in Handlers PROVE FrameOK(call'[g])
  BY <1>1
<1>3. RoomOK(h)'
  BY <1>1 DEF RoomOK, InTransaction
<1>4. ASSUME NEW g \in Handlers \ {h}, InTransaction(g)' PROVE RoomOK(g)'
  <2>1. InTransaction(g) /\ call'[g] = call[g] /\ call[g].room \in Rooms
    BY <1>1, <1>4 DEF InTransaction, FrameOK
  <2>2. CASE call[g].op = "create"
    <3>1. rows[call[g].room] = Null /\ call[g].room # f.room
      BY <1>1, <2>1, <2>2 DEF RoomOK, Committed
    <3>2. rows'[call[g].room] = Null
      BY <2>1, <3>1
    <3>3. \A k \in Handlers \ {g} : call'[k].room # call[g].room
      BY <1>1, <2>1, <2>2, <3>1 DEF RoomOK
    <3> QED
      BY <2>1, <2>2, <3>2, <3>3 DEF RoomOK
  <2>3. CASE call[g].op # "create"
    <3>1. Committed(call[g].room)
      BY <2>1, <2>3 DEF RoomOK
    <3>2. CASE call[g].room # f.room
      BY <2>1, <2>3, <3>1, <3>2 DEF RoomOK, Committed
    <3>3. CASE call[g].room = f.room
      BY <2>1, <2>3, <3>1, <3>3 DEF RoomOK, Committed
    <3> QED
      BY <3>2, <3>3
  <2> QED
    BY <2>2, <2>3
<1>5. ASSUME NEW g \in Handlers \ {h} PROVE RoomOK(g)'
  BY <1>4 DEF RoomOK
<1> QED
  BY <1>2, <1>3, <1>5

(* A handler goes on with its room, or leaves it.                          *)
LEMMA GoOnRooms ==
    ASSUME TypeOK, \A g \in Handlers : FrameOK(call[g]) /\ RoomOK(g),
           NEW h \in Handlers, NEW f \in Frame, call' = [call EXCEPT ![h] = f],
           FrameOK(f), f = Idle \/ f.room = call[h].room,
           f.at \in {"tx:queue", "tx:commit"} => InTransaction(h) /\ f.op = call[h].op,
           UNCHANGED rows
    PROVE  \A g \in Handlers : FrameOK(call'[g]) /\ RoomOK(g)'
<1>1. /\ call'[h] = f /\ \A g \in Handlers \ {h} : call'[g] = call[g]
      /\ Null \notin Version /\ Null \notin Rooms
  BY Moved, Typed
<1>2. \A g \in Handlers : FrameOK(call'[g])
  BY <1>1
<1>3. \A g \in Handlers : call'[g].room = call[g].room \/ call'[g].room = Null
  BY <1>1, IdleInFrame
<1>4. ASSUME NEW g \in Handlers, InTransaction(g)' PROVE RoomOK(g)'
  <2>1. InTransaction(g) /\ call'[g].op = call[g].op
    BY <1>1, <1>4 DEF InTransaction
  <2>2. call'[g].room = call[g].room /\ call[g].room \in Rooms
    BY <1>1, <1>3, <1>4, <2>1, IdleInFrame DEF FrameOK, InTransaction
  <2>3. \A k \in Handlers \ {g} : call[k].room # call[g].room => call'[k].room # call'[g].room
    BY <1>1, <1>3, <2>2
  <2> QED
    BY <2>1, <2>2, <2>3 DEF RoomOK, Committed
<1>5. ASSUME NEW g \in Handlers PROVE RoomOK(g)'
  BY <1>4 DEF RoomOK
<1> QED
  BY <1>2, <1>5

(* What a handler's place means for its room. *)
LEMMA NewlyOccupying ==
    ASSUME TypeOK, NEW h \in Handlers, NEW f \in Frame, call' = [call EXCEPT ![h] = f],
           NEW r, Occupying(r)'
    PROVE  Occupying(r) \/ (f.room = r /\ f.at = "tx:commit" /\ f.op = "occupy")
BY Moved DEF Occupying, Uncommitted, At

LEMMA Places ==
    ASSUME TypeOK, NEW h \in Handlers, NEW f \in Frame, call' = [call EXCEPT ![h] = f],
           NEW r \in Rooms
    PROVE  /\ (\E g \in Handlers : call'[g].room = r /\ call'[g].at = "remove:queue") =>
                 \/ \E g \in Handlers : call[g].room = r /\ call[g].at = "remove:queue"
                 \/ f.room = r /\ f.at = "remove:queue"
           /\ (\E g \in Handlers : call[g].room = r /\ call[g].at \in {"write:queue", "after:queue"}) =>
                 \/ \E g \in Handlers : call'[g].room = r /\ call'[g].at \in {"write:queue", "after:queue"}
                 \/ call[h].room = r /\ call[h].at \in {"write:queue", "after:queue"}
           /\ (\E g \in Handlers : call[g].room = r /\ call[g].at = "remove:queue") =>
                 \/ \E g \in Handlers : call'[g].room = r /\ call'[g].at = "remove:queue"
                 \/ call[h].room = r /\ call[h].at = "remove:queue"
<1>1. call'[h] = f /\ \A g \in Handlers \ {h} : call'[g] = call[g]
  BY Moved
<1> QED
  BY <1>1 DEF At, Coming, Deletes

(* While the workers stand still, a room is as tidy as it was if the next  *)
(* label of the handler, or the queue, stands for the label it leaves.     *)
LEMMA HandlerTidy ==
    ASSUME TypeOK, NEW h \in Handlers, NEW f \in Frame, call' = [call EXCEPT ![h] = f],
           UNCHANGED <<docs, worker>>, Queue \subseteq Queue',
           NEW r \in Rooms, Tidy(r), rows'[r] = rows[r],
           f.room = r /\ f.at = "tx:commit" /\ f.op = "occupy" => Unread(r)',
           call[h].room = r /\ call[h].at \in {"write:queue", "after:queue"} =>
              Queued("index-room", r)',
           call[h].room = r /\ call[h].at = "remove:queue" => Queued("delete-document", r)'
    PROVE  Tidy(r)'
<1>1. \A kind \in {"index-room", "delete-document"} : Queued(kind, r) => Queued(kind, r)'
  BY DEF Queued
<1>2. /\ OneWorker(r)'
      /\ \A w \in Workers : Copied(w, r)' <=> Copied(w, r)
      /\ \A w \in Workers : worker'[w].copy = worker[w].copy
      /\ \A w \in Workers, kind \in {"index-room", "delete-document"} :
            Runs(w, kind, r)' <=> Runs(w, kind, r)
  BY SameWorkers DEF Tidy
<1>3. Occupying(r)' => Occupying(r) \/ Unread(r)'
  <2>1. Occupying(r)' => Occupying(r) \/ (f.room = r /\ f.at = "tx:commit" /\ f.op = "occupy")
    BY NewlyOccupying
  <2> QED
    BY <2>1
<1>4. Coming(r) => Coming(r)'
  BY <1>1, Places DEF Coming
<1>5. Deletes(r) => Deletes(r)'
  BY <1>1, <1>2, Places DEF Deletes, At
<1>6. Unread(r) => Unread(r)'
  BY <1>1, <1>2 DEF Unread
<1> QED
  BY <1>2, <1>3, <1>4, <1>5, <1>6, TidyKept

LEMMA HandlerDeletes ==
    ASSUME TypeOK, NEW h \in Handlers, NEW f \in Frame, call' = [call EXCEPT ![h] = f],
           UNCHANGED worker, NEW r \in Rooms, OnlyGoneIsDeleted(r),
           rows[r] = Gone => rows'[r] = Gone,
           \A j \in Queue' : j \in Queue \/ j.kind # "delete-document" \/ rows'[j.room] = Gone,
           f.at = "remove:queue" => rows'[f.room] = Gone
    PROVE  OnlyGoneIsDeleted(r)'
<1>1. \A w \in Workers : Runs(w, "delete-document", r)' => Runs(w, "delete-document", r)
  BY SameWorkers
<1>2. Queued("delete-document", r)' => Queued("delete-document", r) \/ rows'[r] = Gone
  BY DEF Queued
<1>3. Deletes(r)' => Deletes(r) \/ rows'[r] = Gone
  BY <1>1, <1>2, Places DEF Deletes, At
<1> QED
  BY <1>3, OnlyGoneKept

(* What all steps of handlers share. *)
LEMMA HandlerStep ==
    ASSUME IInv, NEW h \in Handlers, NEW f \in Frame, call' = [call EXCEPT ![h] = f],
           UNCHANGED <<docs, delayed, worker>>, waiting' \in Seq(Job),
           started' \in 0..MaxCalls, faults' \in 0..MaxFaults,
           untidy \subseteq untidy', untidy' \subseteq Rooms,
           rows' \in [Rooms -> Version \cup {Null, Gone}],
           \A g \in Handlers : FrameOK(call'[g]) /\ RoomOK(g)',
           \A r \in Rooms : NeverAhead(r)' /\ OnlyGoneIsDeleted(r)',
           \A r \in Rooms \ untidy' : Tidy(r) => Tidy(r)'
    PROVE  IInv'
<1>1. TypeOK'
  BY Moved DEF IInv, TypeOK
<1>2. \A w \in Workers : WorkerOK(w)'
  BY SameWorkers DEF IInv
<1> QED
  BY <1>1, <1>2 DEF IInv

(* A handler that writes nothing puts a job in the queue, or none. *)
LEMMA QueueStep ==
    ASSUME IInv, NEW h \in Handlers, NEW f \in Frame, call' = [call EXCEPT ![h] = f],
           NEW j \in Job, Add(j), UNCHANGED <<rows, docs, delayed, worker, started>>,
           FrameOK(f), f.at # "remove:queue",
           f = Idle \/ f.room = call[h].room,
           f.at \in {"tx:queue", "tx:commit"} => InTransaction(h) /\ f.op = call[h].op,
           j.room = call[h].room, call[h].at # "idle",
           j.kind = "delete-document" => rows[j.room] = Gone,
           f.at = "tx:commit" => j.kind = "index-room",
           call[h].at \in {"write:queue", "after:queue"} => j.kind = "index-room",
           call[h].at = "remove:queue" => j.kind = "delete-document"
    PROVE  IInv'
<1>1. /\ waiting' \in Seq(Job) /\ faults' \in 0..MaxFaults /\ untidy' \subseteq Rooms
      /\ untidy \subseteq untidy'
      /\ Queue \subseteq Queue' /\ Queue' \subseteq Queue \cup {j}
      /\ j.room \notin untidy' => j \in Queue'
  BY Added DEF IInv
<1>2. TypeOK /\ \A g \in Handlers : FrameOK(call[g]) /\ RoomOK(g)
  BY DEF IInv
<1>3. \A g \in Handlers : FrameOK(call'[g]) /\ RoomOK(g)'
  BY <1>2, GoOnRooms
<1>4. ASSUME NEW r \in Rooms PROVE NeverAhead(r)'
  BY <1>2, SameWorkers, NeverAheadKept DEF IInv
<1>5. ASSUME NEW r \in Rooms PROVE OnlyGoneIsDeleted(r)'
  BY <1>1, <1>2, HandlerDeletes DEF IInv
<1>6. ASSUME NEW r \in Rooms \ untidy', Tidy(r) PROVE Tidy(r)'
  <2>1. call[h].room = r => Queued(j.kind, r)'
    BY <1>1, <1>6 DEF Queued
  <2>2. f.room = r /\ f.at = "tx:commit" => Unread(r)'
    BY <2>1, IdleInFrame DEF Unread
  <2> QED
    BY <1>1, <1>2, <1>6, <2>1, <2>2, HandlerTidy
<1> QED
  BY <1>1, <1>3, <1>4, <1>5, <1>6, HandlerStep DEF IInv, TypeOK

(* The frame a request begins with. *)
LEMMA Began ==
    ASSUME TypeOK, NEW h \in Handlers, NEW r \in Rooms, NEW more \in 0..1,
           NEW op \in {"create", "update", "occupy", "touch", "remove"},
           NEW at \in {"write:queue", "remove:queue", "tx:queue"},
           Begin(h, op, r, at, more)
    PROVE  \E f \in Frame :
              /\ call' = [call EXCEPT ![h] = f] /\ call[h].at = "idle"
              /\ f.at = at /\ f.op = op /\ f.room = r /\ f # Idle
              /\ started' \in 0..MaxCalls
<1> DEFINE f == [at |-> at, op |-> op, room |-> r, more |-> more]
<1>1. f \in Frame /\ f.at = at /\ f.op = op /\ f.room = r /\ f # Idle
  BY IdleInFrame DEF Frame
<1>2. started' \in 0..MaxCalls
  BY SearchIndexAssumption DEF Begin, TypeOK
<1>3. call' = [call EXCEPT ![h] = f] /\ call[h].at = "idle"
  BY DEF Begin, At
<1> QED
  BY <1>1, <1>2, <1>3

(* A write outside transactions, or the deletion of a room, by a request   *)
(* that will queue a job for it.                                           *)
LEMMA TouchStep ==
    ASSUME IInv, NEW h \in Handlers, NEW r0 \in Rooms, Touch(h, r0)
    PROVE  IInv'
<1>1. /\ TypeOK /\ \A g \in Handlers : FrameOK(call[g]) /\ RoomOK(g)
      /\ Committed(r0) /\ rows' = [rows EXCEPT ![r0] = @ + 1]
      /\ UNCHANGED <<docs, waiting, delayed, worker, untidy, faults>>
  BY DEF IInv, Touch, Bump
<1>2. PICK f \in Frame :
              /\ call' = [call EXCEPT ![h] = f] /\ call[h].at = "idle"
              /\ f.at = "write:queue" /\ f.op = "touch" /\ f.room = r0 /\ f # Idle
              /\ started' \in 0..MaxCalls
  BY <1>1, Began DEF Touch
<1>3. /\ rows[r0] \in Version /\ rows'[r0] = rows[r0] + 1 /\ rows'[r0] \in Version
      /\ rows'[r0] >= rows[r0] /\ \A r \in Rooms \ {r0} : rows'[r] = rows[r]
      /\ rows' \in [Rooms -> Version \cup {Null, Gone}]
      /\ Null \notin Version /\ Gone \notin Version
  BY <1>1, Typed DEF Committed, Version
<1>4. FrameOK(f)
  BY <1>2, IdleInFrame DEF FrameOK
<1>5. \A g \in Handlers : FrameOK(call'[g]) /\ RoomOK(g)'
  BY <1>1, <1>2, <1>3, <1>4, BeginRooms DEF Committed, At
<1>6. Queue' = Queue
  BY <1>1 DEF Queue
<1>7. ASSUME NEW r \in Rooms PROVE NeverAhead(r)'
  BY <1>1, <1>3, SameWorkers, NeverAheadKept DEF IInv, Committed
<1>8. ASSUME NEW r \in Rooms PROVE OnlyGoneIsDeleted(r)'
  BY <1>1, <1>2, <1>3, <1>6, HandlerDeletes DEF IInv
<1>9. ASSUME NEW r \in Rooms, Tidy(r) PROVE Tidy(r)'
  <2>1. CASE r # r0
    BY <1>1, <1>2, <1>3, <1>6, <1>9, <2>1, HandlerTidy
  <2>2. CASE r = r0
    <3>1. Coming(r)'
      BY <1>1, <1>2, <2>2, Moved DEF Coming
    <3>2. Occupying(r)' => Occupying(r)
      BY <1>1, <1>2, NewlyOccupying DEF Occupying
    <3>3. Unread(r) => Unread(r)'
      BY <1>1, <1>6, SameWorkers DEF Unread, Queued
    <3> QED
      BY <1>1, <1>3, <1>9, <2>2, <3>1, <3>2, <3>3, SameWorkers DEF Tidy
  <2> QED
    BY <2>1, <2>2
<1> QED
  BY <1>1, <1>2, <1>3, <1>5, <1>7, <1>8, <1>9, HandlerStep DEF IInv, TypeOK

LEMMA RemoveRoom_DeleteStep ==
    ASSUME IInv, NEW h \in Handlers, NEW r0 \in Rooms, RemoveRoom_Delete(h, r0)
    PROVE  IInv'
<1>1. /\ TypeOK /\ \A g \in Handlers : FrameOK(call[g]) /\ RoomOK(g)
      /\ Committed(r0) /\ rows' = [rows EXCEPT ![r0] = Gone]
      /\ \A g \in Handlers : ~(InTransaction(g) /\ call[g].room = r0)
      /\ UNCHANGED <<docs, waiting, delayed, worker, untidy, faults>>
  BY DEF IInv, RemoveRoom_Delete
<1>2. PICK f \in Frame :
              /\ call' = [call EXCEPT ![h] = f] /\ call[h].at = "idle"
              /\ f.at = "remove:queue" /\ f.op = "remove" /\ f.room = r0 /\ f # Idle
              /\ started' \in 0..MaxCalls
  BY <1>1, Began DEF RemoveRoom_Delete
<1>3. /\ rows'[r0] = Gone /\ \A r \in Rooms \ {r0} : rows'[r] = rows[r]
      /\ rows' \in [Rooms -> Version \cup {Null, Gone}]
      /\ Null \notin Version /\ Gone \notin Version
  BY <1>1, Typed DEF Committed, Version
<1>4. FrameOK(f)
  BY <1>2, IdleInFrame DEF FrameOK
<1>5. \A g \in Handlers : FrameOK(call'[g]) /\ RoomOK(g)'
  BY <1>1, <1>2, <1>3, <1>4, BeginRooms DEF Committed, At
<1>6. Queue' = Queue
  BY <1>1 DEF Queue
<1>7. ASSUME NEW r \in Rooms PROVE NeverAhead(r)'
  BY <1>1, <1>3, SameWorkers, NeverAheadKept DEF IInv, Committed
<1>8. ASSUME NEW r \in Rooms PROVE OnlyGoneIsDeleted(r)'
  BY <1>1, <1>2, <1>3, <1>6, HandlerDeletes DEF IInv
<1>9. ASSUME NEW r \in Rooms, Tidy(r) PROVE Tidy(r)'
  <2>1. CASE r # r0
    BY <1>1, <1>2, <1>3, <1>6, <1>9, <2>1, HandlerTidy
  <2>2. CASE r = r0
    <3>1. Deletes(r)'
      BY <1>1, <1>2, <2>2, Moved DEF Deletes, At
    <3>2. Occupying(r)' => Occupying(r)
      BY <1>1, <1>2, NewlyOccupying DEF Occupying
    <3>3. Unread(r) => Unread(r)'
      BY <1>1, <1>6, SameWorkers DEF Unread, Queued
    <3>4. ~Committed(r)'
      BY <1>3, <2>2 DEF Committed
    <3> QED
      BY <1>1, <1>3, <1>9, <2>2, <3>1, <3>2, <3>3, <3>4, SameWorkers DEF Tidy
  <2> QED
    BY <2>1, <2>2
<1> QED
  BY <1>1, <1>2, <1>3, <1>5, <1>7, <1>8, <1>9, HandlerStep DEF IInv, TypeOK

(* A transaction begins; nothing of it is seen yet. *)
LEMMA TransactionStep ==
    ASSUME IInv, NEW h \in Handlers, NEW f \in Frame, call' = [call EXCEPT ![h] = f],
           call[h].at = "idle", FrameOK(f), f.at = "tx:queue", started' \in 0..MaxCalls,
           UNCHANGED <<rows, docs, waiting, delayed, worker, untidy, faults>>,
           \A g \in Handlers : RoomOK(g)'
    PROVE  IInv'
<1>1. TypeOK /\ Queue' = Queue /\ \A g \in Handlers : FrameOK(call[g])
  BY DEF IInv, Queue
<1>2. \A g \in Handlers : FrameOK(call'[g])
  BY <1>1, Moved
<1>3. ASSUME NEW r \in Rooms PROVE NeverAhead(r)'
  BY <1>1, SameWorkers, NeverAheadKept DEF IInv
<1>4. ASSUME NEW r \in Rooms PROVE OnlyGoneIsDeleted(r)'
  BY <1>1, HandlerDeletes DEF IInv
<1>5. ASSUME NEW r \in Rooms, Tidy(r) PROVE Tidy(r)'
  BY <1>1, <1>5, HandlerTidy
<1> QED
  BY <1>1, <1>2, <1>3, <1>4, <1>5, HandlerStep DEF IInv, TypeOK

LEMMA CreateRoom_WriteStep ==
    ASSUME IInv, NEW h \in Handlers, NEW r0 \in Rooms, CreateRoom_Write(h, r0)
    PROVE  IInv'
<1>1. /\ TypeOK /\ \A g \in Handlers : FrameOK(call[g]) /\ RoomOK(g)
      /\ rows[r0] = Null /\ \A g \in Handlers : call[g].room # r0
      /\ UNCHANGED <<rows, docs, waiting, delayed, worker, untidy, faults>>
      /\ Null \notin Version
  BY Typed DEF IInv, CreateRoom_Write
<1>2. PICK f \in Frame :
              /\ call' = [call EXCEPT ![h] = f] /\ call[h].at = "idle"
              /\ f.at = "tx:queue" /\ f.op = "create" /\ f.room = r0 /\ f # Idle
              /\ started' \in 0..MaxCalls
  BY <1>1, Began DEF CreateRoom_Write
<1>3. FrameOK(f)
  BY <1>2, IdleInFrame DEF FrameOK
<1>4. call'[h] = f /\ \A g \in Handlers \ {h} : call'[g] = call[g]
  BY <1>1, <1>2, Moved
<1>5. RoomOK(h)'
  BY <1>1, <1>2, <1>4 DEF RoomOK
<1>6. ASSUME NEW g \in Handlers \ {h}, InTransaction(g)' PROVE RoomOK(g)'
  <2>1. InTransaction(g) /\ call'[g] = call[g] /\ call[g].room # r0
    BY <1>1, <1>4, <1>6 DEF InTransaction
  <2> QED
    BY <1>1, <1>2, <1>4, <2>1 DEF RoomOK, Committed
<1>7. ASSUME NEW g \in Handlers PROVE RoomOK(g)'
  BY <1>5, <1>6 DEF RoomOK
<1> QED
  BY <1>1, <1>2, <1>3, <1>7, TransactionStep

LEMMA UpdateOrOccupyStep ==
    ASSUME IInv, NEW h \in Handlers, NEW r0 \in Rooms, NEW more \in 0..1,
           UpdateRoom_Write(h, r0, more) \/ OccupyInstance_Write(h, r0)
    PROVE  IInv'
<1>1. /\ TypeOK /\ \A g \in Handlers : FrameOK(call[g]) /\ RoomOK(g)
      /\ Committed(r0)
      /\ UNCHANGED <<rows, docs, waiting, delayed, worker, untidy, faults>>
  BY DEF IInv, UpdateRoom_Write, OccupyInstance_Write
<1>2. PICK f \in Frame :
              /\ call' = [call EXCEPT ![h] = f] /\ call[h].at = "idle"
              /\ f.at = "tx:queue" /\ f.op \in {"update", "occupy"} /\ f.room = r0 /\ f # Idle
              /\ started' \in 0..MaxCalls
  <2>1. CASE UpdateRoom_Write(h, r0, more)
    BY <1>1, <2>1, Began DEF UpdateRoom_Write
  <2>2. CASE OccupyInstance_Write(h, r0)
    BY <1>1, <2>2, Began DEF OccupyInstance_Write
  <2> QED
    BY <2>1, <2>2
<1>3. FrameOK(f)
  BY <1>2, IdleInFrame DEF FrameOK
<1>4. \A g \in Handlers : FrameOK(call'[g]) /\ RoomOK(g)'
  BY <1>1, <1>2, <1>3, BeginRooms DEF Committed, At
<1> QED
  BY <1>1, <1>2, <1>3, <1>4, TransactionStep

-----------------------------------------------------------------------------
(* The jobs handlers queue. *)

LEMMA ReturnIsIdle ==
    ASSUME NEW h \in Handlers, Return(h)
    PROVE  call' = [call EXCEPT ![h] = Idle] /\ UNCHANGED started
BY DEF Return

LEMMA QueueAndReturnStep ==
    ASSUME IInv, NEW h \in Handlers, Touch_Queue(h) \/ After_Queue(h) \/ RemoveRoom_Queue(h)
    PROVE  IInv'
<1> DEFINE kind == IF call[h].at = "remove:queue" THEN "delete-document" ELSE "index-room"
           j == NewJob(kind, call[h].room, 5)
<1>1. /\ TypeOK /\ call[h].at \in {"write:queue", "after:queue", "remove:queue"}
      /\ Add(j) /\ call' = [call EXCEPT ![h] = Idle]
      /\ UNCHANGED <<rows, docs, delayed, worker, started>>
  BY DEF IInv, Touch_Queue, After_Queue, RemoveRoom_Queue, At, Return
<1>2. call[h].room \in Rooms /\ kind \in {"index-room", "delete-document"}
  BY <1>1 DEF IInv, FrameOK
<1>3. j \in Job /\ j.kind = kind /\ j.room = call[h].room
  BY <1>2, NewJobIsJob
<1>4. kind = "delete-document" => rows[call[h].room] = Gone
  BY <1>1, <1>2 DEF IInv, OnlyGoneIsDeleted, Deletes, At
<1>5. Idle \in Frame /\ Idle.at = "idle" /\ FrameOK(Idle)
  BY IdleInFrame
<1>6. /\ call[h].at \in {"write:queue", "after:queue"} => kind = "index-room"
      /\ call[h].at = "remove:queue" => kind = "delete-document"
  OBVIOUS
<1> HIDE DEF j, kind
<1> QED
  BY <1>1, <1>3, <1>4, <1>5, <1>6, QueueStep

LEMMA Tx_QueueStep ==
    ASSUME IInv, NEW h \in Handlers, Tx_Queue(h)
    PROVE  IInv'
<1> DEFINE p == IF call[h].op = "create" /\ call[h].more = 1 THEN 7 ELSE 5
           j == NewJob("index-room", call[h].room, p)
           f == IF call[h].more = 1 THEN [call[h] EXCEPT !.more = 0]
                                    ELSE [call[h] EXCEPT !.at = "tx:commit"]
<1>1. /\ TypeOK /\ call[h].at = "tx:queue" /\ Add(j)
      /\ UNCHANGED <<rows, docs, delayed, worker, started>>
  BY DEF IInv, Tx_Queue, At
<1>2. call[h].room \in Rooms /\ p \in {5, 7} /\ FrameOK(call[h]) /\ call[h] \in Frame
  BY <1>1, Typed DEF IInv, FrameOK
<1>3. j \in Job /\ j.kind = "index-room" /\ j.room = call[h].room
  BY <1>2, NewJobIsJob
<1>4. call' = [call EXCEPT ![h] = f]
  BY <1>1, Typed DEF Tx_Queue
<1>5. /\ f \in Frame /\ f.at \in {"tx:queue", "tx:commit"} /\ f.room = call[h].room
      /\ f.op = call[h].op
  BY <1>1, <1>2 DEF Frame
<1> HIDE DEF j, f, p
<1>6. FrameOK(f)
  BY <1>1, <1>2, <1>5, IdleInFrame DEF FrameOK
<1> QED
  BY <1>1, <1>3, <1>4, <1>5, <1>6, QueueStep DEF InTransaction

-----------------------------------------------------------------------------
(* Commits, crashes and the writes that nothing queues. *)

LEMMA Tx_CommitStep ==
    ASSUME IInv, NEW h \in Handlers, Tx_Commit(h)
    PROVE  IInv'
<1> DEFINE f == IF call[h].op = "occupy" THEN Idle ELSE [call[h] EXCEPT !.at = "after:queue"]
<1>0. PICK r0 : r0 = call[h].room
  OBVIOUS
<1>1. /\ TypeOK /\ call[h].at = "tx:commit" /\ \A g \in Handlers : FrameOK(call[g]) /\ RoomOK(g)
      /\ rows' = [rows EXCEPT ![r0] = IF @ = Null THEN 1 ELSE @ + 1]
      /\ UNCHANGED <<docs, waiting, delayed, worker, untidy, faults, started>>
  BY <1>0 DEF IInv, Tx_Commit, At, Return, Goto
<1>2. /\ r0 \in Rooms /\ call[h] \in Frame /\ call[h].op \in {"create", "update", "occupy"}
      /\ FrameOK(call[h]) /\ RoomOK(h)
  BY <1>0, <1>1, Typed DEF FrameOK
<1>3. call' = [call EXCEPT ![h] = f]
  BY <1>1, Typed DEF Tx_Commit, AfterCommit, Return, Goto
<1>4. /\ f \in Frame /\ f.at \in {"idle", "after:queue"} /\ (f = Idle \/ f.room = r0)
      /\ f = Idle \/ (f.at = "after:queue" /\ f.op = call[h].op)
      /\ call[h].op = "occupy" \/ (f.at = "after:queue" /\ f.room = r0)
  BY <1>0, <1>2, IdleInFrame DEF Frame
<1>5. FrameOK(f)
  BY <1>2, <1>4, IdleInFrame DEF FrameOK, Frame
<1> HIDE DEF f
<1>6. /\ rows[r0] \in Version \cup {Null} /\ rows'[r0] \in Version
      /\ rows[r0] # Null => rows'[r0] >= rows[r0]
      /\ rows[r0] = Null <=> call[h].op = "create"
      /\ \A r \in Rooms \ {r0} : rows'[r] = rows[r]
      /\ rows' \in [Rooms -> Version \cup {Null, Gone}]
      /\ Null \notin Version /\ Gone \notin Version /\ Null # Gone
  <2>1. IF call[h].op = "create" THEN rows[r0] = Null ELSE Committed(r0)
    BY <1>0, <1>1, <1>2 DEF RoomOK, InTransaction
  <2>2. rows'[r0] = IF rows[r0] = Null THEN 1 ELSE rows[r0] + 1
    BY <1>1, <1>2, Typed
  <2>3. rows \in [Rooms -> Version \cup {Null, Gone}] /\ Null \notin Version /\ Gone \notin Version
        /\ Null # Gone
    BY <1>1, Typed
  <2>4. rows'[r0] \in Version /\ (rows[r0] # Null => rows'[r0] >= rows[r0])
    BY <2>1, <2>2 DEF Committed, Version
  <2> QED
    BY <1>1, <1>2, <2>1, <2>3, <2>4 DEF Committed
<1>7. /\ call'[h] = f /\ \A g \in Handlers \ {h} : call'[g] = call[g]
  BY <1>1, <1>3, <1>4, Moved
<1>8. ASSUME NEW g \in Handlers PROVE FrameOK(call'[g]) /\ RoomOK(g)'
  <2>1. FrameOK(call'[g])
    BY <1>1, <1>5, <1>7
  <2>2. ASSUME InTransaction(g)' PROVE RoomOK(g)'
    <3>1. g # h /\ InTransaction(g) /\ call'[g] = call[g] /\ call[g].room \in Rooms
      BY <1>1, <1>4, <1>7, <2>2 DEF InTransaction, FrameOK
    <3>2. CASE call[g].op = "create"
      <4>1. /\ rows[call[g].room] = Null
            /\ \A k \in Handlers \ {g} : call[k].room # call[g].room
        BY <3>1, <3>2, <1>1 DEF RoomOK
      <4>2. call[g].room # r0
        BY <1>0, <3>1, <4>1
      <4>3. \A k \in Handlers \ {g} : call'[k].room # call[g].room
        BY <1>1, <1>4, <1>7, <3>1, <4>1, <4>2, IdleInFrame, Typed
      <4> QED
        BY <1>6, <3>1, <3>2, <4>1, <4>2, <4>3 DEF RoomOK
    <3>3. CASE call[g].op # "create"
      <4>1. Committed(call[g].room)
        BY <1>1, <3>1, <3>3 DEF RoomOK
      <4>2. Committed(call[g].room)'
        BY <1>6, <3>1, <4>1 DEF Committed
      <4> QED
        BY <3>1, <3>3, <4>2 DEF RoomOK
    <3> QED
      BY <3>2, <3>3
  <2> QED
    BY <2>1, <2>2 DEF RoomOK
<1>9. Queue' = Queue
  BY <1>1 DEF Queue
<1>10. ASSUME NEW r \in Rooms PROVE NeverAhead(r)'
  <2>1. \/ rows'[r] = rows[r]
        \/ rows'[r] \in Version /\ (rows[r] = Null \/ (Committed(r) /\ rows'[r] >= rows[r]))
    BY <1>6 DEF Committed
  <2> QED
    BY <1>1, <2>1, SameWorkers, NeverAheadKept DEF IInv
<1>11. ASSUME NEW r \in Rooms PROVE OnlyGoneIsDeleted(r)'
  <2>1. rows[r] = Gone => rows'[r] = Gone
    BY <1>6
  <2> QED
    BY <1>1, <1>3, <1>4, <1>9, <2>1, HandlerDeletes DEF IInv
<1>12. ASSUME NEW r \in Rooms, Tidy(r) PROVE Tidy(r)'
  <2>1. CASE r # r0
    BY <1>0, <1>1, <1>3, <1>4, <1>6, <1>9, <1>12, <2>1, HandlerTidy
  <2>2. CASE r = r0
    <3>1. Occupying(r)' => Occupying(r)
      BY <1>1, <1>3, <1>4, NewlyOccupying DEF Occupying
    <3>2. Unread(r)' <=> Unread(r)
      BY <1>1, <1>9, SameWorkers DEF Unread, Queued
    <3>3. Coming(r)' \/ (Occupying(r) /\ Committed(r))
      <4>1. CASE call[h].op = "occupy"
        BY <1>0, <1>1, <1>6, <2>2, <4>1 DEF Occupying, Uncommitted, At, Committed
      <4>2. CASE call[h].op # "occupy"
        BY <1>4, <1>7, <2>2, <4>2 DEF Coming
      <4> QED
        BY <4>1, <4>2
    <3>4. Coming(r)' \/ Unread(r)'
      BY <1>12, <3>2, <3>3 DEF Tidy
    <3>5. ASSUME NEW w \in Workers, Copied(w, r) PROVE Coming(r)'
      <4>1. CASE Occupying(r) /\ Committed(r)
        <5>1. ~\E v \in Workers : Runs(v, "index-room", r) /\ worker[v].copy = Null
          BY <1>12, <3>5 DEF Tidy, OneWorker, Copied, Runs
        <5>2. Queued("index-room", r)
          BY <1>12, <4>1, <5>1 DEF Tidy, Unread
        <5> QED
          BY <1>9, <5>2 DEF Coming, Queued
      <4> QED
        BY <3>3, <4>1
    <3>6. ~(rows'[r] = Gone)
      BY <1>6, <2>2
    <3> QED
      BY <1>1, <1>12, <3>1, <3>2, <3>4, <3>5, <3>6, SameWorkers DEF Tidy
  <2> QED
    BY <2>1, <2>2
<1> QED
  BY <1>1, <1>3, <1>4, <1>6, <1>8, <1>10, <1>11, <1>12, HandlerStep DEF IInv, TypeOK

LEMMA CrashStep ==
    ASSUME IInv, NEW h \in Handlers, Crash(h)
    PROVE  IInv'
<1>1. /\ TypeOK /\ call' = [call EXCEPT ![h] = Idle] /\ call[h].at # "idle"
      /\ UNCHANGED <<rows, docs, waiting, delayed, worker, started>>
      /\ untidy' = IF InTransaction(h) THEN untidy ELSE untidy \cup {call[h].room}
      /\ faults' \in 0..MaxFaults
  BY SearchIndexAssumption DEF IInv, TypeOK, Crash, At, Return, Fault
<1>2. /\ \A g \in Handlers : FrameOK(call[g]) /\ RoomOK(g) /\ call[h].room \in Rooms
      /\ untidy' \subseteq Rooms /\ untidy \subseteq untidy'
  BY <1>1 DEF IInv, FrameOK, TypeOK
<1>3. Queue' = Queue
  BY <1>1 DEF Queue
<1>4. Idle \in Frame /\ Idle.at = "idle" /\ FrameOK(Idle)
  BY IdleInFrame
<1>5. \A g \in Handlers : FrameOK(call'[g]) /\ RoomOK(g)'
  BY <1>1, <1>2, <1>4, GoOnRooms
<1>6. ASSUME NEW r \in Rooms PROVE NeverAhead(r)'
  BY <1>1, SameWorkers, NeverAheadKept DEF IInv
<1>7. ASSUME NEW r \in Rooms PROVE OnlyGoneIsDeleted(r)'
  BY <1>1, <1>3, <1>4, HandlerDeletes DEF IInv
<1>8. ASSUME NEW r \in Rooms \ untidy', Tidy(r) PROVE Tidy(r)'
  <2>1. call[h].room = r => call[h].at \in {"tx:queue", "tx:commit"}
    BY <1>1, <1>8 DEF InTransaction
  <2> QED
    BY <1>1, <1>3, <1>4, <1>8, <2>1, HandlerTidy
<1> QED
  BY <1>1, <1>2, <1>4, <1>5, <1>6, <1>7, <1>8, HandlerStep DEF IInv, TypeOK

LEMMA BulkUpdateStep ==
    ASSUME IInv, NEW r0 \in Rooms, BulkUpdate(r0)
    PROVE  IInv'
<1>1. /\ TypeOK /\ Committed(r0) /\ rows' = [rows EXCEPT ![r0] = @ + 1]
      /\ untidy' = untidy \cup {r0}
      /\ UNCHANGED <<docs, waiting, delayed, worker, call, faults>>
      /\ started' \in 0..MaxCalls
  BY SearchIndexAssumption DEF IInv, TypeOK, BulkUpdate, Bump
<1>2. /\ rows[r0] \in Version /\ rows'[r0] = rows[r0] + 1 /\ rows'[r0] \in Version
      /\ rows'[r0] >= rows[r0] /\ \A r \in Rooms \ {r0} : rows'[r] = rows[r]
      /\ rows' \in [Rooms -> Version \cup {Null, Gone}]
      /\ Null \notin Version /\ Gone \notin Version
  BY <1>1, Typed DEF Committed, Version
<1>3. TypeOK'
  BY <1>1, <1>2 DEF TypeOK
<1>4. ASSUME NEW g \in Handlers PROVE FrameOK(call'[g]) /\ RoomOK(g)'
  <2>1. FrameOK(call[g]) /\ RoomOK(g)
    BY DEF IInv
  <2>2. InTransaction(g) => call[g].room \in Rooms
    BY <2>1 DEF FrameOK, InTransaction
  <2> QED
    BY <1>1, <1>2, <2>1, <2>2 DEF RoomOK, InTransaction, Committed
<1>5. ASSUME NEW w \in Workers PROVE WorkerOK(w)'
  BY <1>1, SameWorkers DEF IInv
<1>6. ASSUME NEW r \in Rooms PROVE NeverAhead(r)'
  BY <1>1, <1>2, SameWorkers, NeverAheadKept DEF IInv, Committed
<1>7. ASSUME NEW r \in Rooms PROVE OnlyGoneIsDeleted(r)'
  <2>1. Deletes(r)' => Deletes(r)
    BY <1>1, SameWorkers DEF Deletes, Queued, Queue, At
  <2> QED
    BY <1>2, <2>1, OnlyGoneKept DEF IInv
<1>8. ASSUME NEW r \in Rooms \ untidy' PROVE Tidy(r)'
  <2>1. Tidy(r) /\ rows'[r] = rows[r]
    BY <1>1, <1>2, <1>8 DEF IInv
  <2>2. /\ Occupying(r)' <=> Occupying(r) 
        /\ Unread(r)' <=> Unread(r)
        /\ Coming(r)' <=> Coming(r)
        /\ Deletes(r)' <=> Deletes(r)
    BY <1>1, SameWorkers DEF Occupying, Uncommitted, At, Unread, Coming, Deletes, Queued, Queue
  <2>3. OneWorker(r)'
    BY <1>1, <2>1, SameWorkers DEF Tidy
  <2> QED
    BY <1>1, <2>1, <2>2, <2>3, SameWorkers, TidyKept
<1> QED
  BY <1>3, <1>4, <1>5, <1>6, <1>7, <1>8 DEF IInv

-----------------------------------------------------------------------------
(* Workers. *)

(* What a worker holds. *)
Hold == [job: Job \cup {Null}, copy: Version \cup {Null}]

LEMMA WorkerMoved ==
    ASSUME TypeOK, NEW w \in Workers, NEW x \in Hold, worker' = [worker EXCEPT ![w] = x]
    PROVE  /\ worker' \in [Workers -> Hold] /\ worker'[w] = x
           /\ \A v \in Workers \ {w} : /\ worker'[v] = worker[v] /\ (Busy(v)' <=> Busy(v))
                                       /\ \A r : Copied(v, r)' <=> Copied(v, r)
                                       /\ \A k, r : Runs(v, k, r)' <=> Runs(v, k, r)
BY Typed DEF Hold, Busy, Copied, Runs

(* What all steps of workers share. *)
LEMMA WorkerStep ==
    ASSUME IInv, NEW w \in Workers, NEW x \in Hold, worker' = [worker EXCEPT ![w] = x],
           UNCHANGED <<rows, call, started>>,
           IF x.job # Null THEN x.copy # Null => x.job.kind = "index-room" ELSE x.copy = Null,
           docs' \in [Rooms -> Version \cup {Null}],
           waiting' \in Seq(Job), delayed' \in Seq(Job), faults' \in 0..MaxFaults,
           untidy \subseteq untidy', untidy' \subseteq Rooms,
           \A r \in Rooms : NeverAhead(r)' /\ OnlyGoneIsDeleted(r)',
           \A r \in Rooms \ untidy' : Tidy(r)'
    PROVE  IInv'
<1>1. worker' \in [Workers -> Hold] /\ worker'[w] = x /\ \A v \in Workers \ {w} : worker'[v] = worker[v]
  BY WorkerMoved DEF IInv
<1>2. TypeOK'
  BY <1>1 DEF IInv, TypeOK, Hold
<1>3. ASSUME NEW v \in Workers PROVE WorkerOK(v)'
  BY <1>1 DEF IInv, WorkerOK, Busy
<1>4. \A g \in Handlers : FrameOK(call'[g]) /\ RoomOK(g)'
  BY DEF IInv, RoomOK, InTransaction, Committed
<1> QED
  BY <1>2, <1>3, <1>4 DEF IInv

(* A step of worker w for other rooms than r. *)
LEMMA WorkerElsewhere ==
    ASSUME TypeOK, NEW w \in Workers, NEW x \in Hold, worker' = [worker EXCEPT ![w] = x],
           UNCHANGED <<rows, call>>, NEW r \in Rooms, docs'[r] = docs[r],
           x.job = Null \/ x.job.room # r, ~Busy(w) \/ worker[w].job.room # r,
           \A j : j.room = r => (j \in Queue' <=> j \in Queue), Tidy(r)
    PROVE  Tidy(r)'
<1>1. /\ worker'[w] = x
      /\ \A v \in Workers \ {w} : /\ worker'[v] = worker[v] /\ (Busy(v)' <=> Busy(v))
                                  /\ (Copied(v, r)' <=> Copied(v, r))
                                  /\ \A k : Runs(v, k, r)' <=> Runs(v, k, r)
  BY WorkerMoved
<1>2. ~Copied(w, r)' /\ ~Copied(w, r)
  BY <1>1 DEF Copied, Busy
<1>3. ASSUME NEW k PROVE ~Runs(w, k, r)' /\ ~Runs(w, k, r)
  BY <1>1 DEF Runs, Busy
<1>4. ASSUME NEW k PROVE Queued(k, r)' <=> Queued(k, r)
  BY DEF Queued
<1>5. OneWorker(r)'
  <2>1. ~(Busy(w)' /\ worker'[w].job.room = r)
    BY <1>1 DEF Busy
  <2> QED
    BY <1>1, <2>1 DEF Tidy, OneWorker
<1>6. Occupying(r)' => Occupying(r)
  BY DEF Occupying, Uncommitted, At
<1>7. Coming(r) => Coming(r)'
  BY <1>4 DEF Coming
<1>8. Unread(r) => Unread(r)'
  BY <1>1, <1>3, <1>4 DEF Unread
<1>9. Deletes(r) => Deletes(r)'
  BY <1>1, <1>3, <1>4 DEF Deletes, At
<1>10. \A v \in Workers : /\ Copied(v, r)' => Copied(v, r) /\ worker'[v].copy = worker[v].copy
                          /\ Copied(v, r) => Copied(v, r)'
  BY <1>1, <1>2
<1> QED
  BY <1>5, <1>6, <1>7, <1>8, <1>9, <1>10, TidyKept

(* Deletions under way come from those there were. *)
LEMMA WorkerDeletes ==
    ASSUME TypeOK, NEW w \in Workers, NEW x \in Hold, worker' = [worker EXCEPT ![w] = x],
           UNCHANGED <<rows, call>>, NEW r \in Rooms, OnlyGoneIsDeleted(r),
           \A j \in Queue' : j.room = r /\ j.kind = "delete-document" => Deletes(r),
           x.job # Null /\ x.job.room = r /\ x.job.kind = "delete-document" => Deletes(r)
    PROVE  OnlyGoneIsDeleted(r)'
<1>1. Queued("delete-document", r)' => Deletes(r)
  BY DEF Queued
<1>2. \A v \in Workers : Runs(v, "delete-document", r)' => Deletes(r)
  <2>1. Runs(w, "delete-document", r)' => Deletes(r)
    BY WorkerMoved DEF Runs, Busy
  <2>2. ASSUME NEW v \in Workers \ {w}, Runs(v, "delete-document", r)' PROVE Deletes(r)
    BY <2>2, WorkerMoved DEF Deletes
  <2> QED
    BY <2>1, <2>2
<1>3. (\E h \in Handlers : call'[h].room = r /\ call'[h].at = "remove:queue") => Deletes(r)
  BY DEF Deletes, At
<1>4. Deletes(r)' => Deletes(r)
  BY <1>1, <1>2, <1>3 DEF Deletes, At
<1> QED
  BY <1>4, OnlyGoneKept

(* A worker takes the first job. *)
LEMMA TakeStep ==
    ASSUME IInv, NEW w \in Workers, Take(w)
    PROVE  IInv'
<1>0. PICK j : j = Head(waiting)
  OBVIOUS
<1> DEFINE x == [job |-> j, copy |-> Null]
<1>1. /\ TypeOK /\ ~Busy(w) /\ waiting # <<>> /\ waiting \in Seq(Job)
      /\ worker' = [worker EXCEPT ![w] = x] /\ waiting' = Tail(waiting)
      /\ untidy' = IF Overlaps(w, j.room) THEN untidy \cup {j.room} ELSE untidy
      /\ UNCHANGED <<rows, docs, delayed, call, started, faults>>
      /\ Null \notin Job
  BY <1>0, Typed DEF IInv, Take
<1>2. /\ j \in Elements(waiting) /\ waiting' \in Seq(Job)
      /\ Elements(waiting) = {j} \cup Elements(waiting')
  BY <1>0, <1>1, ElementsOfTail
<1>3. j \in Job /\ j \in Queue /\ Queue = Queue' \cup {j} /\ j.room \in Rooms
      /\ j.kind \in {"index-room", "delete-document"}
  <2>1. j \in Queue /\ Queue = Queue' \cup {j}
    BY <1>1, <1>2 DEF Queue
  <2>2. j \in Job
    BY <1>1, <2>1, Typed
  <2> QED
    BY <2>1, <2>2 DEF Job
<1>4. x \in Hold /\ x.job = j /\ x.copy = Null
  BY <1>3 DEF Hold
<1> HIDE DEF x
<1>5. /\ worker'[w] = x
      /\ \A v \in Workers \ {w} : /\ worker'[v] = worker[v] /\ (Busy(v)' <=> Busy(v))
                                  /\ \A r : Copied(v, r)' <=> Copied(v, r)
                                  /\ \A k, r : Runs(v, k, r)' <=> Runs(v, k, r)
  BY <1>1, <1>4, WorkerMoved
<1>6. \A r \in Rooms : ~Copied(w, r)' /\ ~Copied(w, r)
  BY <1>1, <1>4, <1>5 DEF Copied
<1>7. ASSUME NEW r \in Rooms PROVE NeverAhead(r)'
  BY <1>1, <1>5, <1>6, NeverAheadKept DEF IInv
<1>8. ASSUME NEW r \in Rooms PROVE OnlyGoneIsDeleted(r)'
  <2>1. \A i \in Queue : i.room = r /\ i.kind = "delete-document" => Deletes(r)
    BY DEF Deletes, Queued
  <2> QED
    BY <1>1, <1>3, <1>4, <2>1, WorkerDeletes DEF IInv
<1>9. ASSUME NEW r \in Rooms \ untidy' PROVE Tidy(r)'
  <2>1. Tidy(r) /\ r \notin untidy
    BY <1>1, <1>9 DEF IInv
  <2>2. CASE j.room # r
    BY <1>1, <1>3, <1>4, <2>1, <2>2, WorkerElsewhere
  <2>3. CASE j.room = r
    <3>1. \A v \in Workers \ {w} : ~(Busy(v) /\ worker[v].job.room = r)
      BY <1>1, <1>9, <2>3 DEF Overlaps
    <3>2. \A v \in Workers : ~Copied(v, r) /\ ~Copied(v, r)'
      BY <1>5, <1>6, <3>1 DEF Copied
    <3>3. OneWorker(r)'
      BY <1>5, <3>1 DEF OneWorker
    <3>4. Runs(w, j.kind, r)' /\ worker'[w].copy = Null /\ ~Runs(w, "index-room", r)
      BY <1>1, <1>3, <1>4, <1>5, <2>3 DEF Runs, Busy
    <3>5. \A k : Queued(k, r) => Queued(k, r)' \/ j.kind = k
      BY <1>3 DEF Queued
    <3>6. Unread(r) => Unread(r)'
      BY <1>5, <3>4, <3>5 DEF Unread
    <3>7. Coming(r) => Coming(r)' \/ Unread(r)'
      BY <1>1, <3>4, <3>5 DEF Coming, Unread
    <3>8. Deletes(r) => Deletes(r)'
      <4>1. CASE Queued("delete-document", r)
        BY <3>4, <3>5, <4>1 DEF Deletes
      <4>2. CASE \E v \in Workers : Runs(v, "delete-document", r)
        BY <1>1, <1>5, <4>2 DEF Deletes, Runs
      <4>3. CASE \E h \in Handlers : call[h].room = r /\ At(h, "remove:queue")
        BY <1>1, <4>3 DEF Deletes, At
      <4> QED
        BY <4>1, <4>2, <4>3 DEF Deletes
    <3>9. Occupying(r)' => Occupying(r)
      BY <1>1 DEF Occupying, Uncommitted, At
    <3> QED
      BY <1>1, <2>1, <3>2, <3>3, <3>6, <3>7, <3>8, <3>9, TidyKept
  <2> QED
    BY <2>2, <2>3
<1>10. untidy' \subseteq Rooms /\ untidy \subseteq untidy'
  BY <1>1, <1>3 DEF TypeOK
<1> QED
  BY <1>1, <1>2, <1>3, <1>4, <1>7, <1>8, <1>9, <1>10, WorkerStep DEF TypeOK

(* A delay is over. *)
LEMMA PromoteStep ==
    ASSUME IInv, Promote
    PROVE  IInv'
<1>1. PICK i \in 1..Len(delayed) :
        /\ waiting' = Place(delayed[i], waiting)
        /\ delayed' = SubSeq(delayed, 1, i - 1) \o SubSeq(delayed, i + 1, Len(delayed))
        /\ UNCHANGED <<rows, docs, worker, call, started, untidy, faults>>
  BY DEF Promote
<1>2. TypeOK /\ waiting \in Seq(Job) /\ delayed \in Seq(Job)
  BY Typed DEF IInv
<1>3. delayed' \in Seq(Job) /\ Elements(delayed) = Elements(delayed') \cup {delayed[i]}
  BY <1>1, <1>2, TakenOut
<1>4. delayed[i] \in Job
  BY <1>2, ElementsIn
<1>5. waiting' \in Seq(Job) /\ Elements(waiting') = Elements(waiting) \cup {delayed[i]}
  BY <1>1, <1>2, <1>4, Placed
<1>6. Queue' = Queue
  BY <1>3, <1>5 DEF Queue
<1>7. TypeOK'
  BY <1>1, <1>2, <1>3, <1>5 DEF TypeOK
<1>8. \A g \in Handlers : FrameOK(call'[g]) /\ RoomOK(g)'
  BY <1>1 DEF IInv, RoomOK, InTransaction, Committed
<1>9. \A w \in Workers : WorkerOK(w)'
  BY <1>1, SameWorkers DEF IInv
<1>10. ASSUME NEW r \in Rooms
       PROVE  /\ Occupying(r)' <=> Occupying(r)
              /\ Unread(r)' <=> Unread(r)
              /\ Coming(r)' <=> Coming(r)
              /\ Deletes(r)' <=> Deletes(r)
  BY <1>1, <1>6, SameWorkers DEF Occupying, Uncommitted, At, Unread, Coming, Deletes, Queued
<1>11. ASSUME NEW r \in Rooms PROVE NeverAhead(r)' /\ OnlyGoneIsDeleted(r)'
  <2>1. NeverAhead(r)'
    BY <1>1, <1>2, SameWorkers, NeverAheadKept DEF IInv
  <2>2. OnlyGoneIsDeleted(r)'
    BY <1>1, <1>10, OnlyGoneKept DEF IInv
  <2> QED
    BY <2>1, <2>2
<1>12. ASSUME NEW r \in Rooms \ untidy' PROVE Tidy(r)'
  <2>1. Tidy(r)
    BY <1>1, <1>12 DEF IInv
  <2>2. OneWorker(r)'
    BY <1>1, <2>1, SameWorkers DEF Tidy
  <2> QED
    BY <1>1, <1>10, <2>1, <2>2, SameWorkers, TidyKept
<1> QED
  BY <1>7, <1>8, <1>9, <1>11, <1>12 DEF IInv

(* A worker is through with its job: it wrote, or the job is queued again, *)
(* or both, or the job is lost.                                            *)
LEMMA FreedStep ==
    ASSUME IInv, NEW w \in Workers, NEW j \in Job, worker[w].job = j,
           worker' = [worker EXCEPT ![w] = Free], UNCHANGED <<rows, call, started>>,
           \/ docs' = docs
           \/ j.kind = "delete-document" /\ docs' = [docs EXCEPT ![j.room] = Null]
           \/ worker[w].copy # Null /\ docs' = [docs EXCEPT ![j.room] = worker[w].copy],
           waiting' \in Seq(Job), delayed' \in Seq(Job), faults' \in 0..MaxFaults,
           untidy' \subseteq Rooms, untidy \subseteq untidy',
           Queue \subseteq Queue',
           \A i \in Queue' : i \in Queue \/ (i.kind = j.kind /\ i.room = j.room),
           \/ j.room \in untidy'
           \/ Queued(j.kind, j.room)'
           \/ j.kind = "delete-document" /\ docs'[j.room] = Null
           \/ worker[w].copy # Null /\ docs'[j.room] = worker[w].copy
    PROVE  IInv'
<1> USE DEF IInv
<1>1. PICK r0 \in Rooms : r0 = j.room
  BY DEF Job
<1>2. /\ TypeOK /\ Null \notin Job \cup Version /\ Gone \notin Version /\ Null # Gone
      /\ worker[w].copy \in Version \cup {Null}
      /\ docs \in [Rooms -> Version \cup {Null}]
      /\ j.kind \in {"index-room", "delete-document"}
  BY Typed DEF Job
<1>3. Busy(w) /\ Runs(w, j.kind, r0) /\ \A k : Runs(w, k, r0) => k = j.kind
  BY <1>1, <1>2 DEF Runs, Busy
<1>4. worker[w].copy # Null => j.kind = "index-room" /\ Copied(w, r0)
  BY <1>1, <1>3 DEF WorkerOK, Copied
<1>5. Free \in Hold /\ Free.job = Null /\ Free.copy = Null
  BY FreeIsFree DEF Hold
<1>6. /\ worker'[w] = Free
      /\ \A v \in Workers \ {w} : /\ worker'[v] = worker[v] /\ (Busy(v)' <=> Busy(v))
                                  /\ \A r : Copied(v, r)' <=> Copied(v, r)
                                  /\ \A k, r : Runs(v, k, r)' <=> Runs(v, k, r)
  BY <1>2, <1>5, WorkerMoved
<1>7. \A r \in Rooms : ~Copied(w, r)'
  BY <1>5, <1>6 DEF Copied
<1>8. /\ docs' \in [Rooms -> Version \cup {Null}]
      /\ \A r \in Rooms \ {r0} : docs'[r] = docs[r]
      /\ docs'[r0] \in {docs[r0], Null} \/ (worker[w].copy # Null /\ docs'[r0] = worker[w].copy)
      /\ j.kind = "delete-document" => docs'[r0] \in {docs[r0], Null}
      /\ j.kind = "index-room" =>
            docs'[r0] = docs[r0] \/ (worker[w].copy # Null /\ docs'[r0] = worker[w].copy)
  BY <1>1, <1>2, <1>4
<1>9. ASSUME NEW r \in Rooms PROVE NeverAhead(r)'
  <2>1. \/ docs'[r] = docs[r] \/ docs'[r] = Null
        \/ \E v \in Workers : Copied(v, r) /\ docs'[r] = worker[v].copy
    BY <1>4, <1>8
  <2>2. \A v \in Workers : Copied(v, r)' => Copied(v, r) /\ worker'[v].copy = worker[v].copy
    BY <1>6, <1>7
  <2> QED
    BY <1>2, <2>1, <2>2, NeverAheadKept
<1>10. ASSUME NEW r \in Rooms PROVE OnlyGoneIsDeleted(r)'
  <2>1. \A i \in Queue' : i.room = r /\ i.kind = "delete-document" => Deletes(r)
    BY <1>1, <1>3 DEF Deletes, Queued
  <2> QED
    BY <1>2, <1>5, <2>1, WorkerDeletes
<1>11. ASSUME NEW r \in Rooms \ untidy' PROVE Tidy(r)'
  <2>1. Tidy(r) /\ r \notin untidy
    BY <1>11
  <2>2. CASE r # r0
    <3>1. \A i : i.room = r => (i \in Queue' <=> i \in Queue)
      BY <1>1, <2>2
    <3>2. worker[w].job.room # r /\ docs'[r] = docs[r]
      BY <1>1, <1>8, <2>2
    <3> QED
      BY <1>2, <1>5, <2>1, <3>1, <3>2, WorkerElsewhere
  <2>3. CASE r = r0
    <3>1. \A v \in Workers \ {w} : ~(Busy(v) /\ worker[v].job.room = r0)
      BY <1>1, <1>3, <2>1, <2>3 DEF Tidy, OneWorker
    <3>2. \A v \in Workers : ~(Busy(v)' /\ worker'[v].job.room = r0)
      BY <1>5, <1>6, <3>1 DEF Busy
    <3>3. OneWorker(r0)' /\ \A v \in Workers : ~Copied(v, r0)'
      BY <3>2 DEF OneWorker, Copied
    <3>4. \A k : Queued(k, r0) => Queued(k, r0)'
      BY DEF Queued
    <3>5. \/ Queued(j.kind, r0)'
          \/ j.kind = "delete-document" /\ docs'[r0] = Null
          \/ worker[w].copy # Null /\ docs'[r0] = worker[w].copy
      BY <1>1, <1>11, <2>3
    <3>6. Occupying(r0)' => Unread(r0)'
      <4>1. Occupying(r0)' => Occupying(r0)
        BY DEF Occupying, Uncommitted, At
      <4>2. ASSUME Unread(r0) PROVE Unread(r0)'
        <5>1. CASE Queued("index-room", r0)
          BY <3>4, <5>1 DEF Unread
        <5>2. CASE \E v \in Workers : Runs(v, "index-room", r0) /\ worker[v].copy = Null
          <6>1. Runs(w, "index-room", r0) /\ worker[w].copy = Null
            BY <3>1, <5>2 DEF Runs
          <6>2. Queued("index-room", r0)'
            BY <1>3, <3>5, <6>1
          <6> QED
            BY <6>2 DEF Unread
        <5> QED
          BY <4>2, <5>1, <5>2 DEF Unread
      <4> QED
        BY <2>1, <2>3, <4>1, <4>2 DEF Tidy
    <3>7. ASSUME Committed(r0)', docs'[r0] # rows'[r0] PROVE Coming(r0)'
      <4>1. Committed(r0) /\ j.kind = "index-room"
        BY <1>2, <1>3, <3>7 DEF Committed, OnlyGoneIsDeleted, Deletes
      <4>2. CASE Queued("index-room", r0)'
        BY <4>2 DEF Coming
      <4>3. CASE worker[w].copy # Null /\ docs'[r0] = worker[w].copy
        <5>1. Coming(r0)
          BY <1>4, <2>1, <2>3, <3>7, <4>1, <4>3 DEF Tidy
        <5> QED
          BY <3>4, <5>1 DEF Coming
      <4> QED
        BY <3>5, <4>1, <4>2, <4>3
    <3>8. ASSUME rows'[r0] = Gone, docs'[r0] # Null PROVE Deletes(r0)'
      <4>1. CASE j.kind = "delete-document"
        BY <1>4, <3>5, <3>8, <4>1 DEF Deletes
      <4>2. CASE j.kind = "index-room"
        <5>1. docs[r0] # Null \/ Copied(w, r0)
          BY <1>4, <1>8, <3>8, <4>2
        <5>2. Deletes(r0)
          BY <2>1, <2>3, <3>8, <5>1 DEF Tidy
        <5>3. ~\E v \in Workers : Runs(v, "delete-document", r0)
          BY <1>3, <3>1, <4>2 DEF Runs
        <5> QED
          BY <3>4, <5>2, <5>3 DEF Deletes, At
      <4> QED
        BY <1>2, <4>1, <4>2
    <3> QED
      BY <2>3, <3>3, <3>6, <3>7, <3>8 DEF Tidy
  <2> QED
    BY <2>2, <2>3
<1>12. IF Free.job # Null THEN Free.copy # Null => Free.job.kind = "index-room" ELSE Free.copy = Null
  BY <1>5
<1> QED
  BY <1>5, <1>8, <1>9, <1>10, <1>11, <1>12, WorkerStep

(* The job of a busy worker. *)
LEMMA BusyJob ==
    ASSUME TypeOK, NEW w \in Workers, Busy(w)
    PROVE  \E j \in Job : worker[w].job = j
BY Typed DEF Busy

LEMMA WriteOrDeleteStep ==
    ASSUME IInv, NEW w \in Workers, IndexRoom_Write(w) \/ DeleteDocument(w)
    PROVE  IInv'
<1>1. TypeOK /\ Busy(w) /\ docs \in [Rooms -> Version \cup {Null}]
  BY Typed DEF IInv, IndexRoom_Write, DeleteDocument
<1>2. PICK j \in Job : worker[w].job = j
  BY <1>1, BusyJob
<1>3. j.room \in Rooms
  BY DEF Job
<1>4. /\ worker' = [worker EXCEPT ![w] = Free]
      /\ UNCHANGED <<rows, waiting, delayed, call, started, untidy, faults>>
      /\ \/ j.kind = "delete-document" /\ docs' = [docs EXCEPT ![j.room] = Null]
         \/ worker[w].copy # Null /\ docs' = [docs EXCEPT ![j.room] = worker[w].copy]
  BY <1>2 DEF IndexRoom_Write, DeleteDocument
<1>5. /\ j.kind = "delete-document" /\ docs' = [docs EXCEPT ![j.room] = Null]
            => docs'[j.room] = Null
      /\ docs' = [docs EXCEPT ![j.room] = worker[w].copy] => docs'[j.room] = worker[w].copy
  BY <1>1, <1>3
<1>6. Queue' = Queue
  BY <1>4 DEF Queue
<1>7. TypeOK => /\ waiting' \in Seq(Job) /\ delayed' \in Seq(Job) /\ faults' \in 0..MaxFaults
                /\ untidy' \subseteq Rooms
  BY <1>4 DEF TypeOK
<1> QED
  BY <1>1, <1>2, <1>4, <1>5, <1>6, <1>7, FreedStep

LEMMA FailStep ==
    ASSUME IInv, NEW w \in Workers, Fail(w)
    PROVE  IInv'
<1>1. TypeOK /\ Busy(w) /\ delayed \in Seq(Job)
  BY Typed DEF IInv, Fail
<1>2. PICK j \in Job : worker[w].job = j
  BY <1>1, BusyJob
<1>3. /\ worker' = [worker EXCEPT ![w] = Free]
      /\ UNCHANGED <<rows, waiting, call, started>> /\ Fault("fail")
      /\ delayed' = delayed \o Retried(j)
      /\ untidy' = IF j.left = 1 THEN untidy \cup {j.room} ELSE untidy
      /\ \/ docs' = docs
         \/ j.kind = "delete-document" /\ docs' = [docs EXCEPT ![j.room] = Null]
         \/ worker[w].copy # Null /\ docs' = [docs EXCEPT ![j.room] = worker[w].copy]
  BY <1>2 DEF Fail
<1>4. j.room \in Rooms /\ j.left \in 1..Attempts
  BY DEF Job
<1>5. /\ waiting' \in Seq(Job) /\ faults' \in 0..MaxFaults
      /\ untidy' \subseteq Rooms /\ untidy \subseteq untidy'
  BY <1>1, <1>3, <1>4, SearchIndexAssumption DEF TypeOK, Fault
<1>6. CASE j.left > 1
  <2> DEFINE i == [j EXCEPT !.left = @ - 1]
  <2>1. i \in Job /\ i.kind = j.kind /\ i.room = j.room
    BY <1>4, <1>6, SearchIndexAssumption DEF Job
  <2>2. delayed' = delayed \o <<i>>
    BY <1>3, <1>6 DEF Retried
  <2> HIDE DEF i
  <2>3. <<i>> \in Seq(Job) /\ Elements(<<i>>) = {i}
    BY <2>1, ElementsOfOne
  <2>4. delayed' \in Seq(Job) /\ Elements(delayed') = Elements(delayed) \cup {i}
    BY <1>1, <2>2, <2>3, ElementsOfBoth
  <2>5. Queue' = Queue \cup {i}
    BY <1>3, <2>4 DEF Queue
  <2>6. Queued(j.kind, j.room)'
    BY <2>1, <2>5 DEF Queued
  <2> QED
    BY <1>2, <1>3, <1>5, <2>1, <2>4, <2>5, <2>6, FreedStep
<1>7. CASE ~(j.left > 1)
  <2>1. j.left = 1 /\ delayed' = delayed \o <<>>
    <3>1. j.left = 1
      BY <1>4, <1>7, SearchIndexAssumption
    <3>2. Retried(j) = <<>>
      BY <3>1 DEF Retried
    <3> QED
      BY <1>3, <3>1, <3>2
  <2>2. delayed' = delayed
    BY <1>1, <2>1
  <2>3. Queue' = Queue /\ j.room \in untidy' /\ delayed' \in Seq(Job)
    BY <1>1, <1>3, <2>1, <2>2 DEF Queue
  <2> QED
    BY <1>2, <1>3, <1>5, <2>3, FreedStep
<1> QED
  BY <1>6, <1>7

LEMMA StallStep ==
    ASSUME IInv, NEW w \in Workers, Stall(w)
    PROVE  IInv'
<1>1. TypeOK /\ Busy(w) /\ waiting \in Seq(Job)
  BY Typed DEF IInv, Stall
<1>2. PICK j \in Job : worker[w].job = j
  BY <1>1, BusyJob
<1>3. /\ worker' = [worker EXCEPT ![w] = Free] /\ Fault("stall")
      /\ UNCHANGED <<rows, docs, delayed, call, started>>
      /\ IF j.stalled
         THEN untidy' = untidy \cup {j.room} /\ UNCHANGED waiting
         ELSE waiting' = <<[j EXCEPT !.stalled = TRUE]>> \o waiting /\ UNCHANGED untidy
  BY <1>2 DEF Stall
<1>4. j.room \in Rooms
  BY DEF Job
<1>5. /\ delayed' \in Seq(Job) /\ faults' \in 0..MaxFaults
      /\ untidy' \subseteq Rooms /\ untidy \subseteq untidy'
  BY <1>1, <1>3, <1>4, SearchIndexAssumption DEF TypeOK, Fault
<1>6. CASE j.stalled
  <2>1. Queue' = Queue /\ j.room \in untidy' /\ waiting' \in Seq(Job)
    BY <1>1, <1>3, <1>6 DEF Queue
  <2> QED
    BY <1>2, <1>3, <1>5, <2>1, FreedStep
<1>7. CASE ~j.stalled
  <2> DEFINE i == [j EXCEPT !.stalled = TRUE]
  <2>1. i \in Job /\ i.kind = j.kind /\ i.room = j.room
    BY DEF Job
  <2>2. waiting' = <<i>> \o waiting /\ UNCHANGED untidy
    BY <1>3, <1>7
  <2> HIDE DEF i
  <2>3. <<i>> \in Seq(Job) /\ Elements(<<i>>) = {i}
    BY <2>1, ElementsOfOne
  <2>4. waiting' \in Seq(Job) /\ Elements(waiting') = {i} \cup Elements(waiting)
    BY <1>1, <2>2, <2>3, ElementsOfBoth
  <2>5. Queue' = Queue \cup {i}
    BY <1>3, <2>4 DEF Queue
  <2>6. Queued(j.kind, j.room)'
    BY <2>1, <2>5 DEF Queued
  <2> QED
    BY <1>2, <1>3, <1>5, <2>1, <2>4, <2>5, <2>6, FreedStep
<1> QED
  BY <1>6, <1>7

(* A worker reads the room, or finds none. *)
LEMMA IndexRoom_FetchStep ==
    ASSUME IInv, NEW w \in Workers, IndexRoom_Fetch(w)
    PROVE  IInv'
<1>1. TypeOK /\ Busy(w)
  BY DEF IInv, IndexRoom_Fetch
<1>2. PICK j \in Job : worker[w].job = j
  BY <1>1, BusyJob
<1>3. PICK r0 \in Rooms : r0 = j.room
  BY DEF Job
<1>4. PICK x : x = IF Committed(r0) THEN [job |-> j, copy |-> rows[r0]] ELSE Free
  OBVIOUS
<1>5. /\ j.kind = "index-room" /\ worker[w].copy = Null
      /\ untidy' = IF \E h \in Uncommitted(r0) : call[h].op = "occupy"
                   THEN untidy \cup {r0} ELSE untidy
      /\ UNCHANGED <<rows, docs, waiting, delayed, call, started, faults>>
  BY <1>2, <1>3 DEF IndexRoom_Fetch
<1>6. /\ Null \notin Job \cup Version /\ Gone \notin Version /\ Null # Gone
      /\ worker[w] \in Hold /\ worker \in [Workers -> Hold]
      /\ rows[r0] \in Version \cup {Null, Gone}
      /\ docs \in [Rooms -> Version \cup {Null}]
      /\ waiting \in Seq(Job) /\ delayed \in Seq(Job)
  BY <1>1, Typed DEF Hold
<1>7. worker' = [worker EXCEPT ![w] = x]
  <2>1. Committed(r0) => Readable(r0) = rows[r0] /\ rows[r0] # Null
    BY <1>6 DEF Readable, Shown, Committed
  <2>2. ~Committed(r0) => Readable(r0) = Null
    BY DEF Readable, Shown
  <2>3. [worker[w] EXCEPT !.copy = rows[r0]] = [job |-> j, copy |-> rows[r0]]
    BY <1>2, <1>6 DEF Hold
  <2>4. worker' = [worker EXCEPT ![w] = IF Readable(r0) = Null THEN Free
                                        ELSE [worker[w] EXCEPT !.copy = Readable(r0)]]
    BY <1>2, <1>3, <1>6 DEF IndexRoom_Fetch
  <2>5. x = IF Readable(r0) = Null THEN Free ELSE [worker[w] EXCEPT !.copy = Readable(r0)]
    BY <1>4, <2>1, <2>2, <2>3
  <2> QED
    BY <2>4, <2>5
<1>8. /\ x \in Hold
      /\ Committed(r0) => x.job = j /\ x.copy = rows[r0] /\ x.copy # Null
      /\ ~Committed(r0) => x.job = Null /\ x.copy = Null
  BY <1>4, <1>6, FreeIsFree DEF Hold, Committed
<1>9. /\ worker'[w] = x
      /\ \A v \in Workers \ {w} : /\ worker'[v] = worker[v] /\ (Busy(v)' <=> Busy(v))
                                  /\ \A r : Copied(v, r)' <=> Copied(v, r)
                                  /\ \A k, r : Runs(v, k, r)' <=> Runs(v, k, r)
  BY <1>1, <1>7, <1>8, WorkerMoved
<1>10. ASSUME NEW r \in Rooms, Copied(w, r)'
       PROVE  r = r0 /\ Committed(r0) /\ worker'[w].copy = rows[r0]
  BY <1>3, <1>8, <1>9, <1>10 DEF Copied, Busy
<1>11. ASSUME NEW r \in Rooms PROVE NeverAhead(r)'
  <2>1. \A v \in Workers : Copied(v, r)' =>
              \/ Copied(v, r) /\ worker'[v].copy = worker[v].copy
              \/ Committed(r)' /\ worker'[v].copy = rows'[r]
    BY <1>5, <1>9, <1>10 DEF Committed
  <2> QED
    BY <1>1, <1>5, <2>1, NeverAheadKept DEF IInv
<1>12. Queue' = Queue
  BY <1>5 DEF Queue
<1>13. ASSUME NEW r \in Rooms PROVE OnlyGoneIsDeleted(r)'
  <2>1. \A i \in Queue' : i.room = r /\ i.kind = "delete-document" => Deletes(r)
    BY <1>12 DEF Deletes, Queued
  <2> QED
    BY <1>1, <1>5, <1>7, <1>8, <2>1, WorkerDeletes DEF IInv
<1>14. ASSUME NEW r \in Rooms \ untidy' PROVE Tidy(r)'
  <2>1. Tidy(r) /\ r \notin untidy
    BY <1>5, <1>14 DEF IInv
  <2>2. CASE r # r0
    <3>1. (x.job = Null \/ x.job.room # r) /\ worker[w].job.room # r
      BY <1>2, <1>3, <1>8, <2>2
    <3> QED
      BY <1>1, <1>5, <1>7, <1>8, <1>12, <2>1, <3>1, WorkerElsewhere
  <2>3. CASE r = r0
    <3>1. \A v \in Workers \ {w} : ~(Busy(v) /\ worker[v].job.room = r0)
      BY <1>1, <1>2, <1>3, <2>1, <2>3 DEF Tidy, OneWorker
    <3>2. \A v \in Workers \ {w} : ~(Busy(v)' /\ worker'[v].job.room = r0)
      BY <1>9, <3>1
    <3>3. OneWorker(r0)' /\ \A v \in Workers \ {w} : ~Copied(v, r0)'
      BY <3>2 DEF OneWorker, Copied
    <3>4. ~Occupying(r0)'
      BY <1>5, <1>14, <2>3 DEF Occupying, Uncommitted, At
    <3>5. ASSUME Copied(w, r0)'
          PROVE  /\ worker'[w].copy = rows'[r0] /\ Committed(r0)'
                 /\ docs'[r0] # Null => docs'[r0] <= worker'[w].copy
      BY <1>5, <1>10, <3>5 DEF IInv, NeverAhead, Committed
    <3>6. Committed(r0)' => Copied(w, r0)'
      BY <1>3, <1>5, <1>6, <1>8, <1>9 DEF Committed, Copied, Busy
    <3>7. ASSUME rows'[r0] = Gone, docs'[r0] # Null PROVE Deletes(r0)'
      <4>1. Deletes(r0)
        BY <1>5, <2>1, <2>3, <3>7 DEF Tidy
      <4>2. ~\E v \in Workers : Runs(v, "delete-document", r0)
        BY <1>2, <1>5, <3>1 DEF Runs
      <4> QED
        BY <1>5, <1>12, <4>1, <4>2 DEF Deletes, Queued, At
    <3>8. rows'[r0] = Gone => \A v \in Workers : ~Copied(v, r0)'
      BY <1>5, <1>6, <1>10, <3>3 DEF Committed
    <3> QED
      BY <2>3, <3>3, <3>4, <3>5, <3>6, <3>7, <3>8 DEF Tidy
  <2> QED
    BY <2>2, <2>3
<1>15. IF x.job # Null THEN x.copy # Null => x.job.kind = "index-room" ELSE x.copy = Null
  BY <1>5, <1>6, <1>8
<1>16. untidy' \subseteq Rooms /\ untidy \subseteq untidy'
  BY <1>1, <1>5 DEF TypeOK
<1> QED
  BY <1>1, <1>5, <1>6, <1>7, <1>8, <1>11, <1>13, <1>14, <1>15, <1>16, WorkerStep DEF TypeOK

-----------------------------------------------------------------------------
(* The invariant. *)

LEMMA InitIInv == Init => IInv
<1> SUFFICES ASSUME Init PROVE IInv
  OBVIOUS
<1>1. /\ Null \notin Version \cup Rooms \cup Job /\ Gone \notin Version \cup Job /\ Null # Gone
      /\ 1 \in Version
  BY SearchIndexAssumption DEF Version
<1>2. /\ rows \in [Rooms -> {Null, 1}] /\ docs = rows /\ waiting = <<>> /\ delayed = <<>>
      /\ worker = [w \in Workers |-> Free] /\ call = [h \in Handlers |-> Idle]
      /\ started = 0 /\ faults = 0 /\ untidy = {}
  BY DEF Init
<1>3. TypeOK
  BY <1>1, <1>2, FreeIsFree, IdleInFrame, SearchIndexAssumption DEF TypeOK
<1>4. ASSUME NEW h \in Handlers PROVE FrameOK(call[h]) /\ RoomOK(h) /\ call[h] = Idle
  BY <1>2, IdleInFrame DEF RoomOK, InTransaction
<1>5. ASSUME NEW w \in Workers PROVE WorkerOK(w) /\ ~Busy(w)
  BY <1>2, FreeIsFree DEF WorkerOK, Busy
<1>6. Queue = {}
  BY <1>2, EmptyQueue DEF Queue
<1>7. ASSUME NEW r \in Rooms
      PROVE  /\ ~Deletes(r) /\ ~Occupying(r) /\ OneWorker(r)
             /\ \A w \in Workers : ~Copied(w, r)
  <2>1. ~Deletes(r)
    BY <1>4, <1>5, <1>6, IdleInFrame DEF Deletes, Queued, Runs, At
  <2>2. ~Occupying(r)
    BY <1>4, IdleInFrame DEF Occupying, Uncommitted, At
  <2> QED
    BY <1>5, <2>1, <2>2 DEF OneWorker, Copied
<1>8. ASSUME NEW r \in Rooms PROVE NeverAhead(r) /\ OnlyGoneIsDeleted(r) /\ Tidy(r)
  <2>1. rows[r] \in {Null, 1} /\ docs[r] = rows[r]
    BY <1>2
  <2> QED
    BY <1>1, <1>7, <2>1 DEF NeverAhead, OnlyGoneIsDeleted, Tidy, Committed
<1> QED
  BY <1>3, <1>4, <1>5, <1>8 DEF IInv

LEMMA StutterIInv ==
    ASSUME IInv, UNCHANGED vars
    PROVE  IInv'
BY DEF IInv, vars, TypeOK, FrameOK, RoomOK, InTransaction, WorkerOK, Busy, NeverAhead, Committed,
       Copied, OnlyGoneIsDeleted, Deletes, Queued, Queue, Runs, At, Tidy, OneWorker, Occupying,
       Uncommitted, Unread, Coming

LEMMA NextIInv ==
    ASSUME IInv, [Next]_vars
    PROVE  IInv'
<1>1. CASE UNCHANGED vars
  BY <1>1, StutterIInv
<1>2. ASSUME NEW h \in Handlers, Request(h) PROVE IInv'
  BY <1>2, TouchStep, CreateRoom_WriteStep, UpdateOrOccupyStep, RemoveRoom_DeleteStep DEF Request
<1>3. ASSUME NEW h \in Handlers, Advance(h) PROVE IInv'
  BY <1>3, QueueAndReturnStep, Tx_QueueStep, Tx_CommitStep DEF Advance
<1>4. ASSUME NEW h \in Handlers, Crash(h) PROVE IInv'
  BY <1>4, CrashStep
<1>5. ASSUME NEW r \in Rooms, BulkUpdate(r) PROVE IInv'
  BY <1>5, BulkUpdateStep
<1>6. ASSUME NEW w \in Workers, Take(w) \/ Work(w) \/ Stall(w) PROVE IInv'
  BY <1>6, TakeStep, IndexRoom_FetchStep, WriteOrDeleteStep, FailStep, StallStep DEF Work
<1>7. CASE Promote
  BY <1>7, PromoteStep
<1> QED
  BY <1>1, <1>2, <1>3, <1>4, <1>5, <1>6, <1>7 DEF Next

(* Whatever the requests, failures and orders: what is older than the row  *)
(* of a room has a job behind it, as long as none was lost.                *)
THEOREM Invariant == Spec => []IInv
BY InitIInv, NextIInv, PTL DEF Spec

(* Rows, documents, jobs, copies and frames keep their shapes.             *)
THEOREM TypeCorrect == Spec => []TypeOK
<1>1. IInv => TypeOK
  BY DEF IInv
<1> QED
  BY <1>1, Invariant, PTL

(* When the jobs of a room are done, its document is that of the row.      *)
THEOREM SettledDocuments == Spec => []SettledIndexAgrees
<1>1. ASSUME IInv PROVE SettledIndexAgrees
  <2> SUFFICES ASSUME NEW r \in Rooms \ untidy, ~Pending(r) PROVE docs[r] = Shown(r)
    BY DEF SettledIndexAgrees
  <2>1. Tidy(r) /\ NeverAhead(r) /\ TypeOK
    BY <1>1 DEF IInv
  <2>2. ~\E j \in Queue : j.room = r
    BY DEF Pending, Queue, Elements
  <2>3. \A w \in Workers : ~(Busy(w) /\ worker[w].job.room = r)
    BY DEF Pending
  <2>4. \A h \in Handlers : call[h].room # r
    BY DEF Pending
  <2>5. ~Coming(r) /\ ~Unread(r) /\ ~Deletes(r) /\ \A w \in Workers : ~Copied(w, r)
    BY <2>2, <2>3, <2>4 DEF Coming, Unread, Deletes, Copied, Queued, Runs
  <2>6. rows[r] \in Version \cup {Null, Gone}
    BY <2>1, Typed
  <2> QED
    BY <2>1, <2>5, <2>6 DEF Tidy, NeverAhead, Shown, Committed
<1> QED
  BY <1>1, Invariant, PTL

(* What is written to a document was committed, also where jobs overlap or *)
(* are lost; where none do, a document only moves to a newer version, or   *)
(* goes with its room.                                                     *)
THEOREM DocumentsMoveForward == Spec => IndexNeverGoesBack
<1> DEFINE Forward == \A r \in Rooms : docs'[r] # docs[r] =>
                          /\ docs'[r] # Null => \/ rows[r] = Gone
                                                \/ Committed(r) /\ docs'[r] <= rows[r]
                          /\ r \notin untidy' => \/ docs'[r] = Null /\ rows[r] = Gone
                                                 \/ docs[r] = Null
                                                 \/ docs[r] < docs'[r]
<1>1. ASSUME IInv, [Next]_vars PROVE [Forward]_vars
  <2>1. CASE UNCHANGED docs
    BY <2>1
  <2>2. ASSUME NEW w \in Workers, NEW r \in Rooms, docs'[r] # docs[r],
               TypeOK, NEW j \in Job, worker[w].job = j, untidy \subseteq untidy',
               \/ j.kind = "delete-document" /\ docs' = [docs EXCEPT ![j.room] = Null]
               \/ worker[w].copy # Null /\ docs' = [docs EXCEPT ![j.room] = worker[w].copy]
        PROVE  /\ docs'[r] # Null => rows[r] = Gone \/ (Committed(r) /\ docs'[r] <= rows[r])
               /\ r \notin untidy' => \/ docs'[r] = Null /\ rows[r] = Gone
                                      \/ docs[r] = Null
                                      \/ docs[r] < docs'[r]
    <3>1. /\ docs \in [Rooms -> Version \cup {Null}] /\ worker[w].copy \in Version \cup {Null}
          /\ rows[r] \in Version \cup {Null, Gone} /\ Null \notin Job
      BY <2>2, Typed
    <3>2. r = j.room
      BY <2>2, <3>1
    <3>3. CASE j.kind = "delete-document" /\ docs' = [docs EXCEPT ![j.room] = Null]
      <4>1. docs'[r] = Null
        BY <3>1, <3>2, <3>3
      <4>2. Deletes(r)
        BY <2>2, <3>1, <3>2, <3>3 DEF Deletes, Runs, Busy
      <4> QED
        BY <1>1, <4>1, <4>2 DEF IInv, OnlyGoneIsDeleted
    <3>4. CASE worker[w].copy # Null /\ docs' = [docs EXCEPT ![j.room] = worker[w].copy]
      <4>1. docs'[r] = worker[w].copy /\ Copied(w, r)
        BY <2>2, <3>1, <3>2, <3>4 DEF Copied, Busy
      <4>2. r \notin untidy' /\ docs[r] # Null => docs[r] <= worker[w].copy
        BY <1>1, <2>2, <4>1 DEF IInv, Tidy
      <4>3. docs[r] \in Version \cup {Null} /\ worker[w].copy \in Version
        BY <3>1, <3>4
      <4>4. rows[r] = Gone \/ (Committed(r) /\ worker[w].copy <= rows[r])
        BY <1>1, <3>1, <4>1 DEF IInv, NeverAhead, Committed
      <4> QED
        BY <2>2, <4>1, <4>2, <4>3, <4>4 DEF Version
    <3> QED
      BY <2>2, <3>3, <3>4
  <2>3. ASSUME NEW w \in Workers, Work(w), docs' # docs PROVE Forward
    <3>1. TypeOK /\ Busy(w)
      BY <1>1, <2>3 DEF IInv, Work, IndexRoom_Fetch, IndexRoom_Write, DeleteDocument, Fail
    <3>2. PICK j \in Job : worker[w].job = j
      BY <3>1, BusyJob
    <3>3. /\ \/ j.kind = "delete-document" /\ docs' = [docs EXCEPT ![j.room] = Null]
             \/ worker[w].copy # Null /\ docs' = [docs EXCEPT ![j.room] = worker[w].copy]
          /\ untidy \subseteq untidy'
      BY <2>3, <3>2 DEF Work, IndexRoom_Fetch, IndexRoom_Write, DeleteDocument, Fail
    <3> QED
      BY <2>2, <3>1, <3>2, <3>3
  <2>4. CASE \E w \in Workers : Take(w) \/ Stall(w)
    BY <2>1, <2>4 DEF Take, Stall
  <2>5. CASE \E h \in Handlers : Request(h) \/ Advance(h) \/ Crash(h)
    BY <2>1, <2>5 DEF Request, Advance, Crash, Touch, CreateRoom_Write, UpdateRoom_Write,
          OccupyInstance_Write, RemoveRoom_Delete, Touch_Queue, Tx_Queue, Tx_Commit, After_Queue,
          RemoveRoom_Queue
  <2>6. CASE (\E r \in Rooms : BulkUpdate(r)) \/ Promote
    BY <2>1, <2>6 DEF BulkUpdate, Promote
  <2>7. CASE \E w \in Workers : Work(w)
    BY <2>1, <2>3, <2>7
  <2>8. CASE UNCHANGED vars
    BY <2>8
  <2> QED
    BY <1>1, <2>4, <2>5, <2>6, <2>7, <2>8 DEF Next
<1>2. Spec => [][Forward]_vars
  BY <1>1, Invariant, PTL DEF Spec
<1> QED
  BY <1>2 DEF IndexNeverGoesBack
=============================================================================
