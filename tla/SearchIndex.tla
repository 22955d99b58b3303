----------------------------- MODULE SearchIndex -----------------------------
(***************************************************************************)
(* Keeping the Elasticsearch index in step with the rooms in the database: *)
(* the Prisma middleware and the room services queue jobs, and the workers *)
(* of ElasticsearchSyncProcessor run them.                                 *)
(*                                                                         *)
(* What a document shows of a room (its row, prices, instances and so on)  *)
(* is a version number, which each committed write increases.  The indexes *)
(* of the two kinds of posts are kept in the same way.  Bulk reindexing,   *)
(* which nothing queues, is left out.                                      *)
(***************************************************************************)
EXTENDS Integers, Sequences, FiniteSets

CONSTANTS
    Rooms,
    Handlers,     \* requests the server has in progress
    Workers,      \* jobs Bull runs at a time: one for each kind of job
    Attempts,     \* times a job is tried
    Ops,          \* the endpoints clients call, and what may fail
    MaxCalls,     \* bound: requests sent
    MaxFaults,    \* bound: failures, crashes and stalls
    Null, Gone    \* no row, document, room or job; a deleted row

Version == Nat \ {0}

(* A job of the queue.  Bull takes the least priority first; left counts   *)
(* the tries, and stalled tells that a worker died with the job.           *)
Job == [kind: {"index-room", "delete-document"}, room: Rooms, priority: {5, 7},
        left: 1..Attempts, stalled: BOOLEAN]

ASSUME SearchIndexAssumption ==
    /\ Attempts \in Nat \ {0}
    /\ MaxCalls \in Nat /\ MaxFaults \in Nat
    /\ {Null, Gone} \cap (Version \cup Rooms \cup Job) = {}
    /\ Null # Gone

VARIABLES
    rows,       \* the committed version of each room
    docs,       \* the version its document shows
    waiting,    \* the queue, in the order of execution
    delayed,    \* jobs that failed and wait to be tried again
    worker,     \* the job of each worker, and the version it has read
    call,       \* the frame of each handler
    started,    \* requests sent so far
    faults,     \* failures so far
    untidy      \* history: rooms for which a job was lost, ran at the same time
                \* as another, or was the only one and read before the commit

vars == <<rows, docs, waiting, delayed, worker, call, started, faults, untidy>>

Free == [job |-> Null, copy |-> Null]

Idle == [at |-> "idle", op |-> Null, room |-> Null, more |-> 0]

Frame == [at: {"idle", "write:queue", "remove:queue", "tx:queue", "tx:commit", "after:queue"},
          op: {"create", "update", "occupy", "touch", "remove", Null},
          room: Rooms \cup {Null}, more: 0..1]

At(h, label) == call[h].at = label

Committed(r) == rows[r] \in Version

(* What the index should show of a room. *)
Shown(r) == IF Committed(r) THEN rows[r] ELSE Null

-----------------------------------------------------------------------------
(* The queue. *)

NewJob(kind, r, p) ==
    [kind |-> kind, room |-> r, priority |-> p, left |-> Attempts, stalled |-> FALSE]

(* A job goes behind as many as are at least as urgent: Bull counts them.  *)
Place(job, queue) ==
    LET n == Cardinality({i \in 1..Len(queue) : queue[i].priority <= job.priority})
    IN SubSeq(queue, 1, n) \o <<job>> \o SubSeq(queue, n + 1, Len(queue))

Fault(f) == f \in Ops /\ faults < MaxFaults /\ faults' = faults + 1

(* Adding a job; when Redis fails, the error is logged and the job lost. *)
Add(job) ==
    \/ /\ waiting' = Place(job, waiting)
       /\ UNCHANGED <<faults, untidy>>
    \/ /\ Fault("redis")
       /\ untidy' = untidy \cup {job.room}
       /\ UNCHANGED waiting

-----------------------------------------------------------------------------
(* Writes, of the room and of what its document takes from other tables.   *)

Begin(h, op, r, at, more) ==
    /\ op \in Ops
    /\ At(h, "idle")
    /\ started < MaxCalls
    /\ started' = started + 1
    /\ call' = [call EXCEPT ![h] = [at |-> at, op |-> op, room |-> r, more |-> more]]

Goto(h, at) == call' = [call EXCEPT ![h].at = at] /\ UNCHANGED started

Return(h) == call' = [call EXCEPT ![h] = Idle] /\ UNCHANGED started

Bump(r) == rows' = [rows EXCEPT ![r] = @ + 1]

(* A write outside transactions: the view count, the status of an instance. *)
Touch(h, r) ==
    /\ Committed(r)
    /\ Begin(h, "touch", r, "write:queue", 0)
    /\ Bump(r)
    /\ UNCHANGED <<docs, waiting, delayed, worker, untidy, faults>>

(* The middleware queues what the write asks for. *)
Touch_Queue(h) ==
    /\ At(h, "write:queue")
    /\ Add(NewJob("index-room", call[h].room, 5))
    /\ Return(h)
    /\ UNCHANGED <<rows, docs, delayed, worker>>

(* bulkUpdateRoomInstanceStatus: the middleware passes over updateMany.    *)
(* It stands for every write that queues nothing: physical rooms added by  *)
(* createMany, a building that is changed, which is only logged, and one   *)
(* that is removed with its rooms, whose documents are as wrong as these.  *)
BulkUpdate(r) ==
    /\ "bulk" \in Ops
    /\ started < MaxCalls
    /\ started' = started + 1
    /\ Committed(r)
    /\ Bump(r)
    /\ untidy' = untidy \cup {r}
    /\ UNCHANGED <<docs, waiting, delayed, worker, call, faults>>

(* Writes in a transaction: rooms.create and rooms.update, and the         *)
(* confirmation of a booking or an invitation, which occupies an instance. *)
(* "more" is whether the transaction does a second write that queues a job.*)
CreateRoom_Write(h, r) ==
    /\ rows[r] = Null
    /\ \A g \in Handlers : call[g].room # r
    /\ Begin(h, "create", r, "tx:queue", 1)
    /\ UNCHANGED <<rows, docs, waiting, delayed, worker, untidy, faults>>

UpdateRoom_Write(h, r, more) ==
    /\ Committed(r)
    /\ Begin(h, "update", r, "tx:queue", more)
    /\ UNCHANGED <<rows, docs, waiting, delayed, worker, untidy, faults>>

OccupyInstance_Write(h, r) ==
    /\ Committed(r)
    /\ Begin(h, "occupy", r, "tx:queue", 0)
    /\ UNCHANGED <<rows, docs, waiting, delayed, worker, untidy, faults>>

(* The middleware does not wait for the commit. *)
Tx_Queue(h) ==
    /\ At(h, "tx:queue")
    /\ Add(NewJob("index-room", call[h].room,
                  IF call[h].op = "create" /\ call[h].more = 1 THEN 7 ELSE 5))
    /\ call' = IF call[h].more = 1 THEN [call EXCEPT ![h].more = 0]
                                   ELSE [call EXCEPT ![h].at = "tx:commit"]
    /\ UNCHANGED <<rows, docs, delayed, worker, started>>

(* Mutant: rooms.service leaves queueing to the middleware. *)
AfterCommit_Nothing(op) == "idle"

(* rooms.create and rooms.update queue a job of their own. *)
AfterCommit(op) == IF op = "occupy" THEN "idle" ELSE "after:queue"

Tx_Commit(h) ==
    LET r == call[h].room IN
    /\ At(h, "tx:commit")
    /\ rows' = [rows EXCEPT ![r] = IF @ = Null THEN 1 ELSE @ + 1]
    /\ IF AfterCommit(call[h].op) = "idle" THEN Return(h)
                                           ELSE Goto(h, AfterCommit(call[h].op))
    /\ UNCHANGED <<docs, waiting, delayed, worker, untidy, faults>>

After_Queue(h) ==
    /\ At(h, "after:queue")
    /\ Add(NewJob("index-room", call[h].room, 5))
    /\ Return(h)
    /\ UNCHANGED <<rows, docs, delayed, worker>>

InTransaction(h) == call[h].at \in {"tx:queue", "tx:commit"}

(* Deleting takes locks that open transactions of the room hold. *)
RemoveRoom_Delete(h, r) ==
    /\ Committed(r)
    /\ \A g \in Handlers : ~(InTransaction(g) /\ call[g].room = r)
    /\ Begin(h, "remove", r, "remove:queue", 0)
    /\ rows' = [rows EXCEPT ![r] = Gone]
    /\ UNCHANGED <<docs, waiting, delayed, worker, untidy, faults>>

RemoveRoom_Queue(h) ==
    /\ At(h, "remove:queue")
    /\ Add(NewJob("delete-document", call[h].room, 5))
    /\ Return(h)
    /\ UNCHANGED <<rows, docs, delayed, worker>>

(* A crash: an open transaction is rolled back, a job to be queued lost.   *)
Crash(h) ==
    /\ Fault("crash")
    /\ ~At(h, "idle")
    /\ untidy' = IF InTransaction(h) THEN untidy ELSE untidy \cup {call[h].room}
    /\ Return(h)
    /\ UNCHANGED <<rows, docs, waiting, delayed, worker>>

-----------------------------------------------------------------------------
(* Workers. *)

Busy(w) == worker[w].job # Null

(* Somebody else runs a job for the same room. *)
Overlaps(w, r) == \E v \in Workers \ {w} : Busy(v) /\ worker[v].job.room = r

Take(w) ==
    /\ ~Busy(w)
    /\ waiting # <<>>
    /\ worker' = [worker EXCEPT ![w] = [job |-> Head(waiting), copy |-> Null]]
    /\ waiting' = Tail(waiting)
    /\ untidy' = IF Overlaps(w, Head(waiting).room)
                 THEN untidy \cup {Head(waiting).room} ELSE untidy
    /\ UNCHANGED <<rows, docs, delayed, call, started, faults>>

Promote ==
    \E i \in 1..Len(delayed) :
        /\ waiting' = Place(delayed[i], waiting)
        /\ delayed' = SubSeq(delayed, 1, i - 1) \o SubSeq(delayed, i + 1, Len(delayed))
        /\ UNCHANGED <<rows, docs, worker, call, started, untidy, faults>>

(* A transaction that has queued its job and not committed. *)
Uncommitted(r) == {h \in Handlers : call[h].room = r /\ At(h, "tx:commit")}

(* Mutant: writes are seen before they are committed. *)
Readable_Dirty(r) ==
    IF Committed(r) /\ Uncommitted(r) # {} THEN rows[r] + 1 ELSE Shown(r)

(* What the processor finds in the database. *)
Readable(r) == Shown(r)

(* handleIndexRoom reads the room, and is done when there is none. *)
IndexRoom_Fetch(w) ==
    LET r == worker[w].job.room IN
    /\ Busy(w)
    /\ worker[w].job.kind = "index-room"
    /\ worker[w].copy = Null
    /\ worker' = [worker EXCEPT ![w] =
                     IF Readable(r) = Null THEN Free ELSE [@ EXCEPT !.copy = Readable(r)]]
    /\ untidy' = IF \E h \in Uncommitted(r) : call[h].op = "occupy"
                 THEN untidy \cup {r} ELSE untidy
    /\ UNCHANGED <<rows, docs, waiting, delayed, call, started, faults>>

IndexRoom_Write(w) ==
    /\ Busy(w)
    /\ worker[w].copy # Null
    /\ docs' = [docs EXCEPT ![worker[w].job.room] = worker[w].copy]
    /\ worker' = [worker EXCEPT ![w] = Free]
    /\ UNCHANGED <<rows, waiting, delayed, call, started, untidy, faults>>

(* A document that is not there is no error. *)
DeleteDocument(w) ==
    /\ Busy(w)
    /\ worker[w].job.kind = "delete-document"
    /\ docs' = [docs EXCEPT ![worker[w].job.room] = Null]
    /\ worker' = [worker EXCEPT ![w] = Free]
    /\ UNCHANGED <<rows, waiting, delayed, call, started, untidy, faults>>

(* Mutant: the processor catches the error, and the job counts as done. *)
Retried_Swallowed(job) == <<>>

(* Every error is thrown on, for the job to be tried again. *)
Retried(job) == IF job.left > 1 THEN <<[job EXCEPT !.left = @ - 1]>> ELSE <<>>

(* The database or Elasticsearch fails, which may still do what was asked. *)
Fail(w) ==
    LET job == worker[w].job IN
    /\ Fault("fail")
    /\ Busy(w)
    /\ \/ UNCHANGED docs
       \/ job.kind = "delete-document" /\ docs' = [docs EXCEPT ![job.room] = Null]
       \/ worker[w].copy # Null /\ docs' = [docs EXCEPT ![job.room] = worker[w].copy]
    /\ worker' = [worker EXCEPT ![w] = Free]
    /\ delayed' = delayed \o Retried(job)
    /\ untidy' = IF job.left = 1 THEN untidy \cup {job.room} ELSE untidy
    /\ UNCHANGED <<rows, waiting, call, started>>

(* A worker dies: Bull runs the job again, but only the first time. *)
Stall(w) ==
    LET job == worker[w].job IN
    /\ Fault("stall")
    /\ Busy(w)
    /\ worker' = [worker EXCEPT ![w] = Free]
    /\ IF job.stalled
       THEN untidy' = untidy \cup {job.room} /\ UNCHANGED waiting
       ELSE waiting' = <<[job EXCEPT !.stalled = TRUE]>> \o waiting /\ UNCHANGED untidy
    /\ UNCHANGED <<rows, docs, delayed, call, started>>

-----------------------------------------------------------------------------
Init ==
    /\ rows \in [Rooms -> {Null, 1}]
    /\ docs = rows
    /\ waiting = <<>> /\ delayed = <<>>
    /\ worker = [w \in Workers |-> Free]
    /\ call = [h \in Handlers |-> Idle]
    /\ started = 0 /\ faults = 0
    /\ untidy = {}

Request(h) ==
    \E r \in Rooms :
        \/ Touch(h, r) \/ CreateRoom_Write(h, r) \/ OccupyInstance_Write(h, r)
        \/ RemoveRoom_Delete(h, r)
        \/ \E more \in 0..1 : UpdateRoom_Write(h, r, more)

Advance(h) ==
    Touch_Queue(h) \/ Tx_Queue(h) \/ Tx_Commit(h) \/ After_Queue(h) \/ RemoveRoom_Queue(h)

Work(w) == IndexRoom_Fetch(w) \/ IndexRoom_Write(w) \/ DeleteDocument(w) \/ Fail(w)

Next ==
    \/ \E h \in Handlers : Request(h) \/ Advance(h) \/ Crash(h)
    \/ \E r \in Rooms : BulkUpdate(r)
    \/ \E w \in Workers : Take(w) \/ Work(w) \/ Stall(w)
    \/ Promote

Spec == Init /\ [][Next]_vars

(* Handlers go on, the workers take and finish jobs, and a delay passes.   *)
FairSpec ==
    /\ Spec
    /\ \A h \in Handlers : WF_vars(Advance(h))
    /\ \A w \in Workers : WF_vars(Take(w)) /\ WF_vars(Work(w))
    /\ WF_vars(Promote)

-----------------------------------------------------------------------------
(* Rows, documents, jobs and frames have the shape the code gives them.    *)
TypeOK ==
    /\ rows \in [Rooms -> Version \cup {Null, Gone}]
    /\ docs \in [Rooms -> Version \cup {Null}]
    /\ waiting \in Seq(Job) /\ delayed \in Seq(Job)
    /\ worker \in [Workers -> [job: Job \cup {Null}, copy: Version \cup {Null}]]
    /\ call \in [Handlers -> Frame]
    /\ started \in 0..MaxCalls /\ faults \in 0..MaxFaults
    /\ untidy \subseteq Rooms

Pending(r) ==
    \/ \E i \in 1..Len(waiting) : waiting[i].room = r
    \/ \E i \in 1..Len(delayed) : delayed[i].room = r
    \/ \E w \in Workers : Busy(w) /\ worker[w].job.room = r
    \/ \E h \in Handlers : call[h].room = r

(* Once all jobs for a room are done the index shows the room as it is, or *)
(* not at all after its deletion: whatever the order of writes, commits,   *)
(* jobs, failures and retries, as long as no job was lost and no two ran   *)
(* for it at once, and but for a write that is only queued before its      *)
(* commit or not at all.                                                   *)
SettledIndexAgrees ==
    \A r \in Rooms \ untidy : Pending(r) \/ docs[r] = Shown(r)

(* Whatever is written to the document of a room has been committed: no    *)
(* version ahead of the row, none of a room that is rolled back, even when *)
(* jobs overlap or are lost.  A late job may still write what it read of a *)
(* room that has been deleted since.  And under the conditions above, the  *)
(* document never returns to an older version, nor goes before the room.   *)
IndexNeverGoesBack ==
    [][\A r \in Rooms : docs'[r] # docs[r] =>
          /\ docs'[r] # Null => \/ rows[r] = Gone
                                \/ Committed(r) /\ docs'[r] <= rows[r]
          /\ r \notin untidy' => \/ docs'[r] = Null /\ rows[r] = Gone
                                 \/ docs[r] = Null
                                 \/ docs[r] < docs'[r]]_vars

(* Every room ends up in the index as it is, with no condition on how long *)
(* the queue is or which jobs fail before their last try.                  *)
IndexCatchesUp == \A r \in Rooms : <>[](r \in untidy \/ docs[r] = Shown(r))
=============================================================================
