--------------------------- MODULE Conversations ---------------------------
(***************************************************************************)
(* Chats with the assistant (AiService over ChatSessionService), and the   *)
(* jobs that keep the summaries (ChatSessionQueueProcessor).  publishRoom, *)
(* which may add a message and no answer, and getChatHistory, which only   *)
(* makes the conversation, take the first steps of a chat: they appear as  *)
(* chats that end early.                                                   *)
(***************************************************************************)
EXTENDS AssistantStore

NewSession == [msgs |-> <<>>, count |-> 0, summary |-> {}]

SetSession(s, session) == sessions' = [sessions EXCEPT ![s] = session]

(* A chat or a clear in the conversation of a user makes it when there is  *)
(* none; one in a conversation with a UUID fails.                          *)
Conversation_Find(h, op, s, clears) ==
    LET next == IF clears THEN "clear:delete" ELSE "count" IN
    /\ Live(sessions[s]) \/ s \in OwnSessions
    /\ Begin(h, op, [Idle EXCEPT !.at = IF Live(sessions[s]) THEN next ELSE "session:create",
                                 !.session = s, !.clears = clears])
    /\ UNCHANGED <<chatVars, knowledgeVars>>

(* The id is that of the user: a second insert fails. *)
Session_Create(h) ==
    LET s == call[h].session IN
    /\ At(h, "session:create")
    /\ IF Live(sessions[s]) THEN Return(h) /\ UNCHANGED sessions
       ELSE /\ SetSession(s, NewSession)
            /\ Goto(h, Goes(h, IF call[h].clears THEN "clear:delete" ELSE "count"))
    /\ UNCHANGED <<said, jobs, mixed, stale, knowledgeVars>>

CreateConversation(h, s) ==
    /\ s \notin OwnSessions
    /\ sessions[s] = Null
    /\ Begin(h, "createConversation", Idle)
    /\ SetSession(s, NewSession)
    /\ UNCHANGED <<said, jobs, mixed, stale, knowledgeVars>>

-----------------------------------------------------------------------------
(* addMessage. *)

NumberSeen(s) == IF Live(sessions[s]) THEN Len(sessions[s].msgs) ELSE 0

(* Mutant: the number is that of the last message. *)
NextNumber_Last(seen) == seen

NextNumber(seen) == seen + 1

Message_Count(h) ==
    /\ At(h, "count")
    /\ Goto(h, [Goes(h, "insert") EXCEPT !.seen = NumberSeen(call[h].session)])
    /\ UNCHANGED <<chatVars, knowledgeVars>>

(* Where the conversation is gone the message cannot be written, nor the   *)
(* one about that error.                                                   *)
Fails(h) ==
    IF call[h].role = "assistant"
    THEN Goto(h, [Goes(h, "count") EXCEPT !.role = "error"])
    ELSE Return(h)

Message_Insert(h) ==
    LET s == call[h].session  msg == [no |-> NextNumber(call[h].seen), id |-> said + 1] IN
    /\ At(h, "insert")
    /\ IF Live(sessions[s])
       THEN /\ SetSession(s, [sessions[s] EXCEPT !.msgs = Append(@, msg)])
            /\ said' = said + 1
            /\ mixed' = mixed \cup Mixing(h, s, {"insert", "clear:reset"})
            /\ Goto(h, Goes(h, "update"))
       ELSE Fails(h) /\ UNCHANGED <<sessions, said, mixed>>
    /\ UNCHANGED <<jobs, stale, knowledgeVars>>

(* After its question a chat waits for its answer. *)
Message_Update(h) ==
    LET s == call[h].session IN
    /\ At(h, "update")
    /\ IF Live(sessions[s])
       THEN /\ SetSession(s, [sessions[s] EXCEPT !.count = @ + 1])
            /\ IF call[h].role = "user"
               THEN \E role \in {"assistant", "error"} :
                        Goto(h, [Goes(h, "count") EXCEPT !.role = role])
               ELSE Goto(h, Goes(h, "jobs"))
       ELSE Fails(h) /\ UNCHANGED sessions
    /\ UNCHANGED <<said, jobs, mixed, stale, knowledgeVars>>

-----------------------------------------------------------------------------
(* triggerBackgroundJobs, and what happens to the answer then.  An error   *)
(* of the queue is only logged.                                            *)

QueueSummary(s) ==
    \E j \in JobIds :
        /\ jobs[j] = Null
        /\ jobs' = [jobs EXCEPT ![j] =
                       [session |-> s, at |-> "queued", tries |-> 0, content |-> {}]]

TriggerBackgroundJobs(h) ==
    LET s == call[h].session IN
    /\ At(h, "jobs")
    /\ IF Live(sessions[s]) /\ sessions[s].count > SummaryThreshold
       THEN QueueSummary(s) \/ UNCHANGED jobs ELSE UNCHANGED jobs
    /\ IF call[h].role = "assistant"
       THEN Goto(h, [Goes(h, "entry") EXCEPT !.session = Null])
       ELSE Return(h)
    /\ UNCHANGED <<sessions, said, mixed, stale, knowledgeVars>>

(* An answer with a query that was found valid waits for approval.         *)
SavePendingKnowledge(h) ==
    LET e == Cardinality({i \in RowIds : entries[i] # Null}) + 1 IN
    /\ At(h, "entry")
    /\ \/ UNCHANGED entries
       \/ \E q \in Questions :
             /\ e \in RowIds
             /\ entries' = [entries EXCEPT ![e] = [question |-> q, status |-> "pending"]]
    /\ Return(h)
    /\ UNCHANGED <<chatVars, rows, chunks, contested, torn, removed>>

-----------------------------------------------------------------------------
(* Jobs at work on a conversation, which its clearing or deletion makes    *)
(* stale.                                                                  *)
Working(s) == \E j \in JobIds : jobs[j] # Null /\ jobs[j].session = s /\ jobs[j].at # "queued"

Staling(s) == IF Working(s) THEN {s} ELSE {}

Clear_Delete(h) ==
    LET s == call[h].session IN
    /\ At(h, "clear:delete")
    /\ sessions' = IF Live(sessions[s]) THEN [sessions EXCEPT ![s].msgs = <<>>] ELSE sessions
    /\ mixed' = mixed \cup Mixing(h, s, {"insert", "update", "clear:reset"})
    /\ stale' = stale \cup Staling(s)
    /\ Goto(h, Goes(h, "clear:reset"))
    /\ UNCHANGED <<said, jobs, knowledgeVars>>

(* Mutant: the summary is left. *)
Cleared_KeepsSummary(session) == [session EXCEPT !.count = 0]

Cleared(session) == [session EXCEPT !.count = 0, !.summary = {}]

Clear_Reset(h) ==
    LET s == call[h].session IN
    /\ At(h, "clear:reset")
    /\ SetSession(s, IF Live(sessions[s]) THEN Cleared(sessions[s]) ELSE sessions[s])
    /\ stale' = stale \cup Staling(s)
    /\ Return(h)
    /\ UNCHANGED <<said, jobs, mixed, knowledgeVars>>

DeleteSession(h, s) ==
    /\ Live(sessions[s])
    /\ Begin(h, "deleteSession", Idle)
    /\ SetSession(s, Gone)
    /\ mixed' = mixed \cup Mixing(h, s, {"insert", "update", "clear:reset"})
    /\ stale' = stale \cup Staling(s)
    /\ UNCHANGED <<said, jobs, knowledgeVars>>

-----------------------------------------------------------------------------
(* The jobs. *)

SetJob(j, job) == jobs' = [jobs EXCEPT ![j] = job]

(* A job that fails is tried again, up to its last attempt. *)
Retried(job) ==
    IF job.tries + 1 < MaxTries
    THEN [job EXCEPT !.tries = @ + 1, !.at = "queued", !.content = {}] ELSE Null

(* getSession *)
Job_ReadSummary(j) ==
    LET s == jobs[j].session IN
    /\ jobs[j] # Null /\ jobs[j].at = "queued"
    /\ SetJob(j, IF Live(sessions[s])
                 THEN [jobs[j] EXCEPT !.at = "summary", !.content = sessions[s].summary]
                 ELSE Retried(jobs[j]))
    /\ UNCHANGED <<sessions, said, mixed, stale, knowledgeVars, call, started>>

(* The messages getOldMessages picks: the last, not the first.             *)
OldMessages(msgs) ==
    IF Len(msgs) <= OldLimit THEN {}
    ELSE {msgs[i].id : i \in (Len(msgs) - OldLimit + 1)..Len(msgs)}

Job_ReadMessages(j) ==
    LET s == jobs[j].session
        old == IF Live(sessions[s]) THEN OldMessages(sessions[s].msgs) ELSE {}
    IN
    /\ jobs[j] # Null /\ jobs[j].at = "summary"
    /\ SetJob(j, IF old = {} THEN Null
                 ELSE [jobs[j] EXCEPT !.at = "messages", !.content = @ \cup old])
    /\ UNCHANGED <<sessions, said, mixed, stale, knowledgeVars, call, started>>

Job_Write(j) ==
    LET s == jobs[j].session IN
    /\ jobs[j] # Null /\ jobs[j].at = "messages"
    /\ IF Live(sessions[s])
       THEN /\ SetSession(s, [sessions[s] EXCEPT !.summary = jobs[j].content])
            /\ SetJob(j, Null)
       ELSE SetJob(j, Retried(jobs[j])) /\ UNCHANGED sessions
    /\ UNCHANGED <<said, mixed, stale, knowledgeVars, call, started>>

(* No summary comes from the language model, or the worker dies. *)
Job_Fail(j) ==
    /\ jobs[j] # Null /\ jobs[j].at # "queued"
    /\ SetJob(j, Retried(jobs[j]))
    /\ UNCHANGED <<sessions, said, mixed, stale, knowledgeVars, call, started>>
=============================================================================
