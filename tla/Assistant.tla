----------------------------- MODULE Assistant -----------------------------
(***************************************************************************)
(* The conversations with the assistant and what it is taught, over the    *)
(* same handlers: the answers of a conversation become entries, which an   *)
(* administrator approves.                                                 *)
(***************************************************************************)
EXTENDS Conversations, Knowledge

(* A crash ends a request wherever it is; the jobs go on where they were.  *)
Crash(h) ==
    /\ "crash" \in Ops
    /\ ~At(h, "idle")
    /\ Return(h)
    /\ mixed' = mixed \cup {s \in {call[h].session} : call[h].at \in {"update", "clear:reset"}}
    /\ stale' = stale \cup {s \in {call[h].session} : call[h].at = "clear:reset"}
    /\ contested' = contested \cup ({call[h].entry} \ {Null})
    /\ torn' = torn \cup ({call[h].question} \ {Null})
    /\ UNCHANGED <<sessions, said, jobs, entries, rows, chunks, removed>>

(* The conversation of a user exists or does not, entries may wait, and    *)
(* the store is empty.                                                     *)
Init ==
    /\ sessions \in [Sessions -> {Null, NewSession}]
    /\ \A s \in Sessions \ OwnSessions : sessions[s] = Null
    /\ said = 0
    /\ jobs = [j \in JobIds |-> Null]
    /\ entries \in EarlierEntries
    /\ rows = [r \in RowIds |-> Null]
    /\ chunks = [c \in RowIds |-> Null]
    /\ call = [h \in Handlers |-> Idle]
    /\ started = 0
    /\ mixed = {} /\ stale = {} /\ contested = {} /\ torn = {} /\ removed = {}

Conversation(h) ==
    \/ \E s \in Sessions : \/ Conversation_Find(h, "chat", s, FALSE)
                           \/ Conversation_Find(h, "clear", s, TRUE)
                           \/ CreateConversation(h, s)
                           \/ DeleteSession(h, s)
    \/ Session_Create(h)
    \/ Message_Count(h) \/ Message_Insert(h) \/ Message_Update(h)
    \/ TriggerBackgroundJobs(h) \/ SavePendingKnowledge(h)
    \/ Clear_Delete(h) \/ Clear_Reset(h)

Summary(j) == Job_ReadSummary(j) \/ Job_ReadMessages(j) \/ Job_Write(j) \/ Job_Fail(j)

Teaching(h) ==
    \/ \E e \in RowIds : Approve_Find(h, e) \/ Reject_Find(h, e)
    \/ \E q \in Questions : Teach(h, q) \/ (\E r \in RowIds : Edit_Question(h, r, q))
    \/ Save_Find(h) \/ Save_FindTemplate(h) \/ Save_Insert(h) \/ Save_AddChunk(h)
    \/ Approve_Check(h) \/ Approve_Write(h) \/ Reject_Write(h)
    \/ Edit_Template(h) \/ Edit_FindChunk(h) \/ Edit_Chunk(h)
    \/ \E r \in RowIds : DeleteChunk(h, r) \/ DeleteSqlQA_Chunks(h, r)
    \/ DeleteSqlQA_Row(h)

Next ==
    \/ \E h \in Handlers : Conversation(h) \/ Teaching(h) \/ Crash(h)
    \/ \E j \in JobIds : Summary(j)

Spec == Init /\ [][Next]_vars

-----------------------------------------------------------------------------
(* Properties. *)

(* The state has the shape the schema and the local variables of the code  *)
(* give it.                                                                *)
TypeOK ==
    /\ sessions \in [Sessions -> Session \cup {Null, Gone}]
    /\ said \in Nat
    /\ jobs \in [JobIds -> Job \cup {Null}]
    /\ entries \in [RowIds -> Entry \cup {Null}]
    /\ rows \in [RowIds -> Row \cup {Null, Gone}]
    /\ chunks \in [RowIds -> Chunk \cup {Null, Gone}]
    /\ call \in [Handlers -> Frame]
    /\ started \in 0..MaxCalls
    /\ mixed \subseteq Sessions /\ stale \subseteq Sessions
    /\ contested \subseteq RowIds
    /\ torn \subseteq Questions /\ removed \subseteq Questions

Adding(s) == {h \in Handlers : call[h].session = s /\ At(h, "update")}

Emptying(s) == \E h \in Handlers : call[h].session = s /\ At(h, "clear:reset")

(* addMessage numbers a message by a count read before the insert and adds *)
(* one to the counter after it: still, unless two requests write to one    *)
(* conversation at a time or one dies between two writes, the numbers are  *)
(* the order of the messages and the counter says how many there are.      *)
NumbersFollowOrder ==
    \A s \in Sessions \ mixed :
        Live(sessions[s]) =>
            /\ \A i \in 1..Len(sessions[s].msgs) : sessions[s].msgs[i].no = i
            /\ ~Emptying(s) =>
                   Len(sessions[s].msgs) = sessions[s].count + Cardinality(Adding(s))

(* A summary is of messages of its conversation, though conversations are  *)
(* cleared while jobs that read them wait or are tried again, unless one   *)
(* was cleared between the first read of a job and its write, or by a      *)
(* request that died before it reset the summary.                          *)
SummaryIsOfThisConversation ==
    \A s \in Sessions \ stale :
        Live(sessions[s]) /\ ~Emptying(s) =>
            sessions[s].summary \subseteq
                {sessions[s].msgs[i].id : i \in 1..Len(sessions[s].msgs)}

(* The assistant retrieves what came from an entry only when that entry is *)
(* approved or about to be, though an approval stores it first: unless two *)
(* administrators decide on the entry at once, or an approval dies, nothing *)
(* rejected is ever in the store.                                          *)
OnlyApprovedIsTaught ==
    \A c \in RowIds :
        Live(chunks[c]) /\ chunks[c].entry # Null =>
            LET e == chunks[c].entry IN
            \/ entries[e].status = "approved"
            \/ e \in contested
            \/ \E h \in Handlers :
                  call[h].entry = e /\ call[h].at \in {"approve:check", "approve:write"}

(* The question of an approved entry can be found by similarity, though an *)
(* approval skips the store when it finds the question known: unless a     *)
(* request with that question failed half way, or an administrator removed *)
(* it, there is a chunk of it or one is being added.                       *)
ApprovedIsFindable ==
    \A e \in RowIds :
        entries[e] # Null /\ entries[e].status = "approved" =>
            LET q == entries[e].question IN
            \/ \E c \in RowIds : Live(chunks[c]) /\ chunks[c].question = q
            \/ q \in removed \cup torn
            \/ \E h \in Handlers :
                  /\ call[h].question = q
                  /\ call[h].at \in {"save:chunk", "edit:template", "edit:find", "edit:chunk"}
=============================================================================
