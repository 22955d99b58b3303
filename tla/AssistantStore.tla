--------------------------- MODULE AssistantStore ---------------------------
(***************************************************************************)
(* The conversations with the assistant, the questions and answers that    *)
(* wait for an administrator, the store of what it was taught, and the     *)
(* frames of the handlers that work on them.                               *)
(*                                                                         *)
(* What a language model answers is not defined by the code: an answer is  *)
(* any one, worth keeping or not.  Texts are left out, and so are titles;  *)
(* a summary is the set of the messages it was made from.                  *)
(***************************************************************************)
EXTENDS Integers, Sequences, FiniteSets

CONSTANTS
    Handlers,          \* requests the server has in progress
    Sessions,          \* ids of ai_chat_sessions
    OwnSessions,       \* those made from the id of a user; the others are new UUIDs
    Questions,         \* questions no two of which are similar
    Sqls,              \* templates of queries, as they are typed
    SqlOf,             \* the template of the query that answers a question
    Normalized,        \* a template in small letters and single spaces
    SummaryThreshold,  \* AiService.SUMMARY_THRESHOLD
    OldLimit,          \* messages a summary job takes
    MaxTries,          \* attempts of a job
    MaxJobs,           \* bound: jobs there are at once
    MaxRows,           \* bound: rows of pending_knowledge, sql_qa and ai_chunks
    MaxCalls,          \* bound: requests sent
    EarlierEntries,    \* the tables of pending_knowledge the system may start from, with
                       \* nothing taught yet
    Ops,               \* the endpoints clients call, and "crash"
    Null,              \* no row
    Gone               \* a deleted row

RowIds == 1..MaxRows
JobIds == 1..MaxJobs

MessageIds == Nat

Message == [no: Nat, id: MessageIds]

Session == [msgs: Seq(Message), count: Nat, summary: SUBSET MessageIds]

Job == [session: Sessions, at: {"queued", "summary", "messages"}, tries: 0..MaxTries,
        content: SUBSET MessageIds]

Entry == [question: Questions, status: {"pending", "approved", "rejected"}]

(* A row of sql_qa: a question and the template of the query that answers  *)
(* it.                                                                     *)
Row == [question: Questions, sql: Sqls]

(* A row of ai_chunks; the entry it was approved from is history. *)
Chunk == [question: Questions, row: RowIds, entry: RowIds \cup {Null}]

ASSUME AssistantStoreAssumption ==
    /\ OwnSessions \subseteq Sessions
    /\ SqlOf \in [Questions -> Sqls]
    /\ Normalized \in [Sqls -> Sqls]
    /\ \A sql \in Sqls : Normalized[Normalized[sql]] = Normalized[sql]
    /\ SummaryThreshold \in Nat /\ OldLimit \in Nat \ {0} /\ MaxTries \in Nat \ {0}
    /\ MaxJobs \in Nat /\ MaxRows \in Nat /\ MaxCalls \in Nat
    /\ EarlierEntries \subseteq [RowIds -> Entry \cup {Null}]
    /\ \A table \in EarlierEntries : \A d, e \in RowIds :
           d < e /\ table[e] # Null => table[d] # Null
    /\ \A table \in EarlierEntries : \A e \in RowIds :
           table[e] # Null => table[e].status # "approved"
    /\ Null # Gone
    /\ {Null, Gone} \cap (Questions \cup Sessions \cup RowIds) = {}
    /\ {Null, Gone} \cap (Session \cup Job \cup Entry \cup Row \cup Chunk) = {}

VARIABLES
    sessions,    \* ai_chat_sessions with their ai_chat_messages, in the order of creation
    said,        \* messages made so far
    jobs,        \* chat-session-queue
    entries,     \* pending_knowledge
    rows,        \* sql_qa
    chunks,      \* ai_chunks of the collection qa
    call,        \* the frame of each handler
    started,     \* requests sent so far
    mixed,       \* history: conversations two handlers wrote to at once, or one died in
    stale,       \* history: conversations emptied during the work of a job on them
    contested,   \* history: entries two handlers decided on at once, or one died with
    torn,        \* history: questions a handler died with between sql_qa and ai_chunks
    removed      \* history: questions something was deleted of

vars == <<sessions, said, jobs, entries, rows, chunks, call, started,
          mixed, stale, contested, torn, removed>>

chatVars == <<sessions, said, jobs, mixed, stale>>
knowledgeVars == <<entries, rows, chunks, contested, torn, removed>>

Labels == {"idle", "session:create", "count", "insert", "update", "jobs", "entry",
           "clear:delete", "clear:reset", "save:find", "save:template", "save:insert",
           "save:chunk", "approve:check", "approve:write", "reject:write",
           "edit:template", "edit:find", "edit:chunk", "drop:row"}

(* role tells whose message is added; seen is a number, a row or a chunk.  *)
Frame == [at: Labels, session: Sessions \cup {Null}, clears: BOOLEAN,
          role: {"user", "assistant", "error"}, seen: Nat,
          entry: RowIds \cup {Null}, question: Questions \cup {Null}]

Idle == [at |-> "idle", session |-> Null, clears |-> FALSE, role |-> "user", seen |-> 0,
         entry |-> Null, question |-> Null]

-----------------------------------------------------------------------------
At(h, label) == call[h].at = label

Goes(h, label) == [call[h] EXCEPT !.at = label]

Begin(h, op, frame) ==
    /\ op \in Ops
    /\ At(h, "idle")
    /\ started < MaxCalls
    /\ started' = started + 1
    /\ call' = [call EXCEPT ![h] = frame]

Goto(h, frame) == call' = [call EXCEPT ![h] = frame] /\ UNCHANGED started

Return(h) == Goto(h, Idle)

Live(row) == row \notin {Null, Gone}

(* What mixed and contested remember: another handler at one of the labels *)
(* in the same conversation, or with the same entry.                       *)
Mixing(h, s, labels) ==
    IF \E g \in Handlers \ {h} : call[g].session = s /\ call[g].at \in labels THEN {s} ELSE {}

Contesting(h, e) == IF \E g \in Handlers \ {h} : call[g].entry = e THEN {e} ELSE {}
=============================================================================
