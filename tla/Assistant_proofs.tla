-------------------------- MODULE Assistant_proofs ---------------------------
(***************************************************************************)
(* Proofs about Assistant for any handlers, conversations, questions,      *)
(* queries, jobs, rows and requests.                                       *)
(***************************************************************************)
EXTENDS Assistant, FiniteSetTheorems, SequenceTheorems, TLAPS

-----------------------------------------------------------------------------
(* The invariant.                                                          *)

Chatting == {"session:create", "count", "insert", "update", "jobs", "clear:delete",
             "clear:reset"}
Saving == {"save:find", "save:template", "save:insert", "save:chunk"}
Editing == {"edit:template", "edit:find", "edit:chunk"}
Storing == {"save:chunk"} \cup Editing
Approving == {"approve:check", "approve:write"}

(* Conversations. *)

Ids(s) == {sessions[s].msgs[i].id : i \in 1..Len(sessions[s].msgs)}

Inserting(s) == {h \in Handlers : call[h].session = s /\ At(h, "insert")}

(* The numbers of a conversation are in order, nobody is at work on it     *)
(* while it is gone or being cleared, and who has counted its messages     *)
(* would still count as many, unless two wrote to it at once.              *)
OrderOK(s) ==
    /\ IsFiniteSet(Adding(s))
    /\ s \notin mixed =>
          /\ Live(sessions[s]) =>
                /\ \A i \in 1..Len(sessions[s].msgs) : sessions[s].msgs[i].no = i
                /\ ~Emptying(s) =>
                       Len(sessions[s].msgs) = sessions[s].count + Cardinality(Adding(s))
          /\ ~Live(sessions[s]) => Adding(s) = {}
          /\ Emptying(s) => Adding(s) = {} /\ (Live(sessions[s]) => Len(sessions[s].msgs) = 0)
          /\ \A h \in Inserting(s) : call[h].seen = NumberSeen(s)

(* What is summarised, and what a job has read to do so, is still of the   *)
(* conversation, unless that was emptied meanwhile.                        *)
SummaryOK(s) ==
    s \notin stale =>
        /\ Live(sessions[s]) /\ ~Emptying(s) => sessions[s].summary \subseteq Ids(s)
        /\ \A j \in JobIds : jobs[j] # Null /\ jobs[j].session = s /\ jobs[j].at # "queued" =>
               /\ Live(sessions[s])
               /\ ~Emptying(s) => jobs[j].content \subseteq Ids(s)

(* What the assistant is taught. *)

(* Rows are filled in the order of their ids. *)
Ordered(table) ==
    \A i, j \in RowIds : i < j /\ table[j] # Null => table[i] # Null

(* A question that similarity finds, or why it does not. *)
Findable(q) ==
    \/ \E c \in RowIds : Live(chunks[c]) /\ chunks[c].question = q
    \/ q \in removed \cup torn
    \/ \E h \in Handlers : call[h].question = q /\ call[h].at \in {"save:chunk"} \cup Editing

TablesOK ==
    /\ Ordered(entries) /\ Ordered(rows) /\ Ordered(chunks)
    /\ \A r \in RowIds : Live(rows[r]) => Findable(rows[r].question)
    /\ \A c \in RowIds : Live(chunks[c]) /\ chunks[c].entry # Null
                            => entries[chunks[c].entry] # Null

(* An entry is decided on by one handler, and pending until it does.       *)
EntryOK(h) ==
    LET e == call[h].entry IN
    e # Null =>
        /\ entries[e] # Null
        /\ call[h].at # "reject:write" => call[h].question = entries[e].question
        /\ e \notin contested =>
              IsPending(e) /\ \A g \in Handlers \ {h} : call[g].entry # e

FrameOK(h) ==
    LET f == call[h] IN
    /\ f.at \in Chatting <=> f.session # Null
    /\ f.at \in Chatting \cup {"idle", "entry", "drop:row"} \cup Editing => f.entry = Null
    /\ f.at \in Chatting \cup {"idle", "entry", "drop:row"} => f.question = Null
    /\ f.at \in Saving \cup Editing \cup Approving => f.question \in Questions
    /\ f.at \in Approving \cup {"reject:write"} => f.entry # Null
    /\ f.at \in {"save:chunk", "drop:row"} \cup Editing => f.seen \in RowIds
    /\ f.at \in Approving => Findable(f.question)

IInv ==
    /\ TypeOK
    /\ \A h \in Handlers : FrameOK(h) /\ EntryOK(h)
    /\ \A s \in Sessions : OrderOK(s) /\ SummaryOK(s)
    /\ TablesOK
    /\ OnlyApprovedIsTaught
    /\ ApprovedIsFindable

-----------------------------------------------------------------------------
(* Rows and frames.                                                        *)

LEMMA NullIsNoId ==
    /\ Null \notin Sessions /\ Null \notin Questions /\ Null \notin RowIds /\ Null # Gone
    /\ ~Live(Null) /\ ~Live(Gone)
BY AssistantStoreAssumption DEF Live

LEMMA RowIsLive ==
    ASSUME NEW row
    PROVE  /\ row \in Session \/ row \in Row \/ row \in Chunk => Live(row)
           /\ row \in Session \cup {Null, Gone} /\ Live(row) => row \in Session
           /\ row \in Row \cup {Null, Gone} /\ Live(row) => row \in Row
           /\ row \in Chunk \cup {Null, Gone} /\ Live(row) => row \in Chunk
           /\ row \in Job \/ row \in Entry \/ row \in Row \/ row \in Chunk => row # Null
BY AssistantStoreAssumption DEF Live

LEMMA LiveRows ==
    ASSUME TypeOK
    PROVE  /\ \A s \in Sessions : Live(sessions[s]) => sessions[s] \in Session
           /\ \A j \in JobIds : jobs[j] # Null => jobs[j] \in Job
           /\ \A e \in RowIds : entries[e] # Null => entries[e] \in Entry
           /\ \A r \in RowIds : Live(rows[r]) => rows[r] \in Row /\ rows[r] # Null
           /\ \A c \in RowIds : Live(chunks[c]) => chunks[c] \in Chunk /\ chunks[c] # Null
BY RowIsLive, NullIsNoId DEF TypeOK

LEMMA IdleInFrame ==
    /\ Idle \in Frame /\ Idle.at = "idle" /\ Idle.session = Null /\ Idle.clears = FALSE
    /\ Idle.role = "user" /\ Idle.seen = 0 /\ Idle.entry = Null /\ Idle.question = Null
BY DEF Idle, Frame, Labels

LEMMA MovedFrame ==
    ASSUME NEW h, call[h] \in Frame, NEW label \in Labels
    PROVE  /\ Goes(h, label) \in Frame /\ Goes(h, label).at = label
           /\ Goes(h, label).session = call[h].session /\ Goes(h, label).clears = call[h].clears
           /\ Goes(h, label).role = call[h].role /\ Goes(h, label).seen = call[h].seen
           /\ Goes(h, label).entry = call[h].entry /\ Goes(h, label).question = call[h].question
BY DEF Frame, Goes

LEMMA MovedCall ==
    ASSUME TypeOK, NEW h \in Handlers, NEW f \in Frame, call' = [call EXCEPT ![h] = f]
    PROVE  /\ call' \in [Handlers -> Frame] /\ call'[h] = f
           /\ \A g \in Handlers \ {h} : call'[g] = call[g]
BY DEF TypeOK

LEMMA SessionParts ==
    ASSUME NEW session \in Session
    PROVE  /\ session.msgs \in Seq(Message) /\ session.count \in Nat
           /\ session.summary \in SUBSET MessageIds /\ Len(session.msgs) \in Nat
           /\ \A i \in 1..Len(session.msgs) :
                 session.msgs[i] \in Message /\ session.msgs[i].id \in MessageIds
<1>1. session.msgs \in Seq(Message) /\ session.count \in Nat /\ session.summary \in SUBSET MessageIds
  BY DEF Session
<1>2. \A i \in 1..Len(session.msgs) : session.msgs[i] \in Message
  BY <1>1
<1> QED
  BY <1>1, <1>2 DEF Message

LEMMA NewSessionIsEmpty ==
    /\ NewSession \in Session /\ NewSession.msgs = <<>> /\ NewSession.count = 0
    /\ NewSession.summary = {} /\ Len(NewSession.msgs) = 0 /\ Live(NewSession)
<1>1. NewSession \in Session
  BY DEF NewSession, Session
<1> QED
  BY <1>1, RowIsLive DEF NewSession

-----------------------------------------------------------------------------
(* Conversations: what a step of one handler, or of a job, leaves alone.   *)

Hands == {"insert", "update", "clear:reset"}

LEMMA SameHands ==
    ASSUME TypeOK, NEW h \in Handlers, NEW f \in Frame, call' = [call EXCEPT ![h] = f],
           NEW s, call[h].session # s \/ call[h].at \notin Hands,
           f.session # s \/ f.at \notin Hands
    PROVE  /\ Adding(s)' = Adding(s) /\ (Emptying(s)' <=> Emptying(s))
           /\ Inserting(s)' = Inserting(s)
           /\ \A g \in Inserting(s) : call'[g] = call[g]
BY MovedCall DEF Adding, Emptying, Inserting, Hands, At

LEMMA OrderKept ==
    ASSUME NEW s \in Sessions, OrderOK(s), mixed \subseteq mixed',
           Live(sessions'[s]) <=> Live(sessions[s]),
           Live(sessions[s]) => /\ sessions'[s].msgs = sessions[s].msgs
                                /\ sessions'[s].count = sessions[s].count,
           Adding(s)' = Adding(s), Emptying(s)' <=> Emptying(s),
           \A g \in Inserting(s)' : g \in Inserting(s) /\ call'[g] = call[g]
    PROVE  OrderOK(s)'
BY DEF OrderOK, NumberSeen

LEMMA SummaryKept ==
    ASSUME NEW s \in Sessions, SummaryOK(s), stale \subseteq stale',
           Live(sessions'[s]) <=> Live(sessions[s]),
           Live(sessions[s]) => /\ sessions'[s].msgs = sessions[s].msgs
                                /\ sessions'[s].summary = sessions[s].summary,
           Emptying(s)' <=> Emptying(s),
           \A j \in JobIds : jobs'[j] # Null /\ jobs'[j].session = s /\ jobs'[j].at # "queued"
                                => jobs'[j] = jobs[j]
    PROVE  SummaryOK(s)'
BY DEF SummaryOK, Ids, Live

-----------------------------------------------------------------------------
(* The handlers of conversations decide nothing about what is taught.      *)

Plain(f) ==
    /\ f.at \in Chatting \cup {"idle", "entry"}
    /\ f.at \in Chatting <=> f.session # Null
    /\ f.entry = Null /\ f.question = Null

LEMMA PlainFrames ==
    ASSUME NEW h \in Handlers, FrameOK(h), call[h].at \in Chatting \cup {"idle", "entry"}
    PROVE  Plain(call[h])
BY DEF FrameOK, Plain

LEMMA KnowledgeKept ==
    ASSUME IInv, NEW h \in Handlers, NEW f \in Frame, call' = [call EXCEPT ![h] = f],
           Plain(call[h]), Plain(f), UNCHANGED knowledgeVars
    PROVE  /\ \A g \in Handlers : FrameOK(g)' /\ EntryOK(g)'
           /\ TablesOK' /\ OnlyApprovedIsTaught' /\ ApprovedIsFindable'
<1>1. /\ UNCHANGED <<entries, rows, chunks, contested, torn, removed>>
      /\ call'[h] = f /\ \A g \in Handlers \ {h} : call'[g] = call[g]
  BY MovedCall DEF knowledgeVars, IInv
<1>2. f.at \notin {"save:chunk", "drop:row", "reject:write"} \cup Saving \cup Editing \cup Approving
  BY DEF Plain, Chatting, Saving, Editing, Approving
<1>3. call[h].at \notin {"save:chunk", "reject:write"} \cup Saving \cup Editing \cup Approving
  BY DEF Plain, Chatting, Saving, Editing, Approving
<1>4. \A q : Findable(q) => Findable(q)'
  BY <1>1, <1>3 DEF Findable
<1>5. TablesOK'
  BY <1>1, <1>4 DEF IInv, TablesOK, Ordered
<1>6. ApprovedIsFindable'
  <2>1. \A q : ~Findable(q) \/ (Findable(q)' /\ UNCHANGED <<chunks, removed, torn>>)
    BY <1>1, <1>4
  <2>2. \A e \in RowIds : entries[e] # Null /\ entries[e].status = "approved"
                             => Findable(entries[e].question)
    BY DEF IInv, ApprovedIsFindable, Findable, Editing
  <2>3. \A e \in RowIds : entries'[e] # Null /\ entries'[e].status = "approved"
                             => \A q : q = entries[e].question => Findable(q)'
    BY <1>1, <1>4, <2>2
  <2> QED
    BY <1>1, <2>3 DEF ApprovedIsFindable, Findable, Editing
<1>7. OnlyApprovedIsTaught'
  BY <1>1, <1>2, <1>3 DEF IInv, OnlyApprovedIsTaught, Approving
<1>8. ASSUME NEW g \in Handlers PROVE FrameOK(g)'
  <2>1. CASE g = h
    BY <1>1, <1>2, <2>1 DEF FrameOK, Plain
  <2>2. CASE g # h
    BY <1>1, <1>4, <2>2 DEF FrameOK, IInv
  <2> QED
    BY <2>1, <2>2
<1>9. ASSUME NEW g \in Handlers PROVE EntryOK(g)'
  <2>1. CASE g = h
    BY <1>1, <2>1 DEF EntryOK, Plain
  <2>2. CASE g # h
    BY <1>1, <2>2 DEF EntryOK, IInv, IsPending, Plain
  <2> QED
    BY <2>1, <2>2
<1> QED
  BY <1>5, <1>6, <1>7, <1>8, <1>9

LEMMA ChatStep ==
    ASSUME IInv, NEW h \in Handlers, NEW f \in Frame, call' = [call EXCEPT ![h] = f],
           call[h].at \in Chatting \cup {"idle", "entry"}, Plain(f), UNCHANGED knowledgeVars,
           started' \in 0..MaxCalls, sessions' \in [Sessions -> Session \cup {Null, Gone}],
           said' \in Nat, jobs' \in [JobIds -> Job \cup {Null}],
           mixed' \subseteq Sessions, stale' \subseteq Sessions,
           \A s \in Sessions : OrderOK(s)' /\ SummaryOK(s)'
    PROVE  IInv'
<1>1. Plain(call[h])
  BY PlainFrames DEF IInv
<1>2. TypeOK'
  BY MovedCall DEF IInv, TypeOK, knowledgeVars
<1> QED
  BY <1>1, <1>2, KnowledgeKept DEF IInv

(* A handler that neither begins nor ends a write. *)
LEMMA RestStep ==
    ASSUME IInv, NEW h \in Handlers, NEW f \in Frame, call' = [call EXCEPT ![h] = f],
           call[h].at \in Chatting \cup {"idle", "entry"}, Plain(f), UNCHANGED knowledgeVars,
           started' \in 0..MaxCalls, UNCHANGED <<sessions, said, mixed, stale>>,
           call[h].at \notin Hands, f.at \notin Hands,
           jobs' \in [JobIds -> Job \cup {Null}],
           \A j \in JobIds : jobs'[j] = jobs[j] \/ jobs'[j].at = "queued"
    PROVE  IInv'
<1>1. TypeOK
  BY DEF IInv
<1>2. \A s : /\ Adding(s)' = Adding(s) /\ (Emptying(s)' <=> Emptying(s))
             /\ Inserting(s)' = Inserting(s) /\ \A g \in Inserting(s) : call'[g] = call[g]
  BY <1>1, SameHands
<1>3. \A s \in Sessions : OrderOK(s)'
  BY <1>2, OrderKept DEF IInv
<1>4. \A s \in Sessions : SummaryOK(s)'
  BY <1>2, SummaryKept DEF IInv
<1> QED
  BY <1>1, <1>3, <1>4, ChatStep DEF TypeOK

LEMMA BegunBound ==
    ASSUME TypeOK, NEW h \in Handlers, NEW op, NEW f, Begin(h, op, f)
    PROVE  /\ started' \in 0..MaxCalls /\ call' = [call EXCEPT ![h] = f]
           /\ call[h].at = "idle"
BY AssistantStoreAssumption DEF TypeOK, Begin, At

LEMMA Conversation_FindStep ==
    ASSUME IInv, NEW h \in Handlers, NEW op, NEW s \in Sessions, NEW clears \in BOOLEAN,
           Conversation_Find(h, op, s, clears)
    PROVE  IInv'
<1> DEFINE f == [Idle EXCEPT !.at = IF Live(sessions[s])
                                    THEN (IF clears THEN "clear:delete" ELSE "count")
                                    ELSE "session:create",
                             !.session = s, !.clears = clears]
<1>1. /\ f \in Frame /\ f.at \in {"clear:delete", "count", "session:create"}
      /\ f.session = s /\ f.entry = Null /\ f.question = Null
  BY DEF Idle, Frame, Labels
<1>2. /\ Begin(h, op, f) /\ UNCHANGED <<sessions, said, jobs, mixed, stale, knowledgeVars>>
  BY DEF Conversation_Find, chatVars
<1> HIDE DEF f
<1>3. Plain(f) /\ f.at \notin Hands
  BY <1>1, NullIsNoId DEF Plain, Chatting, Hands
<1>4. started' \in 0..MaxCalls /\ call' = [call EXCEPT ![h] = f] /\ call[h].at = "idle"
  BY <1>2, BegunBound DEF IInv
<1>5. call[h].at \notin Hands
  BY <1>4 DEF Hands
<1> QED
  BY <1>1, <1>2, <1>3, <1>4, <1>5, RestStep DEF IInv, TypeOK

-----------------------------------------------------------------------------
(* A conversation is made, or deleted. *)

LEMMA SessionMade ==
    ASSUME IInv, NEW s \in Sessions, ~Live(sessions[s]),
           sessions' = [sessions EXCEPT ![s] = NewSession], UNCHANGED <<jobs, mixed, stale>>,
           \A t : /\ Adding(t)' = Adding(t) /\ (Emptying(t)' <=> Emptying(t))
                  /\ Inserting(t)' = Inserting(t) /\ \A g \in Inserting(t) : call'[g] = call[g]
    PROVE  \A t \in Sessions : OrderOK(t)' /\ SummaryOK(t)'
<1>1. sessions'[s] = NewSession /\ \A t \in Sessions \ {s} : sessions'[t] = sessions[t]
  BY DEF IInv, TypeOK
<1>2. ASSUME NEW t \in Sessions \ {s} PROVE OrderOK(t)' /\ SummaryOK(t)'
  BY <1>1, OrderKept, SummaryKept DEF IInv
<1>3. OrderOK(s)'
  <2>1. IsFiniteSet(Adding(s)) /\ (s \notin mixed => Adding(s) = {})
    BY DEF IInv, OrderOK
  <2>2. \A g \in Inserting(s) : s \notin mixed => call'[g].seen = 0
    BY DEF IInv, OrderOK, NumberSeen
  <2>3. NumberSeen(s)' = 0
    BY <1>1, NewSessionIsEmpty DEF NumberSeen
  <2>4. Cardinality({}) = 0
    BY FS_EmptySet
  <2> QED
    <3>1. \A i \in 1..Len(sessions'[s].msgs) : sessions'[s].msgs[i].no = i
      BY <1>1, NewSessionIsEmpty
    <3>2. s \notin mixed => Len(sessions'[s].msgs) = sessions'[s].count + Cardinality(Adding(s)')
      <4>1. Len(sessions'[s].msgs) = 0 /\ sessions'[s].count = 0
        BY <1>1, NewSessionIsEmpty
      <4>2. s \notin mixed => Cardinality(Adding(s)') = 0
        <5> SUFFICES ASSUME s \notin mixed PROVE Cardinality(Adding(s)') = 0
          OBVIOUS
        <5>1. Adding(s)' = {}
          BY <2>1
        <5> QED
          BY <2>4, <5>1
      <4> QED
        BY <4>1, <4>2
    <3>3. Live(sessions'[s]) /\ Len(sessions'[s].msgs) = 0
      BY <1>1, NewSessionIsEmpty
    <3>4. IsFiniteSet(Adding(s)') /\ (s \notin mixed => Adding(s)' = {})
      BY <2>1
    <3>5. s \notin mixed => \A g \in Inserting(s)' : call'[g].seen = NumberSeen(s)'
      BY <2>2, <2>3
    <3> QED
      BY <3>1, <3>2, <3>3, <3>4, <3>5 DEF OrderOK
<1>4. SummaryOK(s)'
  BY <1>1, NewSessionIsEmpty DEF IInv, SummaryOK
<1> QED
  BY <1>2, <1>3, <1>4

LEMMA Session_CreateStep ==
    ASSUME IInv, NEW h \in Handlers, Session_Create(h)
    PROVE  IInv'
<1> DEFINE s == call[h].session
           f == Goes(h, IF call[h].clears THEN "clear:delete" ELSE "count")
<1>1. /\ TypeOK /\ call[h] \in Frame /\ call[h].at = "session:create" /\ s \in Sessions
      /\ call[h].entry = Null /\ call[h].question = Null
  BY NullIsNoId DEF Session_Create, At, IInv, TypeOK, FrameOK, Chatting, Frame
<1>2. call[h].at \in Chatting /\ call[h].at \notin Hands
  BY <1>1 DEF Chatting, Hands
<1>3. UNCHANGED <<said, jobs, mixed, stale, knowledgeVars>>
  BY DEF Session_Create
<1>4. CASE Return(h) /\ UNCHANGED sessions
  <2>1. Plain(Idle) /\ Idle.at \notin Hands
    BY IdleInFrame DEF Plain, Chatting, Hands
  <2> QED
    BY <1>1, <1>2, <1>3, <1>4, <2>1, IdleInFrame, RestStep DEF Return, Goto, TypeOK
<1>5. CASE /\ ~Live(sessions[s]) /\ sessions' = [sessions EXCEPT ![s] = NewSession] /\ Goto(h, f)
  <2>1. /\ f \in Frame /\ f.at \in {"clear:delete", "count"}
        /\ f.session = s /\ f.entry = Null /\ f.question = Null
    <3>1. "clear:delete" \in Labels /\ "count" \in Labels
      BY DEF Labels
    <3> QED
      BY <1>1, <3>1, MovedFrame
  <2> HIDE DEF f
  <2>2. Plain(f) /\ f.at \notin Hands
    BY <1>1, <2>1, NullIsNoId DEF Plain, Chatting, Hands
  <2>3. call' = [call EXCEPT ![h] = f] /\ UNCHANGED started
    BY <1>5 DEF Goto
  <2>4. PICK t \in Sessions : t = s
    BY <1>1
  <2>5. sessions' = [sessions EXCEPT ![t] = NewSession] /\ ~Live(sessions[t])
    BY <1>5, <2>4
  <2>6. \A u \in Sessions : OrderOK(u)' /\ SummaryOK(u)'
    BY <1>1, <1>2, <1>3, <2>1, <2>2, <2>3, <2>5, SameHands, SessionMade, ZenonT(40)
  <2>7. sessions' \in [Sessions -> Session \cup {Null, Gone}]
    BY <1>1, <2>5, NewSessionIsEmpty DEF TypeOK
  <2> QED
    BY <1>1, <1>2, <1>3, <2>1, <2>2, <2>3, <2>6, <2>7, ChatStep DEF TypeOK
<1> QED
  BY <1>4, <1>5 DEF Session_Create, SetSession

LEMMA IdleIsPlain ==
    /\ Plain(Idle) /\ Idle.at \notin Hands /\ "idle" \notin Hands
BY IdleInFrame DEF Plain, Chatting, Hands

LEMMA CreateConversationStep ==
    ASSUME IInv, NEW h \in Handlers, NEW s \in Sessions, CreateConversation(h, s)
    PROVE  IInv'
<1>1. /\ TypeOK /\ ~Live(sessions[s]) /\ sessions' = [sessions EXCEPT ![s] = NewSession]
      /\ UNCHANGED <<said, jobs, mixed, stale, knowledgeVars>>
  BY NullIsNoId DEF CreateConversation, SetSession, IInv
<1>2. started' \in 0..MaxCalls /\ call' = [call EXCEPT ![h] = Idle] /\ call[h].at = "idle"
  BY <1>1, BegunBound DEF CreateConversation
<1>3. \A t \in Sessions : OrderOK(t)' /\ SummaryOK(t)'
  <2>1. \A t : /\ Adding(t)' = Adding(t) /\ (Emptying(t)' <=> Emptying(t))
               /\ Inserting(t)' = Inserting(t) /\ \A g \in Inserting(t) : call'[g] = call[g]
    <3>1. call[h].at \notin Hands
      BY <1>2, IdleIsPlain
    <3>2. TypeOK /\ Idle \in Frame /\ Idle.at \notin Hands /\ call' = [call EXCEPT ![h] = Idle]
      BY <1>1, <1>2, IdleInFrame, IdleIsPlain
    <3> QED
      BY <3>1, <3>2, SameHands
  <2> QED
    BY <1>1, <2>1, SessionMade
<1>4. sessions' \in [Sessions -> Session \cup {Null, Gone}]
  BY <1>1, NewSessionIsEmpty DEF TypeOK
<1> QED
  BY <1>1, <1>2, <1>3, <1>4, IdleInFrame, IdleIsPlain, ChatStep DEF TypeOK

(* What mixed and stale say when they do not hold a conversation. *)
LEMMA NotMixed ==
    ASSUME NEW h \in Handlers, NEW s, NEW labels, s \notin Mixing(h, s, labels)
    PROVE  \A g \in Handlers \ {h} : call[g].session = s => call[g].at \notin labels
BY DEF Mixing

LEMMA NotStale ==
    ASSUME NEW s, s \notin Staling(s)
    PROVE  \A j \in JobIds : ~(jobs[j] # Null /\ jobs[j].session = s /\ jobs[j].at # "queued")
BY DEF Staling, Working

LEMMA MixingTypes ==
    ASSUME TypeOK, NEW h, NEW s \in Sessions, NEW labels
    PROVE  /\ mixed \cup Mixing(h, s, labels) \subseteq Sessions
           /\ stale \cup Staling(s) \subseteq Sessions
BY DEF TypeOK, Mixing, Staling

LEMMA DeleteSessionStep ==
    ASSUME IInv, NEW h \in Handlers, NEW s \in Sessions, DeleteSession(h, s)
    PROVE  IInv'
<1>1. /\ TypeOK /\ Live(sessions[s]) /\ sessions' = [sessions EXCEPT ![s] = Gone]
      /\ mixed' = mixed \cup Mixing(h, s, {"insert", "update", "clear:reset"})
      /\ stale' = stale \cup Staling(s)
      /\ UNCHANGED <<said, jobs, knowledgeVars>>
  BY DEF DeleteSession, SetSession, IInv
<1>2. started' \in 0..MaxCalls /\ call' = [call EXCEPT ![h] = Idle] /\ call[h].at = "idle"
  BY <1>1, BegunBound DEF DeleteSession
<1>3. \A t : /\ Adding(t)' = Adding(t) /\ (Emptying(t)' <=> Emptying(t))
             /\ Inserting(t)' = Inserting(t) /\ \A g \in Inserting(t) : call'[g] = call[g]
  BY <1>1, <1>2, IdleInFrame, IdleIsPlain, SameHands, ZenonT(40)
<1>4. sessions'[s] = Gone /\ \A t \in Sessions \ {s} : sessions'[t] = sessions[t]
  BY <1>1 DEF TypeOK
<1>5. \A t \in Sessions \ {s} : OrderOK(t)' /\ SummaryOK(t)'
  BY <1>1, <1>3, <1>4, OrderKept, SummaryKept DEF IInv
<1>6. OrderOK(s)'
  <2>1. s \notin mixed' => Adding(s) = {} /\ ~Emptying(s) /\ Inserting(s) = {}
    BY <1>1, <1>2, NotMixed DEF Adding, Emptying, Inserting, At
  <2> QED
    BY <1>3, <1>4, <2>1, NullIsNoId DEF IInv, OrderOK
<1>7. SummaryOK(s)'
  BY <1>1, <1>4, NotStale, NullIsNoId DEF SummaryOK
<1>8. sessions' \in [Sessions -> Session \cup {Null, Gone}]
  BY <1>1 DEF TypeOK
<1>9. mixed' \subseteq Sessions /\ stale' \subseteq Sessions
  BY <1>1, MixingTypes
<1> QED
  BY <1>1, <1>2, <1>5, <1>6, <1>7, <1>8, <1>9, IdleInFrame, IdleIsPlain, ChatStep DEF TypeOK

-----------------------------------------------------------------------------
(* Messages. *)

LEMMA FrameWithSeen ==
    ASSUME NEW h, call[h] \in Frame, NEW label \in Labels, NEW n \in Nat
    PROVE  LET f == [Goes(h, label) EXCEPT !.seen = n] IN
           /\ f \in Frame /\ f.at = label /\ f.seen = n
           /\ f.session = call[h].session /\ f.role = call[h].role
           /\ f.entry = call[h].entry /\ f.question = call[h].question
BY DEF Frame, Goes

LEMMA FrameWithRole ==
    ASSUME NEW h, call[h] \in Frame, NEW role \in {"user", "assistant", "error"}
    PROVE  LET f == [Goes(h, "count") EXCEPT !.role = role] IN
           /\ f \in Frame /\ f.at = "count" /\ f.session = call[h].session
           /\ f.entry = call[h].entry /\ f.question = call[h].question
BY DEF Frame, Goes, Labels

LEMMA ChatFrame ==
    ASSUME IInv, NEW h \in Handlers, NEW label \in Chatting, At(h, label)
    PROVE  /\ TypeOK /\ call[h] \in Frame /\ call[h].at = label /\ call[h].at \in Chatting
           /\ call[h].entry = Null /\ call[h].question = Null
           /\ \E s \in Sessions : s = call[h].session
BY NullIsNoId DEF At, IInv, TypeOK, FrameOK, Frame

LEMMA Message_CountStep ==
    ASSUME IInv, NEW h \in Handlers, Message_Count(h)
    PROVE  IInv'
<1>1. At(h, "count") /\ "count" \in Chatting
  BY DEF Message_Count, Chatting
<1>2. /\ TypeOK /\ call[h] \in Frame /\ call[h].at = "count" /\ call[h].at \in Chatting
      /\ call[h].entry = Null /\ call[h].question = Null
  BY <1>1, ChatFrame
<1>3. PICK s \in Sessions : s = call[h].session
  BY <1>1, ChatFrame
<1>4. PICK n \in Nat : n = NumberSeen(s)
  BY <1>2, LiveRows, SessionParts DEF NumberSeen
<1> DEFINE f == [Goes(h, "insert") EXCEPT !.seen = n]
<1>5. /\ call' = [call EXCEPT ![h] = f] /\ UNCHANGED started
      /\ UNCHANGED <<sessions, said, jobs, mixed, stale, knowledgeVars>>
  BY <1>3, <1>4 DEF Message_Count, Goto, chatVars
<1>6. /\ f \in Frame /\ f.at = "insert" /\ f.seen = n /\ f.session = s
      /\ f.entry = Null /\ f.question = Null
  <2>1. "insert" \in Labels
    BY DEF Labels
  <2> QED
    BY <1>2, <1>3, <2>1, FrameWithSeen
<1> HIDE DEF f
<1>7. Plain(f)
  BY <1>6, NullIsNoId DEF Plain, Chatting
<1>8. call'[h] = f /\ \A g \in Handlers \ {h} : call'[g] = call[g]
  BY <1>2, <1>5, <1>6, MovedCall
<1>9. \A t : Adding(t)' = Adding(t) /\ (Emptying(t)' <=> Emptying(t))
  BY <1>2, <1>6, <1>8 DEF Adding, Emptying, At
<1>10. \A t \in Sessions \ {s} :
          \A g \in Inserting(t)' : g \in Inserting(t) /\ call'[g] = call[g]
  BY <1>6, <1>8 DEF Inserting, At
<1>11. \A t \in Sessions \ {s} : OrderOK(t)'
  BY <1>5, <1>9, <1>10, OrderKept DEF IInv
<1>12. OrderOK(s)'
  <2>1. \A g \in Inserting(s)' : g = h \/ (g \in Inserting(s) /\ call'[g] = call[g])
    BY <1>8 DEF Inserting, At
  <2>2. s \notin mixed => \A g \in Inserting(s)' : call'[g].seen = NumberSeen(s)
    BY <1>4, <1>6, <1>8, <2>1 DEF IInv, OrderOK
  <2> QED
    BY <1>5, <1>9, <2>2 DEF IInv, OrderOK, NumberSeen
<1>13. \A t \in Sessions : SummaryOK(t)'
  BY <1>5, <1>9, SummaryKept DEF IInv
<1> QED
  BY <1>2, <1>5, <1>6, <1>7, <1>11, <1>12, <1>13, ChatStep DEF TypeOK

(* Handlers that give up a message stay out of the way. *)
LEMMA LeavesHand ==
    ASSUME TypeOK, NEW h \in Handlers, NEW f \in Frame, call' = [call EXCEPT ![h] = f],
           f.at \notin Hands, NEW s
    PROVE  /\ Adding(s)' = Adding(s) \ {h}
           /\ \A g \in Inserting(s)' : g \in Inserting(s) /\ call'[g] = call[g]
           /\ call[h].session # s \/ call[h].at # "update" => Adding(s)' = Adding(s)
           /\ call[h].session # s \/ call[h].at # "clear:reset" =>
                 (Emptying(s)' <=> Emptying(s))
<1>1. call'[h] = f /\ \A g \in Handlers \ {h} : call'[g] = call[g]
  BY MovedCall
<1> QED
  BY <1>1 DEF Adding, Emptying, Inserting, Hands, At

LEMMA FailsStep ==
    ASSUME IInv, NEW h \in Handlers, NEW s \in Sessions, s = call[h].session,
           call[h].at \in {"insert", "update"}, ~Live(sessions[s]), Fails(h),
           UNCHANGED <<sessions, said, jobs, mixed, stale, knowledgeVars>>
    PROVE  IInv'
<1>1. /\ TypeOK /\ call[h] \in Frame /\ call[h].at \in Chatting
      /\ call[h].entry = Null /\ call[h].question = Null
  BY DEF Chatting, IInv, TypeOK, FrameOK
<1>2. PICK f \in Frame : /\ call' = [call EXCEPT ![h] = f] /\ UNCHANGED started
                         /\ Plain(f) /\ f.at \notin Hands
  <2>1. CASE Goto(h, [Goes(h, "count") EXCEPT !.role = "error"])
    <3> DEFINE e == [Goes(h, "count") EXCEPT !.role = "error"]
    <3>1. /\ e \in Frame /\ e.at = "count" /\ e.session = s
          /\ e.entry = Null /\ e.question = Null
      BY <1>1, FrameWithRole
    <3>2. call' = [call EXCEPT ![h] = e] /\ UNCHANGED started
      BY <2>1 DEF Goto
    <3> HIDE DEF e
    <3>3. Plain(e) /\ e.at \notin Hands
      BY <3>1, NullIsNoId DEF Plain, Chatting, Hands
    <3> QED
      BY <3>1, <3>2, <3>3
  <2>2. CASE Return(h)
    BY <2>2, IdleInFrame, IdleIsPlain DEF Return, Goto
  <2> QED
    BY <2>1, <2>2 DEF Fails
<1>3. \A t : /\ Adding(t)' = Adding(t) \ {h} /\ (Emptying(t)' <=> Emptying(t))
             /\ \A g \in Inserting(t)' : g \in Inserting(t) /\ call'[g] = call[g]
             /\ t # s => Adding(t)' = Adding(t)
  BY <1>1, <1>2, LeavesHand
<1>4. \A t \in Sessions \ {s} : OrderOK(t)'
  BY <1>2, <1>3, OrderKept DEF IInv
<1>5. OrderOK(s)'
  <2>1. IsFiniteSet(Adding(s) \ {h})
    BY FS_RemoveElement DEF IInv, OrderOK
  <2>2. IsFiniteSet(Adding(s)')
    BY <1>3, <2>1
  <2>3. s \notin mixed => Adding(s)' = {}
    BY <1>3 DEF IInv, OrderOK
  <2> QED
    BY <1>3, <2>2, <2>3 DEF IInv, OrderOK, NumberSeen
<1>6. \A t \in Sessions : SummaryOK(t)'
  BY <1>3, SummaryKept DEF IInv
<1> QED
  BY <1>1, <1>2, <1>4, <1>5, <1>6, ChatStep DEF TypeOK

LEMMA Appended ==
    ASSUME NEW session \in Session, NEW msg \in Message
    PROVE  LET new == [session EXCEPT !.msgs = Append(@, msg)] IN
           /\ new \in Session /\ new.count = session.count /\ new.summary = session.summary
           /\ Len(new.msgs) = Len(session.msgs) + 1
           /\ new.msgs[Len(session.msgs) + 1] = msg
           /\ \A i \in 1..Len(session.msgs) : new.msgs[i] = session.msgs[i]
<1>1. session.msgs \in Seq(Message)
  BY SessionParts
<1>2. /\ Append(session.msgs, msg) \in Seq(Message)
      /\ Len(Append(session.msgs, msg)) = Len(session.msgs) + 1
      /\ Append(session.msgs, msg)[Len(session.msgs) + 1] = msg
      /\ \A i \in 1..Len(session.msgs) : Append(session.msgs, msg)[i] = session.msgs[i]
  BY <1>1, AppendProperties
<1> DEFINE msgs == Append(session.msgs, msg)
<1>3. LET new == [session EXCEPT !.msgs = msgs] IN
      /\ new \in Session /\ new.count = session.count /\ new.summary = session.summary
      /\ new.msgs = msgs
  <2>1. msgs \in Seq(Message)
    BY <1>2
  <2> HIDE DEF msgs
  <2> QED
    BY <2>1 DEF Session
<1> QED
  BY <1>2, <1>3

LEMMA Message_InsertStep ==
    ASSUME IInv, NEW h \in Handlers, Message_Insert(h)
    PROVE  IInv'
<1>1. At(h, "insert") /\ "insert" \in Chatting
  BY DEF Message_Insert, Chatting
<1>2. /\ TypeOK /\ call[h] \in Frame /\ call[h].at = "insert" /\ call[h].at \in Chatting
      /\ call[h].entry = Null /\ call[h].question = Null
  BY <1>1, ChatFrame
<1>3. PICK s \in Sessions : s = call[h].session
  BY <1>1, ChatFrame
<1>4. UNCHANGED <<jobs, stale, knowledgeVars>>
  BY DEF Message_Insert
<1>5. CASE ~Live(sessions[s])
  <2>1. Fails(h) /\ UNCHANGED <<sessions, said, mixed>>
    BY <1>3, <1>5 DEF Message_Insert
  <2> QED
    BY <1>2, <1>3, <1>4, <1>5, <2>1, FailsStep
<1>6. CASE Live(sessions[s])
  <2> DEFINE f == Goes(h, "update")
  <2>1. PICK msg \in Message : msg = [no |-> NextNumber(call[h].seen), id |-> said + 1]
    <3>1. call[h].seen \in Nat /\ said \in Nat
      BY <1>2 DEF Frame, TypeOK
    <3>2. [no |-> NextNumber(call[h].seen), id |-> said + 1] \in Message
      BY <3>1 DEF Message, MessageIds, NextNumber
    <3> QED
      BY <3>2
  <2>2. PICK new \in Session : new = [sessions[s] EXCEPT !.msgs = Append(@, msg)]
    BY <1>2, <1>6, LiveRows, Appended
  <2>3. /\ sessions' = [sessions EXCEPT ![s] = new] /\ said' = said + 1
        /\ mixed' = mixed \cup Mixing(h, s, {"insert", "clear:reset"})
        /\ call' = [call EXCEPT ![h] = f] /\ UNCHANGED started
    BY <1>3, <1>6, <2>1, <2>2 DEF Message_Insert, SetSession, Goto
  <2>4. /\ f \in Frame /\ f.at = "update" /\ f.session = s
        /\ f.entry = Null /\ f.question = Null
    <3>1. "update" \in Labels
      BY DEF Labels
    <3> QED
      BY <1>2, <1>3, <3>1, MovedFrame
  <2> HIDE DEF f
  <2>5. Plain(f)
    BY <2>4, NullIsNoId DEF Plain, Chatting
  <2>6. call'[h] = f /\ \A g \in Handlers \ {h} : call'[g] = call[g]
    BY <1>2, <2>3, <2>4, MovedCall
  <2>7. sessions'[s] = new /\ \A t \in Sessions \ {s} : sessions'[t] = sessions[t]
    BY <1>2, <2>3 DEF TypeOK
  <2>8. \A t \in Sessions \ {s} : /\ Adding(t)' = Adding(t)
                                  /\ Inserting(t)' = Inserting(t)
                                  /\ \A g \in Inserting(t) : call'[g] = call[g]
    BY <1>3, <2>4, <2>6 DEF Adding, Inserting, At
  <2>9. \A t : Emptying(t)' <=> Emptying(t)
    BY <1>2, <2>4, <2>6 DEF Emptying, At
  <2>10. \A t \in Sessions \ {s} : OrderOK(t)' /\ SummaryOK(t)'
    BY <1>4, <2>3, <2>7, <2>8, <2>9, OrderKept, SummaryKept DEF IInv
  <2>11. /\ sessions[s] \in Session /\ Live(new)
         /\ new.count = sessions[s].count /\ new.summary = sessions[s].summary
         /\ Len(sessions[s].msgs) \in Nat /\ Len(new.msgs) = Len(sessions[s].msgs) + 1
         /\ new.msgs[Len(sessions[s].msgs) + 1] = msg
         /\ \A i \in 1..Len(sessions[s].msgs) : new.msgs[i] = sessions[s].msgs[i]
    BY <1>2, <1>6, <2>2, LiveRows, SessionParts, RowIsLive, Appended
  <2>12. Adding(s)' = Adding(s) \cup {h}
    BY <2>4, <2>6 DEF Adding, At
  <2>13. IsFiniteSet(Adding(s)) /\ IsFiniteSet(Adding(s) \cup {h})
    BY FS_AddElement DEF IInv, OrderOK
  <2>14. OrderOK(s)'
    <3>1. IsFiniteSet(Adding(s)')
      BY <2>12, <2>13
    <3> SUFFICES ASSUME s \notin mixed'
                 PROVE  /\ \A i \in 1..Len(new.msgs) : new.msgs[i].no = i
                        /\ ~Emptying(s)' /\ Inserting(s)' = {}
                        /\ Len(new.msgs) = new.count + Cardinality(Adding(s)')
      BY <2>7, <2>11, <3>1 DEF OrderOK
    <3>2. s \notin mixed /\ s \notin Mixing(h, s, {"insert", "clear:reset"})
      BY <2>3
    <3>3. \A g \in Handlers \ {h} : call[g].session = s =>
                                       call[g].at \notin {"insert", "clear:reset"}
      BY <3>2, NotMixed
    <3>4. ~Emptying(s) /\ ~Emptying(s)' /\ Inserting(s)' = {}
      BY <1>2, <2>4, <2>6, <3>3 DEF Emptying, Inserting, At
    <3>5. call[h].seen = Len(sessions[s].msgs)
      BY <1>2, <1>3, <1>6, <3>2 DEF IInv, OrderOK, Inserting, At, NumberSeen
    <3>6. \A i \in 1..Len(new.msgs) : new.msgs[i].no = i
      <4>1. msg.no = Len(sessions[s].msgs) + 1
        BY <2>1, <2>11, <3>5 DEF NextNumber
      <4>2. \A i \in 1..Len(sessions[s].msgs) : sessions[s].msgs[i].no = i
        BY <1>6, <3>2 DEF IInv, OrderOK
      <4> QED
        BY <2>11, <4>1, <4>2
    <3>7. Cardinality(Adding(s) \cup {h}) = Cardinality(Adding(s)) + 1
      <4>1. h \notin Adding(s)
        BY <1>2 DEF Adding, At
      <4> QED
        BY <2>13, <4>1, FS_AddElement
    <3>8. Len(sessions[s].msgs) = sessions[s].count + Cardinality(Adding(s))
      BY <1>6, <3>2, <3>4 DEF IInv, OrderOK
    <3>9. Cardinality(Adding(s)) \in Nat /\ sessions[s].count \in Nat
      BY <2>11, <2>13, FS_CardinalityType, SessionParts
    <3>10. Cardinality(Adding(s)') = Cardinality(Adding(s)) + 1
      BY <2>12, <3>7
    <3>11. Len(new.msgs) = new.count + Cardinality(Adding(s)')
      <4>1. Len(new.msgs) = Len(sessions[s].msgs) + 1 /\ new.count = sessions[s].count
        BY <2>11
      <4> QED
        BY <3>8, <3>9, <3>10, <4>1
    <3> QED
      BY <3>4, <3>6, <3>11
  <2>15. SummaryOK(s)'
    <3>1. Ids(s) \subseteq Ids(s)'
      BY <2>7, <2>11 DEF Ids
    <3> QED
      BY <1>4, <1>6, <2>7, <2>9, <2>11, <3>1 DEF IInv, SummaryOK
  <2>16. sessions' \in [Sessions -> Session \cup {Null, Gone}] /\ said' \in Nat
    BY <1>2, <2>3 DEF TypeOK
  <2>17. mixed' \subseteq Sessions
    BY <1>2, <2>3, MixingTypes
  <2> QED
    BY <1>2, <1>4, <2>3, <2>4, <2>5, <2>10, <2>14, <2>15, <2>16, <2>17, ChatStep DEF TypeOK
<1> QED
  BY <1>5, <1>6

LEMMA CountedOne ==
    ASSUME NEW session \in Session
    PROVE  LET new == [session EXCEPT !.count = @ + 1] IN
           /\ new \in Session /\ new.msgs = session.msgs /\ new.summary = session.summary
           /\ new.count = session.count + 1
BY DEF Session

LEMMA Message_UpdateStep ==
    ASSUME IInv, NEW h \in Handlers, Message_Update(h)
    PROVE  IInv'
<1>1. At(h, "update") /\ "update" \in Chatting
  BY DEF Message_Update, Chatting
<1>2. /\ TypeOK /\ call[h] \in Frame /\ call[h].at = "update" /\ call[h].at \in Chatting
      /\ call[h].entry = Null /\ call[h].question = Null
  BY <1>1, ChatFrame
<1>3. PICK s \in Sessions : s = call[h].session
  BY <1>1, ChatFrame
<1>4. UNCHANGED <<said, jobs, mixed, stale, knowledgeVars>>
  BY DEF Message_Update
<1>5. CASE ~Live(sessions[s])
  <2>1. Fails(h) /\ UNCHANGED sessions
    BY <1>3, <1>5 DEF Message_Update
  <2> QED
    BY <1>2, <1>3, <1>4, <1>5, <2>1, FailsStep
<1>6. CASE Live(sessions[s])
  <2>1. PICK new \in Session : new = [sessions[s] EXCEPT !.count = @ + 1]
    BY <1>2, <1>6, LiveRows, CountedOne
  <2>2. /\ sessions' = [sessions EXCEPT ![s] = new]
        /\ IF call[h].role = "user"
           THEN \E role \in {"assistant", "error"} :
                    Goto(h, [Goes(h, "count") EXCEPT !.role = role])
           ELSE Goto(h, Goes(h, "jobs"))
    BY <1>3, <1>6, <2>1 DEF Message_Update, SetSession
  <2>3. PICK f \in Frame : /\ call' = [call EXCEPT ![h] = f] /\ UNCHANGED started
                           /\ f.session = s /\ f.at \in {"count", "jobs"}
                           /\ f.entry = Null /\ f.question = Null
    <3>1. CASE call[h].role = "user"
      <4>1. PICK role \in {"assistant", "error"} :
                  Goto(h, [Goes(h, "count") EXCEPT !.role = role])
        BY <2>2, <3>1
      <4> DEFINE e == [Goes(h, "count") EXCEPT !.role = role]
      <4>2. e \in Frame /\ e.at = "count" /\ e.session = s /\ e.entry = Null /\ e.question = Null
        BY <1>2, <1>3, FrameWithRole, ZenonT(40)
      <4>3. call' = [call EXCEPT ![h] = e] /\ UNCHANGED started
        BY <4>1 DEF Goto
      <4> HIDE DEF e
      <4> QED
        BY <4>2, <4>3
    <3>2. CASE call[h].role # "user"
      <4> DEFINE e == Goes(h, "jobs")
      <4>1. "jobs" \in Labels
        BY DEF Labels
      <4>2. e \in Frame /\ e.at = "jobs" /\ e.session = s /\ e.entry = Null /\ e.question = Null
        BY <1>2, <1>3, <4>1, MovedFrame
      <4>3. call' = [call EXCEPT ![h] = e] /\ UNCHANGED started
        BY <2>2, <3>2 DEF Goto
      <4> HIDE DEF e
      <4> QED
        BY <4>2, <4>3
    <3> QED
      BY <3>1, <3>2
  <2>4. Plain(f) /\ f.at \notin Hands
    BY <2>3, NullIsNoId DEF Plain, Chatting, Hands
  <2>5. \A t : /\ Adding(t)' = Adding(t) \ {h} /\ (Emptying(t)' <=> Emptying(t))
               /\ \A g \in Inserting(t)' : g \in Inserting(t) /\ call'[g] = call[g]
               /\ t # s => Adding(t)' = Adding(t)
    BY <1>2, <1>3, <2>3, <2>4, LeavesHand
  <2>6. sessions'[s] = new /\ \A t \in Sessions \ {s} : sessions'[t] = sessions[t]
    BY <1>2, <2>2 DEF TypeOK
  <2>7. /\ sessions[s] \in Session /\ Live(new) /\ new.count = sessions[s].count + 1
        /\ new.summary = sessions[s].summary /\ new.msgs = sessions[s].msgs
    BY <1>2, <1>6, <2>1, LiveRows, RowIsLive, CountedOne
  <2>8. \A t \in Sessions \ {s} : OrderOK(t)'
    BY <1>4, <2>5, <2>6, OrderKept DEF IInv
  <2>9. ASSUME NEW t \in Sessions PROVE SummaryOK(t)'
    <3>1. /\ Live(sessions'[t]) <=> Live(sessions[t])
          /\ Live(sessions[t]) => /\ sessions'[t].msgs = sessions[t].msgs
                                 /\ sessions'[t].summary = sessions[t].summary
      BY <1>6, <2>6, <2>7
    <3> QED
      BY <1>4, <2>5, <3>1, SummaryKept DEF IInv
  <2>10. h \in Adding(s)
    BY <1>2, <1>3 DEF Adding, At
  <2>11. /\ IsFiniteSet(Adding(s)) /\ IsFiniteSet(Adding(s) \ {h})
         /\ Cardinality(Adding(s) \ {h}) = Cardinality(Adding(s)) - 1
         /\ Cardinality(Adding(s)) \in Nat
    BY <2>10, FS_RemoveElement, FS_CardinalityType DEF IInv, OrderOK
  <2>12. OrderOK(s)'
    <3>1. IsFiniteSet(Adding(s)') /\ Cardinality(Adding(s)') = Cardinality(Adding(s)) - 1
      BY <2>5, <2>11
    <3> SUFFICES ASSUME s \notin mixed'
                 PROVE  /\ \A i \in 1..Len(new.msgs) : new.msgs[i].no = i
                        /\ ~Emptying(s)'
                        /\ Len(new.msgs) = new.count + Cardinality(Adding(s)')
                        /\ \A g \in Inserting(s)' : call'[g].seen = NumberSeen(s)'
      BY <2>6, <2>7, <3>1 DEF OrderOK
    <3>2. s \notin mixed /\ ~Emptying(s) /\ ~Emptying(s)'
      BY <1>4, <2>5, <2>10 DEF IInv, OrderOK
    <3>3. /\ \A i \in 1..Len(sessions[s].msgs) : sessions[s].msgs[i].no = i
          /\ Len(sessions[s].msgs) = sessions[s].count + Cardinality(Adding(s))
      BY <1>6, <3>2 DEF IInv, OrderOK
    <3>4. \A g \in Inserting(s)' : call'[g].seen = NumberSeen(s)'
      <4>1. NumberSeen(s)' = NumberSeen(s)
        BY <1>6, <2>6, <2>7 DEF NumberSeen
      <4>2. \A g \in Inserting(s) : call[g].seen = NumberSeen(s)
        BY <3>2 DEF IInv, OrderOK
      <4> QED
        BY <2>5, <4>1, <4>2
    <3>5. Len(new.msgs) = new.count + Cardinality(Adding(s)')
      <4>1. sessions[s].count \in Nat /\ Len(new.msgs) = Len(sessions[s].msgs)
        BY <2>7, SessionParts
      <4>2. Cardinality(Adding(s)) \in Nat /\ new.count = sessions[s].count + 1
        BY <2>7, <2>11
      <4>3. Len(sessions[s].msgs) = sessions[s].count + Cardinality(Adding(s))
        BY <3>3
      <4>4. Cardinality(Adding(s)') = Cardinality(Adding(s)) - 1
        BY <3>1
      <4>5. PICK a, b \in Nat : a = Cardinality(Adding(s)) /\ b = sessions[s].count
        BY <4>1, <4>2
      <4>6. Len(new.msgs) = b + a /\ new.count = b + 1 /\ Cardinality(Adding(s)') = a - 1
        BY <4>1, <4>2, <4>3, <4>4, <4>5
      <4>7. b + a = (b + 1) + (a - 1)
        OBVIOUS
      <4> QED
        BY <4>6, <4>7
    <3>6. \A i \in 1..Len(new.msgs) : new.msgs[i].no = i
      BY <2>7, <3>3
    <3> QED
      BY <3>2, <3>4, <3>5, <3>6
  <2>13. sessions' \in [Sessions -> Session \cup {Null, Gone}]
    BY <1>2, <2>2 DEF TypeOK
  <2> QED
    BY <1>2, <1>4, <2>3, <2>4, <2>8, <2>9, <2>12, <2>13, ChatStep DEF TypeOK
<1> QED
  BY <1>5, <1>6

LEMMA TriggerBackgroundJobsStep ==
    ASSUME IInv, NEW h \in Handlers, TriggerBackgroundJobs(h)
    PROVE  IInv'
<1>1. At(h, "jobs") /\ "jobs" \in Chatting
  BY DEF TriggerBackgroundJobs, Chatting
<1>2. /\ TypeOK /\ call[h] \in Frame /\ call[h].at = "jobs" /\ call[h].at \in Chatting
      /\ call[h].entry = Null /\ call[h].question = Null
  BY <1>1, ChatFrame
<1>3. PICK s \in Sessions : s = call[h].session
  BY <1>1, ChatFrame
<1>4. UNCHANGED <<sessions, said, mixed, stale, knowledgeVars>>
  BY DEF TriggerBackgroundJobs
<1>5. PICK f \in Frame : /\ call' = [call EXCEPT ![h] = f] /\ UNCHANGED started
                         /\ Plain(f) /\ f.at \notin Hands
  <2>1. CASE call[h].role = "assistant"
    <3> DEFINE e == [Goes(h, "entry") EXCEPT !.session = Null]
    <3>1. e \in Frame /\ e.at = "entry" /\ e.session = Null /\ e.entry = Null /\ e.question = Null
      BY <1>2 DEF Frame, Goes, Labels
    <3>2. call' = [call EXCEPT ![h] = e] /\ UNCHANGED started
      BY <2>1 DEF TriggerBackgroundJobs, Goto
    <3> HIDE DEF e
    <3>3. Plain(e) /\ e.at \notin Hands
      BY <3>1 DEF Plain, Chatting, Hands
    <3> QED
      BY <3>1, <3>2, <3>3
  <2>2. CASE call[h].role # "assistant"
    BY <2>2, IdleInFrame, IdleIsPlain DEF TriggerBackgroundJobs, Return, Goto
  <2> QED
    BY <2>1, <2>2
<1>6. /\ jobs' \in [JobIds -> Job \cup {Null}]
      /\ \A j \in JobIds : jobs'[j] = jobs[j] \/ jobs'[j].at = "queued"
  <2>1. CASE UNCHANGED jobs
    BY <1>2, <2>1 DEF TypeOK
  <2>2. CASE QueueSummary(s)
    <3> DEFINE job == [session |-> s, at |-> "queued", tries |-> 0, content |-> {}]
    <3>1. job \in Job /\ job.at = "queued"
      BY AssistantStoreAssumption DEF Job
    <3>2. PICK j \in JobIds : jobs' = [jobs EXCEPT ![j] = job]
      BY <2>2 DEF QueueSummary
    <3> HIDE DEF job
    <3> QED
      BY <1>2, <3>1, <3>2 DEF TypeOK
  <2> QED
    BY <1>3, <2>1, <2>2 DEF TriggerBackgroundJobs
<1>7. call[h].at \notin Hands
  BY <1>2 DEF Hands
<1> QED
  BY <1>2, <1>4, <1>5, <1>6, <1>7, RestStep DEF TypeOK

-----------------------------------------------------------------------------
(* A conversation is cleared. *)

LEMMA Emptied ==
    ASSUME NEW session \in Session
    PROVE  LET new == [session EXCEPT !.msgs = <<>>] IN
           new \in Session /\ Len(new.msgs) = 0
<1>1. <<>> \in Seq(Message) /\ Len(<<>>) = 0
  OBVIOUS
<1> QED
  BY <1>1 DEF Session

LEMMA Clear_DeleteStep ==
    ASSUME IInv, NEW h \in Handlers, Clear_Delete(h)
    PROVE  IInv'
<1>1. At(h, "clear:delete") /\ "clear:delete" \in Chatting
  BY DEF Clear_Delete, Chatting
<1>2. /\ TypeOK /\ call[h] \in Frame /\ call[h].at = "clear:delete" /\ call[h].at \in Chatting
      /\ call[h].entry = Null /\ call[h].question = Null
  BY <1>1, ChatFrame
<1>3. PICK s \in Sessions : s = call[h].session
  BY <1>1, ChatFrame
<1> DEFINE f == Goes(h, "clear:reset")
<1>4. /\ mixed' = mixed \cup Mixing(h, s, {"insert", "update", "clear:reset"})
      /\ stale' = stale \cup Staling(s)
      /\ call' = [call EXCEPT ![h] = f] /\ UNCHANGED started
      /\ UNCHANGED <<said, jobs, knowledgeVars>>
  BY <1>3 DEF Clear_Delete, Goto
<1>5. /\ f \in Frame /\ f.at = "clear:reset" /\ f.session = s
      /\ f.entry = Null /\ f.question = Null
  <2>1. "clear:reset" \in Labels
    BY DEF Labels
  <2> QED
    BY <1>2, <1>3, <2>1, MovedFrame
<1> HIDE DEF f
<1>6. Plain(f)
  BY <1>5, NullIsNoId DEF Plain, Chatting
<1>7. call'[h] = f /\ \A g \in Handlers \ {h} : call'[g] = call[g]
  BY <1>2, <1>4, <1>5, MovedCall
<1>8. /\ sessions' \in [Sessions -> Session \cup {Null, Gone}]
      /\ \A t \in Sessions \ {s} : sessions'[t] = sessions[t]
      /\ Live(sessions'[s]) => Live(sessions[s]) /\ Len(sessions'[s].msgs) = 0
  <2>1. CASE Live(sessions[s])
    <3>1. PICK new \in Session : new = [sessions[s] EXCEPT !.msgs = <<>>] /\ Len(new.msgs) = 0
      BY <1>2, <2>1, LiveRows, Emptied
    <3>2. sessions' = [sessions EXCEPT ![s] = new]
      BY <1>3, <2>1, <3>1 DEF Clear_Delete
    <3> QED
      BY <1>2, <2>1, <3>1, <3>2 DEF TypeOK
  <2>2. CASE ~Live(sessions[s])
    BY <1>2, <1>3, <2>2 DEF Clear_Delete, TypeOK
  <2> QED
    BY <2>1, <2>2
<1>9. \A t : Adding(t)' = Adding(t) /\ Inserting(t)' = Inserting(t)
  BY <1>2, <1>5, <1>7 DEF Adding, Inserting, At
<1>10. \A t \in Sessions \ {s} : /\ Emptying(t)' <=> Emptying(t)
                                 /\ \A g \in Inserting(t) : call'[g] = call[g]
  BY <1>2, <1>5, <1>7 DEF Emptying, Inserting, At
<1>11. \A t \in Sessions \ {s} : OrderOK(t)' /\ SummaryOK(t)'
  BY <1>4, <1>8, <1>9, <1>10, OrderKept, SummaryKept DEF IInv
<1>12. Emptying(s)'
  BY <1>5, <1>7 DEF Emptying, At
<1>13. OrderOK(s)'
  <2>1. s \notin mixed' => Adding(s) = {} /\ Inserting(s) = {}
    BY <1>2, <1>4, NotMixed DEF Adding, Inserting, At
  <2>2. IsFiniteSet(Adding(s)') /\ (s \notin mixed' => Adding(s)' = {} /\ Inserting(s)' = {})
    BY <1>9, <2>1 DEF IInv, OrderOK
  <2>3. Live(sessions'[s]) => \A i \in 1..Len(sessions'[s].msgs) : sessions'[s].msgs[i].no = i
    BY <1>8
  <2> QED
    BY <1>8, <1>12, <2>2, <2>3 DEF OrderOK
<1>14. SummaryOK(s)'
  BY <1>4, <1>12, NotStale DEF SummaryOK
<1>15. mixed' \subseteq Sessions /\ stale' \subseteq Sessions
  BY <1>2, <1>4, MixingTypes
<1> QED
  BY <1>2, <1>4, <1>5, <1>6, <1>8, <1>11, <1>13, <1>14, <1>15, ChatStep DEF TypeOK

LEMMA ClearedSession ==
    ASSUME NEW session \in Session
    PROVE  /\ Cleared(session) \in Session /\ Cleared(session).msgs = session.msgs
           /\ Cleared(session).count = 0 /\ Cleared(session).summary = {}
BY DEF Cleared, Session

LEMMA Clear_ResetStep ==
    ASSUME IInv, NEW h \in Handlers, Clear_Reset(h)
    PROVE  IInv'
<1>1. At(h, "clear:reset") /\ "clear:reset" \in Chatting
  BY DEF Clear_Reset, Chatting
<1>2. /\ TypeOK /\ call[h] \in Frame /\ call[h].at = "clear:reset" /\ call[h].at \in Chatting
  BY <1>1, ChatFrame
<1>3. PICK s \in Sessions : s = call[h].session
  BY <1>1, ChatFrame
<1>4. /\ stale' = stale \cup Staling(s)
      /\ call' = [call EXCEPT ![h] = Idle] /\ UNCHANGED started
      /\ UNCHANGED <<said, jobs, mixed, knowledgeVars>>
  BY <1>3 DEF Clear_Reset, Return, Goto
<1>5. /\ sessions' \in [Sessions -> Session \cup {Null, Gone}]
      /\ \A t \in Sessions \ {s} : sessions'[t] = sessions[t]
      /\ Live(sessions'[s]) <=> Live(sessions[s])
      /\ Live(sessions[s]) => /\ sessions'[s].msgs = sessions[s].msgs
                              /\ sessions'[s].count = 0 /\ sessions'[s].summary = {}
  <2>1. CASE Live(sessions[s])
    <3>1. PICK new \in Session : new = Cleared(sessions[s])
      BY <1>2, <2>1, LiveRows, ClearedSession
    <3>2. sessions' = [sessions EXCEPT ![s] = new]
      BY <1>3, <2>1, <3>1 DEF Clear_Reset, SetSession
    <3>3. /\ sessions' \in [Sessions -> Session \cup {Null, Gone}] /\ sessions'[s] = new
          /\ \A t \in Sessions \ {s} : sessions'[t] = sessions[t]
      BY <1>2, <3>2 DEF TypeOK
    <3>4. new.msgs = sessions[s].msgs /\ new.count = 0 /\ new.summary = {} /\ Live(new)
      BY <1>2, <2>1, <3>1, LiveRows, RowIsLive, ClearedSession
    <3> QED
      BY <2>1, <3>3, <3>4
  <2>2. CASE ~Live(sessions[s])
    BY <1>2, <1>3, <2>2 DEF Clear_Reset, SetSession, TypeOK
  <2> QED
    BY <2>1, <2>2
<1>6. \A t : /\ Adding(t)' = Adding(t)
             /\ \A g \in Inserting(t)' : g \in Inserting(t) /\ call'[g] = call[g]
             /\ t # s => (Emptying(t)' <=> Emptying(t))
  BY <1>2, <1>3, <1>4, IdleInFrame, IdleIsPlain, LeavesHand
<1>7. \A t \in Sessions \ {s} : OrderOK(t)' /\ SummaryOK(t)'
  BY <1>4, <1>5, <1>6, OrderKept, SummaryKept DEF IInv
<1>8. OrderOK(s)'
  <2>1. Emptying(s)
    BY <1>2, <1>3 DEF Emptying, At
  <2>2. IsFiniteSet(Adding(s)')
    BY <1>6 DEF IInv, OrderOK
  <2>3. s \notin mixed => Adding(s)' = {} /\ (Live(sessions[s]) => Len(sessions[s].msgs) = 0)
    BY <1>6, <2>1 DEF IInv, OrderOK
  <2>4. s \notin mixed => Cardinality(Adding(s)') = 0
    <3> SUFFICES ASSUME s \notin mixed PROVE Cardinality(Adding(s)') = 0
      OBVIOUS
    <3>1. Adding(s)' = {}
      BY <2>3
    <3> QED
      BY <3>1, FS_EmptySet
  <2>5. NumberSeen(s)' = NumberSeen(s)
    BY <1>5 DEF NumberSeen
  <2>6. s \notin mixed => \A g \in Inserting(s)' : call'[g].seen = NumberSeen(s)'
    BY <1>6, <2>5 DEF IInv, OrderOK
  <2> QED
    BY <1>4, <1>5, <2>2, <2>3, <2>4, <2>6 DEF OrderOK
<1>9. SummaryOK(s)'
  BY <1>4, <1>5, NotStale DEF SummaryOK
<1>10. stale' \subseteq Sessions
  BY <1>2, <1>4, MixingTypes
<1> QED
  BY <1>2, <1>4, <1>5, <1>7, <1>8, <1>9, <1>10, IdleInFrame, IdleIsPlain, ChatStep DEF TypeOK

LEMMA ChatCrashStep ==
    ASSUME IInv, NEW h \in Handlers, Crash(h), call[h].at \in Chatting \cup {"entry"}
    PROVE  IInv'
<1>1. TypeOK /\ call[h] \in Frame /\ Plain(call[h])
  BY PlainFrames DEF IInv, TypeOK
<1>2. /\ call' = [call EXCEPT ![h] = Idle] /\ UNCHANGED <<started, sessions, said, jobs>>
      /\ mixed' = mixed \cup {s \in {call[h].session} : call[h].at \in {"update", "clear:reset"}}
      /\ stale' = stale \cup {s \in {call[h].session} : call[h].at = "clear:reset"}
      /\ UNCHANGED <<entries, rows, chunks, removed>>
  BY DEF Crash, Return, Goto
<1>3. contested' = contested /\ torn' = torn
  BY <1>1 DEF Crash, Plain
<1>4. UNCHANGED knowledgeVars
  BY <1>2, <1>3 DEF knowledgeVars
<1>5. call[h].at \in {"update", "clear:reset"} => call[h].session \in Sessions
  BY <1>1 DEF Plain, Chatting, Frame
<1>6. mixed' \subseteq Sessions /\ stale' \subseteq Sessions
  BY <1>1, <1>2, <1>5 DEF TypeOK
<1>7. \A t : /\ Adding(t)' = Adding(t) \ {h}
             /\ \A g \in Inserting(t)' : g \in Inserting(t) /\ call'[g] = call[g]
             /\ (call[h].session # t \/ call[h].at # "update" => Adding(t)' = Adding(t))
             /\ (call[h].session # t \/ call[h].at # "clear:reset" =>
                    (Emptying(t)' <=> Emptying(t)))
  BY <1>1, <1>2, IdleInFrame, IdleIsPlain, LeavesHand
<1>8. ASSUME NEW t \in Sessions PROVE OrderOK(t)'
  <2>1. CASE call[h].session = t /\ call[h].at \in {"update", "clear:reset"}
    <3>1. t \in mixed'
      BY <1>2, <2>1
    <3>2. IsFiniteSet(Adding(t) \ {h})
      BY FS_RemoveElement DEF IInv, OrderOK
    <3> QED
      BY <1>7, <3>1, <3>2 DEF OrderOK
  <2>2. CASE call[h].session # t \/ call[h].at \notin {"update", "clear:reset"}
    BY <1>2, <1>7, <2>2, OrderKept DEF IInv
  <2> QED
    BY <2>1, <2>2
<1>9. ASSUME NEW t \in Sessions PROVE SummaryOK(t)'
  <2>1. CASE call[h].session = t /\ call[h].at = "clear:reset"
    BY <1>2, <2>1 DEF SummaryOK
  <2>2. CASE call[h].session # t \/ call[h].at # "clear:reset"
    BY <1>2, <1>7, <2>2, SummaryKept DEF IInv
  <2> QED
    BY <2>1, <2>2
<1> QED
  BY <1>1, <1>2, <1>4, <1>6, <1>8, <1>9, IdleInFrame, IdleIsPlain, ChatStep DEF TypeOK

-----------------------------------------------------------------------------
(* The jobs that keep the summaries. *)

LEMMA JobStep ==
    ASSUME IInv, UNCHANGED <<said, mixed, stale, knowledgeVars, call, started>>,
           jobs' \in [JobIds -> Job \cup {Null}],
           sessions' \in [Sessions -> Session \cup {Null, Gone}],
           \A s \in Sessions : Live(sessions'[s]) <=> Live(sessions[s]),
           \A s \in Sessions : Live(sessions[s]) =>
               sessions'[s].msgs = sessions[s].msgs /\ sessions'[s].count = sessions[s].count,
           \A s \in Sessions : SummaryOK(s)'
    PROVE  IInv'
<1>1. UNCHANGED <<entries, rows, chunks, contested, torn, removed, call>>
  BY DEF knowledgeVars
<1>2. TypeOK'
  BY <1>1 DEF IInv, TypeOK
<1>3. \A q : Findable(q)' <=> Findable(q)
  BY <1>1 DEF Findable
<1>4. \A g \in Handlers : FrameOK(g)' /\ EntryOK(g)'
  BY <1>1, <1>3 DEF IInv, FrameOK, EntryOK, IsPending
<1>5. \A s : Adding(s)' = Adding(s) /\ (Emptying(s)' <=> Emptying(s))
             /\ Inserting(s)' = Inserting(s)
  BY <1>1 DEF Adding, Emptying, Inserting, At
<1>6. \A s \in Sessions : OrderOK(s)'
  BY <1>1, <1>5, OrderKept DEF IInv
<1>7. TablesOK' /\ OnlyApprovedIsTaught' /\ ApprovedIsFindable'
  BY <1>1, <1>3 DEF IInv, TablesOK, Ordered, OnlyApprovedIsTaught, ApprovedIsFindable
<1> QED
  BY <1>2, <1>4, <1>6, <1>7 DEF IInv

LEMMA JobReads ==
    ASSUME IInv, NEW j \in JobIds, NEW job \in Job \cup {Null},
           jobs' = [jobs EXCEPT ![j] = job],
           UNCHANGED <<sessions, said, mixed, stale, knowledgeVars, call, started>>,
           \A s \in Sessions \ stale :
               job # Null /\ job.session = s /\ job.at # "queued" =>
                   Live(sessions[s]) /\ (~Emptying(s) => job.content \subseteq Ids(s))
    PROVE  IInv'
<1>1. jobs'[j] = job /\ \A i \in JobIds \ {j} : jobs'[i] = jobs[i]
  BY DEF IInv, TypeOK
<1>2. \A s : (Emptying(s)' <=> Emptying(s)) /\ Ids(s)' = Ids(s)
  BY DEF Emptying, Ids, At
<1>3. ASSUME NEW s \in Sessions PROVE SummaryOK(s)'
  BY <1>1, <1>2 DEF IInv, SummaryOK
<1>4. /\ jobs' \in [JobIds -> Job \cup {Null}]
      /\ sessions' \in [Sessions -> Session \cup {Null, Gone}]
  BY DEF IInv, TypeOK
<1> QED
  BY <1>3, <1>4, JobStep

LEMMA RetriedJob ==
    ASSUME NEW job \in Job
    PROVE  /\ Retried(job) \in Job \cup {Null}
           /\ Retried(job) # Null => Retried(job).at = "queued"
<1>1. CASE job.tries + 1 < MaxTries
  <2> DEFINE new == [job EXCEPT !.tries = @ + 1, !.at = "queued", !.content = {}]
  <2>1. job.tries \in Nat /\ job.tries + 1 \in 0..MaxTries
    BY <1>1, AssistantStoreAssumption DEF Job
  <2>2. new \in Job /\ new.at = "queued"
    BY <2>1 DEF Job
  <2> QED
    BY <1>1, <2>2 DEF Retried
<1>2. CASE ~(job.tries + 1 < MaxTries)
  BY <1>2 DEF Retried
<1> QED
  BY <1>1, <1>2

LEMMA JobWaits ==
    ASSUME IInv, NEW j \in JobIds, jobs[j] # Null, jobs' = [jobs EXCEPT ![j] = Retried(jobs[j])],
           UNCHANGED <<sessions, said, mixed, stale, knowledgeVars, call, started>>
    PROVE  IInv'
<1>1. PICK job \in Job \cup {Null} : job = Retried(jobs[j]) /\ (job # Null => job.at = "queued")
  BY LiveRows, RetriedJob DEF IInv
<1> QED
  BY <1>1, JobReads

LEMMA OldMessagesAreOfIt ==
    ASSUME NEW session \in Session
    PROVE  OldMessages(session.msgs) \subseteq {session.msgs[i].id : i \in 1..Len(session.msgs)}
<1>1. Len(session.msgs) \in Nat /\ OldLimit \in Nat
  BY SessionParts, AssistantStoreAssumption
<1>2. CASE Len(session.msgs) <= OldLimit
  BY <1>2 DEF OldMessages
<1>3. CASE ~(Len(session.msgs) <= OldLimit)
  <2>1. (Len(session.msgs) - OldLimit + 1)..Len(session.msgs) \subseteq 1..Len(session.msgs)
    BY <1>1, <1>3
  <2> QED
    BY <1>3, <2>1 DEF OldMessages
<1> QED
  BY <1>2, <1>3

LEMMA JobParts ==
    ASSUME IInv, NEW j \in JobIds, jobs[j] # Null
    PROVE  /\ jobs[j] \in Job /\ jobs[j].session \in Sessions
           /\ jobs[j].content \in SUBSET MessageIds
BY LiveRows DEF IInv, Job

LEMMA JobMoved ==
    ASSUME NEW job \in Job, NEW label \in {"summary", "messages"},
           NEW content \in SUBSET MessageIds
    PROVE  LET new == [job EXCEPT !.at = label, !.content = content] IN
           /\ new \in Job /\ new.at = label /\ new.content = content
           /\ new.session = job.session
BY DEF Job

LEMMA Job_ReadSummaryStep ==
    ASSUME IInv, NEW j \in JobIds, Job_ReadSummary(j)
    PROVE  IInv'
<1>1. /\ jobs[j] # Null
      /\ UNCHANGED <<sessions, said, mixed, stale, knowledgeVars, call, started>>
  BY DEF Job_ReadSummary
<1>2. PICK s \in Sessions : s = jobs[j].session
  BY <1>1, JobParts
<1>3. CASE ~Live(sessions[s])
  BY <1>1, <1>2, <1>3, JobWaits DEF Job_ReadSummary, SetJob
<1>4. CASE Live(sessions[s])
  <2>1. PICK content \in SUBSET MessageIds : content = sessions[s].summary
    BY <1>4, LiveRows, SessionParts DEF IInv
  <2> DEFINE job == [jobs[j] EXCEPT !.at = "summary", !.content = content]
  <2>2. job \in Job /\ job.content = content /\ job.session = s
    BY <1>1, <1>2, JobParts, JobMoved
  <2>3. jobs' = [jobs EXCEPT ![j] = job]
    BY <1>2, <1>4, <2>1 DEF Job_ReadSummary, SetJob
  <2> HIDE DEF job
  <2>4. s \notin stale /\ ~Emptying(s) => content \subseteq Ids(s)
    BY <1>4, <2>1 DEF IInv, SummaryOK
  <2> QED
    BY <1>1, <1>4, <2>2, <2>3, <2>4, JobReads
<1> QED
  BY <1>3, <1>4

LEMMA Job_ReadMessagesStep ==
    ASSUME IInv, NEW j \in JobIds, Job_ReadMessages(j)
    PROVE  IInv'
<1>1. /\ jobs[j] # Null /\ jobs[j].at = "summary"
      /\ UNCHANGED <<sessions, said, mixed, stale, knowledgeVars, call, started>>
  BY DEF Job_ReadMessages
<1>2. PICK s \in Sessions : s = jobs[j].session
  BY <1>1, JobParts
<1> DEFINE old == IF Live(sessions[s]) THEN OldMessages(sessions[s].msgs) ELSE {}
<1>3. CASE old = {}
  BY <1>1, <1>2, <1>3, JobReads DEF Job_ReadMessages, SetJob
<1>4. CASE old # {}
  <2>1. /\ Live(sessions[s]) /\ sessions[s] \in Session
        /\ old \subseteq {sessions[s].msgs[i].id : i \in 1..Len(sessions[s].msgs)}
    BY <1>4, LiveRows, OldMessagesAreOfIt DEF IInv
  <2>2. old \subseteq Ids(s) /\ old \subseteq MessageIds
    BY <2>1, SessionParts DEF Ids
  <2>3. PICK content \in SUBSET MessageIds : content = jobs[j].content \cup old
    BY <1>1, <2>2, JobParts
  <2> DEFINE job == [jobs[j] EXCEPT !.at = "messages", !.content = content]
  <2>4. job \in Job /\ job.content = content /\ job.session = s
    BY <1>1, <1>2, JobParts, JobMoved
  <2>5. jobs' = [jobs EXCEPT ![j] = job]
    BY <1>2, <1>4, <2>3 DEF Job_ReadMessages, SetJob
  <2> HIDE DEF job, old
  <2>6. s \notin stale /\ ~Emptying(s) => content \subseteq Ids(s)
    BY <1>1, <1>2, <2>2, <2>3 DEF IInv, SummaryOK
  <2> QED
    BY <1>1, <2>1, <2>4, <2>5, <2>6, JobReads
<1> QED
  BY <1>3, <1>4

LEMMA Summarised ==
    ASSUME NEW session \in Session, NEW content \in SUBSET MessageIds
    PROVE  LET new == [session EXCEPT !.summary = content] IN
           /\ new \in Session /\ new.msgs = session.msgs /\ new.count = session.count
           /\ new.summary = content
BY DEF Session

LEMMA Job_WriteStep ==
    ASSUME IInv, NEW j \in JobIds, Job_Write(j)
    PROVE  IInv'
<1>1. /\ jobs[j] # Null /\ jobs[j].at = "messages"
      /\ UNCHANGED <<said, mixed, stale, knowledgeVars, call, started>>
  BY DEF Job_Write
<1>2. PICK s \in Sessions : s = jobs[j].session
  BY <1>1, JobParts
<1>3. CASE ~Live(sessions[s])
  BY <1>1, <1>2, <1>3, JobWaits DEF Job_Write, SetJob
<1>4. CASE Live(sessions[s])
  <2>1. PICK content \in SUBSET MessageIds : content = jobs[j].content
    BY <1>1, JobParts
  <2>2. PICK new \in Session :
             /\ new = [sessions[s] EXCEPT !.summary = content]
             /\ new.msgs = sessions[s].msgs /\ new.count = sessions[s].count
             /\ new.summary = content /\ Live(new)
    <3> DEFINE new == [sessions[s] EXCEPT !.summary = content]
    <3>1. /\ new \in Session /\ new.msgs = sessions[s].msgs /\ new.count = sessions[s].count
          /\ new.summary = content
      BY <1>4, LiveRows, Summarised DEF IInv
    <3>2. new = [sessions[s] EXCEPT !.summary = content]
      OBVIOUS
    <3> HIDE DEF new
    <3> QED
      BY <3>1, <3>2, RowIsLive
  <2>3. sessions' = [sessions EXCEPT ![s] = new] /\ jobs' = [jobs EXCEPT ![j] = Null]
    BY <1>2, <1>4, <2>1, <2>2 DEF Job_Write, SetJob, SetSession
  <2>4. sessions'[s] = new /\ \A t \in Sessions \ {s} : sessions'[t] = sessions[t]
    BY <2>3 DEF IInv, TypeOK
  <2>5. jobs'[j] = Null /\ \A i \in JobIds \ {j} : jobs'[i] = jobs[i]
    BY <2>3 DEF IInv, TypeOK
  <2>6. \A t : Emptying(t)' <=> Emptying(t)
    BY <1>1 DEF Emptying, At
  <2>7. ASSUME NEW t \in Sessions \ {s} PROVE SummaryOK(t)'
    BY <1>1, <2>4, <2>5, <2>6, SummaryKept DEF IInv
  <2>8. SummaryOK(s)'
    <3>1. Ids(s)' = Ids(s)
      BY <2>2, <2>4 DEF Ids
    <3>2. s \notin stale /\ ~Emptying(s) => content \subseteq Ids(s)
      BY <1>1, <1>2, <2>1 DEF IInv, SummaryOK
    <3> QED
      BY <1>1, <1>4, <2>2, <2>4, <2>5, <2>6, <3>1, <3>2 DEF IInv, SummaryOK
  <2>9. /\ jobs' \in [JobIds -> Job \cup {Null}]
        /\ sessions' \in [Sessions -> Session \cup {Null, Gone}]
    BY <2>3 DEF IInv, TypeOK
  <2> QED
    BY <1>1, <1>4, <2>2, <2>4, <2>7, <2>8, <2>9, JobStep
<1> QED
  BY <1>3, <1>4

LEMMA Job_FailStep ==
    ASSUME IInv, NEW j \in JobIds, Job_Fail(j)
    PROVE  IInv'
BY JobWaits DEF Job_Fail, SetJob

-----------------------------------------------------------------------------
(* What the assistant is taught: what a step of one handler leaves alone.  *)

LEMMA ConversationsKept ==
    ASSUME IInv, NEW h \in Handlers, NEW f \in Frame, call' = [call EXCEPT ![h] = f],
           call[h].at \notin Chatting, f.at \notin Chatting, UNCHANGED chatVars
    PROVE  \A s \in Sessions : OrderOK(s)' /\ SummaryOK(s)'
<1>1. UNCHANGED <<sessions, said, jobs, mixed, stale>>
  BY DEF chatVars
<1>2. call[h].at \notin Hands /\ f.at \notin Hands
  BY DEF Chatting, Hands
<1>3. \A s : /\ Adding(s)' = Adding(s) /\ (Emptying(s)' <=> Emptying(s))
             /\ Inserting(s)' = Inserting(s) /\ \A g \in Inserting(s) : call'[g] = call[g]
  BY <1>2, SameHands DEF IInv
<1> QED
  BY <1>1, <1>3, OrderKept, SummaryKept DEF IInv

LEMMA StillFindable ==
    ASSUME TypeOK, NEW h \in Handlers, NEW f \in Frame, call' = [call EXCEPT ![h] = f],
           removed \subseteq removed', torn \subseteq torn',
           \A c \in RowIds : Live(chunks[c]) =>
               \/ Live(chunks'[c]) /\ chunks'[c].question = chunks[c].question
               \/ chunks[c].question \in removed',
           call[h].at \in Storing =>
               \/ f.at \in Storing /\ f.question = call[h].question
               \/ call[h].question \in torn'
               \/ \E c \in RowIds : Live(chunks'[c]) /\ chunks'[c].question = call[h].question
    PROVE  \A q : Findable(q) => Findable(q)'
<1> SUFFICES ASSUME NEW q, Findable(q) PROVE Findable(q)'
  OBVIOUS
<1>1. call'[h] = f /\ \A g \in Handlers \ {h} : call'[g] = call[g]
  BY MovedCall
<1>2. CASE \E c \in RowIds : Live(chunks[c]) /\ chunks[c].question = q
  BY <1>2 DEF Findable
<1>3. CASE q \in removed \cup torn
  BY <1>3 DEF Findable
<1>4. CASE \E g \in Handlers : call[g].question = q /\ call[g].at \in Storing
  BY <1>1, <1>4 DEF Findable, Storing
<1> QED
  BY <1>2, <1>3, <1>4 DEF Findable, Storing

LEMMA FindableIsEnough ==
    ASSUME \A e \in RowIds : entries'[e] # Null /\ entries'[e].status = "approved" =>
               \A q : q = entries'[e].question => Findable(q)'
    PROVE  ApprovedIsFindable'
BY DEF ApprovedIsFindable, Findable, Editing

LEMMA WasFindable ==
    ASSUME IInv, NEW e \in RowIds, entries[e] # Null, entries[e].status = "approved"
    PROVE  Findable(entries[e].question)
BY DEF IInv, ApprovedIsFindable, Findable, Editing

LEMMA KnowledgeStep ==
    ASSUME IInv, NEW h \in Handlers, NEW f \in Frame, call' = [call EXCEPT ![h] = f],
           call[h].at \notin Chatting, f.at \notin Chatting, UNCHANGED chatVars,
           started' \in 0..MaxCalls,
           entries' \in [RowIds -> Entry \cup {Null}], rows' \in [RowIds -> Row \cup {Null, Gone}],
           chunks' \in [RowIds -> Chunk \cup {Null, Gone}],
           contested' \subseteq RowIds, torn' \subseteq Questions, removed' \subseteq Questions,
           contested \subseteq contested', \A q : Findable(q) => Findable(q)',
           \A e \in RowIds : entries[e] # Null =>
               /\ entries'[e] # Null /\ entries'[e].question = entries[e].question
               /\ e # call[h].entry => entries'[e] = entries[e],
           \A g \in Handlers \ {h} : call[g].entry # Null /\ call[g].entry = f.entry =>
               f.entry = call[h].entry \/ f.entry \in contested',
           FrameOK(h)', EntryOK(h)', TablesOK', OnlyApprovedIsTaught', ApprovedIsFindable'
    PROVE  IInv'
<1>1. call'[h] = f /\ \A g \in Handlers \ {h} : call'[g] = call[g]
  BY MovedCall DEF IInv
<1>2. TypeOK'
  BY MovedCall DEF IInv, TypeOK, chatVars
<1>3. ASSUME NEW g \in Handlers \ {h} PROVE FrameOK(g)'
  BY <1>1 DEF IInv, FrameOK
<1>4. ASSUME NEW g \in Handlers \ {h} PROVE EntryOK(g)'
  <2>1. EntryOK(g) /\ call[g] \in Frame /\ call'[g] = call[g]
    BY <1>1 DEF IInv, TypeOK
  <2> SUFFICES ASSUME NEW e \in RowIds, e = call[g].entry
               PROVE  /\ entries'[e] # Null
                      /\ call[g].at # "reject:write" => call[g].question = entries'[e].question
                      /\ e \notin contested' =>
                            /\ entries'[e].status = "pending"
                            /\ \A k \in Handlers \ {g} : call'[k].entry # e
    BY <2>1 DEF EntryOK, IsPending, Frame
  <2>2. e # Null
    BY NullIsNoId
  <2>3. /\ entries[e] # Null
        /\ call[g].at # "reject:write" => call[g].question = entries[e].question
        /\ e \notin contested => /\ entries[e].status = "pending"
                                 /\ \A k \in Handlers \ {g} : call[k].entry # e
    BY <2>1, <2>2 DEF EntryOK, IsPending
  <2>4. e \notin contested' => call[h].entry # e /\ f.entry # e
    BY <2>2, <2>3
  <2> QED
    BY <1>1, <2>3, <2>4
<1>5. \A s \in Sessions : OrderOK(s)' /\ SummaryOK(s)'
  BY ConversationsKept
<1> QED
  BY <1>2, <1>3, <1>4, <1>5 DEF IInv

(* A step that only moves a handler, and says why what it leaves is not    *)
(* as it should be.                                                        *)
LEMMA StoreKept ==
    ASSUME IInv, NEW h \in Handlers, NEW f \in Frame, call' = [call EXCEPT ![h] = f],
           call[h].at \notin Chatting, f.at \notin Chatting, UNCHANGED chatVars,
           started' \in 0..MaxCalls, UNCHANGED <<entries, rows, chunks>>,
           contested' \subseteq RowIds, torn' \subseteq Questions, removed' \subseteq Questions,
           contested \subseteq contested', torn \subseteq torn', removed \subseteq removed',
           call[h].at \in Storing =>
               \/ f.at \in Storing /\ f.question = call[h].question
               \/ call[h].question \in torn',
           call[h].at \in Approving =>
               \/ f.at \in Approving /\ f.entry = call[h].entry
               \/ call[h].entry \in contested',
           \A g \in Handlers \ {h} : call[g].entry # Null /\ call[g].entry = f.entry =>
               f.entry = call[h].entry \/ f.entry \in contested',
           FrameOK(h)', EntryOK(h)'
    PROVE  IInv'
<1>1. call'[h] = f /\ \A g \in Handlers \ {h} : call'[g] = call[g]
  BY MovedCall DEF IInv
<1>2. \A q : Findable(q) => Findable(q)'
  BY StillFindable DEF IInv
<1>3. TablesOK'
  BY <1>2 DEF IInv, TablesOK, Ordered
<1>4. OnlyApprovedIsTaught'
  BY <1>1 DEF IInv, OnlyApprovedIsTaught, Approving
<1>5. ApprovedIsFindable'
  BY <1>2, WasFindable, FindableIsEnough
<1> QED
  BY <1>2, <1>3, <1>4, <1>5, KnowledgeStep DEF IInv, TypeOK

LEMMA KnowledgeFrame ==
    ASSUME IInv, NEW h \in Handlers, call[h].at \notin Chatting
    PROVE  /\ TypeOK /\ call[h] \in Frame /\ call[h].session = Null
           /\ started \in 0..MaxCalls /\ contested \subseteq RowIds
           /\ torn \subseteq Questions /\ removed \subseteq Questions
           /\ call[h].question # Null => call[h].question \in Questions
           /\ call[h].entry # Null => call[h].entry \in RowIds
           /\ FrameOK(h) /\ EntryOK(h)
BY DEF IInv, TypeOK, FrameOK, Frame

LEMMA IdleFrameOK ==
    ASSUME NEW h \in Handlers, call'[h] = Idle
    PROVE  FrameOK(h)' /\ EntryOK(h)'
<1>1. /\ Idle.at \notin Chatting \cup Saving \cup Editing \cup Approving
      /\ Idle.at \notin {"save:chunk", "drop:row", "reject:write"}
  BY IdleInFrame DEF Chatting, Saving, Editing, Approving
<1> QED
  BY <1>1, IdleInFrame DEF FrameOK, EntryOK

(* A handler ends, and says what it leaves behind. *)
LEMMA Returns ==
    ASSUME IInv, NEW h \in Handlers, call' = [call EXCEPT ![h] = Idle],
           call[h].at \notin Chatting, UNCHANGED <<chatVars, started, entries, rows, chunks>>,
           contested' \subseteq RowIds, torn' \subseteq Questions, removed' \subseteq Questions,
           contested \subseteq contested', torn \subseteq torn', removed \subseteq removed',
           call[h].at \in Storing => call[h].question \in torn',
           call[h].at \in Approving => call[h].entry \in contested'
    PROVE  IInv'
<1>1. call'[h] = Idle /\ Idle \in Frame /\ Idle.entry = Null
  BY IdleInFrame, MovedCall DEF IInv
<1>2. FrameOK(h)' /\ EntryOK(h)'
  BY <1>1, IdleFrameOK
<1>3. Idle.at \notin Chatting
  BY IdleInFrame DEF Chatting
<1>4. started' \in 0..MaxCalls
  BY KnowledgeFrame
<1> QED
  BY <1>1, <1>2, <1>3, <1>4, StoreKept

LEMMA SameEntryOK ==
    ASSUME IInv, NEW h \in Handlers, NEW f \in Frame, call' = [call EXCEPT ![h] = f],
           f.entry = call[h].entry, f.question = call[h].question, call[h].at # "reject:write",
           UNCHANGED entries, contested \subseteq contested'
    PROVE  EntryOK(h)'
<1>1. call'[h] = f /\ \A g \in Handlers \ {h} : call'[g] = call[g]
  BY MovedCall DEF IInv
<1>2. EntryOK(h)
  BY DEF IInv
<1> QED
  BY <1>1, <1>2 DEF EntryOK, IsPending

(* A handler goes on with its question and its entry. *)
LEMMA Moves ==
    ASSUME IInv, NEW h \in Handlers, NEW f \in Frame, call' = [call EXCEPT ![h] = f],
           f.entry = call[h].entry, f.question = call[h].question, f.session = Null,
           call[h].at \notin Chatting \cup {"idle", "reject:write"},
           UNCHANGED <<chatVars, knowledgeVars, started>>,
           call[h].at \in Storing => f.at \in Storing,
           call[h].at \in Approving => f.at \in Approving,
           f.at \in Saving \cup Editing \cup Approving,
           f.at \in Approving => call[h].entry # Null /\ Findable(call[h].question),
           f.at \in Editing => call[h].entry = Null,
           f.at \in Storing => f.seen \in RowIds,
           call[h].question \in Questions
    PROVE  IInv'
<1>1. call'[h] = f /\ UNCHANGED <<entries, rows, chunks, contested, torn, removed>>
  BY MovedCall DEF IInv, knowledgeVars
<1>2. /\ f.at \notin Chatting \cup {"idle", "entry", "drop:row", "reject:write"}
      /\ f.at \in {"save:chunk"} \cup Editing <=> f.at \in Storing
      /\ f.at \in Saving \cup Editing \cup Approving
  BY DEF Chatting, Saving, Editing, Approving, Storing
<1>3. EntryOK(h)'
  BY <1>1, SameEntryOK
<1>4. \A q : Findable(q) => Findable(q)'
  BY <1>1, StillFindable DEF IInv
<1>5. FrameOK(h)'
  <2>1. f.at \in Approving => \A q : q = f.question => Findable(q)'
    BY <1>4
  <2> QED
    BY <1>1, <1>2, <2>1 DEF FrameOK
<1>6. call[h].at \notin Chatting
  OBVIOUS
<1> QED
  BY <1>1, <1>2, <1>3, <1>5, <1>6, StoreKept, KnowledgeFrame

LEMMA Approve_FindStep ==
    ASSUME IInv, NEW h \in Handlers, NEW e \in RowIds, Approve_Find(h, e)
    PROVE  IInv'
<1>1. PICK q \in Questions : q = entries[e].question
  BY LiveRows DEF Approve_Find, IInv, Entry
<1> DEFINE f == [Idle EXCEPT !.at = "save:find", !.entry = e, !.question = q]
<1>2. /\ f \in Frame /\ f.at = "save:find" /\ f.session = Null
      /\ f.entry = e /\ f.question = q
  BY DEF Idle, Frame, Labels
<1>3. /\ Begin(h, "approve", f) /\ contested' = contested \cup Contesting(h, e)
      /\ entries[e] # Null /\ entries[e].status = "pending"
      /\ UNCHANGED <<chatVars, entries, rows, chunks, torn, removed>>
  BY <1>1 DEF Approve_Find, IsPending
<1> HIDE DEF f
<1>4. started' \in 0..MaxCalls /\ call' = [call EXCEPT ![h] = f] /\ call[h].at = "idle"
  BY <1>3, BegunBound DEF IInv
<1>5. /\ call[h].at \notin Chatting \cup Storing \cup Approving
      /\ f.at \notin Chatting \cup Editing \cup Approving \cup {"save:chunk"}
      /\ f.at \in Saving
  BY <1>2, <1>4 DEF Chatting, Storing, Editing, Approving, Saving
<1>6. call'[h] = f /\ \A g \in Handlers \ {h} : call'[g] = call[g]
  BY <1>2, <1>4, MovedCall DEF IInv
<1>7. \A g \in Handlers \ {h} : call[g].entry = e => e \in contested'
  BY <1>3 DEF Contesting
<1>8. FrameOK(h)'
  BY <1>2, <1>5, <1>6, NullIsNoId DEF FrameOK
<1>9. EntryOK(h)'
  BY <1>1, <1>2, <1>3, <1>6, <1>7 DEF EntryOK, IsPending
<1>10. contested' \subseteq RowIds
  BY <1>3 DEF IInv, TypeOK, Contesting
<1> QED
  BY <1>2, <1>3, <1>4, <1>5, <1>7, <1>8, <1>9, <1>10, StoreKept DEF IInv, TypeOK

LEMMA Reject_FindStep ==
    ASSUME IInv, NEW h \in Handlers, NEW e \in RowIds, Reject_Find(h, e)
    PROVE  IInv'
<1> DEFINE f == [Idle EXCEPT !.at = "reject:write", !.entry = e]
<1>2. /\ f \in Frame /\ f.at = "reject:write" /\ f.session = Null /\ f.entry = e
  BY DEF Idle, Frame, Labels
<1>3. /\ Begin(h, "reject", f) /\ contested' = contested \cup Contesting(h, e)
      /\ entries[e] # Null /\ entries[e].status = "pending"
      /\ UNCHANGED <<chatVars, entries, rows, chunks, torn, removed>>
  BY DEF Reject_Find, Rejectable, IsPending
<1> HIDE DEF f
<1>4. started' \in 0..MaxCalls /\ call' = [call EXCEPT ![h] = f] /\ call[h].at = "idle"
  BY <1>3, BegunBound DEF IInv
<1>5. /\ call[h].at \notin Chatting \cup Storing \cup Approving
      /\ f.at \notin Chatting \cup Editing \cup Approving \cup Saving
      /\ f.at \notin {"idle", "entry", "drop:row", "save:chunk"}
  BY <1>2, <1>4 DEF Chatting, Storing, Editing, Approving, Saving
<1>6. call'[h] = f /\ \A g \in Handlers \ {h} : call'[g] = call[g]
  BY <1>2, <1>4, MovedCall DEF IInv
<1>7. \A g \in Handlers \ {h} : call[g].entry = e => e \in contested'
  BY <1>3 DEF Contesting
<1>8. FrameOK(h)'
  BY <1>2, <1>5, <1>6, NullIsNoId DEF FrameOK
<1>9. EntryOK(h)'
  BY <1>2, <1>3, <1>6, <1>7 DEF EntryOK, IsPending
<1>10. contested' \subseteq RowIds
  BY <1>3 DEF IInv, TypeOK, Contesting
<1> QED
  BY <1>2, <1>3, <1>4, <1>5, <1>7, <1>8, <1>9, <1>10, StoreKept DEF IInv, TypeOK

LEMMA TeachStep ==
    ASSUME IInv, NEW h \in Handlers, NEW q \in Questions, Teach(h, q)
    PROVE  IInv'
<1> DEFINE f == [Idle EXCEPT !.at = "save:find", !.question = q]
<1>2. /\ f \in Frame /\ f.at = "save:find" /\ f.session = Null
      /\ f.entry = Null /\ f.question = q
  BY DEF Idle, Frame, Labels
<1>3. /\ Begin(h, "teach", f)
      /\ UNCHANGED <<chatVars, entries, rows, chunks, contested, torn, removed>>
  BY DEF Teach, knowledgeVars
<1> HIDE DEF f
<1>4. started' \in 0..MaxCalls /\ call' = [call EXCEPT ![h] = f] /\ call[h].at = "idle"
  BY <1>3, BegunBound DEF IInv
<1>5. /\ call[h].at \notin Chatting \cup Storing \cup Approving
      /\ f.at \notin Chatting \cup Editing \cup Approving
      /\ f.at \notin {"idle", "entry", "drop:row", "save:chunk", "reject:write"}
      /\ f.at \in Saving
  BY <1>2, <1>4 DEF Chatting, Storing, Editing, Approving, Saving
<1>6. call'[h] = f
  BY <1>2, <1>4, MovedCall DEF IInv
<1>8. FrameOK(h)' /\ EntryOK(h)'
  BY <1>2, <1>5, <1>6 DEF FrameOK, EntryOK
<1> QED
  BY <1>2, <1>3, <1>4, <1>5, <1>8, StoreKept DEF IInv, TypeOK

-----------------------------------------------------------------------------
(* Handlers that look before they write. *)

LEMMA SaveLabels ==
    /\ {"save:find", "save:template", "save:insert", "save:chunk", "approve:check",
        "approve:write", "edit:template", "edit:find", "edit:chunk", "reject:write",
        "drop:row"} \subseteq Labels
    /\ Saving \cap (Chatting \cup Editing \cup Approving \cup {"idle", "reject:write"}) = {}
    /\ Editing \cap (Chatting \cup Approving \cup {"idle", "reject:write"}) = {}
    /\ Approving \cap (Chatting \cup Storing \cup {"idle", "reject:write"}) = {}
    /\ {"save:find", "save:template", "save:insert"} \cap Storing = {}
BY DEF Labels, Saving, Editing, Approving, Chatting, Storing

LEMMA WorkingFrame ==
    ASSUME IInv, NEW h \in Handlers, NEW label \in Saving \cup Editing \cup Approving,
           At(h, label)
    PROVE  /\ TypeOK /\ call[h] \in Frame /\ call[h].at = label /\ call[h].session = Null
           /\ label \notin Chatting \cup {"idle", "reject:write"}
           /\ call[h].question \in Questions
           /\ FrameOK(h) /\ EntryOK(h) /\ contested \subseteq RowIds
           /\ torn \subseteq Questions /\ removed \subseteq Questions
<1>1. call[h].at = label /\ label \notin Chatting \cup {"idle", "reject:write"}
  BY SaveLabels DEF At
<1> QED
  BY <1>1, KnowledgeFrame DEF FrameOK

LEMMA RowIdsAreNat == RowIds \subseteq Nat
BY DEF RowIds

LEMMA Save_FindStep ==
    ASSUME IInv, NEW h \in Handlers, Save_Find(h)
    PROVE  IInv'
<1>1. At(h, "save:find") /\ "save:find" \in Saving /\ "save:find" \notin Storing \cup Approving
  BY DEF Save_Find, Saving, Storing, Editing, Approving
<1>2. /\ TypeOK /\ call[h] \in Frame /\ call[h].at = "save:find" /\ call[h].session = Null
      /\ "save:find" \notin Chatting \cup {"idle", "reject:write"}
      /\ call[h].question \in Questions /\ contested \subseteq RowIds
      /\ torn \subseteq Questions /\ removed \subseteq Questions
  BY <1>1, WorkingFrame
<1>3. UNCHANGED <<chatVars, knowledgeVars, entries, rows, chunks, contested, torn, removed>>
  BY DEF Save_Find, knowledgeVars
<1>4. CASE Known(call[h].question) /\ call[h].entry = Null
  <2>1. call' = [call EXCEPT ![h] = Idle] /\ UNCHANGED started
    BY <1>4 DEF Save_Find, Saved, Return, Goto
  <2> QED
    BY <1>1, <1>2, <1>3, <2>1, Returns
<1>5. CASE Known(call[h].question) /\ call[h].entry # Null
  <2> DEFINE f == Goes(h, "approve:check")
  <2>1. call' = [call EXCEPT ![h] = f] /\ UNCHANGED started
    BY <1>5 DEF Save_Find, Saved, Goto
  <2>2. /\ f \in Frame /\ f.at = "approve:check" /\ f.session = Null
        /\ f.entry = call[h].entry /\ f.question = call[h].question
    BY <1>2, SaveLabels, MovedFrame
  <2> HIDE DEF f
  <2>3. f.at \in Approving /\ f.at \notin Editing \cup Storing
    BY <2>2 DEF Approving, Editing, Storing
  <2>4. Findable(call[h].question)
    BY <1>5 DEF Known, IInv, TablesOK
  <2> QED
    BY <1>1, <1>2, <1>3, <1>5, <2>1, <2>2, <2>3, <2>4, Moves
<1>6. CASE ~Known(call[h].question)
  <2> DEFINE f == Goes(h, "save:template")
  <2>1. call' = [call EXCEPT ![h] = f] /\ UNCHANGED started
    BY <1>6 DEF Save_Find, Goto
  <2>2. /\ f \in Frame /\ f.at = "save:template" /\ f.session = Null
        /\ f.entry = call[h].entry /\ f.question = call[h].question
    BY <1>2, SaveLabels, MovedFrame
  <2> HIDE DEF f
  <2>3. f.at \in Saving /\ f.at \notin Editing \cup Storing \cup Approving
    BY <2>2 DEF Approving, Editing, Storing, Saving
  <2> QED
    BY <1>1, <1>2, <1>3, <2>1, <2>2, <2>3, Moves
<1> QED
  BY <1>4, <1>5, <1>6

LEMMA Save_FindTemplateStep ==
    ASSUME IInv, NEW h \in Handlers, Save_FindTemplate(h)
    PROVE  IInv'
<1>1. /\ At(h, "save:template") /\ "save:template" \in Saving
      /\ "save:template" \notin Storing \cup Approving
  BY DEF Save_FindTemplate, Saving, Storing, Editing, Approving
<1>2. /\ TypeOK /\ call[h] \in Frame /\ call[h].at = "save:template" /\ call[h].session = Null
      /\ "save:template" \notin Chatting \cup {"idle", "reject:write"}
      /\ call[h].question \in Questions
  BY <1>1, WorkingFrame
<1>3. UNCHANGED <<chatVars, knowledgeVars>>
  BY DEF Save_FindTemplate
<1>4. CASE WithTemplate(SavedSql(call[h].question)) = {}
  <2> DEFINE f == Goes(h, "save:insert")
  <2>1. call' = [call EXCEPT ![h] = f] /\ UNCHANGED started
    BY <1>4 DEF Save_FindTemplate, Goto
  <2>2. /\ f \in Frame /\ f.at = "save:insert" /\ f.session = Null
        /\ f.entry = call[h].entry /\ f.question = call[h].question
    BY <1>2, SaveLabels, MovedFrame
  <2> HIDE DEF f
  <2>3. f.at \in Saving /\ f.at \notin Editing \cup Storing \cup Approving
    BY <2>2 DEF Approving, Editing, Storing, Saving
  <2> QED
    BY <1>1, <1>2, <1>3, <2>1, <2>2, <2>3, Moves
<1>5. CASE WithTemplate(SavedSql(call[h].question)) # {}
  <2>1. PICK r \in WithTemplate(SavedSql(call[h].question)) :
             Goto(h, [Goes(h, "save:chunk") EXCEPT !.seen = r])
    BY <1>5 DEF Save_FindTemplate
  <2>2. r \in RowIds /\ r \in Nat
    BY RowIdsAreNat DEF WithTemplate
  <2> DEFINE f == [Goes(h, "save:chunk") EXCEPT !.seen = r]
  <2>3. call' = [call EXCEPT ![h] = f] /\ UNCHANGED started
    BY <2>1 DEF Goto
  <2>4. /\ f \in Frame /\ f.at = "save:chunk" /\ f.seen = r /\ f.session = Null
        /\ f.entry = call[h].entry /\ f.question = call[h].question
    BY <1>2, <2>2, SaveLabels, FrameWithSeen
  <2> HIDE DEF f
  <2>5. f.at \in Saving /\ f.at \notin Editing \cup Approving
    BY <2>4 DEF Approving, Editing, Saving
  <2> QED
    BY <1>1, <1>2, <1>3, <2>2, <2>3, <2>4, <2>5, Moves
<1> QED
  BY <1>4, <1>5

LEMMA Approve_CheckStep ==
    ASSUME IInv, NEW h \in Handlers, Approve_Check(h)
    PROVE  IInv'
<1>1. /\ At(h, "approve:check") /\ "approve:check" \in Approving
      /\ "approve:check" \notin Storing
  BY DEF Approve_Check, Storing, Editing, Approving
<1>2. /\ TypeOK /\ call[h] \in Frame /\ call[h].at = "approve:check" /\ call[h].session = Null
      /\ "approve:check" \notin Chatting \cup {"idle", "reject:write"}
      /\ call[h].question \in Questions /\ contested \subseteq RowIds
      /\ torn \subseteq Questions /\ removed \subseteq Questions
      /\ FrameOK(h) /\ EntryOK(h)
  BY <1>1, WorkingFrame
<1>3. UNCHANGED <<chatVars, knowledgeVars, entries, rows, chunks, contested, torn, removed>>
  BY DEF Approve_Check, knowledgeVars
<1>4. call[h].entry # Null /\ Findable(call[h].question)
  BY <1>1, <1>2 DEF FrameOK
<1>5. CASE IsPending(call[h].entry)
  <2> DEFINE f == Goes(h, "approve:write")
  <2>1. call' = [call EXCEPT ![h] = f] /\ UNCHANGED started
    BY <1>5 DEF Approve_Check, Goto
  <2>2. /\ f \in Frame /\ f.at = "approve:write" /\ f.session = Null
        /\ f.entry = call[h].entry /\ f.question = call[h].question
    BY <1>2, SaveLabels, MovedFrame
  <2> HIDE DEF f
  <2>3. f.at \in Approving /\ f.at \notin Editing \cup Storing
    BY <2>2 DEF Approving, Editing, Storing
  <2> QED
    BY <1>1, <1>2, <1>3, <1>4, <2>1, <2>2, <2>3, Moves
<1>6. CASE ~IsPending(call[h].entry)
  <2>1. call' = [call EXCEPT ![h] = Idle] /\ UNCHANGED started
    BY <1>6 DEF Approve_Check, Return, Goto
  <2>2. call[h].entry \in contested
    BY <1>2, <1>4, <1>6 DEF EntryOK
  <2> QED
    BY <1>1, <1>2, <1>3, <2>1, <2>2, Returns
<1> QED
  BY <1>5, <1>6

LEMMA Edit_FindChunkStep ==
    ASSUME IInv, NEW h \in Handlers, Edit_FindChunk(h)
    PROVE  IInv'
<1>1. /\ At(h, "edit:find") /\ "edit:find" \in Editing
      /\ "edit:find" \notin Approving /\ "edit:find" \in Storing
  BY DEF Edit_FindChunk, Storing, Editing, Approving
<1>2. /\ TypeOK /\ call[h] \in Frame /\ call[h].at = "edit:find" /\ call[h].session = Null
      /\ "edit:find" \notin Chatting \cup {"idle", "reject:write"}
      /\ call[h].question \in Questions /\ contested \subseteq RowIds
      /\ torn \subseteq Questions /\ removed \subseteq Questions
      /\ FrameOK(h)
  BY <1>1, WorkingFrame
<1>3. UNCHANGED <<chatVars, entries, rows, chunks, contested, removed>>
  BY DEF Edit_FindChunk
<1>4. call[h].seen \in RowIds /\ call[h].entry = Null
  BY <1>1, <1>2 DEF FrameOK
<1>5. CASE Goto(h, Goes(h, "save:chunk")) /\ UNCHANGED torn
  <2> DEFINE f == Goes(h, "save:chunk")
  <2>1. /\ call' = [call EXCEPT ![h] = f] /\ UNCHANGED started
        /\ UNCHANGED <<chatVars, knowledgeVars>>
    BY <1>3, <1>5 DEF Goto, knowledgeVars
  <2>2. /\ f \in Frame /\ f.at = "save:chunk" /\ f.session = Null /\ f.seen = call[h].seen
        /\ f.entry = call[h].entry /\ f.question = call[h].question
    BY <1>2, SaveLabels, MovedFrame
  <2> HIDE DEF f
  <2>3. f.at \in Saving /\ f.at \in Storing /\ f.at \notin Editing \cup Approving
    BY <2>2 DEF Approving, Editing, Storing, Saving
  <2> QED
    BY <1>1, <1>2, <1>4, <2>1, <2>2, <2>3, Moves
<1>6. CASE \E c \in Linked(call[h].seen) :
              Goto(h, [Goes(h, "edit:chunk") EXCEPT !.seen = c]) /\ UNCHANGED torn
  <2>1. PICK c \in Linked(call[h].seen) :
             Goto(h, [Goes(h, "edit:chunk") EXCEPT !.seen = c]) /\ UNCHANGED torn
    BY <1>6
  <2>2. c \in RowIds /\ c \in Nat
    BY RowIdsAreNat DEF Linked
  <2> DEFINE f == [Goes(h, "edit:chunk") EXCEPT !.seen = c]
  <2>3. /\ call' = [call EXCEPT ![h] = f] /\ UNCHANGED started
        /\ UNCHANGED <<chatVars, knowledgeVars>>
    BY <1>3, <2>1 DEF Goto, knowledgeVars
  <2>4. /\ f \in Frame /\ f.at = "edit:chunk" /\ f.seen = c /\ f.session = Null
        /\ f.entry = call[h].entry /\ f.question = call[h].question
    BY <1>2, <2>2, SaveLabels, FrameWithSeen
  <2> HIDE DEF f
  <2>5. f.at \in Editing /\ f.at \in Storing /\ f.at \notin Approving
    BY <2>4 DEF Approving, Editing, Storing
  <2> QED
    BY <1>1, <1>2, <1>4, <2>2, <2>3, <2>4, <2>5, Moves
<1>7. CASE Return(h) /\ torn' = torn \cup {call[h].question}
  <2>1. call' = [call EXCEPT ![h] = Idle] /\ UNCHANGED started
    BY <1>7 DEF Return, Goto
  <2>2. torn' \subseteq Questions /\ torn \subseteq torn' /\ call[h].question \in torn'
    BY <1>2, <1>7
  <2>3. UNCHANGED <<chatVars, started, entries, rows, chunks, contested, removed>>
    BY <1>3, <2>1
  <2> QED
    BY <1>1, <1>2, <2>1, <2>2, <2>3, Returns
<1> QED
  BY <1>5, <1>6, <1>7 DEF Edit_FindChunk

LEMMA KnowledgeCrashStep ==
    ASSUME IInv, NEW h \in Handlers, Crash(h), call[h].at \notin Chatting
    PROVE  IInv'
<1>1. /\ call[h].question # Null => call[h].question \in Questions
      /\ call[h].entry # Null => call[h].entry \in RowIds
      /\ contested \subseteq RowIds /\ torn \subseteq Questions /\ removed \subseteq Questions
      /\ FrameOK(h)
  BY KnowledgeFrame
<1>2. /\ call' = [call EXCEPT ![h] = Idle] /\ UNCHANGED started
      /\ contested' = contested \cup ({call[h].entry} \ {Null})
      /\ torn' = torn \cup ({call[h].question} \ {Null})
      /\ UNCHANGED <<entries, rows, chunks, removed>>
  BY DEF Crash, Return, Goto
<1>3. call[h].at \notin {"update", "clear:reset"}
  BY DEF Chatting
<1>4. UNCHANGED chatVars
  BY <1>3 DEF Crash, chatVars
<1>5. /\ contested' \subseteq RowIds /\ torn' \subseteq Questions
      /\ contested \subseteq contested' /\ torn \subseteq torn'
  BY <1>1, <1>2
<1>6. call[h].at \in Storing => call[h].question \in torn'
  BY <1>1, <1>2, NullIsNoId DEF FrameOK, Storing, Saving
<1>7. call[h].at \in Approving => call[h].entry \in contested'
  BY <1>1, <1>2 DEF FrameOK
<1>8. removed' \subseteq Questions /\ removed \subseteq removed'
  BY <1>1, <1>2
<1> QED
  BY <1>2, <1>4, <1>5, <1>6, <1>7, <1>8, Returns

LEMMA CrashStep ==
    ASSUME IInv, NEW h \in Handlers, Crash(h)
    PROVE  IInv'
BY ChatCrashStep, KnowledgeCrashStep

-----------------------------------------------------------------------------
(* Tables. *)

(* The rows of a table that is filled in order are those before its next   *)
(* id.                                                                     *)
LEMMA NextIdIsNext ==
    ASSUME NEW table, Ordered(table)
    PROVE  /\ NextId(table) \in Nat
           /\ \A i \in RowIds : table[i] # Null <=> i < NextId(table)
<1> DEFINE used == {i \in RowIds : table[i] # Null}
<1>1. MaxRows \in Int /\ RowIds = 1..MaxRows
  BY AssistantStoreAssumption DEF RowIds
<1>2. IsFiniteSet(RowIds) /\ IsFiniteSet(used)
  <2>1. IsFiniteSet(RowIds)
    BY <1>1, FS_Interval
  <2> QED
    BY <2>1, FS_Subset
<1>3. Cardinality(used) \in Nat
  BY <1>2, FS_CardinalityType
<1>4. ASSUME NEW i \in used PROVE i <= Cardinality(used)
  <2>1. i \in Int /\ i >= 1 /\ Cardinality(1..i) = i
    BY <1>1, FS_Interval
  <2>2. 1..i \subseteq used
    <3> SUFFICES ASSUME NEW k \in 1..i PROVE k \in used
      OBVIOUS
    <3>1. k \in RowIds /\ (k = i \/ k < i)
      BY <1>1
    <3> QED
      BY <3>1 DEF Ordered
  <2> QED
    BY <1>2, <2>1, <2>2, FS_Subset
<1>5. ASSUME NEW i \in RowIds \ used PROVE Cardinality(used) < i
  <2>1. i \in Int /\ i >= 1 /\ Cardinality(1..(i - 1)) = i - 1 /\ IsFiniteSet(1..(i - 1))
    BY <1>1, FS_Interval
  <2>2. used \subseteq 1..(i - 1)
    <3> SUFFICES ASSUME NEW k \in used PROVE k \in 1..(i - 1)
      OBVIOUS
    <3>1. k \in Int /\ k >= 1
      BY <1>1
    <3>2. ~(i < k) /\ i # k
      BY DEF Ordered
    <3> QED
      BY <2>1, <3>1, <3>2
  <2>3. Cardinality(used) <= i - 1
    BY <2>1, <2>2, FS_Subset
  <2> QED
    BY <1>3, <2>1, <2>3
<1>6. NextId(table) = Cardinality(used) + 1
  BY DEF NextId
<1>7. ASSUME NEW i \in RowIds PROVE table[i] # Null <=> i < NextId(table)
  <2>1. i \in Int
    BY <1>1
  <2>2. CASE i \in used
    BY <1>3, <1>4, <1>6, <2>1, <2>2
  <2>3. CASE i \notin used
    BY <1>3, <1>5, <1>6, <2>1, <2>3
  <2> QED
    BY <2>2, <2>3
<1> QED
  BY <1>3, <1>6, <1>7

LEMMA NextRow ==
    ASSUME NEW S, NEW table \in [RowIds -> S], Ordered(table), NextId(table) \in RowIds,
           NEW row, row # Null
    PROVE  /\ table[NextId(table)] = Null
           /\ Ordered([table EXCEPT ![NextId(table)] = row])
<1>1. PICK n \in RowIds : n = NextId(table)
  OBVIOUS
<1>2. \A i \in RowIds : i \in Int /\ (table[i] # Null <=> i < n)
  BY <1>1, NextIdIsNext, RowIdsAreNat
<1>3. table[n] = Null
  BY <1>2
<1> DEFINE new == [table EXCEPT ![n] = row]
<1>4. new[n] = row /\ \A i \in RowIds \ {n} : new[i] = table[i]
  OBVIOUS
<1> HIDE DEF new
<1>5. \A i \in RowIds : new[i] # Null <=> i <= n
  BY <1>2, <1>4
<1>6. Ordered(new)
  BY <1>2, <1>5 DEF Ordered
<1> QED
  BY <1>1, <1>3, <1>6 DEF new

(* A row in use may change. *)
LEMMA SameOrder ==
    ASSUME NEW table, NEW new, Ordered(table),
           \A i \in RowIds : new[i] = Null <=> table[i] = Null
    PROVE  Ordered(new)
BY DEF Ordered

-----------------------------------------------------------------------------
(* Entries. *)

(* The handlers of entries change no row and no chunk. *)
LEMMA EntriesWritten ==
    ASSUME IInv, NEW h \in Handlers, call' = [call EXCEPT ![h] = Idle],
           call[h].at \notin Chatting \cup Storing,
           UNCHANGED <<chatVars, started, rows, chunks, contested, torn, removed>>,
           entries' \in [RowIds -> Entry \cup {Null}], Ordered(entries'),
           \A e \in RowIds : entries[e] # Null =>
               /\ entries'[e] # Null /\ entries'[e].question = entries[e].question
               /\ e # call[h].entry => entries'[e] = entries[e],
           \A e \in RowIds : entries'[e] # Null /\ entries'[e].status = "approved" =>
               \/ entries[e] # Null /\ entries[e].status = "approved"
               \/ \A q : q = entries'[e].question => Findable(q),
           call[h].at \in Approving => entries'[call[h].entry].status = "approved",
           \A c \in RowIds : Live(chunks[c]) /\ chunks[c].entry # Null =>
               \/ entries'[chunks[c].entry] = entries[chunks[c].entry]
               \/ chunks[c].entry \in contested
               \/ entries'[chunks[c].entry].status = "approved"
    PROVE  IInv'
<1>1. /\ call'[h] = Idle /\ Idle \in Frame /\ Idle.entry = Null
      /\ \A g \in Handlers \ {h} : call'[g] = call[g]
  BY IdleInFrame, MovedCall DEF IInv
<1>2. FrameOK(h)' /\ EntryOK(h)'
  BY <1>1, IdleFrameOK
<1>3. /\ Idle.at \notin Chatting /\ started' \in 0..MaxCalls
      /\ call[h].at \notin Chatting
  BY IdleInFrame, KnowledgeFrame DEF Chatting
<1>4. \A q : Findable(q) => Findable(q)'
  BY <1>1, StillFindable DEF IInv
<1>5. \A c \in RowIds : Live(chunks[c]) /\ chunks[c].entry # Null =>
          chunks[c].entry \in RowIds /\ entries[chunks[c].entry] # Null
  BY LiveRows DEF IInv, TablesOK, Chunk
<1>6. TablesOK'
  <2>1. \A c \in RowIds : Live(chunks'[c]) /\ chunks'[c].entry # Null
                             => entries'[chunks'[c].entry] # Null
    BY <1>5
  <2>2. Ordered(rows)' /\ Ordered(chunks)' /\ Ordered(entries)'
    BY DEF IInv, TablesOK, Ordered
  <2>3. \A r \in RowIds : Live(rows[r]) => \A q : q = rows[r].question => Findable(q)'
    BY <1>4 DEF IInv, TablesOK
  <2> QED
    BY <2>1, <2>2, <2>3 DEF TablesOK
<1>7. OnlyApprovedIsTaught'
  <2> SUFFICES ASSUME NEW c \in RowIds, Live(chunks[c]), chunks[c].entry # Null,
                      NEW e \in RowIds, e = chunks[c].entry, e \notin contested
               PROVE  \/ entries'[e].status = "approved"
                      \/ \E g \in Handlers : call'[g].entry = e /\ call'[g].at \in Approving
    BY <1>5 DEF OnlyApprovedIsTaught, Approving
  <2>1. \/ entries[e].status = "approved"
        \/ \E g \in Handlers : call[g].entry = e /\ call[g].at \in Approving
    BY DEF IInv, OnlyApprovedIsTaught, Approving
  <2>2. CASE entries[e].status = "approved"
    BY <2>2
  <2>3. CASE \E g \in Handlers : call[g].entry = e /\ call[g].at \in Approving
    BY <1>1, <2>3
  <2> QED
    BY <2>1, <2>2, <2>3
<1>8. ApprovedIsFindable'
  <2> SUFFICES ASSUME NEW e \in RowIds, entries'[e] # Null, entries'[e].status = "approved",
                      NEW q, q = entries'[e].question
               PROVE  Findable(q)'
    BY FindableIsEnough
  <2>1. Findable(q)
    BY WasFindable
  <2> QED
    BY <1>4, <2>1
<1> QED
  BY <1>1, <1>2, <1>3, <1>4, <1>6, <1>7, <1>8, KnowledgeStep DEF IInv, TypeOK

LEMMA SavePendingKnowledgeStep ==
    ASSUME IInv, NEW h \in Handlers, SavePendingKnowledge(h)
    PROVE  IInv'
<1>1. /\ call[h].at = "entry" /\ call' = [call EXCEPT ![h] = Idle] /\ UNCHANGED started
      /\ UNCHANGED <<chatVars, rows, chunks, contested, torn, removed>>
  BY DEF SavePendingKnowledge, At, Return, Goto
<1>2. call[h].at \notin Chatting \cup Storing /\ call[h].at \notin Approving
  BY <1>1 DEF Chatting, Storing, Editing, Approving
<1>3. CASE UNCHANGED entries
  BY <1>1, <1>2, <1>3, Returns, KnowledgeFrame
<1>4. ASSUME NEW q \in Questions, NextId(entries) \in RowIds,
             entries' = [entries EXCEPT ![NextId(entries)] = [question |-> q, status |-> "pending"]]
      PROVE  IInv'
  <2>1. PICK new \in Entry : /\ new = [question |-> q, status |-> "pending"]
                             /\ new.status = "pending"
    <3>1. [question |-> q, status |-> "pending"] \in Entry
      BY DEF Entry
    <3> QED
      BY <3>1
  <2>2. new # Null
    BY RowIsLive
  <2>3. PICK n \in RowIds : n = NextId(entries)
    BY <1>4
  <2>4. entries[n] = Null /\ Ordered(entries')
    BY <1>4, <2>1, <2>2, <2>3, NextRow DEF IInv, TypeOK, TablesOK
  <2>5. /\ entries' \in [RowIds -> Entry \cup {Null}] /\ entries'[n] = new
        /\ \A e \in RowIds \ {n} : entries'[e] = entries[e]
    BY <1>4, <2>1, <2>3 DEF IInv, TypeOK
  <2>6. \A e \in RowIds : entries[e] # Null => entries'[e] = entries[e] /\ entries'[e] # Null
    BY <2>4, <2>5
  <2>7. \A e \in RowIds : entries'[e] # Null /\ entries'[e].status = "approved"
                             => entries[e] # Null /\ entries[e].status = "approved"
    BY <2>1, <2>5
  <2>8. \A c \in RowIds : Live(chunks[c]) /\ chunks[c].entry # Null
                             => entries'[chunks[c].entry] = entries[chunks[c].entry]
    BY <2>6, LiveRows DEF IInv, TablesOK, Chunk
  <2> QED
    BY <1>1, <1>2, <2>4, <2>5, <2>6, <2>7, <2>8, EntriesWritten
<1> QED
  BY <1>3, <1>4 DEF SavePendingKnowledge, NextId

LEMMA WithStatus ==
    ASSUME IInv, NEW e \in RowIds, entries[e] # Null, NEW status \in {"approved", "rejected"},
           SetStatus(e, status)
    PROVE  /\ entries' \in [RowIds -> Entry \cup {Null}]
           /\ entries'[e] # Null /\ entries'[e].status = status
           /\ entries'[e].question = entries[e].question
           /\ \A d \in RowIds \ {e} : entries'[d] = entries[d]
           /\ Ordered(entries')
<1>1. entries[e] \in Entry
  BY LiveRows DEF IInv
<1> DEFINE new == [entries[e] EXCEPT !.status = status]
<1>2. new \in Entry /\ new.status = status /\ new.question = entries[e].question
  BY <1>1 DEF Entry
<1>3. entries' = [entries EXCEPT ![e] = new]
  BY DEF SetStatus
<1> HIDE DEF new
<1>4. new # Null
  BY <1>2, RowIsLive
<1>5. /\ entries' \in [RowIds -> Entry \cup {Null}] /\ entries'[e] = new
      /\ \A d \in RowIds \ {e} : entries'[d] = entries[d]
  BY <1>2, <1>3 DEF IInv, TypeOK
<1>6. Ordered(entries')
  BY <1>4, <1>5, SameOrder DEF IInv, TablesOK
<1> QED
  BY <1>2, <1>4, <1>5, <1>6

LEMMA Approve_WriteStep ==
    ASSUME IInv, NEW h \in Handlers, Approve_Write(h)
    PROVE  IInv'
<1>1. /\ At(h, "approve:write") /\ "approve:write" \in Approving
      /\ "approve:write" \notin Storing
  BY DEF Approve_Write, Approving, Storing, Editing
<1>2. /\ call[h].at = "approve:write" /\ "approve:write" \notin Chatting \cup {"idle", "reject:write"}
      /\ call[h] \in Frame /\ FrameOK(h) /\ EntryOK(h)
  BY <1>1, WorkingFrame
<1>3. PICK e \in RowIds : e = call[h].entry
  BY <1>1, <1>2 DEF FrameOK, Frame
<1>4. /\ entries[e] # Null /\ call[h].question = entries[e].question
      /\ Findable(entries[e].question)
  BY <1>1, <1>2, <1>3, NullIsNoId DEF FrameOK, EntryOK
<1>5. /\ SetStatus(e, "approved") /\ call' = [call EXCEPT ![h] = Idle] /\ UNCHANGED started
      /\ UNCHANGED <<chatVars, rows, chunks, contested, torn, removed>>
  BY <1>3 DEF Approve_Write, Return, Goto
<1>6. /\ entries' \in [RowIds -> Entry \cup {Null}]
      /\ entries'[e] # Null /\ entries'[e].status = "approved"
      /\ entries'[e].question = entries[e].question
      /\ \A d \in RowIds \ {e} : entries'[d] = entries[d]
      /\ Ordered(entries')
  BY <1>4, <1>5, WithStatus
<1>7. \A d \in RowIds : entries[d] # Null =>
          /\ entries'[d] # Null /\ entries'[d].question = entries[d].question
          /\ d # call[h].entry => entries'[d] = entries[d]
  BY <1>3, <1>6
<1>8. \A d \in RowIds : entries'[d] # Null /\ entries'[d].status = "approved" =>
          \/ entries[d] # Null /\ entries[d].status = "approved"
          \/ \A q : q = entries'[d].question => Findable(q)
  BY <1>4, <1>6
<1>9. \A c \in RowIds : Live(chunks[c]) /\ chunks[c].entry # Null =>
          \/ entries'[chunks[c].entry] = entries[chunks[c].entry]
          \/ entries'[chunks[c].entry].status = "approved"
  BY <1>6, LiveRows DEF IInv, Chunk
<1> QED
  BY <1>1, <1>2, <1>3, <1>5, <1>6, <1>7, <1>8, <1>9, EntriesWritten

LEMMA Reject_WriteStep ==
    ASSUME IInv, NEW h \in Handlers, Reject_Write(h)
    PROVE  IInv'
<1>1. /\ call[h].at = "reject:write" /\ call' = [call EXCEPT ![h] = Idle] /\ UNCHANGED started
      /\ UNCHANGED <<chatVars, rows, chunks, contested, torn, removed>>
  BY DEF Reject_Write, At, Return, Goto
<1>2. call[h].at \notin Chatting \cup Storing /\ call[h].at \notin Approving
  BY <1>1 DEF Chatting, Storing, Editing, Approving
<1>3. FrameOK(h) /\ EntryOK(h) /\ call[h] \in Frame
  BY DEF IInv, TypeOK
<1>4. PICK e \in RowIds : e = call[h].entry
  BY <1>1, <1>3 DEF FrameOK, Frame
<1>5. /\ entries[e] # Null
      /\ e \notin contested => /\ entries[e].status = "pending"
                               /\ \A g \in Handlers \ {h} : call[g].entry # e
  BY <1>3, <1>4, NullIsNoId DEF EntryOK, IsPending
<1>6. /\ entries' \in [RowIds -> Entry \cup {Null}]
      /\ entries'[e] # Null /\ entries'[e].status = "rejected"
      /\ entries'[e].question = entries[e].question
      /\ \A d \in RowIds \ {e} : entries'[d] = entries[d]
      /\ Ordered(entries')
  <2>1. SetStatus(e, "rejected")
    BY <1>4 DEF Reject_Write
  <2> QED
    BY <1>5, <2>1, WithStatus
<1>7. \A d \in RowIds : entries[d] # Null =>
          /\ entries'[d] # Null /\ entries'[d].question = entries[d].question
          /\ d # call[h].entry => entries'[d] = entries[d]
  BY <1>4, <1>6
<1>8. \A d \in RowIds : entries'[d] # Null /\ entries'[d].status = "approved" =>
          entries[d] # Null /\ entries[d].status = "approved"
  BY <1>6
<1>9. \A c \in RowIds : Live(chunks[c]) /\ chunks[c].entry # Null =>
          \/ entries'[chunks[c].entry] = entries[chunks[c].entry]
          \/ chunks[c].entry \in contested
  <2> SUFFICES ASSUME NEW c \in RowIds, Live(chunks[c]), chunks[c].entry = e, e \notin contested
               PROVE  FALSE
    BY <1>6, LiveRows DEF IInv, Chunk
  <2>1. \/ entries[e].status = "approved"
        \/ \E g \in Handlers : call[g].entry = e /\ call[g].at \in Approving
    BY NullIsNoId DEF IInv, OnlyApprovedIsTaught, Approving
  <2> QED
    BY <1>2, <1>5, <2>1
<1> QED
  BY <1>1, <1>2, <1>6, <1>7, <1>8, <1>9, EntriesWritten

-----------------------------------------------------------------------------
(* Rows of sql_qa. *)

(* The handlers of rows change no entry and no chunk. *)
LEMMA RowsWritten ==
    ASSUME IInv, NEW h \in Handlers, NEW f \in Frame, call' = [call EXCEPT ![h] = f],
           call[h].at \notin Chatting \cup Approving, f.at \notin Chatting \cup Approving,
           UNCHANGED <<chatVars, entries, chunks, contested>>, started' \in 0..MaxCalls,
           torn \subseteq torn', torn' \subseteq Questions,
           removed \subseteq removed', removed' \subseteq Questions,
           rows' \in [RowIds -> Row \cup {Null, Gone}], Ordered(rows'),
           call[h].at \in Storing =>
               \/ f.at \in Storing /\ f.question = call[h].question
               \/ call[h].question \in torn',
           \A r \in RowIds : Live(rows'[r]) =>
               \/ Live(rows[r]) /\ rows'[r].question = rows[r].question
               \/ f.at \in Storing /\ f.question = rows'[r].question,
           f.entry = Null \/ f.entry = call[h].entry,
           FrameOK(h)', EntryOK(h)'
    PROVE  IInv'
<1>1. call'[h] = f /\ \A g \in Handlers \ {h} : call'[g] = call[g]
  BY MovedCall DEF IInv
<1>2. \A q : Findable(q) => Findable(q)'
  BY StillFindable DEF IInv
<1>3. TablesOK'
  <2>1. ASSUME NEW r \in RowIds, Live(rows'[r]), NEW q, q = rows'[r].question
        PROVE  Findable(q)'
    <3>1. CASE Live(rows[r]) /\ q = rows[r].question
      BY <1>2, <3>1 DEF IInv, TablesOK
    <3>2. CASE f.at \in Storing /\ f.question = q
      BY <1>1, <3>2 DEF Findable, Storing
    <3> QED
      BY <2>1, <3>1, <3>2
  <2>2. Ordered(rows)' /\ Ordered(chunks)' /\ Ordered(entries)'
    BY DEF IInv, TablesOK, Ordered
  <2> QED
    BY <2>1, <2>2 DEF IInv, TablesOK
<1>4. OnlyApprovedIsTaught'
  BY <1>1 DEF IInv, OnlyApprovedIsTaught, Approving
<1>5. ApprovedIsFindable'
  BY <1>2, WasFindable, FindableIsEnough
<1> QED
  BY <1>2, <1>3, <1>4, <1>5, KnowledgeStep DEF IInv, TypeOK

LEMMA RowOf ==
    ASSUME NEW q \in Questions
    PROVE  LET row == [question |-> q, sql |-> SavedSql(q)] IN
           row \in Row /\ row.question = q /\ Live(row) /\ row # Null
<1>1. [question |-> q, sql |-> SavedSql(q)] \in Row
  BY AssistantStoreAssumption DEF Row, SavedSql
<1> QED
  BY <1>1, RowIsLive

LEMMA Save_InsertStep ==
    ASSUME IInv, NEW h \in Handlers, Save_Insert(h)
    PROVE  IInv'
<1>1. /\ At(h, "save:insert") /\ "save:insert" \in Saving
      /\ "save:insert" \notin Storing \cup Approving
  BY DEF Save_Insert, Saving, Storing, Editing, Approving
<1>2. /\ TypeOK /\ call[h] \in Frame /\ call[h].at = "save:insert" /\ call[h].session = Null
      /\ "save:insert" \notin Chatting \cup {"idle", "reject:write"}
      /\ call[h].question \in Questions /\ contested \subseteq RowIds
      /\ torn \subseteq Questions /\ removed \subseteq Questions
  BY <1>1, WorkingFrame
<1>3. UNCHANGED <<chatVars, entries, chunks, contested, torn, removed>>
  BY DEF Save_Insert
<1>4. PICK q \in Questions : q = call[h].question
  BY <1>2
<1> DEFINE found == WithTemplate(SavedSql(q))
           n == IF found = {} THEN NextId(rows) ELSE CHOOSE x \in found : TRUE
<1>5. CASE Return(h) /\ UNCHANGED rows
  <2>1. call' = [call EXCEPT ![h] = Idle] /\ UNCHANGED started
    BY <1>5 DEF Return, Goto
  <2> QED
    BY <1>1, <1>2, <1>3, <1>5, <2>1, Returns
<1>6. CASE /\ n \in RowIds
           /\ rows' = [rows EXCEPT ![n] = [question |-> q, sql |-> SavedSql(q)]]
           /\ Goto(h, [Goes(h, "save:chunk") EXCEPT !.seen = n])
  <2>1. PICK row \in Row : /\ row = [question |-> q, sql |-> SavedSql(q)]
                           /\ row.question = q /\ Live(row) /\ row # Null
    BY RowOf
  <2>2. PICK r \in RowIds : r = n
    BY <1>6
  <2>3. Ordered(rows')
    <3>1. rows' = [rows EXCEPT ![r] = row]
      BY <1>6, <2>1, <2>2
    <3>2. Ordered(rows)
      BY DEF IInv, TablesOK
    <3>3. CASE found = {}
      BY <1>2, <2>1, <2>2, <3>1, <3>2, <3>3, NextRow DEF TypeOK
    <3>4. CASE found # {}
      <4>1. r \in found
        BY <2>2, <3>4
      <4>2. rows[r] # Null
        BY <4>1, NullIsNoId DEF WithTemplate
      <4>3. \A i \in RowIds : rows'[i] = Null <=> rows[i] = Null
        BY <1>2, <2>1, <3>1, <4>2 DEF TypeOK
      <4> QED
        BY <3>2, <4>3, SameOrder
    <3> QED
      BY <3>3, <3>4
  <2> DEFINE f == [Goes(h, "save:chunk") EXCEPT !.seen = r]
  <2>4. /\ call' = [call EXCEPT ![h] = f] /\ UNCHANGED started
        /\ rows' = [rows EXCEPT ![r] = row]
    BY <1>6, <2>1, <2>2 DEF Goto
  <2>5. /\ f \in Frame /\ f.at = "save:chunk" /\ f.seen = r /\ f.session = Null
        /\ f.entry = call[h].entry /\ f.question = q
    <3>1. r \in Nat
      BY RowIdsAreNat
    <3> QED
      BY <1>2, <1>4, <3>1, SaveLabels, FrameWithSeen
  <2> HIDE DEF f, n, found
  <2>6. /\ rows' \in [RowIds -> Row \cup {Null, Gone}] /\ rows'[r] = row
        /\ \A i \in RowIds \ {r} : rows'[i] = rows[i]
    BY <1>2, <2>4 DEF TypeOK
  <2>7. call'[h] = f
    BY <1>2, <2>4, <2>5, MovedCall
  <2>8. /\ f.at \in Saving /\ f.at \in Storing
        /\ f.at \notin Chatting \cup Editing \cup Approving \cup {"idle", "entry", "drop:row", "reject:write"}
    BY <2>5 DEF Saving, Storing, Chatting, Editing, Approving
  <2>9. FrameOK(h)'
    BY <2>5, <2>7, <2>8 DEF FrameOK
  <2>10. EntryOK(h)'
    BY <1>2, <1>3, <1>4, <2>4, <2>5, SameEntryOK
  <2>11. started' \in 0..MaxCalls
    BY <1>2, <2>4 DEF TypeOK
  <2>12. \A i \in RowIds : Live(rows'[i]) =>
             \/ Live(rows[i]) /\ rows'[i].question = rows[i].question
             \/ f.at \in Storing /\ f.question = rows'[i].question
    BY <2>1, <2>5, <2>6, <2>8
  <2>13. /\ call[h].at \notin Chatting \cup Approving /\ f.at \notin Chatting \cup Approving
         /\ call[h].at \notin Storing /\ f.entry = call[h].entry
         /\ torn \subseteq torn' /\ torn' \subseteq Questions
         /\ removed \subseteq removed' /\ removed' \subseteq Questions
    BY <1>1, <1>2, <1>3, <2>5, <2>8
  <2>14. UNCHANGED <<chatVars, entries, chunks, contested>>
    BY <1>3
  <2> QED
    BY <2>3, <2>4, <2>5, <2>6, <2>9, <2>10, <2>11, <2>12, <2>13, <2>14, RowsWritten
<1> QED
  BY <1>4, <1>5, <1>6 DEF Save_Insert

LEMMA Edit_QuestionStep ==
    ASSUME IInv, NEW h \in Handlers, NEW r \in RowIds, NEW q \in Questions, Edit_Question(h, r, q)
    PROVE  IInv'
<1> DEFINE f == [Idle EXCEPT !.at = "edit:template", !.seen = r, !.question = q]
<1>1. /\ f \in Frame /\ f.at = "edit:template" /\ f.session = Null /\ f.seen = r
      /\ f.entry = Null /\ f.question = q
  BY RowIdsAreNat DEF Idle, Frame, Labels
<1>2. /\ Begin(h, "edit", f) /\ Live(rows[r]) /\ rows' = [rows EXCEPT ![r].question = q]
      /\ removed' = removed \cup ({rows[r].question} \ {q})
      /\ UNCHANGED <<chatVars, entries, chunks, contested, torn>>
  BY DEF Edit_Question
<1> HIDE DEF f
<1>3. /\ started' \in 0..MaxCalls /\ call' = [call EXCEPT ![h] = f] /\ call[h].at = "idle"
      /\ TypeOK
  BY <1>2, BegunBound DEF IInv
<1>4. /\ call[h].at \notin Chatting \cup Approving /\ call[h].at \notin Storing
      /\ f.at \notin Chatting \cup Approving \cup Saving
      /\ f.at \notin {"idle", "entry", "drop:row", "save:chunk", "reject:write"}
      /\ f.at \in Editing /\ f.at \in Storing
  BY <1>1, <1>3 DEF Chatting, Approving, Storing, Editing, Saving
<1>5. PICK row \in Row : /\ row = [rows[r] EXCEPT !.question = q] /\ row.question = q
                         /\ row # Null
  <2>1. rows[r] \in Row
    BY <1>2, <1>3, LiveRows
  <2>2. [rows[r] EXCEPT !.question = q] \in Row /\ [rows[r] EXCEPT !.question = q].question = q
    BY <2>1 DEF Row
  <2> QED
    BY <2>2, RowIsLive
<1>6. rows[r] \in Row /\ rows[r] # Null
  BY <1>2, <1>3, LiveRows
<1>7. /\ rows' \in [RowIds -> Row \cup {Null, Gone}] /\ rows'[r] = row
      /\ \A i \in RowIds \ {r} : rows'[i] = rows[i]
  <2>1. rows' = [rows EXCEPT ![r] = row]
    BY <1>2, <1>5
  <2> QED
    BY <1>3, <2>1 DEF TypeOK
<1>8. Ordered(rows')
  BY <1>5, <1>6, <1>7, SameOrder DEF IInv, TablesOK
<1>9. removed' \subseteq Questions /\ removed \subseteq removed'
  BY <1>2, <1>3, <1>6 DEF TypeOK, Row
<1>10. call'[h] = f
  BY <1>1, <1>3, MovedCall
<1>11. FrameOK(h)' /\ EntryOK(h)'
  BY <1>1, <1>4, <1>10 DEF FrameOK, EntryOK
<1>12. \A i \in RowIds : Live(rows'[i]) =>
           \/ Live(rows[i]) /\ rows'[i].question = rows[i].question
           \/ f.at \in Storing /\ f.question = rows'[i].question
  BY <1>1, <1>4, <1>5, <1>7
<1>13. torn' \subseteq Questions /\ torn \subseteq torn'
  BY <1>2, <1>3 DEF TypeOK
<1> QED
  BY <1>1, <1>2, <1>3, <1>4, <1>7, <1>8, <1>9, <1>11, <1>12, <1>13, RowsWritten

LEMMA Edit_TemplateStep ==
    ASSUME IInv, NEW h \in Handlers, Edit_Template(h)
    PROVE  IInv'
<1>1. /\ At(h, "edit:template") /\ "edit:template" \in Editing
      /\ "edit:template" \notin Approving /\ "edit:template" \in Storing
  BY DEF Edit_Template, Storing, Editing, Approving
<1>2. /\ TypeOK /\ call[h] \in Frame /\ call[h].at = "edit:template" /\ call[h].session = Null
      /\ "edit:template" \notin Chatting \cup {"idle", "reject:write"}
      /\ call[h].question \in Questions /\ contested \subseteq RowIds
      /\ torn \subseteq Questions /\ removed \subseteq Questions
      /\ FrameOK(h)
  BY <1>1, WorkingFrame
<1>3. UNCHANGED <<chatVars, entries, chunks, contested, removed>>
  BY DEF Edit_Template
<1>4. call[h].seen \in RowIds /\ call[h].entry = Null
  BY <1>1, <1>2 DEF FrameOK
<1>5. PICK r \in RowIds : r = call[h].seen
  BY <1>4
<1>6. CASE ~(Live(rows[r]) /\ WithTemplate(SqlOf[call[h].question]) \subseteq {r})
  <2>1. /\ call' = [call EXCEPT ![h] = Idle] /\ UNCHANGED started
        /\ torn' = torn \cup {call[h].question} /\ UNCHANGED rows
    BY <1>5, <1>6 DEF Edit_Template, Return, Goto
  <2>2. torn' \subseteq Questions /\ torn \subseteq torn' /\ call[h].question \in torn'
    BY <1>2, <2>1
  <2> QED
    BY <1>1, <1>2, <1>3, <2>1, <2>2, Returns
<1>7. CASE Live(rows[r]) /\ WithTemplate(SqlOf[call[h].question]) \subseteq {r}
  <2> DEFINE f == Goes(h, "edit:find")
             sql == SqlOf[call[h].question]
  <2>1. /\ call' = [call EXCEPT ![h] = f] /\ UNCHANGED <<started, torn>>
        /\ rows' = [rows EXCEPT ![r].sql = sql]
    BY <1>5, <1>7 DEF Edit_Template, Goto
  <2>2. /\ f \in Frame /\ f.at = "edit:find" /\ f.session = Null /\ f.seen = call[h].seen
        /\ f.entry = call[h].entry /\ f.question = call[h].question
    BY <1>2, SaveLabels, MovedFrame
  <2>3. sql \in Sqls
    BY <1>2, AssistantStoreAssumption
  <2> HIDE DEF f, sql
  <2>4. rows[r] \in Row /\ rows[r] # Null
    BY <1>2, <1>7, LiveRows
  <2>5. PICK row \in Row : /\ row = [rows[r] EXCEPT !.sql = sql]
                           /\ row.question = rows[r].question /\ row # Null
    <3>1. /\ [rows[r] EXCEPT !.sql = sql] \in Row
          /\ [rows[r] EXCEPT !.sql = sql].question = rows[r].question
      BY <2>3, <2>4 DEF Row
    <3> QED
      BY <3>1, RowIsLive
  <2>6. /\ rows' \in [RowIds -> Row \cup {Null, Gone}] /\ rows'[r] = row
        /\ \A i \in RowIds \ {r} : rows'[i] = rows[i]
    <3>1. rows' = [rows EXCEPT ![r] = row]
      BY <2>1, <2>5
    <3> QED
      BY <1>2, <3>1 DEF TypeOK
  <2>7. Ordered(rows')
    BY <2>4, <2>5, <2>6, SameOrder DEF IInv, TablesOK
  <2>8. call'[h] = f
    BY <1>2, <2>1, <2>2, MovedCall
  <2>9. /\ f.at \in Editing /\ f.at \in Storing
        /\ f.at \notin Chatting \cup Saving \cup Approving
        /\ f.at \notin {"idle", "entry", "drop:row", "reject:write", "save:chunk"}
    BY <2>2 DEF Saving, Storing, Chatting, Editing, Approving
  <2>10. FrameOK(h)' /\ EntryOK(h)'
    BY <1>2, <1>4, <2>2, <2>8, <2>9 DEF FrameOK, EntryOK
  <2>11. started' \in 0..MaxCalls
    BY <1>2, <2>1 DEF TypeOK
  <2>12. \A i \in RowIds : Live(rows'[i]) =>
             \/ Live(rows[i]) /\ rows'[i].question = rows[i].question
             \/ f.at \in Storing /\ f.question = rows'[i].question
    BY <1>7, <2>5, <2>6
  <2>13. /\ call[h].at \notin Chatting \cup Approving /\ f.at \notin Chatting \cup Approving
         /\ f.at \in Storing /\ f.question = call[h].question /\ f.entry = call[h].entry
         /\ torn \subseteq torn' /\ torn' \subseteq Questions
         /\ removed \subseteq removed' /\ removed' \subseteq Questions
    BY <1>1, <1>2, <1>3, <2>1, <2>2, <2>9
  <2>14. UNCHANGED <<chatVars, entries, chunks, contested>>
    BY <1>3
  <2> QED
    BY <2>1, <2>2, <2>6, <2>7, <2>10, <2>11, <2>12, <2>13, <2>14, RowsWritten
<1> QED
  BY <1>6, <1>7, <1>5 DEF Edit_Template

LEMMA DeleteSqlQA_RowStep ==
    ASSUME IInv, NEW h \in Handlers, DeleteSqlQA_Row(h)
    PROVE  IInv'
<1>1. /\ call[h].at = "drop:row" /\ call' = [call EXCEPT ![h] = Idle] /\ UNCHANGED started
      /\ UNCHANGED <<chatVars, entries, chunks, contested, torn>>
  BY DEF DeleteSqlQA_Row, At, Return, Goto
<1>2. /\ call[h].at \notin Chatting \cup Approving /\ call[h].at \notin Storing
      /\ call[h].at \notin Chatting
      /\ Idle.at \notin Chatting \cup Approving /\ Idle \in Frame /\ Idle.entry = Null
  BY <1>1, IdleInFrame DEF Chatting, Approving, Storing, Editing
<1>3. /\ TypeOK /\ contested \subseteq RowIds /\ torn \subseteq Questions
      /\ removed \subseteq Questions /\ started \in 0..MaxCalls /\ FrameOK(h)
  BY <1>2, KnowledgeFrame
<1>4. CASE UNCHANGED <<rows, removed>>
  BY <1>1, <1>2, <1>3, <1>4, Returns
<1>5. CASE ~UNCHANGED <<rows, removed>>
  <2>1. PICK r \in RowIds : r = call[h].seen
    BY <1>1, <1>3 DEF FrameOK
  <2>2. /\ Live(rows[r]) /\ rows' = [rows EXCEPT ![r] = Gone]
        /\ removed' = removed \cup {rows[r].question}
    BY <1>5, <2>1 DEF DeleteSqlQA_Row
  <2>3. rows[r] \in Row /\ rows[r] # Null /\ ~Live(Gone) /\ Gone # Null
    BY <1>3, <2>2, LiveRows, NullIsNoId
  <2>4. /\ rows' \in [RowIds -> Row \cup {Null, Gone}] /\ rows'[r] = Gone
        /\ \A i \in RowIds \ {r} : rows'[i] = rows[i]
    BY <1>3, <2>2 DEF TypeOK
  <2>5. Ordered(rows')
    BY <2>3, <2>4, SameOrder DEF IInv, TablesOK
  <2>6. removed' \subseteq Questions /\ removed \subseteq removed'
    BY <1>3, <2>2, <2>3 DEF Row
  <2>7. call'[h] = Idle
    BY <1>1, <1>2, <1>3, MovedCall
  <2>8. FrameOK(h)' /\ EntryOK(h)'
    BY <2>7, IdleFrameOK
  <2>9. \A i \in RowIds : Live(rows'[i]) =>
            Live(rows[i]) /\ rows'[i].question = rows[i].question
    BY <2>3, <2>4
  <2> QED
    BY <1>1, <1>2, <1>3, <2>4, <2>5, <2>6, <2>8, <2>9, RowsWritten
<1> QED
  BY <1>4, <1>5

-----------------------------------------------------------------------------
(* Chunks. *)

(* The handlers of chunks change no entry and no row. *)
LEMMA ChunksWritten ==
    ASSUME IInv, NEW h \in Handlers, NEW f \in Frame, call' = [call EXCEPT ![h] = f],
           call[h].at \notin Chatting \cup Approving, f.at \notin Chatting,
           UNCHANGED <<chatVars, entries, rows, contested, torn>>, started' \in 0..MaxCalls,
           removed \subseteq removed', removed' \subseteq Questions,
           chunks' \in [RowIds -> Chunk \cup {Null, Gone}], Ordered(chunks'),
           \A c \in RowIds : Live(chunks[c]) =>
               \/ Live(chunks'[c]) /\ chunks'[c].question = chunks[c].question
               \/ chunks[c].question \in removed',
           call[h].at \in Storing =>
               \E c \in RowIds : Live(chunks'[c]) /\ chunks'[c].question = call[h].question,
           \A c \in RowIds : Live(chunks'[c]) /\ chunks'[c].entry # Null =>
               \/ Live(chunks[c]) /\ chunks'[c].entry = chunks[c].entry
               \/ f.at \in Approving /\ chunks'[c].entry = f.entry,
           f.entry = Null \/ f.entry = call[h].entry,
           f.at \in Approving => f.entry = call[h].entry /\ f.entry # Null,
           FrameOK(h)', EntryOK(h)'
    PROVE  IInv'
<1>1. call'[h] = f /\ \A g \in Handlers \ {h} : call'[g] = call[g]
  BY MovedCall DEF IInv
<1>2. \A q : Findable(q) => Findable(q)'
  BY StillFindable DEF IInv
<1>3. TablesOK'
  <2>1. \A r \in RowIds : Live(rows[r]) => \A q : q = rows[r].question => Findable(q)'
    BY <1>2 DEF IInv, TablesOK
  <2>2. \A c \in RowIds : Live(chunks'[c]) /\ chunks'[c].entry # Null
                             => entries[chunks'[c].entry] # Null
    BY DEF IInv, TablesOK, EntryOK
  <2>3. Ordered(rows)' /\ Ordered(chunks)' /\ Ordered(entries)'
    BY DEF IInv, TablesOK, Ordered
  <2> QED
    BY <2>1, <2>2, <2>3 DEF TablesOK
<1>4. OnlyApprovedIsTaught'
  <2> SUFFICES ASSUME NEW c \in RowIds, Live(chunks'[c]), chunks'[c].entry # Null,
                      NEW e, e = chunks'[c].entry, e \notin contested
               PROVE  \/ entries[e].status = "approved"
                      \/ \E g \in Handlers : call'[g].entry = e /\ call'[g].at \in Approving
    BY DEF OnlyApprovedIsTaught, Approving
  <2>1. CASE Live(chunks[c]) /\ e = chunks[c].entry
    <3>1. \/ entries[e].status = "approved"
          \/ \E g \in Handlers : call[g].entry = e /\ call[g].at \in Approving
      BY <2>1 DEF IInv, OnlyApprovedIsTaught, Approving
    <3> QED
      BY <1>1, <3>1
  <2>2. CASE f.at \in Approving /\ e = f.entry
    BY <1>1, <2>2
  <2> QED
    BY <2>1, <2>2
<1>5. ApprovedIsFindable'
  BY <1>2, WasFindable, FindableIsEnough
<1>6. call[h].at \notin Chatting
  OBVIOUS
<1> QED
  BY <1>2, <1>3, <1>4, <1>5, <1>6, KnowledgeStep DEF IInv, TypeOK

LEMMA Chunk_FailsStep ==
    ASSUME IInv, NEW h \in Handlers, NEW label \in {"save:chunk"} \cup Editing, At(h, label),
           Chunk_Fails(h), UNCHANGED <<chatVars, entries, rows, contested, removed>>
    PROVE  IInv'
<1>1. label \in Saving \cup Editing \cup Approving /\ label \notin Approving
  BY DEF Saving, Editing, Approving
<1>2. /\ TypeOK /\ call[h].at = label /\ label \notin Chatting \cup {"idle", "reject:write"}
      /\ call[h].question \in Questions /\ contested \subseteq RowIds
      /\ torn \subseteq Questions /\ removed \subseteq Questions
  BY <1>1, WorkingFrame
<1>3. /\ call' = [call EXCEPT ![h] = Idle] /\ UNCHANGED <<started, chunks>>
      /\ torn' = torn \cup {call[h].question}
  BY DEF Chunk_Fails, Return, Goto
<1>4. torn' \subseteq Questions /\ torn \subseteq torn' /\ call[h].question \in torn'
  BY <1>2, <1>3
<1> QED
  BY <1>1, <1>2, <1>3, <1>4, Returns

LEMMA ChunkOf ==
    ASSUME NEW q \in Questions, NEW r \in RowIds, NEW e \in RowIds \cup {Null}
    PROVE  LET chunk == [question |-> q, row |-> r, entry |-> e] IN
           /\ chunk \in Chunk /\ chunk.question = q /\ chunk.entry = e
           /\ Live(chunk) /\ chunk # Null
<1>1. [question |-> q, row |-> r, entry |-> e] \in Chunk
  BY DEF Chunk
<1> QED
  BY <1>1, RowIsLive

LEMMA Save_AddChunkStep ==
    ASSUME IInv, NEW h \in Handlers, Save_AddChunk(h)
    PROVE  IInv'
<1>1. /\ At(h, "save:chunk") /\ "save:chunk" \in Saving
      /\ "save:chunk" \in Storing /\ "save:chunk" \notin Approving
  BY DEF Save_AddChunk, Saving, Storing, Editing, Approving
<1>2. /\ TypeOK /\ call[h] \in Frame /\ call[h].at = "save:chunk" /\ call[h].session = Null
      /\ "save:chunk" \notin Chatting \cup {"idle", "reject:write"}
      /\ call[h].question \in Questions
      /\ torn \subseteq Questions /\ removed \subseteq Questions
      /\ FrameOK(h) /\ EntryOK(h)
  BY <1>1, WorkingFrame
<1>3. UNCHANGED <<chatVars, entries, rows, contested, removed>>
  BY DEF Save_AddChunk
<1>4. CASE Chunk_Fails(h)
  BY <1>1, <1>3, <1>4, Chunk_FailsStep
<1>5. CASE /\ InsertChunk(call[h].question, call[h].seen, call[h].entry)
           /\ Saved(h) /\ UNCHANGED torn
  <2>1. PICK q \in Questions : q = call[h].question
    BY <1>2
  <2>2. PICK r \in RowIds : r = call[h].seen
    BY <1>2 DEF FrameOK
  <2>3. PICK e \in RowIds \cup {Null} : e = call[h].entry
    BY <1>2 DEF Frame
  <2>4. PICK chunk \in Chunk : /\ chunk = [question |-> q, row |-> r, entry |-> e]
                               /\ chunk.question = q /\ chunk.entry = e
                               /\ Live(chunk) /\ chunk # Null
    BY ChunkOf
  <2>5. PICK n \in RowIds : n = NextId(chunks)
    BY <1>5 DEF InsertChunk
  <2>6. chunks' = [chunks EXCEPT ![n] = chunk]
    BY <1>5, <2>1, <2>2, <2>3, <2>4, <2>5 DEF InsertChunk
  <2>7. chunks[n] = Null /\ Ordered(chunks')
    BY <1>2, <2>4, <2>5, <2>6, NextRow DEF IInv, TypeOK, TablesOK
  <2>8. /\ chunks' \in [RowIds -> Chunk \cup {Null, Gone}] /\ chunks'[n] = chunk
        /\ \A c \in RowIds \ {n} : chunks'[c] = chunks[c]
    BY <1>2, <2>6 DEF TypeOK
  <2>9. PICK f \in Frame :
             /\ call' = [call EXCEPT ![h] = f] /\ UNCHANGED started
             /\ \/ f = Idle /\ e = Null
                \/ /\ e # Null /\ f.at = "approve:check" /\ f.session = Null
                   /\ f.entry = e /\ f.question = q
    <3>1. CASE e = Null
      BY <1>5, <2>3, <3>1, IdleInFrame DEF Saved, Return, Goto
    <3>2. CASE e # Null
      <4> DEFINE f == Goes(h, "approve:check")
      <4>1. call' = [call EXCEPT ![h] = f] /\ UNCHANGED started
        BY <1>5, <2>3, <3>2 DEF Saved, Goto
      <4>2. /\ f \in Frame /\ f.at = "approve:check" /\ f.session = Null
            /\ f.entry = e /\ f.question = q
        BY <1>2, <2>1, <2>3, SaveLabels, MovedFrame
      <4> HIDE DEF f
      <4> QED
        BY <3>2, <4>1, <4>2
    <3> QED
      BY <3>1, <3>2
  <2>10. call'[h] = f
    BY <1>2, <2>9, MovedCall
  <2>11. Findable(q)'
    BY <2>4, <2>8 DEF Findable
  <2>12. FrameOK(h)' /\ EntryOK(h)'
    <3>1. CASE f = Idle
      BY <2>10, <3>1, IdleFrameOK
    <3>2. CASE e # Null /\ f.at = "approve:check" /\ f.session = Null /\ f.entry = e /\ f.question = q
      <4>1. /\ f.at \in Approving
            /\ f.at \notin Chatting \cup Saving \cup Editing
            /\ f.at \notin {"idle", "entry", "drop:row", "save:chunk", "reject:write"}
        BY <3>2 DEF Approving, Chatting, Saving, Editing
      <4>2. FrameOK(h)'
        <5>1. \A p : p = f.question => Findable(p)'
          BY <2>11, <3>2
        <5> QED
          BY <2>10, <3>2, <4>1, <5>1 DEF FrameOK
      <4>3. EntryOK(h)'
        BY <1>2, <1>3, <2>1, <2>3, <2>9, <3>2, SameEntryOK
      <4> QED
        BY <4>2, <4>3
    <3> QED
      BY <2>9, <3>1, <3>2
  <2>13. /\ f.at \notin Chatting /\ (f.entry = Null \/ f.entry = call[h].entry)
         /\ (e # Null => f.at \in Approving /\ f.entry = e)
         /\ (f.at \in Approving => f.entry = call[h].entry /\ f.entry # Null)
    BY <2>3, <2>9, IdleInFrame DEF Chatting, Approving
  <2>14. /\ call[h].at \notin Chatting \cup Approving /\ started' \in 0..MaxCalls
         /\ removed \subseteq removed' /\ removed' \subseteq Questions
         /\ UNCHANGED <<chatVars, entries, rows, contested, torn>>
    BY <1>1, <1>2, <1>3, <1>5, <2>9 DEF TypeOK
  <2>15. \A c \in RowIds : Live(chunks[c]) =>
             Live(chunks'[c]) /\ chunks'[c].question = chunks[c].question
    BY <2>7, <2>8, NullIsNoId
  <2>16. \E c \in RowIds : Live(chunks'[c]) /\ chunks'[c].question = call[h].question
    BY <2>1, <2>4, <2>8
  <2>17. \A c \in RowIds : Live(chunks'[c]) /\ chunks'[c].entry # Null =>
             \/ Live(chunks[c]) /\ chunks'[c].entry = chunks[c].entry
             \/ f.at \in Approving /\ chunks'[c].entry = f.entry
    BY <2>4, <2>8, <2>13
  <2> QED
    BY <2>7, <2>8, <2>9, <2>12, <2>13, <2>14, <2>15, <2>16, <2>17, ChunksWritten
<1> QED
  BY <1>4, <1>5 DEF Save_AddChunk

LEMMA Edit_ChunkStep ==
    ASSUME IInv, NEW h \in Handlers, Edit_Chunk(h)
    PROVE  IInv'
<1>1. /\ At(h, "edit:chunk") /\ "edit:chunk" \in Editing
      /\ "edit:chunk" \in Storing /\ "edit:chunk" \notin Approving
  BY DEF Edit_Chunk, Storing, Editing, Approving
<1>2. /\ TypeOK /\ call[h] \in Frame /\ call[h].at = "edit:chunk" /\ call[h].session = Null
      /\ "edit:chunk" \notin Chatting \cup {"idle", "reject:write"}
      /\ call[h].question \in Questions
      /\ torn \subseteq Questions /\ removed \subseteq Questions
      /\ FrameOK(h) /\ EntryOK(h)
  BY <1>1, WorkingFrame
<1>3. UNCHANGED <<chatVars, entries, rows, contested>>
  BY DEF Edit_Chunk
<1>4. CASE Chunk_Fails(h) /\ UNCHANGED removed
  BY <1>1, <1>3, <1>4, Chunk_FailsStep
<1>5. CASE ~(Chunk_Fails(h) /\ UNCHANGED removed)
  <2>1. PICK q \in Questions : q = call[h].question
    BY <1>2
  <2>2. PICK n \in RowIds : n = call[h].seen
    BY <1>1, <1>2 DEF FrameOK
  <2>3. /\ Live(chunks[n])
        /\ chunks' = [chunks EXCEPT ![n].question = q, ![n].entry = Null]
        /\ removed' = removed \cup ({chunks[n].question} \ {q})
        /\ call' = [call EXCEPT ![h] = Idle] /\ UNCHANGED <<started, torn>>
    BY <1>5, <2>1, <2>2 DEF Edit_Chunk, Return, Goto
  <2>4. chunks[n] \in Chunk /\ chunks[n] # Null
    BY <1>2, <2>3, LiveRows
  <2>5. PICK chunk \in Chunk : /\ chunk = [chunks[n] EXCEPT !.question = q, !.entry = Null]
                               /\ chunk.question = q /\ chunk.entry = Null
                               /\ Live(chunk) /\ chunk # Null
    <3> DEFINE chunk == [chunks[n] EXCEPT !.question = q, !.entry = Null]
    <3>1. chunk \in Chunk /\ chunk.question = q /\ chunk.entry = Null
      BY <2>4 DEF Chunk
    <3> QED
      BY <3>1, RowIsLive
  <2>6. chunks' = [chunks EXCEPT ![n] = chunk]
    BY <1>2, <2>3, <2>4, <2>5 DEF TypeOK
  <2>7. /\ chunks' \in [RowIds -> Chunk \cup {Null, Gone}] /\ chunks'[n] = chunk
        /\ \A c \in RowIds \ {n} : chunks'[c] = chunks[c]
    BY <1>2, <2>6 DEF TypeOK
  <2>8. Ordered(chunks')
    BY <2>4, <2>5, <2>7, SameOrder DEF IInv, TablesOK
  <2>9. removed' \subseteq Questions /\ removed \subseteq removed'
    BY <1>2, <2>3, <2>4 DEF Chunk
  <2>10. call'[h] = Idle /\ Idle \in Frame /\ Idle.entry = Null /\ Idle.at \notin Chatting \cup Approving
    BY <1>2, <2>3, MovedCall, IdleInFrame DEF Chatting, Approving
  <2>11. FrameOK(h)' /\ EntryOK(h)'
    BY <2>10, IdleFrameOK
  <2>12. \A c \in RowIds : Live(chunks[c]) =>
             \/ Live(chunks'[c]) /\ chunks'[c].question = chunks[c].question
             \/ chunks[c].question \in removed'
    BY <2>3, <2>5, <2>7
  <2>13. \E c \in RowIds : Live(chunks'[c]) /\ chunks'[c].question = call[h].question
    BY <2>1, <2>5, <2>7
  <2>14. \A c \in RowIds : Live(chunks'[c]) /\ chunks'[c].entry # Null =>
             Live(chunks[c]) /\ chunks'[c].entry = chunks[c].entry
    BY <2>5, <2>7
  <2>15. /\ call[h].at \notin Chatting \cup Approving /\ started' \in 0..MaxCalls
         /\ UNCHANGED <<chatVars, entries, rows, contested, torn>>
    BY <1>1, <1>2, <1>3, <2>3 DEF TypeOK
  <2> QED
    BY <2>3, <2>7, <2>8, <2>9, <2>10, <2>11, <2>12, <2>13, <2>14, <2>15, ChunksWritten
<1> QED
  BY <1>4, <1>5

(* Chunks that are deleted. *)
LEMMA ChunksDropped ==
    ASSUME IInv, NEW cs \in SUBSET RowIds, \A c \in cs : Live(chunks[c]),
           chunks' = Without(cs), removed' = removed \cup QuestionsOf(cs)
    PROVE  /\ chunks' \in [RowIds -> Chunk \cup {Null, Gone}] /\ Ordered(chunks')
           /\ removed \subseteq removed' /\ removed' \subseteq Questions
           /\ \A c \in RowIds : Live(chunks[c]) =>
                 \/ Live(chunks'[c]) /\ chunks'[c].question = chunks[c].question
                 \/ chunks[c].question \in removed'
           /\ \A c \in RowIds : Live(chunks'[c]) =>
                 Live(chunks[c]) /\ chunks'[c].entry = chunks[c].entry
<1>1. \A c \in RowIds : chunks'[c] = IF c \in cs THEN Gone ELSE chunks[c]
  BY DEF Without
<1>2. chunks' \in [RowIds -> Chunk \cup {Null, Gone}]
  BY DEF Without, IInv, TypeOK
<1>3. \A c \in cs : chunks[c] \in Chunk /\ chunks[c] # Null
  BY LiveRows DEF IInv
<1>4. Ordered(chunks')
  BY <1>1, <1>3, NullIsNoId, SameOrder DEF IInv, TablesOK
<1>5. removed' \subseteq Questions
  BY <1>3 DEF QuestionsOf, IInv, TypeOK, Chunk
<1>6. \A c \in cs : chunks[c].question \in removed'
  BY DEF QuestionsOf
<1> QED
  BY <1>1, <1>2, <1>4, <1>5, <1>6, NullIsNoId

LEMMA DeleteStep ==
    ASSUME IInv, NEW h \in Handlers, NEW cs \in SUBSET RowIds, \A c \in cs : Live(chunks[c]),
           chunks' = Without(cs), removed' = removed \cup QuestionsOf(cs),
           NEW op, NEW f \in Frame, Begin(h, op, f), f.at \in {"idle", "drop:row"},
           f.session = Null, f.entry = Null, f.question = Null,
           f.at = "drop:row" => f.seen \in RowIds,
           UNCHANGED <<chatVars, entries, rows, contested, torn>>
    PROVE  IInv'
<1>1. started' \in 0..MaxCalls /\ call' = [call EXCEPT ![h] = f] /\ call[h].at = "idle"
  BY BegunBound DEF IInv
<1>2. /\ call[h].at \notin Chatting \cup Approving /\ call[h].at \notin Storing
      /\ f.at \notin Chatting \cup Saving \cup Approving \cup Editing
      /\ f.at \notin {"save:chunk", "reject:write"}
  BY <1>1 DEF Chatting, Approving, Storing, Editing, Saving
<1>3. call'[h] = f
  BY <1>1, MovedCall DEF IInv
<1>4. FrameOK(h)' /\ EntryOK(h)'
  BY <1>2, <1>3 DEF FrameOK, EntryOK
<1>5. /\ chunks' \in [RowIds -> Chunk \cup {Null, Gone}] /\ Ordered(chunks')
      /\ removed \subseteq removed' /\ removed' \subseteq Questions
      /\ \A c \in RowIds : Live(chunks[c]) =>
            \/ Live(chunks'[c]) /\ chunks'[c].question = chunks[c].question
            \/ chunks[c].question \in removed'
      /\ \A c \in RowIds : Live(chunks'[c]) =>
            Live(chunks[c]) /\ chunks'[c].entry = chunks[c].entry
  BY ChunksDropped
<1>6. f.at \notin Chatting /\ f.at \notin Approving
  BY <1>2
<1> QED
  BY <1>1, <1>2, <1>4, <1>5, <1>6, ChunksWritten

LEMMA DeleteChunkStep ==
    ASSUME IInv, NEW h \in Handlers, NEW c \in RowIds, DeleteChunk(h, c)
    PROVE  IInv'
<1>1. /\ Live(chunks[c]) /\ Begin(h, "deleteChunk", Idle) /\ chunks' = Without({c})
      /\ removed' = removed \cup QuestionsOf({c})
      /\ UNCHANGED <<chatVars, entries, rows, contested, torn>>
  BY DEF DeleteChunk
<1>2. {c} \in SUBSET RowIds /\ \A d \in {c} : Live(chunks[d])
  BY <1>1
<1> QED
  BY <1>1, <1>2, IdleInFrame, DeleteStep

LEMMA DeleteSqlQA_ChunksStep ==
    ASSUME IInv, NEW h \in Handlers, NEW r \in RowIds, DeleteSqlQA_Chunks(h, r)
    PROVE  IInv'
<1> DEFINE f == [Idle EXCEPT !.at = "drop:row", !.seen = r]
<1>1. /\ f \in Frame /\ f.at = "drop:row" /\ f.session = Null /\ f.seen = r
      /\ f.entry = Null /\ f.question = Null
  BY RowIdsAreNat DEF Idle, Frame, Labels
<1>2. /\ Begin(h, "deleteSqlQA", f) /\ chunks' = Without(Linked(r))
      /\ removed' = removed \cup QuestionsOf(Linked(r))
      /\ UNCHANGED <<chatVars, entries, rows, contested, torn>>
  BY DEF DeleteSqlQA_Chunks
<1> HIDE DEF f
<1>3. Linked(r) \in SUBSET RowIds /\ \A c \in Linked(r) : Live(chunks[c])
  BY DEF Linked
<1>4. f.at \in {"idle", "drop:row"} /\ f.seen \in RowIds
  BY <1>1
<1> QED
  BY <1>1, <1>2, <1>3, <1>4, DeleteStep

-----------------------------------------------------------------------------
(* The theorems. *)

LEMMA InitHasInvariant == Init => IInv
<1> SUFFICES ASSUME Init PROVE IInv
  OBVIOUS
<1>1. /\ sessions \in [Sessions -> {Null, NewSession}] /\ said = 0
      /\ jobs = [j \in JobIds |-> Null] /\ entries \in EarlierEntries
      /\ rows = [r \in RowIds |-> Null] /\ chunks = [c \in RowIds |-> Null]
      /\ call = [h \in Handlers |-> Idle] /\ started = 0
      /\ mixed = {} /\ stale = {} /\ contested = {} /\ torn = {} /\ removed = {}
  BY DEF Init
<1>2. TypeOK
  BY <1>1, NewSessionIsEmpty, IdleInFrame, AssistantStoreAssumption DEF TypeOK
<1>3. \A h \in Handlers : call[h] = Idle
  BY <1>1
<1>4. \A h \in Handlers : FrameOK(h) /\ EntryOK(h)
  <2>1. /\ Idle.at \notin Chatting \cup Saving \cup Editing \cup Approving
        /\ Idle.at \notin {"save:chunk", "drop:row", "reject:write"}
    BY IdleInFrame DEF Chatting, Saving, Editing, Approving
  <2> QED
    BY <1>3, <2>1, IdleInFrame DEF FrameOK, EntryOK
<1>5. \A s \in Sessions : Adding(s) = {} /\ Inserting(s) = {} /\ ~Emptying(s)
  BY <1>3, IdleInFrame DEF Adding, Inserting, Emptying, At
<1>6. IsFiniteSet({}) /\ Cardinality({}) = 0
  BY FS_EmptySet
<1>7. ASSUME NEW s \in Sessions PROVE OrderOK(s) /\ SummaryOK(s)
  <2>1. Live(sessions[s]) => /\ sessions[s].count = 0 /\ sessions[s].summary = {}
                             /\ Len(sessions[s].msgs) = 0
    BY <1>1, NewSessionIsEmpty, NullIsNoId
  <2>2. OrderOK(s)
    <3>1. IsFiniteSet(Adding(s)) /\ Cardinality(Adding(s)) = 0
      BY <1>5, <1>6
    <3> QED
      BY <1>5, <2>1, <3>1 DEF OrderOK
  <2>3. SummaryOK(s)
    BY <1>1, <2>1 DEF SummaryOK
  <2> QED
    BY <2>2, <2>3
<1>8. TablesOK
  BY <1>1, NullIsNoId, AssistantStoreAssumption DEF TablesOK, Ordered
<1>9. OnlyApprovedIsTaught
  BY <1>1, NullIsNoId DEF OnlyApprovedIsTaught
<1>10. ApprovedIsFindable
  BY <1>1, AssistantStoreAssumption DEF ApprovedIsFindable
<1> QED
  BY <1>2, <1>4, <1>7, <1>8, <1>9, <1>10 DEF IInv

LEMMA ConversationStep ==
    ASSUME IInv, NEW h \in Handlers, Conversation(h)
    PROVE  IInv'
<1>1. ASSUME NEW s \in Sessions, Conversation_Find(h, "chat", s, FALSE) PROVE IInv'
  BY <1>1, Conversation_FindStep
<1>2. ASSUME NEW s \in Sessions, Conversation_Find(h, "clear", s, TRUE) PROVE IInv'
  BY <1>2, Conversation_FindStep
<1>3. ASSUME NEW s \in Sessions, CreateConversation(h, s) PROVE IInv'
  BY <1>3, CreateConversationStep
<1>4. ASSUME NEW s \in Sessions, DeleteSession(h, s) PROVE IInv'
  BY <1>4, DeleteSessionStep
<1>5. CASE Session_Create(h)
  BY <1>5, Session_CreateStep
<1>6. CASE Message_Count(h)
  BY <1>6, Message_CountStep
<1>7. CASE Message_Insert(h)
  BY <1>7, Message_InsertStep
<1>8. CASE Message_Update(h)
  BY <1>8, Message_UpdateStep
<1>9. CASE TriggerBackgroundJobs(h)
  BY <1>9, TriggerBackgroundJobsStep
<1>10. CASE SavePendingKnowledge(h)
  BY <1>10, SavePendingKnowledgeStep
<1>11. CASE Clear_Delete(h)
  BY <1>11, Clear_DeleteStep
<1>12. CASE Clear_Reset(h)
  BY <1>12, Clear_ResetStep
<1> QED
  BY <1>1, <1>2, <1>3, <1>4, <1>5, <1>6, <1>7, <1>8, <1>9, <1>10, <1>11, <1>12
  DEF Conversation

LEMMA TeachingStep ==
    ASSUME IInv, NEW h \in Handlers, Teaching(h)
    PROVE  IInv'
<1>1. ASSUME NEW e \in RowIds, Approve_Find(h, e) PROVE IInv'
  BY <1>1, Approve_FindStep
<1>2. ASSUME NEW e \in RowIds, Reject_Find(h, e) PROVE IInv'
  BY <1>2, Reject_FindStep
<1>3. ASSUME NEW q \in Questions, Teach(h, q) PROVE IInv'
  BY <1>3, TeachStep
<1>4. ASSUME NEW q \in Questions, NEW r \in RowIds, Edit_Question(h, r, q) PROVE IInv'
  BY <1>4, Edit_QuestionStep
<1>5. CASE Save_Find(h)
  BY <1>5, Save_FindStep
<1>6. CASE Save_FindTemplate(h)
  BY <1>6, Save_FindTemplateStep
<1>7. CASE Save_Insert(h)
  BY <1>7, Save_InsertStep
<1>8. CASE Save_AddChunk(h)
  BY <1>8, Save_AddChunkStep
<1>9. CASE Approve_Check(h)
  BY <1>9, Approve_CheckStep
<1>10. CASE Approve_Write(h)
  BY <1>10, Approve_WriteStep
<1>11. CASE Reject_Write(h)
  BY <1>11, Reject_WriteStep
<1>12. CASE Edit_Template(h)
  BY <1>12, Edit_TemplateStep
<1>13. CASE Edit_FindChunk(h)
  BY <1>13, Edit_FindChunkStep
<1>14. CASE Edit_Chunk(h)
  BY <1>14, Edit_ChunkStep
<1>15. ASSUME NEW r \in RowIds, DeleteChunk(h, r) PROVE IInv'
  BY <1>15, DeleteChunkStep
<1>16. ASSUME NEW r \in RowIds, DeleteSqlQA_Chunks(h, r) PROVE IInv'
  BY <1>16, DeleteSqlQA_ChunksStep
<1>17. CASE DeleteSqlQA_Row(h)
  BY <1>17, DeleteSqlQA_RowStep
<1> QED
  BY <1>1, <1>2, <1>3, <1>4, <1>5, <1>6, <1>7, <1>8, <1>9, <1>10, <1>11, <1>12, <1>13,
     <1>14, <1>15, <1>16, <1>17
  DEF Teaching

LEMMA SummaryStep ==
    ASSUME IInv, NEW j \in JobIds, Summary(j)
    PROVE  IInv'
BY Job_ReadSummaryStep, Job_ReadMessagesStep, Job_WriteStep, Job_FailStep DEF Summary

LEMMA StutterKeepsInvariant ==
    ASSUME IInv, UNCHANGED vars
    PROVE  IInv'
<1>1. /\ UNCHANGED <<said, mixed, stale, knowledgeVars, call, started>>
      /\ UNCHANGED <<sessions, jobs>>
  BY DEF vars, knowledgeVars
<1>2. \A s : (Emptying(s)' <=> Emptying(s)) /\ Ids(s)' = Ids(s)
  BY <1>1 DEF Emptying, Ids, At
<1>3. \A s \in Sessions : SummaryOK(s)'
  BY <1>1, <1>2 DEF IInv, SummaryOK
<1>4. /\ jobs' \in [JobIds -> Job \cup {Null}]
      /\ sessions' \in [Sessions -> Session \cup {Null, Gone}]
  BY <1>1 DEF IInv, TypeOK
<1> QED
  BY <1>1, <1>3, <1>4, JobStep

LEMMA NextKeepsInvariant == IInv /\ [Next]_vars => IInv'
<1> SUFFICES ASSUME IInv, [Next]_vars PROVE IInv'
  OBVIOUS
<1>1. ASSUME NEW h \in Handlers, Conversation(h) PROVE IInv'
  BY <1>1, ConversationStep
<1>2. ASSUME NEW h \in Handlers, Teaching(h) PROVE IInv'
  BY <1>2, TeachingStep
<1>3. ASSUME NEW h \in Handlers, Crash(h) PROVE IInv'
  BY <1>3, CrashStep
<1>4. ASSUME NEW j \in JobIds, Summary(j) PROVE IInv'
  BY <1>4, SummaryStep
<1>5. CASE UNCHANGED vars
  BY <1>5, StutterKeepsInvariant
<1> QED
  BY <1>1, <1>2, <1>3, <1>4, <1>5 DEF Next

(* Requests and jobs keep the invariant. *)
THEOREM Invariant == Spec => []IInv
<1>1. Init => IInv
  BY InitHasInvariant
<1>2. IInv /\ [Next]_vars => IInv'
  BY NextKeepsInvariant
<1> QED
  BY <1>1, <1>2, PTL DEF Spec

(* The state keeps the shape the schema and the handlers give it.          *)
THEOREM TypeCorrect == Spec => []TypeOK
<1>1. IInv => TypeOK
  BY DEF IInv
<1> QED
  BY <1>1, Invariant, PTL

(* However many requests write to conversations, and wherever they end,    *)
(* where no two wrote to one at a time and none died in it the messages    *)
(* are numbered in the order of their creation, and the counter of         *)
(* addMessage says how many there are but for those just inserted.         *)
THEOREM MessagesAreNumbered == Spec => []NumbersFollowOrder
<1>1. IInv => NumbersFollowOrder
  BY DEF IInv, NumbersFollowOrder, OrderOK
<1> QED
  BY <1>1, Invariant, PTL

(* Whatever a job has read and whenever it writes, a summary is of         *)
(* messages that its conversation has, unless that was emptied while the   *)
(* job was at work.                                                        *)
THEOREM SummariesAreCurrent == Spec => []SummaryIsOfThisConversation
<1>1. IInv => SummaryIsOfThisConversation
  BY DEF IInv, SummaryIsOfThisConversation, SummaryOK, Ids
<1> QED
  BY <1>1, Invariant, PTL

(* Nothing that was rejected is in the store, though approve writes the    *)
(* store before the status, unless two administrators decided on the entry *)
(* at once or an approval died.                                            *)
THEOREM RejectedIsNotTaught == Spec => []OnlyApprovedIsTaught
<1>1. IInv => OnlyApprovedIsTaught
  BY DEF IInv
<1> QED
  BY <1>1, Invariant, PTL

(* The question of an approved entry is found by similarity, though an     *)
(* approval of a known question stores nothing, unless a handler failed or *)
(* an administrator removed it.                                            *)
THEOREM ApprovedCanBeFound == Spec => []ApprovedIsFindable
<1>1. IInv => ApprovedIsFindable
  BY DEF IInv
<1> QED
  BY <1>1, Invariant, PTL
=============================================================================
