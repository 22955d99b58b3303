----------------------------- MODULE Knowledge -----------------------------
(***************************************************************************)
(* What the assistant is taught: entries are approved or rejected          *)
(* (PendingKnowledgeService), and questions with their queries are kept in *)
(* a vector store (KnowledgeService over SupabaseVectorStoreService).      *)
(***************************************************************************)
EXTENDS AssistantStore

IsPending(e) == entries[e].status = "pending"

SetStatus(e, status) == entries' = [entries EXCEPT ![e].status = status]

(* The id the table gives its next row, none beyond the bound.             *)
NextId(table) == Cardinality({i \in RowIds : table[i] # Null}) + 1

(* saveQAInteraction, first for an approval, then for an administrator who *)
(* teaches a question.                                                     *)
Approve_Find(h, e) ==
    /\ entries[e] # Null
    /\ IsPending(e)
    /\ Begin(h, "approve", [Idle EXCEPT !.at = "save:find", !.entry = e,
                                        !.question = entries[e].question])
    /\ contested' = contested \cup Contesting(h, e)
    /\ UNCHANGED <<chatVars, entries, rows, chunks, torn, removed>>

Teach(h, q) ==
    /\ Begin(h, "teach", [Idle EXCEPT !.at = "save:find", !.question = q])
    /\ UNCHANGED <<chatVars, knowledgeVars>>

Saved(h) == IF call[h].entry = Null THEN Return(h) ELSE Goto(h, Goes(h, "approve:check"))

(* The template under which a question is saved.                           *)
SavedSql(q) == Normalized[SqlOf[q]]

WithTemplate(sql) == {r \in RowIds : Live(rows[r]) /\ rows[r].sql = sql}

(* Mutant: a question is known by its query. *)
Known_BySql(q) == WithTemplate(SavedSql(q)) # {}

(* The searches by similarity find no more: what they find counts when the *)
(* question has a row.                                                     *)
Known(q) == \E r \in RowIds : Live(rows[r]) /\ rows[r].question = q

Save_Find(h) ==
    /\ At(h, "save:find")
    /\ IF Known(call[h].question) THEN Saved(h) ELSE Goto(h, Goes(h, "save:template"))
    /\ UNCHANGED <<chatVars, knowledgeVars>>

(* saveSqlQA: a row with the same template is used as it is. *)
Save_FindTemplate(h) ==
    LET found == WithTemplate(SavedSql(call[h].question)) IN
    /\ At(h, "save:template")
    /\ IF found = {} THEN Goto(h, Goes(h, "save:insert"))
       ELSE \E r \in found : Goto(h, [Goes(h, "save:chunk") EXCEPT !.seen = r])
    /\ UNCHANGED <<chatVars, knowledgeVars>>

(* An upsert by template, which gives a row that has come to be meanwhile  *)
(* the new question.  A row with the question and another template is a    *)
(* conflict.                                                               *)
Save_Insert(h) ==
    LET q == call[h].question
        found == WithTemplate(SavedSql(q))
        r == IF found = {} THEN NextId(rows) ELSE CHOOSE x \in found : TRUE
    IN
    /\ At(h, "save:insert")
    /\ IF \E x \in RowIds \ {r} : Live(rows[x]) /\ rows[x].question = q
       THEN Return(h) /\ UNCHANGED rows
       ELSE /\ r \in RowIds
            /\ rows' = [rows EXCEPT ![r] = [question |-> q, sql |-> SavedSql(q)]]
            /\ Goto(h, [Goes(h, "save:chunk") EXCEPT !.seen = r])
    /\ UNCHANGED <<chatVars, entries, chunks, contested, torn, removed>>

InsertChunk(q, r, e) ==
    /\ NextId(chunks) \in RowIds
    /\ chunks' = [chunks EXCEPT ![NextId(chunks)] = [question |-> q, row |-> r, entry |-> e]]

(* No embedding comes from its service, or the row is gone and may not be  *)
(* referred to: the request ends, and its question stays without a chunk.  *)
Chunk_Fails(h) ==
    /\ Return(h)
    /\ torn' = torn \cup {call[h].question}
    /\ UNCHANGED chunks

Save_AddChunk(h) ==
    LET r == call[h].seen IN
    /\ At(h, "save:chunk")
    /\ \/ Chunk_Fails(h)
       \/ /\ Live(rows[r])
          /\ InsertChunk(call[h].question, r, call[h].entry)
          /\ Saved(h)
          /\ UNCHANGED torn
    /\ UNCHANGED <<chatVars, entries, rows, contested, removed>>

-----------------------------------------------------------------------------
(* The transaction of an approval reads and writes; the row is not locked. *)
Approve_Check(h) ==
    /\ At(h, "approve:check")
    /\ IF IsPending(call[h].entry) THEN Goto(h, Goes(h, "approve:write")) ELSE Return(h)
    /\ UNCHANGED <<chatVars, knowledgeVars>>

Approve_Write(h) ==
    /\ At(h, "approve:write")
    /\ SetStatus(call[h].entry, "approved")
    /\ Return(h)
    /\ UNCHANGED <<chatVars, rows, chunks, contested, torn, removed>>

(* Mutant: any entry may be rejected. *)
Rejectable_Any(e) == TRUE

Rejectable(e) == IsPending(e)

Reject_Find(h, e) ==
    /\ entries[e] # Null
    /\ Rejectable(e)
    /\ Begin(h, "reject", [Idle EXCEPT !.at = "reject:write", !.entry = e])
    /\ contested' = contested \cup Contesting(h, e)
    /\ UNCHANGED <<chatVars, entries, rows, chunks, torn, removed>>

Reject_Write(h) ==
    /\ At(h, "reject:write")
    /\ SetStatus(call[h].entry, "rejected")
    /\ Return(h)
    /\ UNCHANGED <<chatVars, rows, chunks, contested, torn, removed>>

-----------------------------------------------------------------------------
(* An administrator edits a row: its question, then its template, then the *)
(* chunk, which the code takes to be one.                                  *)

Edit_Question(h, r, q) ==
    /\ Live(rows[r])
    /\ \A x \in RowIds \ {r} : Live(rows[x]) => rows[x].question # q
    /\ Begin(h, "edit", [Idle EXCEPT !.at = "edit:template", !.seen = r, !.question = q])
    /\ rows' = [rows EXCEPT ![r].question = q]
    /\ removed' = removed \cup ({rows[r].question} \ {q})
    /\ UNCHANGED <<chatVars, entries, chunks, contested, torn>>

(* An edit does not normalize the template, as saving does.  The template  *)
(* of another row is a conflict.                                           *)
Edit_Template(h) ==
    LET r == call[h].seen  q == call[h].question IN
    /\ At(h, "edit:template")
    /\ IF Live(rows[r]) /\ WithTemplate(SqlOf[q]) \subseteq {r}
       THEN /\ rows' = [rows EXCEPT ![r].sql = SqlOf[q]]
            /\ Goto(h, Goes(h, "edit:find"))
            /\ UNCHANGED torn
       ELSE /\ Return(h)
            /\ torn' = torn \cup {q}
            /\ UNCHANGED rows
    /\ UNCHANGED <<chatVars, entries, chunks, contested, removed>>

Linked(r) == {c \in RowIds : Live(chunks[c]) /\ chunks[c].row = r}

(* Two chunks of a row are an error. *)
Edit_FindChunk(h) ==
    LET r == call[h].seen  linked == Linked(r) IN
    /\ At(h, "edit:find")
    /\ \/ linked = {} /\ Goto(h, Goes(h, "save:chunk")) /\ UNCHANGED torn
       \/ \E c \in linked :
             /\ linked = {c}
             /\ Goto(h, [Goes(h, "edit:chunk") EXCEPT !.seen = c])
             /\ UNCHANGED torn
       \/ /\ Cardinality(linked) > 1
          /\ Return(h)
          /\ torn' = torn \cup {call[h].question}
    /\ UNCHANGED <<chatVars, entries, rows, chunks, contested, removed>>

Edit_Chunk(h) ==
    LET c == call[h].seen IN
    /\ At(h, "edit:chunk")
    /\ \/ Chunk_Fails(h) /\ UNCHANGED removed
       \/ /\ Live(chunks[c])
          /\ chunks' = [chunks EXCEPT ![c].question = call[h].question, ![c].entry = Null]
          /\ removed' = removed \cup ({chunks[c].question} \ {call[h].question})
          /\ Return(h)
          /\ UNCHANGED torn
    /\ UNCHANGED <<chatVars, entries, rows, contested>>

-----------------------------------------------------------------------------
(* deleteKnowledge.  A question something of which was deleted may come    *)
(* back: removed remembers it all the same.                                *)

Without(cs) == [c \in RowIds |-> IF c \in cs THEN Gone ELSE chunks[c]]

QuestionsOf(cs) == {chunks[c].question : c \in cs}

DeleteChunk(h, c) ==
    /\ Live(chunks[c])
    /\ Begin(h, "deleteChunk", Idle)
    /\ chunks' = Without({c})
    /\ removed' = removed \cup QuestionsOf({c})
    /\ UNCHANGED <<chatVars, entries, rows, contested, torn>>

DeleteSqlQA_Chunks(h, r) ==
    /\ Live(rows[r])
    /\ Begin(h, "deleteSqlQA", [Idle EXCEPT !.at = "drop:row", !.seen = r])
    /\ chunks' = Without(Linked(r))
    /\ removed' = removed \cup QuestionsOf(Linked(r))
    /\ UNCHANGED <<chatVars, entries, rows, contested, torn>>

(* A row that chunks refer to is not deleted. *)
DeleteSqlQA_Row(h) ==
    LET r == call[h].seen IN
    /\ At(h, "drop:row")
    /\ IF Live(rows[r]) /\ Linked(r) = {}
       THEN rows' = [rows EXCEPT ![r] = Gone] /\ removed' = removed \cup {rows[r].question}
       ELSE UNCHANGED <<rows, removed>>
    /\ Return(h)
    /\ UNCHANGED <<chatVars, entries, chunks, contested, torn>>
=============================================================================
