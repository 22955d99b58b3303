---------------------------- MODULE MCAssistant ----------------------------
(***************************************************************************)
(* The instances of Assistant that TLC checks: two handlers, the           *)
(* conversation of a user and one with a UUID, and two questions that the  *)
(* same query answers, typed with capitals.                                *)
(***************************************************************************)
EXTENDS Assistant, TLC

CONSTANTS typed, small

TypedSql == [q \in Questions |-> typed]

InSmall == [sql \in Sqls |-> small]

NoEntries == [e \in RowIds |-> Null]

(* No entry, or one for each of two questions. *)
NoneOrTwo ==
    {NoEntries} \cup
    {table \in [RowIds -> [question : Questions, status : {"pending"}]] :
        \A e, f \in RowIds : e # f => table[e].question # table[f].question}

AllOps == {"chat", "clear", "createConversation", "deleteSession", "approve", "reject",
           "teach", "edit", "deleteChunk", "deleteSqlQA", "crash"}

Symmetry == Permutations(Handlers) \cup Permutations(Questions)
=============================================================================
