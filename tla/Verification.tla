---------------------------- MODULE Verification ----------------------------
(***************************************************************************)
(* Codes sent to e-mail addresses, and what they are exchanged for: a      *)
(* verification token (VerificationService), or the verified address of an *)
(* account (UsersService).                                                 *)
(***************************************************************************)
EXTENDS AccountStore

RowsOf(e) == {id \in CodeIds : codes[id] # Null /\ codes[id].email = e}

(* The one that was created last, if there is any. *)
Latest(ids) == {id \in ids : \A other \in ids : other <= id}

(* The row that comes to be, with the id after the last one. *)
InsertCode(e) ==
    \E id \in CodeIds :
        /\ \A other \in CodeIds : codes[other] = Null <=> other >= id
        /\ codes' = [codes EXCEPT ![id] =
                        [email |-> e, status |-> "pending", attempts |-> 0, time |-> "recent"]]

SetCode(id, row) == codes' = [codes EXCEPT ![id] = row]

(* Rows are deleted by deleteMany; updating one that is gone fails.        *)
IsThere(id) == codes[id].status # "gone"

DeleteCodesOf(e) ==
    codes' = [id \in CodeIds |-> IF codes[id] # Null /\ codes[id].email = e
                                 THEN [codes[id] EXCEPT !.status = "gone"] ELSE codes[id]]

(* A minute passes for a row, or its time is over. *)
CodeAges(id) ==
    /\ codes[id] # Null
    /\ codes[id].status \in {"pending", "verified"}
    /\ codes[id].time # "expired"
    /\ SetCode(id, [codes[id] EXCEPT !.time = IF @ = "recent" THEN "valid" ELSE "expired"])
    /\ UNCHANGED <<accounts, proofs, call, started, proved, tries, uses, shared,
                   sessionVars, overtaken>>

ProofExpires(id) ==
    /\ id \in proofs
    /\ proofs' = proofs \ {id}
    /\ UNCHANGED <<accounts, codes, call, started, proved, tries, uses, shared,
                   sessionVars, overtaken>>

-----------------------------------------------------------------------------
(* sendVerificationCode *)

CanSend(e) ==
    /\ ~Taken(e)
    /\ \A id \in RowsOf(e) :
          /\ codes[id].status # "verified"
          /\ codes[id].status = "gone" \/ codes[id].time # "recent"

SendVerificationCode_Check(h, e) ==
    /\ CanSend(e)
    /\ Begin(h, "sendCode", [Idle EXCEPT !.at = "send:create", !.email = e])
    /\ UNCHANGED <<accounts, codeVars, sessionVars, overtaken>>

SendVerificationCode_Create(h) ==
    /\ At(h, "send:create")
    /\ InsertCode(call[h].email)
    /\ Return(h)
    /\ UNCHANGED <<accounts, proofs, proved, tries, uses, shared, sessionVars, overtaken>>

-----------------------------------------------------------------------------
(* verifyCode: guess is the id of the code that is given, 0 a wrong one.   *)

AllPending(e) == {id \in RowsOf(e) : codes[id].status = "pending"}

Candidates(e) == {id \in AllPending(e) : codes[id].time # "expired"}

(* Mutant: one guess more. *)
Exhausted_Late(row) == row.attempts > MaxAttempts

Exhausted(row) == row.attempts >= MaxAttempts

VerifyCode_Find(h, e, guess) ==
    \E id \in Latest(Candidates(e)) :
    /\ Begin(h, "verifyCode",
             [Idle EXCEPT !.at = IF Exhausted(codes[id]) THEN "check:failed" ELSE "check:count",
                          !.email = e, !.id = id, !.row = codes[id], !.guess = guess])
    /\ shared' = shared \cup Sharing(h, id)
    /\ UNCHANGED <<accounts, codes, proofs, proved, tries, uses, sessionVars, overtaken>>

VerifyCode_Fail(h) ==
    LET id == call[h].id IN
    /\ At(h, "check:failed")
    /\ SetCode(id, IF IsThere(id) THEN [codes[id] EXCEPT !.status = "failed"] ELSE codes[id])
    /\ Return(h)
    /\ UNCHANGED <<accounts, proofs, proved, tries, uses, shared, sessionVars, overtaken>>

(* Counting, and comparing with the code of the row read before. *)
VerifyCode_Count(h) ==
    LET id == call[h].id IN
    /\ At(h, "check:count")
    /\ IF IsThere(id)
       THEN /\ SetCode(id, [codes[id] EXCEPT !.attempts = call[h].row.attempts + 1])
            /\ IF call[h].guess = id
               THEN Goto(h, Goes(h, "check:verified")) /\ UNCHANGED tries
               ELSE Return(h) /\ tries' = [tries EXCEPT ![id] = @ + 1]
       ELSE Return(h) /\ UNCHANGED <<codes, tries>>
    /\ UNCHANGED <<accounts, proofs, proved, uses, shared, sessionVars, overtaken>>

(* Mutant: the row stays pending. *)
Used_Never(row) == row

Used(row) == [row EXCEPT !.status = "verified"]

VerifyCode_Verify(h) ==
    LET id == call[h].id IN
    /\ At(h, "check:verified")
    /\ IF IsThere(id)
       THEN /\ SetCode(id, Used(codes[id]))
            /\ proofs' = proofs \cup {id}
            /\ proved' = proved \cup {call[h].email}
       ELSE UNCHANGED <<codes, proofs, proved>>
    /\ Return(h)
    /\ UNCHANGED <<accounts, tries, uses, shared, sessionVars, overtaken>>

(* validateVerificationToken *)
ValidProof(id) == id \in proofs /\ codes[id].status = "verified"

-----------------------------------------------------------------------------
(* The endpoints of UsersService give an account an address and a code.    *)

RequestChangeEmail_Check(h, u, e) ==
    /\ Exists(u)
    /\ ~Taken(e)
    /\ Begin(h, "requestChange", [Idle EXCEPT !.at = "change:create", !.email = e])
    /\ UNCHANGED <<accounts, codeVars, sessionVars, overtaken>>

(* The row stays when the mail cannot be sent. *)
RequestChangeEmail_Create(h) ==
    /\ At(h, "change:create")
    /\ InsertCode(call[h].email)
    /\ Return(h)
    /\ UNCHANGED <<accounts, proofs, proved, tries, uses, shared, sessionVars, overtaken>>

Refuses(row) == row.time = "expired" \/ Exhausted(row)

(* verifyEmail takes the last row and counts wrong codes.                  *)
VerifyEmail_Find(h, u, e, guess) ==
    \E id \in Latest(AllPending(e)) :
    /\ Exists(u)
    /\ ~TakenByOther(e, u)
    /\ Begin(h, "verifyEmail",
             [Idle EXCEPT !.at = IF ~Refuses(codes[id]) /\ guess = id THEN "email:write"
                                                                     ELSE "email:check",
                          !.who = u, !.email = e, !.id = id, !.row = codes[id]])
    /\ shared' = shared \cup Sharing(h, id)
    /\ UNCHANGED <<accounts, codes, proofs, proved, tries, uses, sessionVars, overtaken>>

(* confirmChangeEmail takes the last row with the code it is given, so     *)
(* that a wrong one is compared with nothing.                              *)
ConfirmChangeEmail_Find(h, u, e, guess) ==
    /\ Exists(u)
    /\ guess \in AllPending(e)
    /\ Begin(h, "confirmChange",
             [Idle EXCEPT !.at = IF Refuses(codes[guess]) THEN "email:check" ELSE "email:write",
                          !.who = u, !.email = e, !.id = guess, !.row = codes[guess]])
    /\ shared' = shared \cup Sharing(h, guess)
    /\ UNCHANGED <<accounts, codes, proofs, proved, tries, uses, sessionVars, overtaken>>

(* What a refusal makes of a row that is now there, from the one it read.  *)
Refused(now, row) ==
    IF row.time = "expired" THEN [now EXCEPT !.status = "expired"]
    ELSE IF Exhausted(row) THEN [now EXCEPT !.status = "failed"]
    ELSE [now EXCEPT !.attempts = row.attempts + 1,
                     !.status = IF row.attempts + 1 >= MaxAttempts THEN "failed" ELSE @]

Email_Refuse(h) ==
    LET id == call[h].id IN
    /\ At(h, "email:check")
    /\ IF IsThere(id)
       THEN /\ SetCode(id, Refused(codes[id], call[h].row))
            /\ tries' = IF Refuses(call[h].row) THEN tries ELSE [tries EXCEPT ![id] = @ + 1]
       ELSE UNCHANGED <<codes, tries>>
    /\ Return(h)
    /\ UNCHANGED <<accounts, proofs, proved, uses, shared, sessionVars, overtaken>>

(* The database refuses an address that another account has.               *)
Email_Write(h) ==
    LET u == call[h].who  e == call[h].email IN
    /\ At(h, "email:write")
    /\ proved' = proved \cup {e}
    /\ IF TakenByOther(e, u) THEN Return(h) /\ UNCHANGED <<accounts, uses>>
       ELSE /\ accounts' = [accounts EXCEPT ![u].email = e, ![u].verified = TRUE]
            /\ uses' = [uses EXCEPT ![call[h].id] = @ + 1]
            /\ Goto(h, Goes(h, "email:mark"))
    /\ UNCHANGED <<codes, proofs, tries, shared, sessionVars, overtaken>>

Email_Mark(h) ==
    LET id == call[h].id IN
    /\ At(h, "email:mark")
    /\ SetCode(id, IF IsThere(id) THEN Used(codes[id]) ELSE codes[id])
    /\ Return(h)
    /\ UNCHANGED <<accounts, proofs, proved, tries, uses, shared, sessionVars, overtaken>>
=============================================================================
