------------------------------ MODULE Accounts ------------------------------
(***************************************************************************)
(* Accounts from the first code to the last session: registration on top   *)
(* of Verification and Sessions.                                           *)
(***************************************************************************)
EXTENDS Verification, Sessions

CONSTANT InitialAccount     \* the account there is before the first request

ASSUME AccountsAssumption == InitialAccount \in Account

(* Mutant: any address may be registered with a token. *)
Proves_Any(id, e) == TRUE

(* The address of a token is that of its row, and has to be the one given. *)
Proves(id, e) == codes[id].email = e

PreRegister_Check(h, id, e) ==
    /\ ValidProof(id)
    /\ Proves(id, e)
    /\ ~Taken(e)
    /\ Begin(h, "preRegister",
             [Idle EXCEPT !.at = "register:create", !.email = e, !.id = id])
    /\ shared' = shared \cup Sharing(h, id)
    /\ UNCHANGED <<accounts, codes, proofs, proved, tries, uses, sessionVars, overtaken>>

(* A new account, unless another one got the address first.                *)
CreateUser(h, verified, label) ==
    LET e == call[h].email IN
    IF Taken(e) THEN Return(h) /\ UNCHANGED accounts
    ELSE \E u \in People :
            /\ accounts[u] = Null
            /\ accounts' = [accounts EXCEPT ![u] =
                  [email |-> e, verified |-> verified, password |-> 1, oldHash |-> FALSE]]
            /\ Goto(h, [Goes(h, label) EXCEPT !.who = u])

PreRegister_Create(h) ==
    /\ At(h, "register:create")
    /\ CreateUser(h, TRUE, "register:delete")
    /\ uses' = IF accounts' = accounts THEN uses ELSE [uses EXCEPT ![call[h].id] = @ + 1]
    /\ UNCHANGED <<codes, proofs, proved, tries, shared, sessionVars, overtaken>>

PreRegister_DeleteCodes(h) ==
    /\ At(h, "register:delete")
    /\ DeleteCodesOf(call[h].email)
    /\ Goto(h, Goes(h, "session:delete"))
    /\ UNCHANGED <<accounts, proofs, proved, tries, uses, shared, sessionVars, overtaken>>

(* Registration without a code, where the server is not set up as one for  *)
(* development: the address is not verified.                               *)
RegisterDirectly_Check(h, e) ==
    /\ ~Taken(e)
    /\ Begin(h, "registerDirectly", [Idle EXCEPT !.at = "direct:create", !.email = e])
    /\ UNCHANGED <<accounts, codeVars, sessionVars, overtaken>>

RegisterDirectly_Create(h) ==
    /\ At(h, "direct:create")
    /\ CreateUser(h, FALSE, "direct:delete")
    /\ UNCHANGED <<codeVars, sessionVars, overtaken>>

RegisterDirectly_DeleteCodes(h) ==
    /\ At(h, "direct:delete")
    /\ DeleteCodesOf(call[h].email)
    /\ Goto(h, Goes(h, "session:delete"))
    /\ UNCHANGED <<accounts, proofs, proved, tries, uses, shared, sessionVars, overtaken>>

(* The process dies while a handler awaits. *)
Crash(h) ==
    /\ "crash" \in Ops
    /\ ~At(h, "idle")
    /\ shared' = shared \cup ({call[h].id} \ {Null})
    /\ overtaken' = overtaken \ {h}
    /\ Return(h)
    /\ UNCHANGED <<accounts, codes, proofs, proved, tries, uses, sessionVars>>

-----------------------------------------------------------------------------
Init ==
    /\ \E u \in People, old \in BOOLEAN :
          /\ accounts = [v \in People |->
                IF v = u THEN [InitialAccount EXCEPT !.oldHash = old] ELSE Null]
          /\ live = [v \in People |-> IF v = u THEN {1} ELSE {}]
          /\ current = [v \in People |-> IF v = u THEN 1 ELSE Null]
    /\ \E e \in Emails \cup {Null} :
          codes = [id \in CodeIds |->
              IF id = 1 /\ e # Null /\ e # InitialAccount.email
              THEN [email |-> e, status |-> "pending", attempts |-> 0, time |-> "valid"]
              ELSE Null]
    /\ call = [h \in Handlers |-> Idle]
    /\ started = 0 /\ issued = 1
    /\ tries = [id \in CodeIds |-> 0] /\ uses = [id \in CodeIds |-> 0]
    /\ proved = IF InitialAccount.verified THEN {InitialAccount.email} ELSE {}
    /\ proofs = {} /\ shared = {} /\ crowded = {} /\ overtaken = {}

CodeStep(h) ==
    \/ \E e \in Emails :
          \/ SendVerificationCode_Check(h, e) \/ RegisterDirectly_Check(h, e)
          \/ \E id \in CodeIds : PreRegister_Check(h, id, e)
          \/ \E guess \in 0..MaxCodes : VerifyCode_Find(h, e, guess)
          \/ \E u \in People :
                \/ RequestChangeEmail_Check(h, u, e)
                \/ \E guess \in 0..MaxCodes :
                      VerifyEmail_Find(h, u, e, guess) \/ ConfirmChangeEmail_Find(h, u, e, guess)
    \/ SendVerificationCode_Create(h)
    \/ VerifyCode_Fail(h) \/ VerifyCode_Count(h) \/ VerifyCode_Verify(h)
    \/ RequestChangeEmail_Create(h)
    \/ Email_Refuse(h) \/ Email_Write(h) \/ Email_Mark(h)
    \/ PreRegister_Create(h) \/ PreRegister_DeleteCodes(h)
    \/ RegisterDirectly_Create(h) \/ RegisterDirectly_DeleteCodes(h)

(* Clients try the passwords an account has had, and the tokens there are. *)
SessionStep(h) ==
    \/ \E u \in People :
          \/ RevokeAllRefreshTokens(h, u)
          \/ /\ Exists(u)
             /\ \E p \in 1..accounts[u].password :
                   Login_Find(h, u, p) \/ ChangePassword_Find(h, u, p)
    \/ \E t \in 1..issued :
          \/ RevokeRefreshToken_Find(h, t)
          \/ \E expired \in BOOLEAN : RefreshToken_Find(h, t, expired)
    \/ Session_Delete(h) \/ Session_Create(h)
    \/ Login_Rehash(h) \/ ChangePassword_Write(h) \/ RevokeRefreshToken_Delete(h)

Next ==
    \/ \E h \in Handlers : CodeStep(h) \/ SessionStep(h) \/ Crash(h)
    \/ \E id \in CodeIds : CodeAges(id) \/ ProofExpires(id)

Spec == Init /\ [][Next]_vars

-----------------------------------------------------------------------------
(* Accounts, codes, tokens and frames have the shape the code gives them.  *)
TypeOK ==
    /\ accounts \in [People -> Account \cup {Null}]
    /\ codes \in [CodeIds -> Code \cup {Null}]
    /\ proofs \subseteq CodeIds
    /\ live \in [People -> SUBSET Tokens]
    /\ call \in [Handlers -> Frame]
    /\ started \in 0..MaxCalls /\ issued \in Tokens
    /\ proved \subseteq Emails
    /\ tries \in [CodeIds -> Nat] /\ uses \in [CodeIds -> Nat]
    /\ shared \subseteq CodeIds
    /\ current \in [People -> Tokens \cup {Null}]
    /\ crowded \subseteq People /\ overtaken \subseteq Handlers

(* An address is only shown as verified on an account when a code sent to  *)
(* it was given to the server, however registrations and changes of        *)
(* addresses overlap.                                                      *)
VerifiedMeansProved ==
    \A u \in People : Exists(u) /\ accounts[u].verified => accounts[u].email \in proved

(* A code gives its address to an account once, by registration or by a    *)
(* change, unless two requests worked with it at once or one died with it. *)
CodeIsUsedOnce == \A id \in CodeIds \ shared : uses[id] <= 1

(* No more wrong codes are compared with a row than its attempts, under    *)
(* the same conditions (overlapping guesses are counted once).             *)
GuessesAreLimited == \A id \in CodeIds \ shared : tries[id] <= MaxAttempts

(* The one refresh token of an account is the last it was given, and there *)
(* is none after a logout, unless two requests of the account about        *)
(* sessions overlapped.                                                    *)
SessionIsTheLast == \A u \in People \ crowded : live[u] = {current[u]} \ {Null}

(* A password that was changed does not come back, except by a login that  *)
(* read the account before the change and stores a newer hash after it.    *)
PasswordStaysChanged ==
    [][\A u \in People : Exists(u) =>
          \/ accounts'[u].password >= accounts[u].password
          \/ \E h \in overtaken \ overtaken' : call[h].who = u]_vars
=============================================================================
