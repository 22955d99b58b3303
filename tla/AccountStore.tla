---------------------------- MODULE AccountStore ----------------------------
(***************************************************************************)
(* The tables accounts live in, and the frames of the handlers of          *)
(* AuthService, VerificationService and UsersService.                      *)
(*                                                                         *)
(* Only e-mail addresses are modelled.  An account is its address, whether *)
(* the address is verified, and its password, of which a number is kept;   *)
(* names, phones and what passwords must contain are left out.  Reads that *)
(* follow each other without a write between them are one step where only  *)
(* the last matters.                                                       *)
(***************************************************************************)
EXTENDS Integers, FiniteSets

CONSTANTS
    Handlers,        \* requests the server has in progress
    People,          \* accounts there are or can come to be
    Emails,
    MaxCodes,        \* bound: rows of verification_codes
    MaxAttempts,     \* VerificationCode.maxAttempts
    Ops,             \* the endpoints clients call, and "crash"
    MaxCalls,        \* bound: requests sent
    Null             \* no account, address or row

CodeIds == 1..MaxCodes

(* Refresh tokens, and the passwords of an account, in the order they are made. *)
Tokens == Nat
Passwords == Nat

(* oldHash tells that the password is hashed with fewer rounds than today. *)
Account == [email: Emails, verified: BOOLEAN, password: Passwords, oldHash: BOOLEAN]

(* A row of verification_codes.  Its time goes by from recent, less than a *)
(* minute ago, over valid to expired.  Gone is a deleted row.              *)
Code == [email: Emails, status: {"pending", "verified", "failed", "expired", "gone"},
         attempts: 0..MaxAttempts, time: {"recent", "valid", "expired"}]

ASSUME AccountStoreAssumption ==
    /\ MaxCodes \in Nat /\ MaxCalls \in Nat
    /\ MaxAttempts \in Nat \ {0}
    /\ Null \notin People \cup Emails \cup Account \cup Code \cup Tokens

VARIABLES
    accounts,
    codes,       \* the rows, by their id, which is the order of creation
    proofs,      \* rows for which there is a verification token, not expired yet
    live,        \* the refresh tokens of each account
    call,        \* the frame of each handler
    started,     \* requests sent so far
    issued,      \* refresh tokens made so far
    proved,      \* history: addresses a right code was given for
    tries,       \* history: guesses compared with each code
    uses,        \* history: how often a code verified the address of an account
    shared,      \* history: rows two handlers worked on at once, or one died with
    current,     \* history: the refresh token last given out to each account, unless
                 \* it was taken back
    crowded,     \* history: accounts with two requests about sessions at once
    overtaken    \* history: logins during which a password was changed

vars == <<accounts, codes, proofs, live, call, started, issued, proved, tries, uses,
          shared, current, crowded, overtaken>>

codeVars == <<codes, proofs, proved, tries, uses, shared>>
sessionVars == <<live, issued, current, crowded>>

Labels == {"idle", "send:create", "check:failed", "check:count", "check:verified",
           "register:create", "register:delete", "direct:create", "direct:delete",
           "email:check", "email:write", "email:mark", "change:create",
           "login:rehash", "session:delete", "session:create",
           "revoke:delete", "password:write"}

(* row is what was read of the code id, password of the account. *)
Frame == [at: Labels, who: People \cup {Null}, email: Emails \cup {Null},
          id: CodeIds \cup {Null}, row: Code \cup {Null}, guess: 0..MaxCodes,
          password: Passwords \cup {Null}, token: Tokens \cup {Null}]

Idle == [at |-> "idle", who |-> Null, email |-> Null, id |-> Null, row |-> Null,
         guess |-> 0, password |-> Null, token |-> Null]

-----------------------------------------------------------------------------
At(h, label) == call[h].at = label

Goes(h, label) == [call[h] EXCEPT !.at = label]

Begin(h, op, frame) ==
    /\ op \in Ops
    /\ At(h, "idle")
    /\ started < MaxCalls
    /\ started' = started + 1
    /\ call' = [call EXCEPT ![h] = frame]

Goto(h, frame) == call' = [call EXCEPT ![h] = frame] /\ UNCHANGED started

Return(h) == Goto(h, Idle)

Exists(u) == accounts[u] # Null

(* User.email is unique. *)
Taken(e) == \E u \in People : Exists(u) /\ accounts[u].email = e

TakenByOther(e, u) == \E v \in People \ {u} : Exists(v) /\ accounts[v].email = e

(* What shared and crowded remember: another handler at the same row, or   *)
(* at the sessions of the same account.                                    *)
Sharing(h, id) == IF \E g \in Handlers \ {h} : call[g].id = id THEN {id} ELSE {}

Crowding(h, u) ==
    IF \E g \in Handlers \ {h} :
          call[g].who = u /\ call[g].at \in {"session:delete", "session:create", "revoke:delete"}
    THEN {u} ELSE {}
=============================================================================
