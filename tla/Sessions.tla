------------------------------ MODULE Sessions ------------------------------
(***************************************************************************)
(* Logging in, refreshing and revoking sessions, changing the password.    *)
(* AuthService.                                                            *)
(***************************************************************************)
EXTENDS AccountStore

(* Mutant: the tokens an account has are left alone. *)
Kept_All(u) == live[u]

(* generateRefreshToken: what is left of an account's tokens, *)
Kept(u) == {}

Session_Delete(h) ==
    LET u == call[h].who IN
    /\ At(h, "session:delete")
    /\ live' = [live EXCEPT ![u] = Kept(u)]
    /\ current' = [current EXCEPT ![u] = Null]
    /\ crowded' = crowded \cup Crowding(h, u)
    /\ Goto(h, Goes(h, "session:create"))
    /\ UNCHANGED <<accounts, codeVars, issued, overtaken>>

(* and the new one. *)
Session_Create(h) ==
    LET u == call[h].who  t == issued + 1 IN
    /\ At(h, "session:create")
    /\ issued' = t
    /\ live' = [live EXCEPT ![u] = @ \cup {t}]
    /\ current' = [current EXCEPT ![u] = t]
    /\ crowded' = crowded \cup Crowding(h, u)
    /\ Return(h)
    /\ UNCHANGED <<accounts, codeVars, overtaken>>

-----------------------------------------------------------------------------
(* Mutant: the password is not compared. *)
PasswordIs_Any(u, p) == p <= accounts[u].password

PasswordIs(u, p) == accounts[u].password = p

Login_Find(h, u, p) ==
    /\ Exists(u)
    /\ PasswordIs(u, p)
    /\ Begin(h, "login",
             [Idle EXCEPT !.at = IF accounts[u].oldHash THEN "login:rehash"
                                                        ELSE "session:delete",
                          !.who = u, !.password = p])
    /\ UNCHANGED <<accounts, codeVars, sessionVars, overtaken>>

(* The password that was given is hashed again and written.                *)
Login_Rehash(h) ==
    LET u == call[h].who IN
    /\ At(h, "login:rehash")
    /\ accounts' = [accounts EXCEPT ![u].password = call[h].password, ![u].oldHash = FALSE]
    /\ overtaken' = overtaken \ {h}
    /\ Goto(h, Goes(h, "session:delete"))
    /\ UNCHANGED <<codeVars, sessionVars>>

ChangePassword_Find(h, u, p) ==
    /\ Exists(u)
    /\ PasswordIs(u, p)
    /\ Begin(h, "changePassword", [Idle EXCEPT !.at = "password:write", !.who = u])
    /\ UNCHANGED <<accounts, codeVars, sessionVars, overtaken>>

ChangePassword_Write(h) ==
    LET u == call[h].who IN
    /\ At(h, "password:write")
    /\ accounts' = [accounts EXCEPT ![u].password = @ + 1, ![u].oldHash = FALSE]
    /\ overtaken' = overtaken \cup {g \in Handlers : At(g, "login:rehash") /\ call[g].who = u}
    /\ Return(h)
    /\ UNCHANGED <<codeVars, sessionVars>>

-----------------------------------------------------------------------------
Owner(t) == {u \in People : t \in live[u]}

(* refreshToken: the time of a token is only looked at here. *)
RefreshToken_Find(h, t, expired) ==
    \E u \in Owner(t) :
        /\ Begin(h, "refresh",
                 [Idle EXCEPT !.at = IF expired THEN "revoke:delete" ELSE "session:delete",
                              !.who = u, !.token = t])
        /\ UNCHANGED <<accounts, codeVars, sessionVars, overtaken>>

RevokeRefreshToken_Find(h, t) ==
    \E u \in Owner(t) :
        /\ Begin(h, "revoke",
                 [Idle EXCEPT !.at = "revoke:delete", !.who = u, !.token = t])
        /\ UNCHANGED <<accounts, codeVars, sessionVars, overtaken>>

(* Deleting a token that is gone fails. *)
RevokeRefreshToken_Delete(h) ==
    LET u == call[h].who IN
    /\ At(h, "revoke:delete")
    /\ live' = [live EXCEPT ![u] = @ \ {call[h].token}]
    /\ current' = [current EXCEPT ![u] = IF @ = call[h].token THEN Null ELSE @]
    /\ crowded' = crowded \cup Crowding(h, u)
    /\ Return(h)
    /\ UNCHANGED <<accounts, codeVars, issued, overtaken>>

RevokeAllRefreshTokens(h, u) ==
    /\ Exists(u)
    /\ Begin(h, "revokeAll", Idle)
    /\ live' = [live EXCEPT ![u] = {}]
    /\ current' = [current EXCEPT ![u] = Null]
    /\ crowded' = crowded \cup Crowding(h, u)
    /\ UNCHANGED <<accounts, codeVars, issued, overtaken>>
=============================================================================
