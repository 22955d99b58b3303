----------------------------- MODULE MCAccounts -----------------------------
EXTENDS Accounts, TLC

CONSTANTS e1, h1, h2

EveryOp == {"sendCode", "verifyCode", "preRegister", "registerDirectly",
            "requestChange", "confirmChange", "verifyEmail", "login",
            "changePassword", "refresh", "revoke", "revokeAll", "crash"}

(* Its password was changed once. *)
First == [email |-> e1, verified |-> FALSE, password |-> 2, oldHash |-> FALSE]

AlikeHandlers == Permutations(Handlers) \cup Permutations(People)
=============================================================================
