--------------------------- MODULE Accounts_proofs ---------------------------
(***************************************************************************)
(* Proofs about Accounts for any handlers, people, addresses, codes,       *)
(* attempts and requests.                                                  *)
(***************************************************************************)
EXTENDS Accounts, TLAPS

-----------------------------------------------------------------------------
(* The invariant.                                                          *)

HeldAt(id, label) == \E h \in Handlers : call[h].id = id /\ call[h].at = label

(* There is nothing about a row before it is made; a pending one has no    *)
(* token, and the address of one that has a token is proved.               *)
RowOK(id) ==
    /\ codes[id] = Null => uses[id] = 0 /\ tries[id] = 0 /\ id \notin proofs
    /\ codes[id] # Null =>
          /\ codes[id].status = "pending" => id \notin proofs
          /\ id \in proofs => codes[id].email \in proved

(* A row no two handlers worked on at once: its attempts count the guesses *)
(* compared with it, and it was not used as long as it can be.             *)
CountOK(id) ==
    id \notin shared =>
       /\ uses[id] <= 1
       /\ codes[id] # Null =>
             /\ tries[id] <= codes[id].attempts
             /\ codes[id].status = "pending" /\ ~HeldAt(id, "email:mark") => uses[id] = 0
             /\ id \in proofs /\ codes[id].status = "verified" /\ ~HeldAt(id, "register:delete")
                   => uses[id] = 0

Alone(id) ==
    id \notin shared =>
       \A g, h \in Handlers : call[g].id = id /\ call[h].id = id => g = h

Checking == {"check:failed", "check:count", "check:verified"}
Changing == {"email:check", "email:write", "email:mark"}
Registering == {"register:create", "register:delete"}
AtSessions == {"session:delete", "session:create", "revoke:delete"}

(* What a handler relies on of the row it works with, *)
RowFrameOK(h) ==
    LET f == call[h] IN
    /\ f.id # Null => codes[f.id] # Null
    /\ f.at \in Checking \cup Changing \cup Registering =>
          f.id \in CodeIds /\ codes[f.id].email = f.email
    /\ f.at \in Registering => codes[f.id].status # "pending"
    /\ f.at = "register:create" => f.email \in proved
    /\ f.at \in {"check:count", "email:check"} => f.row \in Code
    /\ f.at = "check:count" => ~Exhausted(f.row)
    /\ f.at \in Checking \cup Changing \cup Registering /\ f.id \notin shared =>
          /\ f.at \in {"check:count", "email:check"} => f.row.attempts = codes[f.id].attempts
          /\ f.at \in Checking \cup {"email:check", "email:write", "register:create"} =>
                uses[f.id] = 0
          /\ f.at \in Changing => f.id \notin proofs

(* and of the account and the address. *)
AccountFrameOK(h) ==
    LET f == call[h] IN
    /\ f.at \in {"send:create", "change:create", "direct:create", "direct:delete"}
                \cup Registering \cup Changing \cup Checking => f.email \in Emails
    /\ f.at \in Changing \cup AtSessions \cup {"login:rehash", "password:write",
                "register:delete", "direct:delete"} => f.who \in People
    /\ f.at \in Changing \cup {"login:rehash", "password:write"} => Exists(f.who)
    /\ f.at = "revoke:delete" => f.token \in Tokens
    /\ f.at = "login:rehash" => f.password \in Passwords

(* Between the two halves of generateRefreshToken an account has no token. *)
SessionFrameOK(h) ==
    call[h].at = "session:create" /\ call[h].who \notin crowded => live[call[h].who] = {}

(* A password that is hashed again is the one before the first change.     *)
RehashOK(h) ==
    LET f == call[h] IN
    f.at = "login:rehash" =>
        /\ accounts[f.who].oldHash => f.password = accounts[f.who].password
        /\ h \notin overtaken => f.password >= accounts[f.who].password
        /\ \A g \in Handlers : call[g].at = "login:rehash" /\ call[g].who = f.who =>
                call[g].password = f.password

IInv ==
    /\ TypeOK
    /\ VerifiedMeansProved
    /\ SessionIsTheLast
    /\ \A id \in CodeIds : RowOK(id) /\ CountOK(id) /\ Alone(id)
    /\ \A h \in Handlers : RowFrameOK(h) /\ AccountFrameOK(h)
    /\ \A h \in Handlers : SessionFrameOK(h) /\ RehashOK(h)

-----------------------------------------------------------------------------
LEMMA NullIsNoId ==
    /\ Null \notin CodeIds /\ Null \notin People /\ Null \notin Emails
    /\ Null \notin Tokens /\ Null \notin Account /\ Null \notin Code
BY AccountStoreAssumption DEF Tokens, CodeIds

(* What handlers in progress rely on survives the steps of the others.     *)

Others(h) == \A g \in Handlers \ {h} : call'[g] = call[g]

(* What a step of h does to rows: no row goes back to pending or changes   *)
(* its address, and but for that of h they stay as they are.               *)
RowsKept(h) ==
    /\ \A id \in CodeIds : codes[id] # Null =>
          /\ codes'[id] # Null /\ codes'[id].email = codes[id].email
          /\ codes[id].status # "pending" => codes'[id].status # "pending"
    /\ \A id \in CodeIds \ {call[h].id} :
          /\ codes[id] # Null =>
                /\ codes'[id].attempts = codes[id].attempts
                /\ codes'[id].status = "verified" => codes[id].status = "verified"
          /\ uses'[id] = uses[id] /\ tries'[id] = tries[id]
          /\ id \in proofs' => id \in proofs
    /\ proved \subseteq proved' /\ shared \subseteq shared'

AccountsKept == \A u \in People : Exists(u) => accounts'[u] # Null

LEMMA OtherRowsKept ==
    ASSUME TypeOK, TypeOK', NEW h \in Handlers, Others(h), RowsKept(h), NEW id \in CodeIds,
           id # call[h].id, id # call'[h].id, RowOK(id), CountOK(id)
    PROVE  RowOK(id)' /\ CountOK(id)'
<1>1. \A l : HeldAt(id, l)' <=> HeldAt(id, l)
  BY DEF HeldAt, Others
<1>2. RowOK(id)'
  BY DEF RowOK, RowsKept
<1>3. CountOK(id)'
  <2>1. CASE codes[id] = Null
    BY <2>1 DEF CountOK, RowOK, RowsKept, TypeOK, Code
  <2>2. CASE codes[id] # Null
    <3>1. codes'[id].status = "pending" => codes[id].status = "pending"
      BY <2>2 DEF RowsKept
    <3> QED
      BY <1>1, <2>2, <3>1 DEF CountOK, RowsKept
  <2> QED
    BY <2>1, <2>2
<1> QED
  BY <1>2, <1>3

LEMMA AloneKept ==
    ASSUME NEW h \in Handlers, Others(h), shared \subseteq shared', NEW id \in CodeIds,
           call'[h].id \in {call[h].id, Null}, Alone(id), Null \notin CodeIds
    PROVE  Alone(id)'
BY DEF Alone, Others

LEMMA OtherFrameKept ==
    ASSUME TypeOK, NEW h \in Handlers, Others(h), RowsKept(h), AccountsKept,
           NEW g \in Handlers \ {h}, RowFrameOK(g), AccountFrameOK(g),
           \A id \in CodeIds : Alone(id)
    PROVE  RowFrameOK(g)' /\ AccountFrameOK(g)'
<1> DEFINE id == call[g].id
<1>1. call'[g] = call[g] /\ call[g] \in Frame
  BY DEF Others, TypeOK
<1>2. AccountFrameOK(g)'
  BY <1>1 DEF AccountFrameOK, AccountsKept, Exists
<1>3. id \in CodeIds \/ id = Null
  BY <1>1 DEF Frame
<1>4. CASE id = Null
  <2>1. id \notin CodeIds
    BY <1>4, NullIsNoId
  <2>2. call[g].at \notin Checking \cup Changing \cup Registering
    BY <2>1 DEF RowFrameOK
  <2> QED
    BY <1>1, <1>2, <1>4, <2>2 DEF RowFrameOK, Checking, Changing, Registering
<1>5. CASE id # Null
  <2>1. /\ codes[id] # Null /\ codes'[id] # Null /\ codes'[id].email = codes[id].email
        /\ codes[id].status # "pending" => codes'[id].status # "pending"
        /\ proved \subseteq proved' /\ shared \subseteq shared'
    BY <1>3, <1>5 DEF RowFrameOK, RowsKept
  <2>2. id \notin shared' => id # call[h].id
    BY <1>3, <1>5, <2>1 DEF Alone
  <2>3. id \notin shared' =>
          /\ codes'[id].attempts = codes[id].attempts
          /\ uses'[id] = uses[id]
          /\ id \in proofs' => id \in proofs
    BY <1>3, <1>5, <2>1, <2>2 DEF RowsKept
  <2> QED
    BY <1>1, <1>2, <2>1, <2>3 DEF RowFrameOK, Exhausted
<1> QED
  BY <1>2, <1>3, <1>4, <1>5

LEMMA HandlerStep ==
    ASSUME IInv, NEW h \in Handlers, Others(h), RowsKept(h), AccountsKept, TypeOK',
           call'[h].id \in {call[h].id, Null},
           \A id \in CodeIds : id = call[h].id => RowOK(id)' /\ CountOK(id)',
           VerifiedMeansProved', SessionIsTheLast',
           RowFrameOK(h)', AccountFrameOK(h)',
           \A g \in Handlers : SessionFrameOK(g)' /\ RehashOK(g)'
    PROVE  IInv'
<1>1. shared \subseteq shared' /\ Null \notin CodeIds
  BY NullIsNoId DEF RowsKept
<1>2. ASSUME NEW id \in CodeIds PROVE RowOK(id)' /\ CountOK(id)' /\ Alone(id)'
  BY <1>1, OtherRowsKept, AloneKept DEF IInv
<1>3. ASSUME NEW g \in Handlers PROVE RowFrameOK(g)' /\ AccountFrameOK(g)'
  BY OtherFrameKept DEF IInv
<1> QED
  BY <1>2, <1>3 DEF IInv

-----------------------------------------------------------------------------
(* How each of the moves of AccountStore changes the control variables.    *)

ControlOK == call' \in [Handlers -> Frame] /\ started' \in 0..MaxCalls

LEMMA IdleInFrame == Idle \in Frame /\ Idle.id = Null
  BY AccountStoreAssumption DEF Idle, Frame, Labels

LEMMA BeginMove ==
    ASSUME TypeOK, NEW h \in Handlers, NEW f \in Frame, NEW op, Begin(h, op, f)
    PROVE  ControlOK /\ call'[h] = f /\ Others(h) /\ call[h].at = "idle"
BY AccountStoreAssumption DEF ControlOK, Begin, TypeOK, Others, At

LEMMA GotoMove ==
    ASSUME TypeOK, NEW h \in Handlers, NEW f \in Frame, Goto(h, f)
    PROVE  ControlOK /\ call'[h] = f /\ Others(h)
BY DEF ControlOK, Goto, TypeOK, Others

LEMMA ReturnMove ==
    ASSUME TypeOK, NEW h \in Handlers, Return(h)
    PROVE  ControlOK /\ call'[h] = Idle /\ Others(h)
BY IdleInFrame, GotoMove DEF Return

LEMMA MovedFrame ==
    ASSUME NEW h, call[h] \in Frame, NEW label \in Labels
    PROVE  /\ Goes(h, label) \in Frame
           /\ Goes(h, label).at = label
           /\ Goes(h, label).who = call[h].who /\ Goes(h, label).id = call[h].id
           /\ Goes(h, label).email = call[h].email /\ Goes(h, label).row = call[h].row
           /\ Goes(h, label).guess = call[h].guess
           /\ Goes(h, label).password = call[h].password
           /\ Goes(h, label).token = call[h].token
BY DEF Frame, Goes

(* An idle handler relies on nothing. *)
LEMMA IdleRelies ==
    ASSUME NEW h \in Handlers, call'[h] = Idle
    PROVE  /\ RowFrameOK(h)' /\ AccountFrameOK(h)' /\ SessionFrameOK(h)' /\ RehashOK(h)'
           /\ call'[h].id = Null /\ call'[h].at = "idle"
BY DEF Idle, RowFrameOK, AccountFrameOK, SessionFrameOK, RehashOK, Checking, Changing,
       Registering, AtSessions

-----------------------------------------------------------------------------
(* The parts of the invariant that a step leaves alone.                    *)

LEMMA SessionsSame ==
    ASSUME IInv, NEW h \in Handlers, Others(h), UNCHANGED <<live, current, crowded>>,
           call'[h].at # "session:create"
    PROVE  SessionIsTheLast' /\ \A g \in Handlers : SessionFrameOK(g)'
<1>1. SessionIsTheLast'
  BY DEF IInv, SessionIsTheLast
<1>2. ASSUME NEW g \in Handlers PROVE SessionFrameOK(g)'
  BY DEF IInv, SessionFrameOK, Others
<1> QED
  BY <1>1, <1>2

LEMMA RehashSame ==
    ASSUME IInv, NEW h \in Handlers, Others(h), call'[h].at # "login:rehash",
           \A u \in People : Exists(u) => /\ accounts'[u].password = accounts[u].password
                                          /\ accounts'[u].oldHash = accounts[u].oldHash,
           overtaken \ {h} \subseteq overtaken'
    PROVE  \A g \in Handlers : RehashOK(g)'
<1> SUFFICES ASSUME NEW g \in Handlers, call'[g].at = "login:rehash"
             PROVE  RehashOK(g)'
  BY DEF RehashOK
<1>1. g # h /\ call'[g] = call[g]
  BY DEF Others
<1>2. call[g].who \in People /\ Exists(call[g].who) /\ RehashOK(g)
  BY <1>1 DEF IInv, AccountFrameOK
<1>3. g \notin overtaken' => g \notin overtaken
  BY <1>1
<1> QED
  BY <1>1, <1>2, <1>3 DEF RehashOK, Others

LEMMA AccountsSame ==
    ASSUME IInv, NEW h \in Handlers, Others(h), UNCHANGED <<accounts, overtaken>>,
           proved \subseteq proved', call'[h].at # "login:rehash"
    PROVE  AccountsKept /\ VerifiedMeansProved' /\ \A g \in Handlers : RehashOK(g)'
<1>1. \A g \in Handlers : RehashOK(g)'
  BY RehashSame
<1> QED
  BY <1>1 DEF IInv, AccountsKept, VerifiedMeansProved, Exists

(* A handler that leaves neither of the labels that say a row is in use.   *)
LEMMA CodesSame ==
    ASSUME IInv, NEW h \in Handlers, Others(h), UNCHANGED codeVars,
           call[h].at \notin {"email:mark", "register:delete"},
           call'[h].id \in {call[h].id, Null}
    PROVE  /\ RowsKept(h)
           /\ \A id \in CodeIds : id = call[h].id => RowOK(id)' /\ CountOK(id)'
<1> USE DEF codeVars
<1>1. RowsKept(h)
  BY DEF RowsKept
<1>2. ASSUME NEW id \in CodeIds PROVE RowOK(id)' /\ CountOK(id)'
  <2>1. ASSUME NEW l \in {"email:mark", "register:delete"}, HeldAt(id, l) PROVE HeldAt(id, l)'
    BY <2>1 DEF HeldAt, Others
  <2> QED
    BY <2>1 DEF IInv, RowOK, CountOK
<1> QED
  BY <1>1, <1>2

(* A handler that works with no row, or no longer.                         *)
LEMMA RowFrameLeft ==
    ASSUME TypeOK, NEW h \in Handlers, RowFrameOK(h), RowsKept(h),
           call'[h].id \in {call[h].id, Null},
           call'[h].at \notin Checking \cup Changing \cup Registering
    PROVE  RowFrameOK(h)'
<1>1. call[h].id \in CodeIds \cup {Null}
  BY DEF TypeOK, Frame
<1>2. call'[h].id # Null => codes'[call'[h].id] # Null
  BY <1>1 DEF RowFrameOK, RowsKept
<1> QED
  BY <1>2 DEF RowFrameOK, Checking, Changing, Registering

(* The steps that write nothing but the frame of a handler.                *)
LEMMA FrameStep ==
    ASSUME IInv, NEW h \in Handlers, ControlOK, Others(h),
           UNCHANGED <<accounts, codeVars, sessionVars, overtaken>>,
           call[h].at \notin {"email:mark", "register:delete"},
           call'[h].id \in {call[h].id, Null},
           call'[h].at \notin Checking \cup Changing \cup Registering
                              \cup {"session:create", "login:rehash"},
           AccountFrameOK(h)'
    PROVE  IInv'
<1>1. UNCHANGED <<live, current, crowded, issued, proved>>
  BY DEF sessionVars, codeVars
<1>2. TypeOK'
  BY DEF IInv, TypeOK, ControlOK, sessionVars, codeVars
<1>3. /\ RowsKept(h)
      /\ \A id \in CodeIds : id = call[h].id => RowOK(id)' /\ CountOK(id)'
  BY CodesSame
<1>4. SessionIsTheLast' /\ \A g \in Handlers : SessionFrameOK(g)'
  BY <1>1, SessionsSame
<1>5. AccountsKept /\ VerifiedMeansProved' /\ \A g \in Handlers : RehashOK(g)'
  BY <1>1, AccountsSame
<1>6. RowFrameOK(h)'
  BY <1>3, RowFrameLeft DEF IInv
<1> QED
  BY <1>2, <1>3, <1>4, <1>5, <1>6, HandlerStep

LEMMA BeginStep ==
    ASSUME IInv, NEW h \in Handlers, NEW f \in Frame, NEW op, Begin(h, op, f),
           UNCHANGED <<accounts, codeVars, sessionVars, overtaken>>,
           f.id = Null,
           f.at \notin Checking \cup Changing \cup Registering
                       \cup {"session:create", "login:rehash"},
           call'[h] = f => AccountFrameOK(h)'
    PROVE  IInv'
<1>1. TypeOK
  BY DEF IInv
<1>2. ControlOK /\ call'[h] = f /\ Others(h) /\ call[h].at = "idle"
  BY <1>1, BeginMove
<1> QED
  BY <1>2, FrameStep

LEMMA SendVerificationCode_CheckStep ==
    ASSUME IInv, NEW h \in Handlers, NEW e \in Emails, SendVerificationCode_Check(h, e)
    PROVE  IInv'
<1> DEFINE f == [Idle EXCEPT !.at = "send:create", !.email = e]
<1>1. f \in Frame /\ f.at = "send:create" /\ f.email = e /\ f.id = Null
  BY IdleInFrame, ZenonT(40) DEF Frame, Labels
<1> HIDE DEF f
<1>2. call'[h] = f => AccountFrameOK(h)'
  BY <1>1 DEF AccountFrameOK, Changing, AtSessions
<1> QED
  BY <1>1, <1>2, BeginStep DEF SendVerificationCode_Check, f, Checking, Changing, Registering

LEMMA RequestChangeEmail_CheckStep ==
    ASSUME IInv, NEW h \in Handlers, NEW u \in People, NEW e \in Emails,
           RequestChangeEmail_Check(h, u, e)
    PROVE  IInv'
<1> DEFINE f == [Idle EXCEPT !.at = "change:create", !.email = e]
<1>1. f \in Frame /\ f.at = "change:create" /\ f.email = e /\ f.id = Null
  BY IdleInFrame, ZenonT(40) DEF Frame, Labels
<1> HIDE DEF f
<1>2. call'[h] = f => AccountFrameOK(h)'
  BY <1>1 DEF AccountFrameOK, Changing, AtSessions
<1> QED
  BY <1>1, <1>2, BeginStep DEF RequestChangeEmail_Check, f, Checking, Changing, Registering

LEMMA RegisterDirectly_CheckStep ==
    ASSUME IInv, NEW h \in Handlers, NEW e \in Emails, RegisterDirectly_Check(h, e)
    PROVE  IInv'
<1> DEFINE f == [Idle EXCEPT !.at = "direct:create", !.email = e]
<1>1. f \in Frame /\ f.at = "direct:create" /\ f.email = e /\ f.id = Null
  BY IdleInFrame, ZenonT(40) DEF Frame, Labels
<1> HIDE DEF f
<1>2. call'[h] = f => AccountFrameOK(h)'
  BY <1>1 DEF AccountFrameOK, Changing, AtSessions
<1> QED
  BY <1>1, <1>2, BeginStep DEF RegisterDirectly_Check, f, Checking, Changing, Registering

LEMMA ChangePassword_FindStep ==
    ASSUME IInv, NEW h \in Handlers, NEW u \in People, NEW p, ChangePassword_Find(h, u, p)
    PROVE  IInv'
<1> DEFINE f == [Idle EXCEPT !.at = "password:write", !.who = u]
<1>1. f \in Frame /\ f.at = "password:write" /\ f.who = u /\ f.id = Null
  BY IdleInFrame, ZenonT(40) DEF Frame, Labels
<1> HIDE DEF f
<1>2. Exists(u) /\ accounts' = accounts
  BY DEF ChangePassword_Find
<1>3. call'[h] = f => AccountFrameOK(h)'
  BY <1>1, <1>2 DEF AccountFrameOK, Changing, Checking, Registering, AtSessions, Exists
<1> QED
  BY <1>1, <1>3, BeginStep DEF ChangePassword_Find, f, Checking, Changing, Registering

LEMMA OwnerIsOne ==
    ASSUME NEW t, NEW u \in Owner(t)
    PROVE  u \in People
BY DEF Owner

LEMMA RefreshToken_FindStep ==
    ASSUME IInv, NEW h \in Handlers, NEW t \in Tokens, NEW expired, RefreshToken_Find(h, t, expired)
    PROVE  IInv'
<1>1. PICK u \in Owner(t) :
        /\ Begin(h, "refresh",
                 [Idle EXCEPT !.at = IF expired THEN "revoke:delete" ELSE "session:delete",
                              !.who = u, !.token = t])
        /\ UNCHANGED <<accounts, codeVars, sessionVars, overtaken>>
  BY DEF RefreshToken_Find
<1> DEFINE label == IF expired THEN "revoke:delete" ELSE "session:delete"
           f == [Idle EXCEPT !.at = label, !.who = u, !.token = t]
<1>2. label \in {"revoke:delete", "session:delete"}
  OBVIOUS
<1> HIDE DEF label
<1>3. /\ f \in Frame /\ f.at \in {"revoke:delete", "session:delete"}
      /\ f.who = u /\ f.token = t /\ f.id = Null
  BY <1>2, IdleInFrame, OwnerIsOne, ZenonT(40) DEF Frame, Labels
<1> HIDE DEF f
<1>4. call'[h] = f => AccountFrameOK(h)'
  BY <1>3, OwnerIsOne DEF AccountFrameOK, Changing, Checking, Registering, AtSessions
<1>5. f.at \notin Checking \cup Changing \cup Registering \cup {"session:create", "login:rehash"}
  BY <1>3 DEF Checking, Changing, Registering
<1> QED
  BY <1>1, <1>3, <1>4, <1>5, BeginStep DEF f, label

LEMMA RevokeRefreshToken_FindStep ==
    ASSUME IInv, NEW h \in Handlers, NEW t \in Tokens, RevokeRefreshToken_Find(h, t)
    PROVE  IInv'
<1>1. PICK u \in Owner(t) :
        /\ Begin(h, "revoke",
                 [Idle EXCEPT !.at = "revoke:delete", !.who = u, !.token = t])
        /\ UNCHANGED <<accounts, codeVars, sessionVars, overtaken>>
  BY DEF RevokeRefreshToken_Find
<1> DEFINE f == [Idle EXCEPT !.at = "revoke:delete", !.who = u, !.token = t]
<1>2. f \in Frame /\ f.at = "revoke:delete" /\ f.who = u /\ f.token = t /\ f.id = Null
  BY IdleInFrame, OwnerIsOne, ZenonT(40) DEF Frame, Labels
<1> HIDE DEF f
<1>3. call'[h] = f => AccountFrameOK(h)'
  BY <1>2, OwnerIsOne DEF AccountFrameOK, Changing, Checking, Registering, AtSessions
<1>4. f.at \notin Checking \cup Changing \cup Registering \cup {"session:create", "login:rehash"}
  BY <1>2 DEF Checking, Changing, Registering
<1> QED
  BY <1>1, <1>2, <1>3, <1>4, BeginStep DEF f

-----------------------------------------------------------------------------
(* Sessions.                                                               *)

(* The steps that write the sessions of one account.  If another handler   *)
(* is between deleting and creating one, the account is crowded.           *)
LEMMA SessionsStep ==
    ASSUME IInv, NEW h \in Handlers, ControlOK, Others(h),
           UNCHANGED <<accounts, codeVars, overtaken>>,
           call[h].at \notin {"email:mark", "register:delete"},
           call'[h].id \in {call[h].id, Null},
           call'[h].at \notin Checking \cup Changing \cup Registering \cup {"login:rehash"},
           NEW u \in People, NEW left \in SUBSET Tokens, NEW last \in Tokens \cup {Null},
           live' = [live EXCEPT ![u] = left], current' = [current EXCEPT ![u] = last],
           crowded' = crowded \cup Crowding(h, u), issued' \in Tokens,
           u \notin crowded' => left = {last} \ {Null},
           AccountFrameOK(h)',
           call'[h].at = "session:create" => call'[h].who = u /\ left = {}
    PROVE  IInv'
<1>1. UNCHANGED proved
  BY DEF codeVars
<1>2. TypeOK'
  BY DEF IInv, TypeOK, ControlOK, codeVars, Crowding
<1>3. /\ RowsKept(h)
      /\ \A id \in CodeIds : id = call[h].id => RowOK(id)' /\ CountOK(id)'
  BY CodesSame
<1>4. SessionIsTheLast'
  BY DEF IInv, TypeOK, SessionIsTheLast
<1>5. ASSUME NEW g \in Handlers PROVE SessionFrameOK(g)'
  <2>1. CASE g = h
    BY <2>1 DEF SessionFrameOK, IInv, TypeOK
  <2>2. CASE g # h
    <3> SUFFICES ASSUME call[g].at = "session:create", call[g].who \notin crowded'
                 PROVE  live'[call[g].who] = {}
      BY <2>2 DEF SessionFrameOK, Others
    <3>1. call[g].who \in People /\ call[g].who # u
      BY <2>2 DEF Crowding, IInv, AccountFrameOK, AtSessions
    <3> QED
      BY <3>1 DEF SessionFrameOK, IInv, TypeOK
  <2> QED
    BY <2>1, <2>2
<1>6. AccountsKept /\ VerifiedMeansProved' /\ \A g \in Handlers : RehashOK(g)'
  BY <1>1, AccountsSame
<1>7. RowFrameOK(h)'
  BY <1>3, RowFrameLeft DEF IInv
<1> QED
  BY <1>2, <1>3, <1>4, <1>5, <1>6, <1>7, HandlerStep

(* What is known of a handler that works on sessions. *)
LEMMA AtSession ==
    ASSUME IInv, NEW h \in Handlers, call[h].at \in AtSessions
    PROVE  /\ TypeOK /\ call[h] \in Frame /\ call[h].who \in People
           /\ call[h].at \notin {"email:mark", "register:delete"}
BY DEF IInv, TypeOK, AccountFrameOK, AtSessions

LEMMA Session_DeleteStep ==
    ASSUME IInv, NEW h \in Handlers, Session_Delete(h)
    PROVE  IInv'
<1> DEFINE u == call[h].who
           f == Goes(h, "session:create")
<1>1. /\ call[h].at = "session:delete" /\ call[h].at \in AtSessions
      /\ live' = [live EXCEPT ![u] = {}] /\ current' = [current EXCEPT ![u] = Null]
      /\ crowded' = crowded \cup Crowding(h, u)
      /\ Goto(h, f) /\ UNCHANGED <<accounts, codeVars, issued, overtaken>>
  BY DEF Session_Delete, At, AtSessions, Kept
<1>2. /\ TypeOK /\ call[h] \in Frame /\ u \in People
      /\ call[h].at \notin {"email:mark", "register:delete"}
  BY <1>1, AtSession
<1>3. f \in Frame /\ f.at = "session:create" /\ f.who = u /\ f.id = call[h].id
  BY <1>2, MovedFrame DEF Labels
<1> HIDE DEF f
<1>4. ControlOK /\ call'[h] = f /\ Others(h)
  BY <1>1, <1>2, <1>3, GotoMove
<1>5. AccountFrameOK(h)'
  BY <1>2, <1>3, <1>4 DEF AccountFrameOK, Changing, Checking, Registering, AtSessions
<1>6. f.at \notin Checking \cup Changing \cup Registering \cup {"login:rehash"}
  BY <1>3 DEF Checking, Changing, Registering
<1>7. issued' \in Tokens /\ {} = {Null} \ {Null}
  BY <1>1, <1>2 DEF TypeOK
<1> HIDE DEF u
<1> QED
  BY <1>1, <1>2, <1>3, <1>4, <1>5, <1>6, <1>7, SessionsStep

LEMMA Session_CreateStep ==
    ASSUME IInv, NEW h \in Handlers, Session_Create(h)
    PROVE  IInv'
<1> DEFINE u == call[h].who
           t == issued + 1
           left == live[u] \cup {t}
<1>1. /\ call[h].at = "session:create" /\ call[h].at \in AtSessions
      /\ issued' = t
      /\ live' = [live EXCEPT ![u] = left] /\ current' = [current EXCEPT ![u] = t]
      /\ crowded' = crowded \cup Crowding(h, u)
      /\ Return(h) /\ UNCHANGED <<accounts, codeVars, overtaken>>
  BY DEF Session_Create, At, AtSessions
<1>2. /\ TypeOK /\ call[h] \in Frame /\ u \in People
      /\ call[h].at \notin {"email:mark", "register:delete"}
  BY <1>1, AtSession
<1>3. t \in Tokens /\ t # Null /\ left \in SUBSET Tokens
  BY <1>2, NullIsNoId DEF TypeOK, Tokens
<1>4. u \notin crowded' => left = {t} \ {Null}
  BY <1>1, <1>3 DEF IInv, SessionFrameOK
<1>5. ControlOK /\ call'[h] = Idle /\ Others(h)
  BY <1>1, <1>2, ReturnMove
<1>6. AccountFrameOK(h)' /\ call'[h].id = Null /\ call'[h].at = "idle"
  BY <1>5, IdleRelies
<1> HIDE DEF u, t, left
<1> QED
  BY <1>1, <1>2, <1>3, <1>4, <1>5, <1>6, SessionsStep DEF Checking, Changing, Registering

LEMMA RevokeRefreshToken_DeleteStep ==
    ASSUME IInv, NEW h \in Handlers, RevokeRefreshToken_Delete(h)
    PROVE  IInv'
<1> DEFINE u == call[h].who
           t == call[h].token
           left == live[u] \ {t}
           last == IF current[u] = t THEN Null ELSE current[u]
<1>1. /\ call[h].at = "revoke:delete" /\ call[h].at \in AtSessions
      /\ live' = [live EXCEPT ![u] = left] /\ current' = [current EXCEPT ![u] = last]
      /\ crowded' = crowded \cup Crowding(h, u)
      /\ Return(h) /\ UNCHANGED <<accounts, codeVars, issued, overtaken>>
  BY DEF RevokeRefreshToken_Delete, At, AtSessions
<1>2. /\ TypeOK /\ call[h] \in Frame /\ u \in People
      /\ call[h].at \notin {"email:mark", "register:delete"}
  BY <1>1, AtSession
<1>3. /\ t \in Tokens /\ t # Null /\ left \in SUBSET Tokens /\ last \in Tokens \cup {Null}
      /\ issued' \in Tokens
  BY <1>1, <1>2, NullIsNoId DEF TypeOK, IInv, AccountFrameOK
<1>4. u \notin crowded' => left = {last} \ {Null}
  BY <1>1, <1>2, <1>3 DEF IInv, SessionIsTheLast
<1>5. ControlOK /\ call'[h] = Idle /\ Others(h)
  BY <1>1, <1>2, ReturnMove
<1>6. AccountFrameOK(h)' /\ call'[h].id = Null /\ call'[h].at = "idle"
  BY <1>5, IdleRelies
<1> HIDE DEF u, t, left, last
<1> QED
  BY <1>1, <1>2, <1>3, <1>4, <1>5, <1>6, SessionsStep DEF Checking, Changing, Registering

LEMMA RevokeAllRefreshTokensStep ==
    ASSUME IInv, NEW h \in Handlers, NEW u \in People, RevokeAllRefreshTokens(h, u)
    PROVE  IInv'
<1>1. /\ Begin(h, "revokeAll", Idle)
      /\ live' = [live EXCEPT ![u] = {}] /\ current' = [current EXCEPT ![u] = Null]
      /\ crowded' = crowded \cup Crowding(h, u)
      /\ UNCHANGED <<accounts, codeVars, issued, overtaken>>
  BY DEF RevokeAllRefreshTokens
<1>2. TypeOK /\ issued' \in Tokens
  BY <1>1 DEF IInv, TypeOK
<1>3. ControlOK /\ call'[h] = Idle /\ Others(h) /\ call[h].at = "idle"
  BY <1>1, <1>2, IdleInFrame, BeginMove
<1>4. AccountFrameOK(h)' /\ call'[h].id = Null /\ call'[h].at = "idle"
  BY <1>3, IdleRelies
<1>5. {} = {Null} \ {Null}
  OBVIOUS
<1> QED
  BY <1>1, <1>2, <1>3, <1>4, <1>5, SessionsStep DEF Checking, Changing, Registering

-----------------------------------------------------------------------------
(* Passwords.                                                              *)

LEMMA Login_FindStep ==
    ASSUME IInv, NEW h \in Handlers, NEW u \in People, NEW p \in Passwords, Login_Find(h, u, p)
    PROVE  IInv'
<1> DEFINE label == IF accounts[u].oldHash THEN "login:rehash" ELSE "session:delete"
           f == [Idle EXCEPT !.at = label, !.who = u, !.password = p]
<1>1. /\ Exists(u) /\ accounts[u].password = p
      /\ Begin(h, "login", f)
      /\ UNCHANGED <<accounts, codeVars, sessionVars, overtaken>>
  BY DEF Login_Find, PasswordIs
<1>2. label \in {"login:rehash", "session:delete"} /\ TypeOK
  BY DEF IInv
<1> HIDE DEF label
<1>3. label \in Labels
  BY <1>2 DEF Labels
<1>4. /\ f \in Frame /\ f.at = label /\ f.who = u /\ f.password = p /\ f.id = Null
  BY <1>3, IdleInFrame DEF Frame
<1> HIDE DEF f
<1>5. ControlOK /\ call'[h] = f /\ Others(h) /\ call[h].at = "idle"
  BY <1>1, <1>2, <1>4, BeginMove
<1>6. AccountFrameOK(h)'
  BY <1>1, <1>2, <1>4, <1>5 DEF AccountFrameOK, Changing, Checking, Registering, AtSessions, Exists
<1>7. f.at \notin Checking \cup Changing \cup Registering \cup {"session:create"}
  BY <1>2, <1>4 DEF Checking, Changing, Registering
<1>8. /\ TypeOK' /\ UNCHANGED <<live, current, crowded, proved>>
  BY <1>1, <1>2, <1>5 DEF TypeOK, ControlOK, sessionVars, codeVars
<1>9. /\ RowsKept(h)
      /\ \A id \in CodeIds : id = call[h].id => RowOK(id)' /\ CountOK(id)'
  BY <1>1, <1>4, <1>5, CodesSame
<1>10. SessionIsTheLast' /\ \A g \in Handlers : SessionFrameOK(g)'
  BY <1>5, <1>7, <1>8, SessionsSame
<1>11. AccountsKept /\ VerifiedMeansProved'
  BY <1>1, <1>8 DEF IInv, AccountsKept, VerifiedMeansProved, Exists
<1>12. ASSUME NEW g \in Handlers PROVE RehashOK(g)'
  <2> SUFFICES ASSUME call'[g].at = "login:rehash" PROVE RehashOK(g)'
    BY DEF RehashOK
  <2>1. \A k \in Handlers \ {h} : call[k].at = "login:rehash" /\ call[k].who = u /\ label = "login:rehash"
           => call[k].password = p
    BY <1>1 DEF IInv, RehashOK, label
  <2>2. CASE g = h
    <3>1. p >= p
      BY DEF Passwords
    <3> QED
      BY <1>1, <1>4, <1>5, <2>1, <2>2, <3>1 DEF RehashOK, Others
  <2>3. CASE g # h
    <3>1. call'[g] = call[g] /\ RehashOK(g)
      BY <1>5, <2>3 DEF Others, IInv
    <3> QED
      BY <1>1, <1>4, <1>5, <2>1, <2>3, <3>1 DEF RehashOK, Others
  <2> QED
    BY <2>2, <2>3
<1>13. RowFrameOK(h)'
  BY <1>2, <1>4, <1>5, <1>7, <1>9, RowFrameLeft DEF IInv
<1> QED
  BY <1>4, <1>5, <1>6, <1>8, <1>9, <1>10, <1>11, <1>12, <1>13, HandlerStep

(* Writing a password: a login that has still to store its hash has one    *)
(* that is not older, or counts as overtaken.                              *)
LEMMA PasswordStep ==
    ASSUME IInv, NEW h \in Handlers, ControlOK, Others(h), UNCHANGED <<codeVars, sessionVars>>,
           NEW u \in People, NEW p \in Passwords, Exists(u),
           accounts' = [accounts EXCEPT ![u].password = p, ![u].oldHash = FALSE],
           overtaken' \subseteq Handlers,
           \A g \in Handlers \ {h} : call[g].at = "login:rehash" /\ g \notin overtaken' =>
               IF call[g].who = u THEN call[g].password >= p ELSE g \notin overtaken,
           call[h].at \notin {"email:mark", "register:delete"},
           call'[h].id \in {call[h].id, Null},
           call'[h].at \notin Checking \cup Changing \cup Registering
                              \cup {"session:create", "login:rehash"},
           AccountFrameOK(h)'
    PROVE  IInv'
<1>1. UNCHANGED <<live, current, crowded, proved, issued, codes, proofs, tries, uses, shared>>
  BY DEF codeVars, sessionVars
<1>2. /\ accounts[u] \in Account /\ accounts'[u].password = p /\ accounts'[u].oldHash = FALSE
      /\ accounts'[u].email = accounts[u].email /\ accounts'[u].verified = accounts[u].verified
      /\ accounts'[u] \in Account
      /\ \A v \in People \ {u} : accounts'[v] = accounts[v]
  BY DEF IInv, TypeOK, Exists, Account
<1>3. TypeOK'
  BY <1>1, <1>2 DEF IInv, TypeOK, ControlOK
<1>4. /\ RowsKept(h)
      /\ \A id \in CodeIds : id = call[h].id => RowOK(id)' /\ CountOK(id)'
  BY CodesSame
<1>5. SessionIsTheLast' /\ \A g \in Handlers : SessionFrameOK(g)'
  BY <1>1, SessionsSame
<1>6. AccountsKept /\ VerifiedMeansProved'
  <2>1. ASSUME NEW v \in People, accounts[v] # Null
        PROVE  accounts'[v] # Null
    BY <1>2, <2>1, NullIsNoId
  <2>2. ASSUME NEW v \in People, accounts'[v] # Null, accounts'[v].verified
        PROVE  accounts'[v].email \in proved
    <3>1. accounts[v] # Null /\ accounts[v].verified /\ accounts[v].email = accounts'[v].email
      BY <1>2, <2>2 DEF Exists
    <3> QED
      BY <3>1 DEF IInv, VerifiedMeansProved, Exists
  <2> QED
    BY <1>1, <2>1, <2>2 DEF AccountsKept, VerifiedMeansProved, Exists
<1>7. ASSUME NEW g \in Handlers PROVE RehashOK(g)'
  <2> SUFFICES ASSUME call'[g].at = "login:rehash" PROVE RehashOK(g)'
    BY DEF RehashOK
  <2>1. g # h /\ call'[g] = call[g] /\ RehashOK(g) /\ call[g].who \in People
    BY DEF IInv, Others, AccountFrameOK
  <2>2. /\ accounts'[call[g].who].oldHash => call[g].password = accounts'[call[g].who].password
        /\ g \notin overtaken' => call[g].password >= accounts'[call[g].who].password
    <3>1. CASE call[g].who = u
      BY <1>2, <2>1, <3>1
    <3>2. CASE call[g].who # u
      BY <1>2, <2>1, <3>2 DEF RehashOK
    <3> QED
      BY <3>1, <3>2
  <2>3. \A k \in Handlers : call'[k].at = "login:rehash" => call'[k] = call[k]
    BY DEF Others
  <2> QED
    BY <2>1, <2>2, <2>3 DEF RehashOK
<1>8. RowFrameOK(h)'
  BY <1>4, RowFrameLeft DEF IInv
<1> QED
  BY <1>3, <1>4, <1>5, <1>6, <1>7, <1>8, HandlerStep

LEMMA Login_RehashStep ==
    ASSUME IInv, NEW h \in Handlers, Login_Rehash(h)
    PROVE  IInv'
<1> DEFINE u == call[h].who
           p == call[h].password
           f == Goes(h, "session:delete")
<1>1. /\ call[h].at = "login:rehash"
      /\ accounts' = [accounts EXCEPT ![u].password = p, ![u].oldHash = FALSE]
      /\ overtaken' = overtaken \ {h}
      /\ Goto(h, f) /\ UNCHANGED <<codeVars, sessionVars>>
  BY DEF Login_Rehash, At
<1>2. TypeOK /\ call[h] \in Frame /\ u \in People /\ p \in Passwords /\ Exists(u) /\ RehashOK(h)
  BY <1>1 DEF IInv, TypeOK, AccountFrameOK
<1>3. f \in Frame /\ f.at = "session:delete" /\ f.who = u /\ f.id = call[h].id
  BY <1>2, MovedFrame DEF Labels
<1> HIDE DEF f
<1>4. ControlOK /\ call'[h] = f /\ Others(h)
  BY <1>1, <1>2, <1>3, GotoMove
<1>5. AccountFrameOK(h)'
  BY <1>2, <1>3, <1>4 DEF AccountFrameOK, Changing, Checking, Registering, AtSessions
<1>6. f.at \notin Checking \cup Changing \cup Registering \cup {"session:create", "login:rehash"}
  BY <1>3 DEF Checking, Changing, Registering
<1>7. ASSUME NEW g \in Handlers \ {h}, call[g].at = "login:rehash", g \notin overtaken'
      PROVE  IF call[g].who = u THEN call[g].password >= p ELSE g \notin overtaken
  <2>1. call[g].who = u => call[g].password = p
    BY <1>1, <1>2, <1>7 DEF RehashOK
  <2>2. p >= p
    BY <1>2 DEF Passwords
  <2> QED
    BY <1>1, <1>7, <2>1, <2>2
<1>8. overtaken' \subseteq Handlers
  BY <1>1, <1>2 DEF TypeOK
<1> HIDE DEF u, p
<1> QED
  BY <1>1, <1>2, <1>3, <1>4, <1>5, <1>6, <1>7, <1>8, PasswordStep

LEMMA ChangePassword_WriteStep ==
    ASSUME IInv, NEW h \in Handlers, ChangePassword_Write(h)
    PROVE  IInv'
<1> DEFINE u == call[h].who
           p == accounts[u].password + 1
<1>1. /\ call[h].at = "password:write"
      /\ accounts' = [accounts EXCEPT ![u].password = p, ![u].oldHash = FALSE]
      /\ overtaken' = overtaken \cup {g \in Handlers : At(g, "login:rehash") /\ call[g].who = u}
      /\ Return(h) /\ UNCHANGED <<codeVars, sessionVars>>
  BY DEF ChangePassword_Write, At
<1>2. TypeOK /\ u \in People /\ Exists(u)
  BY <1>1 DEF IInv, AccountFrameOK
<1>3. p \in Passwords
  BY <1>2 DEF TypeOK, Exists, Account, Passwords
<1>4. ControlOK /\ call'[h] = Idle /\ Others(h)
  BY <1>1, <1>2, ReturnMove
<1>5. AccountFrameOK(h)' /\ call'[h].id = Null /\ call'[h].at = "idle"
  BY <1>4, IdleRelies
<1>6. overtaken' \subseteq Handlers
  BY <1>1, <1>2 DEF TypeOK
<1>7. \A g \in Handlers \ {h} : call[g].at = "login:rehash" /\ g \notin overtaken' =>
         IF call[g].who = u THEN call[g].password >= p ELSE g \notin overtaken
  BY <1>1 DEF At
<1> HIDE DEF u, p
<1> QED
  BY <1>1, <1>2, <1>3, <1>4, <1>5, <1>6, <1>7, PasswordStep DEF Checking, Changing, Registering

-----------------------------------------------------------------------------
(* Codes.                                                                  *)

(* The steps that take up a row.                                           *)
LEMMA FindStep ==
    ASSUME IInv, NEW h \in Handlers, NEW f \in Frame, NEW op, Begin(h, op, f),
           NEW id \in CodeIds, f.id = id, codes[id] # Null,
           shared' = shared \cup Sharing(h, id),
           UNCHANGED <<accounts, codes, proofs, proved, tries, uses, sessionVars, overtaken>>,
           f.at \notin {"session:create", "login:rehash"},
           call'[h] = f => RowFrameOK(h)' /\ AccountFrameOK(h)'
    PROVE  IInv'
<1>1. TypeOK
  BY DEF IInv
<1>2. ControlOK /\ call'[h] = f /\ Others(h) /\ call[h].at = "idle"
  BY <1>1, BeginMove
<1>3. shared \subseteq shared' /\ shared' \subseteq CodeIds
  BY <1>1 DEF TypeOK, Sharing
<1>4. TypeOK' /\ UNCHANGED <<live, current, crowded, proved>>
  BY <1>1, <1>2, <1>3 DEF TypeOK, ControlOK, sessionVars
<1>5. RowsKept(h)
  BY <1>3 DEF RowsKept
<1>6. ASSUME NEW i \in CodeIds PROVE RowOK(i)' /\ CountOK(i)' /\ Alone(i)'
  <2>1. ASSUME NEW l \in {"email:mark", "register:delete"}, HeldAt(i, l) PROVE HeldAt(i, l)'
    BY <1>2, <2>1 DEF HeldAt, Others
  <2>2. RowOK(i)' /\ CountOK(i)'
    BY <1>3, <2>1 DEF IInv, RowOK, CountOK
  <2>3. Alone(i)'
    BY <1>2, <1>3 DEF IInv, Alone, Others, Sharing
  <2> QED
    BY <2>2, <2>3
<1>7. SessionIsTheLast' /\ \A g \in Handlers : SessionFrameOK(g)'
  BY <1>2, <1>4, SessionsSame
<1>8. AccountsKept /\ VerifiedMeansProved' /\ \A g \in Handlers : RehashOK(g)'
  BY <1>2, <1>4, AccountsSame
<1>9. ASSUME NEW g \in Handlers PROVE RowFrameOK(g)' /\ AccountFrameOK(g)'
  BY <1>1, <1>2, <1>5, <1>8, OtherFrameKept DEF IInv
<1> QED
  BY <1>4, <1>6, <1>7, <1>8, <1>9 DEF IInv

(* A row that is taken up alone is at no point where it is being used.     *)
LEMMA TakenUpAlone ==
    ASSUME NEW h \in Handlers, call[h].at = "idle", NEW id, id \notin shared \cup Sharing(h, id)
    PROVE  ~HeldAt(id, "email:mark") /\ ~HeldAt(id, "register:delete")
BY DEF HeldAt, Sharing

LEMMA PendingRow ==
    ASSUME IInv, NEW e, NEW id \in AllPending(e)
    PROVE  /\ id \in CodeIds /\ codes[id] \in Code /\ codes[id] # Null
           /\ codes[id].email = e /\ codes[id].status = "pending"
           /\ id \notin proofs
BY DEF AllPending, RowsOf, IInv, TypeOK, RowOK

LEMMA VerifyCode_FindStep ==
    ASSUME IInv, NEW h \in Handlers, NEW e \in Emails, NEW guess \in 0..MaxCodes,
           VerifyCode_Find(h, e, guess)
    PROVE  IInv'
<1>1. PICK id \in Latest(Candidates(e)) :
        /\ Begin(h, "verifyCode",
             [Idle EXCEPT !.at = IF Exhausted(codes[id]) THEN "check:failed" ELSE "check:count",
                          !.email = e, !.id = id, !.row = codes[id], !.guess = guess])
        /\ shared' = shared \cup Sharing(h, id)
        /\ UNCHANGED <<accounts, codes, proofs, proved, tries, uses, sessionVars, overtaken>>
  BY DEF VerifyCode_Find
<1>2. id \in AllPending(e)
  BY DEF Latest, Candidates
<1>3. /\ id \in CodeIds /\ codes[id] \in Code /\ codes[id] # Null
      /\ codes[id].email = e /\ codes[id].status = "pending" /\ id \notin proofs
  BY <1>2, PendingRow
<1> DEFINE label == IF Exhausted(codes[id]) THEN "check:failed" ELSE "check:count"
           f == [Idle EXCEPT !.at = label, !.email = e, !.id = id, !.row = codes[id],
                             !.guess = guess]
<1>4. label \in Labels /\ label \in Checking \ {"check:verified"}
  BY DEF Labels, Checking
<1>5. label = "check:count" => ~Exhausted(codes[id])
  OBVIOUS
<1> HIDE DEF label
<1>6. /\ f \in Frame /\ f.at = label /\ f.email = e /\ f.id = id /\ f.row = codes[id]
  BY <1>3, <1>4, IdleInFrame DEF Frame
<1>7. Begin(h, "verifyCode", f)
  BY <1>1 DEF label
<1> HIDE DEF f
<1>8. ASSUME call'[h] = f PROVE RowFrameOK(h)' /\ AccountFrameOK(h)'
  <2>1. id \notin shared' => uses[id] = 0
    BY <1>1, <1>3, <1>7, TakenUpAlone DEF IInv, CountOK, Begin, At
  <2>2. UNCHANGED <<codes, uses, proofs>>
    BY <1>1
  <2>3. RowFrameOK(h)'
    BY <1>3, <1>4, <1>5, <1>6, <1>8, <2>1, <2>2
       DEF RowFrameOK, Checking, Changing, Registering, Exhausted
  <2>4. AccountFrameOK(h)'
    BY <1>4, <1>6, <1>8 DEF AccountFrameOK, Checking, Changing, Registering, AtSessions
  <2> QED
    BY <2>3, <2>4
<1>9. label \notin {"session:create", "login:rehash"}
  BY <1>4 DEF Checking
<1> QED
  BY <1>1, <1>3, <1>6, <1>7, <1>8, <1>9, FindStep

LEMMA ChangeFound ==
    ASSUME IInv, NEW h \in Handlers, NEW u \in People, Exists(u), NEW e \in Emails,
           NEW id \in AllPending(e), NEW label \in {"email:write", "email:check"}, NEW op,
           Begin(h, op, [Idle EXCEPT !.at = label, !.who = u, !.email = e, !.id = id,
                                     !.row = codes[id]]),
           shared' = shared \cup Sharing(h, id),
           UNCHANGED <<accounts, codes, proofs, proved, tries, uses, sessionVars, overtaken>>
    PROVE  IInv'
<1> DEFINE f == [Idle EXCEPT !.at = label, !.who = u, !.email = e, !.id = id, !.row = codes[id]]
<1>1. /\ id \in CodeIds /\ codes[id] \in Code /\ codes[id] # Null
      /\ codes[id].email = e /\ codes[id].status = "pending" /\ id \notin proofs
  BY PendingRow
<1>2. /\ label \in Labels /\ label \in Changing \ {"email:mark"}
      /\ label \notin {"session:create", "login:rehash"}
  BY DEF Labels, Changing
<1>3. /\ f \in Frame /\ f.at = label /\ f.who = u /\ f.email = e /\ f.id = id
      /\ f.row = codes[id]
  BY <1>1, <1>2, IdleInFrame DEF Frame
<1>4. Begin(h, op, f)
  OBVIOUS
<1> HIDE DEF f
<1>5. ASSUME call'[h] = f PROVE RowFrameOK(h)' /\ AccountFrameOK(h)'
  <2>1. id \notin shared' => uses[id] = 0
    BY <1>1, <1>4, TakenUpAlone DEF IInv, CountOK, Begin, At
  <2>2. RowFrameOK(h)'
    BY <1>1, <1>2, <1>3, <1>5, <2>1 DEF RowFrameOK, Checking, Changing, Registering
  <2>3. AccountFrameOK(h)'
    BY <1>2, <1>3, <1>5
       DEF AccountFrameOK, Checking, Changing, Registering, AtSessions, Exists
  <2> QED
    BY <2>2, <2>3
<1> QED
  BY <1>1, <1>2, <1>3, <1>4, <1>5, FindStep

LEMMA VerifyEmail_FindStep ==
    ASSUME IInv, NEW h \in Handlers, NEW u \in People, NEW e \in Emails, NEW guess,
           VerifyEmail_Find(h, u, e, guess)
    PROVE  IInv'
<1>1. PICK id \in Latest(AllPending(e)) :
        /\ Exists(u)
        /\ Begin(h, "verifyEmail",
             [Idle EXCEPT !.at = IF ~Refuses(codes[id]) /\ guess = id THEN "email:write"
                                                                     ELSE "email:check",
                          !.who = u, !.email = e, !.id = id, !.row = codes[id]])
        /\ shared' = shared \cup Sharing(h, id)
        /\ UNCHANGED <<accounts, codes, proofs, proved, tries, uses, sessionVars, overtaken>>
  BY DEF VerifyEmail_Find
<1>2. id \in AllPending(e)
  BY DEF Latest
<1> DEFINE label == IF ~Refuses(codes[id]) /\ guess = id THEN "email:write" ELSE "email:check"
<1>3. label \in {"email:write", "email:check"}
  OBVIOUS
<1> HIDE DEF label
<1> QED
  BY <1>1, <1>2, <1>3, ChangeFound DEF label

LEMMA ConfirmChangeEmail_FindStep ==
    ASSUME IInv, NEW h \in Handlers, NEW u \in People, NEW e \in Emails, NEW guess,
           ConfirmChangeEmail_Find(h, u, e, guess)
    PROVE  IInv'
<1> DEFINE label == IF Refuses(codes[guess]) THEN "email:check" ELSE "email:write"
<1>1. label \in {"email:write", "email:check"}
  OBVIOUS
<1>2. /\ Exists(u) /\ guess \in AllPending(e)
      /\ Begin(h, "confirmChange", [Idle EXCEPT !.at = label, !.who = u, !.email = e,
                                                !.id = guess, !.row = codes[guess]])
      /\ shared' = shared \cup Sharing(h, guess)
      /\ UNCHANGED <<accounts, codes, proofs, proved, tries, uses, sessionVars, overtaken>>
  BY DEF ConfirmChangeEmail_Find
<1> HIDE DEF label
<1> QED
  BY <1>1, <1>2, ChangeFound

LEMMA PreRegister_CheckStep ==
    ASSUME IInv, NEW h \in Handlers, NEW id \in CodeIds, NEW e \in Emails,
           PreRegister_Check(h, id, e)
    PROVE  IInv'
<1> DEFINE f == [Idle EXCEPT !.at = "register:create", !.email = e, !.id = id]
<1>1. /\ id \in proofs /\ codes[id].status = "verified" /\ codes[id].email = e
      /\ Begin(h, "preRegister", f)
      /\ shared' = shared \cup Sharing(h, id)
      /\ UNCHANGED <<accounts, codes, proofs, proved, tries, uses, sessionVars, overtaken>>
  BY DEF PreRegister_Check, ValidProof, Proves
<1>2. codes[id] # Null /\ e \in proved
  BY <1>1 DEF IInv, RowOK
<1>3. f \in Frame /\ f.at = "register:create" /\ f.email = e /\ f.id = id
  BY IdleInFrame, ZenonT(40) DEF Frame, Labels
<1> HIDE DEF f
<1>4. ASSUME call'[h] = f PROVE RowFrameOK(h)' /\ AccountFrameOK(h)'
  <2>1. id \notin shared' => uses[id] = 0
    BY <1>1, <1>2, TakenUpAlone DEF IInv, CountOK, Begin, At
  <2>2. RowFrameOK(h)'
    BY <1>1, <1>2, <1>3, <1>4, <2>1 DEF RowFrameOK, Checking, Changing, Registering
  <2>3. AccountFrameOK(h)'
    BY <1>3, <1>4 DEF AccountFrameOK, Checking, Changing, Registering, AtSessions
  <2> QED
    BY <2>2, <2>3
<1> QED
  BY <1>1, <1>2, <1>3, <1>4, FindStep

(* The steps that write rows, and neither accounts nor sessions.           *)
LEMMA CodesStep ==
    ASSUME IInv, NEW h \in Handlers, ControlOK, Others(h),
           UNCHANGED <<accounts, sessionVars, overtaken>>,
           codes' \in [CodeIds -> Code \cup {Null}], proofs' \subseteq CodeIds,
           proved' \subseteq Emails, tries' \in [CodeIds -> Nat], uses' = uses,
           shared' = shared,
           RowsKept(h), call'[h].id \in {call[h].id, Null},
           call'[h].at \notin {"session:create", "login:rehash"},
           \A id \in CodeIds : id = call[h].id => RowOK(id)' /\ CountOK(id)',
           RowFrameOK(h)', AccountFrameOK(h)'
    PROVE  IInv'
<1>1. TypeOK' /\ UNCHANGED <<live, current, crowded>>
  BY DEF IInv, TypeOK, ControlOK, sessionVars
<1>2. SessionIsTheLast' /\ \A g \in Handlers : SessionFrameOK(g)'
  BY <1>1, SessionsSame
<1>3. AccountsKept /\ VerifiedMeansProved' /\ \A g \in Handlers : RehashOK(g)'
  BY AccountsSame DEF RowsKept
<1> QED
  BY <1>1, <1>2, <1>3, HandlerStep

LEMMA InsertStep ==
    ASSUME IInv, NEW h \in Handlers, call[h].email \in Emails, InsertCode(call[h].email),
           Return(h), call[h].at \notin {"email:mark", "register:delete"},
           UNCHANGED <<accounts, proofs, proved, tries, uses, shared, sessionVars, overtaken>>
    PROVE  IInv'
<1> DEFINE row == [email |-> call[h].email, status |-> "pending", attempts |-> 0,
                   time |-> "recent"]
<1>1. PICK new \in CodeIds : codes[new] = Null /\ codes' = [codes EXCEPT ![new] = row]
  <2>1. PICK new \in CodeIds :
           /\ \A other \in CodeIds : codes[other] = Null <=> other >= new
           /\ codes' = [codes EXCEPT ![new] = row]
    BY DEF InsertCode
  <2>2. new >= new
    BY DEF CodeIds
  <2> QED
    BY <2>1, <2>2
<1>2. row \in Code /\ row.status = "pending" /\ row.attempts = 0 /\ row # Null /\ TypeOK
  BY AccountStoreAssumption, NullIsNoId DEF Code, IInv
<1> HIDE DEF row
<1>3. /\ codes'[new] = row /\ \A id \in CodeIds \ {new} : codes'[id] = codes[id]
      /\ codes' \in [CodeIds -> Code \cup {Null}]
  BY <1>1, <1>2 DEF TypeOK
<1>4. ControlOK /\ call'[h] = Idle /\ Others(h)
  BY <1>2, ReturnMove
<1>5. RowsKept(h)
  BY <1>1, <1>3 DEF RowsKept
<1>6. ASSUME NEW id \in CodeIds PROVE RowOK(id)' /\ CountOK(id)'
  <2>1. ASSUME NEW l \in {"email:mark", "register:delete"}, HeldAt(id, l) PROVE HeldAt(id, l)'
    BY <1>4, <2>1 DEF HeldAt, Others
  <2>2. CASE id = new
    BY <1>1, <1>2, <1>3, <2>2 DEF IInv, RowOK, CountOK
  <2>3. CASE id # new
    BY <1>3, <2>1, <2>3 DEF IInv, RowOK, CountOK
  <2> QED
    BY <2>2, <2>3
<1> QED
  BY <1>2, <1>3, <1>4, <1>5, <1>6, IdleRelies, CodesStep DEF TypeOK

LEMMA SendVerificationCode_CreateStep ==
    ASSUME IInv, NEW h \in Handlers, SendVerificationCode_Create(h)
    PROVE  IInv'
BY InsertStep DEF SendVerificationCode_Create, At, IInv, AccountFrameOK

LEMMA RequestChangeEmail_CreateStep ==
    ASSUME IInv, NEW h \in Handlers, RequestChangeEmail_Create(h)
    PROVE  IInv'
BY InsertStep DEF RequestChangeEmail_Create, At, IInv, AccountFrameOK

(* What is known of a handler that works with a row. *)
LEMMA AtRow ==
    ASSUME IInv, NEW h \in Handlers, call[h].at \in Checking \cup Changing \cup Registering
    PROVE  /\ TypeOK /\ call[h] \in Frame /\ call[h].id \in CodeIds
           /\ codes[call[h].id] \in Code /\ codes[call[h].id] # Null
           /\ codes[call[h].id].email = call[h].email
           /\ call[h].email \in Emails
           /\ RowFrameOK(h) /\ RowOK(call[h].id) /\ CountOK(call[h].id)
<1>1. /\ RowFrameOK(h) /\ call[h] \in Frame /\ TypeOK
      /\ call[h].email \in Emails
  BY DEF IInv, TypeOK, AccountFrameOK
<1>2. call[h].id \in CodeIds /\ codes[call[h].id].email = call[h].email
  BY <1>1 DEF RowFrameOK
<1>3. codes[call[h].id] # Null
  BY <1>1, <1>2, NullIsNoId DEF RowFrameOK
<1> QED
  BY <1>1, <1>2, <1>3 DEF IInv, TypeOK

(* The row of a handler is written, and no other one.                      *)
LEMMA RowWritten ==
    ASSUME TypeOK, NEW h \in Handlers, call[h].id \in CodeIds, codes[call[h].id] # Null,
           NEW row \in Code, SetCode(call[h].id, row),
           row.email = codes[call[h].id].email,
           codes[call[h].id].status # "pending" => row.status # "pending",
           proofs' \subseteq proofs \cup {call[h].id},
           proved \subseteq proved', shared \subseteq shared',
           \A id \in CodeIds \ {call[h].id} : uses'[id] = uses[id] /\ tries'[id] = tries[id]
    PROVE  /\ RowsKept(h)
           /\ codes'[call[h].id] = row /\ codes' \in [CodeIds -> Code \cup {Null}]
BY NullIsNoId DEF SetCode, TypeOK, RowsKept

LEMMA HeldKept ==
    ASSUME NEW h \in Handlers, Others(h), NEW id, NEW l, call[h].at # l, HeldAt(id, l)
    PROVE  HeldAt(id, l)'
BY DEF HeldAt, Others

LEMMA VerifyCode_FailStep ==
    ASSUME IInv, NEW h \in Handlers, VerifyCode_Fail(h)
    PROVE  IInv'
<1> DEFINE id == call[h].id
           row == IF IsThere(id) THEN [codes[id] EXCEPT !.status = "failed"] ELSE codes[id]
<1>1. /\ call[h].at = "check:failed" /\ call[h].at \in Checking
      /\ SetCode(id, row) /\ Return(h)
      /\ UNCHANGED <<accounts, proofs, proved, tries, uses, shared, sessionVars, overtaken>>
  BY DEF VerifyCode_Fail, At, Checking
<1>2. /\ TypeOK /\ call[h] \in Frame /\ id \in CodeIds /\ codes[id] \in Code
      /\ codes[id] # Null /\ RowOK(id) /\ CountOK(id)
  BY <1>1, AtRow
<1>3. /\ row \in Code /\ row.email = codes[id].email /\ row.status \notin {"pending", "verified"}
      /\ row.attempts = codes[id].attempts /\ row # Null
  BY <1>2, NullIsNoId DEF Code, IsThere
<1> HIDE DEF row
<1>4. RowsKept(h) /\ codes'[id] = row /\ codes' \in [CodeIds -> Code \cup {Null}]
  BY <1>1, <1>2, <1>3, RowWritten
<1>5. ControlOK /\ call'[h] = Idle /\ Others(h)
  BY <1>1, <1>2, ReturnMove
<1>6. ASSUME NEW i \in CodeIds, i = id PROVE RowOK(i)' /\ CountOK(i)'
  BY <1>1, <1>2, <1>3, <1>4, <1>6 DEF RowOK, CountOK
<1> QED
  BY <1>1, <1>2, <1>4, <1>5, <1>6, IdleRelies, CodesStep DEF TypeOK

(* A guess is counted in the row as it was read, and compared with it.     *)
LEMMA VerifyCode_CountStep ==
    ASSUME IInv, NEW h \in Handlers, VerifyCode_Count(h)
    PROVE  IInv'
<1> DEFINE id == call[h].id
           n == call[h].row.attempts + 1
           row == [codes[id] EXCEPT !.attempts = n]
           f == Goes(h, "check:verified")
<1>1. /\ call[h].at = "check:count" /\ call[h].at \in Checking
      /\ UNCHANGED <<accounts, proofs, proved, uses, shared, sessionVars, overtaken>>
  BY DEF VerifyCode_Count, At, Checking
<1>2. /\ TypeOK /\ call[h] \in Frame /\ id \in CodeIds /\ codes[id] \in Code
      /\ codes[id] # Null /\ codes[id].email = call[h].email /\ call[h].email \in Emails
      /\ RowOK(id) /\ CountOK(id) /\ RowFrameOK(h)
  BY <1>1, AtRow
<1>3. /\ call[h].row \in Code /\ ~Exhausted(call[h].row)
      /\ id \notin shared => call[h].row.attempts = codes[id].attempts /\ uses[id] = 0
  BY <1>1, <1>2 DEF RowFrameOK
<1>4. n \in 0..MaxAttempts
  BY <1>3, AccountStoreAssumption DEF Exhausted, Code
<1>5. /\ row \in Code /\ row.email = codes[id].email /\ row.status = codes[id].status
      /\ row.attempts = n /\ row # Null
  BY <1>2, <1>4, NullIsNoId DEF Code
<1> HIDE DEF row, n
<1>6. CASE Return(h) /\ UNCHANGED <<codes, tries>>
  <2>1. ControlOK /\ call'[h] = Idle /\ Others(h)
    BY <1>2, <1>6, ReturnMove
  <2>2. AccountFrameOK(h)' /\ call'[h].id = Null /\ call'[h].at = "idle"
    BY <2>1, IdleRelies
  <2> QED
    BY <1>1, <1>6, <2>1, <2>2, FrameStep DEF Checking, codeVars, Changing, Registering
<1>7. ASSUME SetCode(id, row), NEW right \in BOOLEAN,
             IF right THEN Goto(h, f) /\ UNCHANGED tries
                      ELSE Return(h) /\ tries' = [tries EXCEPT ![id] = @ + 1]
      PROVE  IInv'
  <2>1. /\ tries' \in [CodeIds -> Nat] /\ tries[id] \in Nat
        /\ \A i \in CodeIds \ {id} : tries'[i] = tries[i]
        /\ tries'[id] = (IF right THEN tries[id] ELSE tries[id] + 1)
    BY <1>2, <1>7 DEF TypeOK
  <2>2. RowsKept(h) /\ codes'[id] = row /\ codes' \in [CodeIds -> Code \cup {Null}]
    BY <1>1, <1>2, <1>5, <1>7, <2>1, RowWritten
  <2>3. f \in Frame /\ f.at = "check:verified" /\ f.id = id /\ f.email = call[h].email
    BY <1>2, MovedFrame DEF Labels
  <2> HIDE DEF f
  <2>4. /\ ControlOK /\ Others(h)
        /\ call'[h] = IF right THEN f ELSE Idle
    BY <1>2, <1>7, <2>3, GotoMove, ReturnMove
  <2>5. ASSUME NEW i \in CodeIds, i = id PROVE RowOK(i)' /\ CountOK(i)'
    <3>1. \A l \in {"email:mark", "register:delete"} : HeldAt(i, l) => HeldAt(i, l)'
      BY <1>1, <2>4, HeldKept
    <3>2. RowOK(i)'
      BY <1>1, <1>2, <1>5, <2>2, <2>5 DEF RowOK
    <3>3. id \notin shared => tries'[id] <= n
      BY <1>2, <1>3, <1>4, <2>1 DEF CountOK, n, Code
    <3>4. CountOK(i)'
      BY <1>1, <1>2, <1>3, <1>5, <2>2, <2>5, <3>3 DEF CountOK
    <3> QED
      BY <3>2, <3>4
  <2>6. RowFrameOK(h)' /\ AccountFrameOK(h)' /\ call'[h].id \in {id, Null}
        /\ call'[h].at \notin {"session:create", "login:rehash"}
    <3>1. CASE right
      <4>1. RowFrameOK(h)'
        BY <1>1, <1>2, <1>3, <1>5, <2>2, <2>3, <2>4, <3>1
           DEF RowFrameOK, Checking, Changing, Registering
      <4>2. AccountFrameOK(h)'
        BY <1>2, <2>3, <2>4, <3>1
           DEF AccountFrameOK, Checking, Changing, Registering, AtSessions
      <4> QED
        BY <2>3, <2>4, <3>1, <4>1, <4>2
    <3>2. CASE ~right
      BY <2>4, <3>2, IdleRelies
    <3> QED
      BY <3>1, <3>2
  <2> QED
    BY <1>1, <1>2, <2>1, <2>2, <2>4, <2>5, <2>6, CodesStep DEF TypeOK
<1>8. \/ Return(h) /\ UNCHANGED <<codes, tries>>
      \/ /\ SetCode(id, row)
         /\ IF call[h].guess = id THEN Goto(h, f) /\ UNCHANGED tries
                                  ELSE Return(h) /\ tries' = [tries EXCEPT ![id] = @ + 1]
  BY DEF VerifyCode_Count, row, n
<1>9. (call[h].guess = id) \in BOOLEAN
  OBVIOUS
<1> HIDE DEF f
<1> QED
  BY <1>6, <1>7, <1>8, <1>9

LEMMA VerifyCode_VerifyStep ==
    ASSUME IInv, NEW h \in Handlers, VerifyCode_Verify(h)
    PROVE  IInv'
<1> DEFINE id == call[h].id
           row == [codes[id] EXCEPT !.status = "verified"]
<1>1. /\ call[h].at = "check:verified" /\ call[h].at \in Checking /\ Return(h)
      /\ UNCHANGED <<accounts, tries, uses, shared, sessionVars, overtaken>>
  BY DEF VerifyCode_Verify, At, Checking
<1>2. /\ TypeOK /\ call[h] \in Frame /\ id \in CodeIds /\ codes[id] \in Code
      /\ codes[id] # Null /\ codes[id].email = call[h].email /\ call[h].email \in Emails
      /\ RowOK(id) /\ CountOK(id) /\ RowFrameOK(h)
  BY <1>1, AtRow
<1>3. /\ row \in Code /\ row.email = call[h].email /\ row.status = "verified"
      /\ row.attempts = codes[id].attempts /\ row # Null
  BY <1>2, NullIsNoId DEF Code
<1>4. ControlOK /\ call'[h] = Idle /\ Others(h)
  BY <1>1, <1>2, ReturnMove
<1>5. AccountFrameOK(h)' /\ RowFrameOK(h)' /\ call'[h].id = Null /\ call'[h].at = "idle"
  BY <1>4, IdleRelies
<1> HIDE DEF row
<1>6. CASE UNCHANGED <<codes, proofs, proved>>
  BY <1>1, <1>4, <1>5, <1>6, FrameStep DEF Checking, codeVars, Changing, Registering
<1>7. CASE /\ SetCode(id, row) /\ proofs' = proofs \cup {id}
           /\ proved' = proved \cup {call[h].email}
  <2>1. /\ proofs' \subseteq CodeIds /\ proved' \subseteq Emails
        /\ proofs' \subseteq proofs \cup {id} /\ proved \subseteq proved'
    BY <1>2, <1>7 DEF TypeOK
  <2>2. RowsKept(h) /\ codes'[id] = row /\ codes' \in [CodeIds -> Code \cup {Null}]
    BY <1>1, <1>2, <1>3, <1>7, <2>1, RowWritten
  <2>3. id \notin shared => uses[id] = 0
    BY <1>1, <1>2 DEF RowFrameOK
  <2>4. ASSUME NEW i \in CodeIds, i = id PROVE RowOK(i)' /\ CountOK(i)'
    BY <1>1, <1>2, <1>3, <1>7, <2>2, <2>3, <2>4 DEF RowOK, CountOK
  <2> QED
    BY <1>1, <1>2, <1>4, <1>5, <2>1, <2>2, <2>4, CodesStep DEF TypeOK
<1> QED
  BY <1>6, <1>7 DEF VerifyCode_Verify, Used, row

-----------------------------------------------------------------------------
(* Changing the address of an account.                                     *)

(* A refused code is counted, or is over.                                  *)
LEMMA Email_RefuseStep ==
    ASSUME IInv, NEW h \in Handlers, Email_Refuse(h)
    PROVE  IInv'
<1> DEFINE id == call[h].id
           old == call[h].row
           row == Refused(codes[id], old)
<1>1. /\ call[h].at = "email:check" /\ call[h].at \in Changing /\ Return(h)
      /\ UNCHANGED <<accounts, proofs, proved, uses, shared, sessionVars, overtaken>>
  BY DEF Email_Refuse, At, Changing
<1>2. /\ TypeOK /\ call[h] \in Frame /\ id \in CodeIds /\ codes[id] \in Code
      /\ codes[id] # Null /\ codes[id].email = call[h].email
      /\ RowOK(id) /\ CountOK(id) /\ RowFrameOK(h)
  BY <1>1, AtRow
<1>3. /\ old \in Code
      /\ id \notin shared => old.attempts = codes[id].attempts /\ uses[id] = 0
  BY <1>1, <1>2 DEF RowFrameOK
<1>4. ControlOK /\ call'[h] = Idle /\ Others(h)
  BY <1>1, <1>2, ReturnMove
<1>5. AccountFrameOK(h)' /\ RowFrameOK(h)' /\ call'[h].id = Null /\ call'[h].at = "idle"
  BY <1>4, IdleRelies
<1>6. CASE UNCHANGED <<codes, tries>>
  BY <1>1, <1>4, <1>5, <1>6, FrameStep DEF Changing, Checking, Registering, codeVars
<1>7. CASE /\ SetCode(id, row)
           /\ tries' = IF Refuses(old) THEN tries ELSE [tries EXCEPT ![id] = @ + 1]
  <2>1. ~Refuses(old) => old.attempts + 1 \in 0..MaxAttempts /\ old.attempts \in Nat
    BY <1>3, AccountStoreAssumption DEF Refuses, Exhausted, Code
  <2>2. /\ row \in Code /\ row.email = codes[id].email /\ row # Null
        /\ row.status \in {codes[id].status, "expired", "failed"}
        /\ row.attempts = IF Refuses(old) THEN codes[id].attempts ELSE old.attempts + 1
    <3>1. row \in Code
      BY <1>2, <2>1 DEF Refused, Refuses, Code
    <3>2. /\ row.email = codes[id].email
          /\ row.status \in {codes[id].status, "expired", "failed"}
          /\ row.attempts = IF Refuses(old) THEN codes[id].attempts ELSE old.attempts + 1
      BY <1>2 DEF Refused, Refuses, Code
    <3> QED
      BY <3>1, <3>2, NullIsNoId
  <2> HIDE DEF row
  <2>3. /\ tries' \in [CodeIds -> Nat] /\ tries[id] \in Nat
        /\ \A i \in CodeIds \ {id} : tries'[i] = tries[i]
        /\ tries'[id] = (IF Refuses(old) THEN tries[id] ELSE tries[id] + 1)
    BY <1>2, <1>7 DEF TypeOK
  <2>4. RowsKept(h) /\ codes'[id] = row /\ codes' \in [CodeIds -> Code \cup {Null}]
    BY <1>1, <1>2, <1>7, <2>2, <2>3, RowWritten
  <2>5. ASSUME NEW i \in CodeIds, i = id PROVE RowOK(i)' /\ CountOK(i)'
    <3>1. \A l \in {"email:mark", "register:delete"} : HeldAt(i, l) => HeldAt(i, l)'
      BY <1>1, <1>4, HeldKept
    <3>2. RowOK(i)'
      BY <1>1, <1>2, <2>2, <2>4, <2>5 DEF RowOK
    <3>3. id \notin shared => tries'[id] <= row.attempts
      <4>1. id \notin shared => tries[id] <= codes[id].attempts
        BY <1>2 DEF CountOK
      <4>2. codes[id].attempts \in Nat /\ old.attempts \in Nat
        BY <1>2, <1>3 DEF Code
      <4> QED
        BY <1>3, <2>2, <2>3, <4>1, <4>2
    <3>4. CountOK(i)'
      BY <1>1, <1>3, <2>2, <2>4, <2>5, <3>3 DEF CountOK
    <3> QED
      BY <3>2, <3>4
  <2> QED
    BY <1>1, <1>2, <1>4, <1>5, <2>3, <2>4, <2>5, CodesStep DEF TypeOK
<1> QED
  BY <1>6, <1>7 DEF Email_Refuse

LEMMA Email_MarkStep ==
    ASSUME IInv, NEW h \in Handlers, Email_Mark(h)
    PROVE  IInv'
<1> DEFINE id == call[h].id
           row == IF IsThere(id) THEN [codes[id] EXCEPT !.status = "verified"] ELSE codes[id]
<1>1. /\ call[h].at = "email:mark" /\ call[h].at \in Changing
      /\ SetCode(id, row) /\ Return(h)
      /\ UNCHANGED <<accounts, proofs, proved, tries, uses, shared, sessionVars, overtaken>>
  BY DEF Email_Mark, At, Changing, Used
<1>2. /\ TypeOK /\ call[h] \in Frame /\ id \in CodeIds /\ codes[id] \in Code
      /\ codes[id] # Null /\ RowOK(id) /\ CountOK(id) /\ RowFrameOK(h)
  BY <1>1, AtRow
<1>3. /\ row \in Code /\ row.email = codes[id].email /\ row.status # "pending"
      /\ row.attempts = codes[id].attempts /\ row # Null
  BY <1>2, NullIsNoId DEF Code, IsThere
<1> HIDE DEF row
<1>4. RowsKept(h) /\ codes'[id] = row /\ codes' \in [CodeIds -> Code \cup {Null}]
  BY <1>1, <1>2, <1>3, RowWritten
<1>5. ControlOK /\ call'[h] = Idle /\ Others(h)
  BY <1>1, <1>2, ReturnMove
<1>6. ASSUME NEW i \in CodeIds, i = id PROVE RowOK(i)' /\ CountOK(i)'
  <2>1. id \notin shared => id \notin proofs
    BY <1>1, <1>2 DEF RowFrameOK
  <2> QED
    BY <1>1, <1>2, <1>3, <1>4, <1>6, <2>1 DEF RowOK, CountOK
<1> QED
  BY <1>1, <1>2, <1>4, <1>5, <1>6, IdleRelies, CodesStep DEF TypeOK

(* The address is verified: its code was given.  From here on the row      *)
(* counts as used.                                                         *)
LEMMA Email_WriteStep ==
    ASSUME IInv, NEW h \in Handlers, Email_Write(h)
    PROVE  IInv'
<1> DEFINE id == call[h].id
           u == call[h].who
           e == call[h].email
           f == Goes(h, "email:mark")
<1>1. /\ call[h].at = "email:write" /\ call[h].at \in Changing
      /\ proved' = proved \cup {e}
      /\ UNCHANGED <<codes, proofs, tries, shared, sessionVars, overtaken>>
      /\ UNCHANGED <<live, current, crowded, issued>>
  BY DEF Email_Write, At, Changing, sessionVars
<1>2. /\ TypeOK /\ call[h] \in Frame /\ id \in CodeIds /\ codes[id] \in Code
      /\ codes[id] # Null /\ codes[id].email = e /\ e \in Emails
      /\ RowOK(id) /\ CountOK(id) /\ RowFrameOK(h)
  BY <1>1, AtRow
<1>3. /\ u \in People /\ accounts[u] # Null /\ accounts[u] \in Account
      /\ id \notin shared => uses[id] = 0 /\ id \notin proofs
  BY <1>1, <1>2 DEF IInv, AccountFrameOK, RowFrameOK, Exists, TypeOK
<1>4. CASE Return(h) /\ UNCHANGED <<accounts, uses>>
  <2>1. ControlOK /\ call'[h] = Idle /\ Others(h)
    BY <1>2, <1>4, ReturnMove
  <2>2. AccountFrameOK(h)' /\ RowFrameOK(h)' /\ call'[h].id = Null /\ call'[h].at = "idle"
    BY <2>1, IdleRelies
  <2>3. RowsKept(h)
    BY <1>1, <1>4 DEF RowsKept
  <2>4. ASSUME NEW i \in CodeIds, i = id PROVE RowOK(i)' /\ CountOK(i)'
    <3>1. \A l \in {"email:mark", "register:delete"} : HeldAt(i, l) => HeldAt(i, l)'
      BY <1>1, <2>1, HeldKept
    <3> QED
      BY <1>1, <1>2, <1>4, <2>4, <3>1 DEF RowOK, CountOK
  <2> QED
    BY <1>1, <1>2, <1>4, <2>1, <2>2, <2>3, <2>4, CodesStep DEF TypeOK
<1>5. CASE /\ accounts' = [accounts EXCEPT ![u].email = e, ![u].verified = TRUE]
           /\ uses' = [uses EXCEPT ![id] = @ + 1]
           /\ Goto(h, f)
  <2>1. f \in Frame /\ f.at = "email:mark" /\ f.id = id /\ f.email = e /\ f.who = u
    BY <1>2, MovedFrame DEF Labels
  <2> HIDE DEF f
  <2>2. ControlOK /\ call'[h] = f /\ Others(h)
    BY <1>2, <1>5, <2>1, GotoMove
  <2>3. /\ uses' \in [CodeIds -> Nat] /\ uses[id] \in Nat /\ uses'[id] = uses[id] + 1
        /\ \A i \in CodeIds \ {id} : uses'[i] = uses[i]
    BY <1>2, <1>5 DEF TypeOK
  <2>4. /\ accounts' \in [People -> Account \cup {Null}]
        /\ accounts'[u] \in Account /\ accounts'[u] # Null
        /\ accounts'[u].email = e
        /\ accounts'[u].password = accounts[u].password
        /\ accounts'[u].oldHash = accounts[u].oldHash
        /\ \A v \in People \ {u} : accounts'[v] = accounts[v]
    BY <1>2, <1>3, <1>5, NullIsNoId, ZenonT(40) DEF TypeOK, Account
  <2>5. TypeOK'
    BY <1>1, <1>2, <2>2, <2>3, <2>4 DEF TypeOK, ControlOK
  <2>6. RowsKept(h)
    BY <1>1, <2>3 DEF RowsKept
  <2>7. AccountsKept /\ VerifiedMeansProved'
    BY <1>1, <1>3, <2>4 DEF IInv, AccountsKept, VerifiedMeansProved, Exists
  <2>8. \A g \in Handlers : RehashOK(g)'
    BY <1>1, <2>1, <2>2, <2>4, RehashSame
  <2>9. SessionIsTheLast' /\ \A g \in Handlers : SessionFrameOK(g)'
    BY <1>1, <2>1, <2>2, SessionsSame
  <2>10. ASSUME NEW i \in CodeIds, i = id PROVE RowOK(i)' /\ CountOK(i)'
    <3>1. HeldAt(i, "email:mark")'
      BY <2>1, <2>2, <2>10 DEF HeldAt
    <3> QED
      BY <1>1, <1>2, <1>3, <2>3, <2>10, <3>1 DEF RowOK, CountOK
  <2>11. RowFrameOK(h)'
    BY <1>1, <1>2, <1>3, <2>1, <2>2 DEF RowFrameOK, Checking, Changing, Registering
  <2>12. AccountFrameOK(h)'
    BY <1>2, <1>3, <2>1, <2>2, <2>4
       DEF AccountFrameOK, Checking, Changing, Registering, AtSessions, Exists
  <2> QED
    BY <2>1, <2>2, <2>5, <2>6, <2>7, <2>8, <2>9, <2>10, <2>11, <2>12, HandlerStep
<1> QED
  BY <1>4, <1>5 DEF Email_Write

-----------------------------------------------------------------------------
(* Registration.                                                           *)

LEMMA AccountAdded ==
    ASSUME TypeOK, NEW u \in People, accounts[u] = Null, NEW e \in Emails, NEW v \in BOOLEAN,
           accounts' = [accounts EXCEPT ![u] =
               [email |-> e, verified |-> v, password |-> 1, oldHash |-> FALSE]]
    PROVE  /\ accounts' \in [People -> Account \cup {Null}]
           /\ accounts'[u].email = e /\ accounts'[u].verified = v
           /\ \A w \in People \ {u} : accounts'[w] = accounts[w]
           /\ accounts'[u] # Null
<1> DEFINE row == [email |-> e, verified |-> v, password |-> 1, oldHash |-> FALSE]
<1>1. row \in Account
  BY DEF Account, Passwords
<1>2. row.email = e /\ row.verified = v
  OBVIOUS
<1> HIDE DEF row
<1>3. accounts' = [accounts EXCEPT ![u] = row] /\ row # Null
  BY <1>1, NullIsNoId DEF row
<1> QED
  BY <1>1, <1>2, <1>3, ZenonT(40) DEF TypeOK

(* A new account that says its address is verified has a proved one.       *)
LEMMA CreateUserStep ==
    ASSUME IInv, NEW h \in Handlers, NEW v \in BOOLEAN,
           NEW label \in {"register:delete", "direct:delete"},
           CreateUser(h, v, label), call[h].email \in Emails,
           v => call[h].email \in proved,
           call[h].at \notin {"email:mark", "register:delete"},
           UNCHANGED <<codes, proofs, proved, tries, shared, sessionVars, overtaken>>,
           uses' \in [CodeIds -> Nat],
           \A i \in CodeIds \ {call[h].id} : uses'[i] = uses[i],
           accounts' = accounts => uses' = uses,
           accounts' # accounts /\ call[h].id \in CodeIds =>
              \/ uses' = uses /\ label = "direct:delete"
              \/ /\ label = "register:delete" /\ call[h].at \in Registering
                 /\ call[h].id \notin shared => uses[call[h].id] = 0 /\ uses'[call[h].id] = 1,
           label = "register:delete" => call[h].at \in Registering
    PROVE  IInv'
<1> DEFINE e == call[h].email
           moved == Goes(h, label)
<1>1. TypeOK /\ call[h] \in Frame /\ UNCHANGED <<live, current, crowded, issued>>
  BY DEF IInv, TypeOK, sessionVars
<1>2. CASE Return(h) /\ UNCHANGED accounts
  <2>1. ControlOK /\ call'[h] = Idle /\ Others(h)
    BY <1>1, <1>2, ReturnMove
  <2>2. AccountFrameOK(h)' /\ call'[h].id = Null /\ call'[h].at = "idle"
    BY <2>1, IdleRelies
  <2> QED
    BY <1>2, <2>1, <2>2, FrameStep DEF Checking, Changing, Registering, codeVars
<1>3. ASSUME NEW u \in People, accounts[u] = Null,
             accounts' = [accounts EXCEPT ![u] =
                  [email |-> e, verified |-> v, password |-> 1, oldHash |-> FALSE]],
             Goto(h, [moved EXCEPT !.who = u])
      PROVE  IInv'
  <2> DEFINE f == [moved EXCEPT !.who = u]
  <2>1. /\ moved \in Frame /\ moved.at = label /\ moved.id = call[h].id /\ moved.email = e
    BY <1>1, MovedFrame DEF Labels
  <2> HIDE DEF moved
  <2>2. f \in Frame /\ f.at = label /\ f.id = call[h].id /\ f.email = e /\ f.who = u
    BY <2>1 DEF Frame
  <2>3. Goto(h, f)
    BY <1>3
  <2> HIDE DEF f
  <2>4. ControlOK /\ call'[h] = f /\ Others(h)
    BY <1>1, <2>2, <2>3, GotoMove
  <2>5. /\ accounts' \in [People -> Account \cup {Null}]
        /\ accounts'[u].email = e /\ accounts'[u].verified = v
        /\ \A w \in People \ {u} : accounts'[w] = accounts[w]
        /\ accounts'[u] # Null
    BY <1>1, <1>3, AccountAdded
  <2>6. TypeOK'
    BY <1>1, <2>4, <2>5 DEF TypeOK, ControlOK
  <2>7. RowsKept(h)
    BY DEF RowsKept
  <2>8. AccountsKept /\ VerifiedMeansProved'
    BY <1>3, <2>5 DEF IInv, AccountsKept, VerifiedMeansProved, Exists
  <2>9. \A g \in Handlers : RehashOK(g)'
    BY <1>3, <2>2, <2>4, <2>5, RehashSame DEF Exists
  <2>10. SessionIsTheLast' /\ \A g \in Handlers : SessionFrameOK(g)'
    BY <1>1, <2>2, <2>4, SessionsSame
  <2>11. ASSUME NEW i \in CodeIds, i = call[h].id PROVE RowOK(i)' /\ CountOK(i)'
    <3>0. accounts' # accounts
      BY <1>3, <2>5
    <3>1. \A l \in {"email:mark", "register:delete"} : HeldAt(i, l) => HeldAt(i, l)'
      BY <2>4, HeldKept
    <3>2. CASE uses' = uses
      BY <3>1, <3>2 DEF IInv, RowOK, CountOK
    <3>3. CASE /\ label = "register:delete" /\ call[h].at \in Registering
               /\ i \notin shared => uses[i] = 0 /\ uses'[i] = 1
      <4>1. HeldAt(i, "register:delete")'
        BY <2>2, <2>4, <2>11, <3>3 DEF HeldAt
      <4>2. codes[i] # Null /\ codes[i].status # "pending"
        BY <2>11, <3>3, AtRow DEF RowFrameOK
      <4> QED
        BY <3>3, <4>1, <4>2 DEF IInv, RowOK, CountOK
    <3> QED
      BY <2>11, <3>0, <3>2, <3>3
  <2>12. RowFrameOK(h)'
    <3>1. CASE label = "direct:delete"
      BY <1>1, <2>2, <2>4, <2>7, <3>1, RowFrameLeft DEF IInv, Checking, Changing, Registering
    <3>2. CASE label = "register:delete"
      <4>1. /\ call[h].id \in CodeIds /\ codes[call[h].id] # Null
            /\ codes[call[h].id].email = e /\ codes[call[h].id].status # "pending"
        BY <3>2, AtRow DEF RowFrameOK
      <4> QED
        BY <2>2, <2>4, <3>2, <4>1 DEF RowFrameOK, Checking, Changing, Registering
    <3> QED
      BY <3>1, <3>2
  <2>13. AccountFrameOK(h)'
    BY <2>2, <2>4 DEF AccountFrameOK, Checking, Changing, Registering, AtSessions
  <2> QED
    BY <2>2, <2>4, <2>6, <2>7, <2>8, <2>9, <2>10, <2>11, <2>12, <2>13, HandlerStep
<1> QED
  BY <1>2, <1>3 DEF CreateUser

LEMMA PreRegister_CreateStep ==
    ASSUME IInv, NEW h \in Handlers, PreRegister_Create(h)
    PROVE  IInv'
<1> DEFINE id == call[h].id
<1>1. /\ call[h].at = "register:create" /\ call[h].at \in Registering
      /\ CreateUser(h, TRUE, "register:delete")
      /\ uses' = IF accounts' = accounts THEN uses ELSE [uses EXCEPT ![id] = @ + 1]
      /\ UNCHANGED <<codes, proofs, proved, tries, shared, sessionVars, overtaken>>
  BY DEF PreRegister_Create, At, Registering
<1>2. /\ TypeOK /\ id \in CodeIds /\ call[h].email \in Emails /\ RowFrameOK(h)
  BY <1>1, AtRow
<1>3. call[h].email \in proved /\ (id \notin shared => uses[id] = 0)
  BY <1>1, <1>2 DEF RowFrameOK
<1>4. /\ uses' \in [CodeIds -> Nat]
      /\ \A i \in CodeIds \ {id} : uses'[i] = uses[i]
      /\ accounts' = accounts => uses' = uses
      /\ accounts' # accounts => uses'[id] = uses[id] + 1
  BY <1>1, <1>2 DEF TypeOK
<1>5. /\ TRUE \in BOOLEAN /\ "register:delete" \in {"register:delete", "direct:delete"}
      /\ accounts' # accounts /\ id \notin shared => uses'[id] = 1
      /\ call[h].at \notin {"email:mark", "register:delete"}
  BY <1>1, <1>3, <1>4
<1> QED
  BY <1>1, <1>2, <1>3, <1>4, <1>5, CreateUserStep

LEMMA RegisterDirectly_CreateStep ==
    ASSUME IInv, NEW h \in Handlers, RegisterDirectly_Create(h)
    PROVE  IInv'
<1>1. /\ call[h].at = "direct:create"
      /\ CreateUser(h, FALSE, "direct:delete")
      /\ UNCHANGED <<codes, proofs, proved, tries, uses, shared, sessionVars, overtaken>>
  BY DEF RegisterDirectly_Create, At, codeVars
<1>2. TypeOK /\ call[h].email \in Emails /\ uses' \in [CodeIds -> Nat]
  BY <1>1 DEF IInv, AccountFrameOK, TypeOK
<1>3. /\ FALSE \in BOOLEAN /\ "direct:delete" \in {"register:delete", "direct:delete"}
      /\ call[h].at \notin {"email:mark", "register:delete"}
  BY <1>1
<1> QED
  BY <1>1, <1>2, <1>3, CreateUserStep

(* The rows of an address are deleted, that of the registration with them. *)
LEMMA DeleteCodesStep ==
    ASSUME IInv, NEW h \in Handlers, call[h].at \in {"register:delete", "direct:delete"},
           DeleteCodesOf(call[h].email), Goto(h, Goes(h, "session:delete")),
           UNCHANGED <<accounts, proofs, proved, tries, uses, shared, sessionVars, overtaken>>
    PROVE  IInv'
<1> DEFINE e == call[h].email
           f == Goes(h, "session:delete")
           gone(id) == [codes[id] EXCEPT !.status = "gone"]
<1>1. /\ TypeOK /\ call[h] \in Frame /\ call[h].who \in People
  BY DEF IInv, TypeOK, AccountFrameOK
<1>2. /\ f \in Frame /\ f.at = "session:delete" /\ f.id = call[h].id /\ f.who = call[h].who
  BY <1>1, MovedFrame DEF Labels
<1>3. ControlOK /\ call'[h] = f /\ Others(h)
  BY <1>1, <1>2, GotoMove
<1> HIDE DEF f, e
<1>4. ASSUME NEW id \in CodeIds, codes[id] # Null
      PROVE  /\ codes[id] \in Code /\ gone(id) \in Code /\ gone(id) # Null
             /\ gone(id).email = codes[id].email /\ gone(id).attempts = codes[id].attempts
             /\ gone(id).status = "gone"
  <2>1. codes[id] \in Code
    BY <1>1, <1>4 DEF TypeOK
  <2> QED
    BY <2>1, NullIsNoId DEF Code
<1> HIDE DEF gone
<1>5. \A id \in CodeIds : codes'[id] = IF codes[id] # Null /\ codes[id].email = e
                                       THEN gone(id) ELSE codes[id]
  BY DEF DeleteCodesOf, e, gone
<1>6. codes' \in [CodeIds -> Code \cup {Null}]
  <2>1. codes' = [id \in CodeIds |-> IF codes[id] # Null /\ codes[id].email = e
                                     THEN gone(id) ELSE codes[id]]
    BY DEF DeleteCodesOf, e, gone
  <2> QED
    BY <1>1, <1>4, <2>1 DEF TypeOK
<1>7. RowsKept(h)
  BY <1>4, <1>5 DEF RowsKept
<1>8. ASSUME NEW i \in CodeIds, i = call[h].id PROVE RowOK(i)' /\ CountOK(i)'
  <2>1. CASE codes[i] = Null
    BY <1>5, <2>1 DEF IInv, RowOK, CountOK
  <2>2. CASE codes[i] # Null /\ codes[i].email = e
    <3>1. codes'[i] = gone(i)
      BY <1>5, <2>2
    <3> QED
      BY <1>4, <2>2, <3>1 DEF IInv, RowOK, CountOK
  <2>3. CASE codes[i] # Null /\ codes[i].email # e
    <3>1. codes'[i] = codes[i]
      BY <1>5, <2>3
    <3>2. call[h].at = "direct:delete"
      BY <1>8, <2>3, AtRow DEF Registering, e
    <3>3. \A l \in {"email:mark", "register:delete"} : HeldAt(i, l) => HeldAt(i, l)'
      BY <1>3, <3>2, HeldKept
    <3> QED
      BY <3>1, <3>3 DEF IInv, RowOK, CountOK
  <2> QED
    BY <2>1, <2>2, <2>3
<1>9. RowFrameOK(h)'
  BY <1>1, <1>2, <1>3, <1>7, RowFrameLeft DEF IInv, Checking, Changing, Registering
<1>10. AccountFrameOK(h)'
  BY <1>1, <1>2, <1>3 DEF AccountFrameOK, Checking, Changing, Registering, AtSessions
<1> QED
  BY <1>1, <1>2, <1>3, <1>6, <1>7, <1>8, <1>9, <1>10, CodesStep DEF TypeOK

LEMMA PreRegister_DeleteCodesStep ==
    ASSUME IInv, NEW h \in Handlers, PreRegister_DeleteCodes(h)
    PROVE  IInv'
BY DeleteCodesStep DEF PreRegister_DeleteCodes, At

LEMMA RegisterDirectly_DeleteCodesStep ==
    ASSUME IInv, NEW h \in Handlers, RegisterDirectly_DeleteCodes(h)
    PROVE  IInv'
BY DeleteCodesStep DEF RegisterDirectly_DeleteCodes, At

-----------------------------------------------------------------------------
(* Time and crashes.                                                       *)

(* The row of a handler that dies is not counted on any more.              *)
LEMMA CrashStep ==
    ASSUME IInv, NEW h \in Handlers, Crash(h)
    PROVE  IInv'
<1>1. /\ shared' = shared \cup ({call[h].id} \ {Null})
      /\ overtaken' = overtaken \ {h} /\ Return(h)
      /\ UNCHANGED <<accounts, codes, proofs, proved, tries, uses, sessionVars>>
      /\ UNCHANGED <<live, current, crowded, issued>>
  BY DEF Crash, sessionVars
<1>2. TypeOK /\ call[h] \in Frame /\ call[h].id \in CodeIds \cup {Null}
  BY DEF IInv, TypeOK, Frame
<1>3. ControlOK /\ call'[h] = Idle /\ Others(h)
  BY <1>1, <1>2, ReturnMove
<1>4. TypeOK'
  BY <1>1, <1>2, <1>3 DEF TypeOK, ControlOK
<1>5. RowsKept(h)
  BY <1>1 DEF RowsKept
<1>6. ASSUME NEW i \in CodeIds, i = call[h].id PROVE RowOK(i)' /\ CountOK(i)'
  <2>1. i \in shared'
    BY <1>1, <1>6, NullIsNoId
  <2> QED
    BY <1>1, <2>1 DEF IInv, RowOK, CountOK
<1>7. SessionIsTheLast' /\ \A g \in Handlers : SessionFrameOK(g)'
  BY <1>1, <1>3, IdleRelies, SessionsSame
<1>8. \A g \in Handlers : RehashOK(g)'
  BY <1>1, <1>3, IdleRelies, RehashSame
<1>9. AccountsKept /\ VerifiedMeansProved'
  BY <1>1 DEF IInv, AccountsKept, VerifiedMeansProved, Exists
<1> QED
  BY <1>3, <1>4, <1>5, <1>6, <1>7, <1>8, <1>9, IdleRelies, HandlerStep

(* Steps that move no handler.                                             *)
LEMMA TimeStep ==
    ASSUME IInv, UNCHANGED <<accounts, call, started, proved, tries, uses, shared, sessionVars,
                             overtaken>>,
           codes' \in [CodeIds -> Code \cup {Null}], proofs' \subseteq proofs,
           \A id \in CodeIds : IF codes[id] = Null THEN codes'[id] = Null ELSE
               /\ codes'[id] # Null /\ codes'[id].email = codes[id].email
               /\ codes'[id].attempts = codes[id].attempts
               /\ codes'[id].status = codes[id].status
    PROVE  IInv'
<1>1. UNCHANGED <<live, current, crowded, issued>>
  BY DEF sessionVars
<1>2. TypeOK'
  BY <1>1 DEF IInv, TypeOK
<1>3. VerifiedMeansProved' /\ SessionIsTheLast'
  BY <1>1 DEF IInv, VerifiedMeansProved, SessionIsTheLast, Exists
<1>4. \A id, l : HeldAt(id, l)' <=> HeldAt(id, l)
  BY DEF HeldAt
<1>5. ASSUME NEW id \in CodeIds PROVE RowOK(id)' /\ CountOK(id)' /\ Alone(id)'
  BY <1>4 DEF IInv, RowOK, CountOK, Alone
<1>6. ASSUME NEW h \in Handlers PROVE RowFrameOK(h)'
  <2>1. RowFrameOK(h) /\ call[h].id \in CodeIds \cup {Null} /\ call'[h] = call[h]
    BY DEF IInv, TypeOK, Frame
  <2>2. CASE call[h].id \in CodeIds
    <3>1. /\ codes[call[h].id] # Null => codes'[call[h].id] # Null
          /\ codes[call[h].id] # Null =>
                /\ codes'[call[h].id].email = codes[call[h].id].email
                /\ codes'[call[h].id].attempts = codes[call[h].id].attempts
                /\ codes'[call[h].id].status = codes[call[h].id].status
      BY <2>2
    <3>2. codes[call[h].id] # Null
      BY <2>1, <2>2, NullIsNoId DEF RowFrameOK
    <3> QED
      BY <2>1, <3>1, <3>2 DEF RowFrameOK, Exhausted
  <2>3. CASE call[h].id = Null
    <3>1. call[h].at \notin Checking \cup Changing \cup Registering
      BY <2>1, <2>3, NullIsNoId DEF RowFrameOK
    <3> QED
      BY <2>1, <2>3, <3>1 DEF RowFrameOK, Checking, Changing, Registering
  <2> QED
    BY <2>1, <2>2, <2>3
<1>7. ASSUME NEW h \in Handlers PROVE AccountFrameOK(h)' /\ SessionFrameOK(h)' /\ RehashOK(h)'
  BY <1>1 DEF IInv, AccountFrameOK, SessionFrameOK, RehashOK, Exists
<1> QED
  BY <1>2, <1>3, <1>5, <1>6, <1>7 DEF IInv

LEMMA CodeAgesStep ==
    ASSUME IInv, NEW id \in CodeIds, CodeAges(id)
    PROVE  IInv'
<1> DEFINE row == [codes[id] EXCEPT !.time = IF @ = "recent" THEN "valid" ELSE "expired"]
<1>1. /\ codes[id] # Null /\ codes' = [codes EXCEPT ![id] = row] /\ proofs' = proofs
      /\ UNCHANGED <<accounts, call, started, proved, tries, uses, shared, sessionVars,
                     overtaken>>
  BY DEF CodeAges, SetCode
<1>2. TypeOK /\ codes[id] \in Code
  BY <1>1 DEF IInv, TypeOK
<1>3. /\ row \in Code /\ row.email = codes[id].email
      /\ row.attempts = codes[id].attempts /\ row.status = codes[id].status
  BY <1>2 DEF Code
<1> HIDE DEF row
<1>4. /\ row # Null /\ codes'[id] = row
      /\ codes' \in [CodeIds -> Code \cup {Null}]
      /\ \A i \in CodeIds \ {id} : codes'[i] = codes[i]
  BY <1>1, <1>2, <1>3, NullIsNoId DEF TypeOK
<1>5. ASSUME NEW i \in CodeIds
      PROVE  IF codes[i] = Null THEN codes'[i] = Null ELSE
               /\ codes'[i] # Null /\ codes'[i].email = codes[i].email
               /\ codes'[i].attempts = codes[i].attempts
               /\ codes'[i].status = codes[i].status
  BY <1>1, <1>3, <1>4
<1> QED
  BY <1>1, <1>4, <1>5, TimeStep

LEMMA ProofExpiresStep ==
    ASSUME IInv, NEW id \in CodeIds, ProofExpires(id)
    PROVE  IInv'
BY TimeStep DEF ProofExpires, IInv, TypeOK

LEMMA StutterStep ==
    ASSUME IInv, UNCHANGED vars
    PROVE  IInv'
<1>1. UNCHANGED <<accounts, codes, proofs, call, started, proved, tries, uses, shared,
                  sessionVars, overtaken>>
  BY DEF vars, sessionVars
<1> QED
  BY <1>1, TimeStep DEF IInv, TypeOK

-----------------------------------------------------------------------------
(* The theorems.                                                           *)

LEMMA InitHasInvariant == Init => IInv
<1> SUFFICES ASSUME Init PROVE IInv
  OBVIOUS
<1>1. /\ call = [h \in Handlers |-> Idle] /\ started = 0 /\ issued = 1
      /\ tries = [id \in CodeIds |-> 0] /\ uses = [id \in CodeIds |-> 0]
      /\ proved = IF InitialAccount.verified THEN {InitialAccount.email} ELSE {}
      /\ proofs = {} /\ shared = {} /\ crowded = {} /\ overtaken = {}
  BY DEF Init
<1>2. PICK u \in People, old \in BOOLEAN :
         /\ accounts = [v \in People |->
               IF v = u THEN [InitialAccount EXCEPT !.oldHash = old] ELSE Null]
         /\ live = [v \in People |-> IF v = u THEN {1} ELSE {}]
         /\ current = [v \in People |-> IF v = u THEN 1 ELSE Null]
  BY DEF Init
<1> DEFINE row == [InitialAccount EXCEPT !.oldHash = old]
<1>3. /\ row \in Account /\ row.email = InitialAccount.email
      /\ row.verified = InitialAccount.verified /\ InitialAccount.email \in Emails
  BY AccountsAssumption DEF Account
<1> HIDE DEF row
<1>4. /\ accounts \in [People -> Account \cup {Null}]
      /\ accounts[u] = row /\ \A v \in People \ {u} : accounts[v] = Null
  BY <1>2, <1>3 DEF row
<1>5. /\ live \in [People -> SUBSET Tokens] /\ current \in [People -> Tokens \cup {Null}]
  BY <1>2 DEF Tokens
<1>6. /\ codes \in [CodeIds -> Code \cup {Null}]
      /\ \A id \in CodeIds : codes[id] # Null => codes[id].attempts = 0
  <2>1. PICK e \in Emails \cup {Null} :
          codes = [id \in CodeIds |->
              IF id = 1 /\ e # Null /\ e # InitialAccount.email
              THEN [email |-> e, status |-> "pending", attempts |-> 0, time |-> "valid"]
              ELSE Null]
    BY DEF Init
  <2> DEFINE first == [email |-> e, status |-> "pending", attempts |-> 0, time |-> "valid"]
  <2>2. first.attempts = 0 /\ (e # Null => first \in Code)
    BY AccountStoreAssumption DEF Code
  <2> HIDE DEF first
  <2>3. codes = [id \in CodeIds |-> IF id = 1 /\ e # Null /\ e # InitialAccount.email
                                    THEN first ELSE Null]
    BY <2>1 DEF first
  <2> QED
    BY <2>2, <2>3
<1>7. TypeOK
  BY <1>1, <1>3, <1>4, <1>5, <1>6, IdleInFrame, AccountStoreAssumption DEF TypeOK, Tokens
<1>8. VerifiedMeansProved
  BY <1>1, <1>3, <1>4 DEF VerifiedMeansProved, Exists
<1>9. SessionIsTheLast
  BY <1>2, NullIsNoId DEF SessionIsTheLast, Tokens
<1>10. \A id \in CodeIds : RowOK(id) /\ CountOK(id) /\ Alone(id)
  BY <1>1, <1>6, NullIsNoId DEF RowOK, CountOK, Alone, Idle
<1>11. \A h \in Handlers : RowFrameOK(h) /\ AccountFrameOK(h) /\ SessionFrameOK(h) /\ RehashOK(h)
  BY <1>1 DEF Idle, RowFrameOK, AccountFrameOK, SessionFrameOK, RehashOK, Checking, Changing,
              Registering, AtSessions
<1> QED
  BY <1>7, <1>8, <1>9, <1>10, <1>11 DEF IInv

LEMMA NextKeepsInvariant == IInv /\ [Next]_vars => IInv'
<1> SUFFICES ASSUME IInv, [Next]_vars PROVE IInv'
  OBVIOUS
<1>1. ASSUME NEW h \in Handlers, CodeStep(h) PROVE IInv'
  BY <1>1, SendVerificationCode_CheckStep, RegisterDirectly_CheckStep, PreRegister_CheckStep,
     VerifyCode_FindStep, RequestChangeEmail_CheckStep, VerifyEmail_FindStep,
     ConfirmChangeEmail_FindStep, SendVerificationCode_CreateStep, VerifyCode_FailStep,
     VerifyCode_CountStep, VerifyCode_VerifyStep, RequestChangeEmail_CreateStep,
     Email_RefuseStep, Email_WriteStep, Email_MarkStep, PreRegister_CreateStep,
     PreRegister_DeleteCodesStep, RegisterDirectly_CreateStep,
     RegisterDirectly_DeleteCodesStep DEF CodeStep
<1>2. ASSUME NEW h \in Handlers, SessionStep(h) PROVE IInv'
  <2>2. 1..issued \subseteq Tokens
    BY DEF IInv, TypeOK, Tokens
  <2>3. ASSUME NEW u \in People, Exists(u) PROVE 1..accounts[u].password \subseteq Passwords
    BY <2>3 DEF IInv, TypeOK, Exists, Account, Passwords
  <2> QED
    BY <1>2, <2>2, <2>3, RevokeAllRefreshTokensStep, Login_FindStep, ChangePassword_FindStep,
       RevokeRefreshToken_FindStep, RefreshToken_FindStep, Session_DeleteStep,
       Session_CreateStep, Login_RehashStep, ChangePassword_WriteStep,
       RevokeRefreshToken_DeleteStep DEF SessionStep
<1>3. ASSUME NEW h \in Handlers, Crash(h) PROVE IInv'
  BY <1>3, CrashStep
<1>4. ASSUME NEW id \in CodeIds, CodeAges(id) \/ ProofExpires(id) PROVE IInv'
  BY <1>4, CodeAgesStep, ProofExpiresStep
<1>5. CASE UNCHANGED vars
  BY <1>5, StutterStep
<1> QED
  BY <1>1, <1>2, <1>3, <1>4, <1>5 DEF Next

-----------------------------------------------------------------------------
(* What the invariant says of every behaviour.                             *)

THEOREM Invariant == Spec => []IInv
<1> QED
  BY InitHasInvariant, NextKeepsInvariant, PTL DEF Spec

(* The database and the frames of the handlers keep the shape that         *)
(* schema.prisma and the services give them.                               *)
THEOREM TypeCorrect == Spec => []TypeOK
<1>1. IInv => TypeOK
  BY DEF IInv
<1> QED
  BY <1>1, Invariant, PTL

(* Whatever registrations, changes of addresses and crashes overlap, an    *)
(* address is only verified on an account if its code was given.           *)
THEOREM VerifiedAreProved == Spec => []VerifiedMeansProved
<1>1. IInv => VerifiedMeansProved
  BY DEF IInv
<1> QED
  BY <1>1, Invariant, PTL

(* A row of verification_codes that one request at a time worked with      *)
(* verifies the address of one account at most.                            *)
THEOREM CodesAreUsedOnce == Spec => []CodeIsUsedOnce
<1>1. IInv => CodeIsUsedOnce
  BY DEF IInv, CodeIsUsedOnce, CountOK
<1> QED
  BY <1>1, Invariant, PTL

(* Such a row is compared with maxAttempts wrong codes at most: each is    *)
(* counted before the next one is looked at.                               *)
THEOREM GuessesLimited == Spec => []GuessesAreLimited
<1>1. ASSUME IInv, NEW id \in CodeIds \ shared PROVE tries[id] <= MaxAttempts
  <2>1. CASE codes[id] = Null
    BY <1>1, <2>1, AccountStoreAssumption DEF IInv, RowOK
  <2>2. CASE codes[id] # Null
    <3>1. codes[id] \in Code /\ tries[id] \in Nat
      BY <1>1, <2>2 DEF IInv, TypeOK
    <3>2. tries[id] <= codes[id].attempts /\ codes[id].attempts \in 0..MaxAttempts
      BY <1>1, <2>2, <3>1 DEF IInv, CountOK, Code
    <3> QED
      BY <3>1, <3>2, AccountStoreAssumption
  <2> QED
    BY <2>1, <2>2
<1>2. IInv => GuessesAreLimited
  BY <1>1 DEF GuessesAreLimited
<1> QED
  BY <1>2, Invariant, PTL

(* generateRefreshToken leaves an account the one token it made last, and  *)
(* logouts none, unless two requests about the same sessions overlapped.   *)
THEOREM OneSession == Spec => []SessionIsTheLast
<1>1. IInv => SessionIsTheLast
  BY DEF IInv
<1> QED
  BY <1>1, Invariant, PTL

-----------------------------------------------------------------------------
(* Passwords that were changed.                                            *)

(* The body of PasswordStaysChanged for one account.                       *)
NotBack(u) ==
    \/ accounts'[u].password >= accounts[u].password
    \/ \E h \in overtaken \ overtaken' : call[h].who = u

LEMMA SamePassword ==
    ASSUME TypeOK, NEW u \in People, Exists(u), accounts'[u].password = accounts[u].password
    PROVE  NotBack(u)
<1>1. accounts[u].password \in Nat
  BY DEF TypeOK, Exists, Account, Passwords
<1> QED
  BY <1>1 DEF NotBack

LEMMA CreatedElsewhere ==
    ASSUME TypeOK, NEW h, NEW v, NEW label, CreateUser(h, v, label),
           NEW u \in People, Exists(u)
    PROVE  accounts'[u] = accounts[u]
BY DEF CreateUser, Exists, TypeOK

LEMMA EmailWritten ==
    ASSUME TypeOK, NEW h, Email_Write(h), NEW u \in People, Exists(u)
    PROVE  accounts'[u].password = accounts[u].password
<1>1. accounts[u] \in Account
  BY DEF TypeOK, Exists
<1> QED
  BY <1>1 DEF Email_Write, TypeOK, Account

(* A login stores the password it was given: that is the one there is, or  *)
(* a later one, as long as it is not overtaken.                            *)
LEMMA RehashedPassword ==
    ASSUME IInv, NEW h \in Handlers, Login_Rehash(h), NEW u \in People, Exists(u)
    PROVE  NotBack(u)
<1>1. /\ TypeOK /\ RehashOK(h) /\ call[h].at = "login:rehash"
      /\ accounts' = [accounts EXCEPT ![call[h].who].password = call[h].password,
                                      ![call[h].who].oldHash = FALSE]
      /\ overtaken' = overtaken \ {h}
  BY DEF IInv, Login_Rehash, At
<1>2. accounts[u] \in Account
  BY <1>1 DEF TypeOK, Exists
<1>3. CASE call[h].who # u
  BY <1>1, <1>2, <1>3, SamePassword DEF TypeOK
<1>4. CASE call[h].who = u /\ h \notin overtaken
  <2>1. accounts'[u].password = call[h].password
    BY <1>1, <1>2, <1>4 DEF TypeOK, Account
  <2> QED
    BY <1>1, <1>4, <2>1 DEF RehashOK, NotBack
<1>5. CASE call[h].who = u /\ h \in overtaken
  BY <1>1, <1>5 DEF NotBack
<1> QED
  BY <1>3, <1>4, <1>5

LEMMA ChangedPassword ==
    ASSUME IInv, NEW h \in Handlers, ChangePassword_Write(h), NEW u \in People, Exists(u)
    PROVE  NotBack(u)
<1>1. TypeOK
  BY DEF IInv
<1>2. accounts[u] \in Account /\ accounts[u].password \in Nat
  BY <1>1 DEF TypeOK, Exists, Account, Passwords
<1>3. accounts'[u].password \in {accounts[u].password, accounts[u].password + 1}
  BY <1>1, <1>2 DEF ChangePassword_Write, TypeOK, Account
<1> QED
  BY <1>2, <1>3 DEF NotBack

LEMMA PasswordStaysStep ==
    ASSUME IInv, [Next]_vars, NEW u \in People, Exists(u)
    PROVE  NotBack(u)
<1>1. TypeOK
  BY DEF IInv
<1>2. CASE UNCHANGED accounts
  BY <1>1, <1>2, SamePassword
<1>3. ASSUME NEW h \in Handlers, CodeStep(h), ~UNCHANGED accounts PROVE NotBack(u)
  <2>1. Email_Write(h) \/ PreRegister_Create(h) \/ RegisterDirectly_Create(h)
    BY <1>3 DEF CodeStep, SendVerificationCode_Check, RegisterDirectly_Check,
       PreRegister_Check, VerifyCode_Find, RequestChangeEmail_Check, VerifyEmail_Find,
       ConfirmChangeEmail_Find, SendVerificationCode_Create, VerifyCode_Fail,
       VerifyCode_Count, VerifyCode_Verify, RequestChangeEmail_Create, Email_Refuse,
       Email_Mark, PreRegister_DeleteCodes, RegisterDirectly_DeleteCodes
  <2> QED
    BY <1>1, <2>1, SamePassword, CreatedElsewhere, EmailWritten
       DEF PreRegister_Create, RegisterDirectly_Create
<1>4. ASSUME NEW h \in Handlers, SessionStep(h), ~UNCHANGED accounts PROVE NotBack(u)
  <2>1. Login_Rehash(h) \/ ChangePassword_Write(h)
    BY <1>4 DEF SessionStep, RevokeAllRefreshTokens, Login_Find, ChangePassword_Find,
       RevokeRefreshToken_Find, RefreshToken_Find, Session_Delete, Session_Create,
       RevokeRefreshToken_Delete
  <2> QED
    BY <2>1, RehashedPassword, ChangedPassword
<1> QED
  BY <1>2, <1>3, <1>4 DEF Next, vars, Crash, CodeAges, ProofExpires

(* changePassword is not undone: only a login that read the account before *)
(* the change, and stores its newer hash after it, brings a password back. *)
THEOREM ChangedPasswordStays == Spec => PasswordStaysChanged
<1>1. IInv /\ [Next]_vars =>
         [\A u \in People : Exists(u) =>
            \/ accounts'[u].password >= accounts[u].password
            \/ \E h \in overtaken \ overtaken' : call[h].who = u]_vars
  BY PasswordStaysStep DEF NotBack
<1> QED
  BY <1>1, Invariant, PTL DEF Spec, PasswordStaysChanged
=============================================================================
