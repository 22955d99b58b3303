------------------------------ MODULE Contracts ------------------------------
(***************************************************************************)
(* Contracts between a landlord and a tenant: drawing them up, signing     *)
(* with a one-time code, deleting drafts.  ContractsNewService.            *)
(***************************************************************************)
EXTENDS ContractStore

(* A contract without a rental; the room is looked up and always there. *)
CreateContract_Check(h, u, parties) ==
    /\ u \in {parties[1], parties[2]}
    /\ Begin(h, "createContract",
             [Idle EXCEPT !.at = "create:count", !.who = u, !.parties = parties])
    /\ NoWrites

(* createContract for a rental, which is only looked at after the room. *)
CreateContract_ForRental(h, u, parties, x) ==
    /\ u \in {parties[1], parties[2]}
    /\ Begin(h, "createContract",
             [Idle EXCEPT !.at = "create:rental", !.who = u, !.parties = parties,
                          !.rental = x])
    /\ NoWrites

(* What createContract and createContractFromRental ask of a rental. *)
CanHaveContract(x, parties) ==
    ContractsOf(x) = {} /\ RentalParties[x] = parties /\ x \notin ended

CreateContract_ReadRental(h) ==
    /\ At(h, "create:rental")
    /\ IF CanHaveContract(call[h].rental, call[h].parties)
       THEN Goto(h, Goes(h, "create:count")) ELSE Return(h)
    /\ NoWrites

(* ensureContractForRental, unless the rental has a contract already. *)
EnsureContract_ReadRental(h, u, x) ==
    /\ u \in {RentalParties[x][1], RentalParties[x][2]}
    /\ ContractsOf(x) = {}
    /\ Begin(h, "ensureContract",
             [Idle EXCEPT !.at = "from:rental", !.who = u, !.rental = x,
                          !.parties = RentalParties[x]])
    /\ NoWrites

FromRental_Read(h) ==
    /\ At(h, "from:rental")
    /\ IF CanHaveContract(call[h].rental, RentalParties[call[h].rental])
       THEN Goto(h, Goes(h, "create:rental")) ELSE Return(h)
    /\ NoWrites

(* createContractFromRental, asked for or called by createRental. *)
FromRental_Begin(h, u, x) ==
    /\ u \in {RentalParties[x][1], RentalParties[x][2]}
    /\ CanHaveContract(x, RentalParties[x])
    /\ Begin(h, "fromRental",
             [Idle EXCEPT !.at = "create:rental", !.who = u, !.rental = x,
                          !.parties = RentalParties[x]])
    /\ NoWrites

LiveContracts == {c \in ContractIds : Live(contracts[c])}

(* Mutant: the number of contracts, instead of one more. *)
NextCode_Count == Cardinality(LiveContracts)

(* generateContractCode *)
NextCode == Cardinality(LiveContracts) + 1

CreateContract_CountCodes(h) ==
    /\ At(h, "create:count")
    /\ Goto(h, [Goes(h, "create:insert") EXCEPT !.code = NextCode])
    /\ NoWrites

(* Both the code and the rental are unique: a clash throws. *)
Clashes(x, code) ==
    \/ \E c \in LiveContracts : contracts[c].code = code
    \/ x # Null /\ ContractsOf(x) # {}

Draft(parties, x, code) ==
    [parties |-> parties, rental |-> x, code |-> code, status |-> "draft",
     signedAt |-> FALSE]

CreateContract_Insert(h) ==
    /\ At(h, "create:insert")
    /\ IF Clashes(call[h].rental, call[h].code)
       THEN Return(h) /\ NoWrites
       ELSE /\ \E c \in ContractIds :
                  /\ contracts[c] = Null
                  /\ contracts' = [contracts EXCEPT ![c] =
                        Draft(call[h].parties, call[h].rental, call[h].code)]
            /\ ReturnWritten(h)
            /\ UNCHANGED <<signatures, ended, purged, cache>>

-----------------------------------------------------------------------------
(* One-time codes. *)

SendSigningOtp_Read(h, c, u) ==
    /\ Live(contracts[c])
    /\ Involved(c, u)
    /\ Begin(h, "sendOtp", [Idle EXCEPT !.at = "otp:set", !.who = u, !.id = c])
    /\ NoWrites

(* The email that follows changes nothing. *)
SendSigningOtp_Set(h) ==
    LET t == <<call[h].id, call[h].who>> IN
    /\ At(h, "otp:set")
    /\ \E code \in Codes :
          /\ SetVerificationCode(t, code)
          /\ sent' = [sent EXCEPT ![t] = @ \cup {code}]
    /\ guesses' = [guesses EXCEPT ![t] = 0]
    /\ raced' = raced \ {t}
    /\ Return(h)
    /\ UNCHANGED tables

Expire(t) ==
    /\ "expire" \in Ops
    /\ codes[t] # Null
    /\ DeleteVerificationCode(t)
    /\ UNCHANGED <<tables, call, started, sent, guesses, raced, clean>>

-----------------------------------------------------------------------------
(* Signing. *)

SignContract_Read(h, c, u, input) ==
    /\ Live(contracts[c])
    /\ Involved(c, u)
    /\ ~ \E s \in signatures : s.contract = c /\ s.signer = u /\ s.role = RoleOf(c, u)
    /\ Begin(h, "sign", [Idle EXCEPT !.at = "sign:getCode", !.who = u, !.id = c,
                                     !.input = input, !.status = contracts[c].status])
    /\ NoWrites

(* Mutant: the codes of a contract are shared by its parties. *)
TargetOf_Shared(c, u) == <<c, IF Live(contracts[c]) THEN contracts[c].parties[1] ELSE u>>

TargetOf(c, u) == <<c, u>>

SignContract_GetCode(h) ==
    LET t == TargetOf(call[h].id, call[h].who) IN
    /\ At(h, "sign:getCode")
    /\ IF codes[t] = Null
       THEN Return(h)
       ELSE Goto(h, [Goes(h, "sign:putBack") EXCEPT !.entry = codes[t]])
    /\ NoWrites

(* The attempt is counted in the entry read, which is then compared.  A    *)
(* guess that would put back an outdated entry spoils the count.           *)
SignContract_PutBack(h) ==
    LET t == TargetOf(call[h].id, call[h].who)
        e == call[h].entry
        v == Verdict(Counted(e), call[h].input)
    IN
    /\ At(h, "sign:putBack")
    /\ PutBack(t, e)
    /\ guesses' = [guesses EXCEPT ![t] = IF v = "exceeded" THEN @ ELSE @ + 1]
    /\ raced' = IF codes[t] = e THEN raced ELSE raced \cup {t}
    /\ IF v = "wrong"
       THEN Return(h)
       ELSE Goto(h, [Goes(h, "sign:dropCode") EXCEPT !.entry = Counted(e)])
    /\ UNCHANGED <<tables, sent>>

SignContract_DropCode(h) ==
    /\ At(h, "sign:dropCode")
    /\ DeleteVerificationCode(TargetOf(call[h].id, call[h].who))
    /\ IF Verdict(call[h].entry, call[h].input) = "valid"
       THEN Goto(h, Goes(h, "sign:insert"))
       ELSE Return(h)
    /\ UNCHANGED <<tables, sent, guesses, raced>>

(* One signature of a signer, for a contract that is still there. *)
SignContract_Insert(h) ==
    LET c == call[h].id
        u == call[h].who
    IN
    /\ At(h, "sign:insert")
    /\ IF Live(contracts[c]) /\ ~ \E s \in signatures : s.contract = c /\ s.signer = u
       THEN /\ signatures' = signatures \cup {[contract |-> c, signer |-> u,
                                               role |-> RoleOf(c, u),
                                               with |-> call[h].input]}
            /\ GotoWritten(h, Goes(h, "sign:read"))
       ELSE Return(h) /\ UNCHANGED signatures
    /\ UNCHANGED <<contracts, ended, purged, cache>>

(* Mutant: one signature will do. *)
StatusAfter_Any(read, roles) == IF roles # {} THEN "fully_signed" ELSE read

(* Mutant: the last signature is like any other. *)
StatusAfter_Partly(read, roles) == IF roles # {} THEN "partially_signed" ELSE read

(* The status for the roles that have signed, or the one read first if     *)
(* their signatures have been deleted since.                               *)
StatusAfter(read, roles) ==
    IF roles = {Landlord, Tenant} THEN "fully_signed"
    ELSE IF roles # {} THEN "partially_signed" ELSE read

SignContract_ReadSignatures(h) ==
    /\ At(h, "sign:read")
    /\ Goto(h, [Goes(h, "sign:write") EXCEPT
                   !.status = StatusAfter(@, RolesSigned(call[h].id))])
    /\ NoWrites

SignContract_Write(h) ==
    LET c == call[h].id
        s == call[h].status
    IN
    /\ At(h, "sign:write")
    /\ IF Live(contracts[c])
       THEN /\ contracts' = [contracts EXCEPT ![c].status = s,
                                              ![c].signedAt = (s = "fully_signed")]
            /\ ReturnWritten(h)
       ELSE Return(h) /\ UNCHANGED contracts
    /\ UNCHANGED <<signatures, ended, purged, cache>>

-----------------------------------------------------------------------------
(* Deleting a draft. *)

(* Mutant: any contract can be deleted. *)
Deletable_Any(c) == Live(contracts[c])

Deletable(c) == Live(contracts[c]) /\ contracts[c].status = "draft"

DeleteContract_Read(h, c, u) ==
    /\ Deletable(c)
    /\ Involved(c, u)
    /\ Begin(h, "delete", [Idle EXCEPT !.at = "delete:signatures", !.who = u, !.id = c])
    /\ NoWrites

DeleteContract_Signatures(h) ==
    /\ At(h, "delete:signatures")
    /\ signatures' = {s \in signatures : s.contract # call[h].id}
    /\ IF signatures' = signatures THEN Goto(h, Goes(h, "delete:row"))
                                   ELSE GotoWritten(h, Goes(h, "delete:row"))
    /\ purged' = IF signatures' = signatures THEN purged ELSE purged \cup {call[h].id}
    /\ UNCHANGED <<contracts, ended, cache>>

(* The row, and by cascade what was signed since. *)
DeleteContract_Row(h) ==
    LET c == call[h].id IN
    /\ At(h, "delete:row")
    /\ IF Live(contracts[c])
       THEN /\ contracts' = [contracts EXCEPT ![c] = Gone]
            /\ signatures' = {s \in signatures : s.contract # c}
            /\ ReturnWritten(h)
       ELSE Return(h) /\ UNCHANGED <<contracts, signatures>>
    /\ UNCHANGED <<ended, purged, cache>>

-----------------------------------------------------------------------------
(* The rental services end a rental; the server crashes. *)

EndRental(x) ==
    /\ "endRental" \in Ops
    /\ x \notin ended
    /\ ended' = ended \cup {x}
    /\ UNCHANGED <<contracts, signatures, purged, call, started, clean, cache>>

Crash(h) ==
    /\ "crash" \in Ops
    /\ ~At(h, "idle")
    /\ Return(h)
    /\ NoWrites

-----------------------------------------------------------------------------
(* Each of ts has been sent code k. *)
CodesGiven(ts, k) ==
    /\ codes = [t \in Targets |-> IF t \in ts THEN [code |-> k, attempts |-> 0] ELSE Null]
    /\ sent = [t \in Targets |-> IF t \in ts THEN {k} ELSE {}]

Init ==
    /\ \/ /\ contracts = [c \in ContractIds |-> Null]
          /\ CodesGiven({}, Null)
       \/ \E d \in ContractIds, p \in Parties :
             /\ contracts = [c \in ContractIds |-> IF c = d THEN Draft(p, Null, 1) ELSE Null]
             /\ \/ CodesGiven({}, Null)
                \/ \E k \in Codes : CodesGiven({<<d, p[1]>>, <<d, p[2]>>}, k)
    /\ signatures = {}
    /\ purged = {}
    /\ ended = {}
    /\ call = [h \in Handlers |-> Idle]
    /\ started = 0
    /\ guesses = [t \in Targets |-> 0]
    /\ raced = {}
    /\ clean = {}

Request(h) ==
    \E u \in People :
       \/ \E p \in Parties :
             \/ CreateContract_Check(h, u, p)
             \/ \E x \in RentalIds : CreateContract_ForRental(h, u, p, x)
       \/ \E x \in RentalIds : EnsureContract_ReadRental(h, u, x) \/ FromRental_Begin(h, u, x)
       \/ \E c \in ContractIds :
             \/ SendSigningOtp_Read(h, c, u)
             \/ \E input \in Codes : SignContract_Read(h, c, u, input)
             \/ DeleteContract_Read(h, c, u)

Advance(h) ==
    \/ FromRental_Read(h) \/ CreateContract_ReadRental(h) \/ CreateContract_CountCodes(h)
    \/ CreateContract_Insert(h) \/ SendSigningOtp_Set(h)
    \/ SignContract_GetCode(h) \/ SignContract_PutBack(h) \/ SignContract_DropCode(h)
    \/ SignContract_Insert(h) \/ SignContract_ReadSignatures(h) \/ SignContract_Write(h)
    \/ DeleteContract_Signatures(h) \/ DeleteContract_Row(h)

Next ==
    \/ \E h \in Handlers : Request(h) \/ Advance(h) \/ Crash(h)
    \/ \E t \in Targets : Expire(t)
    \/ \E x \in RentalIds : EndRental(x)

Spec == Init /\ [][Next]_vars

-----------------------------------------------------------------------------
(* Every row, cache entry, frame and history variable has its shape. *)
TypeOK ==
    /\ codes \in [Targets -> Entry \cup {Null}]
    /\ contracts \in [ContractIds -> Contract \cup {Null, Gone}]
    /\ signatures \subseteq Signature
    /\ ended \subseteq RentalIds
    /\ call \in [Handlers -> Frame]
    /\ started \in 0..MaxCalls
    /\ sent \in [Targets -> SUBSET Codes]
    /\ guesses \in [Targets -> Nat]
    /\ raced \subseteq Targets
    /\ purged \subseteq ContractIds
    /\ clean \subseteq Handlers

(* A signature was made by a party of its contract who entered a code sent *)
(* to them, for that contract; however requests for codes, guesses, their  *)
(* counting, expiry and deletions interleave.                              *)
SignaturesAreAuthenticated ==
    \A s \in signatures :
        /\ Live(contracts[s.contract])
        /\ Involved(s.contract, s.signer)
        /\ s.with \in sent[<<s.contract, s.signer>>]
        /\ s.role = RoleOf(s.contract, s.signer)

(* No more guesses are compared with a code than AuthCacheService allows,  *)
(* whoever makes them and through all interleavings in which no attempt is *)
(* counted over another one.                                               *)
GuessesAreLimited == \A t \in Targets \ raced : guesses[t] <= MaxAttempts

(* A contract that says it is fully signed has both signatures, through    *)
(* concurrent signatures and crashes, unless a deletion has taken some.    *)
SignedIsSigned ==
    \A c \in ContractIds \ purged :
        Live(contracts[c]) /\ contracts[c].status = "fully_signed"
        => BothSigned(c) /\ contracts[c].signedAt

(* Signing without interference ends in the status that the signatures     *)
(* then call for: the second signature completes the contract.             *)
UndisturbedSignatureCounts ==
    [][\A h \in clean :
          At(h, "sign:write") /\ call'[h] # call[h] /\ contracts' # contracts
          => LET c == call[h].id IN
             contracts'[c].status = (IF BothSigned(c) THEN "fully_signed"
                                                      ELSE "partially_signed")]_vars

(* A contract that disappears without interference was a draft that nobody *)
(* had signed: "only allowed when status is draft".                        *)
UndisturbedDeletionIsOfDraft ==
    [][\A h \in clean :
          At(h, "delete:row") /\ call'[h] # call[h] /\ contracts' # contracts
          => LET c == call[h].id IN
             contracts[c].status = "draft" /\ RolesSigned(c) = {}]_vars

(* As long as no contract has been deleted, the code counted for a new one *)
(* is free unless another was inserted meanwhile, and so is its rental.    *)
UndisturbedContractIsCreated ==
    [][\A h \in clean :
          /\ At(h, "create:insert") /\ call'[h] # call[h]
          /\ \A c \in ContractIds : contracts[c] # Gone
          => ~Clashes(call[h].rental, call[h].code)]_vars
=============================================================================
