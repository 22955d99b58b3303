---------------------------- MODULE ContractStore ----------------------------
(***************************************************************************)
(* The tables contracts live in, the one-time codes that AuthCacheService  *)
(* keeps in Redis, and the handlers of ContractsNewService.                *)
(*                                                                         *)
(* As in RentalStore, every awaited call is one atomic step and a handler  *)
(* is a frame.  A contract's terms and dates, its PDF and the audit log,   *)
(* whose failures are swallowed, are left out.                             *)
(***************************************************************************)
EXTENDS Integers, FiniteSets

CONSTANTS
    Targets,                    \* contract and signer: who has to prove something
    Codes,                      \* six-digit codes, drawn at random
    MaxAttempts,                \* guesses allowed for a code
    Null,
    Handlers,                   \* requests the server has in progress
    People,
    Parties,                    \* landlord and tenant of contracts to be made
    ContractIds, RentalIds,     \* rows the tables can come to hold
    RentalParties,              \* owner and tenant of each rental
    Gone,                       \* a deleted row
    Ops,                        \* the endpoints clients call, and "crash"
    MaxCalls                    \* bound: requests sent

Landlord == "landlord"
Tenant == "tenant"

(* code is the number in the contract code; year is that of every code. *)
Contract == [parties: People \X People, rental: RentalIds \cup {Null}, code: Nat,
             status: {"draft", "partially_signed", "fully_signed"}, signedAt: BOOLEAN]

(* A row of contract_signatures, and the code it was made with (a history  *)
(* field: the column holds asterisks).                                     *)
Signature == [contract: ContractIds, signer: People, role: {Landlord, Tenant},
              with: Codes]

(* A code in Redis, and the guesses counted against it. *)
Entry == [code: Codes, attempts: Nat]

ASSUME AuthCacheAssumption == MaxAttempts \in Nat /\ Null \notin Entry

ASSUME ContractStoreAssumption ==
    /\ Targets = ContractIds \X People
    /\ Parties \subseteq People \X People
    /\ RentalParties \in [RentalIds -> People \X People]
    /\ MaxCalls \in Nat
    /\ Null \notin ContractIds \cup RentalIds \cup People \cup Codes \cup Contract
    /\ Gone \notin Contract \cup {Null}

VARIABLES
    contracts, signatures,
    codes,       \* the entry in Redis of each target
    ended,       \* rentals that are no longer active
    call,        \* the frame of each handler
    started,     \* requests sent so far
    sent,        \* history: codes sent to each target
    guesses,     \* history: guesses compared with the latest code of a target
    raced,       \* history: targets with an entry put back over a newer one
    purged,      \* history: contracts a deletion has taken signatures from
    clean        \* history: handlers in progress whose reads no other handler's
                 \* write of contracts or signatures has outdated

vars == <<codes, contracts, signatures, ended, call, started, sent, guesses, raced,
          purged, clean>>

cache == <<codes, sent, guesses, raced>>

Labels == {"idle", "from:rental", "create:rental", "create:count", "create:insert",
           "sign:getCode", "sign:putBack", "sign:dropCode", "sign:insert", "sign:read",
           "sign:write", "delete:signatures", "delete:row", "otp:set"}

Frame == [at: Labels, who: People \cup {Null}, id: ContractIds \cup {Null},
          parties: (People \X People) \cup {Null}, rental: RentalIds \cup {Null},
          input: Codes \cup {Null}, entry: Entry \cup {Null},
          status: {"draft", "partially_signed", "fully_signed", Null}, code: Nat]

Idle == [at |-> "idle", who |-> Null, id |-> Null, parties |-> Null, rental |-> Null,
         input |-> Null, entry |-> Null, status |-> Null, code |-> 0]

-----------------------------------------------------------------------------
(* One-time codes: each operator is one call of AuthCacheService.          *)

SetVerificationCode(t, c) ==
    codes' = [codes EXCEPT ![t] = [code |-> c, attempts |-> 0]]

(* Mutant: attempts are not counted. *)
Counted_Never(e) == e

(* An entry after getVerificationCode has counted an attempt. *)
Counted(e) == [e EXCEPT !.attempts = @ + 1]

(* getVerificationCode puts back the entry e that it read, with a new time *)
(* to live, whatever has become of it since.                               *)
PutBack(t, e) == codes' = [codes EXCEPT ![t] = Counted(e)]

(* What verifyCode makes of an entry it has counted, and of the input: the *)
(* entry is deleted unless the guess was merely wrong.                     *)
Verdict(e, input) ==
    IF e.attempts > MaxAttempts THEN "exceeded"
    ELSE IF e.code = input THEN "valid" ELSE "wrong"

(* deleteVerificationCode; and the end of the time to live. *)
DeleteVerificationCode(t) == codes' = [codes EXCEPT ![t] = Null]

-----------------------------------------------------------------------------
(* Queries. *)

Live(row) == row \notin {Null, Gone}

ContractsOf(x) == {c \in ContractIds : Live(contracts[c]) /\ contracts[c].rental = x}

Involved(c, u) == u \in {contracts[c].parties[1], contracts[c].parties[2]}

(* The party u signs as: somebody on both sides signs as landlord. *)
RoleOf(c, u) == IF contracts[c].parties[1] = u THEN Landlord ELSE Tenant

RolesSigned(c) == {s.role : s \in {s \in signatures : s.contract = c}}

BothSigned(c) == RolesSigned(c) = {Landlord, Tenant}

-----------------------------------------------------------------------------
(* Moving a handler along: see RentalStore. *)

At(h, label) == call[h].at = label

Goes(h, label) == [call[h] EXCEPT !.at = label]

Begin(h, op, frame) ==
    /\ op \in Ops
    /\ At(h, "idle")
    /\ started < MaxCalls
    /\ started' = started + 1
    /\ call' = [call EXCEPT ![h] = frame]
    /\ clean' = clean \cup {h}

Goto(h, frame) ==
    /\ call' = [call EXCEPT ![h] = frame]
    /\ UNCHANGED <<started, clean>>

GotoWritten(h, frame) ==
    /\ call' = [call EXCEPT ![h] = frame]
    /\ clean' = clean \cap {h}
    /\ UNCHANGED started

Return(h) ==
    /\ call' = [call EXCEPT ![h] = Idle]
    /\ clean' = clean \ {h}
    /\ UNCHANGED started

ReturnWritten(h) ==
    /\ call' = [call EXCEPT ![h] = Idle]
    /\ clean' = {}
    /\ UNCHANGED started

tables == <<contracts, signatures, ended, purged>>

NoWrites == UNCHANGED tables /\ UNCHANGED cache
=============================================================================
