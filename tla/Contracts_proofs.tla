-------------------------- MODULE Contracts_proofs --------------------------
(***************************************************************************)
(* Proofs about Contracts for any people, contracts, rentals, codes and    *)
(* handlers, and any number of attempts and requests.                      *)
(***************************************************************************)
EXTENDS Contracts, FiniteSetTheorems, TLAPS

Signing == {"sign:getCode", "sign:putBack", "sign:dropCode", "sign:insert",
            "sign:read", "sign:write"}

Statuses == {"draft", "partially_signed", "fully_signed"}

Creating == {"from:rental", "create:rental", "create:count", "create:insert"}

NoneGone == \A c \in ContractIds : contracts[c] # Gone

-----------------------------------------------------------------------------
(* The invariant.                                                          *)

(* A code in the cache is one its target was sent. *)
CodesAreSent == \A t \in Targets : codes[t] # Null => codes[t].code \in sent[t]

(* As long as no attempt was counted over another one, the entry has       *)
(* counted every guess compared with it.                                   *)
GuessesAreCounted ==
    \A t \in Targets \ raced :
        /\ guesses[t] <= MaxAttempts
        /\ codes[t] # Null => guesses[t] <= codes[t].attempts

(* Until a contract is deleted, none has a higher number than there are    *)
(* contracts.                                                              *)
NumbersAreCounted ==
    /\ IsFiniteSet(LiveContracts)
    /\ NoneGone => \A c \in LiveContracts :
                      contracts[c].code <= Cardinality(LiveContracts)

DataOK ==
    /\ SignaturesAreAuthenticated
    /\ CodesAreSent
    /\ GuessesAreCounted
    /\ SignedIsSigned
    /\ NumbersAreCounted

(* Somebody who signs is a party of a contract; once the code has been     *)
(* compared it is one that was sent; and a status of fully signed, once    *)
(* read or worked out, stays true unless signatures are deleted.           *)
SigningOK(h) ==
    LET f == call[h] IN
    f.at \in Signing =>
        /\ f.id \in ContractIds /\ f.who \in People /\ f.input \in Codes
        /\ f.status \in Statuses
        /\ contracts[f.id] # Null
        /\ Live(contracts[f.id]) => Involved(f.id, f.who)
        /\ f.at \in {"sign:putBack", "sign:dropCode"} =>
              f.entry \in Entry /\ f.entry.code \in sent[<<f.id, f.who>>]
        /\ f.at = "sign:insert" => f.input \in sent[<<f.id, f.who>>]
        /\ f.status = "fully_signed" /\ Live(contracts[f.id]) /\ f.id \notin purged
              => BothSigned(f.id)

CreatingOK(h) ==
    LET f == call[h] IN
    /\ f.at \in Creating => f.parties \in People \X People
    /\ f.at \in {"create:rental", "from:rental"} => f.rental \in RentalIds
    /\ f.at = "create:insert" /\ NoneGone => f.code <= Cardinality(LiveContracts) + 1

OthersOK(h) ==
    LET f == call[h] IN
    /\ f.at = "otp:set" => f.id \in ContractIds /\ f.who \in People
    /\ f.at \in {"delete:signatures", "delete:row"} =>
          f.id \in ContractIds /\ contracts[f.id] # Null

FrameOK(h) == SigningOK(h) /\ CreatingOK(h) /\ OthersOK(h)

(* What a handler has read is still so if no other one wrote since. *)
ReadsHold(h) ==
    LET f == call[h] IN
    /\ f.at = "sign:read" => RolesSigned(f.id) # {}
    /\ f.at = "sign:write" =>
          f.status = (IF BothSigned(f.id) THEN "fully_signed" ELSE "partially_signed")
    /\ f.at \in {"delete:signatures", "delete:row"} => Deletable(f.id)
    /\ f.at = "delete:row" => RolesSigned(f.id) = {}
    /\ f.at \in {"create:count", "create:insert"} /\ f.rental # Null =>
          ContractsOf(f.rental) = {}
    /\ f.at = "create:insert" /\ NoneGone =>
          \A c \in LiveContracts : contracts[c].code < f.code

IInv ==
    /\ TypeOK
    /\ DataOK
    /\ \A h \in Handlers : FrameOK(h)
    /\ \A h \in clean : ReadsHold(h)

-----------------------------------------------------------------------------
(* What handlers in progress rely on survives the steps of the others.     *)

(* No contract comes back or changes hands, no code is unsent, and both    *)
(* signatures stay unless signatures of the contract are deleted.          *)
RowsKept ==
    /\ \A c \in ContractIds : contracts[c] # Null =>
          /\ contracts'[c] # Null
          /\ Live(contracts'[c]) => /\ Live(contracts[c])
                                    /\ contracts'[c].parties = contracts[c].parties
    /\ \A c \in ContractIds :
          Live(contracts'[c]) /\ c \notin purged' /\ BothSigned(c) => BothSigned(c)'
    /\ \A t \in Targets : sent[t] \subseteq sent'[t]
    /\ purged \subseteq purged'
    /\ NoneGone' => NoneGone /\ Cardinality(LiveContracts) <= Cardinality(LiveContracts')

LEMMA SigningKept ==
    ASSUME NEW g \in Handlers, call'[g] = call[g], RowsKept, SigningOK(g)
    PROVE  SigningOK(g)'
<1> SUFFICES ASSUME call[g].at \in Signing
             PROVE  SigningOK(g)'
  BY DEF SigningOK
<1> DEFINE c == call[g].id
           t == <<call[g].id, call[g].who>>
<1>1. c \in ContractIds /\ t \in Targets
  BY ContractStoreAssumption DEF SigningOK
<1>2. sent[t] \subseteq sent'[t]
  BY <1>1 DEF RowsKept
<1>3. /\ contracts[c] # Null /\ contracts'[c] # Null
      /\ Live(contracts'[c]) => /\ Live(contracts[c])
                                /\ contracts'[c].parties = contracts[c].parties
  BY <1>1 DEF RowsKept, SigningOK
<1>4. Live(contracts'[c]) /\ c \notin purged' /\ BothSigned(c) => BothSigned(c)'
  BY <1>1 DEF RowsKept
<1>5. c \notin purged' => c \notin purged
  BY DEF RowsKept
<1>6. Live(contracts'[c]) => Involved(c, call[g].who)'
  BY <1>3 DEF SigningOK, Involved
<1> QED
  BY <1>1, <1>2, <1>3, <1>4, <1>5, <1>6 DEF SigningOK

LEMMA FrameKept ==
    ASSUME NEW g \in Handlers, call'[g] = call[g], call[g] \in Frame, RowsKept,
           FrameOK(g), IsFiniteSet(LiveContracts), IsFiniteSet(LiveContracts')
    PROVE  FrameOK(g)'
<1>1. SigningOK(g)'
  BY SigningKept DEF FrameOK
<1>2. Cardinality(LiveContracts) \in Nat /\ Cardinality(LiveContracts') \in Nat
  BY FS_CardinalityType
<1>3. CreatingOK(g)'
  BY <1>2 DEF FrameOK, CreatingOK, RowsKept, Frame
<1>4. OthersOK(g)'
  BY DEF FrameOK, OthersOK, RowsKept
<1> QED
  BY <1>1, <1>3, <1>4 DEF FrameOK

LEMMA ReadsKept ==
    ASSUME NEW g \in Handlers, call'[g] = call[g], ReadsHold(g),
           UNCHANGED <<contracts, signatures>>
    PROVE  ReadsHold(g)'
<1>1. /\ \A c : RolesSigned(c)' = RolesSigned(c)
      /\ \A c : Deletable(c)' <=> Deletable(c)
      /\ \A c : BothSigned(c)' <=> BothSigned(c)
      /\ \A x : ContractsOf(x)' = ContractsOf(x)
  BY DEF RolesSigned, Deletable, BothSigned, ContractsOf
<1>2. LiveContracts' = LiveContracts /\ (NoneGone' <=> NoneGone)
  BY DEF LiveContracts, NoneGone
<1> QED
  BY <1>1, <1>2 DEF ReadsHold

LEMMA HandlerStep ==
    ASSUME IInv, NEW h \in Handlers,
           \A g \in Handlers \ {h} : call'[g] = call[g],
           RowsKept, TypeOK', DataOK',
           \/ UNCHANGED <<contracts, signatures>> /\ clean' \subseteq clean \cup {h}
           \/ clean' \subseteq {h},
           FrameOK(h)', h \in clean' => ReadsHold(h)'
    PROVE  IInv'
<1>1. ASSUME NEW g \in Handlers PROVE FrameOK(g)'
  BY FrameKept DEF IInv, TypeOK, DataOK, NumbersAreCounted
<1>2. ASSUME NEW g \in clean' PROVE ReadsHold(g)'
  BY ReadsKept DEF IInv, TypeOK
<1> QED
  BY <1>1, <1>2 DEF IInv

-----------------------------------------------------------------------------
(* How each of the moves of ContractStore changes the control variables.   *)

ControlOK == call' \in [Handlers -> Frame] /\ started' \in 0..MaxCalls /\ clean' \subseteq Handlers

LEMMA IdleInFrame == Idle \in Frame
  BY DEF Idle, Frame, Labels

LEMMA BeginMove ==
    ASSUME TypeOK, NEW h \in Handlers, NEW f \in Frame, NEW op, Begin(h, op, f)
    PROVE  /\ ControlOK
           /\ call'[h] = f
           /\ \A g \in Handlers \ {h} : call'[g] = call[g]
           /\ clean' = clean \cup {h}
BY ContractStoreAssumption DEF ControlOK, Begin, TypeOK

LEMMA GotoMove ==
    ASSUME TypeOK, NEW h \in Handlers, NEW f \in Frame, Goto(h, f)
    PROVE  /\ ControlOK
           /\ call'[h] = f
           /\ \A g \in Handlers \ {h} : call'[g] = call[g]
           /\ clean' = clean
BY DEF ControlOK, Goto, TypeOK

LEMMA GotoWrittenMove ==
    ASSUME TypeOK, NEW h \in Handlers, NEW f \in Frame, GotoWritten(h, f)
    PROVE  /\ ControlOK
           /\ call'[h] = f
           /\ \A g \in Handlers \ {h} : call'[g] = call[g]
           /\ clean' = clean \cap {h}
BY DEF ControlOK, GotoWritten, TypeOK

LEMMA ReturnMove ==
    ASSUME TypeOK, NEW h \in Handlers, Return(h)
    PROVE  /\ ControlOK
           /\ call'[h] = Idle
           /\ \A g \in Handlers \ {h} : call'[g] = call[g]
           /\ clean' = clean \ {h}
BY IdleInFrame DEF ControlOK, Return, TypeOK

LEMMA ReturnWrittenMove ==
    ASSUME TypeOK, NEW h \in Handlers, ReturnWritten(h)
    PROVE  /\ ControlOK
           /\ call'[h] = Idle
           /\ \A g \in Handlers \ {h} : call'[g] = call[g]
           /\ clean' = {}
BY IdleInFrame DEF ControlOK, ReturnWritten, TypeOK

LEMMA MovedFrame ==
    ASSUME NEW h, call[h] \in Frame, NEW label \in Labels
    PROVE  /\ Goes(h, label) \in Frame
           /\ Goes(h, label).at = label
           /\ Goes(h, label).who = call[h].who /\ Goes(h, label).id = call[h].id
           /\ Goes(h, label).parties = call[h].parties
           /\ Goes(h, label).rental = call[h].rental
           /\ Goes(h, label).input = call[h].input /\ Goes(h, label).entry = call[h].entry
           /\ Goes(h, label).status = call[h].status /\ Goes(h, label).code = call[h].code
BY DEF Frame, Goes

(* An idle handler relies on nothing. *)
LEMMA IdleRelies ==
    ASSUME NEW h \in Handlers, call'[h] = Idle
    PROVE  FrameOK(h)' /\ ReadsHold(h)'
BY DEF Idle, FrameOK, SigningOK, CreatingOK, OthersOK, ReadsHold, Signing, Creating

-----------------------------------------------------------------------------
(* The steps that write nothing but the frame of a handler.                *)

LEMMA ReadStep ==
    ASSUME IInv, NEW h \in Handlers, NoWrites, ControlOK,
           \A g \in Handlers \ {h} : call'[g] = call[g],
           clean' \subseteq clean \cup {h},
           FrameOK(h)', h \in clean' => ReadsHold(h)'
    PROVE  IInv'
<1> USE DEF NoWrites, tables, cache
<1>1. /\ \A c : RolesSigned(c)' = RolesSigned(c)
      /\ \A c : BothSigned(c)' <=> BothSigned(c)
      /\ LiveContracts' = LiveContracts
      /\ NoneGone' <=> NoneGone
      /\ IsFiniteSet(LiveContracts) /\ Cardinality(LiveContracts) \in Nat
  BY FS_CardinalityType
     DEF RolesSigned, BothSigned, LiveContracts, NoneGone, IInv, DataOK, NumbersAreCounted
<1>2. RowsKept
  BY <1>1 DEF RowsKept
<1>3. TypeOK'
  BY DEF IInv, TypeOK, ControlOK
<1>4. DataOK'
  BY <1>1 DEF IInv, DataOK, SignaturesAreAuthenticated, CodesAreSent, GuessesAreCounted,
              SignedIsSigned, NumbersAreCounted, Involved, RoleOf
<1> QED
  BY <1>2, <1>3, <1>4, HandlerStep

LEMMA SameRowsKept ==
    ASSUME IInv, UNCHANGED <<contracts, signatures, purged, sent>>
    PROVE  RowsKept
<1>1. /\ \A c : BothSigned(c)' <=> BothSigned(c)
      /\ LiveContracts' = LiveContracts
      /\ NoneGone' <=> NoneGone
      /\ Cardinality(LiveContracts) \in Nat
  BY FS_CardinalityType
     DEF RolesSigned, BothSigned, LiveContracts, NoneGone, IInv, DataOK, NumbersAreCounted
<1> QED
  BY <1>1 DEF RowsKept

LEMMA NoWritesKeepRows ==
    ASSUME IInv, NoWrites
    PROVE  RowsKept
BY SameRowsKept DEF NoWrites, tables, cache

LEMMA ReturnStep ==
    ASSUME IInv, NEW h \in Handlers, NoWrites, Return(h)
    PROVE  IInv'
<1>1. TypeOK
  BY DEF IInv
<1> QED
  BY <1>1, ReturnMove, IdleRelies, ReadStep

LEMMA BeginStep ==
    ASSUME IInv, NEW h \in Handlers, NEW f \in Frame, NEW op, Begin(h, op, f), NoWrites,
           call'[h] = f => FrameOK(h)' /\ ReadsHold(h)'
    PROVE  IInv'
<1>1. TypeOK
  BY DEF IInv
<1> QED
  BY <1>1, BeginMove, ReadStep

LEMMA GotoStep ==
    ASSUME IInv, NEW h \in Handlers, NEW f \in Frame, Goto(h, f), NoWrites,
           call'[h] = f => FrameOK(h)' /\ (h \in clean => ReadsHold(h)')
    PROVE  IInv'
<1>1. TypeOK
  BY DEF IInv
<1> QED
  BY <1>1, GotoMove, ReadStep

-----------------------------------------------------------------------------
(* Drawing up a contract.                                                  *)

(* The terms of the invariant under which nothing but the frame changes. *)
LEMMA TermsUnchanged ==
    ASSUME NoWrites
    PROVE  /\ \A c : RolesSigned(c)' = RolesSigned(c)
           /\ \A c : BothSigned(c)' <=> BothSigned(c)
           /\ \A c : Deletable(c)' <=> Deletable(c)
           /\ \A c, u : Involved(c, u)' <=> Involved(c, u)
           /\ \A x : ContractsOf(x)' = ContractsOf(x)
           /\ LiveContracts' = LiveContracts
           /\ NoneGone' <=> NoneGone
BY DEF NoWrites, tables, cache, RolesSigned, BothSigned, Deletable, Involved, ContractsOf,
       LiveContracts, NoneGone

(* Before the rental is read a frame relies on little. *)
LEMMA CreatingFrame ==
    ASSUME NEW h \in Handlers, call'[h].at \in {"from:rental", "create:rental"},
           call'[h].parties \in People \X People, call'[h].rental \in RentalIds
    PROVE  FrameOK(h)' /\ ReadsHold(h)'
BY DEF FrameOK, SigningOK, CreatingOK, OthersOK, ReadsHold, Signing, Creating

LEMMA CreateContract_CheckStep ==
    ASSUME IInv, NEW h \in Handlers, NEW u \in People, NEW p \in Parties,
           CreateContract_Check(h, u, p)
    PROVE  IInv'
<1> DEFINE f == [Idle EXCEPT !.at = "create:count", !.who = u, !.parties = p]
<1>1. f \in Frame
  BY ContractStoreAssumption DEF Frame, Idle, Labels
<1>2. /\ f.at = "create:count" /\ f.parties = p /\ f.rental = Null
  BY DEF Idle
<1>3. p \in People \X People
  BY ContractStoreAssumption
<1>4. ASSUME call'[h] = f
      PROVE  FrameOK(h)' /\ ReadsHold(h)'
  BY <1>2, <1>3, <1>4 DEF FrameOK, SigningOK, CreatingOK, OthersOK, ReadsHold,
                          Signing, Creating
<1> QED
  BY <1>1, <1>4, BeginStep DEF CreateContract_Check

LEMMA CreateContract_ForRentalStep ==
    ASSUME IInv, NEW h \in Handlers, NEW u \in People, NEW p \in Parties, NEW x \in RentalIds,
           CreateContract_ForRental(h, u, p, x)
    PROVE  IInv'
<1> DEFINE f == [Idle EXCEPT !.at = "create:rental", !.who = u, !.parties = p, !.rental = x]
<1>1. f \in Frame
  BY ContractStoreAssumption DEF Frame, Idle, Labels
<1>2. /\ f.at = "create:rental" /\ f.parties = p /\ f.rental = x
  BY DEF Idle
<1>3. p \in People \X People
  BY ContractStoreAssumption
<1>4. ASSUME call'[h] = f
      PROVE  FrameOK(h)' /\ ReadsHold(h)'
  BY <1>2, <1>3, <1>4, CreatingFrame
<1> QED
  BY <1>1, <1>4, BeginStep DEF CreateContract_ForRental

LEMMA EnsureContract_ReadRentalStep ==
    ASSUME IInv, NEW h \in Handlers, NEW u \in People, NEW x \in RentalIds,
           EnsureContract_ReadRental(h, u, x)
    PROVE  IInv'
<1> DEFINE f == [Idle EXCEPT !.at = "from:rental", !.who = u, !.rental = x,
                             !.parties = RentalParties[x]]
<1>3. RentalParties[x] \in People \X People
  BY ContractStoreAssumption
<1>1. f \in Frame
  BY <1>3 DEF Frame, Idle, Labels
<1>2. f.at = "from:rental" /\ f.rental = x /\ f.parties = RentalParties[x]
  BY DEF Idle
<1>4. ASSUME call'[h] = f
      PROVE  FrameOK(h)' /\ ReadsHold(h)'
  BY <1>2, <1>3, <1>4, CreatingFrame
<1> QED
  BY <1>1, <1>4, BeginStep DEF EnsureContract_ReadRental

LEMMA FromRental_BeginStep ==
    ASSUME IInv, NEW h \in Handlers, NEW u \in People, NEW x \in RentalIds,
           FromRental_Begin(h, u, x)
    PROVE  IInv'
<1> DEFINE f == [Idle EXCEPT !.at = "create:rental", !.who = u, !.rental = x,
                             !.parties = RentalParties[x]]
<1>3. RentalParties[x] \in People \X People
  BY ContractStoreAssumption
<1>1. f \in Frame
  BY <1>3 DEF Frame, Idle, Labels
<1>2. f.at = "create:rental" /\ f.rental = x /\ f.parties = RentalParties[x]
  BY DEF Idle
<1>4. ASSUME call'[h] = f
      PROVE  FrameOK(h)' /\ ReadsHold(h)'
  BY <1>2, <1>3, <1>4, CreatingFrame
<1> QED
  BY <1>1, <1>4, BeginStep DEF FromRental_Begin

LEMMA FromRental_ReadStep ==
    ASSUME IInv, NEW h \in Handlers, FromRental_Read(h)
    PROVE  IInv'
<1> DEFINE f == Goes(h, "create:rental")
<1>0. /\ call[h] \in Frame
      /\ call[h].rental \in RentalIds /\ call[h].parties \in People \X People
  BY DEF IInv, TypeOK, FrameOK, CreatingOK, Creating, FromRental_Read, At
<1>1. f \in Frame
  BY <1>0 DEF Frame, Labels, Goes
<1>2. f.at = "create:rental" /\ f.rental = call[h].rental /\ f.parties = call[h].parties
  BY <1>0 DEF Frame, Goes
<1>3. ASSUME call'[h] = f
      PROVE  FrameOK(h)' /\ ReadsHold(h)'
  BY <1>0, <1>2, <1>3, CreatingFrame
<1> QED
  BY <1>1, <1>3, GotoStep, ReturnStep DEF FromRental_Read

LEMMA CreateContract_ReadRentalStep ==
    ASSUME IInv, NEW h \in Handlers, CreateContract_ReadRental(h)
    PROVE  IInv'
<1> DEFINE f == Goes(h, "create:count")
<1>0. /\ call[h] \in Frame
      /\ call[h].rental \in RentalIds /\ call[h].parties \in People \X People
  BY DEF IInv, TypeOK, FrameOK, CreatingOK, Creating, CreateContract_ReadRental, At
<1>1. f \in Frame
  BY <1>0, MovedFrame DEF Labels
<1>2. f.at = "create:count" /\ f.rental = call[h].rental /\ f.parties = call[h].parties
  BY <1>0, MovedFrame DEF Labels
<1>3. ASSUME call'[h] = f, ContractsOf(call[h].rental) = {}, NoWrites
      PROVE  FrameOK(h)' /\ ReadsHold(h)'
  <2>1. \A x : ContractsOf(x)' = ContractsOf(x)
    BY <1>3, TermsUnchanged
  <2> QED
    BY <1>0, <1>2, <1>3, <2>1 DEF FrameOK, SigningOK, CreatingOK, OthersOK, ReadsHold,
                                  Signing, Creating
<1> QED
  BY <1>1, <1>3, GotoStep, ReturnStep DEF CreateContract_ReadRental, CanHaveContract

LEMMA CreateContract_CountCodesStep ==
    ASSUME IInv, NEW h \in Handlers, CreateContract_CountCodes(h)
    PROVE  IInv'
<1> DEFINE f == [Goes(h, "create:insert") EXCEPT !.code = NextCode]
           n == Cardinality(LiveContracts)
<1>0. /\ call[h] \in Frame /\ call[h].parties \in People \X People
      /\ h \in clean /\ call[h].rental # Null => ContractsOf(call[h].rental) = {}
      /\ NoWrites
  BY DEF IInv, TypeOK, FrameOK, CreatingOK, ReadsHold, Creating, CreateContract_CountCodes, At
<1>1. n \in Nat /\ NextCode = n + 1
  BY FS_CardinalityType DEF IInv, DataOK, NumbersAreCounted, NextCode
<1>2. Goes(h, "create:insert") \in Frame
  BY <1>0, MovedFrame DEF Labels
<1>3. f \in Frame
  BY <1>1, <1>2 DEF Frame
<1>4. /\ f.at = "create:insert" /\ f.rental = call[h].rental /\ f.parties = call[h].parties
      /\ f.code = n + 1
  BY <1>0, <1>1, <1>2, MovedFrame DEF Frame, Labels
<1>5. NoneGone => \A c \in LiveContracts : contracts[c].code \in Nat /\ contracts[c].code < n + 1
  BY <1>1 DEF IInv, DataOK, NumbersAreCounted, TypeOK, Contract, LiveContracts, Live
<1>6. ASSUME call'[h] = f
      PROVE  FrameOK(h)' /\ (h \in clean => ReadsHold(h)')
  <2>1. /\ \A x : ContractsOf(x)' = ContractsOf(x)
        /\ LiveContracts' = LiveContracts /\ (NoneGone' <=> NoneGone)
        /\ UNCHANGED contracts
    BY <1>0, TermsUnchanged DEF NoWrites, tables
  <2> HIDE DEF f, n
  <2>2. FrameOK(h)'
    BY <1>0, <1>1, <1>4, <1>6, <2>1 DEF FrameOK, SigningOK, CreatingOK, OthersOK,
                                        Signing, Creating, n
  <2>3. h \in clean => ReadsHold(h)'
    BY <1>0, <1>4, <1>5, <1>6, <2>1 DEF ReadsHold
  <2> QED
    BY <2>2, <2>3
<1> QED
  BY <1>0, <1>3, <1>6, GotoStep DEF CreateContract_CountCodes

(* A new contract disturbs nobody: no handler and no signature knows it.   *)
LEMMA CreateContract_InsertStep ==
    ASSUME IInv, NEW h \in Handlers, CreateContract_Insert(h)
    PROVE  IInv'
<1> DEFINE row == Draft(call[h].parties, call[h].rental, call[h].code)
           n == Cardinality(LiveContracts)
<1>0. /\ TypeOK /\ call[h] \in Frame /\ call[h].parties \in People \X People
      /\ NoneGone => call[h].code <= n + 1
  BY DEF IInv, TypeOK, FrameOK, CreatingOK, Creating, CreateContract_Insert, At
<1>1. CASE Return(h) /\ NoWrites
  BY <1>1, ReturnStep
<1>2. ASSUME NEW c \in ContractIds, contracts[c] = Null,
             contracts' = [contracts EXCEPT ![c] = row], ReturnWritten(h),
             UNCHANGED <<signatures, ended, purged, cache>>
      PROVE  IInv'
  <2>1. /\ row \in Contract /\ row.status = "draft" /\ row.code = call[h].code
        /\ row.code \in Nat
    BY <1>0 DEF Draft, Contract, Frame
  <2>2. Live(row)
    BY <2>1, ContractStoreAssumption DEF Live
  <2> HIDE DEF row
  <2>3. /\ contracts'[c] = row /\ \A d \in ContractIds \ {c} : contracts'[d] = contracts[d]
        /\ ~Live(contracts[c])
    BY <1>0, <1>2 DEF TypeOK, Live
  <2>4. LiveContracts' = LiveContracts \cup {c} /\ c \notin LiveContracts
    BY <2>2, <2>3 DEF LiveContracts
  <2>5. /\ IsFiniteSet(LiveContracts) /\ n \in Nat
        /\ IsFiniteSet(LiveContracts') /\ Cardinality(LiveContracts') = n + 1
    BY <2>4, FS_AddElement, FS_CardinalityType DEF IInv, DataOK, NumbersAreCounted
  <2>6. NoneGone' => NoneGone
    BY <1>2, <2>3, ContractStoreAssumption DEF NoneGone
  <2>7. /\ \A d : RolesSigned(d)' = RolesSigned(d)
        /\ \A d : BothSigned(d)' <=> BothSigned(d)
    BY <1>2 DEF RolesSigned, BothSigned
  <2>8. UNCHANGED <<codes, sent, guesses, raced, signatures, ended, purged>>
    BY <1>2 DEF cache
  <2>9. RowsKept
    BY <1>2, <2>3, <2>5, <2>6, <2>7, <2>8 DEF RowsKept
  <2>10. TypeOK'
    BY <1>0, <1>2, <2>1, <2>8, ReturnWrittenMove DEF TypeOK, ControlOK
  <2>11. SignaturesAreAuthenticated'
    <3>1. \A s \in signatures : s.contract \in ContractIds \ {c}
      BY <1>0, <2>3 DEF IInv, DataOK, SignaturesAreAuthenticated, TypeOK, Signature
    <3> QED
      BY <2>3, <2>8, <3>1 DEF IInv, DataOK, SignaturesAreAuthenticated, Involved, RoleOf
  <2>12. CodesAreSent' /\ GuessesAreCounted'
    BY <2>8 DEF IInv, DataOK, CodesAreSent, GuessesAreCounted
  <2>13. SignedIsSigned'
    BY <2>1, <2>3, <2>7, <2>8 DEF IInv, DataOK, SignedIsSigned
  <2>14. NumbersAreCounted'
    <3>1. ASSUME NoneGone, NEW d \in LiveContracts'
          PROVE  contracts'[d].code <= n + 1
      <4>1. CASE d = c
        BY <1>0, <2>1, <2>3, <3>1, <4>1
      <4>2. CASE d # c
        <5>1. contracts[d].code \in Nat /\ contracts[d].code <= n
          BY <1>0, <2>4, <3>1, <4>2
             DEF IInv, DataOK, NumbersAreCounted, TypeOK, Contract, LiveContracts, Live
        <5> QED
          BY <2>3, <2>4, <2>5, <3>1, <4>2, <5>1 DEF LiveContracts
      <4> QED
        BY <4>1, <4>2
    <3> QED
      BY <2>5, <2>6, <3>1 DEF NumbersAreCounted
  <2>15. DataOK'
    BY <2>11, <2>12, <2>13, <2>14 DEF DataOK
  <2> QED
    BY <1>0, <1>2, <2>9, <2>10, <2>15, ReturnWrittenMove, IdleRelies, HandlerStep
<1> QED
  BY <1>1, <1>2 DEF CreateContract_Insert

-----------------------------------------------------------------------------
(* Codes.                                                                  *)

(* The steps that write the cache, and no table. *)
LEMMA CacheStep ==
    ASSUME IInv, NEW h \in Handlers, UNCHANGED tables, ControlOK,
           \A g \in Handlers \ {h} : call'[g] = call[g],
           clean' \subseteq clean,
           codes' \in [Targets -> Entry \cup {Null}],
           sent' \in [Targets -> SUBSET Codes],
           guesses' \in [Targets -> Nat],
           raced' \subseteq Targets,
           \A t \in Targets : sent[t] \subseteq sent'[t],
           CodesAreSent', GuessesAreCounted',
           FrameOK(h)', h \in clean' => ReadsHold(h)'
    PROVE  IInv'
<1> USE DEF tables
<1>1. /\ \A c : RolesSigned(c)' = RolesSigned(c)
      /\ \A c : BothSigned(c)' <=> BothSigned(c)
      /\ LiveContracts' = LiveContracts
      /\ NoneGone' <=> NoneGone
      /\ IsFiniteSet(LiveContracts) /\ Cardinality(LiveContracts) \in Nat
  BY FS_CardinalityType
     DEF RolesSigned, BothSigned, LiveContracts, NoneGone, IInv, DataOK, NumbersAreCounted
<1>2. RowsKept
  BY <1>1 DEF RowsKept
<1>3. TypeOK'
  BY DEF IInv, TypeOK, ControlOK
<1>4. SignaturesAreAuthenticated'
  <2>1. ASSUME NEW s \in signatures
        PROVE  /\ s.with \in sent'[<<s.contract, s.signer>>]
               /\ Live(contracts[s.contract]) /\ Involved(s.contract, s.signer)'
               /\ s.role = RoleOf(s.contract, s.signer)'
    <3>1. <<s.contract, s.signer>> \in Targets
      BY ContractStoreAssumption DEF IInv, TypeOK, Signature
    <3> QED
      BY <3>1 DEF IInv, DataOK, SignaturesAreAuthenticated, Involved, RoleOf
  <2> QED
    BY <2>1 DEF SignaturesAreAuthenticated
<1>5. SignedIsSigned' /\ NumbersAreCounted'
  BY <1>1 DEF IInv, DataOK, SignedIsSigned, NumbersAreCounted
<1>6. DataOK'
  BY <1>4, <1>5 DEF DataOK
<1> QED
  BY <1>2, <1>3, <1>6, HandlerStep

LEMMA SendSigningOtp_ReadStep ==
    ASSUME IInv, NEW h \in Handlers, NEW c \in ContractIds, NEW u \in People,
           SendSigningOtp_Read(h, c, u)
    PROVE  IInv'
<1> DEFINE f == [Idle EXCEPT !.at = "otp:set", !.who = u, !.id = c]
<1>1. f \in Frame
  BY DEF Frame, Idle, Labels
<1>2. f.at = "otp:set" /\ f.who = u /\ f.id = c
  BY DEF Idle
<1>3. ASSUME call'[h] = f
      PROVE  FrameOK(h)' /\ ReadsHold(h)'
  BY <1>2, <1>3 DEF FrameOK, SigningOK, CreatingOK, OthersOK, ReadsHold, Signing, Creating
<1> QED
  BY <1>1, <1>3, BeginStep DEF SendSigningOtp_Read

LEMMA SendSigningOtp_SetStep ==
    ASSUME IInv, NEW h \in Handlers, SendSigningOtp_Set(h)
    PROVE  IInv'
<1> DEFINE t == <<call[h].id, call[h].who>>
<1>0. TypeOK /\ t \in Targets
  BY ContractStoreAssumption DEF IInv, FrameOK, OthersOK, SendSigningOtp_Set, At
<1>1. PICK code \in Codes : /\ codes' = [codes EXCEPT ![t] = [code |-> code, attempts |-> 0]]
                            /\ sent' = [sent EXCEPT ![t] = @ \cup {code}]
  BY DEF SendSigningOtp_Set, SetVerificationCode
<1>2. guesses' = [guesses EXCEPT ![t] = 0] /\ raced' = raced \ {t}
      /\ Return(h) /\ UNCHANGED tables
  BY DEF SendSigningOtp_Set
<1> HIDE DEF t
<1>3. [code |-> code, attempts |-> 0] \in Entry
  BY DEF Entry
<1>4. /\ codes' \in [Targets -> Entry \cup {Null}]
      /\ sent' \in [Targets -> SUBSET Codes]
      /\ guesses' \in [Targets -> Nat]
      /\ raced' \subseteq Targets
      /\ \A r \in Targets : sent[r] \subseteq sent'[r]
  BY <1>0, <1>1, <1>2, <1>3 DEF TypeOK
<1>5. CodesAreSent'
  BY <1>0, <1>1 DEF IInv, DataOK, CodesAreSent, TypeOK
<1>6. GuessesAreCounted'
  BY <1>0, <1>1, <1>2, AuthCacheAssumption DEF IInv, DataOK, GuessesAreCounted, TypeOK
<1> QED
  BY <1>0, <1>2, <1>4, <1>5, <1>6, ReturnMove, IdleRelies, CacheStep

LEMMA ExpireStep ==
    ASSUME IInv, NEW t \in Targets, Expire(t)
    PROVE  IInv'
<1>0. /\ TypeOK /\ codes' = [codes EXCEPT ![t] = Null]
      /\ UNCHANGED <<contracts, signatures, ended, purged, call, started, sent, guesses,
                     raced, clean>>
  BY DEF IInv, Expire, DeleteVerificationCode, tables
<1>1. /\ \A c : RolesSigned(c)' = RolesSigned(c)
      /\ \A c : BothSigned(c)' <=> BothSigned(c)
      /\ \A c : Deletable(c)' <=> Deletable(c)
      /\ \A c, u : Involved(c, u)' <=> Involved(c, u)
      /\ \A x : ContractsOf(x)' = ContractsOf(x)
      /\ LiveContracts' = LiveContracts
      /\ NoneGone' <=> NoneGone
  BY <1>0 DEF RolesSigned, BothSigned, Deletable, Involved, ContractsOf, LiveContracts, NoneGone
<1>2. TypeOK'
  BY <1>0 DEF TypeOK
<1>3. CodesAreSent' /\ GuessesAreCounted'
  BY <1>0 DEF IInv, DataOK, CodesAreSent, GuessesAreCounted, TypeOK
<1>4. SignaturesAreAuthenticated' /\ SignedIsSigned' /\ NumbersAreCounted'
  BY <1>0, <1>1 DEF IInv, DataOK, SignaturesAreAuthenticated, SignedIsSigned, NumbersAreCounted,
                    RoleOf
<1>5. ASSUME NEW g \in Handlers PROVE FrameOK(g)'
  BY <1>0, <1>1 DEF IInv, FrameOK, SigningOK, CreatingOK, OthersOK
<1>6. ASSUME NEW g \in clean' PROVE ReadsHold(g)'
  BY <1>0, <1>1 DEF IInv, ReadsHold
<1> QED
  BY <1>2, <1>3, <1>4, <1>5, <1>6 DEF IInv, DataOK

LEMMA EndRentalStep ==
    ASSUME IInv, NEW x \in RentalIds, EndRental(x)
    PROVE  IInv'
<1>0. /\ TypeOK /\ ended' = ended \cup {x}
      /\ UNCHANGED <<contracts, signatures, purged, call, started, clean, codes, sent,
                     guesses, raced>>
  BY DEF IInv, EndRental, cache
<1>1. /\ \A c : RolesSigned(c)' = RolesSigned(c)
      /\ \A c : BothSigned(c)' <=> BothSigned(c)
      /\ \A c : Deletable(c)' <=> Deletable(c)
      /\ \A c, u : Involved(c, u)' <=> Involved(c, u)
      /\ \A y : ContractsOf(y)' = ContractsOf(y)
      /\ LiveContracts' = LiveContracts
      /\ NoneGone' <=> NoneGone
  BY <1>0 DEF RolesSigned, BothSigned, Deletable, Involved, ContractsOf, LiveContracts, NoneGone
<1>2. TypeOK'
  BY <1>0 DEF TypeOK
<1>3. DataOK'
  BY <1>0, <1>1 DEF IInv, DataOK, CodesAreSent, GuessesAreCounted, SignaturesAreAuthenticated,
                    SignedIsSigned, NumbersAreCounted, RoleOf
<1>5. ASSUME NEW g \in Handlers PROVE FrameOK(g)'
  BY <1>0, <1>1 DEF IInv, FrameOK, SigningOK, CreatingOK, OthersOK
<1>6. ASSUME NEW g \in clean' PROVE ReadsHold(g)'
  BY <1>0, <1>1 DEF IInv, ReadsHold
<1> QED
  BY <1>2, <1>3, <1>5, <1>6 DEF IInv

-----------------------------------------------------------------------------
(* Signing.                                                                *)

(* What is known of a handler that signs. *)
LEMMA Signer ==
    ASSUME IInv, NEW h \in Handlers, call[h].at \in Signing
    PROVE  /\ TypeOK /\ call[h] \in Frame
           /\ call[h].id \in ContractIds /\ call[h].who \in People /\ call[h].input \in Codes
           /\ <<call[h].id, call[h].who>> \in Targets
           /\ call[h].status \in Statuses
           /\ SigningOK(h)
BY ContractStoreAssumption DEF IInv, TypeOK, FrameOK, SigningOK

(* A handler that goes on signing keeps what it relies on.                 *)
LEMMA SigningGoesOn ==
    ASSUME IInv, NEW h \in Handlers, call[h].at \in Signing, RowsKept,
           NEW f \in Frame, call'[h] = f, f.at \in Signing,
           f.id = call[h].id, f.who = call[h].who, f.input = call[h].input,
           f.status \in Statuses,
           f.at \in {"sign:putBack", "sign:dropCode"} =>
              f.entry \in Entry /\ f.entry.code \in sent'[<<f.id, f.who>>],
           f.at = "sign:insert" => f.input \in sent'[<<f.id, f.who>>],
           \/ f.status = call[h].status
           \/ f.status = "fully_signed" /\ Live(contracts'[f.id]) /\ f.id \notin purged'
                 => BothSigned(call[h].id)'
    PROVE  FrameOK(h)'
<1> DEFINE c == call[h].id
<1>1. c \in ContractIds /\ SigningOK(h)
  BY Signer
<1>2. /\ contracts[c] # Null /\ contracts'[c] # Null
      /\ Live(contracts'[c]) => /\ Live(contracts[c])
                                /\ contracts'[c].parties = contracts[c].parties
      /\ Live(contracts'[c]) /\ c \notin purged' /\ BothSigned(c) => BothSigned(c)'
      /\ c \notin purged' => c \notin purged
  BY <1>1 DEF RowsKept, SigningOK
<1>3. Live(contracts'[c]) => Involved(c, call[h].who)'
  BY <1>1, <1>2 DEF SigningOK, Involved
<1>4. call[h].status = "fully_signed" /\ Live(contracts'[c]) /\ c \notin purged'
         => BothSigned(c)'
  BY <1>1, <1>2 DEF SigningOK
<1>5. SigningOK(h)'
  BY <1>1, <1>2, <1>3, <1>4, Signer DEF SigningOK
<1> QED
  BY <1>5 DEF FrameOK, CreatingOK, OthersOK, Signing, Creating

LEMMA SignContract_ReadStep ==
    ASSUME IInv, NEW h \in Handlers, NEW c \in ContractIds, NEW u \in People,
           NEW input \in Codes, SignContract_Read(h, c, u, input)
    PROVE  IInv'
<1> DEFINE f == [Idle EXCEPT !.at = "sign:getCode", !.who = u, !.id = c,
                             !.input = input, !.status = contracts[c].status]
<1>0. /\ TypeOK /\ Live(contracts[c]) /\ Involved(c, u) /\ NoWrites
      /\ contracts[c].status = "fully_signed" /\ c \notin purged => BothSigned(c)
  BY DEF IInv, DataOK, SignedIsSigned, SignContract_Read
<1>1. contracts[c].status \in {"draft", "partially_signed", "fully_signed"}
  BY <1>0 DEF TypeOK, Contract, Live
<1>2. f \in Frame
  BY <1>1 DEF Frame, Idle, Labels
<1>3. /\ f.at = "sign:getCode" /\ f.who = u /\ f.id = c /\ f.input = input
      /\ f.status = contracts[c].status
  BY DEF Idle
<1>4. ASSUME call'[h] = f
      PROVE  FrameOK(h)' /\ ReadsHold(h)'
  <2>1. UNCHANGED <<contracts, purged>>
    BY <1>0 DEF NoWrites, tables
  <2>2. (BothSigned(c)' <=> BothSigned(c)) /\ (Involved(c, u)' <=> Involved(c, u))
    BY <1>0, TermsUnchanged
  <2>3. contracts[c] # Null /\ f.status \in Statuses
    BY <1>0, <1>1, <1>3 DEF Live, Statuses
  <2> QED
  BY <1>0, <1>3, <1>4, <2>1, <2>2, <2>3
     DEF FrameOK, SigningOK, CreatingOK, OthersOK, ReadsHold, Signing, Creating
<1> QED
  BY <1>2, <1>4, BeginStep DEF SignContract_Read

LEMMA SignContract_GetCodeStep ==
    ASSUME IInv, NEW h \in Handlers, SignContract_GetCode(h)
    PROVE  IInv'
<1> DEFINE t == <<call[h].id, call[h].who>>
           moved == Goes(h, "sign:putBack")
           f == [moved EXCEPT !.entry = codes[t]]
<1>0. call[h].at = "sign:getCode" /\ call[h].at \in Signing /\ NoWrites
  BY DEF SignContract_GetCode, At, Signing
<1>1. CASE codes[t] = Null
  BY <1>0, <1>1, ReturnStep DEF SignContract_GetCode, TargetOf
<1>2. CASE codes[t] # Null
  <2>1. /\ moved \in Frame /\ moved.at = "sign:putBack"
        /\ moved.id = call[h].id /\ moved.who = call[h].who /\ moved.input = call[h].input
        /\ moved.status = call[h].status
    BY <1>0, Signer, MovedFrame, ZenonT(40) DEF Labels
  <2>2. codes[t] \in Entry /\ codes[t].code \in sent[t]
    BY <1>0, <1>2, Signer DEF TypeOK, IInv, DataOK, CodesAreSent
  <2> HIDE DEF moved
  <2>3. /\ f \in Frame /\ f.at = "sign:putBack"
        /\ f.id = call[h].id /\ f.who = call[h].who /\ f.input = call[h].input
        /\ f.status = call[h].status /\ f.entry = codes[t]
    BY <2>1, <2>2 DEF Frame
  <2>4. Goto(h, f)
    BY <1>2 DEF SignContract_GetCode, TargetOf, moved
  <2>5. UNCHANGED sent
    BY <1>0 DEF NoWrites, cache
  <2> HIDE DEF f
  <2>6. ASSUME call'[h] = f PROVE FrameOK(h)' /\ ReadsHold(h)'
    <3>1. RowsKept
      BY <1>0, NoWritesKeepRows
    <3>2. FrameOK(h)'
      BY <1>0, <2>2, <2>3, <2>5, <2>6, <3>1, Signer, SigningGoesOn DEF Signing
    <3>3. ReadsHold(h)'
      BY <2>3, <2>6 DEF ReadsHold
    <3> QED
      BY <3>2, <3>3
  <2> QED
    BY <1>0, <2>3, <2>4, <2>6, GotoStep
<1> QED
  BY <1>1, <1>2

LEMMA CountedEntry ==
    ASSUME NEW e \in Entry
    PROVE  /\ Counted(e) \in Entry /\ Counted(e).code = e.code
           /\ Counted(e).attempts = e.attempts + 1 /\ e.attempts \in Nat
BY DEF Entry, Counted

(* However an attempt is counted, the guesses counted in the entry of a    *)
(* target that was not raced for stay within the limit.                    *)
LEMMA SignContract_PutBackStep ==
    ASSUME IInv, NEW h \in Handlers, SignContract_PutBack(h)
    PROVE  IInv'
<1> DEFINE t == <<call[h].id, call[h].who>>
           e == call[h].entry
           v == Verdict(Counted(e), call[h].input)
           moved == Goes(h, "sign:dropCode")
           f == [moved EXCEPT !.entry = Counted(e)]
<1>0. call[h].at = "sign:putBack" /\ call[h].at \in Signing
  BY DEF SignContract_PutBack, At, Signing
<1>1. /\ codes' = [codes EXCEPT ![t] = Counted(e)]
      /\ guesses' = [guesses EXCEPT ![t] = IF v = "exceeded" THEN @ ELSE @ + 1]
      /\ raced' = IF codes[t] = e THEN raced ELSE raced \cup {t}
      /\ UNCHANGED <<tables, sent>>
      /\ IF v = "wrong" THEN Return(h) ELSE Goto(h, f)
  BY DEF SignContract_PutBack, PutBack, TargetOf
<1>2. /\ TypeOK /\ call[h] \in Frame /\ t \in Targets
      /\ e \in Entry /\ e.code \in sent[t]
      /\ call[h].status \in Statuses
  BY <1>0, Signer DEF SigningOK
<1>3. /\ Counted(e) \in Entry /\ Counted(e).code = e.code
      /\ Counted(e).attempts = e.attempts + 1 /\ e.attempts \in Nat
  BY <1>2, CountedEntry
<1>4. v = "exceeded" <=> e.attempts + 1 > MaxAttempts
  BY <1>3, AuthCacheAssumption DEF Verdict
<1> HIDE DEF v, t, e
<1>5. /\ codes' \in [Targets -> Entry \cup {Null}]
      /\ sent' \in [Targets -> SUBSET Codes]
      /\ guesses' \in [Targets -> Nat]
      /\ raced' \subseteq Targets
      /\ \A r \in Targets : sent[r] \subseteq sent'[r]
  BY <1>1, <1>2, <1>3 DEF TypeOK
<1>6. CodesAreSent'
  BY <1>1, <1>2, <1>3 DEF IInv, DataOK, CodesAreSent, TypeOK
<1>7. GuessesAreCounted'
  <2> SUFFICES ASSUME NEW r \in Targets \ raced'
               PROVE  /\ guesses'[r] <= MaxAttempts
                      /\ codes'[r] # Null => guesses'[r] <= codes'[r].attempts
    BY DEF GuessesAreCounted
  <2>1. CASE r # t
    BY <1>1, <1>2, <2>1 DEF IInv, DataOK, GuessesAreCounted, TypeOK
  <2>2. CASE r = t
    <3>1. codes[t] = e /\ t \notin raced /\ codes[t] # Null
      BY <1>1, <1>2, <2>2, AuthCacheAssumption
    <3>2. guesses[t] \in Nat /\ guesses[t] <= MaxAttempts /\ guesses[t] <= e.attempts
      BY <1>2, <3>1 DEF IInv, DataOK, GuessesAreCounted, TypeOK
    <3>3. codes'[t] = Counted(e) /\ guesses'[t] = (IF v = "exceeded" THEN guesses[t] ELSE guesses[t] + 1)
      BY <1>1, <1>2 DEF TypeOK
    <3> QED
      BY <1>3, <1>4, <2>2, <3>2, <3>3, AuthCacheAssumption
  <2> QED
    BY <2>1, <2>2
<1>8. CASE Return(h)
  BY <1>1, <1>2, <1>5, <1>6, <1>7, <1>8, ReturnMove, IdleRelies, CacheStep
<1>9. CASE Goto(h, f)
  <2>1. /\ moved \in Frame /\ moved.at = "sign:dropCode"
        /\ moved.id = call[h].id /\ moved.who = call[h].who /\ moved.input = call[h].input
        /\ moved.status = call[h].status
    BY <1>2, MovedFrame DEF Labels
  <2> HIDE DEF moved
  <2>2. /\ f \in Frame /\ f.at = "sign:dropCode"
        /\ f.id = call[h].id /\ f.who = call[h].who /\ f.input = call[h].input
        /\ f.status = call[h].status /\ f.entry = Counted(e)
    BY <1>3, <2>1 DEF Frame
  <2> HIDE DEF f
  <2>3. /\ ControlOK /\ call'[h] = f /\ clean' = clean
        /\ \A g \in Handlers \ {h} : call'[g] = call[g]
    BY <1>2, <1>9, <2>2, GotoMove
  <2>4. RowsKept
    BY <1>1, SameRowsKept DEF tables
  <2>5. f.entry.code \in sent'[<<f.id, f.who>>]
    BY <1>1, <1>2, <1>3, <2>2 DEF t
  <2>6. FrameOK(h)'
    BY <1>0, <1>2, <1>3, <2>2, <2>3, <2>4, <2>5, SigningGoesOn DEF Signing
  <2>7. ReadsHold(h)'
    BY <2>2, <2>3 DEF ReadsHold
  <2> QED
    BY <1>1, <1>5, <1>6, <1>7, <2>3, <2>6, <2>7, CacheStep
<1> QED
  BY <1>1, <1>8, <1>9

LEMMA SignContract_DropCodeStep ==
    ASSUME IInv, NEW h \in Handlers, SignContract_DropCode(h)
    PROVE  IInv'
<1> DEFINE t == <<call[h].id, call[h].who>>
           f == Goes(h, "sign:insert")
<1>0. call[h].at = "sign:dropCode" /\ call[h].at \in Signing
  BY DEF SignContract_DropCode, At, Signing
<1>1. /\ codes' = [codes EXCEPT ![t] = Null]
      /\ UNCHANGED <<tables, sent, guesses, raced>>
      /\ IF Verdict(call[h].entry, call[h].input) = "valid" THEN Goto(h, f) ELSE Return(h)
  BY DEF SignContract_DropCode, DeleteVerificationCode, TargetOf
<1>2. /\ TypeOK /\ call[h] \in Frame /\ t \in Targets
      /\ call[h].entry.code \in sent[t]
      /\ call[h].status \in Statuses
  BY <1>0, Signer DEF SigningOK
<1>3. /\ f \in Frame /\ f.at = "sign:insert"
      /\ f.id = call[h].id /\ f.who = call[h].who /\ f.input = call[h].input
      /\ f.status = call[h].status
  BY <1>2, MovedFrame DEF Labels
<1> HIDE DEF f, t
<1>4. /\ codes' \in [Targets -> Entry \cup {Null}]
      /\ sent' \in [Targets -> SUBSET Codes]
      /\ guesses' \in [Targets -> Nat]
      /\ raced' \subseteq Targets
      /\ \A r \in Targets : sent[r] \subseteq sent'[r]
  BY <1>1, <1>2 DEF TypeOK
<1>5. CodesAreSent' /\ GuessesAreCounted'
  BY <1>1, <1>2 DEF IInv, DataOK, CodesAreSent, GuessesAreCounted, TypeOK
<1>6. CASE Return(h)
  BY <1>1, <1>2, <1>4, <1>5, <1>6, ReturnMove, IdleRelies, CacheStep
<1>7. CASE Goto(h, f) /\ Verdict(call[h].entry, call[h].input) = "valid"
  <2>1. call[h].input \in sent'[t]
    BY <1>1, <1>2, <1>7 DEF Verdict
  <2>2. /\ ControlOK /\ call'[h] = f /\ clean' = clean
        /\ \A g \in Handlers \ {h} : call'[g] = call[g]
    BY <1>2, <1>3, <1>7, GotoMove
  <2>3. RowsKept
    BY <1>1, SameRowsKept DEF tables
  <2>4. FrameOK(h)'
    BY <1>0, <1>2, <1>3, <2>1, <2>2, <2>3, SigningGoesOn DEF Signing, t
  <2>5. ReadsHold(h)'
    BY <1>3, <2>2 DEF ReadsHold
  <2> QED
    BY <1>1, <1>4, <1>5, <2>2, <2>4, <2>5, CacheStep
<1> QED
  BY <1>1, <1>6, <1>7

LEMMA RolesType ==
    ASSUME TypeOK, NEW c
    PROVE  RolesSigned(c) \subseteq {Landlord, Tenant}
BY DEF TypeOK, Signature, RolesSigned

(* A signature is made with a code that was compared, and takes nothing    *)
(* from the others.                                                        *)
LEMMA SignContract_InsertStep ==
    ASSUME IInv, NEW h \in Handlers, SignContract_Insert(h)
    PROVE  IInv'
<1> DEFINE c == call[h].id
           u == call[h].who
           new == [contract |-> c, signer |-> u, role |-> RoleOf(c, u), with |-> call[h].input]
           f == Goes(h, "sign:read")
<1>0. /\ call[h].at = "sign:insert" /\ call[h].at \in Signing
      /\ UNCHANGED <<contracts, ended, purged, codes, sent, guesses, raced>>
  BY DEF SignContract_Insert, At, Signing, cache
<1>2. CASE Return(h) /\ UNCHANGED signatures
  BY <1>0, <1>2, ReturnStep DEF NoWrites, tables, cache
<1>3. CASE Live(contracts[c]) /\ signatures' = signatures \cup {new} /\ GotoWritten(h, f)
  <2>0. /\ TypeOK /\ call[h] \in Frame /\ c \in ContractIds /\ u \in People
        /\ call[h].input \in Codes /\ call[h].input \in sent[<<c, u>>]
        /\ call[h].status \in Statuses /\ SigningOK(h)
    BY <1>0, Signer DEF SigningOK
  <2>1. /\ f \in Frame /\ f.at = "sign:read"
        /\ f.id = c /\ f.who = u /\ f.input = call[h].input /\ f.status = call[h].status
    BY <2>0, MovedFrame DEF Labels
  <2> HIDE DEF f
  <2>2. /\ ControlOK /\ call'[h] = f /\ clean' = clean \cap {h}
        /\ \A g \in Handlers \ {h} : call'[g] = call[g]
    BY <1>3, <2>0, <2>1, GotoWrittenMove
  <2>3. new \in Signature /\ new.contract = c /\ new.role \in {Landlord, Tenant}
    BY <2>0 DEF Signature, RoleOf
  <2>4. Involved(c, u)
    BY <1>0, <1>3, <2>0 DEF SigningOK
  <2>5. TypeOK'
    BY <1>0, <1>3, <2>0, <2>2, <2>3 DEF TypeOK, ControlOK
  <2>6. /\ \A d : RolesSigned(d) \subseteq RolesSigned(d)'
        /\ \A d : RolesSigned(d)' \subseteq {Landlord, Tenant}
        /\ \A d : d = c => RolesSigned(d)' # {}
    <3> HIDE DEF new
    <3>1. new \in signatures' /\ signatures \subseteq signatures'
      BY <1>3
    <3>2. \A d : RolesSigned(d)' = {s.role : s \in {s \in signatures' : s.contract = d}}
      BY DEF RolesSigned
    <3> QED
      BY <2>3, <2>5, <3>1, <3>2 DEF RolesSigned, TypeOK, Signature
  <2>7. \A d : BothSigned(d) => BothSigned(d)'
    BY <2>6 DEF BothSigned
  <2>8. /\ LiveContracts' = LiveContracts /\ (NoneGone' <=> NoneGone)
        /\ IsFiniteSet(LiveContracts) /\ Cardinality(LiveContracts) \in Nat
    BY <1>0, FS_CardinalityType
       DEF LiveContracts, NoneGone, IInv, DataOK, NumbersAreCounted
  <2>9. RowsKept
    BY <1>0, <2>7, <2>8 DEF RowsKept
  <2>10. SignaturesAreAuthenticated'
    <3>1. ASSUME NEW s \in signatures'
          PROVE  /\ Live(contracts'[s.contract])
                 /\ Involved(s.contract, s.signer)'
                 /\ s.with \in sent'[<<s.contract, s.signer>>]
                 /\ s.role = RoleOf(s.contract, s.signer)'
      <4>1. CASE s \in signatures
        BY <1>0, <4>1 DEF IInv, DataOK, SignaturesAreAuthenticated, Involved, RoleOf
      <4>2. CASE s = new
        BY <1>0, <1>3, <2>0, <2>4, <4>2 DEF Involved, RoleOf
      <4> QED
        BY <1>3, <4>1, <4>2
    <3> QED
      BY <3>1 DEF SignaturesAreAuthenticated
  <2>11. /\ CodesAreSent' /\ GuessesAreCounted' /\ NumbersAreCounted'
    BY <1>0, <2>8 DEF IInv, DataOK, CodesAreSent, GuessesAreCounted, NumbersAreCounted
  <2>12. SignedIsSigned'
    BY <1>0, <2>7 DEF IInv, DataOK, SignedIsSigned
  <2>13. DataOK'
    BY <2>10, <2>11, <2>12 DEF DataOK
  <2>14. FrameOK(h)'
    BY <1>0, <2>0, <2>1, <2>2, <2>9, SigningGoesOn DEF Signing
  <2>15. ReadsHold(h)'
    BY <2>1, <2>2, <2>6 DEF ReadsHold
  <2> QED
    BY <2>2, <2>5, <2>9, <2>13, <2>14, <2>15, HandlerStep
<1> QED
  BY <1>2, <1>3 DEF SignContract_Insert

LEMMA SignContract_ReadSignaturesStep ==
    ASSUME IInv, NEW h \in Handlers, SignContract_ReadSignatures(h)
    PROVE  IInv'
<1> DEFINE c == call[h].id
           moved == Goes(h, "sign:write")
           status == StatusAfter(call[h].status, RolesSigned(c))
           f == [moved EXCEPT !.status = status]
<1>0. call[h].at = "sign:read" /\ call[h].at \in Signing /\ NoWrites
  BY DEF SignContract_ReadSignatures, At, Signing
<1>1. /\ TypeOK /\ call[h] \in Frame /\ c \in ContractIds /\ call[h].status \in Statuses
  BY <1>0, Signer
<1>2. /\ moved \in Frame /\ moved.at = "sign:write"
      /\ moved.id = c /\ moved.who = call[h].who /\ moved.input = call[h].input
      /\ moved.status = call[h].status
  BY <1>1, MovedFrame DEF Labels
<1>3. Goto(h, f)
  BY <1>2 DEF SignContract_ReadSignatures
<1>4. /\ status \in Statuses
      /\ status = "fully_signed" => BothSigned(c) \/ status = call[h].status
      /\ RolesSigned(c) # {} =>
            status = (IF BothSigned(c) THEN "fully_signed" ELSE "partially_signed")
  BY <1>1 DEF StatusAfter, Statuses, BothSigned
<1> HIDE DEF moved, status
<1>5. /\ f \in Frame /\ f.at = "sign:write"
      /\ f.id = c /\ f.who = call[h].who /\ f.input = call[h].input /\ f.status = status
  BY <1>2, <1>4 DEF Frame, Statuses
<1> HIDE DEF f
<1>6. ASSUME call'[h] = f
      PROVE  FrameOK(h)' /\ (h \in clean => ReadsHold(h)')
  <2>1. RowsKept
    BY <1>0, NoWritesKeepRows
  <2>2. \A d : BothSigned(d)' <=> BothSigned(d)
    BY <1>0, TermsUnchanged
  <2>3. FrameOK(h)'
    BY <1>0, <1>4, <1>5, <1>6, <2>1, <2>2, SigningGoesOn DEF Signing
  <2>4. h \in clean => RolesSigned(c) # {}
    BY <1>0 DEF IInv, ReadsHold
  <2>5. h \in clean => ReadsHold(h)'
    BY <1>4, <1>5, <1>6, <2>2, <2>4 DEF ReadsHold
  <2> QED
    BY <2>3, <2>5
<1> QED
  BY <1>0, <1>3, <1>5, <1>6, GotoStep

(* What a signer writes is still what the signatures call for.             *)
LEMMA SignContract_WriteStep ==
    ASSUME IInv, NEW h \in Handlers, SignContract_Write(h)
    PROVE  IInv'
<1> DEFINE c == call[h].id
           s == call[h].status
           row == [contracts[c] EXCEPT !.status = s, !.signedAt = (s = "fully_signed")]
<1>0. /\ call[h].at = "sign:write" /\ call[h].at \in Signing
      /\ UNCHANGED <<signatures, ended, purged, codes, sent, guesses, raced>>
  BY DEF SignContract_Write, At, Signing, cache
<1>1. /\ TypeOK /\ c \in ContractIds /\ s \in Statuses /\ SigningOK(h)
  BY <1>0, Signer
<1>2. CASE Return(h) /\ UNCHANGED contracts
  BY <1>0, <1>2, ReturnStep DEF NoWrites, tables, cache
<1>3. CASE /\ Live(contracts[c]) /\ ReturnWritten(h)
           /\ contracts' = [contracts EXCEPT ![c].status = s,
                                             ![c].signedAt = (s = "fully_signed")]
  <2>0. contracts[c] \in Contract
    BY <1>1, <1>3 DEF TypeOK, Live
  <2>1. /\ row \in Contract /\ row.parties = contracts[c].parties
        /\ row.code = contracts[c].code /\ row.status = s
        /\ s = "fully_signed" => row.signedAt
    BY <1>1, <2>0 DEF Contract, Statuses
  <2>2. Live(row)
    BY <2>1, ContractStoreAssumption DEF Live
  <2>3. /\ contracts'[c] = row /\ \A d \in ContractIds \ {c} : contracts'[d] = contracts[d]
        /\ contracts' \in [ContractIds -> Contract \cup {Null, Gone}]
    BY <1>1, <1>3, <2>1 DEF TypeOK
  <2>4. Live(contracts[c]) /\ s = "fully_signed" /\ c \notin purged => BothSigned(c)
    BY <1>0, <1>1 DEF SigningOK
  <2> HIDE DEF row
  <2>5. /\ \A d : RolesSigned(d)' = RolesSigned(d)
        /\ \A d : BothSigned(d)' <=> BothSigned(d)
    BY <1>0 DEF RolesSigned, BothSigned
  <2>6. /\ LiveContracts' = LiveContracts /\ (NoneGone' <=> NoneGone)
        /\ \A d \in LiveContracts : contracts'[d].code = contracts[d].code
        /\ \A d \in ContractIds : Live(contracts'[d]) => contracts'[d].parties = contracts[d].parties
        /\ \A d \in ContractIds : Live(contracts'[d]) <=> Live(contracts[d])
    BY <1>3, <2>1, <2>2, <2>3 DEF LiveContracts, NoneGone, Live
  <2>7. IsFiniteSet(LiveContracts) /\ Cardinality(LiveContracts) \in Nat
    BY FS_CardinalityType DEF IInv, DataOK, NumbersAreCounted
  <2>8. RowsKept
    <3>1. \A d \in ContractIds : contracts[d] # Null => contracts'[d] # Null
      BY <2>2, <2>3 DEF Live
    <3> QED
      BY <1>0, <2>5, <2>6, <2>7, <3>1 DEF RowsKept
  <2>9. TypeOK'
    BY <1>0, <1>1, <1>3, <2>3, ReturnWrittenMove DEF TypeOK, ControlOK
  <2>10. SignaturesAreAuthenticated'
    <3>1. \A r \in signatures : r.contract \in ContractIds
      BY <1>1 DEF TypeOK, Signature
    <3> QED
      BY <1>0, <2>6, <3>1 DEF IInv, DataOK, SignaturesAreAuthenticated, Involved, RoleOf
  <2>11. CodesAreSent' /\ GuessesAreCounted' /\ NumbersAreCounted'
    BY <1>0, <2>6 DEF IInv, DataOK, CodesAreSent, GuessesAreCounted, NumbersAreCounted
  <2>12. SignedIsSigned'
    BY <1>0, <1>3, <2>1, <2>3, <2>4, <2>5 DEF IInv, DataOK, SignedIsSigned
  <2>13. DataOK'
    BY <2>10, <2>11, <2>12 DEF DataOK
  <2> QED
    BY <1>1, <1>3, <2>8, <2>9, <2>13, ReturnWrittenMove, IdleRelies, HandlerStep
<1> QED
  BY <1>2, <1>3 DEF SignContract_Write

-----------------------------------------------------------------------------
(* Deleting a draft.                                                       *)

LEMMA DeleteContract_ReadStep ==
    ASSUME IInv, NEW h \in Handlers, NEW c \in ContractIds, NEW u \in People,
           DeleteContract_Read(h, c, u)
    PROVE  IInv'
<1> DEFINE f == [Idle EXCEPT !.at = "delete:signatures", !.who = u, !.id = c]
<1>1. f \in Frame
  BY DEF Frame, Idle, Labels
<1>2. f.at = "delete:signatures" /\ f.who = u /\ f.id = c
  BY DEF Idle
<1>3. Deletable(c) /\ NoWrites /\ contracts[c] # Null
  BY DEF DeleteContract_Read, Deletable, Live
<1>4. UNCHANGED contracts /\ \A d : Deletable(d)' <=> Deletable(d)
  BY <1>3, TermsUnchanged DEF NoWrites, tables
<1>5. ASSUME call'[h] = f
      PROVE  FrameOK(h)' /\ ReadsHold(h)'
  BY <1>2, <1>3, <1>4, <1>5 DEF FrameOK, SigningOK, CreatingOK, OthersOK, ReadsHold,
                                Signing, Creating
<1> QED
  BY <1>1, <1>5, BeginStep DEF DeleteContract_Read

(* Signatures are only taken from a contract that is then purged.          *)
LEMMA DeleteContract_SignaturesStep ==
    ASSUME IInv, NEW h \in Handlers, DeleteContract_Signatures(h)
    PROVE  IInv'
<1> DEFINE c == call[h].id
           f == Goes(h, "delete:row")
<1>0. /\ call[h].at = "delete:signatures"
      /\ signatures' = {s \in signatures : s.contract # c}
      /\ IF signatures' = signatures THEN Goto(h, f) ELSE GotoWritten(h, f)
      /\ purged' = IF signatures' = signatures THEN purged ELSE purged \cup {c}
      /\ UNCHANGED <<contracts, ended, codes, sent, guesses, raced>>
  BY DEF DeleteContract_Signatures, At, cache
<1>1. /\ TypeOK /\ call[h] \in Frame /\ c \in ContractIds /\ contracts[c] # Null
      /\ h \in clean => Deletable(c)
  BY <1>0 DEF IInv, TypeOK, FrameOK, OthersOK, ReadsHold
<1>2. f \in Frame /\ f.at = "delete:row" /\ f.id = c
  BY <1>1, MovedFrame DEF Labels
<1> HIDE DEF f
<1>3. /\ ControlOK /\ call'[h] = f
      /\ \A g \in Handlers \ {h} : call'[g] = call[g]
      /\ clean' = clean \/ clean' = clean \cap {h}
      /\ signatures' = signatures \/ clean' = clean \cap {h}
  BY <1>0, <1>1, <1>2, GotoMove, GotoWrittenMove
<1>4. /\ \A d : d # c => RolesSigned(d)' = RolesSigned(d)
      /\ \A d : d = c => RolesSigned(d)' = {}
  <2>1. \A d : RolesSigned(d)' = {s.role : s \in {s \in signatures' : s.contract = d}}
    BY DEF RolesSigned
  <2>2. \A d : {s \in signatures' : s.contract = d}
                 = IF d = c THEN {} ELSE {s \in signatures : s.contract = d}
    BY <1>0
  <2> QED
    BY <2>1, <2>2 DEF RolesSigned
<1>5. \A d : d \notin purged' /\ BothSigned(d) => BothSigned(d)'
  <2>1. CASE signatures' = signatures
    BY <2>1 DEF RolesSigned, BothSigned
  <2>2. CASE signatures' # signatures
    BY <1>0, <1>4, <2>2 DEF BothSigned
  <2> QED
    BY <2>1, <2>2
<1>6. /\ LiveContracts' = LiveContracts /\ (NoneGone' <=> NoneGone)
      /\ IsFiniteSet(LiveContracts) /\ Cardinality(LiveContracts) \in Nat
  BY <1>0, FS_CardinalityType DEF LiveContracts, NoneGone, IInv, DataOK, NumbersAreCounted
<1>7. signatures' \subseteq signatures /\ purged \subseteq purged'
  BY <1>0
<1>8. RowsKept
  BY <1>0, <1>5, <1>6, <1>7 DEF RowsKept
<1>9. TypeOK'
  BY <1>0, <1>1, <1>3, <1>7 DEF TypeOK, ControlOK
<1>10. DataOK'
  <2>1. SignaturesAreAuthenticated'
    BY <1>0, <1>7 DEF IInv, DataOK, SignaturesAreAuthenticated, Involved, RoleOf
  <2>2. CodesAreSent' /\ GuessesAreCounted' /\ NumbersAreCounted'
    BY <1>0, <1>6 DEF IInv, DataOK, CodesAreSent, GuessesAreCounted, NumbersAreCounted
  <2>3. SignedIsSigned'
    BY <1>0, <1>5, <1>7 DEF IInv, DataOK, SignedIsSigned
  <2> QED
    BY <2>1, <2>2, <2>3 DEF DataOK
<1>11. FrameOK(h)'
  BY <1>0, <1>1, <1>2, <1>3 DEF FrameOK, SigningOK, CreatingOK, OthersOK, Signing, Creating
<1>12. h \in clean' => ReadsHold(h)'
  <2>1. \A d : Deletable(d)' <=> Deletable(d)
    BY <1>0 DEF Deletable
  <2> QED
    BY <1>1, <1>2, <1>3, <1>4, <2>1 DEF ReadsHold
<1> QED
  BY <1>0, <1>3, <1>8, <1>9, <1>10, <1>11, <1>12, HandlerStep

(* A deleted contract takes its signatures with it.                        *)
LEMMA DeleteContract_RowStep ==
    ASSUME IInv, NEW h \in Handlers, DeleteContract_Row(h)
    PROVE  IInv'
<1> DEFINE c == call[h].id
<1>0. /\ call[h].at = "delete:row"
      /\ UNCHANGED <<ended, purged, codes, sent, guesses, raced>>
  BY DEF DeleteContract_Row, At, cache
<1>1. TypeOK /\ c \in ContractIds
  BY <1>0 DEF IInv, FrameOK, OthersOK
<1>2. CASE Return(h) /\ UNCHANGED <<contracts, signatures>>
  BY <1>0, <1>2, ReturnStep DEF NoWrites, tables, cache
<1>3. CASE /\ Live(contracts[c]) /\ ReturnWritten(h)
           /\ contracts' = [contracts EXCEPT ![c] = Gone]
           /\ signatures' = {s \in signatures : s.contract # c}
  <2>1. /\ contracts'[c] = Gone /\ ~Live(contracts'[c])
        /\ \A d \in ContractIds \ {c} : contracts'[d] = contracts[d]
        /\ contracts' \in [ContractIds -> Contract \cup {Null, Gone}]
    BY <1>1, <1>3 DEF TypeOK, Live
  <2>2. \A d : d # c => RolesSigned(d)' = RolesSigned(d)
    <3>1. \A d : RolesSigned(d)' = {s.role : s \in {s \in signatures' : s.contract = d}}
      BY DEF RolesSigned
    <3>2. \A d : d # c => {s \in signatures' : s.contract = d}
                           = {s \in signatures : s.contract = d}
      BY <1>3
    <3> QED
      BY <3>1, <3>2 DEF RolesSigned
  <2>3. \A d : d # c => (BothSigned(d)' <=> BothSigned(d))
    BY <2>2 DEF BothSigned
  <2>4. ~NoneGone' /\ LiveContracts' \subseteq LiveContracts
    BY <1>1, <2>1 DEF NoneGone, LiveContracts
  <2>5. IsFiniteSet(LiveContracts')
    BY <2>4, FS_Subset DEF IInv, DataOK, NumbersAreCounted
  <2>6. Gone # Null
    BY ContractStoreAssumption
  <2>7. RowsKept
    BY <1>0, <2>1, <2>3, <2>4, <2>6 DEF RowsKept
  <2>8. TypeOK'
    BY <1>0, <1>1, <1>3, <2>1, ReturnWrittenMove DEF TypeOK, ControlOK
  <2>9. DataOK'
    <3>1. SignaturesAreAuthenticated'
      <4>1. \A s \in signatures' : s \in signatures /\ s.contract \in ContractIds \ {c}
        BY <1>1, <1>3 DEF TypeOK, Signature
      <4> QED
        BY <1>0, <2>1, <4>1 DEF IInv, DataOK, SignaturesAreAuthenticated, Involved, RoleOf
    <3>2. CodesAreSent' /\ GuessesAreCounted' /\ NumbersAreCounted'
      BY <1>0, <2>4, <2>5 DEF IInv, DataOK, CodesAreSent, GuessesAreCounted, NumbersAreCounted
    <3>3. SignedIsSigned'
      BY <1>0, <2>1, <2>3 DEF IInv, DataOK, SignedIsSigned
    <3> QED
      BY <3>1, <3>2, <3>3 DEF DataOK
  <2> QED
    BY <1>1, <1>3, <2>7, <2>8, <2>9, ReturnWrittenMove, IdleRelies, HandlerStep
<1> QED
  BY <1>2, <1>3 DEF DeleteContract_Row

-----------------------------------------------------------------------------
(* The invariant.                                                          *)

LEMMA NoSignatures ==
    ASSUME signatures = {}, NEW c
    PROVE  RolesSigned(c) = {}
BY DEF RolesSigned

LEMMA InitHasInvariant == Init => IInv
<1> SUFFICES ASSUME Init PROVE IInv
  OBVIOUS
<1>0. /\ signatures = {} /\ purged = {} /\ ended = {} /\ call = [h \in Handlers |-> Idle]
      /\ started = 0 /\ guesses = [t \in Targets |-> 0] /\ raced = {} /\ clean = {}
  BY DEF Init
<1>1. /\ contracts \in [ContractIds -> Contract \cup {Null}]
      /\ \A c \in ContractIds : contracts[c] # Null => contracts[c].status = "draft"
      /\ LiveContracts = {} \/ \E d \in ContractIds : LiveContracts = {d} /\ contracts[d].code = 1
  <2>1. CASE contracts = [c \in ContractIds |-> Null]
    BY <2>1 DEF LiveContracts, Live
  <2>2. CASE \E d \in ContractIds, p \in Parties :
                contracts = [c \in ContractIds |-> IF c = d THEN Draft(p, Null, 1) ELSE Null]
    <3>1. PICK d \in ContractIds, p \in Parties :
             contracts = [c \in ContractIds |-> IF c = d THEN Draft(p, Null, 1) ELSE Null]
      BY <2>2
    <3> DEFINE row == Draft(p, Null, 1)
    <3>2. row \in Contract /\ row.status = "draft" /\ row.code = 1
      BY ContractStoreAssumption DEF Draft, Contract
    <3>3. Live(row)
      BY <3>2, ContractStoreAssumption DEF Live
    <3> HIDE DEF row
    <3>4. contracts[d] = row /\ \A c \in ContractIds \ {d} : contracts[c] = Null
      BY <3>1 DEF row
    <3>5. LiveContracts = {d}
      BY <3>3, <3>4 DEF LiveContracts, Live
    <3>6. contracts \in [ContractIds -> Contract \cup {Null}]
      BY <3>1, <3>2 DEF row
    <3> QED
      BY <3>2, <3>4, <3>5, <3>6
  <2> QED
    BY <2>1, <2>2 DEF Init
<1>2. /\ codes \in [Targets -> Entry \cup {Null}]
      /\ sent \in [Targets -> SUBSET Codes]
      /\ CodesAreSent
      /\ \A t \in Targets : codes[t] # Null => 0 <= codes[t].attempts
  <2>1. CASE CodesGiven({}, Null)
    BY <2>1 DEF CodesGiven, CodesAreSent
  <2>2. ASSUME NEW ts, NEW k \in Codes, CodesGiven(ts, k)
        PROVE  /\ codes \in [Targets -> Entry \cup {Null}]
               /\ sent \in [Targets -> SUBSET Codes]
               /\ CodesAreSent
               /\ \A t \in Targets : codes[t] # Null => 0 <= codes[t].attempts
    <3>1. [code |-> k, attempts |-> 0] \in Entry
      BY DEF Entry
    <3> QED
      BY <2>2, <3>1 DEF CodesGiven, CodesAreSent
  <2> QED
    BY <2>1, <2>2 DEF Init
<1>3. TypeOK
  BY <1>0, <1>1, <1>2, IdleInFrame, ContractStoreAssumption DEF TypeOK
<1>4. SignaturesAreAuthenticated /\ GuessesAreCounted
  BY <1>0, <1>2, AuthCacheAssumption DEF SignaturesAreAuthenticated, GuessesAreCounted
<1>5. SignedIsSigned
  BY <1>1 DEF SignedIsSigned, Live
<1>6. NumbersAreCounted
  <2>1. CASE LiveContracts = {}
    BY <2>1, FS_EmptySet DEF NumbersAreCounted
  <2>2. ASSUME NEW d \in ContractIds, LiveContracts = {d}, contracts[d].code = 1
        PROVE  NumbersAreCounted
    <3>1. IsFiniteSet({d}) /\ Cardinality({d}) = 1
      BY FS_Singleton
    <3> QED
      BY <2>2, <3>1 DEF NumbersAreCounted
  <2> QED
    BY <1>1, <2>1, <2>2
<1>7. \A h \in Handlers : FrameOK(h)
  BY <1>0 DEF Idle, FrameOK, SigningOK, CreatingOK, OthersOK, Signing, Creating
<1> QED
  BY <1>0, <1>2, <1>3, <1>4, <1>5, <1>6, <1>7 DEF IInv, DataOK

LEMMA StutterStep ==
    ASSUME IInv, UNCHANGED vars
    PROVE  IInv'
<1> USE DEF vars
<1>1. NoWrites
  BY DEF NoWrites, tables, cache
<1>2. /\ TypeOK /\ TypeOK' /\ LiveContracts' = LiveContracts
      /\ IsFiniteSet(LiveContracts)
  BY <1>1, TermsUnchanged DEF IInv, TypeOK, DataOK, NumbersAreCounted
<1>3. RowsKept
  BY <1>1, NoWritesKeepRows
<1>4. DataOK'
  BY <1>1, TermsUnchanged DEF IInv, DataOK, SignaturesAreAuthenticated, CodesAreSent,
     GuessesAreCounted, SignedIsSigned, NumbersAreCounted, RoleOf
<1>5. ASSUME NEW h \in Handlers PROVE FrameOK(h)'
  BY <1>2, <1>3, FrameKept DEF IInv, TypeOK
<1>6. ASSUME NEW h \in clean' PROVE ReadsHold(h)'
  BY <1>2, ReadsKept DEF IInv, TypeOK
<1> QED
  BY <1>2, <1>4, <1>5, <1>6 DEF IInv

LEMMA NextKeepsInvariant == IInv /\ [Next]_vars => IInv'
<1> SUFFICES ASSUME IInv, [Next]_vars PROVE IInv'
  OBVIOUS
<1>1. ASSUME NEW h \in Handlers, Request(h) PROVE IInv'
  BY <1>1, CreateContract_CheckStep, CreateContract_ForRentalStep, EnsureContract_ReadRentalStep,
     FromRental_BeginStep, SendSigningOtp_ReadStep, SignContract_ReadStep,
     DeleteContract_ReadStep DEF Request
<1>2. ASSUME NEW h \in Handlers, Advance(h) PROVE IInv'
  BY <1>2, FromRental_ReadStep, CreateContract_ReadRentalStep, CreateContract_CountCodesStep,
     CreateContract_InsertStep, SendSigningOtp_SetStep, SignContract_GetCodeStep,
     SignContract_PutBackStep, SignContract_DropCodeStep, SignContract_InsertStep,
     SignContract_ReadSignaturesStep, SignContract_WriteStep, DeleteContract_SignaturesStep,
     DeleteContract_RowStep DEF Advance
<1>3. ASSUME NEW h \in Handlers, Crash(h) PROVE IInv'
  BY <1>3, ReturnStep DEF Crash
<1>4. ASSUME NEW t \in Targets, Expire(t) PROVE IInv'
  BY <1>4, ExpireStep
<1>5. ASSUME NEW x \in RentalIds, EndRental(x) PROVE IInv'
  BY <1>5, EndRentalStep
<1>6. CASE UNCHANGED vars
  BY <1>6, StutterStep
<1> QED
  BY <1>1, <1>2, <1>3, <1>4, <1>5, <1>6 DEF Next

(* What the handlers rely on, and what the tables, the cache and the       *)
(* counts promise, holds in every reachable state.                         *)
THEOREM Invariant == Spec => []IInv
<1>1. Init => IInv
  BY InitHasInvariant
<1>2. IInv /\ [Next]_vars => IInv'
  BY NextKeepsInvariant
<1> QED
  BY <1>1, <1>2, PTL DEF Spec

(* Every row, cache entry, frame and history variable has its shape.       *)
THEOREM TypeCorrect == Spec => []TypeOK
<1>1. IInv => TypeOK
  BY DEF IInv
<1> QED
  BY <1>1, Invariant, PTL

(* A signature in the database was made by a party of its contract, in     *)
(* their role, with a code that was sent to them for that contract,        *)
(* however the steps of sendSigningOtp, signContract and deleteContract    *)
(* interleave.                                                             *)
THEOREM Authenticated == Spec => []SignaturesAreAuthenticated
<1>1. IInv => SignaturesAreAuthenticated
  BY DEF IInv, DataOK
<1> QED
  BY <1>1, Invariant, PTL

(* A code is compared with no more guesses than verifyCode allows, as long *)
(* as no attempt was counted over another one.                             *)
THEOREM GuessesLimited == Spec => []GuessesAreLimited
<1>1. IInv => GuessesAreLimited
  BY DEF IInv, DataOK, GuessesAreCounted, GuessesAreLimited
<1> QED
  BY <1>1, Invariant, PTL

(* A contract whose status is fully signed has the signatures of both its  *)
(* parties, unless deleteContract has taken some away.                     *)
THEOREM FullySignedIsSigned == Spec => []SignedIsSigned
<1>1. IInv => SignedIsSigned
  BY DEF IInv, DataOK
<1> QED
  BY <1>1, Invariant, PTL

-----------------------------------------------------------------------------
(* What undisturbed handlers achieve.                                      *)

(* A handler that moves while a contract is written is the one writing it. *)
LEMMA WhoMoved ==
    ASSUME TypeOK, Next, NEW h \in Handlers, call'[h] # call[h], ~UNCHANGED contracts
    PROVE  CreateContract_Insert(h) \/ SignContract_Write(h) \/ DeleteContract_Row(h)
<1>1. PICK g \in Handlers : Request(g) \/ Advance(g) \/ Crash(g)
  BY DEF Next, Expire, EndRental, tables
<1>2. ~Request(g) /\ ~Crash(g)
  BY DEF Request, Crash, CreateContract_Check, CreateContract_ForRental,
     EnsureContract_ReadRental, FromRental_Begin, SendSigningOtp_Read, SignContract_Read,
     DeleteContract_Read, NoWrites, tables
<1>3. CreateContract_Insert(g) \/ SignContract_Write(g) \/ DeleteContract_Row(g)
  BY <1>1, <1>2 DEF Advance, FromRental_Read, CreateContract_ReadRental,
     CreateContract_CountCodes, SendSigningOtp_Set, SignContract_GetCode,
     SignContract_PutBack, SignContract_DropCode, SignContract_Insert,
     SignContract_ReadSignatures, DeleteContract_Signatures, NoWrites, tables
<1>4. \A k \in Handlers \ {g} : call'[k] = call[k]
  BY <1>3, ReturnMove, ReturnWrittenMove DEF CreateContract_Insert, SignContract_Write,
     DeleteContract_Row
<1> QED
  BY <1>3, <1>4

LEMMA UndisturbedSignatureStep ==
    ASSUME IInv, [Next]_vars, NEW h \in clean, At(h, "sign:write"), call'[h] # call[h],
           contracts' # contracts
    PROVE  contracts'[call[h].id].status =
              (IF BothSigned(call[h].id) THEN "fully_signed" ELSE "partially_signed")
<1>1. TypeOK /\ h \in Handlers /\ ReadsHold(h) /\ call[h].id \in ContractIds
  BY DEF IInv, TypeOK, FrameOK, SigningOK, Signing, At
<1>2. SignContract_Write(h)
  BY <1>1, WhoMoved DEF vars, At, CreateContract_Insert, DeleteContract_Row
<1>3. /\ contracts' = [contracts EXCEPT ![call[h].id].status = call[h].status,
                                        ![call[h].id].signedAt = (call[h].status = "fully_signed")]
      /\ contracts[call[h].id] \in Contract
  BY <1>1, <1>2 DEF SignContract_Write, TypeOK, Live
<1>4. contracts'[call[h].id].status = call[h].status
  BY <1>1, <1>3 DEF TypeOK, Contract
<1> QED
  BY <1>1, <1>4 DEF ReadsHold, At

(* A signature that nothing overtook leaves the contract in the status     *)
(* that its signatures call for: updateContractStatus after the second one *)
(* completes the contract.                                                 *)
THEOREM UndisturbedSignature == Spec => UndisturbedSignatureCounts
<1>1. IInv /\ [Next]_vars =>
         [\A h \in clean :
            At(h, "sign:write") /\ call'[h] # call[h] /\ contracts' # contracts
            => LET c == call[h].id IN
               contracts'[c].status = (IF BothSigned(c) THEN "fully_signed"
                                                        ELSE "partially_signed")]_vars
  BY UndisturbedSignatureStep
<1> QED
  BY <1>1, Invariant, PTL DEF Spec, UndisturbedSignatureCounts

LEMMA UndisturbedDeletionStep ==
    ASSUME IInv, [Next]_vars, NEW h \in clean, At(h, "delete:row"), call'[h] # call[h],
           contracts' # contracts
    PROVE  contracts[call[h].id].status = "draft" /\ RolesSigned(call[h].id) = {}
BY DEF IInv, TypeOK, ReadsHold, Deletable, At

(* A deletion that nothing overtook takes away a draft without signatures. *)
THEOREM UndisturbedDeletion == Spec => UndisturbedDeletionIsOfDraft
<1>1. IInv /\ [Next]_vars =>
         [\A h \in clean :
            At(h, "delete:row") /\ call'[h] # call[h] /\ contracts' # contracts
            => LET c == call[h].id IN
               contracts[c].status = "draft" /\ RolesSigned(c) = {}]_vars
  BY UndisturbedDeletionStep
<1> QED
  BY <1>1, Invariant, PTL DEF Spec, UndisturbedDeletionIsOfDraft

LEMMA UndisturbedContractStep ==
    ASSUME IInv, NEW h \in clean, At(h, "create:insert"),
           \A c \in ContractIds : contracts[c] # Gone
    PROVE  ~Clashes(call[h].rental, call[h].code)
<1>1. NoneGone /\ ReadsHold(h) /\ call[h] \in Frame
  BY DEF IInv, TypeOK, NoneGone
<1>2. /\ call[h].rental # Null => ContractsOf(call[h].rental) = {}
      /\ \A c \in LiveContracts : contracts[c].code < call[h].code
  BY <1>1 DEF ReadsHold, At
<1>3. \A c \in LiveContracts : contracts[c].code \in Nat /\ call[h].code \in Nat
  BY <1>1 DEF IInv, TypeOK, Contract, LiveContracts, Live, Frame
<1> QED
  BY <1>2, <1>3 DEF Clashes

(* As long as no contract was deleted, a createContract that nothing       *)
(* overtook has a number nobody else has, and its rental has no contract.  *)
THEOREM UndisturbedContract == Spec => UndisturbedContractIsCreated
<1>1. IInv /\ [Next]_vars =>
         [\A h \in clean :
            /\ At(h, "create:insert") /\ call'[h] # call[h]
            /\ \A c \in ContractIds : contracts[c] # Gone
            => ~Clashes(call[h].rental, call[h].code)]_vars
  BY UndisturbedContractStep
<1> QED
  BY <1>1, Invariant, PTL DEF Spec, UndisturbedContractIsCreated
=============================================================================
