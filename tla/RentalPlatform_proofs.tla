----------------------- MODULE RentalPlatform_proofs -----------------------
(***************************************************************************)
(* Proofs about RentalPlatform, and about Landlord that surrounds it with  *)
(* rooms that come and go and with ratings, for any tenants, rooms,        *)
(* handlers and rows.                                                      *)
(***************************************************************************)
EXTENDS Landlord, FiniteSetTheorems, TLAPS

tables == <<bookings, invitations, rentals, instances, agreed>>

(* No row goes, and the columns that identify its parties never change; an *)
(* invitation once confirmed stays confirmed and a consent once given      *)
(* stays recorded.                                                         *)
RequestRowsKept ==
    /\ \A b \in BookingIds : bookings[b] # Null =>
          bookings'[b] # Null /\ bookings'[b].tenant = bookings[b].tenant
    /\ \A v \in InvitationIds : invitations[v] # Null =>
          /\ invitations'[v] # Null
          /\ invitations'[v].tenant = invitations[v].tenant
          /\ invitations'[v].room = invitations[v].room
          /\ invitations[v].confirmed => invitations'[v].confirmed
    /\ agreed \subseteq agreed'

RentalRowsKept == \A x \in RentalIds : rentals[x] # Null => rentals'[x] # Null

-----------------------------------------------------------------------------
(* What handlers in progress rely on survives the steps of the others. *)

(* Rows only grow, so a frame stays entitled to what it relied on. *)
LEMMA FrameKept ==
    ASSUME NEW g \in Handlers, call'[g] = call[g], call[g] \in Frame, FrameOK(g),
           RequestRowsKept, RentalRowsKept
    PROVE  FrameOK(g)'
BY StoreAssumption DEF FrameOK, RequestRowsKept, RentalRowsKept, Frame,
   BookingConfirmLabels, InvitationConfirmLabels

LEMMA QueriesKept ==
    ASSUME UNCHANGED rentals
    PROVE  \A i : /\ ActiveOn(i)' = ActiveOn(i)
                  /\ ActiveOf(i)' = ActiveOf(i)
                  /\ LiveOn(i)' = LiveOn(i)
BY DEF ActiveOn, ActiveOf, LiveOn

(* What a handler's checks found holds until rentals or instances change. *)
LEMMA ChecksKept ==
    ASSUME NEW g \in Handlers, call'[g] = call[g], FrameOK(g), ChecksHold(g),
           RequestRowsKept, UNCHANGED <<rentals, instances>>
    PROVE  ChecksHold(g)'
<1>1. call[g].at \in {"confirmBooking:commit", "confirmInvitation:commit"}
         => TenantOf(g)' = TenantOf(g)
  BY DEF TenantOf, FrameOK, RequestRowsKept, BookingConfirmLabels,
     InvitationConfirmLabels
<1>2. call[g].at \in {"confirmBooking:commit", "confirmInvitation:commit"}
         => ActiveOf(TenantOf(g))' = {}
  BY <1>1 DEF ChecksHold, ActiveOf
<1>3. ActiveOn(call[g].inst)' = ActiveOn(call[g].inst)
  BY DEF ActiveOn
<1>4. \A i : LiveOn(i)' = LiveOn(i)
  BY QueriesKept
<1> QED
  BY <1>2, <1>3, <1>4 DEF ChecksHold

(* The invariant is kept by a step of one handler h, to frame f, if no row *)
(* is lost, h is entitled to what it relies on and every handler whose     *)
(* reads the step makes stale stops being clean.                           *)
LEMMA HandlerStep ==
    ASSUME NEW hs \in SUBSET Handlers, InvFor(hs), NEW h \in hs,
           \A g \in Handlers \ {h} : call'[g] = call[g],
           RequestRowsKept, RentalRowsKept,
           \/ UNCHANGED <<rentals, instances>> /\ clean' \subseteq clean \cup {h}
           \/ clean' \subseteq {h},
           FrameOK(h)', h \in clean' => ChecksHold(h)',
           TypeOK', ConsentRecorded', RentalsFollowConsent', OneRentalPerRequest'
    PROVE  InvFor(hs)'
<1>1. ASSUME NEW g \in hs PROVE FrameOK(g)'
  BY FrameKept DEF InvFor, TypeOK
<1>2. ASSUME NEW g \in clean' \cap hs PROVE ChecksHold(g)'
  BY ChecksKept DEF InvFor, TypeOK
<1> QED
  BY <1>1, <1>2 DEF InvFor

-----------------------------------------------------------------------------
(* How each of the moves of RentalStore changes the control variables. *)

ControlOK ==
    call' \in [Handlers -> Frame] /\ started' \in 0..MaxCalls /\ clean' \subseteq Handlers

LEMMA IdleInFrame == Idle \in Frame
  BY DEF Idle, Frame, Labels

LEMMA BeginMove ==
    ASSUME TypeOK, NEW h \in Handlers, NEW f \in Frame, NEW op, Begin(h, op, f)
    PROVE  /\ ControlOK
           /\ call'[h] = f
           /\ \A g \in Handlers \ {h} : call'[g] = call[g]
           /\ clean' = clean \cup {h}
BY StoreAssumption DEF ControlOK, Begin, TypeOK

LEMMA GotoMove ==
    ASSUME TypeOK, NEW h \in Handlers, NEW label \in Labels, Goto(h, label)
    PROVE  /\ ControlOK
           /\ call'[h] = [call[h] EXCEPT !.at = label]
           /\ \A g \in Handlers \ {h} : call'[g] = call[g]
           /\ clean' = clean
<1>1. [call[h] EXCEPT !.at = label] \in Frame
  BY DEF TypeOK, Frame
<1> QED
  BY <1>1 DEF ControlOK, Goto, TypeOK

LEMMA ReturnMove ==
    ASSUME TypeOK, NEW h \in Handlers, Return(h)
    PROVE  /\ ControlOK
           /\ call'[h] = Idle
           /\ \A g \in Handlers \ {h} : call'[g] = call[g]
           /\ clean' = clean \ {h}
BY IdleInFrame DEF ControlOK, Return, TypeOK

LEMMA GotoWrittenMove ==
    ASSUME TypeOK, NEW h \in Handlers, NEW label \in Labels, GotoWritten(h, label)
    PROVE  /\ ControlOK
           /\ call'[h] = [call[h] EXCEPT !.at = label]
           /\ \A g \in Handlers \ {h} : call'[g] = call[g]
           /\ clean' \subseteq {h}
<1>1. [call[h] EXCEPT !.at = label] \in Frame
  BY DEF TypeOK, Frame
<1> QED
  BY <1>1 DEF ControlOK, GotoWritten, TypeOK

LEMMA ReturnWrittenMove ==
    ASSUME TypeOK, NEW h \in Handlers, ReturnWritten(h)
    PROVE  /\ ControlOK
           /\ call'[h] = Idle
           /\ \A g \in Handlers \ {h} : call'[g] = call[g]
           /\ clean' = {}
BY IdleInFrame DEF ControlOK, ReturnWritten, TypeOK

(* An idle handler relies on nothing. *)
LEMMA IdleRelies ==
    ASSUME NEW h \in Handlers, call'[h] = Idle
    PROVE  FrameOK(h)' /\ ChecksHold(h)'
BY DEF Idle, FrameOK, ChecksHold, BookingConfirmLabels, InvitationConfirmLabels

-----------------------------------------------------------------------------
(* The steps that write no table. *)

LEMMA ReadStep ==
    ASSUME NEW hs \in SUBSET Handlers, InvFor(hs), NEW h \in hs,
           UNCHANGED tables, ControlOK,
           \A g \in Handlers \ {h} : call'[g] = call[g],
           clean' \subseteq clean \cup {h},
           FrameOK(h)', h \in clean' => ChecksHold(h)'
    PROVE  InvFor(hs)'
<1>1. RequestRowsKept /\ RentalRowsKept
  BY DEF tables, RequestRowsKept, RentalRowsKept
<1>2. TypeOK'
  BY DEF InvFor, TypeOK, tables, ControlOK
<1>3. ConsentRecorded' /\ RentalsFollowConsent' /\ OneRentalPerRequest'
  BY DEF InvFor, tables, ConsentRecorded, RentalsFollowConsent, OneRentalPerRequest
<1> QED
  BY <1>1, <1>2, <1>3, HandlerStep DEF tables

LEMMA ReturnStep ==
    ASSUME NEW hs \in SUBSET Handlers, InvFor(hs), NEW h \in hs,
           UNCHANGED tables, Return(h)
    PROVE  InvFor(hs)'
<1>1. TypeOK
  BY DEF InvFor
<1> QED
  BY <1>1, ReturnMove, IdleRelies, ReadStep

LEMMA BeginStep ==
    ASSUME NEW hs \in SUBSET Handlers, InvFor(hs), NEW h \in hs,
           NEW f \in Frame, NEW op, Begin(h, op, f),
           UNCHANGED tables, call'[h] = f => FrameOK(h)' /\ ChecksHold(h)'
    PROVE  InvFor(hs)'
<1>1. TypeOK
  BY DEF InvFor
<1> QED
  BY <1>1, BeginMove, ReadStep

LEMMA GotoStep ==
    ASSUME NEW hs \in SUBSET Handlers, InvFor(hs), NEW h \in hs,
           NEW label \in Labels, Goto(h, label),
           UNCHANGED tables,
           call'[h] = [call[h] EXCEPT !.at = label]
              => FrameOK(h)' /\ (h \in clean => ChecksHold(h)')
    PROVE  InvFor(hs)'
<1>1. TypeOK
  BY DEF InvFor
<1> QED
  BY <1>1, GotoMove, ReadStep

-----------------------------------------------------------------------------
(* The steps that write a row of bookings or of invitations. *)

RequestTablesOK ==
    /\ bookings' \in [BookingIds -> Request \cup {Null}]
    /\ invitations' \in [InvitationIds -> Request \cup {Null}]
    /\ agreed' \subseteq RequestIds

LEMMA RequestStep ==
    ASSUME NEW hs \in SUBSET Handlers, InvFor(hs), NEW h \in hs,
           UNCHANGED <<rentals, instances>>, ControlOK,
           \A g \in Handlers \ {h} : call'[g] = call[g],
           clean' \subseteq clean \cup {h},
           RequestTablesOK, RequestRowsKept, ConsentRecorded',
           FrameOK(h)', h \in clean' => ChecksHold(h)'
    PROVE  InvFor(hs)'
<1>1. RentalRowsKept
  BY DEF RentalRowsKept
<1>2. TypeOK'
  BY DEF InvFor, TypeOK, ControlOK, RequestTablesOK
<1>3. RentalsFollowConsent'
  <2>1. ASSUME NEW x \in RentalIds, rentals[x] # Null
        PROVE  /\ rentals[x].booking # Null => rentals[x].booking \in BookingIds
               /\ rentals[x].invitation # Null => rentals[x].invitation \in InvitationIds
    BY <2>1 DEF InvFor, TypeOK, Rental
  <2> QED
    BY <2>1 DEF InvFor, RentalsFollowConsent, RequestRowsKept
<1>4. OneRentalPerRequest'
  BY DEF InvFor, OneRentalPerRequest
<1> QED
  BY <1>1, <1>2, <1>3, <1>4, HandlerStep

(* A new booking disturbs nobody: no handler knows its id yet. *)
LEMMA InsertBookingStep ==
    ASSUME NEW hs \in SUBSET Handlers, InvFor(hs), NEW h \in hs,
           NEW b \in BookingIds, bookings[b] = Null,
           NEW q \in Request, q.status = "pending", q.confirmed = FALSE,
           bookings' = [bookings EXCEPT ![b] = q],
           Return(h), UNCHANGED <<invitations, rentals, instances, agreed>>
    PROVE  InvFor(hs)'
<1>1. TypeOK
  BY DEF InvFor
<1>2. RequestTablesOK
  BY <1>1 DEF RequestTablesOK, TypeOK
<1>3. RequestRowsKept
  BY <1>1 DEF RequestRowsKept, TypeOK
<1>4. ConsentRecorded'
  BY <1>1 DEF InvFor, ConsentRecorded, TypeOK
<1> QED
  BY <1>1, <1>2, <1>3, <1>4, ReturnMove, IdleRelies, RequestStep

LEMMA InsertInvitationStep ==
    ASSUME NEW hs \in SUBSET Handlers, InvFor(hs), NEW h \in hs,
           NEW v \in InvitationIds, invitations[v] = Null,
           NEW q \in Request, q.status = "pending", q.confirmed = FALSE,
           invitations' = [invitations EXCEPT ![v] = q],
           Return(h), UNCHANGED <<bookings, rentals, instances, agreed>>
    PROVE  InvFor(hs)'
<1>1. TypeOK
  BY DEF InvFor
<1>2. RequestTablesOK
  BY <1>1 DEF RequestTablesOK, TypeOK
<1>3. RequestRowsKept
  BY <1>1 DEF RequestRowsKept, TypeOK
<1>4. ConsentRecorded'
  BY <1>1 DEF InvFor, ConsentRecorded, TypeOK
<1> QED
  BY <1>1, <1>2, <1>3, <1>4, ReturnMove, IdleRelies, RequestStep

(* Writing the status of a booking, which records a consent if the status  *)
(* is an acceptance.                                                       *)
LEMMA BookingStatusStep ==
    ASSUME NEW hs \in SUBSET Handlers, InvFor(hs), NEW h \in hs,
           NEW b \in BookingIds, bookings[b] # Null,
           NEW s \in RequestStatus,
           bookings' = [bookings EXCEPT ![b].status = s],
           agreed' = IF s = "accepted" THEN agreed \cup {b} ELSE agreed,
           Return(h), UNCHANGED <<invitations, rentals, instances>>
    PROVE  InvFor(hs)'
<1>1. TypeOK
  BY DEF InvFor
<1>2. /\ bookings[b] \in Request
      /\ bookings'[b] = [bookings[b] EXCEPT !.status = s]
      /\ bookings'[b] \in Request
      /\ \A c \in BookingIds \ {b} : bookings'[c] = bookings[c]
  BY <1>1 DEF TypeOK, Request
<1>3. RequestTablesOK
  BY <1>1, <1>2 DEF RequestTablesOK, TypeOK, RequestIds
<1>4. RequestRowsKept
  BY <1>1, <1>2, StoreAssumption DEF RequestRowsKept, TypeOK, Request
<1>5. ConsentRecorded'
  BY <1>1, <1>2, StoreAssumption DEF InvFor, ConsentRecorded, TypeOK, Request
<1> QED
  BY <1>1, <1>3, <1>4, <1>5, ReturnMove, IdleRelies, RequestStep

LEMMA InvitationStatusStep ==
    ASSUME NEW hs \in SUBSET Handlers, InvFor(hs), NEW h \in hs,
           NEW v \in InvitationIds, invitations[v] # Null,
           NEW s \in RequestStatus,
           invitations' = [invitations EXCEPT ![v].status = s],
           agreed' = IF s = "accepted" THEN agreed \cup {v} ELSE agreed,
           Return(h), UNCHANGED <<bookings, rentals, instances>>
    PROVE  InvFor(hs)'
<1>1. TypeOK
  BY DEF InvFor
<1>2. /\ invitations[v] \in Request
      /\ invitations'[v] = [invitations[v] EXCEPT !.status = s]
      /\ invitations'[v] \in Request
      /\ \A w \in InvitationIds \ {v} : invitations'[w] = invitations[w]
  BY <1>1 DEF TypeOK, Request
<1>3. RequestTablesOK
  BY <1>1, <1>2 DEF RequestTablesOK, TypeOK, RequestIds
<1>4. RequestRowsKept
  BY <1>1, <1>2, StoreAssumption DEF RequestRowsKept, TypeOK, Request
<1>5. ConsentRecorded'
  BY <1>1, <1>2, StoreAssumption DEF InvFor, ConsentRecorded, TypeOK, Request
<1> QED
  BY <1>1, <1>3, <1>4, <1>5, ReturnMove, IdleRelies, RequestStep

-----------------------------------------------------------------------------
(* The steps that write rentals or the status of instances. *)

LEMMA RentalWriteStep ==
    ASSUME NEW hs \in SUBSET Handlers, InvFor(hs), NEW h \in hs,
           UNCHANGED NotRentals, ControlOK,
           \A g \in Handlers \ {h} : call'[g] = call[g],
           clean' \subseteq {h},
           rentals' \in [RentalIds -> Rental \cup {Null}],
           instances' \in [Instances -> RoomStatus],
           RentalRowsKept, RentalsFollowConsent', OneRentalPerRequest',
           FrameOK(h)', h \in clean' => ChecksHold(h)'
    PROVE  InvFor(hs)'
<1>1. RequestRowsKept
  BY DEF NotRentals, RequestRowsKept
<1>2. TypeOK'
  BY DEF InvFor, TypeOK, NotRentals, ControlOK
<1>3. ConsentRecorded'
  BY DEF InvFor, NotRentals, ConsentRecorded
<1> QED
  BY <1>1, <1>2, <1>3, HandlerStep

(* The request a row names is between the parties of the row, who agreed. *)
RowFollowsConsent(row) ==
    /\ row.booking # Null => /\ bookings[row.booking] # Null
                             /\ bookings[row.booking].tenant = row.tenant
                             /\ row.booking \in agreed
    /\ row.invitation # Null => /\ invitations[row.invitation] # Null
                                /\ invitations[row.invitation].tenant = row.tenant
                                /\ invitations[row.invitation].room = RoomOf[row.inst]
                                /\ invitations[row.invitation].confirmed
                                /\ row.invitation \in agreed

(* A rental may be inserted for a request whose parties agreed and which   *)
(* the unique indexes have not seen.                                       *)
LEMMA InsertedRow ==
    ASSUME NEW hs \in SUBSET Handlers, InvFor(hs),
           NEW row \in Rental, RowFollowsConsent(row), NotYetRented(row),
           InsertRental(row), UNCHANGED NotRentals
    PROVE  /\ rentals' \in [RentalIds -> Rental \cup {Null}]
           /\ RentalRowsKept
           /\ RentalsFollowConsent'
           /\ OneRentalPerRequest'
<1> PICK x \in RentalIds : rentals[x] = Null /\ rentals' = [rentals EXCEPT ![x] = row]
  BY DEF InsertRental
<1>1. rentals \in [RentalIds -> Rental \cup {Null}]
  BY DEF InvFor, TypeOK
<1>2. rentals'[x] = row /\ \A y \in RentalIds \ {x} : rentals'[y] = rentals[y]
  BY <1>1
<1>3. RentalsFollowConsent'
  BY <1>2 DEF InvFor, RentalsFollowConsent, RowFollowsConsent, NotRentals
<1>4. OneRentalPerRequest'
  BY <1>2 DEF InvFor, OneRentalPerRequest, NotYetRented
<1> QED
  BY <1>1, <1>2, <1>3, <1>4 DEF RentalRowsKept

(* Changing the status of a rental changes nothing it was agreed on. *)
LEMMA RentalStatusRow ==
    ASSUME NEW hs \in SUBSET Handlers, InvFor(hs),
           NEW x \in RentalIds, rentals[x] # Null, NEW s \in RentalStatus,
           rentals' = [rentals EXCEPT ![x].status = s], UNCHANGED NotRentals
    PROVE  /\ rentals' \in [RentalIds -> Rental \cup {Null}]
           /\ RentalRowsKept
           /\ RentalsFollowConsent'
           /\ OneRentalPerRequest'
<1>1. rentals \in [RentalIds -> Rental \cup {Null}] /\ rentals[x] \in Rental
  BY DEF InvFor, TypeOK
<1>2. /\ rentals'[x] = [rentals[x] EXCEPT !.status = s]
      /\ rentals'[x] \in Rental
      /\ \A y \in RentalIds \ {x} : rentals'[y] = rentals[y]
  BY <1>1 DEF Rental
<1>3. /\ rentals'[x] # Null
      /\ rentals'[x].booking = rentals[x].booking
      /\ rentals'[x].invitation = rentals[x].invitation
      /\ rentals'[x].tenant = rentals[x].tenant
      /\ rentals'[x].inst = rentals[x].inst
  BY <1>1, <1>2, StoreAssumption DEF Rental
<1>4. \A y \in RentalIds : (rentals'[y] # Null) <=> (rentals[y] # Null)
  BY <1>2, <1>3
<1>5. \A y \in RentalIds : rentals[y] # Null =>
         /\ rentals'[y].booking = rentals[y].booking
         /\ rentals'[y].invitation = rentals[y].invitation
         /\ rentals'[y].tenant = rentals[y].tenant
         /\ rentals'[y].inst = rentals[y].inst
  BY <1>2, <1>3
<1>6. RentalsFollowConsent'
  BY <1>4, <1>5 DEF InvFor, RentalsFollowConsent, NotRentals
<1>7. OneRentalPerRequest'
  BY <1>4, <1>5 DEF InvFor, OneRentalPerRequest
<1> QED
  BY <1>1, <1>2, <1>4, <1>6, <1>7 DEF RentalRowsKept

(* Steps that write instances and leave the rentals alone. *)
LEMMA InstanceWriteStep ==
    ASSUME NEW hs \in SUBSET Handlers, InvFor(hs), NEW h \in hs,
           ReturnWritten(h), UNCHANGED <<NotRentals, rentals>>,
           instances' \in [Instances -> RoomStatus]
    PROVE  InvFor(hs)'
<1>1. TypeOK
  BY DEF InvFor
<1>2. /\ rentals' \in [RentalIds -> Rental \cup {Null}]
      /\ RentalRowsKept
      /\ UNCHANGED NotRentals
  BY <1>1 DEF TypeOK, RentalRowsKept
<1>3. RentalsFollowConsent' /\ OneRentalPerRequest'
  BY DEF InvFor, RentalsFollowConsent, OneRentalPerRequest, NotRentals
<1> QED
  BY <1>1, <1>2, <1>3, ReturnWrittenMove, IdleRelies, RentalWriteStep

(* The transaction both confirm handlers end in. *)
LEMMA CommitStep ==
    ASSUME NEW hs \in SUBSET Handlers, InvFor(hs), NEW h \in hs,
           NEW row \in Rental, RowFollowsConsent(row),
           CommitRental(h, row), UNCHANGED NotRentals
    PROVE  InvFor(hs)'
<1>1. TypeOK
  BY DEF InvFor
<1>2. CASE /\ NotYetRented(row)
           /\ InsertRental(row)
           /\ instances' = [instances EXCEPT ![row.inst] = "occupied"]
           /\ ReturnWritten(h)
  <2>1. /\ rentals' \in [RentalIds -> Rental \cup {Null}]
        /\ RentalRowsKept
        /\ RentalsFollowConsent'
        /\ OneRentalPerRequest'
    BY <1>2, InsertedRow
  <2>2. instances' \in [Instances -> RoomStatus]
    BY <1>1, <1>2 DEF TypeOK, RoomStatus
  <2> QED
    BY <1>1, <1>2, <2>1, <2>2, ReturnWrittenMove, IdleRelies, RentalWriteStep
<1>3. CASE Return(h) /\ UNCHANGED <<rentals, instances>>
  BY <1>3, ReturnStep DEF tables, NotRentals
<1> QED
  BY <1>2, <1>3 DEF CommitRental

-----------------------------------------------------------------------------
(* BookingRequests *)

(* Marking a booking confirmed needs no check of its status: the handler   *)
(* has read an acceptance, so the consent is on record.                    *)
LEMMA MarkBookingStep ==
    ASSUME NEW hs \in SUBSET Handlers, InvFor(hs), NEW h \in hs,
           ConfirmBookingRequest_Mark(h)
    PROVE  InvFor(hs)'
<1> DEFINE b == call[h].req
<1>1. /\ TypeOK
      /\ call[h] \in Frame
      /\ b \in BookingIds
      /\ bookings[b] # Null
      /\ b \in agreed
      /\ call[h].at = "confirmBooking:mark"
  BY DEF InvFor, TypeOK, FrameOK, ConfirmBookingRequest_Mark, At, BookingConfirmLabels
<1>2. /\ bookings[b] \in Request
      /\ bookings'[b] = [bookings[b] EXCEPT !.status = "accepted", !.confirmed = TRUE]
      /\ bookings'[b] \in Request
      /\ \A c \in BookingIds \ {b} : bookings'[c] = bookings[c]
      /\ bookings' \in [BookingIds -> Request \cup {Null}]
  <2> DEFINE q == [bookings[b] EXCEPT !.status = "accepted", !.confirmed = TRUE]
  <2>1. bookings \in [BookingIds -> Request \cup {Null}] /\ bookings[b] \in Request
    BY <1>1 DEF TypeOK
  <2>2. q \in Request
    BY <2>1 DEF Request, RequestStatus
  <2>3. bookings' = [bookings EXCEPT ![b] = q]
    BY <1>1, <2>1 DEF ConfirmBookingRequest_Mark
  <2> QED
    BY <1>1, <2>1, <2>2, <2>3
<1>3. UNCHANGED <<invitations, rentals, instances, agreed>>
  BY DEF ConfirmBookingRequest_Mark, NotBookings
<1>4. RequestTablesOK
  BY <1>1, <1>2, <1>3 DEF RequestTablesOK, TypeOK
<1>5. RequestRowsKept
  BY <1>1, <1>2, <1>3, StoreAssumption DEF RequestRowsKept, Request
<1>6. ConsentRecorded'
  BY <1>1, <1>2, <1>3, StoreAssumption DEF InvFor, ConsentRecorded
<1>7. CASE Return(h)
  BY <1>1, <1>3, <1>4, <1>5, <1>6, <1>7, ReturnMove, IdleRelies, RequestStep
<1>8. CASE call[h].inst # Null /\ Goto(h, "confirmBooking:instance")
  <2>1. "confirmBooking:instance" \in Labels
    BY DEF Labels
  <2>2. /\ ControlOK
        /\ call'[h] = [call[h] EXCEPT !.at = "confirmBooking:instance"]
        /\ \A g \in Handlers \ {h} : call'[g] = call[g]
        /\ clean' = clean
    BY <1>1, <1>8, <2>1, GotoMove
  <2>3. /\ call'[h].at = "confirmBooking:instance"
        /\ call'[h].req = b
        /\ call'[h].inst = call[h].inst
    BY <1>1, <2>2 DEF Frame
  <2>4. FrameOK(h)'
    BY <1>1, <1>2, <1>3, <1>8, <2>3, StoreAssumption
       DEF FrameOK, BookingConfirmLabels, InvitationConfirmLabels
  <2>5. h \in clean => instances[call[h].inst] = "available"
    BY <1>1, <1>8 DEF InvFor, ChecksHold, BookingConfirmLabels
  <2>6. h \in clean' => ChecksHold(h)'
    BY <1>3, <2>2, <2>3, <2>5 DEF ChecksHold, BookingConfirmLabels,
       InvitationConfirmLabels
  <2> QED
    BY <1>3, <1>4, <1>5, <1>6, <2>2, <2>4, <2>6, RequestStep
<1> QED
  BY <1>7, <1>8 DEF ConfirmBookingRequest_Mark

LEMMA CreateBookingSteps ==
    ASSUME NEW hs \in SUBSET Handlers, InvFor(hs), NEW h \in hs,
           \/ \E t \in Tenants, r \in Rooms : CreateBookingRequest_ReadRoom(h, t, r)
           \/ CreateBookingRequest_FindExisting(h)
           \/ CreateBookingRequest_Insert(h)
    PROVE  InvFor(hs)'
<1> USE DEF At
<1>1. CASE \E t \in Tenants, r \in Rooms : CreateBookingRequest_ReadRoom(h, t, r)
  <2> PICK t \in Tenants, r \in Rooms : CreateBookingRequest_ReadRoom(h, t, r)
    BY <1>1
  <2> DEFINE f == [Idle EXCEPT !.at = "createBooking:findExisting",
                               !.tenant = t, !.room = r]
  <2>1. f \in Frame
    BY DEF Idle, Frame, Labels
  <2>2. Begin(h, "createBooking", f) /\ UNCHANGED tables
    BY DEF CreateBookingRequest_ReadRoom, NotBookings, tables
  <2>3. ASSUME call'[h] = f PROVE FrameOK(h)' /\ ChecksHold(h)'
    BY <2>3 DEF Idle, FrameOK, ChecksHold, BookingConfirmLabels, InvitationConfirmLabels
  <2> QED
    BY <2>1, <2>2, <2>3, BeginStep
<1>2. CASE CreateBookingRequest_FindExisting(h)
  <2>1. UNCHANGED tables
    BY <1>2 DEF CreateBookingRequest_FindExisting, NotBookings, tables
  <2>2. CASE Return(h)
    BY <2>1, <2>2, ReturnStep
  <2>3. CASE Goto(h, "createBooking:insert")
    <3>1. "createBooking:insert" \in Labels
      BY DEF Labels
    <3>2. ASSUME call'[h] = [call[h] EXCEPT !.at = "createBooking:insert"]
          PROVE  FrameOK(h)' /\ ChecksHold(h)'
      BY <1>2, <3>2 DEF InvFor, TypeOK, Frame, CreateBookingRequest_FindExisting, FrameOK,
         ChecksHold, BookingConfirmLabels, InvitationConfirmLabels
    <3> QED
      BY <2>1, <2>3, <3>1, <3>2, GotoStep
  <2> QED
    BY <1>2, <2>2, <2>3 DEF CreateBookingRequest_FindExisting
<1>3. CASE CreateBookingRequest_Insert(h)
  <2> DEFINE q == [tenant |-> call[h].tenant, room |-> call[h].room,
                   status |-> "pending", confirmed |-> FALSE]
  <2>1. q \in Request
    BY <1>3 DEF InvFor, FrameOK, CreateBookingRequest_Insert, Request, RequestStatus
  <2>2. PICK row \in Request : row = q
    BY <2>1
  <2>3. PICK b \in BookingIds : /\ bookings[b] = Null
                                /\ bookings' = [bookings EXCEPT ![b] = row]
    BY <1>3, <2>2 DEF CreateBookingRequest_Insert
  <2>4. Return(h) /\ UNCHANGED <<invitations, rentals, instances, agreed>>
    BY <1>3 DEF CreateBookingRequest_Insert, NotBookings
  <2>5. row.status = "pending" /\ row.confirmed = FALSE
    BY <2>2
  <2> QED
    BY <2>3, <2>4, <2>5, InsertBookingStep
<1> QED
  BY <1>1, <1>2, <1>3

LEMMA AnswerBookingSteps ==
    ASSUME NEW hs \in SUBSET Handlers, InvFor(hs), NEW h \in hs,
           \/ \E b \in BookingIds, s \in Answers : UpdateBookingRequest_Read(h, b, s)
           \/ UpdateBookingRequest_Write(h)
           \/ \E b \in BookingIds : CancelBookingRequest_Read(h, b)
           \/ CancelBookingRequest_Write(h)
    PROVE  InvFor(hs)'
<1> USE DEF At
<1>1. CASE \E b \in BookingIds, s \in Answers : UpdateBookingRequest_Read(h, b, s)
  <2> PICK b \in BookingIds, s \in Answers : UpdateBookingRequest_Read(h, b, s)
    BY <1>1
  <2> DEFINE f == [Idle EXCEPT !.at = "updateBooking:write", !.req = b, !.status = s]
  <2>1. s \in RequestStatus /\ f \in Frame
    BY StoreAssumption DEF Idle, Frame, Labels, RequestIds
  <2>2. /\ Begin(h, "updateBooking", f)
        /\ UNCHANGED tables
        /\ bookings[b] # Null
    BY DEF UpdateBookingRequest_Read, NotBookings, tables
  <2>3. ASSUME call'[h] = f PROVE FrameOK(h)' /\ ChecksHold(h)'
    BY <2>1, <2>2, <2>3 DEF Idle, tables, FrameOK, ChecksHold, BookingConfirmLabels,
       InvitationConfirmLabels
  <2> QED
    BY <2>1, <2>2, <2>3, BeginStep
<1>2. CASE UpdateBookingRequest_Write(h)
  <2>1. call[h].req \in BookingIds /\ bookings[call[h].req] # Null
        /\ call[h].status \in RequestStatus
    BY <1>2 DEF InvFor, FrameOK, UpdateBookingRequest_Write
  <2>2. PICK b \in BookingIds, s \in RequestStatus : b = call[h].req /\ s = call[h].status
    BY <2>1
  <2> QED
    BY <1>2, <2>1, <2>2, BookingStatusStep DEF UpdateBookingRequest_Write, NotBookings
<1>3. CASE \E b \in BookingIds : CancelBookingRequest_Read(h, b)
  <2> PICK b \in BookingIds : CancelBookingRequest_Read(h, b)
    BY <1>3
  <2> DEFINE f == [Idle EXCEPT !.at = "cancelBooking:write", !.req = b]
  <2>1. f \in Frame
    BY DEF Idle, Frame, Labels, RequestIds
  <2>2. /\ Begin(h, "cancelBooking", f)
        /\ UNCHANGED tables
        /\ bookings[b] # Null
    BY DEF CancelBookingRequest_Read, NotBookings, tables
  <2>3. ASSUME call'[h] = f PROVE FrameOK(h)' /\ ChecksHold(h)'
    BY <2>2, <2>3 DEF Idle, tables, FrameOK, ChecksHold, BookingConfirmLabels,
       InvitationConfirmLabels
  <2> QED
    BY <2>1, <2>2, <2>3, BeginStep
<1>4. CASE CancelBookingRequest_Write(h)
  <2>1. call[h].req \in BookingIds /\ bookings[call[h].req] # Null
    BY <1>4 DEF InvFor, FrameOK, CancelBookingRequest_Write
  <2>2. PICK b \in BookingIds : b = call[h].req
    BY <2>1
  <2>3. PICK s \in RequestStatus : s = "cancelled"
    BY DEF RequestStatus
  <2> QED
    BY <1>4, <2>1, <2>2, <2>3, BookingStatusStep DEF CancelBookingRequest_Write, NotBookings
<1> QED
  BY <1>1, <1>2, <1>3, <1>4

LEMMA ConfirmBookingSteps ==
    ASSUME NEW hs \in SUBSET Handlers, InvFor(hs), NEW h \in hs,
           \/ \E b \in BookingIds : ConfirmBookingRequest_Read(h, b)
           \/ ConfirmBookingRequest_CheckInstance(h)
           \/ ConfirmBookingRequest_CheckTenant(h)
    PROVE  InvFor(hs)'
<1> USE DEF At
<1>1. CASE \E b \in BookingIds : ConfirmBookingRequest_Read(h, b)
  <2> PICK b \in BookingIds : ConfirmBookingRequest_Read(h, b)
    BY <1>1
  <2> PICK i \in (IF AvailableIn(bookings[b].room) = {}
                  THEN {Null} ELSE AvailableIn(bookings[b].room)) :
             Begin(h, "confirmBooking",
                   [Idle EXCEPT !.at = "confirmBooking:mark", !.req = b, !.inst = i])
    BY DEF ConfirmBookingRequest_Read
  <2> DEFINE f == [Idle EXCEPT !.at = "confirmBooking:mark", !.req = b, !.inst = i]
  <2>1. i \in Instances \cup {Null} /\ (i # Null => instances[i] = "available")
    BY DEF AvailableIn
  <2>2. f \in Frame
    BY <2>1 DEF Idle, Frame, Labels, RequestIds
  <2>3. /\ UNCHANGED tables
        /\ bookings[b] # Null
        /\ b \in agreed
    BY DEF ConfirmBookingRequest_Read, ConfirmableBooking, NotBookings, tables, InvFor,
       ConsentRecorded
  <2>4. ASSUME call'[h] = f PROVE FrameOK(h)' /\ ChecksHold(h)'
    BY <2>1, <2>3, <2>4 DEF Idle, tables, FrameOK, ChecksHold, BookingConfirmLabels,
       InvitationConfirmLabels
  <2> QED
    BY <2>2, <2>3, <2>4, BeginStep
<1>2. CASE ConfirmBookingRequest_CheckInstance(h)
  <2>1. UNCHANGED tables
    BY <1>2 DEF ConfirmBookingRequest_CheckInstance, NotBookings, tables
  <2>2. CASE Return(h)
    BY <2>1, <2>2, ReturnStep
  <2>3. CASE ActiveOn(call[h].inst) = {} /\ Goto(h, "confirmBooking:tenant")
    <3>1. "confirmBooking:tenant" \in Labels
      BY DEF Labels
    <3>2. ASSUME call'[h] = [call[h] EXCEPT !.at = "confirmBooking:tenant"]
          PROVE  FrameOK(h)' /\ (h \in clean => ChecksHold(h)')
      <4>1. /\ call'[h].at = "confirmBooking:tenant"
            /\ call'[h].req = call[h].req
            /\ call'[h].inst = call[h].inst
        BY <3>2 DEF InvFor, TypeOK, Frame
      <4>2. FrameOK(h)'
        BY <1>2, <2>1, <4>1 DEF InvFor, ConfirmBookingRequest_CheckInstance, tables,
           FrameOK, BookingConfirmLabels, InvitationConfirmLabels
      <4>3. ActiveOn(call[h].inst)' = {}
        BY <2>1, <2>3, <4>1 DEF ActiveOn, tables
      <4>4. h \in clean => ChecksHold(h)'
        BY <1>2, <2>1, <4>1, <4>3 DEF InvFor, ConfirmBookingRequest_CheckInstance, tables,
           ChecksHold, BookingConfirmLabels, InvitationConfirmLabels
      <4> QED
        BY <4>2, <4>4
    <3> QED
      BY <2>1, <2>3, <3>1, <3>2, GotoStep
  <2> QED
    BY <1>2, <2>2, <2>3 DEF ConfirmBookingRequest_CheckInstance
<1>3. CASE ConfirmBookingRequest_CheckTenant(h)
  <2>1. UNCHANGED tables
    BY <1>3 DEF ConfirmBookingRequest_CheckTenant, NotBookings, tables
  <2>2. CASE Return(h)
    BY <2>1, <2>2, ReturnStep
  <2>3. CASE /\ ActiveOf(bookings[call[h].req].tenant) = {}
             /\ Goto(h, "confirmBooking:commit")
    <3>1. "confirmBooking:commit" \in Labels
      BY DEF Labels
    <3>2. ASSUME call'[h] = [call[h] EXCEPT !.at = "confirmBooking:commit"]
          PROVE  FrameOK(h)' /\ (h \in clean => ChecksHold(h)')
      <4>1. /\ call'[h].at = "confirmBooking:commit"
            /\ call'[h].req = call[h].req
            /\ call'[h].inst = call[h].inst
        BY <3>2 DEF InvFor, TypeOK, Frame
      <4>2. FrameOK(h)'
        BY <1>3, <2>1, <4>1 DEF InvFor, ConfirmBookingRequest_CheckTenant, tables,
           FrameOK, BookingConfirmLabels, InvitationConfirmLabels
      <4>3. ActiveOf(TenantOf(h))' = {}
        BY <2>1, <2>3, <4>1 DEF ActiveOf, TenantOf, BookingConfirmLabels, tables
      <4>4. ActiveOn(call[h].inst)' = ActiveOn(call[h].inst)
        BY <2>1, <4>1 DEF ActiveOn, tables
      <4>5. h \in clean => ChecksHold(h)'
        BY <1>3, <2>1, <4>1, <4>3, <4>4 DEF InvFor, ConfirmBookingRequest_CheckTenant,
           tables, ChecksHold, BookingConfirmLabels, InvitationConfirmLabels
      <4> QED
        BY <4>2, <4>5
    <3> QED
      BY <2>1, <2>3, <3>1, <3>2, GotoStep
  <2> QED
    BY <1>3, <2>2, <2>3 DEF ConfirmBookingRequest_CheckTenant
<1> QED
  BY <1>1, <1>2, <1>3

(* The rental a confirmed booking becomes. *)
LEMMA BookingRentalRow ==
    ASSUME NEW hs \in SUBSET Handlers, InvFor(hs), NEW h \in hs,
           ConfirmBookingRequest_Commit(h)
    PROVE  /\ UNCHANGED NotRentals
           /\ \E row \in Rental : /\ row.invitation = Null
                                  /\ RowFollowsConsent(row)
                                  /\ CommitRental(h, row)
<1> DEFINE b == call[h].req
<1> DEFINE row == [booking |-> b, invitation |-> Null, inst |-> call[h].inst,
                   tenant |-> bookings[b].tenant, status |-> "active"]
<1>1. /\ call[h] \in Frame
      /\ b \in BookingIds
      /\ bookings[b] # Null
      /\ bookings[b] \in Request
      /\ b \in agreed
      /\ call[h].inst # Null
  BY DEF InvFor, TypeOK, FrameOK, ConfirmBookingRequest_Commit, At, BookingConfirmLabels
<1>2. row \in Rental
  BY <1>1 DEF Rental, RentalStatus, Frame, Request
<1>3. RowFollowsConsent(row)
  BY <1>1 DEF RowFollowsConsent
<1>4. CommitRental(h, row) /\ UNCHANGED NotRentals
  BY DEF ConfirmBookingRequest_Commit, NotRentals
<1> QED
  BY <1>2, <1>3, <1>4

LEMMA CommitBookingStep ==
    ASSUME NEW hs \in SUBSET Handlers, InvFor(hs), NEW h \in hs,
           ConfirmBookingRequest_Commit(h)
    PROVE  InvFor(hs)'
BY BookingRentalRow, CommitStep

LEMMA BookingSteps ==
    ASSUME NEW hs \in SUBSET Handlers, InvFor(hs), NEW h \in hs, BookingStep(h)
    PROVE  InvFor(hs)'
BY CreateBookingSteps, AnswerBookingSteps, ConfirmBookingSteps, MarkBookingStep,
   CommitBookingStep DEF BookingStep

-----------------------------------------------------------------------------
(* RoomInvitations *)

(* As for a booking, the invitation read is an accepted one. *)
LEMMA MarkInvitationStep ==
    ASSUME NEW hs \in SUBSET Handlers, InvFor(hs), NEW h \in hs,
           ConfirmRoomInvitation_Mark(h)
    PROVE  InvFor(hs)'
<1> DEFINE v == call[h].req
<1>1. /\ TypeOK
      /\ call[h] \in Frame
      /\ v \in InvitationIds
      /\ invitations[v] # Null
      /\ v \in agreed
      /\ call[h].at = "confirmInvitation:mark"
  BY DEF InvFor, TypeOK, FrameOK, ConfirmRoomInvitation_Mark, At, InvitationConfirmLabels
<1>2. /\ invitations[v] \in Request
      /\ invitations'[v] = [invitations[v] EXCEPT !.status = "accepted", !.confirmed = TRUE]
      /\ invitations'[v] \in Request
      /\ \A c \in InvitationIds \ {v} : invitations'[c] = invitations[c]
      /\ invitations' \in [InvitationIds -> Request \cup {Null}]
  <2> DEFINE q == [invitations[v] EXCEPT !.status = "accepted", !.confirmed = TRUE]
  <2>1. invitations \in [InvitationIds -> Request \cup {Null}] /\ invitations[v] \in Request
    BY <1>1 DEF TypeOK
  <2>2. q \in Request
    BY <2>1 DEF Request, RequestStatus
  <2>3. invitations' = [invitations EXCEPT ![v] = q]
    BY <1>1, <2>1 DEF ConfirmRoomInvitation_Mark
  <2> QED
    BY <1>1, <2>1, <2>2, <2>3
<1>3. UNCHANGED <<bookings, rentals, instances, agreed>>
  BY DEF ConfirmRoomInvitation_Mark, NotInvitations
<1>4. RequestTablesOK
  BY <1>1, <1>2, <1>3 DEF RequestTablesOK, TypeOK
<1>5. RequestRowsKept
  BY <1>1, <1>2, <1>3, StoreAssumption, ZenonT(40) DEF RequestRowsKept, Request
<1>6. ConsentRecorded'
  BY <1>1, <1>2, <1>3, StoreAssumption DEF InvFor, ConsentRecorded
<1>7. CASE Return(h)
  BY <1>1, <1>3, <1>4, <1>5, <1>6, <1>7, ReturnMove, IdleRelies, RequestStep
<1>8. CASE call[h].inst # Null /\ Goto(h, "confirmInvitation:instance")
  <2>1. "confirmInvitation:instance" \in Labels
    BY DEF Labels
  <2>2. /\ ControlOK
        /\ call'[h] = [call[h] EXCEPT !.at = "confirmInvitation:instance"]
        /\ \A g \in Handlers \ {h} : call'[g] = call[g]
        /\ clean' = clean
    BY <1>1, <1>8, <2>1, GotoMove
  <2>3. /\ call'[h].at = "confirmInvitation:instance"
        /\ call'[h].req = v
        /\ call'[h].inst = call[h].inst
    BY <1>1, <2>2 DEF Frame
  <2>4. RoomOf[call[h].inst] = invitations[v].room
    BY <1>1, <1>8 DEF InvFor, FrameOK, InvitationConfirmLabels
  <2>5. /\ invitations'[v] # Null
        /\ invitations'[v].confirmed
        /\ invitations'[v].room = invitations[v].room
    BY <1>1, <1>2, StoreAssumption DEF Request
  <2>6. FrameOK(h)'
    BY <1>1, <1>3, <1>8, <2>3, <2>4, <2>5
       DEF FrameOK, BookingConfirmLabels, InvitationConfirmLabels
  <2>7. h \in clean => instances[call[h].inst] = "available"
    BY <1>1, <1>8 DEF InvFor, ChecksHold, InvitationConfirmLabels
  <2>8. h \in clean' => ChecksHold(h)'
    BY <1>3, <2>2, <2>3, <2>7 DEF ChecksHold, BookingConfirmLabels,
       InvitationConfirmLabels
  <2> QED
    BY <1>3, <1>4, <1>5, <1>6, <2>2, <2>6, <2>8, RequestStep
<1> QED
  BY <1>7, <1>8 DEF ConfirmRoomInvitation_Mark

LEMMA CreateInvitationSteps ==
    ASSUME NEW hs \in SUBSET Handlers, InvFor(hs), NEW h \in hs,
           \/ \E t \in Tenants, r \in Rooms : CreateRoomInvitation_ReadRoom(h, t, r)
           \/ CreateRoomInvitation_FindInvitation(h)
           \/ CreateRoomInvitation_FindBooking(h)
           \/ CreateRoomInvitation_Insert(h)
    PROVE  InvFor(hs)'
<1> USE DEF At
<1>1. CASE \E t \in Tenants, r \in Rooms : CreateRoomInvitation_ReadRoom(h, t, r)
  <2> PICK t \in Tenants, r \in Rooms : CreateRoomInvitation_ReadRoom(h, t, r)
    BY <1>1
  <2> DEFINE f == [Idle EXCEPT !.at = "createInvitation:findInvitation",
                               !.tenant = t, !.room = r]
  <2>1. f \in Frame
    BY DEF Idle, Frame, Labels
  <2>2. Begin(h, "createInvitation", f) /\ UNCHANGED tables
    BY DEF CreateRoomInvitation_ReadRoom, NotInvitations, tables
  <2>3. ASSUME call'[h] = f PROVE FrameOK(h)' /\ ChecksHold(h)'
    BY <2>3 DEF Idle, FrameOK, ChecksHold, BookingConfirmLabels, InvitationConfirmLabels
  <2> QED
    BY <2>1, <2>2, <2>3, BeginStep
<1>2. CASE CreateRoomInvitation_FindInvitation(h)
  <2>1. UNCHANGED tables
    BY <1>2 DEF CreateRoomInvitation_FindInvitation, NotInvitations, tables
  <2>2. CASE Return(h)
    BY <2>1, <2>2, ReturnStep
  <2>3. CASE Goto(h, "createInvitation:findBooking")
    <3>1. "createInvitation:findBooking" \in Labels
      BY DEF Labels
    <3>2. ASSUME call'[h] = [call[h] EXCEPT !.at = "createInvitation:findBooking"]
          PROVE  FrameOK(h)' /\ ChecksHold(h)'
      BY <1>2, <3>2 DEF InvFor, TypeOK, Frame, CreateRoomInvitation_FindInvitation, FrameOK,
         ChecksHold, BookingConfirmLabels, InvitationConfirmLabels
    <3> QED
      BY <2>1, <2>3, <3>1, <3>2, GotoStep
  <2> QED
    BY <1>2, <2>2, <2>3 DEF CreateRoomInvitation_FindInvitation
<1>3. CASE CreateRoomInvitation_FindBooking(h)
  <2>1. UNCHANGED tables
    BY <1>3 DEF CreateRoomInvitation_FindBooking, NotInvitations, tables
  <2>2. CASE Return(h)
    BY <2>1, <2>2, ReturnStep
  <2>3. CASE Goto(h, "createInvitation:insert")
    <3>1. "createInvitation:insert" \in Labels
      BY DEF Labels
    <3>2. ASSUME call'[h] = [call[h] EXCEPT !.at = "createInvitation:insert"]
          PROVE  FrameOK(h)' /\ ChecksHold(h)'
      BY <1>3, <3>2 DEF InvFor, TypeOK, Frame, CreateRoomInvitation_FindBooking, FrameOK,
         ChecksHold, BookingConfirmLabels, InvitationConfirmLabels
    <3> QED
      BY <2>1, <2>3, <3>1, <3>2, GotoStep
  <2> QED
    BY <1>3, <2>2, <2>3 DEF CreateRoomInvitation_FindBooking
<1>4. CASE CreateRoomInvitation_Insert(h)
  <2> DEFINE q == [tenant |-> call[h].tenant, room |-> call[h].room,
                   status |-> "pending", confirmed |-> FALSE]
  <2>1. q \in Request
    BY <1>4 DEF InvFor, FrameOK, CreateRoomInvitation_Insert, Request, RequestStatus
  <2>2. PICK row \in Request : row = q
    BY <2>1
  <2>3. PICK v \in InvitationIds : /\ invitations[v] = Null
                                /\ invitations' = [invitations EXCEPT ![v] = row]
    BY <1>4, <2>2 DEF CreateRoomInvitation_Insert
  <2>4. Return(h) /\ UNCHANGED <<bookings, rentals, instances, agreed>>
    BY <1>4 DEF CreateRoomInvitation_Insert, NotInvitations
  <2>5. row.status = "pending" /\ row.confirmed = FALSE
    BY <2>2
  <2> QED
    BY <2>3, <2>4, <2>5, InsertInvitationStep
<1> QED
  BY <1>1, <1>2, <1>3, <1>4

LEMMA AnswerInvitationSteps ==
    ASSUME NEW hs \in SUBSET Handlers, InvFor(hs), NEW h \in hs,
           \/ \E v \in InvitationIds, s \in Answers : UpdateRoomInvitation_Read(h, v, s)
           \/ UpdateRoomInvitation_FindInstance(h)
           \/ UpdateRoomInvitation_Write(h)
           \/ \E v \in InvitationIds : WithdrawRoomInvitation_Read(h, v)
           \/ WithdrawRoomInvitation_Write(h)
    PROVE  InvFor(hs)'
<1> USE DEF At
<1>1. CASE \E v \in InvitationIds, s \in Answers : UpdateRoomInvitation_Read(h, v, s)
  <2> PICK v \in InvitationIds, s \in Answers : UpdateRoomInvitation_Read(h, v, s)
    BY <1>1
  <2> DEFINE f == [Idle EXCEPT !.at = IF s = "accepted"
                                    THEN "updateInvitation:findInstance"
                                    ELSE "updateInvitation:write",
                               !.req = v, !.status = s]
  <2>1. s \in RequestStatus /\ f \in Frame
    BY StoreAssumption DEF Idle, Frame, Labels, RequestIds
  <2>2. /\ Begin(h, "updateInvitation", f)
        /\ UNCHANGED tables
        /\ invitations[v] # Null
    BY DEF UpdateRoomInvitation_Read, NotInvitations, tables
  <2>3. ASSUME call'[h] = f PROVE FrameOK(h)' /\ ChecksHold(h)'
    BY <2>1, <2>2, <2>3 DEF Idle, tables, FrameOK, ChecksHold, BookingConfirmLabels,
       InvitationConfirmLabels
  <2> QED
    BY <2>1, <2>2, <2>3, BeginStep
<1>2. CASE UpdateRoomInvitation_Write(h)
  <2>1. call[h].req \in InvitationIds /\ invitations[call[h].req] # Null
        /\ call[h].status \in RequestStatus
    BY <1>2 DEF InvFor, FrameOK, UpdateRoomInvitation_Write
  <2>2. PICK v \in InvitationIds, s \in RequestStatus :
                 v = call[h].req /\ s = call[h].status
    BY <2>1
  <2> QED
    BY <1>2, <2>1, <2>2, InvitationStatusStep DEF UpdateRoomInvitation_Write, NotInvitations
<1>5. CASE UpdateRoomInvitation_FindInstance(h)
  <2>1. UNCHANGED tables
    BY <1>5 DEF UpdateRoomInvitation_FindInstance, NotInvitations, tables
  <2>2. CASE Return(h)
    BY <2>1, <2>2, ReturnStep
  <2>3. CASE Goto(h, "updateInvitation:write")
    <3>1. "updateInvitation:write" \in Labels
      BY DEF Labels
    <3>2. ASSUME call'[h] = [call[h] EXCEPT !.at = "updateInvitation:write"]
          PROVE  FrameOK(h)' /\ ChecksHold(h)'
      BY <1>5, <2>1, <3>2 DEF InvFor, TypeOK, Frame, UpdateRoomInvitation_FindInstance,
         tables, FrameOK, ChecksHold, BookingConfirmLabels, InvitationConfirmLabels
    <3> QED
      BY <2>1, <2>3, <3>1, <3>2, GotoStep
  <2> QED
    BY <1>5, <2>2, <2>3 DEF UpdateRoomInvitation_FindInstance
<1>3. CASE \E v \in InvitationIds : WithdrawRoomInvitation_Read(h, v)
  <2> PICK v \in InvitationIds : WithdrawRoomInvitation_Read(h, v)
    BY <1>3
  <2> DEFINE f == [Idle EXCEPT !.at = "withdrawInvitation:write", !.req = v]
  <2>1. f \in Frame
    BY DEF Idle, Frame, Labels, RequestIds
  <2>2. /\ Begin(h, "withdrawInvitation", f)
        /\ UNCHANGED tables
        /\ invitations[v] # Null
    BY DEF WithdrawRoomInvitation_Read, NotInvitations, tables
  <2>3. ASSUME call'[h] = f PROVE FrameOK(h)' /\ ChecksHold(h)'
    BY <2>2, <2>3 DEF Idle, tables, FrameOK, ChecksHold, BookingConfirmLabels,
       InvitationConfirmLabels
  <2> QED
    BY <2>1, <2>2, <2>3, BeginStep
<1>4. CASE WithdrawRoomInvitation_Write(h)
  <2>1. call[h].req \in InvitationIds /\ invitations[call[h].req] # Null
    BY <1>4 DEF InvFor, FrameOK, WithdrawRoomInvitation_Write
  <2>2. PICK v \in InvitationIds : v = call[h].req
    BY <2>1
  <2>3. PICK s \in RequestStatus : s = "cancelled"
    BY DEF RequestStatus
  <2> QED
    BY <1>4, <2>1, <2>2, <2>3, InvitationStatusStep
       DEF WithdrawRoomInvitation_Write, NotInvitations
<1> QED
  BY <1>1, <1>2, <1>3, <1>4, <1>5

LEMMA ConfirmInvitationSteps ==
    ASSUME NEW hs \in SUBSET Handlers, InvFor(hs), NEW h \in hs,
           \/ \E v \in InvitationIds : ConfirmRoomInvitation_Read(h, v)
           \/ ConfirmRoomInvitation_CheckInstance(h)
           \/ ConfirmRoomInvitation_CheckTenant(h)
    PROVE  InvFor(hs)'
<1> USE DEF At
<1>1. CASE \E v \in InvitationIds : ConfirmRoomInvitation_Read(h, v)
  <2> PICK v \in InvitationIds : ConfirmRoomInvitation_Read(h, v)
    BY <1>1
  <2> PICK i \in (IF AvailableIn(invitations[v].room) = {}
                  THEN {Null} ELSE AvailableIn(invitations[v].room)) :
             Begin(h, "confirmInvitation",
                   [Idle EXCEPT !.at = "confirmInvitation:mark", !.req = v, !.inst = i])
    BY DEF ConfirmRoomInvitation_Read
  <2> DEFINE f == [Idle EXCEPT !.at = "confirmInvitation:mark", !.req = v, !.inst = i]
  <2>1. /\ i \in Instances \cup {Null}
        /\ i # Null => instances[i] = "available" /\ RoomOf[i] = invitations[v].room
    BY DEF AvailableIn
  <2>2. f \in Frame
    BY <2>1 DEF Idle, Frame, Labels, RequestIds
  <2>3. /\ UNCHANGED tables
        /\ invitations[v] # Null
        /\ v \in agreed
    BY DEF ConfirmRoomInvitation_Read, ConfirmableInvitation, NotInvitations, tables, InvFor,
       ConsentRecorded
  <2>4. ASSUME call'[h] = f PROVE FrameOK(h)' /\ ChecksHold(h)'
    BY <2>1, <2>3, <2>4 DEF Idle, tables, FrameOK, ChecksHold, BookingConfirmLabels,
       InvitationConfirmLabels
  <2> QED
    BY <2>2, <2>3, <2>4, BeginStep
<1>2. CASE ConfirmRoomInvitation_CheckInstance(h)
  <2>1. UNCHANGED tables
    BY <1>2 DEF ConfirmRoomInvitation_CheckInstance, NotInvitations, tables
  <2>2. CASE Return(h)
    BY <2>1, <2>2, ReturnStep
  <2>3. CASE ActiveOn(call[h].inst) = {} /\ Goto(h, "confirmInvitation:tenant")
    <3>1. "confirmInvitation:tenant" \in Labels
      BY DEF Labels
    <3>2. ASSUME call'[h] = [call[h] EXCEPT !.at = "confirmInvitation:tenant"]
          PROVE  FrameOK(h)' /\ (h \in clean => ChecksHold(h)')
      <4>1. /\ call'[h].at = "confirmInvitation:tenant"
            /\ call'[h].req = call[h].req
            /\ call'[h].inst = call[h].inst
        BY <3>2 DEF InvFor, TypeOK, Frame
      <4>2. FrameOK(h)'
        BY <1>2, <2>1, <4>1 DEF InvFor, ConfirmRoomInvitation_CheckInstance, tables,
           FrameOK, BookingConfirmLabels, InvitationConfirmLabels
      <4>3. ActiveOn(call[h].inst)' = {}
        BY <2>1, <2>3, <4>1 DEF ActiveOn, tables
      <4>4. h \in clean => ChecksHold(h)'
        BY <1>2, <2>1, <4>1, <4>3 DEF InvFor, ConfirmRoomInvitation_CheckInstance, tables,
           ChecksHold, BookingConfirmLabels, InvitationConfirmLabels
      <4> QED
        BY <4>2, <4>4
    <3> QED
      BY <2>1, <2>3, <3>1, <3>2, GotoStep
  <2> QED
    BY <1>2, <2>2, <2>3 DEF ConfirmRoomInvitation_CheckInstance
<1>3. CASE ConfirmRoomInvitation_CheckTenant(h)
  <2>1. UNCHANGED tables
    BY <1>3 DEF ConfirmRoomInvitation_CheckTenant, NotInvitations, tables
  <2>2. CASE Return(h)
    BY <2>1, <2>2, ReturnStep
  <2>3. CASE /\ ActiveOf(invitations[call[h].req].tenant) = {}
             /\ Goto(h, "confirmInvitation:commit")
    <3>1. "confirmInvitation:commit" \in Labels
      BY DEF Labels
    <3>2. ASSUME call'[h] = [call[h] EXCEPT !.at = "confirmInvitation:commit"]
          PROVE  FrameOK(h)' /\ (h \in clean => ChecksHold(h)')
      <4>1. /\ call'[h].at = "confirmInvitation:commit"
            /\ call'[h].req = call[h].req
            /\ call'[h].inst = call[h].inst
        BY <3>2 DEF InvFor, TypeOK, Frame
      <4>2. FrameOK(h)'
        BY <1>3, <2>1, <4>1 DEF InvFor, ConfirmRoomInvitation_CheckTenant, tables,
           FrameOK, BookingConfirmLabels, InvitationConfirmLabels
      <4>3. ActiveOf(TenantOf(h))' = {}
        BY <1>3, <2>1, <2>3, <4>1 DEF ActiveOf, TenantOf, BookingConfirmLabels,
           ConfirmRoomInvitation_CheckTenant, tables
      <4>4. ActiveOn(call[h].inst)' = ActiveOn(call[h].inst)
        BY <2>1, <4>1 DEF ActiveOn, tables
      <4>5. h \in clean => ChecksHold(h)'
        BY <1>3, <2>1, <4>1, <4>3, <4>4 DEF InvFor, ConfirmRoomInvitation_CheckTenant,
           tables, ChecksHold, BookingConfirmLabels, InvitationConfirmLabels
      <4> QED
        BY <4>2, <4>5
    <3> QED
      BY <2>1, <2>3, <3>1, <3>2, GotoStep
  <2> QED
    BY <1>3, <2>2, <2>3 DEF ConfirmRoomInvitation_CheckTenant
<1> QED
  BY <1>1, <1>2, <1>3

(* The rental a confirmed invitation becomes, in the room it is for. *)
LEMMA InvitationRentalRow ==
    ASSUME NEW hs \in SUBSET Handlers, InvFor(hs), NEW h \in hs,
           ConfirmRoomInvitation_Commit(h)
    PROVE  /\ UNCHANGED NotRentals
           /\ \E row \in Rental : /\ row.booking = Null
                                  /\ RowFollowsConsent(row)
                                  /\ CommitRental(h, row)
<1> DEFINE v == call[h].req
<1> DEFINE row == [booking |-> Null, invitation |-> v, inst |-> call[h].inst,
                   tenant |-> invitations[v].tenant, status |-> "active"]
<1>1. /\ call[h] \in Frame
      /\ v \in InvitationIds
      /\ invitations[v] # Null
      /\ invitations[v] \in Request
      /\ v \in agreed
      /\ call[h].inst # Null
      /\ invitations[v].confirmed
      /\ RoomOf[call[h].inst] = invitations[v].room
  BY DEF InvFor, TypeOK, FrameOK, ConfirmRoomInvitation_Commit, At, InvitationConfirmLabels
<1>2. row \in Rental
  BY <1>1 DEF Rental, RentalStatus, Frame, Request
<1>3. RowFollowsConsent(row)
  BY <1>1 DEF RowFollowsConsent
<1>4. CommitRental(h, row) /\ UNCHANGED NotRentals
  BY DEF ConfirmRoomInvitation_Commit, NotRentals
<1> QED
  BY <1>2, <1>3, <1>4

LEMMA CommitInvitationStep ==
    ASSUME NEW hs \in SUBSET Handlers, InvFor(hs), NEW h \in hs,
           ConfirmRoomInvitation_Commit(h)
    PROVE  InvFor(hs)'
BY InvitationRentalRow, CommitStep

LEMMA InvitationSteps ==
    ASSUME NEW hs \in SUBSET Handlers, InvFor(hs), NEW h \in hs, InvitationStep(h)
    PROVE  InvFor(hs)'
BY CreateInvitationSteps, AnswerInvitationSteps, ConfirmInvitationSteps, MarkInvitationStep,
   CommitInvitationStep DEF InvitationStep

-----------------------------------------------------------------------------
(* Rentals *)

(* The row createRental inserts, with the booking it has read or with none. *)
LEMMA CreateRentalRow ==
    ASSUME NEW hs \in SUBSET Handlers, InvFor(hs), NEW h \in hs, CreateRental_Insert(h)
    PROVE  /\ UNCHANGED <<NotRentals, instances>>
           /\ \/ \E row \in Rental : /\ row.invitation = Null
                                     /\ RowFollowsConsent(row)
                                     /\ NotYetRented(row)
                                     /\ InsertRental(row)
                                     /\ GotoWritten(h, "createRental:occupy")
              \/ Return(h) /\ UNCHANGED rentals
<1> DEFINE row == [booking |-> call[h].req, invitation |-> Null, inst |-> call[h].inst,
                   tenant |-> call[h].tenant, status |-> "active"]
<1>1. /\ call[h].tenant \in Tenants
      /\ call[h].inst \in Instances
      /\ call[h].req \in BookingIds \cup {Null}
  BY DEF InvFor, FrameOK, CreateRental_Insert, At
<1>2. row \in Rental
  BY <1>1 DEF Rental, RentalStatus
<1>3. RowFollowsConsent(row)
  BY DEF InvFor, FrameOK, CreateRental_Insert, At, RowFollowsConsent
<1> QED
  BY <1>2, <1>3 DEF CreateRental_Insert

LEMMA CreateRentalSteps ==
    ASSUME NEW hs \in SUBSET Handlers, InvFor(hs), NEW h \in hs,
           \/ \E t \in Tenants, i \in Instances, b \in BookingIds \cup {Null} :
                 CreateRental_FindExisting(h, t, i, b)
           \/ CreateRental_ReadBooking(h)
           \/ CreateRental_Insert(h)
           \/ CreateRental_Occupy(h)
    PROVE  InvFor(hs)'
<1> USE DEF At
<1>1. CASE \E t \in Tenants, i \in Instances, b \in BookingIds \cup {Null} :
              CreateRental_FindExisting(h, t, i, b)
  <2> PICK t \in Tenants, i \in Instances, b \in BookingIds \cup {Null} :
             CreateRental_FindExisting(h, t, i, b)
    BY <1>1
  <2> DEFINE f == [Idle EXCEPT !.at = IF b = Null THEN "createRental:insert"
                                                  ELSE "createRental:readBooking",
                               !.tenant = t, !.inst = i, !.req = b]
  <2>1. f \in Frame
    BY DEF Idle, Frame, Labels, RequestIds
  <2>2. Begin(h, "createRental", f) /\ UNCHANGED tables /\ LiveOn(i) = {}
    BY DEF CreateRental_FindExisting, NotRentals, tables
  <2>3. LiveOn(i)' = {}
    BY <2>2 DEF LiveOn, tables
  <2>4. ASSUME call'[h] = f PROVE FrameOK(h)' /\ ChecksHold(h)'
    BY <2>3, <2>4 DEF Idle, FrameOK, ChecksHold, BookingConfirmLabels,
       InvitationConfirmLabels
  <2> QED
    BY <2>1, <2>2, <2>4, BeginStep
<1>2. CASE CreateRental_ReadBooking(h)
  <2> DEFINE b == call[h].req
  <2>1. UNCHANGED tables
    BY <1>2 DEF CreateRental_ReadBooking, NotRentals, tables
  <2>2. CASE Return(h)
    BY <2>1, <2>2, ReturnStep
  <2>3. CASE /\ bookings[b] # Null
             /\ RentableBooking(bookings[b], call[h].tenant)
             /\ Goto(h, "createRental:insert")
    <3>1. "createRental:insert" \in Labels
      BY DEF Labels
    <3>2. b \in BookingIds /\ b \in agreed /\ bookings[b].tenant = call[h].tenant
      BY <1>2, <2>3 DEF InvFor, FrameOK, CreateRental_ReadBooking, ConsentRecorded,
         RentableBooking
    <3>3. ASSUME call'[h] = [call[h] EXCEPT !.at = "createRental:insert"]
          PROVE  FrameOK(h)' /\ (h \in clean => ChecksHold(h)')
      <4>1. /\ call'[h].at = "createRental:insert"
            /\ call'[h].req = b
            /\ call'[h].inst = call[h].inst
            /\ call'[h].tenant = call[h].tenant
        BY <3>3 DEF InvFor, TypeOK, Frame
      <4>2. FrameOK(h)'
        BY <1>2, <2>1, <2>3, <3>2, <4>1 DEF InvFor, CreateRental_ReadBooking, tables, FrameOK,
           BookingConfirmLabels, InvitationConfirmLabels
      <4>3. LiveOn(call[h].inst)' = LiveOn(call[h].inst)
        BY <2>1, <4>1 DEF LiveOn, tables
      <4>4. h \in clean => ChecksHold(h)'
        BY <1>2, <4>1, <4>3 DEF InvFor, CreateRental_ReadBooking, ChecksHold,
           BookingConfirmLabels, InvitationConfirmLabels
      <4> QED
        BY <4>2, <4>4
    <3> QED
      BY <2>1, <2>3, <3>1, <3>3, GotoStep
  <2> QED
    BY <1>2, <2>2, <2>3 DEF CreateRental_ReadBooking
<1>3. CASE CreateRental_Insert(h)
  <2>1. UNCHANGED <<NotRentals, instances>>
    BY <1>3, CreateRentalRow
  <2>2. ASSUME NEW row \in Rental, RowFollowsConsent(row), NotYetRented(row),
               InsertRental(row), GotoWritten(h, "createRental:occupy")
        PROVE  InvFor(hs)'
    <3>1. TypeOK /\ "createRental:occupy" \in Labels
      BY DEF InvFor, Labels
    <3>2. /\ ControlOK
          /\ call'[h] = [call[h] EXCEPT !.at = "createRental:occupy"]
          /\ \A g \in Handlers \ {h} : call'[g] = call[g]
          /\ clean' \subseteq {h}
      BY <2>2, <3>1, GotoWrittenMove
    <3>3. /\ rentals' \in [RentalIds -> Rental \cup {Null}]
          /\ RentalRowsKept
          /\ RentalsFollowConsent'
          /\ OneRentalPerRequest'
      BY <2>1, <2>2, InsertedRow
    <3>4. instances' \in [Instances -> RoomStatus]
      BY <2>1, <3>1 DEF TypeOK
    <3>5. FrameOK(h)' /\ ChecksHold(h)'
      BY <1>3, <3>2 DEF InvFor, TypeOK, CreateRental_Insert, Frame, FrameOK, ChecksHold,
         BookingConfirmLabels, InvitationConfirmLabels
    <3> QED
      BY <2>1, <3>2, <3>3, <3>4, <3>5, RentalWriteStep
  <2>3. CASE Return(h) /\ UNCHANGED rentals
    BY <2>1, <2>3, ReturnStep DEF tables, NotRentals
  <2> QED
    BY <1>3, <2>2, <2>3, CreateRentalRow
<1>4. CASE CreateRental_Occupy(h)
  <2>1. instances' \in [Instances -> RoomStatus]
    BY <1>4 DEF InvFor, TypeOK, CreateRental_Occupy, RoomStatus
  <2> QED
    BY <1>4, <2>1, InstanceWriteStep DEF CreateRental_Occupy
<1> QED
  BY <1>1, <1>2, <1>3, <1>4

LEMMA EndRentalSteps ==
    ASSUME NEW hs \in SUBSET Handlers, InvFor(hs), NEW h \in hs,
           \/ \E x \in RentalIds : TerminateRental_Read(h, x)
           \/ TerminateRental_Write(h)
           \/ TerminateRental_Release(h)
           \/ \E x \in RentalIds : RenewRental_Read(h, x)
           \/ RenewRental_Write(h)
    PROVE  InvFor(hs)'
<1> USE DEF At
<1>1. CASE \E x \in RentalIds : TerminateRental_Read(h, x)
  <2> PICK x \in RentalIds : TerminateRental_Read(h, x)
    BY <1>1
  <2> DEFINE f == [Idle EXCEPT !.at = "terminateRental:write", !.rental = x]
  <2>1. f \in Frame
    BY DEF Idle, Frame, Labels
  <2>2. Begin(h, "terminateRental", f) /\ UNCHANGED tables /\ rentals[x] # Null
    BY DEF TerminateRental_Read, NotRentals, tables
  <2>3. ASSUME call'[h] = f PROVE FrameOK(h)' /\ ChecksHold(h)'
    BY <2>2, <2>3 DEF Idle, tables, FrameOK, ChecksHold, BookingConfirmLabels,
       InvitationConfirmLabels
  <2> QED
    BY <2>1, <2>2, <2>3, BeginStep
<1>2. CASE TerminateRental_Write(h)
  <2>1. /\ call[h] \in Frame
        /\ call[h].rental \in RentalIds
        /\ rentals[call[h].rental] # Null
    BY <1>2 DEF InvFor, TypeOK, FrameOK, TerminateRental_Write
  <2>2. PICK x \in RentalIds, s \in RentalStatus : x = call[h].rental /\ s = "terminated"
    BY <2>1 DEF RentalStatus
  <2>3. UNCHANGED <<NotRentals, instances>>
    BY <1>2 DEF TerminateRental_Write
  <2>4. rentals' = [rentals EXCEPT ![x].status = s] /\ rentals[x] # Null
    BY <1>2, <2>1, <2>2 DEF TerminateRental_Write
  <2>5. /\ rentals' \in [RentalIds -> Rental \cup {Null}]
        /\ RentalRowsKept
        /\ RentalsFollowConsent'
        /\ OneRentalPerRequest'
    BY <2>3, <2>4, RentalStatusRow
  <2>6. TypeOK /\ "terminateRental:release" \in Labels
    BY DEF InvFor, Labels
  <2>7. /\ ControlOK
        /\ call'[h] = [call[h] EXCEPT !.at = "terminateRental:release"]
        /\ \A g \in Handlers \ {h} : call'[g] = call[g]
        /\ clean' \subseteq {h}
    BY <1>2, <2>6, GotoWrittenMove DEF TerminateRental_Write
  <2>8. FrameOK(h)' /\ ChecksHold(h)'
    BY <2>1, <2>5, <2>7 DEF Frame, RentalRowsKept, FrameOK, ChecksHold,
       BookingConfirmLabels, InvitationConfirmLabels
  <2>9. instances' \in [Instances -> RoomStatus]
    BY <2>3, <2>6 DEF TypeOK
  <2> QED
    BY <2>3, <2>5, <2>7, <2>8, <2>9, RentalWriteStep
<1>3. CASE TerminateRental_Release(h)
  <2>1. instances' \in [Instances -> RoomStatus]
    BY <1>3 DEF InvFor, TypeOK, TerminateRental_Release, RoomStatus
  <2> QED
    BY <1>3, <2>1, InstanceWriteStep DEF TerminateRental_Release
<1>4. CASE \E x \in RentalIds : RenewRental_Read(h, x)
  <2> PICK x \in RentalIds : RenewRental_Read(h, x)
    BY <1>4
  <2> DEFINE f == [Idle EXCEPT !.at = "renewRental:write", !.rental = x]
  <2>1. f \in Frame
    BY DEF Idle, Frame, Labels
  <2>2. Begin(h, "renewRental", f) /\ UNCHANGED tables /\ rentals[x] # Null
    BY DEF RenewRental_Read, NotRentals, tables
  <2>3. ASSUME call'[h] = f PROVE FrameOK(h)' /\ ChecksHold(h)'
    BY <2>2, <2>3 DEF Idle, tables, FrameOK, ChecksHold, BookingConfirmLabels,
       InvitationConfirmLabels
  <2> QED
    BY <2>1, <2>2, <2>3, BeginStep
<1>5. CASE RenewRental_Write(h)
  <2>1. call[h].rental \in RentalIds /\ rentals[call[h].rental] # Null
    BY <1>5 DEF InvFor, FrameOK, RenewRental_Write
  <2>2. PICK x \in RentalIds, s \in RentalStatus :
              x = call[h].rental /\ s = "pending_renewal"
    BY <2>1 DEF RentalStatus
  <2>3. UNCHANGED <<NotRentals, instances>>
    BY <1>5 DEF RenewRental_Write
  <2>4. rentals' = [rentals EXCEPT ![x].status = s] /\ rentals[x] # Null
    BY <1>5, <2>1, <2>2 DEF RenewRental_Write
  <2>5. /\ rentals' \in [RentalIds -> Rental \cup {Null}]
        /\ RentalRowsKept
        /\ RentalsFollowConsent'
        /\ OneRentalPerRequest'
    BY <2>3, <2>4, RentalStatusRow
  <2>6. TypeOK /\ ReturnWritten(h)
    BY <1>5 DEF InvFor, RenewRental_Write
  <2>7. instances' \in [Instances -> RoomStatus]
    BY <2>3, <2>6 DEF TypeOK
  <2> QED
    BY <2>3, <2>5, <2>6, <2>7, ReturnWrittenMove, IdleRelies, RentalWriteStep
<1> QED
  BY <1>1, <1>2, <1>3, <1>4, <1>5

LEMMA RoomStatusSteps ==
    ASSUME NEW hs \in SUBSET Handlers, InvFor(hs), NEW h \in hs,
           \/ \E i \in Instances, s \in RoomEdits : UpdateRoomInstanceStatus_Read(h, i, s)
           \/ \E r \in Rooms, is \in (SUBSET Instances) \ {{}}, s \in RoomEdits :
                 BulkUpdateRoomInstanceStatus_Read(h, r, is, s)
           \/ RoomInstanceStatus_Write(h)
    PROVE  InvFor(hs)'
<1> USE DEF At
<1>1. ASSUME NEW op, NEW is \in SUBSET Instances, NEW s \in RoomEdits, UNCHANGED tables,
             \A i \in is : ValidTransition(i, s),
             Begin(h, op,
                   [Idle EXCEPT !.at = "roomStatus:write", !.insts = is, !.status = s])
      PROVE  InvFor(hs)'
  <2> DEFINE f == [Idle EXCEPT !.at = "roomStatus:write", !.insts = is, !.status = s]
  <2>1. s \in RoomStatus /\ f \in Frame
    BY StoreAssumption DEF Idle, Frame, Labels
  <2>2. ASSUME call'[h] = f PROVE FrameOK(h)' /\ ChecksHold(h)'
    <3>1. FrameOK(h)'
      BY <2>1, <2>2 DEF Idle, FrameOK, BookingConfirmLabels, InvitationConfirmLabels
    <3>2. s = "available" => \A i \in is : instances'[i] = "available" \/ LiveOn(i)' = {}
      BY <1>1, QueriesKept DEF ValidTransition, tables
    <3> QED
      BY <2>2, <3>1, <3>2 DEF Idle, ChecksHold, BookingConfirmLabels,
         InvitationConfirmLabels
  <2> QED
    BY <1>1, <2>1, <2>2, BeginStep
<1>2. CASE \E i \in Instances, s \in RoomEdits : UpdateRoomInstanceStatus_Read(h, i, s)
  <2> PICK i \in Instances, s \in RoomEdits : UpdateRoomInstanceStatus_Read(h, i, s)
    BY <1>2
  <2>1. PICK is \in SUBSET Instances : is = {i}
    OBVIOUS
  <2> QED
    BY <1>1, <2>1 DEF UpdateRoomInstanceStatus_Read, NotRentals, tables
<1>3. CASE \E r \in Rooms, is \in (SUBSET Instances) \ {{}}, s \in RoomEdits :
              BulkUpdateRoomInstanceStatus_Read(h, r, is, s)
  BY <1>1, <1>3 DEF BulkUpdateRoomInstanceStatus_Read, NotRentals, tables
<1>4. CASE RoomInstanceStatus_Write(h)
  <2>1. call[h].status \in RoomStatus
    BY <1>4 DEF InvFor, FrameOK, RoomInstanceStatus_Write
  <2>2. instances' \in [Instances -> RoomStatus]
    BY <1>4, <2>1 DEF InvFor, TypeOK, RoomInstanceStatus_Write
  <2> QED
    BY <1>4, <2>2, InstanceWriteStep DEF RoomInstanceStatus_Write
<1> QED
  BY <1>2, <1>3, <1>4

LEMMA RentalSteps ==
    ASSUME NEW hs \in SUBSET Handlers, InvFor(hs), NEW h \in hs, RentalStep(h)
    PROVE  InvFor(hs)'
BY CreateRentalSteps, EndRentalSteps, RoomStatusSteps DEF RentalStep

(* updateRental runs in no handler: it is over in one step. *)
LEMMA UpdateRentalSteps ==
    ASSUME NEW hs \in SUBSET Handlers, InvFor(hs),
           NEW x \in RentalIds, NEW s \in RentalEdits, UpdateRental(x, s)
    PROVE  InvFor(hs)'
<1>1. s \in RentalStatus
  BY StoreAssumption
<1>2. /\ rentals' \in [RentalIds -> Rental \cup {Null}]
      /\ RentalRowsKept
      /\ RentalsFollowConsent'
      /\ OneRentalPerRequest'
  BY <1>1, RentalStatusRow DEF UpdateRental
<1>3. RequestRowsKept
  BY DEF UpdateRental, NotRentals, RequestRowsKept
<1>4. TypeOK'
  BY <1>2, StoreAssumption DEF InvFor, TypeOK, UpdateRental, NotRentals
<1>5. ConsentRecorded'
  BY DEF InvFor, ConsentRecorded, UpdateRental, NotRentals
<1>6. \A h \in hs : FrameOK(h)'
  BY <1>2, <1>3, FrameKept DEF InvFor, TypeOK, UpdateRental
<1> QED
  BY <1>2, <1>4, <1>5, <1>6 DEF InvFor, UpdateRental

-----------------------------------------------------------------------------
(* The invariant. *)

LEMMA InitialInvariant == Init => IInv
<1> SUFFICES ASSUME Init PROVE IInv
  OBVIOUS
<1>1. TypeOK
  BY IdleInFrame, StoreAssumption DEF Init, TypeOK, RoomStatus
<1>2. \A h \in Handlers : FrameOK(h)
  BY DEF Init, Idle, FrameOK, BookingConfirmLabels, InvitationConfirmLabels
<1>3. ConsentRecorded /\ RentalsFollowConsent /\ OneRentalPerRequest
  BY DEF Init, ConsentRecorded, RentalsFollowConsent, OneRentalPerRequest
<1>4. \A h \in clean : ChecksHold(h)
  BY DEF Init
<1> QED
  BY <1>1, <1>2, <1>3, <1>4 DEF IInv, InvFor

LEMMA InvariantStep == IInv /\ [Next]_vars => IInv'
<1> SUFFICES ASSUME IInv, [Next]_vars PROVE IInv'
  OBVIOUS
<1>1. ASSUME NEW h \in Handlers, Crash(h) PROVE IInv'
  BY <1>1, ReturnStep DEF Crash, tables, IInv
<1>2. CASE UNCHANGED vars
  BY <1>2 DEF vars, IInv, InvFor, TypeOK, FrameOK, ChecksHold, TenantOf, ActiveOn, ActiveOf,
     LiveOn, ConsentRecorded, RentalsFollowConsent, OneRentalPerRequest
<1> QED
  BY <1>1, <1>2, BookingSteps, InvitationSteps, RentalSteps, UpdateRentalSteps
     DEF Next, IInv

(* The inductive invariant holds throughout. *)
THEOREM Invariant == Spec => []IInv
  BY InitialInvariant, InvariantStep, PTL DEF Spec

(* Whatever handlers do to them, tables, frames and history keep their type. *)
THEOREM TypeCorrect == Spec => []TypeOK
<1>1. IInv => TypeOK
  BY DEF IInv, InvFor
<1> QED
  BY <1>1, Invariant, PTL

(* No rental exists that the other party of its request did not agree to. *)
THEOREM ConsentRespected == Spec => []RentalsFollowConsent
<1>1. IInv => RentalsFollowConsent
  BY DEF IInv, InvFor
<1> QED
  BY <1>1, Invariant, PTL

(* No request is ever rented out twice. *)
THEOREM RequestsRentedOnce == Spec => []OneRentalPerRequest
<1>1. IInv => OneRentalPerRequest
  BY DEF IInv, InvFor
<1> QED
  BY <1>1, Invariant, PTL

-----------------------------------------------------------------------------
(* What undisturbed checks secure. *)

(* A step moves one handler, and one that waits for its transaction, for   *)
(* the insert of createRental or for the write of a room status is moved   *)
(* by nothing else, unless it crashes.                                     *)
LEMMA WhoMoved ==
    ASSUME TypeOK, NEW h \in Handlers, Next, call'[h] # call[h],
           call[h].at \in {"confirmBooking:commit", "confirmInvitation:commit",
                          "createRental:insert", "roomStatus:write"}
    PROVE  \/ ConfirmBookingRequest_Commit(h)
           \/ ConfirmRoomInvitation_Commit(h)
           \/ CreateRental_Insert(h)
           \/ RoomInstanceStatus_Write(h)
           \/ UNCHANGED <<rentals, instances>>
<1>1. \A x \in RentalIds, s \in RentalEdits : ~UpdateRental(x, s)
  BY DEF UpdateRental
<1>2. PICK g \in Handlers : BookingStep(g) \/ InvitationStep(g) \/ RentalStep(g) \/ Crash(g)
  BY <1>1 DEF Next
<1> USE DEF TypeOK, At, Begin, Goto, Return, GotoWritten, ReturnWritten
<1>3. CASE BookingStep(g)
  BY <1>3 DEF BookingStep, CreateBookingRequest_ReadRoom,
     CreateBookingRequest_FindExisting, CreateBookingRequest_Insert,
     UpdateBookingRequest_Read, UpdateBookingRequest_Write, ConfirmBookingRequest_Read,
     ConfirmBookingRequest_Mark, ConfirmBookingRequest_CheckInstance,
     ConfirmBookingRequest_CheckTenant, ConfirmBookingRequest_Commit, CommitRental,
     CancelBookingRequest_Read, CancelBookingRequest_Write, NotBookings
<1>4. CASE InvitationStep(g)
  BY <1>4 DEF InvitationStep, CreateRoomInvitation_ReadRoom,
     CreateRoomInvitation_FindInvitation, CreateRoomInvitation_FindBooking,
     CreateRoomInvitation_Insert, UpdateRoomInvitation_Read,
     UpdateRoomInvitation_FindInstance, UpdateRoomInvitation_Write,
     ConfirmRoomInvitation_Read, ConfirmRoomInvitation_Mark,
     ConfirmRoomInvitation_CheckInstance, ConfirmRoomInvitation_CheckTenant,
     ConfirmRoomInvitation_Commit, CommitRental, WithdrawRoomInvitation_Read,
     WithdrawRoomInvitation_Write, NotInvitations
<1>5. CASE RentalStep(g)
  BY <1>5 DEF RentalStep, CreateRental_FindExisting, CreateRental_ReadBooking,
     CreateRental_Insert, CreateRental_Occupy, TerminateRental_Read,
     TerminateRental_Write, TerminateRental_Release, RenewRental_Read, RenewRental_Write,
     UpdateRoomInstanceStatus_Read, BulkUpdateRoomInstanceStatus_Read,
     RoomInstanceStatus_Write
<1>6. CASE Crash(g)
  BY <1>6 DEF Crash
<1> QED
  BY <1>2, <1>3, <1>4, <1>5, <1>6

LEMMA UndisturbedConfirmStep ==
    ASSUME NEW hs \in SUBSET Handlers, InvFor(hs), Next,
           NEW h \in clean \cap hs, NEW x \in Inserted,
           call[h].at \in {"confirmBooking:commit", "confirmInvitation:commit"},
           call'[h] # call[h]
    PROVE  /\ instances[rentals'[x].inst] = "available"
           /\ ActiveOn(rentals'[x].inst) = {}
           /\ ActiveOf(rentals'[x].tenant) = {}
<1>1. TypeOK /\ h \in Handlers /\ FrameOK(h) /\ ChecksHold(h)
  BY DEF InvFor
<1>2. ~UNCHANGED rentals
  BY DEF Inserted
<1>4. \/ ConfirmBookingRequest_Commit(h)
      \/ ConfirmRoomInvitation_Commit(h)
  BY <1>1, <1>2, WhoMoved DEF CreateRental_Insert, RoomInstanceStatus_Write, At
<1>5. rentals'[x].inst = call[h].inst /\ rentals'[x].tenant = TenantOf(h)
  <2>1. CASE ConfirmBookingRequest_Commit(h)
    <3> DEFINE r == [booking |-> call[h].req, invitation |-> Null,
                     inst |-> call[h].inst, tenant |-> bookings[call[h].req].tenant,
                     status |-> "active"]
    <3>1. InsertRental(r) /\ call[h].at = "confirmBooking:commit"
      BY <1>2, <2>1 DEF ConfirmBookingRequest_Commit, CommitRental, At
    <3>2. rentals'[x] = r
      BY <1>1, <3>1 DEF TypeOK, InsertRental, Inserted
    <3> QED
      BY <3>1, <3>2 DEF TenantOf, BookingConfirmLabels
  <2>2. CASE ConfirmRoomInvitation_Commit(h)
    <3> DEFINE r == [booking |-> Null, invitation |-> call[h].req,
                     inst |-> call[h].inst, tenant |-> invitations[call[h].req].tenant,
                     status |-> "active"]
    <3>1. InsertRental(r) /\ call[h].at = "confirmInvitation:commit"
      BY <1>2, <2>2 DEF ConfirmRoomInvitation_Commit, CommitRental, At
    <3>2. rentals'[x] = r
      BY <1>1, <3>1 DEF TypeOK, InsertRental, Inserted
    <3> QED
      BY <3>1, <3>2 DEF TenantOf, BookingConfirmLabels
  <2> QED
    BY <1>4, <2>1, <2>2
<1> QED
  BY <1>1, <1>5 DEF ChecksHold, FrameOK, BookingConfirmLabels, InvitationConfirmLabels

(* A confirm that nothing overtook gives the tenant their only rental, in   *)
(* a free instance, whatever else is going on.                             *)
THEOREM UndisturbedConfirm == Spec => UndisturbedConfirmIsExclusive
<1>1. IInv /\ [Next]_vars =>
         [\A h \in clean, x \in Inserted :
            /\ call[h].at \in {"confirmBooking:commit", "confirmInvitation:commit"}
            /\ call'[h] # call[h]
            => /\ instances[rentals'[x].inst] = "available"
               /\ ActiveOn(rentals'[x].inst) = {}
               /\ ActiveOf(rentals'[x].tenant) = {}]_vars
  BY UndisturbedConfirmStep DEF IInv, InvFor, TypeOK, vars, Inserted
<1> QED
  BY <1>1, Invariant, PTL DEF Spec, UndisturbedConfirmIsExclusive

LEMMA UndisturbedCreateStep ==
    ASSUME NEW hs \in SUBSET Handlers, InvFor(hs), Next,
           NEW h \in clean \cap hs, NEW x \in Inserted,
           At(h, "createRental:insert"), call'[h] # call[h]
    PROVE  LiveOn(rentals'[x].inst) = {}
<1>1. TypeOK /\ h \in Handlers /\ ChecksHold(h)
  BY DEF InvFor
<1>2. ~UNCHANGED rentals
  BY DEF Inserted
<1>4. CreateRental_Insert(h)
  BY <1>1, <1>2, WhoMoved DEF ConfirmBookingRequest_Commit, ConfirmRoomInvitation_Commit,
     RoomInstanceStatus_Write, At
<1> DEFINE r == [booking |-> call[h].req, invitation |-> Null, inst |-> call[h].inst,
                 tenant |-> call[h].tenant, status |-> "active"]
<1>5. InsertRental(r)
  BY <1>2, <1>4 DEF CreateRental_Insert
<1>6. rentals'[x] = r
  BY <1>1, <1>5 DEF TypeOK, InsertRental, Inserted
<1> QED
  BY <1>1, <1>6 DEF ChecksHold, At

(* A createRental that nothing overtook rents out an instance nobody has a  *)
(* live rental of.                                                         *)
THEOREM UndisturbedCreate == Spec => UndisturbedCreateIsExclusive
<1>1. IInv /\ [Next]_vars =>
         [\A h \in clean, x \in Inserted :
            At(h, "createRental:insert") /\ call'[h] # call[h]
            => LiveOn(rentals'[x].inst) = {}]_vars
  BY UndisturbedCreateStep DEF IInv, InvFor, TypeOK, vars, Inserted
<1> QED
  BY <1>1, Invariant, PTL DEF Spec, UndisturbedCreateIsExclusive

LEMMA UndisturbedReleaseStep ==
    ASSUME NEW hs \in SUBSET Handlers, InvFor(hs), Next,
           NEW h \in clean \cap hs, NEW i \in Instances,
           At(h, "roomStatus:write"), call'[h] # call[h],
           instances'[i] = "available", instances[i] # "available"
    PROVE  LiveOn(i) = {}
<1>1. TypeOK /\ h \in Handlers /\ ChecksHold(h)
  BY DEF InvFor
<1>2. RoomInstanceStatus_Write(h)
  BY <1>1, WhoMoved DEF ConfirmBookingRequest_Commit, ConfirmRoomInvitation_Commit,
     CreateRental_Insert, At
<1>3. i \in call[h].insts /\ call[h].status = "available"
  BY <1>2 DEF RoomInstanceStatus_Write
<1> QED
  BY <1>1, <1>3 DEF ChecksHold, At

(* A landlord who declares physical rooms available, and whom no write of   *)
(* rentals overtook, declares none that somebody lives in.                 *)
THEOREM UndisturbedRelease == Spec => UndisturbedReleaseIsVacant
<1>1. IInv /\ [Next]_vars =>
         [\A h \in clean, i \in Instances :
            /\ At(h, "roomStatus:write") /\ call'[h] # call[h]
            /\ instances'[i] = "available" /\ instances[i] # "available"
            => LiveOn(i) = {}]_vars
  BY UndisturbedReleaseStep DEF IInv, InvFor, TypeOK, vars
<1> QED
  BY <1>1, Invariant, PTL DEF Spec, UndisturbedReleaseIsVacant

(* Whoever gets a live rental of an instance in the transaction of a       *)
(* confirmation also gets the instance marked as occupied.                 *)
LEMMA CommitKeepsTrack ==
    ASSUME TypeOK, NEW h, NEW row, CommitRental(h, row), NEW i \in Instances,
           instances'[i] = "available"
    PROVE  instances[i] = "available" /\ LiveOn(i)' = LiveOn(i)
<1>1. CASE UNCHANGED <<rentals, instances>>
  BY <1>1, QueriesKept
<1>2. CASE /\ InsertRental(row)
           /\ instances' = [instances EXCEPT ![row.inst] = "occupied"]
  <2>1. i # row.inst /\ instances'[i] = instances[i]
    BY <1>2 DEF TypeOK
  <2>2. PICK x \in RentalIds : rentals[x] = Null /\ rentals' = [rentals EXCEPT ![x] = row]
    BY <1>2 DEF InsertRental
  <2>3. LiveOn(i)' = LiveOn(i)
    BY <2>1, <2>2 DEF LiveOn, TypeOK
  <2> QED
    BY <2>1, <2>3
<1> QED
  BY <1>1, <1>2 DEF CommitRental

LEMMA OnlyLooseWrites ==
    ASSUME IInv, [Next]_vars, NEW i \in Instances,
           instances'[i] = "available", LiveOn(i)' # {},
           ~(instances[i] = "available" /\ LiveOn(i) # {})
    PROVE  \/ \E h \in Handlers : call[h].at \in LooseWrites /\ call'[h] # call[h]
           \/ UNCHANGED call
<1>1. TypeOK
  BY DEF IInv, InvFor
<1>2. ~UNCHANGED <<rentals, instances>>
  BY QueriesKept
<1>3. Next
  BY <1>2 DEF vars
<1>4. CASE \E x \in RentalIds, s \in RentalEdits : UpdateRental(x, s)
  BY <1>4 DEF UpdateRental
<1>5. ASSUME NEW h \in Handlers, BookingStep(h)
      PROVE  FALSE
  <2>1. ~ConfirmBookingRequest_Commit(h)
    BY <1>1, CommitKeepsTrack DEF ConfirmBookingRequest_Commit
  <2> QED
    BY <1>2, <1>5, <2>1 DEF BookingStep, CreateBookingRequest_ReadRoom,
       CreateBookingRequest_FindExisting, CreateBookingRequest_Insert,
       UpdateBookingRequest_Read, UpdateBookingRequest_Write, ConfirmBookingRequest_Read,
       ConfirmBookingRequest_Mark, ConfirmBookingRequest_CheckInstance,
       ConfirmBookingRequest_CheckTenant, CancelBookingRequest_Read,
       CancelBookingRequest_Write, NotBookings
<1>6. ASSUME NEW h \in Handlers, InvitationStep(h)
      PROVE  FALSE
  <2>1. ~ConfirmRoomInvitation_Commit(h)
    BY <1>1, CommitKeepsTrack DEF ConfirmRoomInvitation_Commit
  <2> QED
    BY <1>2, <1>6, <2>1 DEF InvitationStep, CreateRoomInvitation_ReadRoom,
       CreateRoomInvitation_FindInvitation, CreateRoomInvitation_FindBooking,
       CreateRoomInvitation_Insert, UpdateRoomInvitation_Read,
       UpdateRoomInvitation_FindInstance, UpdateRoomInvitation_Write,
       ConfirmRoomInvitation_Read, ConfirmRoomInvitation_Mark,
       ConfirmRoomInvitation_CheckInstance, ConfirmRoomInvitation_CheckTenant,
       WithdrawRoomInvitation_Read, WithdrawRoomInvitation_Write, NotInvitations
<1>7. ASSUME NEW h \in Handlers, RentalStep(h)
      PROVE  call[h].at \in LooseWrites /\ call'[h] # call[h]
  <2>1. CASE CreateRental_Occupy(h)
    <3>1. UNCHANGED rentals /\ instances' = [instances EXCEPT ![call[h].inst] = "occupied"]
      BY <2>1 DEF CreateRental_Occupy, NotRentals
    <3>2. instances'[i] = instances[i]
      BY <1>1, <3>1 DEF TypeOK
    <3> QED
      BY <3>1, <3>2, QueriesKept
  <2>2. CASE TerminateRental_Write(h)
    <3>1. /\ UNCHANGED instances
          /\ rentals' = [rentals EXCEPT ![call[h].rental].status = "terminated"]
      BY <2>2 DEF TerminateRental_Write
    <3>2. LiveOn(i)' \subseteq LiveOn(i)
      BY <1>1, <3>1, StoreAssumption DEF TypeOK, LiveOn
    <3> QED
      BY <3>1, <3>2
  <2>3. CASE CreateRental_Insert(h)
    BY <1>1, <1>2, <2>3 DEF CreateRental_Insert, TypeOK, Frame, At, LooseWrites, GotoWritten
  <2>4. CASE TerminateRental_Release(h)
    BY <1>1, <2>4 DEF TerminateRental_Release, TypeOK, At, LooseWrites, ReturnWritten, Idle
  <2>5. CASE RenewRental_Write(h)
    BY <1>1, <2>5 DEF RenewRental_Write, TypeOK, At, LooseWrites, ReturnWritten, Idle
  <2>6. CASE RoomInstanceStatus_Write(h)
    BY <1>1, <2>6 DEF RoomInstanceStatus_Write, TypeOK, At, LooseWrites, ReturnWritten, Idle
  <2>7. \A t, j, b : ~CreateRental_FindExisting(h, t, j, b)
    BY <1>2 DEF CreateRental_FindExisting
  <2>8. ~CreateRental_ReadBooking(h)
    BY <1>2 DEF CreateRental_ReadBooking
  <2>9. \A x : ~TerminateRental_Read(h, x) /\ ~RenewRental_Read(h, x)
    BY <1>2 DEF TerminateRental_Read, RenewRental_Read
  <2>10. \A j, s : ~UpdateRoomInstanceStatus_Read(h, j, s)
    BY <1>2 DEF UpdateRoomInstanceStatus_Read
  <2>11. \A r, is, s : ~BulkUpdateRoomInstanceStatus_Read(h, r, is, s)
    BY <1>2 DEF BulkUpdateRoomInstanceStatus_Read
  <2> QED
    BY <1>7, <2>1, <2>2, <2>3, <2>4, <2>5, <2>6, <2>7, <2>8, <2>9, <2>10, <2>11
       DEF RentalStep
<1>8. \A h \in Handlers : ~Crash(h)
  BY <1>2 DEF Crash
<1> QED
  BY <1>3, <1>4, <1>5, <1>6, <1>7, <1>8 DEF Next

(* An instance is shown as available to others than its tenant only after  *)
(* one of the writes named in LooseWrites, or an edit of a rental.         *)
THEOREM LooseWritesAlone == Spec => OnlyLooseWritesLoseTrack
<1>1. IInv /\ [Next]_vars =>
         [\A i \in Instances :
            /\ instances'[i] = "available" /\ LiveOn(i)' # {}
            /\ ~(instances[i] = "available" /\ LiveOn(i) # {})
            => \/ \E h \in Handlers : call[h].at \in LooseWrites /\ call'[h] # call[h]
               \/ UNCHANGED call]_vars
  BY OnlyLooseWrites
<1> QED
  BY <1>1, Invariant, PTL DEF Spec, OnlyLooseWritesLoseTrack

-----------------------------------------------------------------------------
(* Refinement.  What a step changes of the state the abstract              *)
(* specifications see is one of the following, for one request at most.    *)

asks == <<AskedBookings, AskedInvitations>>
seals == <<SealedBookings, SealedInvitations>>
rents == <<RentedBookings, RentedInvitations>>

Asking ==
    /\ UNCHANGED <<agreed, seals, rents>>
    /\ \/ /\ UNCHANGED AskedInvitations
          /\ \E b \in BookingIds \ AskedBookings : AskedBookings' = AskedBookings \cup {b}
       \/ /\ UNCHANGED AskedBookings
          /\ \E v \in InvitationIds \ AskedInvitations :
                AskedInvitations' = AskedInvitations \cup {v}

Agreeing ==
    /\ UNCHANGED <<asks, seals, rents>>
    /\ \E q \in AskedBookings \cup AskedInvitations : agreed' = agreed \cup {q}

Sealing ==
    /\ UNCHANGED <<asks, agreed, rents>>
    /\ \/ /\ UNCHANGED SealedInvitations
          /\ \E b \in BookingIds \cap agreed : SealedBookings' = SealedBookings \cup {b}
       \/ /\ UNCHANGED SealedBookings
          /\ \E v \in InvitationIds \cap agreed :
                SealedInvitations' = SealedInvitations \cup {v}

Renting ==
    /\ UNCHANGED <<asks, agreed, seals>>
    /\ \/ /\ UNCHANGED RentedInvitations
          /\ \E b \in (BookingIds \cap agreed) \ RentedBookings :
                RentedBookings' = RentedBookings \cup {b}
       \/ /\ UNCHANGED RentedBookings
          /\ \E v \in (InvitationIds \cap agreed \cap SealedInvitations)
                       \ RentedInvitations :
                RentedInvitations' = RentedInvitations \cup {v}

Consenting ==
    \/ Asking \/ Agreeing \/ Sealing \/ Renting
    \/ UNCHANGED <<asks, agreed, seals, rents>>

LEMMA RequestsUnchanged ==
    ASSUME UNCHANGED <<bookings, invitations>>
    PROVE  UNCHANGED <<asks, seals>>
BY DEF asks, seals, AskedBookings, AskedInvitations, SealedBookings, SealedInvitations

LEMMA RentsUnchanged ==
    ASSUME UNCHANGED rentals
    PROVE  UNCHANGED rents
BY DEF rents, RentedBookings, RentedInvitations

(* Editing the status of a rental does not undo its request. *)
LEMMA RentsKept ==
    ASSUME IInv, NEW x \in RentalIds, rentals[x] # Null, NEW s \in RentalStatus,
           rentals' = [rentals EXCEPT ![x].status = s]
    PROVE  UNCHANGED rents
<1>1. rentals[x] \in Rental /\ rentals'[x] = [rentals[x] EXCEPT !.status = s]
      /\ rentals'[x] \in Rental
      /\ \A y \in RentalIds \ {x} : rentals'[y] = rentals[y]
  BY DEF IInv, InvFor, TypeOK, Rental
<1>2. /\ rentals'[x].booking = rentals[x].booking
      /\ rentals'[x].invitation = rentals[x].invitation
      /\ rentals'[x] # Null
  BY <1>1, StoreAssumption DEF Rental
<1> QED
  BY <1>1, <1>2 DEF rents, RentedBookings, RentedInvitations

(* An insert rents out the request its row names, for the first time. *)
LEMMA RentsInserted ==
    ASSUME IInv, NEW row \in Rental, InsertRental(row), NotYetRented(row),
           RowFollowsConsent(row), UNCHANGED NotRentals,
           row.booking = Null \/ row.invitation = Null
    PROVE  Consenting
<1> PICK x \in RentalIds : rentals[x] = Null /\ rentals' = [rentals EXCEPT ![x] = row]
  BY DEF InsertRental
<1>1. /\ rentals'[x] = row /\ row # Null
      /\ \A y \in RentalIds \ {x} : rentals'[y] = rentals[y]
  BY StoreAssumption DEF IInv, InvFor, TypeOK
<1>2. row.booking \in BookingIds \cup {Null} /\ row.invitation \in InvitationIds \cup {Null}
  BY DEF Rental
<1>3. Null \notin BookingIds /\ Null \notin InvitationIds
  BY StoreAssumption
<1>4. RentedBookings' = RentedBookings \cup ({row.booking} \ {Null})
  BY <1>1, <1>2, <1>3 DEF RentedBookings
<1>5. RentedInvitations' = RentedInvitations \cup ({row.invitation} \ {Null})
  BY <1>1, <1>2, <1>3 DEF RentedInvitations
<1>6. UNCHANGED <<asks, agreed, seals>>
  BY RequestsUnchanged DEF NotRentals
<1>7. row.booking # Null => row.booking \in (BookingIds \cap agreed) \ RentedBookings
  BY <1>2 DEF RowFollowsConsent, NotYetRented, RentedBookings
<1>8. row.invitation # Null =>
         row.invitation \in (InvitationIds \cap agreed \cap SealedInvitations)
                           \ RentedInvitations
  BY <1>2 DEF RowFollowsConsent, NotYetRented, RentedInvitations, SealedInvitations
<1>9. CASE row.booking # Null
  BY <1>4, <1>5, <1>6, <1>7, <1>9 DEF Consenting, Renting
<1>10. CASE row.invitation # Null
  BY <1>4, <1>5, <1>6, <1>8, <1>10 DEF Consenting, Renting
<1>11. CASE row.booking = Null /\ row.invitation = Null
  BY <1>4, <1>5, <1>6, <1>11 DEF Consenting, rents
<1> QED
  BY <1>9, <1>10, <1>11

LEMMA RentalConsents ==
    ASSUME IInv, NEW h \in Handlers, NEW row \in Rental, CommitRental(h, row),
           RowFollowsConsent(row), row.booking = Null \/ row.invitation = Null,
           UNCHANGED NotRentals
    PROVE  Consenting
<1>1. CASE UNCHANGED rentals
  BY <1>1, RequestsUnchanged, RentsUnchanged DEF Consenting, NotRentals
<1> QED
  BY <1>1, RentsInserted DEF CommitRental

LEMMA BookingConsents ==
    ASSUME IInv, NEW h \in Handlers, BookingStep(h)
    PROVE  Consenting
<1> USE DEF At
<1>1. TypeOK
  BY DEF IInv, InvFor
<1>2. CASE UNCHANGED tables
  BY <1>2, RequestsUnchanged, RentsUnchanged DEF Consenting, tables
<1>3. CASE CreateBookingRequest_Insert(h)
  <2> DEFINE q == [tenant |-> call[h].tenant, room |-> call[h].room,
                   status |-> "pending", confirmed |-> FALSE]
  <2>1. q \in Request
    BY <1>3 DEF IInv, InvFor, FrameOK, CreateBookingRequest_Insert, Request, RequestStatus
  <2>2. PICK b \in BookingIds : bookings[b] = Null /\ bookings' = [bookings EXCEPT ![b] = q]
    BY <1>3 DEF CreateBookingRequest_Insert
  <2>3. /\ bookings'[b] = q /\ bookings'[b] # Null /\ ~bookings'[b].confirmed
        /\ \A c \in BookingIds \ {b} : bookings'[c] = bookings[c]
    BY <1>1, <2>1, <2>2, StoreAssumption DEF TypeOK
  <2>4. UNCHANGED <<invitations, rentals, agreed>>
    BY <1>3 DEF CreateBookingRequest_Insert, NotBookings
  <2>5. /\ AskedBookings' = AskedBookings \cup {b}
        /\ b \in BookingIds \ AskedBookings
        /\ UNCHANGED SealedBookings
    BY <2>2, <2>3 DEF AskedBookings, SealedBookings
  <2>6. UNCHANGED <<AskedInvitations, SealedInvitations>>
    BY <2>4 DEF AskedInvitations, SealedInvitations
  <2> QED
    BY <2>4, <2>5, <2>6, RentsUnchanged DEF Consenting, Asking, seals
<1>4. ASSUME NEW b \in BookingIds, bookings[b] # Null, NEW s \in RequestStatus,
             bookings' = [bookings EXCEPT ![b].status = s],
             UNCHANGED <<invitations, rentals>>
      PROVE  UNCHANGED <<asks, seals, rents>>
  <2>1. /\ bookings'[b] # Null
        /\ bookings'[b].confirmed = bookings[b].confirmed
        /\ \A c \in BookingIds \ {b} : bookings'[c] = bookings[c]
    BY <1>1, <1>4, StoreAssumption DEF TypeOK, Request
  <2>2. UNCHANGED <<AskedBookings, SealedBookings>>
    BY <1>4, <2>1 DEF AskedBookings, SealedBookings
  <2>3. UNCHANGED <<AskedInvitations, SealedInvitations>>
    BY <1>4 DEF AskedInvitations, SealedInvitations
  <2> QED
    BY <1>4, <2>2, <2>3, RentsUnchanged DEF asks, seals
<1>5. CASE UpdateBookingRequest_Write(h)
  <2>1. PICK b \in BookingIds : b = call[h].req /\ bookings[b] # Null
    BY <1>5 DEF IInv, InvFor, FrameOK, UpdateBookingRequest_Write
  <2>2. PICK s \in RequestStatus : s = call[h].status
    BY <1>5 DEF IInv, InvFor, FrameOK, UpdateBookingRequest_Write
  <2>3. UNCHANGED <<asks, seals, rents>>
    BY <1>4, <1>5, <2>1, <2>2 DEF UpdateBookingRequest_Write, NotBookings
  <2>4. b \in AskedBookings /\ (agreed' = agreed \cup {b} \/ agreed' = agreed)
    BY <1>5, <2>1 DEF UpdateBookingRequest_Write, AskedBookings
  <2> QED
    BY <2>3, <2>4 DEF Consenting, Agreeing
<1>6. CASE CancelBookingRequest_Write(h)
  <2>1. PICK b \in BookingIds : b = call[h].req /\ bookings[b] # Null
    BY <1>6 DEF IInv, InvFor, FrameOK, CancelBookingRequest_Write
  <2>2. PICK s \in RequestStatus : s = "cancelled"
    BY DEF RequestStatus
  <2>3. UNCHANGED <<asks, seals, rents>>
    BY <1>4, <1>6, <2>1, <2>2 DEF CancelBookingRequest_Write, NotBookings
  <2> QED
    BY <1>6, <2>3 DEF Consenting, CancelBookingRequest_Write
<1>7. CASE ConfirmBookingRequest_Mark(h)
  <2> DEFINE b == call[h].req
  <2>1. b \in BookingIds \cap agreed /\ bookings[b] # Null
    BY <1>7 DEF IInv, InvFor, FrameOK, ConfirmBookingRequest_Mark, BookingConfirmLabels
  <2>2. /\ bookings'[b] # Null
        /\ bookings'[b].confirmed
        /\ \A c \in BookingIds \ {b} : bookings'[c] = bookings[c]
    BY <1>1, <1>7, <2>1, StoreAssumption DEF ConfirmBookingRequest_Mark, TypeOK, Request,
       RequestStatus
  <2>3. UNCHANGED <<invitations, rentals, agreed>>
    BY <1>7 DEF ConfirmBookingRequest_Mark, NotBookings
  <2>4. UNCHANGED AskedBookings /\ SealedBookings' = SealedBookings \cup {b}
    BY <2>1, <2>2 DEF AskedBookings, SealedBookings
  <2>5. UNCHANGED <<AskedInvitations, SealedInvitations>>
    BY <2>3 DEF AskedInvitations, SealedInvitations
  <2> QED
    BY <2>1, <2>3, <2>4, <2>5, RentsUnchanged DEF Consenting, Sealing, asks
<1>8. CASE ConfirmBookingRequest_Commit(h)
  BY <1>8, BookingRentalRow, RentalConsents DEF IInv
<1> QED
  BY <1>2, <1>3, <1>5, <1>6, <1>7, <1>8 DEF BookingStep, CreateBookingRequest_ReadRoom,
     CreateBookingRequest_FindExisting, UpdateBookingRequest_Read,
     ConfirmBookingRequest_Read, ConfirmBookingRequest_CheckInstance,
     ConfirmBookingRequest_CheckTenant, CancelBookingRequest_Read, NotBookings, tables

LEMMA InvitationConsents ==
    ASSUME IInv, NEW h \in Handlers, InvitationStep(h)
    PROVE  Consenting
<1> USE DEF At
<1>1. TypeOK
  BY DEF IInv, InvFor
<1>2. CASE UNCHANGED tables
  BY <1>2, RequestsUnchanged, RentsUnchanged DEF Consenting, tables
<1>3. CASE CreateRoomInvitation_Insert(h)
  <2> DEFINE q == [tenant |-> call[h].tenant, room |-> call[h].room,
                   status |-> "pending", confirmed |-> FALSE]
  <2>1. q \in Request
    BY <1>3 DEF IInv, InvFor, FrameOK, CreateRoomInvitation_Insert, Request, RequestStatus
  <2>2. PICK v \in InvitationIds :
                 invitations[v] = Null /\ invitations' = [invitations EXCEPT ![v] = q]
    BY <1>3 DEF CreateRoomInvitation_Insert
  <2>3. /\ invitations'[v] = q /\ invitations'[v] # Null /\ ~invitations'[v].confirmed
        /\ \A c \in InvitationIds \ {v} : invitations'[c] = invitations[c]
    BY <1>1, <2>1, <2>2, StoreAssumption DEF TypeOK
  <2>4. UNCHANGED <<bookings, rentals, agreed>>
    BY <1>3 DEF CreateRoomInvitation_Insert, NotInvitations
  <2>5. /\ AskedInvitations' = AskedInvitations \cup {v}
        /\ v \in InvitationIds \ AskedInvitations
        /\ UNCHANGED SealedInvitations
    BY <2>2, <2>3 DEF AskedInvitations, SealedInvitations
  <2>6. UNCHANGED <<AskedBookings, SealedBookings>>
    BY <2>4 DEF AskedBookings, SealedBookings
  <2> QED
    BY <2>4, <2>5, <2>6, RentsUnchanged DEF Consenting, Asking, seals
<1>4. ASSUME NEW v \in InvitationIds, invitations[v] # Null, NEW s \in RequestStatus,
             invitations' = [invitations EXCEPT ![v].status = s],
             UNCHANGED <<bookings, rentals>>
      PROVE  UNCHANGED <<asks, seals, rents>>
  <2>1. /\ invitations'[v] # Null
        /\ invitations'[v].confirmed = invitations[v].confirmed
        /\ \A c \in InvitationIds \ {v} : invitations'[c] = invitations[c]
    BY <1>1, <1>4, StoreAssumption DEF TypeOK, Request
  <2>2. UNCHANGED <<AskedInvitations, SealedInvitations>>
    BY <1>4, <2>1 DEF AskedInvitations, SealedInvitations
  <2>3. UNCHANGED <<AskedBookings, SealedBookings>>
    BY <1>4 DEF AskedBookings, SealedBookings
  <2> QED
    BY <1>4, <2>2, <2>3, RentsUnchanged DEF asks, seals
<1>5. CASE UpdateRoomInvitation_Write(h)
  <2>1. PICK v \in InvitationIds : v = call[h].req /\ invitations[v] # Null
    BY <1>5 DEF IInv, InvFor, FrameOK, UpdateRoomInvitation_Write
  <2>2. PICK s \in RequestStatus : s = call[h].status
    BY <1>5 DEF IInv, InvFor, FrameOK, UpdateRoomInvitation_Write
  <2>3. UNCHANGED <<asks, seals, rents>>
    BY <1>4, <1>5, <2>1, <2>2 DEF UpdateRoomInvitation_Write, NotInvitations
  <2>4. v \in AskedInvitations /\ (agreed' = agreed \cup {v} \/ agreed' = agreed)
    BY <1>5, <2>1 DEF UpdateRoomInvitation_Write, AskedInvitations
  <2> QED
    BY <2>3, <2>4 DEF Consenting, Agreeing
<1>6. CASE WithdrawRoomInvitation_Write(h)
  <2>1. PICK v \in InvitationIds : v = call[h].req /\ invitations[v] # Null
    BY <1>6 DEF IInv, InvFor, FrameOK, WithdrawRoomInvitation_Write
  <2>2. PICK s \in RequestStatus : s = "cancelled"
    BY DEF RequestStatus
  <2>3. UNCHANGED <<asks, seals, rents>>
    BY <1>4, <1>6, <2>1, <2>2 DEF WithdrawRoomInvitation_Write, NotInvitations
  <2> QED
    BY <1>6, <2>3 DEF Consenting, WithdrawRoomInvitation_Write
<1>7. CASE ConfirmRoomInvitation_Mark(h)
  <2> DEFINE v == call[h].req
  <2>1. v \in InvitationIds \cap agreed /\ invitations[v] # Null
    BY <1>7 DEF IInv, InvFor, FrameOK, ConfirmRoomInvitation_Mark, InvitationConfirmLabels
  <2>2. /\ invitations'[v] # Null
        /\ invitations'[v].confirmed
        /\ \A c \in InvitationIds \ {v} : invitations'[c] = invitations[c]
    BY <1>1, <1>7, <2>1, StoreAssumption DEF ConfirmRoomInvitation_Mark, TypeOK, Request,
       RequestStatus
  <2>3. UNCHANGED <<bookings, rentals, agreed>>
    BY <1>7 DEF ConfirmRoomInvitation_Mark, NotInvitations
  <2>4. UNCHANGED AskedInvitations /\ SealedInvitations' = SealedInvitations \cup {v}
    BY <2>1, <2>2 DEF AskedInvitations, SealedInvitations
  <2>5. UNCHANGED <<AskedBookings, SealedBookings>>
    BY <2>3 DEF AskedBookings, SealedBookings
  <2> QED
    BY <2>1, <2>3, <2>4, <2>5, RentsUnchanged DEF Consenting, Sealing, asks
<1>8. CASE ConfirmRoomInvitation_Commit(h)
  BY <1>8, InvitationRentalRow, RentalConsents DEF IInv
<1> QED
  BY <1>2, <1>3, <1>5, <1>6, <1>7, <1>8 DEF InvitationStep, CreateRoomInvitation_ReadRoom,
     CreateRoomInvitation_FindInvitation,
     CreateRoomInvitation_FindBooking, UpdateRoomInvitation_FindInstance,
     UpdateRoomInvitation_Read,
     ConfirmRoomInvitation_Read, ConfirmRoomInvitation_CheckInstance,
     ConfirmRoomInvitation_CheckTenant, WithdrawRoomInvitation_Read, NotInvitations, tables

LEMMA RentalConsentSteps ==
    ASSUME IInv, NEW h \in Handlers, RentalStep(h)
    PROVE  Consenting
<1> USE DEF At
<1>1. UNCHANGED NotRentals
  BY DEF RentalStep, CreateRental_FindExisting, CreateRental_ReadBooking,
     CreateRental_Insert, CreateRental_Occupy, TerminateRental_Read,
     TerminateRental_Write, TerminateRental_Release, RenewRental_Read, RenewRental_Write,
     UpdateRoomInstanceStatus_Read, BulkUpdateRoomInstanceStatus_Read,
     RoomInstanceStatus_Write
<1>2. CASE UNCHANGED rentals
  BY <1>1, <1>2, RequestsUnchanged, RentsUnchanged DEF Consenting, NotRentals
<1>3. ASSUME NEW x \in RentalIds, rentals[x] # Null, NEW s \in RentalStatus,
             rentals' = [rentals EXCEPT ![x].status = s]
      PROVE  Consenting
  BY <1>1, <1>3, RequestsUnchanged, RentsKept DEF Consenting, NotRentals
<1>4. CASE CreateRental_Insert(h)
  BY <1>2, <1>4, CreateRentalRow, RentsInserted DEF IInv
<1>5. CASE TerminateRental_Write(h)
  <2>1. call[h].rental \in RentalIds /\ rentals[call[h].rental] # Null
    BY <1>5 DEF IInv, InvFor, FrameOK, TerminateRental_Write
  <2>2. "terminated" \in RentalStatus
    BY DEF RentalStatus
  <2> QED
    BY <1>3, <1>5, <2>1, <2>2 DEF TerminateRental_Write
<1>6. CASE RenewRental_Write(h)
  <2>1. call[h].rental \in RentalIds /\ rentals[call[h].rental] # Null
    BY <1>6 DEF IInv, InvFor, FrameOK, RenewRental_Write
  <2>2. "pending_renewal" \in RentalStatus
    BY DEF RentalStatus
  <2> QED
    BY <1>3, <1>6, <2>1, <2>2 DEF RenewRental_Write
<1> QED
  BY <1>2, <1>4, <1>5, <1>6 DEF RentalStep, CreateRental_FindExisting,
     CreateRental_ReadBooking, CreateRental_Occupy, TerminateRental_Read,
     TerminateRental_Release, RenewRental_Read, UpdateRoomInstanceStatus_Read,
     BulkUpdateRoomInstanceStatus_Read, RoomInstanceStatus_Write

LEMMA ConsentStep == IInv /\ [Next]_vars => Consenting
<1> SUFFICES ASSUME IInv, [Next]_vars PROVE Consenting
  OBVIOUS
<1>1. CASE UNCHANGED tables
  BY <1>1, RequestsUnchanged, RentsUnchanged DEF Consenting, tables
<1>2. ASSUME NEW x \in RentalIds, NEW s \in RentalEdits, UpdateRental(x, s)
      PROVE  Consenting
  <2>1. s \in RentalStatus
    BY StoreAssumption
  <2> QED
    BY <1>2, <2>1, RequestsUnchanged, RentsKept DEF UpdateRental, NotRentals, Consenting
<1>3. ASSUME NEW h \in Handlers, Crash(h) PROVE Consenting
  BY <1>1, <1>3 DEF Crash, tables
<1>4. CASE UNCHANGED vars
  BY <1>1, <1>4 DEF vars, tables
<1> QED
  BY <1>2, <1>3, <1>4, BookingConsents, InvitationConsents, RentalConsentSteps DEF Next

(* Bookings of any number of tenants, served by any number of handlers,     *)
(* implement the consent of two parties.                                   *)
THEOREM BookingsRefineConsent == Spec => BookingsImplementConsent
<1>1. Init => BookingConsent!Init
  BY DEF Init, BookingConsent!Init, AskedBookings, SealedBookings, RentedBookings
<1>2. Consenting => [BookingConsent!Next]_(BookingConsent!consentVars)
  <2>1. BookingIds \cap InvitationIds = {}
    BY StoreAssumption
  <2>2. AskedBookings \subseteq BookingIds /\ AskedInvitations \subseteq InvitationIds
    BY DEF AskedBookings, AskedInvitations
  <2>3. Asking => [BookingConsent!Next]_(BookingConsent!consentVars)
    BY DEF Asking, asks, seals, rents, BookingConsent!Next, BookingConsent!Ask,
       BookingConsent!consentVars
  <2>4. Agreeing => [BookingConsent!Next]_(BookingConsent!consentVars)
    BY <2>1, <2>2 DEF Agreeing, asks, seals, rents, BookingConsent!Next,
       BookingConsent!Agree, BookingConsent!consentVars
  <2>5. Sealing => [BookingConsent!Next]_(BookingConsent!consentVars)
    BY DEF Sealing, asks, seals, rents, BookingConsent!Next, BookingConsent!Seal,
       BookingConsent!consentVars
  <2>6. Renting => [BookingConsent!Next]_(BookingConsent!consentVars)
    BY DEF Renting, asks, seals, rents, BookingConsent!Next, BookingConsent!Rent,
       BookingConsent!consentVars
  <2> QED
    BY <2>3, <2>4, <2>5, <2>6 DEF Consenting, asks, seals, rents,
       BookingConsent!consentVars
<1>3. IInv /\ [Next]_vars => [BookingConsent!Next]_(BookingConsent!consentVars)
  BY <1>2, ConsentStep
<1> QED
  BY <1>1, <1>3, Invariant, PTL DEF Spec, BookingsImplementConsent, BookingConsent!Spec

(* So do invitations, with the landlord's confirmation as well. *)
THEOREM InvitationsRefineConsent == Spec => InvitationsImplementConsent
<1>1. Init => InvitationConsent!Init
  BY DEF Init, InvitationConsent!Init, AskedInvitations, SealedInvitations,
     RentedInvitations
<1>2. Consenting => [InvitationConsent!Next]_(InvitationConsent!consentVars)
  <2>1. BookingIds \cap InvitationIds = {}
    BY StoreAssumption
  <2>2. AskedBookings \subseteq BookingIds /\ AskedInvitations \subseteq InvitationIds
    BY DEF AskedBookings, AskedInvitations
  <2>3. Asking => [InvitationConsent!Next]_(InvitationConsent!consentVars)
    BY DEF Asking, asks, seals, rents, InvitationConsent!Next, InvitationConsent!Ask,
       InvitationConsent!consentVars
  <2>4. Agreeing => [InvitationConsent!Next]_(InvitationConsent!consentVars)
    BY <2>1, <2>2 DEF Agreeing, asks, seals, rents, InvitationConsent!Next,
       InvitationConsent!Agree, InvitationConsent!consentVars
  <2>5. Sealing => [InvitationConsent!Next]_(InvitationConsent!consentVars)
    BY DEF Sealing, asks, seals, rents, InvitationConsent!Next, InvitationConsent!Seal,
       InvitationConsent!consentVars
  <2>6. Renting => [InvitationConsent!Next]_(InvitationConsent!consentVars)
    BY DEF Renting, asks, seals, rents, InvitationConsent!Next, InvitationConsent!Rent,
       InvitationConsent!consentVars
  <2> QED
    BY <2>3, <2>4, <2>5, <2>6 DEF Consenting, asks, seals, rents,
       InvitationConsent!consentVars
<1>3. IInv /\ [Next]_vars => [InvitationConsent!Next]_(InvitationConsent!consentVars)
  BY <1>2, ConsentStep
<1> QED
  BY <1>1, <1>3, Invariant, PTL
     DEF Spec, InvitationsImplementConsent, InvitationConsent!Spec

(* Both at once: the steps of either kind of request, and their rentals,    *)
(* implement two consents side by side.                                    *)
THEOREM RequestsRefineConsent == Spec => RequestsImplementConsent
BY BookingsRefineConsent, InvitationsRefineConsent DEF RequestsImplementConsent

-----------------------------------------------------------------------------
(* Landlord: rooms and their physical rooms. *)

Enlarges(h, r) == AtDesk(h, "update:commit") /\ desk[h].room = r

(* Unless another handler enlarges the same room, the total it has read is *)
(* the one there is.                                                       *)
EnlargementOK(h) ==
    AtDesk(h, "update:commit") =>
        /\ desk[h].room \in Rooms /\ desk[h].total \in Nat /\ desk[h].read \in Nat
        /\ desk[h].total > desk[h].read
        /\ Offered(desk[h].room) \/ desk[h].room \in gone
        /\ desk[h].room \notin miscounted =>
              /\ Offered(desk[h].room) => totals[desk[h].room] = desk[h].read
              /\ \A g \in Handlers \ {h} : ~Enlarges(g, desk[h].room)

RemovalOK(h) == AtDesk(h, "remove:delete") => desk[h].rooms \subseteq Rooms

RoomsOK ==
    /\ built \subseteq Instances
    /\ totals \in [Rooms -> Nat \cup {Null}]
    /\ DOMAIN desk = Handlers
    /\ \A h \in Handlers : EnlargementOK(h) /\ RemovalOK(h)
    /\ \A r \in Rooms : Offered(r) \/ BuiltIn({r}) = {}
    /\ TotalsAgree

(* Ratings. *)

RatingLabels == {"rating:change", "rating:read", "rating:commit"}

(* A frame says what becomes of the rating, and of which target it is.     *)
ChangeOK(h) ==
    desk[h].at \in RatingLabels =>
        LET f == desk[h] IN
        /\ f.of \in Rated /\ f.row \in Rating \cup {Null}
        /\ f.row # Null => f.row.of = f.of
        /\ f.at = "rating:change" =>
              \/ f.id = Null
              \/ /\ f.id \in RatingIds
                 /\ f.id \in gone \/ (ratings[f.id] # Null /\ ratings[f.id].of = f.of)
        /\ InTransaction(h) =>
              /\ f.id \in RatingIds \ gone
              /\ ratings[f.id] = Null \/ ratings[f.id].of = f.of
              /\ \A g \in Handlers \ {h} : InTransaction(g) => desk[g].id # f.id

(* What a handler found that no commit has overtaken is still so. *)
FreshOK(h) ==
    AtDesk(h, "rating:commit") /\ desk[h].result = Tally(Seen(desk[h]), desk[h].of)

RatingsOK ==
    /\ ratings \in [RatingIds -> Rating \cup {Null}]
    /\ \A g \in RatingIds \cap gone : ratings[g] = Null
    /\ DOMAIN overall = Rated
    /\ \A h \in Handlers : ChangeOK(h)
    /\ fresh \subseteq Handlers
    /\ \A h \in fresh : FreshOK(h)
    /\ \A t \in Rated : IsThere(t) \/ t \in gone \/ OfTarget(ratings, t) = {}
    /\ OverallIsThatOfRatings

LandlordIInv == RoomsOK /\ RatingsOK

-----------------------------------------------------------------------------
(* A step that leaves rooms and totals alone, and starts no enlargement,   *)
(* keeps what is said of them.                                             *)
RoomsAlone ==
    /\ UNCHANGED <<built, totals, miscounted>>
    /\ gone \subseteq gone'
    /\ DOMAIN desk' = Handlers
    /\ \A h \in Handlers : desk'[h].at = "update:commit" => desk'[h] = desk[h]
    /\ \A h \in Handlers : RemovalOK(h)'

LEMMA RoomsAloneKeep ==
    ASSUME RoomsOK, RoomsAlone
    PROVE  RoomsOK'
<1>1. \A r \in Rooms : (Offered(r) <=> Offered(r)') /\ BuiltIn({r})' = BuiltIn({r})
    BY DEF RoomsAlone, Offered, BuiltIn
<1>2. TotalsAgree'
    BY <1>1 DEF RoomsOK, RoomsAlone, TotalsAgree
<1>3. ASSUME NEW h \in Handlers
      PROVE  EnlargementOK(h)'
    <2>1. SUFFICES ASSUME AtDesk(h, "update:commit")'
                   PROVE  EnlargementOK(h)'
        BY DEF EnlargementOK
    <2>2. desk'[h] = desk[h] /\ AtDesk(h, "update:commit")
        BY <2>1 DEF RoomsAlone, AtDesk
    <2>3. \A g \in Handlers : Enlarges(g, desk[h].room)' => Enlarges(g, desk[h].room)
        BY <2>2 DEF RoomsAlone, AtDesk, Enlarges
    <2>4. EnlargementOK(h)
        BY DEF RoomsOK
    <2> QED BY <1>1, <2>2, <2>3, <2>4 DEF EnlargementOK, RoomsAlone, Enlarges, AtDesk
<1> QED BY <1>1, <1>2, <1>3 DEF RoomsOK, RoomsAlone

(* A handler's frame changes, and it enlarges nothing. *)
LEMMA FrameMoves ==
    ASSUME RoomsOK, UNCHANGED <<built, totals, miscounted>>, gone \subseteq gone',
           NEW h \in Handlers, NEW frame, desk' = [desk EXCEPT ![h] = frame],
           frame.at # "update:commit", frame.at = "remove:delete" => frame.rooms \subseteq Rooms
    PROVE  RoomsOK'
<1>1. RoomsAlone
    BY DEF RoomsOK, RoomsAlone, RemovalOK, AtDesk
<1> QED BY <1>1, RoomsAloneKeep

(* The physical rooms that are built are counted once. *)
LEMMA BuildCounts ==
    ASSUME RoomsOK, NEW r \in Rooms, NEW n \in Nat, Build(r, n)
    PROVE  /\ built' \subseteq Instances
           /\ \A q \in Rooms \ {r} : BuiltIn({q})' = BuiltIn({q})
           /\ Cardinality(BuiltIn({r})') = Cardinality(BuiltIn({r})) + n
           /\ Cardinality(BuiltIn({r})) \in Nat
<1>1. PICK new \in SUBSET {i \in Instances \ built : RoomOf[i] = r} :
          Cardinality(new) = n /\ built' = built \cup new
    BY DEF Build
<1>2. BuiltIn({r})' = BuiltIn({r}) \cup new
    BY <1>1 DEF BuiltIn
<1>3. BuiltIn({r}) \cap new = {}
    BY <1>1 DEF BuiltIn
<1>4. IsFiniteSet(new) /\ IsFiniteSet(BuiltIn({r}))
    BY <1>1, FS_Subset, UpkeepAssumption DEF BuiltIn, RoomsOK
<1>5. /\ Cardinality(BuiltIn({r}) \cup new)
            = Cardinality(BuiltIn({r})) + Cardinality(new) - Cardinality(BuiltIn({r}) \cap new)
      /\ Cardinality(BuiltIn({r})) \in Nat
    BY <1>4, FS_Union, FS_CardinalityType
<1>6. Cardinality(BuiltIn({r}) \cap new) = 0
    BY <1>3, FS_EmptySet
<1>7. Cardinality(BuiltIn({r})') = Cardinality(BuiltIn({r})) + n
    <2>1. Cardinality(BuiltIn({r})') = Cardinality(BuiltIn({r}) \cup new)
        BY <1>2
    <2>2. Cardinality(BuiltIn({r}) \cup new) = Cardinality(BuiltIn({r})) + n
        BY <1>1, <1>5, <1>6
    <2> QED BY <2>1, <2>2
<1>8. \A q \in Rooms \ {r} : BuiltIn({q})' = BuiltIn({q})
    BY <1>1 DEF BuiltIn
<1> QED BY <1>1, <1>5, <1>7, <1>8 DEF RoomsOK

LEMMA CreateRoomKeepsRooms ==
    ASSUME RoomsOK, NEW r \in Rooms, NEW n \in 1..Cardinality(Instances), CreateRoom(r, n)
    PROVE  RoomsOK'
<1>1. n \in Nat /\ Build(r, n) /\ ~Offered(r) /\ r \notin gone
    BY FS_CardinalityType, UpkeepAssumption DEF CreateRoom
<1>2. UNCHANGED <<gone, desk, miscounted>> /\ totals' = [totals EXCEPT ![r] = n]
    BY DEF CreateRoom
<1>3. /\ built' \subseteq Instances
      /\ \A q \in Rooms \ {r} : BuiltIn({q})' = BuiltIn({q})
      /\ Cardinality(BuiltIn({r})') = n
    <2>1. BuiltIn({r}) = {}
        BY <1>1 DEF RoomsOK
    <2>2. Cardinality(BuiltIn({r})) = 0
        BY <2>1, FS_EmptySet
    <2> QED BY <1>1, <2>2, BuildCounts
<1>4. n # Null
    BY <1>1, UpkeepAssumption
<1>5. /\ totals' \in [Rooms -> Nat \cup {Null}]
      /\ totals'[r] = n /\ \A q \in Rooms \ {r} : totals'[q] = totals[q]
    BY <1>1, <1>2 DEF RoomsOK
<1>6. Offered(r)' /\ \A q \in Rooms \ {r} : Offered(q)' <=> Offered(q)
    BY <1>4, <1>5 DEF Offered
<1>7. \A q \in Rooms : Offered(q)' \/ BuiltIn({q})' = {}
    BY <1>3, <1>6 DEF RoomsOK
<1>8. TotalsAgree'
    BY <1>2, <1>3, <1>5, <1>6 DEF RoomsOK, TotalsAgree
<1>9. ASSUME NEW h \in Handlers
      PROVE  EnlargementOK(h)'
    <2>1. EnlargementOK(h)
        BY DEF RoomsOK
    <2>2. CASE ~AtDesk(h, "update:commit")
        BY <1>2, <2>2 DEF EnlargementOK, AtDesk
    <2>3. CASE AtDesk(h, "update:commit")
        <3>1. desk[h].room \in Rooms \ {r}
            BY <1>1, <2>1, <2>3 DEF EnlargementOK
        <3> QED BY <1>2, <1>5, <1>6, <2>1, <2>3, <3>1 DEF EnlargementOK, Enlarges, AtDesk
    <2> QED BY <2>2, <2>3
<1>10. \A h \in Handlers : RemovalOK(h)'
    BY <1>2 DEF RoomsOK, RemovalOK, AtDesk
<1> QED BY <1>2, <1>3, <1>5, <1>7, <1>8, <1>9, <1>10 DEF RoomsOK

LEMMA UpdateReadKeepsRooms ==
    ASSUME RoomsOK, NEW h \in Handlers, NEW r \in Rooms, NEW n \in Nat,
           UpdateRoom_Read(h, r, n)
    PROVE  RoomsOK'
<1> DEFINE frame == [at |-> "update:commit", room |-> r, total |-> n, read |-> totals[r]]
<1>1. /\ Offered(r) /\ n > totals[r] /\ totals[r] \in Nat
      /\ UNCHANGED <<built, totals, gone>>
    BY DEF UpdateRoom_Read, RoomsOK, Offered, upkeepVars
<1>2. PICK f : f = frame
    OBVIOUS
<1>3. /\ AtDesk(h, "idle") /\ desk'[h] = f /\ DOMAIN desk' = Handlers
      /\ \A g \in Handlers \ {h} : desk'[g] = desk[g]
    BY <1>2 DEF UpdateRoom_Read, Open, RoomsOK
<1>4. /\ miscounted \subseteq miscounted'
      /\ miscounted' \subseteq miscounted \cup {r}
      /\ r \notin miscounted' => \A g \in Handlers \ {h} : ~Enlarges(g, r)
    BY DEF UpdateRoom_Read, Enlarges
<1>5. /\ f.at = "update:commit" /\ f.room = r /\ f.total = n /\ f.read = totals[r]
    BY <1>2
<1>6. \A q \in Rooms : (Offered(q) <=> Offered(q)') /\ BuiltIn({q})' = BuiltIn({q})
    BY <1>1 DEF Offered, BuiltIn
<1>7. TotalsAgree'
    BY <1>1, <1>4, <1>6 DEF RoomsOK, TotalsAgree
<1>8. ASSUME NEW g \in Handlers
      PROVE  EnlargementOK(g)'
    <2>1. CASE g = h
        <3>1. r \notin miscounted' => \A k \in Handlers \ {h} : ~Enlarges(k, r)'
            BY <1>3, <1>4 DEF Enlarges, AtDesk
        <3> QED BY <1>1, <1>3, <1>5, <1>6, <2>1, <3>1 DEF EnlargementOK
    <2>2. CASE g # h
        <3>1. EnlargementOK(g) /\ desk'[g] = desk[g]
            BY <1>3, <2>2 DEF RoomsOK
        <3>2. SUFFICES ASSUME AtDesk(g, "update:commit")
                       PROVE  EnlargementOK(g)'
            BY <3>1 DEF EnlargementOK, AtDesk
        <3>3. desk[g].room \notin miscounted' => desk[g].room # r
            BY <1>4, <2>2, <3>2 DEF Enlarges
        <3>4. desk[g].room \notin miscounted' =>
                  \A k \in Handlers \ {g} : ~Enlarges(k, desk[g].room)'
            <4> SUFFICES ASSUME desk[g].room \notin miscounted', NEW k \in Handlers \ {g}
                         PROVE  ~Enlarges(k, desk[g].room)'
                OBVIOUS
            <4>1. CASE k = h
                BY <1>3, <1>5, <3>1, <3>3, <4>1 DEF Enlarges, AtDesk
            <4>2. CASE k # h
                <5>1. desk'[k] = desk[k] /\ ~Enlarges(k, desk[g].room)
                    BY <1>3, <1>4, <3>1, <3>2, <4>2 DEF EnlargementOK
                <5> QED BY <3>1, <5>1 DEF Enlarges, AtDesk
            <4> QED BY <4>1, <4>2
        <3> QED BY <1>1, <1>4, <1>6, <3>1, <3>2, <3>4 DEF EnlargementOK
    <2> QED BY <2>1, <2>2
<1>9. \A g \in Handlers : RemovalOK(g)'
    BY <1>3, <1>5 DEF RoomsOK, RemovalOK, AtDesk
<1> QED BY <1>1, <1>3, <1>6, <1>7, <1>8, <1>9 DEF RoomsOK

LEMMA UpdateCommitKeepsRooms ==
    ASSUME RoomsOK, NEW h \in Handlers, UpdateRoom_Commit(h)
    PROVE  RoomsOK'
<1>1. AtDesk(h, "update:commit") /\ UNCHANGED <<gone, miscounted>>
    BY DEF UpdateRoom_Commit
<1>2. CASE ~Offered(desk[h].room)
    <2>1. PICK frame : frame = [at |-> "idle"]
        OBVIOUS
    <2>2. /\ UNCHANGED <<built, totals, miscounted>> /\ frame.at = "idle"
          /\ desk' = [desk EXCEPT ![h] = frame]
        BY <1>2, <2>1 DEF UpdateRoom_Commit, Close
    <2>3. gone \subseteq gone'
        BY <1>1
    <2> QED BY <2>2, <2>3, FrameMoves
<1>3. CASE Offered(desk[h].room)
    <2>1. PICK r, n, read : r = desk[h].room /\ n = desk[h].total /\ read = desk[h].read
        OBVIOUS
    <2>2. /\ r \in Rooms /\ n \in Nat /\ read \in Nat /\ n > read
          /\ r \notin miscounted => /\ totals[r] = read
                                    /\ \A g \in Handlers \ {h} : ~Enlarges(g, r)
        BY <1>1, <1>3, <2>1 DEF RoomsOK, EnlargementOK
    <2>3. /\ Build(r, n - read) /\ totals' = [totals EXCEPT ![r] = n]
          /\ desk' = [desk EXCEPT ![h] = [at |-> "idle"]]
        BY <1>3, <2>1 DEF UpdateRoom_Commit, CloseWritten, Additional
    <2>4. /\ DOMAIN desk' = Handlers /\ ~AtDesk(h, "update:commit")'
          /\ \A g \in Handlers \ {h} : desk'[g] = desk[g]
        BY <2>3 DEF RoomsOK, AtDesk
    <2>5. n - read \in Nat
        BY <2>2
    <2>6. /\ built' \subseteq Instances
          /\ \A q \in Rooms \ {r} : BuiltIn({q})' = BuiltIn({q})
          /\ Cardinality(BuiltIn({r})') = Cardinality(BuiltIn({r})) + (n - read)
          /\ Cardinality(BuiltIn({r})) \in Nat
        BY <2>2, <2>3, <2>5, BuildCounts
    <2>7. n # Null
        BY <2>2, UpkeepAssumption
    <2>8. /\ totals' \in [Rooms -> Nat \cup {Null}]
          /\ totals'[r] = n /\ \A q \in Rooms \ {r} : totals'[q] = totals[q]
        BY <2>2, <2>3 DEF RoomsOK
    <2>9. Offered(r) /\ Offered(r)' /\ \A q \in Rooms \ {r} : Offered(q)' <=> Offered(q)
        BY <1>3, <2>1, <2>7, <2>8 DEF Offered
    <2>10. \A q \in Rooms : Offered(q)' \/ BuiltIn({q})' = {}
        BY <2>6, <2>9 DEF RoomsOK
    <2>11. r \notin miscounted => totals'[r] = Cardinality(BuiltIn({r})')
        <3>1. r \notin miscounted => Cardinality(BuiltIn({r})) = read
            BY <2>2, <2>9 DEF RoomsOK, TotalsAgree
        <3> QED BY <2>2, <2>6, <2>8, <3>1
    <2>12. TotalsAgree'
        BY <1>1, <2>6, <2>8, <2>9, <2>11 DEF RoomsOK, TotalsAgree
    <2>13. ASSUME NEW g \in Handlers
           PROVE  EnlargementOK(g)'
        <3>1. CASE g = h
            BY <2>4, <3>1 DEF EnlargementOK
        <3>2. CASE g # h
            <4>1. EnlargementOK(g) /\ desk'[g] = desk[g]
                BY <2>4, <3>2 DEF RoomsOK
            <4>2. SUFFICES ASSUME AtDesk(g, "update:commit")
                           PROVE  EnlargementOK(g)'
                BY <4>1 DEF EnlargementOK, AtDesk
            <4>3. desk[g].room \notin miscounted => desk[g].room # r
                BY <2>1, <3>2, <4>2, <1>1, <4>1 DEF EnlargementOK, Enlarges
            <4>4. \A k \in Handlers : Enlarges(k, desk[g].room)' => Enlarges(k, desk[g].room)
                BY <2>4, <4>1 DEF Enlarges, AtDesk
            <4>5. Offered(desk[g].room)' <=> Offered(desk[g].room)
                BY <2>9, <4>1, <4>2 DEF EnlargementOK
            <4>6. desk[g].room \notin miscounted => totals'[desk[g].room] = totals[desk[g].room]
                BY <2>8, <4>1, <4>2, <4>3 DEF EnlargementOK
            <4> QED BY <1>1, <4>1, <4>2, <4>4, <4>5, <4>6 DEF EnlargementOK
        <3> QED BY <3>1, <3>2
    <2>14. \A g \in Handlers : RemovalOK(g)'
        <3>1. desk'[h].at = "idle"
            BY <2>3 DEF RoomsOK
        <3> QED BY <2>4, <3>1 DEF RoomsOK, RemovalOK, AtDesk
    <2> QED BY <2>4, <2>6, <2>8, <2>10, <2>12, <2>13, <2>14 DEF RoomsOK
<1> QED BY <1>2, <1>3

LEMMA RemovalKeepsRooms ==
    ASSUME RoomsOK, NEW h \in Handlers, RemoveRooms_Delete(h)
    PROVE  RoomsOK'
<1>1. PICK rs : rs = {r \in desk[h].rooms : Offered(r)}
    OBVIOUS
<1>2. /\ built' = built \ BuiltIn(rs)
      /\ totals' = [r \in Rooms |-> IF r \in rs THEN Null ELSE totals[r]]
      /\ rs \subseteq gone' /\ gone \subseteq gone' /\ UNCHANGED miscounted
      /\ AtDesk(h, "remove:delete")
      /\ desk' = [desk EXCEPT ![h] = [at |-> "idle"]]
    BY <1>1 DEF RemoveRooms_Delete, CloseWritten
<1>3. /\ DOMAIN desk' = Handlers /\ ~AtDesk(h, "update:commit")'
      /\ desk'[h].at = "idle" /\ \A g \in Handlers \ {h} : desk'[g] = desk[g]
    BY <1>2 DEF RoomsOK, AtDesk
<1>4. totals' \in [Rooms -> Nat \cup {Null}]
    BY <1>2 DEF RoomsOK
<1>5. \A r \in Rooms \ rs : /\ totals'[r] = totals[r] /\ (Offered(r)' <=> Offered(r))
                            /\ BuiltIn({r})' = BuiltIn({r})
    BY <1>2 DEF Offered, BuiltIn
<1>6. \A r \in Rooms \cap rs : ~Offered(r)' /\ BuiltIn({r})' = {}
    BY <1>2 DEF Offered, BuiltIn
<1>7. TotalsAgree' /\ \A r \in Rooms : Offered(r)' \/ BuiltIn({r})' = {}
    <2>1. TotalsAgree'
        BY <1>2, <1>5, <1>6 DEF RoomsOK, TotalsAgree
    <2>2. ASSUME NEW r \in Rooms PROVE Offered(r)' \/ BuiltIn({r})' = {}
        BY <1>5, <1>6 DEF RoomsOK
    <2> QED BY <2>1, <2>2
<1>8. ASSUME NEW g \in Handlers
      PROVE  EnlargementOK(g)'
    <2>1. CASE g = h
        BY <1>3, <2>1 DEF EnlargementOK
    <2>2. CASE g # h
        <3>1. EnlargementOK(g) /\ desk'[g] = desk[g]
            BY <1>3, <2>2 DEF RoomsOK
        <3>2. SUFFICES ASSUME AtDesk(g, "update:commit")
                       PROVE  EnlargementOK(g)'
            BY <3>1 DEF EnlargementOK, AtDesk
        <3>3. \A k \in Handlers : Enlarges(k, desk[g].room)' => Enlarges(k, desk[g].room)
            BY <1>3, <3>1 DEF Enlarges, AtDesk
        <3>4. desk[g].room \in Rooms /\ (Offered(desk[g].room)' \/ desk[g].room \in gone')
            BY <1>2, <1>5, <3>1, <3>2 DEF EnlargementOK
        <3>5. Offered(desk[g].room)' =>
                  Offered(desk[g].room) /\ totals'[desk[g].room] = totals[desk[g].room]
            BY <1>5, <1>6, <3>1, <3>4
        <3> QED BY <1>2, <3>1, <3>2, <3>3, <3>4, <3>5 DEF EnlargementOK
    <2> QED BY <2>1, <2>2
<1>9. built' \subseteq Instances
    BY <1>2 DEF RoomsOK
<1>10. \A g \in Handlers : RemovalOK(g)'
    BY <1>3 DEF RoomsOK, RemovalOK, AtDesk
<1> QED BY <1>3, <1>4, <1>7, <1>8, <1>9, <1>10 DEF RoomsOK

(* Ratings and crashes leave the rooms alone. *)
RatingOrNone(frame) == frame.at \in RatingLabels \cup {"idle"}

LEMMA RatingKeepsRooms ==
    ASSUME RoomsOK, NEW h \in Handlers, RatingStep(h) \/ DeskCrash(h)
    PROVE  RoomsOK'
<1>1. UNCHANGED <<built, totals, miscounted>> /\ gone \subseteq gone'
    BY DEF RatingStep, DeskCrash, CreateRating_Check, UpdateRating_Find, RemoveRating_Find,
           Rating_Change, Rating_Read, Rating_Commit, NotRatings, upkeepVars
<1>2. \E frame : RatingOrNone(frame) /\ desk' = [desk EXCEPT ![h] = frame]
    <2>1. ASSUME NEW op, NEW id, NEW row, NEW t, Open(h, op, ChangeFrame(id, row, t))
          PROVE  \E frame : RatingOrNone(frame) /\ desk' = [desk EXCEPT ![h] = frame]
        <3>1. PICK frame : frame = ChangeFrame(id, row, t)
            OBVIOUS
        <3>2. RatingOrNone(frame)
            BY <3>1 DEF ChangeFrame, RatingFrame, RatingOrNone, RatingLabels
        <3> QED BY <2>1, <3>1, <3>2 DEF Open
    <2>2. ASSUME Close(h)
          PROVE  \E frame : RatingOrNone(frame) /\ desk' = [desk EXCEPT ![h] = frame]
        <3>1. PICK frame : frame = [at |-> "idle"]
            OBVIOUS
        <3> QED BY <2>2, <3>1 DEF Close, RatingOrNone
    <2>3. ASSUME NEW label \in RatingLabels, NEW id, NEW row, NEW t, NEW result,
                 Moves(h, RatingFrame(label, id, row, t, result))
          PROVE  \E frame : RatingOrNone(frame) /\ desk' = [desk EXCEPT ![h] = frame]
        <3>1. PICK frame : frame = RatingFrame(label, id, row, t, result)
            OBVIOUS
        <3>2. RatingOrNone(frame)
            BY <3>1 DEF RatingFrame, RatingOrNone
        <3> QED BY <2>3, <3>1, <3>2 DEF Moves
    <2>4. CASE \/ \E u \in Reviewers, t \in Rated, s \in Stars : CreateRating_Check(h, u, t, s)
               \/ \E g \in RatingIds :
                     RemoveRating_Find(h, g) \/ \E s \in Stars : UpdateRating_Find(h, g, s)
        BY <2>1, <2>4 DEF CreateRating_Check, RemoveRating_Find, UpdateRating_Find
    <2>5. CASE DeskCrash(h) \/ Rating_Commit(h)
        BY <2>2, <2>5 DEF DeskCrash, Rating_Commit
    <2>6. CASE Rating_Change(h)
        BY <2>2, <2>3, <2>6 DEF Rating_Change, RatingLabels
    <2>7. CASE Rating_Read(h)
        BY <2>3, <2>7 DEF Rating_Read, RatingLabels
    <2> QED BY <2>4, <2>5, <2>6, <2>7 DEF RatingStep
<1> QED BY <1>1, <1>2, FrameMoves DEF RatingOrNone, RatingLabels

(* The platform's own steps, and a removal that only reads. *)
LEMMA OthersKeepRooms ==
    ASSUME RoomsOK, \/ PlatformStep
                    \/ \E h \in Handlers : \/ Fails(h)
                                           \/ \E rs \in SUBSET Rooms : RemoveRooms_Read(h, rs)
    PROVE  RoomsOK'
<1>1. CASE PlatformStep \/ \E h \in Handlers : Fails(h)
    <2>1. RoomsAlone
        BY <1>1
        DEF PlatformStep, Fails, upkeepVars, RoomsAlone, RoomsOK, RemovalOK, AtDesk
    <2> QED BY <2>1, RoomsAloneKeep
<1>2. CASE \E h \in Handlers, rs \in SUBSET Rooms : RemoveRooms_Read(h, rs)
    <2>1. PICK h \in Handlers, rs \in SUBSET Rooms : RemoveRooms_Read(h, rs)
        BY <1>2
    <2>2. PICK frame : frame = [at |-> "remove:delete", rooms |-> rs]
        OBVIOUS
    <2>3. /\ frame.at # "update:commit" /\ frame.rooms \subseteq Rooms
          /\ desk' = [desk EXCEPT ![h] = frame]
        BY <2>1, <2>2 DEF RemoveRooms_Read, Open
    <2>4. UNCHANGED <<built, totals, miscounted>> /\ gone \subseteq gone'
        BY <2>1 DEF RemoveRooms_Read, upkeepVars
    <2> QED BY <2>3, <2>4, FrameMoves
<1> QED BY <1>1, <1>2

LEMMA RoomsOKInit == LandlordInit => RoomsOK
<1> SUFFICES ASSUME LandlordInit PROVE RoomsOK
    OBVIOUS
<1>1. built = FirstBuilt /\ built \subseteq Instances /\ DOMAIN desk = Handlers
    BY UpkeepAssumption DEF LandlordInit
<1>2. \A h \in Handlers : EnlargementOK(h) /\ RemovalOK(h)
    BY DEF LandlordInit, EnlargementOK, RemovalOK, AtDesk
<1>3. \A r \in Rooms :
         totals[r] = IF BuiltIn({r}) = {} THEN Null ELSE Cardinality(BuiltIn({r}))
    BY DEF LandlordInit
<1>4. \A r \in Rooms : Cardinality(BuiltIn({r})) \in Nat
    <2> SUFFICES ASSUME NEW r \in Rooms PROVE Cardinality(BuiltIn({r})) \in Nat
        OBVIOUS
    <2>1. IsFiniteSet(BuiltIn({r}))
        BY <1>1, FS_Subset, UpkeepAssumption DEF BuiltIn
    <2> QED BY <2>1, FS_CardinalityType
<1>5. totals \in [Rooms -> Nat \cup {Null}]
    <2>1. totals = [r \in Rooms |-> totals[r]]
        BY DEF LandlordInit
    <2> QED BY <1>3, <1>4, <2>1
<1>6. TotalsAgree /\ \A r \in Rooms : Offered(r) \/ BuiltIn({r}) = {}
    <2>1. Null \notin Nat
        BY UpkeepAssumption
    <2> QED BY <1>3, <1>4, <2>1 DEF TotalsAgree, Offered
<1> QED BY <1>1, <1>2, <1>5, <1>6 DEF RoomsOK

-----------------------------------------------------------------------------
(* Ratings. *)

(* What the ratings of a target come to depends on those ratings alone. *)
LEMMA TallySame ==
    ASSUME NEW rows, NEW others, NEW t,
           \A g \in RatingIds :
              /\ (rows[g] # Null /\ rows[g].of = t) <=> (others[g] # Null /\ others[g].of = t)
              /\ rows[g] # Null /\ rows[g].of = t => rows[g].stars = others[g].stars
    PROVE  Tally(rows, t) = Tally(others, t)
<1>1. OfTarget(rows, t) = OfTarget(others, t)
    BY DEF OfTarget
<1>2. [g \in OfTarget(rows, t) |-> rows[g].stars]
         = [g \in OfTarget(others, t) |-> others[g].stars]
    BY <1>1 DEF OfTarget
<1> QED BY <1>1, <1>2 DEF Tally

LEMMA TallyNext ==
    ASSUME NEW rows, NEW t, ratings' = rows
    PROVE  Tally(ratings, t)' = Tally(rows, t)
<1>1. OfTarget(ratings, t)' = OfTarget(rows, t)
    BY DEF OfTarget
<1>2. [g \in OfTarget(ratings, t) |-> ratings[g].stars]'
          = [g \in OfTarget(rows, t) |-> rows[g].stars]
    BY <1>1
<1> QED BY <1>1, <1>2 DEF Tally

LEMMA TallySeenNext ==
    ASSUME NEW h, NEW rows, NEW t, Seen(desk[h])' = rows, desk'[h].of = t
    PROVE  Tally(Seen(desk[h]), desk[h].of)' = Tally(rows, t)
<1>1. OfTarget(Seen(desk[h]), desk[h].of)' = OfTarget(rows, t)
    BY DEF OfTarget
<1>2. [g \in OfTarget(Seen(desk[h]), desk[h].of) |-> Seen(desk[h])[g].stars]'
          = [g \in OfTarget(rows, t) |-> rows[g].stars]
    BY <1>1
<1> QED BY <1>1, <1>2 DEF Tally

LEMMA TallyOfNone ==
    ASSUME NEW rows, NEW t, OfTarget(rows, t) = {}
    PROVE  Tally(rows, t) = NotRated
BY DEF Tally

(* A step that changes no rating, and nothing a handler at ratings relies on. *)
RatingsAlone ==
    /\ UNCHANGED <<ratings, overall, blurred>>
    /\ fresh' \subseteq fresh
    /\ gone \subseteq gone' /\ gone' \cap RatingIds = gone \cap RatingIds
    /\ \A h \in Handlers :
          desk'[h] = desk[h] \/ (desk'[h].at \notin RatingLabels /\ h \notin fresh')
    /\ \A r \in Rooms : Offered(r)' <=> Offered(r)

LEMMA RatingsAloneKeep ==
    ASSUME RatingsOK, RatingsAlone
    PROVE  RatingsOK'
<1>1. \A t \in Rated : /\ IsThere(t)' <=> IsThere(t)
                       /\ OfTarget(ratings, t)' = OfTarget(ratings, t)
                       /\ Tally(ratings, t)' = Tally(ratings, t)
    BY DEF RatingsAlone, IsThere, OfTarget, Tally
<1>2. OverallIsThatOfRatings'
    BY <1>1 DEF RatingsOK, RatingsAlone, OverallIsThatOfRatings
<1>3. ASSUME NEW h \in Handlers, desk'[h].at \in RatingLabels
      PROVE  ChangeOK(h)'
    <2>1. desk'[h] = desk[h] /\ ChangeOK(h)
        BY <1>3 DEF RatingsAlone, RatingsOK
    <2>2. \A g \in Handlers : InTransaction(g)' => InTransaction(g) /\ desk'[g] = desk[g]
        BY DEF RatingsAlone, InTransaction, RatingLabels
    <2>3. InTransaction(h)' => InTransaction(h)
        BY <2>2
    <2>4. ratings' = ratings /\ \A g \in RatingIds : g \in gone' <=> g \in gone
        BY DEF RatingsAlone
    <2> QED BY <2>1, <2>2, <2>3, <2>4 DEF ChangeOK
<1>4. \A h \in Handlers : ChangeOK(h)'
    BY <1>3 DEF ChangeOK
<1>5. ASSUME NEW h \in fresh'
      PROVE  FreshOK(h)'
    <2>1. h \in Handlers /\ FreshOK(h) /\ desk'[h] = desk[h] /\ ratings' = ratings
        BY <1>5 DEF RatingsAlone, RatingsOK
    <2> QED BY <2>1 DEF FreshOK, AtDesk, Seen, Tally, OfTarget
<1> QED BY <1>1, <1>2, <1>4, <1>5 DEF RatingsOK, RatingsAlone

(* A handler's frame changes, and the tables stay. *)
LEMMA RatingFrameMoves ==
    ASSUME RatingsOK, RoomsOK, NEW h \in Handlers, NEW frame,
           UNCHANGED <<ratings, overall, blurred, gone, totals>>,
           desk' = [desk EXCEPT ![h] = frame],
           fresh \ {h} \subseteq fresh', fresh' \subseteq fresh \cup {h},
           h \in fresh' => FreshOK(h)',
           ChangeOK(h)',
           InTransaction(h)' => \/ InTransaction(h) /\ frame.id = desk[h].id
                                \/ frame.id \notin Held
    PROVE  RatingsOK'
<1>1. desk'[h] = frame /\ \A g \in Handlers \ {h} : desk'[g] = desk[g]
    BY DEF RoomsOK
<1>2. \A t \in Rated : /\ IsThere(t)' <=> IsThere(t)
                       /\ OfTarget(ratings, t)' = OfTarget(ratings, t)
                       /\ Tally(ratings, t)' = Tally(ratings, t)
    BY DEF IsThere, Offered, OfTarget, Tally
<1>3. OverallIsThatOfRatings'
    BY <1>2 DEF RatingsOK, OverallIsThatOfRatings
<1>4. ASSUME NEW g \in Handlers \ {h}
      PROVE  ChangeOK(g)'
    <2>1. ChangeOK(g) /\ desk'[g] = desk[g] /\ (InTransaction(g)' <=> InTransaction(g))
        BY <1>1, <1>4 DEF RatingsOK, InTransaction
    <2>2. ASSUME InTransaction(g), NEW k \in Handlers \ {g}, InTransaction(k)'
          PROVE  desk'[k].id # desk'[g].id
        <3>1. \A m \in Handlers \ {g} : InTransaction(m) => desk[m].id # desk[g].id
            <4>1. desk[g].at \in RatingLabels
                BY <2>2 DEF InTransaction, RatingLabels
            <4> QED BY <2>1, <2>2, <4>1 DEF ChangeOK
        <3>2. CASE k = h
            <4>1. desk[g].id \in Held
                BY <2>2 DEF Held
            <4> QED BY <1>1, <1>4, <2>1, <2>2, <3>1, <3>2, <4>1
        <3>3. CASE k # h
            BY <1>1, <2>1, <2>2, <3>1, <3>3 DEF InTransaction
        <3> QED BY <3>2, <3>3
    <2> QED BY <2>1, <2>2 DEF ChangeOK
<1>5. ASSUME NEW g \in fresh' \ {h}
      PROVE  FreshOK(g)'
    <2>1. g \in Handlers /\ FreshOK(g) /\ desk'[g] = desk[g]
        BY <1>1, <1>5 DEF RatingsOK
    <2> QED BY <2>1 DEF FreshOK, AtDesk, Seen, Tally, OfTarget
<1> QED BY <1>2, <1>3, <1>4, <1>5 DEF RatingsOK

(* Steps of the platform, of upkeep but removals, and crashes. *)
LEMMA OthersKeepRatings ==
    ASSUME RatingsOK, RoomsOK,
           \/ PlatformStep
           \/ \E h \in Handlers :
                 \/ \E r \in Rooms, n \in 1..Cardinality(Instances) : UpdateRoom_Read(h, r, n)
                 \/ UpdateRoom_Commit(h)
                 \/ \E rs \in SUBSET Rooms : RemoveRooms_Read(h, rs)
                 \/ Fails(h) \/ DeskCrash(h)
    PROVE  RatingsOK'
<1>1. CASE PlatformStep \/ \E h \in Handlers : Fails(h)
    BY <1>1, RatingsAloneKeep
    DEF PlatformStep, Fails, upkeepVars, ratingVars, RatingsAlone, Offered
<1>2. ASSUME NEW h \in Handlers, NEW frame, desk' = [desk EXCEPT ![h] = frame],
             frame.at \notin RatingLabels, fresh' \subseteq fresh, h \notin fresh',
             UNCHANGED <<ratings, overall, blurred, gone>>,
             \A r \in Rooms : Offered(r)' <=> Offered(r)
      PROVE  RatingsOK'
    <2>1. RatingsAlone
        BY <1>2 DEF RatingsAlone, RoomsOK
    <2> QED BY <2>1, RatingsAloneKeep
<1>3. \A h \in Handlers : h \in fresh => desk[h].at = "rating:commit"
    BY DEF RatingsOK, FreshOK, AtDesk
<1>4. PICK idle : idle = [at |-> "idle"]
    OBVIOUS
<1>5. idle.at \notin RatingLabels
    BY <1>4 DEF RatingLabels
<1>6. CASE \E h \in Handlers, r \in Rooms, n \in 1..Cardinality(Instances) :
              UpdateRoom_Read(h, r, n)
    <2>1. PICK h \in Handlers, r \in Rooms, n \in 1..Cardinality(Instances) :
              UpdateRoom_Read(h, r, n)
        BY <1>6
    <2>2. PICK frame : frame = [at |-> "update:commit", room |-> r, total |-> n,
                                read |-> totals[r]]
        OBVIOUS
    <2>3. frame.at \notin RatingLabels
        BY <2>2 DEF RatingLabels
    <2>4. /\ desk' = [desk EXCEPT ![h] = frame] /\ AtDesk(h, "idle")
          /\ UNCHANGED <<ratings, overall, blurred, fresh, gone, totals>>
        BY <2>1, <2>2 DEF UpdateRoom_Read, Open, ratingVars
    <2>5. fresh' \subseteq fresh /\ h \notin fresh' /\ \A q \in Rooms : Offered(q)' <=> Offered(q)
        BY <1>3, <2>4 DEF AtDesk, Offered
    <2> QED BY <1>2, <2>3, <2>4, <2>5
<1>7. CASE \E h \in Handlers, rs \in SUBSET Rooms : RemoveRooms_Read(h, rs)
    <2>1. PICK h \in Handlers, rs \in SUBSET Rooms : RemoveRooms_Read(h, rs)
        BY <1>7
    <2>2. PICK frame : frame = [at |-> "remove:delete", rooms |-> rs]
        OBVIOUS
    <2>3. frame.at \notin RatingLabels
        BY <2>2 DEF RatingLabels
    <2>4. /\ desk' = [desk EXCEPT ![h] = frame] /\ AtDesk(h, "idle")
          /\ UNCHANGED <<ratings, overall, blurred, fresh, gone, totals>>
        BY <2>1, <2>2 DEF RemoveRooms_Read, Open, ratingVars, upkeepVars
    <2>5. fresh' \subseteq fresh /\ h \notin fresh' /\ \A q \in Rooms : Offered(q)' <=> Offered(q)
        BY <1>3, <2>4 DEF AtDesk, Offered
    <2> QED BY <1>2, <2>3, <2>4, <2>5
<1>8. CASE \E h \in Handlers : UpdateRoom_Commit(h)
    <2>1. PICK h \in Handlers : UpdateRoom_Commit(h)
        BY <1>8
    <2>2. /\ AtDesk(h, "update:commit") /\ desk' = [desk EXCEPT ![h] = idle]
          /\ UNCHANGED <<ratings, overall, blurred, fresh, gone>>
        BY <1>4, <2>1 DEF UpdateRoom_Commit, Close, CloseWritten, ratingVars
    <2>3. fresh' \subseteq fresh /\ h \notin fresh'
        BY <1>3, <2>2 DEF AtDesk
    <2>4. \A q \in Rooms : Offered(q)' <=> Offered(q)
        <3>1. CASE UNCHANGED totals
            BY <3>1 DEF Offered
        <3>2. CASE /\ Offered(desk[h].room)
                   /\ totals' = [totals EXCEPT ![desk[h].room] = desk[h].total]
            <4>1. desk[h].room \in Rooms /\ desk[h].total # Null
                BY <2>2, UpkeepAssumption DEF RoomsOK, EnlargementOK
            <4>2. /\ totals'[desk[h].room] = desk[h].total
                  /\ \A q \in Rooms \ {desk[h].room} : totals'[q] = totals[q]
                BY <3>2, <4>1 DEF RoomsOK
            <4> QED BY <3>2, <4>1, <4>2 DEF Offered
        <3> QED BY <2>1, <3>1, <3>2 DEF UpdateRoom_Commit
    <2> QED BY <1>2, <1>5, <2>2, <2>3, <2>4
<1>9. CASE \E h \in Handlers : DeskCrash(h)
    <2>1. PICK h \in Handlers : DeskCrash(h)
        BY <1>9
    <2>2. /\ desk' = [desk EXCEPT ![h] = idle] /\ fresh' = fresh \ {h}
          /\ UNCHANGED <<ratings, overall, blurred, gone, totals>>
        BY <1>4, <2>1 DEF DeskCrash, Close, NotRatings, upkeepVars
    <2>3. \A q \in Rooms : Offered(q)' <=> Offered(q)
        BY <2>2 DEF Offered
    <2> QED BY <1>2, <1>5, <2>2, <2>3
<1> QED BY <1>1, <1>6, <1>7, <1>8, <1>9

(* A handler begins to change a rating. *)
LEMMA OpeningKeepsRatings ==
    ASSUME RatingsOK, RoomsOK, NEW h \in Handlers,
           \/ \E u \in Reviewers, t \in Rated, s \in Stars : CreateRating_Check(h, u, t, s)
           \/ \E g \in RatingIds :
                 RemoveRating_Find(h, g) \/ \E s \in Stars : UpdateRating_Find(h, g, s)
    PROVE  RatingsOK'
<1>1. ASSUME NEW op, NEW id, NEW row \in Rating \cup {Null}, NEW t \in Rated,
             Open(h, op, ChangeFrame(id, row, t)),
             UNCHANGED <<totals, gone, ratingVars>>,
             row # Null => row.of = t,
             id = Null \/ (id \in RatingIds /\ ratings[id] # Null /\ ratings[id].of = t)
      PROVE  RatingsOK'
    <2>1. PICK frame : frame = ChangeFrame(id, row, t)
        OBVIOUS
    <2>2. /\ frame.at = "rating:change" /\ frame.id = id /\ frame.of = t /\ frame.row = row
        BY <2>1 DEF ChangeFrame, RatingFrame
    <2>3. /\ desk' = [desk EXCEPT ![h] = frame] /\ desk'[h] = frame /\ AtDesk(h, "idle")
          /\ UNCHANGED <<ratings, overall, blurred, gone, totals, fresh>>
        BY <1>1, <2>1 DEF Open, ratingVars, RoomsOK
    <2>4. h \notin fresh
        BY <2>3 DEF RatingsOK, FreshOK, AtDesk
    <2>5. ~InTransaction(h)'
        BY <2>2, <2>3 DEF InTransaction
    <2>6. ChangeOK(h)'
        BY <1>1, <2>2, <2>3, <2>5 DEF ChangeOK
    <2> QED BY <2>3, <2>4, <2>5, <2>6, RatingFrameMoves
<1>2. \A g \in RatingIds : ratings[g] # Null => /\ ratings[g] \in Rating /\ ratings[g].of \in Rated
    BY DEF RatingsOK, Rating
<1>3. CASE \E u \in Reviewers, t \in Rated, s \in Stars : CreateRating_Check(h, u, t, s)
    <2>1. PICK u \in Reviewers, t \in Rated, s \in Stars : CreateRating_Check(h, u, t, s)
        BY <1>3
    <2>2. PICK row : row = [by |-> u, of |-> t, stars |-> s]
        OBVIOUS
    <2>3. row \in Rating /\ row.of = t
        BY <2>2 DEF Rating
    <2>4. /\ Open(h, "createRating", ChangeFrame(Null, row, t))
          /\ UNCHANGED <<totals, gone, ratingVars>>
        BY <2>1, <2>2 DEF CreateRating_Check, NotRatings, upkeepVars
    <2> QED BY <1>1, <2>3, <2>4
<1>4. CASE \E g \in RatingIds : RemoveRating_Find(h, g)
    <2>1. PICK g \in RatingIds : RemoveRating_Find(h, g)
        BY <1>4
    <2>2. /\ ratings[g] # Null /\ Open(h, "removeRating", ChangeFrame(g, Null, ratings[g].of))
          /\ UNCHANGED <<totals, gone, ratingVars>>
        BY <2>1 DEF RemoveRating_Find, NotRatings, upkeepVars
    <2> QED BY <1>1, <1>2, <2>2
<1>5. CASE \E g \in RatingIds, s \in Stars : UpdateRating_Find(h, g, s)
    <2>1. PICK g \in RatingIds, s \in Stars : UpdateRating_Find(h, g, s)
        BY <1>5
    <2>2. PICK row : row = [ratings[g] EXCEPT !.stars = s]
        OBVIOUS
    <2>3. /\ ratings[g] # Null /\ Open(h, "updateRating", ChangeFrame(g, row, ratings[g].of))
          /\ UNCHANGED <<totals, gone, ratingVars>>
        BY <2>1, <2>2 DEF UpdateRating_Find, NotRatings, upkeepVars
    <2>4. ratings[g] \in Rating
        BY <1>2, <2>3
    <2>5. row \in Rating /\ row.of = ratings[g].of
        BY <2>2, <2>4 DEF Rating
    <2> QED BY <1>1, <1>2, <2>3, <2>5
<1> QED BY <1>3, <1>4, <1>5

LEMMA ChangeKeepsRatings ==
    ASSUME RatingsOK, RoomsOK, NEW h \in Handlers, Rating_Change(h)
    PROVE  RatingsOK'
<1>1. /\ AtDesk(h, "rating:change") /\ ChangeOK(h)
      /\ UNCHANGED <<ratings, overall, blurred, gone, totals, fresh>>
    BY DEF Rating_Change, RatingsOK, NotRatings, upkeepVars, ratingVars
<1>2. /\ desk[h].of \in Rated /\ desk[h].row \in Rating \cup {Null}
      /\ desk[h].row # Null => desk[h].row.of = desk[h].of
      /\ \/ desk[h].id = Null
         \/ /\ desk[h].id \in RatingIds
            /\ \/ desk[h].id \in gone
               \/ ratings[desk[h].id] # Null /\ ratings[desk[h].id].of = desk[h].of
    BY <1>1 DEF ChangeOK, AtDesk, RatingLabels
<1>3. h \notin fresh
    BY <1>1 DEF RatingsOK, FreshOK, AtDesk
<1>4. ASSUME NEW id \in RatingIds \ gone, id \notin Held,
             ratings[id] = Null \/ ratings[id].of = desk[h].of,
             Moves(h, RatingFrame("rating:read", id, desk[h].row, desk[h].of, Null))
      PROVE  RatingsOK'
    <2>1. PICK frame, row, t : /\ frame = RatingFrame("rating:read", id, row, t, Null)
                               /\ row = desk[h].row /\ t = desk[h].of
        OBVIOUS
    <2>2. /\ frame.at = "rating:read" /\ frame.id = id /\ frame.of = t /\ frame.row = row
        BY <2>1 DEF RatingFrame
    <2>3. desk' = [desk EXCEPT ![h] = frame] /\ desk'[h] = frame
          /\ \A g \in Handlers \ {h} : desk'[g] = desk[g]
        BY <1>4, <2>1 DEF Moves, RoomsOK
    <2>4. \A g \in Handlers \ {h} : InTransaction(g)' => desk'[g].id # id
        BY <1>4, <2>3 DEF InTransaction, Held
    <2>5. ChangeOK(h)'
        BY <1>1, <1>2, <1>4, <2>1, <2>2, <2>3, <2>4 DEF ChangeOK
    <2> QED BY <1>1, <1>3, <1>4, <2>2, <2>3, <2>5, RatingFrameMoves
<1>5. CASE Close(h)
    <2>1. PICK frame : frame = [at |-> "idle"]
        OBVIOUS
    <2>2. desk' = [desk EXCEPT ![h] = frame] /\ desk'[h] = frame
        BY <1>5, <2>1 DEF Close, RoomsOK
    <2>3. ChangeOK(h)' /\ ~InTransaction(h)'
        BY <2>1, <2>2 DEF ChangeOK, InTransaction, RatingLabels
    <2> QED BY <1>1, <1>3, <2>2, <2>3, RatingFrameMoves
<1>6. CASE \E g \in RatingIds \ (gone \cup Held) :
              /\ ratings[g] = Null
              /\ Moves(h, RatingFrame("rating:read", g, desk[h].row, desk[h].of, Null))
    BY <1>4, <1>6
<1>7. CASE /\ desk[h].id # Null /\ desk[h].id \notin Held /\ ratings[desk[h].id] # Null
           /\ Moves(h, RatingFrame("rating:read", desk[h].id, desk[h].row, desk[h].of, Null))
    <2>1. desk[h].id \in RatingIds \ gone /\ ratings[desk[h].id].of = desk[h].of
        BY <1>2, <1>7 DEF RatingsOK
    <2> QED BY <1>4, <1>7, <2>1
<1> QED BY <1>5, <1>6, <1>7 DEF Rating_Change

LEMMA ReadKeepsRatings ==
    ASSUME RatingsOK, RoomsOK, NEW h \in Handlers, Rating_Read(h)
    PROVE  RatingsOK'
<1>1. /\ AtDesk(h, "rating:read") /\ ChangeOK(h) /\ fresh' = fresh \cup {h}
      /\ UNCHANGED <<ratings, overall, blurred, gone, totals>>
    BY DEF Rating_Read, RatingsOK, NotRatings, upkeepVars
<1>2. PICK frame, id, row, t, result :
          /\ frame = RatingFrame("rating:commit", id, row, t, result)
          /\ id = desk[h].id /\ row = desk[h].row /\ t = desk[h].of
          /\ result = Tally(Seen(desk[h]), desk[h].of)
    OBVIOUS
<1>3. /\ frame.at = "rating:commit" /\ frame.id = id /\ frame.of = t /\ frame.row = row
      /\ frame.result = result
    BY <1>2 DEF RatingFrame
<1>4. /\ desk' = [desk EXCEPT ![h] = frame] /\ desk'[h] = frame
      /\ \A g \in Handlers \ {h} : desk'[g] = desk[g]
    BY <1>2 DEF Rating_Read, Moves, RoomsOK
<1>5. FreshOK(h)'
    <2>1. PICK rows : rows = [ratings EXCEPT ![id] = row]
        OBVIOUS
    <2>2. Seen(desk[h]) = rows
        BY <1>2, <2>1 DEF Seen
    <2>3. [ratings' EXCEPT ![desk'[h].id] = desk'[h].row] = rows /\ desk'[h].of = t
        BY <1>1, <1>3, <1>4, <2>1
    <2>4. Tally(Seen(desk[h]), desk[h].of)' = Tally(rows, t)
        <3>1. Seen(desk[h])' = rows
            BY <2>3 DEF Seen
        <3> QED BY <2>3, <3>1, TallySeenNext
    <2>5. result = Tally(rows, t)
        BY <1>2, <2>2
    <2> QED BY <1>3, <1>4, <2>4, <2>5 DEF FreshOK, AtDesk
<1>6. InTransaction(h)
    BY <1>1 DEF AtDesk, InTransaction
<1>7. ChangeOK(h)'
    <2>1. /\ t \in Rated /\ row \in Rating \cup {Null} /\ (row # Null => row.of = t)
          /\ id \in RatingIds \ gone /\ (ratings[id] = Null \/ ratings[id].of = t)
          /\ \A g \in Handlers \ {h} : InTransaction(g) => desk[g].id # id
        BY <1>1, <1>2, <1>6 DEF ChangeOK, AtDesk, RatingLabels
    <2>2. \A g \in Handlers \ {h} : InTransaction(g)' => desk'[g].id # id
        BY <1>4, <2>1 DEF InTransaction
    <2> QED BY <1>1, <1>3, <1>4, <2>1, <2>2 DEF ChangeOK
<1>8. InTransaction(h) /\ frame.id = desk[h].id
    BY <1>2, <1>3, <1>6
<1> QED BY <1>1, <1>4, <1>5, <1>7, <1>8, RatingFrameMoves

LEMMA CommitKeepsRatings ==
    ASSUME RatingsOK, RoomsOK, NEW h \in Handlers, Rating_Commit(h), IsThere(desk[h].of)
    PROVE  RatingsOK'
<1>1. PICK id, row, t, result :
          id = desk[h].id /\ row = desk[h].row /\ t = desk[h].of /\ result = desk[h].result
    OBVIOUS
<1>2. /\ AtDesk(h, "rating:commit") /\ UNCHANGED totals
      /\ ratings' = [ratings EXCEPT ![id] = row]
      /\ overall' = [overall EXCEPT ![t] = result]
      /\ gone' = IF row = Null THEN gone \cup {id} ELSE gone
      /\ fresh' = {g \in fresh \ {h} : desk[g].of # t}
      /\ blurred' = IF h \in fresh THEN blurred \ {t} ELSE blurred \cup {t}
      /\ desk' = [desk EXCEPT ![h] = [at |-> "idle"]]
    BY <1>1 DEF Rating_Commit, Close, NotRatings, upkeepVars
<1>3. /\ desk'[h].at = "idle" /\ \A g \in Handlers \ {h} : desk'[g] = desk[g]
    BY <1>2 DEF RoomsOK
<1>4. /\ t \in Rated /\ row \in Rating \cup {Null} /\ (row # Null => row.of = t)
      /\ id \in RatingIds \ gone /\ (ratings[id] = Null \/ ratings[id].of = t)
      /\ \A g \in Handlers \ {h} : InTransaction(g) => desk[g].id # id
    BY <1>1, <1>2 DEF RatingsOK, ChangeOK, AtDesk, InTransaction, RatingLabels
<1>5. PICK rows : rows = [ratings EXCEPT ![id] = row]
    OBVIOUS
<1>6. /\ ratings' = rows /\ rows \in [RatingIds -> Rating \cup {Null}] /\ rows[id] = row
      /\ \A g \in RatingIds \ {id} : rows[g] = ratings[g]
    BY <1>2, <1>4, <1>5 DEF RatingsOK
<1>7. \A g \in RatingIds \cap gone' : rows[g] = Null
    BY <1>2, <1>4, <1>6 DEF RatingsOK
<1>8. ASSUME NEW g \in Handlers
      PROVE  ChangeOK(g)'
    <2>1. CASE g = h
        BY <1>3, <2>1 DEF ChangeOK, RatingLabels
    <2>2. CASE g # h
        <3>1. ChangeOK(g) /\ desk'[g] = desk[g]
            BY <1>3, <2>2 DEF RatingsOK
        <3>2. SUFFICES ASSUME desk[g].at \in RatingLabels
                       PROVE  ChangeOK(g)'
            BY <3>1 DEF ChangeOK
        <3>3. /\ desk[g].of \in Rated /\ desk[g].row \in Rating \cup {Null}
              /\ desk[g].row # Null => desk[g].row.of = desk[g].of
            BY <3>1, <3>2 DEF ChangeOK
        <3>4. desk[g].at = "rating:change" =>
                  \/ desk[g].id = Null
                  \/ /\ desk[g].id \in RatingIds
                     /\ \/ desk[g].id \in gone'
                        \/ rows[desk[g].id] # Null /\ rows[desk[g].id].of = desk[g].of
            <4>1. CASE desk[g].id = id
                BY <1>2, <1>4, <1>6, <3>1, <3>2, <4>1 DEF ChangeOK
            <4>2. CASE desk[g].id # id
                BY <1>2, <1>6, <3>1, <3>2, <4>2 DEF ChangeOK
            <4> QED BY <4>1, <4>2
        <3>5. InTransaction(g) =>
                  /\ desk[g].id \in RatingIds \ gone'
                  /\ rows[desk[g].id] = Null \/ rows[desk[g].id].of = desk[g].of
                  /\ \A k \in Handlers \ {g} : InTransaction(k) => desk[k].id # desk[g].id
            BY <1>2, <1>4, <1>6, <2>2, <3>1, <3>2 DEF ChangeOK
        <3>6. /\ InTransaction(g)' <=> InTransaction(g)
              /\ \A k \in Handlers : InTransaction(k)' => InTransaction(k) /\ desk'[k] = desk[k]
            BY <1>3, <3>1 DEF InTransaction
        <3> QED BY <1>6, <3>1, <3>3, <3>4, <3>5, <3>6 DEF ChangeOK
    <2> QED BY <2>1, <2>2
<1>9. ASSUME NEW u \in Rated \ {t}
      PROVE  OfTarget(rows, u) = OfTarget(ratings, u) /\ Tally(rows, u) = Tally(ratings, u)
    <2>1. \A g \in RatingIds :
              /\ (rows[g] # Null /\ rows[g].of = u) <=> (ratings[g] # Null /\ ratings[g].of = u)
              /\ rows[g] # Null /\ rows[g].of = u => rows[g].stars = ratings[g].stars
        BY <1>4, <1>6
    <2>2. Tally(rows, u) = Tally(ratings, u)
        BY <2>1, TallySame
    <2> QED BY <2>1, <2>2 DEF OfTarget
<1>10. ASSUME NEW g \in fresh'
       PROVE  g \in Handlers /\ FreshOK(g)'
    <2>1. /\ g \in Handlers \ {h} /\ g \in fresh /\ desk[g].of # t /\ FreshOK(g)
          /\ desk'[g] = desk[g] /\ ChangeOK(g)
        BY <1>2, <1>3 DEF RatingsOK
    <2>2. PICK i, of, r, before, after :
              /\ i = desk[g].id /\ of = desk[g].of /\ r = desk[g].row
              /\ before = [ratings EXCEPT ![i] = r] /\ after = [rows EXCEPT ![i] = r]
        OBVIOUS
    <2>3. InTransaction(g) /\ i \in RatingIds \ {id}
        BY <1>4, <2>1, <2>2 DEF FreshOK, AtDesk, InTransaction, ChangeOK, RatingLabels
    <2>4. \A k \in RatingIds \ {id} : before[k] = after[k]
        BY <1>6, <2>2, <2>3 DEF RatingsOK
    <2>5. before[id] = ratings[id] /\ after[id] = row
        BY <1>4, <1>6, <2>2, <2>3 DEF RatingsOK
    <2>6. \A k \in RatingIds :
              /\ (before[k] # Null /\ before[k].of = of) <=> (after[k] # Null /\ after[k].of = of)
              /\ before[k] # Null /\ before[k].of = of => before[k].stars = after[k].stars
        BY <1>4, <2>1, <2>2, <2>4, <2>5
    <2>7. Tally(before, of) = Tally(after, of)
        BY <2>6, TallySame
    <2>8. desk[g].result = Tally(before, of)
        BY <2>1, <2>2 DEF FreshOK, Seen
    <2>9. Seen(desk[g])' = after /\ desk'[g].of = of
        BY <1>6, <2>1, <2>2 DEF Seen
    <2>10. Tally(Seen(desk[g]), desk[g].of)' = Tally(after, of)
        BY <2>9, TallySeenNext
    <2> QED BY <2>1, <2>7, <2>8, <2>10 DEF FreshOK, AtDesk
<1>11. \A u \in Rated : IsThere(u)' <=> IsThere(u)
    BY <1>2 DEF IsThere, Offered
<1>12. ASSUME NEW u \in Rated
       PROVE  IsThere(u)' \/ u \in gone' \/ OfTarget(ratings, u)' = {}
    <2>1. OfTarget(ratings, u)' = OfTarget(rows, u)
        BY <1>6 DEF OfTarget
    <2>2. CASE u = t
        BY <1>1, <1>11, <2>2
    <2>3. CASE u # t
        BY <1>2, <1>9, <1>11, <2>1, <2>3 DEF RatingsOK
    <2> QED BY <2>2, <2>3
<1>13. ASSUME NEW u \in Rated \ blurred', IsThere(u)'
       PROVE  overall'[u] = Tally(ratings, u)'
    <2>1. Tally(ratings, u)' = Tally(rows, u)
        BY <1>6, TallyNext
    <2>2. CASE u = t
        <3>1. h \in fresh
            BY <1>2, <1>13, <2>2
        <3>2. result = Tally(Seen(desk[h]), desk[h].of)
            BY <1>1, <3>1 DEF RatingsOK, FreshOK
        <3>3. Seen(desk[h]) = rows
            BY <1>1, <1>5 DEF Seen
        <3>4. overall'[t] = result
            BY <1>2, <1>4 DEF RatingsOK
        <3> QED BY <1>1, <2>1, <2>2, <3>2, <3>3, <3>4
    <2>3. CASE u # t
        <3>1. u \in Rated \ blurred /\ IsThere(u) /\ overall'[u] = overall[u]
            BY <1>2, <1>11, <1>13, <2>3 DEF RatingsOK
        <3> QED BY <1>9, <2>1, <2>3, <3>1 DEF RatingsOK, OverallIsThatOfRatings
    <2> QED BY <2>2, <2>3
<1>14. OverallIsThatOfRatings'
    BY <1>13 DEF OverallIsThatOfRatings
<1>15. DOMAIN overall' = Rated
    BY <1>2 DEF RatingsOK
<1> QED BY <1>6, <1>7, <1>8, <1>10, <1>12, <1>14, <1>15 DEF RatingsOK

(* The target is gone, and everything is undone. *)
LEMMA UndoneKeepsRatings ==
    ASSUME RatingsOK, RoomsOK, NEW h \in Handlers, Rating_Commit(h), ~IsThere(desk[h].of)
    PROVE  RatingsOK'
<1>1. /\ UNCHANGED <<ratings, overall, blurred, gone, totals>> /\ fresh' = fresh \ {h}
      /\ desk' = [desk EXCEPT ![h] = [at |-> "idle"]]
    BY DEF Rating_Commit, Close, NotRatings, upkeepVars
<1>2. desk'[h].at = "idle" /\ \A g \in Handlers \ {h} : desk'[g] = desk[g]
    BY <1>1 DEF RoomsOK
<1>3. RatingsAlone
    BY <1>1, <1>2 DEF RatingsAlone, Offered, RatingLabels
<1> QED BY <1>3, RatingsAloneKeep

(* What a handler found and what it may do are not about overall or totals. *)
LEMMA RowsAndFramesAlone ==
    ASSUME RatingsOK, UNCHANGED <<ratings, fresh>>, DOMAIN overall' = Rated,
           gone \subseteq gone', gone' \cap RatingIds = gone \cap RatingIds,
           \A h \in Handlers : \/ desk'[h] = desk[h]
                               \/ desk'[h].at \notin RatingLabels /\ h \notin fresh,
           \A t \in Rated : IsThere(t)' \/ t \in gone' \/ OfTarget(ratings, t) = {},
           OverallIsThatOfRatings'
    PROVE  RatingsOK'
<1>1. \A t \in Rated : OfTarget(ratings, t)' = OfTarget(ratings, t)
    BY DEF OfTarget
<1>2. ASSUME NEW h \in Handlers, desk'[h].at \in RatingLabels
      PROVE  ChangeOK(h)'
    <2>1. desk'[h] = desk[h] /\ ChangeOK(h)
        BY <1>2 DEF RatingsOK
    <2>2. \A g \in Handlers : InTransaction(g)' => InTransaction(g) /\ desk'[g] = desk[g]
        BY DEF InTransaction, RatingLabels
    <2>3. InTransaction(h)' => InTransaction(h)
        BY <2>2
    <2>4. ratings' = ratings /\ \A g \in RatingIds : g \in gone' <=> g \in gone
        OBVIOUS
    <2> QED BY <2>1, <2>2, <2>3, <2>4 DEF ChangeOK
<1>3. \A h \in Handlers : ChangeOK(h)'
    BY <1>2 DEF ChangeOK
<1>4. ASSUME NEW h \in fresh'
      PROVE  FreshOK(h)'
    <2>1. h \in Handlers /\ FreshOK(h) /\ desk'[h] = desk[h] /\ ratings' = ratings
        BY <1>4 DEF RatingsOK
    <2> QED BY <2>1 DEF FreshOK, AtDesk, Seen, Tally, OfTarget
<1> QED BY <1>1, <1>3, <1>4 DEF RatingsOK

LEMMA CreateRoomKeepsRatings ==
    ASSUME RatingsOK, RoomsOK, NEW r \in Rooms, NEW n \in 1..Cardinality(Instances),
           CreateRoom(r, n)
    PROVE  RatingsOK'
<1>1. /\ ~Offered(r) /\ r \notin gone /\ totals' = [totals EXCEPT ![r] = n]
      /\ overall' = [t \in Rated |-> IF t = r THEN NotRated ELSE overall[t]]
      /\ UNCHANGED <<ratings, fresh, blurred, gone, desk>>
    BY DEF CreateRoom
<1>2. n # Null
    BY FS_CardinalityType, UpkeepAssumption
<1>3. Offered(r)' /\ \A q \in Rooms \ {r} : Offered(q)' <=> Offered(q)
    BY <1>1, <1>2 DEF RoomsOK, Offered
<1>4. \A t \in Rated \ {r} : (IsThere(t)' <=> IsThere(t)) /\ overall'[t] = overall[t]
    BY <1>1, <1>3 DEF IsThere
<1>5. r \in Rated => /\ IsThere(r)' /\ overall'[r] = NotRated
                     /\ OfTarget(ratings, r) = {} /\ Tally(ratings, r) = NotRated
    <2>1. r \in Rated => OfTarget(ratings, r) = {}
        BY <1>1 DEF RatingsOK, IsThere
    <2> QED BY <1>1, <1>3, <2>1, TallyOfNone DEF IsThere
<1>6. \A t \in Rated : Tally(ratings, t)' = Tally(ratings, t)
    BY <1>1, TallyNext
<1>7. OverallIsThatOfRatings'
    BY <1>1, <1>4, <1>5, <1>6 DEF RatingsOK, OverallIsThatOfRatings
<1>8. \A t \in Rated : IsThere(t)' \/ t \in gone' \/ OfTarget(ratings, t) = {}
    BY <1>1, <1>4, <1>5 DEF RatingsOK
<1>9. /\ DOMAIN overall' = Rated /\ gone \subseteq gone'
      /\ gone' \cap RatingIds = gone \cap RatingIds
    BY <1>1
<1> QED BY <1>1, <1>7, <1>8, <1>9, RowsAndFramesAlone

LEMMA RemovalKeepsRatings ==
    ASSUME RatingsOK, RoomsOK, NEW h \in Handlers, RemoveRooms_Delete(h)
    PROVE  RatingsOK'
<1>1. PICK rs, requests, lost :
          /\ rs = {r \in desk[h].rooms : Offered(r)}
          /\ requests = RequestsOf(rs) /\ lost = RentalsOf(BuiltIn(rs))
    OBVIOUS
<1>2. /\ AtDesk(h, "remove:delete")
      /\ totals' = [r \in Rooms |-> IF r \in rs THEN Null ELSE totals[r]]
      /\ overall' = [t \in Rated |-> IF t \in rs THEN Null ELSE overall[t]]
      /\ gone' = gone \cup requests \cup lost \cup rs
      /\ UNCHANGED <<ratings, fresh, blurred>>
      /\ desk' = [desk EXCEPT ![h] = [at |-> "idle"]]
    BY <1>1 DEF RemoveRooms_Delete, CloseWritten
<1>3. requests \subseteq RequestIds /\ lost \subseteq RentalIds
    BY <1>1 DEF RequestsOf, RequestIds, RentalsOf
<1>4. rs \subseteq Rooms /\ rs \cap RatingIds = {}
    BY <1>1, <1>2, UpkeepAssumption DEF RoomsOK, RemovalOK
<1>5. gone \subseteq gone' /\ gone' \cap RatingIds = gone \cap RatingIds
    BY <1>2, <1>3, <1>4, UpkeepAssumption
<1>6. desk'[h].at = "idle" /\ \A g \in Handlers \ {h} : desk'[g] = desk[g]
    BY <1>2 DEF RoomsOK
<1>7. h \notin fresh
    BY <1>2 DEF RatingsOK, FreshOK, AtDesk
<1>8. \A t \in Rated \ rs : overall'[t] = overall[t] /\ (IsThere(t)' <=> IsThere(t))
    BY <1>2 DEF IsThere, Offered
<1>9. \A t \in Rated \cap rs : t \in gone' /\ ~IsThere(t)'
    BY <1>2, <1>4 DEF IsThere, Offered
<1>10. \A t \in Rated : Tally(ratings, t)' = Tally(ratings, t)
    BY <1>2, TallyNext
<1>11. OverallIsThatOfRatings'
    BY <1>2, <1>4, <1>8, <1>9, <1>10 DEF RatingsOK, OverallIsThatOfRatings
<1>12. \A t \in Rated : IsThere(t)' \/ t \in gone' \/ OfTarget(ratings, t) = {}
    BY <1>2, <1>8, <1>9 DEF RatingsOK
<1>13. DOMAIN overall' = Rated
    BY <1>2
<1>14. \A g \in Handlers :
          desk'[g] = desk[g] \/ (desk'[g].at \notin RatingLabels /\ g \notin fresh)
    BY <1>6, <1>7 DEF RatingLabels
<1> QED BY <1>2, <1>5, <1>11, <1>12, <1>13, <1>14, RowsAndFramesAlone

LEMMA RatingsOKInit == LandlordInit => RatingsOK
<1> SUFFICES ASSUME LandlordInit PROVE RatingsOK
    OBVIOUS
<1>1. /\ ratings = [g \in RatingIds |-> Null] /\ gone = {} /\ fresh = {}
      /\ \A h \in Handlers : desk[h].at = "idle"
      /\ overall = [t \in Rated |-> IF IsThere(t) THEN NotRated ELSE Null]
    BY DEF LandlordInit
<1>2. \A t \in Rated : OfTarget(ratings, t) = {}
    BY <1>1 DEF OfTarget
<1>3. \A h \in Handlers : ChangeOK(h)
    BY <1>1 DEF ChangeOK, RatingLabels
<1>4. OverallIsThatOfRatings
    BY <1>1, <1>2, TallyOfNone DEF OverallIsThatOfRatings
<1> QED BY <1>1, <1>2, <1>3, <1>4 DEF RatingsOK

LEMMA LandlordIInvInductive ==
    ASSUME LandlordIInv, [LandlordNext]_landlordVars
    PROVE  LandlordIInv'
<1> USE DEF LandlordIInv
<1>1. CASE PlatformStep
    BY <1>1, OthersKeepRooms, OthersKeepRatings
<1>2. CASE \E r \in Rooms, n \in 1..Cardinality(Instances) : CreateRoom(r, n)
    BY <1>2, CreateRoomKeepsRooms, CreateRoomKeepsRatings
<1>3. ASSUME NEW h \in Handlers, UpkeepStep(h)
      PROVE  LandlordIInv'
    <2>1. CASE \E r \in Rooms, n \in 1..Cardinality(Instances) : UpdateRoom_Read(h, r, n)
        <3>1. \A n \in 1..Cardinality(Instances) : n \in Nat
            BY FS_CardinalityType, UpkeepAssumption
        <3>2. RoomsOK'
            BY <2>1, <3>1, UpdateReadKeepsRooms
        <3> QED BY <2>1, <3>2, OthersKeepRatings
    <2>2. CASE UpdateRoom_Commit(h)
        BY <2>2, UpdateCommitKeepsRooms, OthersKeepRatings
    <2>3. CASE (\E rs \in SUBSET Rooms : RemoveRooms_Read(h, rs)) \/ Fails(h)
        BY <2>3, OthersKeepRooms, OthersKeepRatings
    <2>4. CASE RemoveRooms_Delete(h)
        BY <2>4, RemovalKeepsRooms, RemovalKeepsRatings
    <2> QED BY <1>3, <2>1, <2>2, <2>3, <2>4 DEF UpkeepStep
<1>4. ASSUME NEW h \in Handlers, RatingStep(h)
      PROVE  LandlordIInv'
    <2>1. RoomsOK'
        BY <1>4, RatingKeepsRooms
    <2>2. RatingsOK'
        BY <1>4, OpeningKeepsRatings, ChangeKeepsRatings, ReadKeepsRatings, CommitKeepsRatings,
           UndoneKeepsRatings DEF RatingStep
    <2> QED BY <2>1, <2>2
<1>5. ASSUME NEW h \in Handlers, DeskCrash(h)
      PROVE  LandlordIInv'
    BY <1>5, RatingKeepsRooms, OthersKeepRatings
<1>6. CASE UNCHANGED landlordVars
    <2>1. RoomsAlone /\ RatingsAlone
        BY <1>6 DEF landlordVars, RoomsAlone, RoomsOK, RemovalOK, AtDesk, RatingsAlone, Offered
    <2> QED BY <2>1, RoomsAloneKeep, RatingsAloneKeep
<1> QED BY <1>1, <1>2, <1>3, <1>4, <1>5, <1>6 DEF LandlordNext

(* LandlordIInv holds of every state of landlords' work on any number of   *)
(* rooms and ratings.                                                      *)
THEOREM LandlordInvariant == LandlordSpec => []LandlordIInv
<1>1. LandlordInit => LandlordIInv
    BY RoomsOKInit, RatingsOKInit DEF LandlordIInv
<1>2. LandlordIInv /\ [LandlordNext]_landlordVars => LandlordIInv'
    BY LandlordIInvInductive
<1> QED BY <1>1, <1>2, PTL DEF LandlordSpec

(* The number of rooms a landlord is shown is that of the physical rooms,  *)
(* unless two requests enlarged the room at once.                          *)
THEOREM TotalsAlwaysAgree == LandlordSpec => []TotalsAgree
<1>1. LandlordIInv => TotalsAgree
    BY DEF LandlordIInv, RoomsOK
<1> QED BY <1>1, LandlordInvariant, PTL

(* The overall rating of what is rated is that of its ratings, unless a    *)
(* transaction that another one overtook wrote it.                         *)
THEOREM OverallFollowsRatings == LandlordSpec => []OverallIsThatOfRatings
<1>1. LandlordIInv => OverallIsThatOfRatings
    BY DEF LandlordIInv, RatingsOK
<1> QED BY <1>1, LandlordInvariant, PTL

-----------------------------------------------------------------------------
(* Handlers of RentalPlatform whose rows a removal has not taken. *)
Entitled == {g \in Handlers : Needs(call[g]) \cap gone = {}}

(* What a removal found is still so. *)
Untaken(h) == AtDesk(h, "remove:delete") => \A i \in BuiltIn(desk[h].rooms) : LiveOn(i) = {}

PlatformOK == InvFor(Entitled) /\ \A h \in clean : Untaken(h)

-----------------------------------------------------------------------------
(* What a step of a handler of RentalPlatform leaves to the others. *)
LEMMA PlatformMoves ==
    ASSUME TypeOK, NEW h \in Handlers,
           BookingStep(h) \/ InvitationStep(h) \/ RentalStep(h) \/ Crash(h)
    PROVE  /\ \A g \in Handlers \ {h} : call'[g] = call[g]
           /\ \/ UNCHANGED rentals /\ clean' \subseteq clean \cup {h}
              \/ clean' \subseteq {h}
<1> USE DEF TypeOK, Begin, Goto, Return, GotoWritten, ReturnWritten
<1>1. CASE BookingStep(h)
  BY <1>1 DEF BookingStep, CreateBookingRequest_ReadRoom,
     CreateBookingRequest_FindExisting, CreateBookingRequest_Insert,
     UpdateBookingRequest_Read, UpdateBookingRequest_Write, ConfirmBookingRequest_Read,
     ConfirmBookingRequest_Mark, ConfirmBookingRequest_CheckInstance,
     ConfirmBookingRequest_CheckTenant, ConfirmBookingRequest_Commit, CommitRental,
     CancelBookingRequest_Read, CancelBookingRequest_Write, NotBookings
<1>2. CASE InvitationStep(h)
  BY <1>2 DEF InvitationStep, CreateRoomInvitation_ReadRoom,
     CreateRoomInvitation_FindInvitation, CreateRoomInvitation_FindBooking,
     CreateRoomInvitation_Insert, UpdateRoomInvitation_Read,
     UpdateRoomInvitation_FindInstance, UpdateRoomInvitation_Write,
     ConfirmRoomInvitation_Read, ConfirmRoomInvitation_Mark,
     ConfirmRoomInvitation_CheckInstance, ConfirmRoomInvitation_CheckTenant,
     ConfirmRoomInvitation_Commit, CommitRental, WithdrawRoomInvitation_Read,
     WithdrawRoomInvitation_Write, NotInvitations
<1>3. CASE RentalStep(h)
  BY <1>3 DEF RentalStep, CreateRental_FindExisting, CreateRental_ReadBooking,
     CreateRental_Insert, CreateRental_Occupy, TerminateRental_Read,
     TerminateRental_Write, TerminateRental_Release, RenewRental_Read, RenewRental_Write,
     UpdateRoomInstanceStatus_Read, BulkUpdateRoomInstanceStatus_Read,
     RoomInstanceStatus_Write
<1>4. CASE Crash(h)
  BY <1>4 DEF Crash
<1> QED
  BY <1>1, <1>2, <1>3, <1>4

(* Who does not move stays entitled, and who moved worked on rows that are there. *)
LEMMA PlatformStepKeeps ==
    ASSUME PlatformOK, PlatformStep
    PROVE  PlatformOK'
<1>1. PICK hs \in SUBSET Handlers : hs = Entitled
  BY DEF Entitled
<1>2. InvFor(hs) /\ TypeOK
  BY <1>1 DEF PlatformOK, InvFor
<1>3. UNCHANGED <<built, totals, miscounted, gone, desk>>
  BY DEF PlatformStep, upkeepVars
<1>4. CASE \E x \in RentalIds, s \in RentalEdits : UpdateRental(x, s)
  <2>1. InvFor(hs)'
    BY <1>2, <1>4, UpdateRentalSteps
  <2>2. Entitled' = hs /\ clean' = {}
    BY <1>1, <1>3, <1>4 DEF Entitled, UpdateRental
  <2> QED
    BY <2>1, <2>2 DEF PlatformOK
<1>5. CASE ~\E x \in RentalIds, s \in RentalEdits : UpdateRental(x, s)
  <2>1. PICK h \in Handlers :
           /\ AtDesk(h, "idle") /\ ~Dangling(call[h])
           /\ BookingStep(h) \/ InvitationStep(h) \/ RentalStep(h) \/ Crash(h)
    BY <1>5 DEF PlatformStep
  <2>2. h \in hs
    BY <1>1, <2>1 DEF Dangling, Entitled
  <2>3. InvFor(hs)'
    <3>1. CASE Crash(h)
      BY <1>2, <2>2, <3>1, ReturnStep DEF Crash, tables
    <3> QED
      BY <1>2, <2>1, <2>2, <3>1, BookingSteps, InvitationSteps, RentalSteps
  <2>4. /\ \A g \in Handlers \ {h} : call'[g] = call[g]
        /\ \/ UNCHANGED rentals /\ clean' \subseteq clean \cup {h}
           \/ clean' \subseteq {h}
    BY <1>2, <2>1, PlatformMoves
  <2>5. Entitled' \subseteq hs
    BY <1>1, <1>3, <2>2, <2>4 DEF Entitled
  <2>6. InvFor(Entitled)'
    BY <2>3, <2>5 DEF InvFor
  <2>7. ASSUME NEW g \in clean' PROVE Untaken(g)'
    <3>1. CASE g = h
      BY <1>3, <2>1, <3>1 DEF Untaken, AtDesk
    <3>2. CASE g # h
      <4>1. UNCHANGED rentals /\ g \in clean
        BY <2>4, <2>7, <3>2
      <4>2. Untaken(g) /\ \A i : LiveOn(i)' = LiveOn(i)
        BY <4>1, QueriesKept DEF PlatformOK
      <4> QED
        BY <1>3, <4>2 DEF Untaken, AtDesk, BuiltIn
    <3> QED
      BY <3>1, <3>2
  <2> QED
    BY <2>6, <2>7 DEF PlatformOK
<1> QED
  BY <1>4, <1>5

-----------------------------------------------------------------------------
(* A handler at rest relies on nothing. *)
LEMMA RestRelies ==
    ASSUME NEW h \in Handlers, call'[h].at = "idle"
    PROVE  FrameOK(h)' /\ ChecksHold(h)'
BY DEF FrameOK, ChecksHold, BookingConfirmLabels, InvitationConfirmLabels

(* A step of a desk that writes none of the tables of RentalPlatform. *)
LEMMA QuietStep ==
    ASSUME InvFor(Entitled), UNCHANGED tables, gone \subseteq gone', ControlOK,
           \A g \in Handlers :
              \/ call'[g].at = "idle"
              \/ call'[g] = call[g] /\ (g \in clean' => g \in clean)
    PROVE  InvFor(Entitled)'
<1>1. RequestRowsKept /\ RentalRowsKept
  BY DEF tables, RequestRowsKept, RentalRowsKept
<1>2. TypeOK'
  BY DEF InvFor, TypeOK, tables, ControlOK
<1>3. ConsentRecorded' /\ RentalsFollowConsent' /\ OneRentalPerRequest'
  BY DEF InvFor, tables, ConsentRecorded, RentalsFollowConsent, OneRentalPerRequest
<1>4. ASSUME NEW g \in Entitled'
      PROVE  FrameOK(g)' /\ (g \in clean' => ChecksHold(g)')
  <2>1. g \in Handlers
    BY DEF Entitled
  <2>2. CASE call'[g].at = "idle"
    BY <2>1, <2>2, RestRelies
  <2>3. CASE call'[g] = call[g] /\ (g \in clean' => g \in clean)
    <3>1. g \in Entitled
      BY <2>1, <2>3 DEF Entitled
    <3>2. FrameOK(g) /\ call[g] \in Frame /\ (g \in clean => ChecksHold(g))
      BY <2>1, <3>1 DEF InvFor, TypeOK
    <3> QED
      BY <1>1, <2>1, <2>3, <3>2, FrameKept, ChecksKept DEF tables
  <2> QED
    BY <2>1, <2>2, <2>3
<1> QED
  BY <1>2, <1>3, <1>4 DEF InvFor, Entitled

(* The same, with what is said of removals. *)
LEMMA DeskStep ==
    ASSUME PlatformOK, UNCHANGED <<tables, built>>, gone \subseteq gone', ControlOK,
           \A g \in Handlers :
              \/ call'[g].at = "idle"
              \/ call'[g] = call[g] /\ (g \in clean' => g \in clean),
           \A g \in clean' : (desk'[g] = desk[g] /\ g \in clean) \/ Untaken(g)'
    PROVE  PlatformOK'
<1>1. InvFor(Entitled)'
  BY QuietStep DEF PlatformOK
<1>2. ASSUME NEW g \in clean', desk'[g] = desk[g], g \in clean
      PROVE  Untaken(g)'
  <2>1. Untaken(g) /\ \A i : LiveOn(i)' = LiveOn(i)
    BY <1>2, QueriesKept DEF PlatformOK, tables
  <2> QED
    BY <1>2, <2>1 DEF Untaken, AtDesk, BuiltIn
<1> QED
  BY <1>1, <1>2 DEF PlatformOK

LEMMA OpenKeeps ==
    ASSUME PlatformOK, RoomsOK, NEW h \in Handlers, NEW op, NEW frame, Open(h, op, frame),
           UNCHANGED <<tables, built, gone>>,
           frame.at = "remove:delete" => \A i \in BuiltIn(frame.rooms) : LiveOn(i) = {}
    PROVE  PlatformOK'
<1>1. /\ desk'[h] = frame
      /\ \A g \in Handlers \ {h} : desk'[g] = desk[g]
      /\ clean' = clean \cup {h}
      /\ UNCHANGED call /\ call[h].at = "idle"
  BY DEF Open, RoomsOK, At
<1>2. ControlOK /\ clean' \subseteq Handlers
  BY StoreAssumption DEF PlatformOK, InvFor, TypeOK, ControlOK, Open
<1>3. Untaken(h)'
  <2>1. (\A i : LiveOn(i)' = LiveOn(i)) /\ BuiltIn(frame.rooms)' = BuiltIn(frame.rooms)
    BY QueriesKept DEF tables, BuiltIn
  <2> QED
    BY <1>1, <2>1 DEF Untaken, AtDesk, BuiltIn
<1>4. \A g \in Handlers : \/ call'[g].at = "idle"
                          \/ call'[g] = call[g] /\ (g \in clean' => g \in clean)
  BY <1>1
<1>5. \A g \in clean' : (desk'[g] = desk[g] /\ g \in clean) \/ Untaken(g)'
  BY <1>1, <1>2, <1>3
<1> QED
  BY <1>2, <1>4, <1>5, DeskStep

LEMMA MovesKeep ==
    ASSUME PlatformOK, RoomsOK, NEW h \in Handlers, NEW frame,
           desk' = [desk EXCEPT ![h] = frame], frame.at # "remove:delete",
           UNCHANGED <<tables, built, call, started>>, clean' \subseteq clean,
           gone \subseteq gone'
    PROVE  PlatformOK'
<1>1. /\ desk'[h] = frame
      /\ \A g \in Handlers \ {h} : desk'[g] = desk[g]
  BY DEF RoomsOK
<1>2. ControlOK /\ clean' \subseteq Handlers
  BY DEF PlatformOK, InvFor, TypeOK, ControlOK
<1>3. Untaken(h)'
  BY <1>1 DEF Untaken, AtDesk
<1>4. \A g \in Handlers : call'[g] = call[g] /\ (g \in clean' => g \in clean)
  OBVIOUS
<1>5. \A g \in clean' : (desk'[g] = desk[g] /\ g \in clean) \/ Untaken(g)'
  BY <1>1, <1>2, <1>3
<1> QED
  BY <1>2, <1>4, <1>5, DeskStep

LEMMA CloseKeeps ==
    ASSUME PlatformOK, RoomsOK, NEW h \in Handlers, Close(h), UNCHANGED <<tables, built>>,
           gone \subseteq gone'
    PROVE  PlatformOK'
<1>1. PICK frame : frame = [at |-> "idle"]
  OBVIOUS
<1>2. /\ frame.at # "remove:delete"
      /\ desk' = [desk EXCEPT ![h] = frame]
      /\ clean' \subseteq clean
      /\ UNCHANGED <<started, call>>
  BY <1>1 DEF Close
<1> QED
  BY <1>2, MovesKeep

LEMMA RatingKeepsPlatform ==
    ASSUME PlatformOK, RoomsOK, NEW h \in Handlers, RatingStep(h) \/ DeskCrash(h)
    PROVE  PlatformOK'
<1>1. UNCHANGED <<tables, built>> /\ gone \subseteq gone'
  BY DEF RatingStep, DeskCrash, CreateRating_Check, UpdateRating_Find, RemoveRating_Find,
     Rating_Change, Rating_Read, Rating_Commit, NotRatings, upkeepVars, tables
<1>2. ASSUME NEW op, NEW id, NEW row, NEW t, Open(h, op, ChangeFrame(id, row, t)),
             UNCHANGED gone
      PROVE  PlatformOK'
  <2>1. PICK frame : frame = ChangeFrame(id, row, t)
    OBVIOUS
  <2>2. frame.at # "remove:delete"
    BY <2>1 DEF ChangeFrame, RatingFrame
  <2> QED
    BY <1>1, <1>2, <2>1, <2>2, OpenKeeps
<1>3. ASSUME NEW label \in RatingLabels, NEW id, NEW row, NEW t, NEW result,
             Moves(h, RatingFrame(label, id, row, t, result))
      PROVE  PlatformOK'
  <2>1. PICK frame : frame = RatingFrame(label, id, row, t, result)
    OBVIOUS
  <2>2. frame.at # "remove:delete"
    BY <2>1 DEF RatingFrame, RatingLabels
  <2> QED
    BY <1>1, <1>3, <2>1, <2>2, MovesKeep DEF Moves
<1>4. CASE Close(h)
  BY <1>1, <1>4, CloseKeeps
<1> QED
  BY <1>2, <1>3, <1>4
  DEF RatingStep, DeskCrash, CreateRating_Check, UpdateRating_Find, RemoveRating_Find,
      Rating_Change, Rating_Read, Rating_Commit, RatingLabels

(* An enlargement and a removal that only read, and a handler that throws. *)
LEMMA QuietUpkeep ==
    ASSUME PlatformOK, RoomsOK, NEW h \in Handlers,
           \/ \E r \in Rooms, n \in 1..Cardinality(Instances) : UpdateRoom_Read(h, r, n)
           \/ \E rs \in SUBSET Rooms : RemoveRooms_Read(h, rs)
           \/ Fails(h)
           \/ UpdateRoom_Commit(h) /\ ~Offered(desk[h].room)
    PROVE  PlatformOK'
<1>1. UNCHANGED <<tables, built, gone>>
  BY DEF UpdateRoom_Read, RemoveRooms_Read, Fails, UpdateRoom_Commit, upkeepVars, tables
<1>2. CASE \E r \in Rooms, n \in 1..Cardinality(Instances) : UpdateRoom_Read(h, r, n)
  <2>1. PICK r \in Rooms, n \in 1..Cardinality(Instances) : UpdateRoom_Read(h, r, n)
    BY <1>2
  <2>2. PICK frame :
           frame = [at |-> "update:commit", room |-> r, total |-> n, read |-> totals[r]]
    OBVIOUS
  <2> QED
    BY <1>1, <2>1, <2>2, OpenKeeps DEF UpdateRoom_Read
<1>3. CASE \E rs \in SUBSET Rooms : RemoveRooms_Read(h, rs)
  <2>1. PICK rs \in SUBSET Rooms : RemoveRooms_Read(h, rs)
    BY <1>3
  <2>2. PICK frame : frame = [at |-> "remove:delete", rooms |-> rs]
    OBVIOUS
  <2>3. \A i \in BuiltIn(frame.rooms) : LiveOn(i) = {}
    BY <2>1, <2>2 DEF RemoveRooms_Read, Inhabited
  <2> QED
    BY <1>1, <2>1, <2>2, <2>3, OpenKeeps DEF RemoveRooms_Read
<1>4. CASE Fails(h)
  <2>1. TypeOK /\ Return(h) /\ UNCHANGED desk
    BY <1>4 DEF PlatformOK, InvFor, Fails
  <2>2. /\ ControlOK
        /\ call'[h] = Idle
        /\ \A g \in Handlers \ {h} : call'[g] = call[g]
        /\ clean' = clean \ {h}
    BY <2>1, ReturnMove
  <2>3. call'[h].at = "idle"
    BY <2>2 DEF Idle
  <2> QED
    BY <1>1, <2>1, <2>2, <2>3, DeskStep
<1>5. CASE UpdateRoom_Commit(h) /\ ~Offered(desk[h].room)
  BY <1>1, <1>5, CloseKeeps DEF UpdateRoom_Commit
<1> QED
  BY <1>2, <1>3, <1>4, <1>5

-----------------------------------------------------------------------------
(* The steps that write the tables of RentalPlatform. *)

(* Rows that are not gone stay what they were, but for what else refers to them. *)
OthersRowsKept ==
    /\ \A b \in BookingIds \ gone' : bookings'[b] = bookings[b]
    /\ \A v \in InvitationIds \ gone' : invitations'[v] = invitations[v]
    /\ \A x \in RentalIds \ gone' : rentals[x] # Null => rentals'[x] # Null

LEMMA EntitledKept ==
    ASSUME TypeOK, NEW g \in Entitled', FrameOK(g), UNCHANGED <<call, agreed>>,
           OthersRowsKept
    PROVE  FrameOK(g)'
<1>1. /\ g \in Handlers /\ call[g].rental \notin gone'
      /\ call[g].at # "createRental:occupy" => call[g].req \notin gone'
  BY DEF Entitled, Needs
<1>2. /\ call[g].at # "createRental:occupy" =>
            /\ call[g].req \in BookingIds => bookings'[call[g].req] = bookings[call[g].req]
            /\ call[g].req \in InvitationIds =>
                  invitations'[call[g].req] = invitations[call[g].req]
      /\ call[g].rental \in RentalIds /\ rentals[call[g].rental] # Null =>
            rentals'[call[g].rental] # Null
  BY <1>1 DEF OthersRowsKept
<1> QED
  BY <1>2, StoreAssumption
  DEF FrameOK, BookingConfirmLabels, InvitationConfirmLabels

LEMMA UpkeepWrite ==
    ASSUME PlatformOK, UNCHANGED <<call, agreed>>, gone \subseteq gone', clean' = {},
           OthersRowsKept, TypeOK', ConsentRecorded', RentalsFollowConsent',
           OneRentalPerRequest'
    PROVE  PlatformOK'
<1>1. ASSUME NEW g \in Entitled'
      PROVE  FrameOK(g)'
  <2>1. g \in Entitled
    BY DEF Entitled
  <2> QED
    BY <2>1, EntitledKept DEF PlatformOK, InvFor
<1> QED
  BY <1>1 DEF PlatformOK, InvFor

(* New physical rooms are available, and nobody rents them yet.            *)
LEMMA BuildKeeps ==
    ASSUME PlatformOK, NEW r, NEW n, Build(r, n), clean' = {}, started' \in 0..MaxCalls,
           UNCHANGED <<bookings, invitations, rentals, agreed, call, gone>>
    PROVE  PlatformOK'
<1>1. instances' \in [Instances -> RoomStatus]
  BY DEF PlatformOK, InvFor, TypeOK, Build, RoomStatus
<1>2. TypeOK'
  BY <1>1 DEF PlatformOK, InvFor, TypeOK
<1>3. ConsentRecorded' /\ RentalsFollowConsent' /\ OneRentalPerRequest'
  BY DEF PlatformOK, InvFor, ConsentRecorded, RentalsFollowConsent, OneRentalPerRequest
<1>4. OthersRowsKept
  BY DEF OthersRowsKept
<1> QED
  BY <1>2, <1>3, <1>4, UpkeepWrite

LEMMA BuildingKeepsPlatform ==
    ASSUME PlatformOK,
           \/ \E r \in Rooms, n \in 1..Cardinality(Instances) : CreateRoom(r, n)
           \/ \E h \in Handlers : UpdateRoom_Commit(h) /\ Offered(desk[h].room)
    PROVE  PlatformOK'
<1>1. started' \in 0..MaxCalls
  BY StoreAssumption
  DEF PlatformOK, InvFor, TypeOK, CreateRoom, UpdateRoom_Commit, CloseWritten, Close
<1> QED
  BY <1>1, BuildKeeps DEF CreateRoom, UpdateRoom_Commit, CloseWritten

(* Only requests that go with the room are forgotten. *)
LEMMA OrphanedRow ==
    ASSUME NEW row \in Rental, NEW lost
    PROVE  /\ Orphaned(row, lost) \in Rental
           /\ Orphaned(row, lost).inst = row.inst
           /\ Orphaned(row, lost).tenant = row.tenant
           /\ Orphaned(row, lost).booking = IF row.booking \in lost THEN Null
                                                                    ELSE row.booking
           /\ Orphaned(row, lost).invitation = IF row.invitation \in lost
                                               THEN Null ELSE row.invitation
BY StoreAssumption DEF Orphaned, Rental

LEMMA RemovalKeepsPlatform ==
    ASSUME PlatformOK, NEW h \in Handlers, RemoveRooms_Delete(h)
    PROVE  PlatformOK'
<1>1. PICK rs : rs = {r \in desk[h].rooms : Offered(r)}
  OBVIOUS
<1>2. PICK is : is = BuiltIn(rs)
  OBVIOUS
<1>3. PICK requests : requests = RequestsOf(rs)
  OBVIOUS
<1>4. PICK lost : lost = RentalsOf(is)
  OBVIOUS
<1>5. /\ instances' = [i \in Instances |-> IF i \in is THEN "unavailable" ELSE instances[i]]
      /\ bookings' = [b \in BookingIds |-> IF b \in requests THEN Null ELSE bookings[b]]
      /\ invitations' = [v \in InvitationIds |->
                            IF v \in requests THEN Null ELSE invitations[v]]
      /\ rentals' = [x \in RentalIds |-> IF x \in lost THEN Null
                                         ELSE Orphaned(rentals[x], requests)]
      /\ gone' = gone \cup requests \cup lost \cup rs
      /\ clean' = {}
      /\ UNCHANGED <<started, call, agreed>>
  BY <1>1, <1>2, <1>3, <1>4 DEF RemoveRooms_Delete, CloseWritten
<1>6. TypeOK /\ ConsentRecorded /\ RentalsFollowConsent /\ OneRentalPerRequest
  BY DEF PlatformOK, InvFor
<1>7. ASSUME NEW x \in RentalIds, rentals'[x] # Null
      PROVE  /\ rentals[x] \in Rental /\ rentals[x] # Null
             /\ rentals'[x] = Orphaned(rentals[x], requests)
  BY <1>5, <1>6, <1>7 DEF TypeOK, Orphaned
<1>8. TypeOK'
  <2>1. rentals' \in [RentalIds -> Rental \cup {Null}]
    BY <1>5, <1>7, OrphanedRow
  <2> QED
    BY <1>5, <1>6, <2>1 DEF TypeOK, RoomStatus
<1>9. ConsentRecorded'
  BY <1>5, <1>6 DEF ConsentRecorded
<1>10. RentalsFollowConsent'
  <2>1. ASSUME NEW x \in RentalIds, rentals'[x] # Null, rentals'[x].booking # Null
        PROVE  /\ rentals'[x].booking = rentals[x].booking
               /\ rentals'[x].booking \in BookingIds
               /\ bookings'[rentals'[x].booking] = bookings[rentals'[x].booking]
    BY <1>5, <1>7, <2>1, OrphanedRow DEF Rental
  <2>2. ASSUME NEW x \in RentalIds, rentals'[x] # Null, rentals'[x].invitation # Null
        PROVE  /\ rentals'[x].invitation = rentals[x].invitation
               /\ rentals'[x].invitation \in InvitationIds
               /\ invitations'[rentals'[x].invitation] = invitations[rentals'[x].invitation]
    BY <1>5, <1>7, <2>2, OrphanedRow DEF Rental
  <2>3. ASSUME NEW x \in RentalIds, rentals'[x] # Null
        PROVE  /\ rentals[x] # Null
               /\ rentals'[x].inst = rentals[x].inst
               /\ rentals'[x].tenant = rentals[x].tenant
    BY <1>7, <2>3, OrphanedRow
  <2> QED
    BY <1>5, <1>6, <2>1, <2>2, <2>3 DEF RentalsFollowConsent
<1>11. OneRentalPerRequest'
  <2>1. ASSUME NEW x \in RentalIds, rentals'[x] # Null
        PROVE  /\ rentals[x] # Null
               /\ rentals'[x].booking \in {Null, rentals[x].booking}
               /\ rentals'[x].invitation \in {Null, rentals[x].invitation}
    BY <1>7, <2>1, OrphanedRow
  <2> QED
    BY <1>6, <2>1 DEF OneRentalPerRequest
<1>12. OthersRowsKept
  <2>1. \A x \in RentalIds \ gone' : rentals[x] # Null => rentals'[x] # Null
    BY <1>5, <1>6, OrphanedRow, StoreAssumption DEF TypeOK
  <2> QED
    BY <1>5, <2>1 DEF OthersRowsKept
<1> QED
  BY <1>5, <1>8, <1>9, <1>10, <1>11, <1>12, UpkeepWrite

-----------------------------------------------------------------------------
LEMMA PlatformOKInit == LandlordInit => PlatformOK
<1> SUFFICES ASSUME LandlordInit PROVE PlatformOK
  OBVIOUS
<1>1. TypeOK
  BY IdleInFrame, StoreAssumption DEF LandlordInit, TypeOK, RoomStatus
<1>2. \A h \in Handlers : FrameOK(h)
  BY DEF LandlordInit, Idle, FrameOK, BookingConfirmLabels, InvitationConfirmLabels
<1>3. ConsentRecorded /\ RentalsFollowConsent /\ OneRentalPerRequest
  BY DEF LandlordInit, ConsentRecorded, RentalsFollowConsent, OneRentalPerRequest
<1>4. clean = {}
  BY DEF LandlordInit
<1> QED
  BY <1>1, <1>2, <1>3, <1>4 DEF PlatformOK, InvFor, Entitled

LEMMA PlatformOKStep ==
    ASSUME PlatformOK, RoomsOK, [LandlordNext]_landlordVars
    PROVE  PlatformOK'
<1>1. CASE UNCHANGED landlordVars
  <2>1. UNCHANGED <<tables, built, gone, desk, call, clean, started>>
    BY <1>1 DEF landlordVars, vars, tables
  <2>2. ControlOK
    BY <2>1 DEF PlatformOK, InvFor, TypeOK, ControlOK
  <2> QED
    BY <2>1, <2>2, DeskStep
<1>2. ASSUME NEW h \in Handlers, UpkeepStep(h) \/ RatingStep(h) \/ DeskCrash(h)
      PROVE  PlatformOK'
  BY <1>2, RatingKeepsPlatform, QuietUpkeep, BuildingKeepsPlatform, RemovalKeepsPlatform
  DEF UpkeepStep
<1> QED
  BY <1>1, <1>2, PlatformStepKeeps, BuildingKeepsPlatform DEF LandlordNext

LEMMA PlatformInvariant == LandlordSpec => [](PlatformOK /\ RoomsOK)
<1>1. LandlordInit => PlatformOK
  BY PlatformOKInit
<1>2. PlatformOK /\ RoomsOK /\ [LandlordNext]_landlordVars => PlatformOK'
  BY PlatformOKStep
<1>3. LandlordIInv => RoomsOK
  BY DEF LandlordIInv
<1> QED
  BY <1>1, <1>2, <1>3, LandlordInvariant, PTL DEF LandlordSpec

(* Also where rooms are removed under the handlers that work on them, no   *)
(* rental exists without the consent to the request it names, and no       *)
(* request is rented out twice.                                            *)
THEOREM ConsentSurvivesRemovals ==
    LandlordSpec => [](RentalsFollowConsent /\ OneRentalPerRequest)
<1>1. PlatformOK => RentalsFollowConsent /\ OneRentalPerRequest
  BY DEF PlatformOK, InvFor
<1> QED
  BY <1>1, PlatformInvariant, PTL

-----------------------------------------------------------------------------
(* Who finds a call changed where rooms come and go. *)
LEMMA WhoMovedAmongLandlords ==
    ASSUME PlatformOK, [LandlordNext]_landlordVars, NEW h \in Handlers, call'[h] # call[h]
    PROVE  \/ UNCHANGED <<rentals, instances>>
           \/ Next /\ h \in Entitled
<1>1. CASE PlatformStep
  <2>1. \A x \in RentalIds, s \in RentalEdits : ~UpdateRental(x, s)
    BY DEF UpdateRental
  <2>2. PICK g \in Handlers :
           /\ ~Dangling(call[g])
           /\ BookingStep(g) \/ InvitationStep(g) \/ RentalStep(g) \/ Crash(g)
    BY <1>1, <2>1 DEF PlatformStep
  <2>3. g = h
    BY <2>2, PlatformMoves DEF PlatformOK, InvFor
  <2> QED
    BY <2>2, <2>3 DEF Next, Entitled, Dangling
<1>2. CASE \E g \in Handlers : Fails(g)
  BY <1>2 DEF Fails
<1>3. CASE UNCHANGED landlordVars
  BY <1>3 DEF landlordVars, vars
<1>4. CASE \E r \in Rooms, n \in 1..Cardinality(Instances) : CreateRoom(r, n)
  BY <1>4 DEF CreateRoom
<1>5. ASSUME NEW g \in Handlers, RatingStep(g) \/ DeskCrash(g)
      PROVE  UNCHANGED call
  BY <1>5 DEF RatingStep, DeskCrash, CreateRating_Check, UpdateRating_Find,
     RemoveRating_Find, Rating_Change, Rating_Read, Rating_Commit, Open, Close, Moves
<1>6. ASSUME NEW g \in Handlers, UpkeepStep(g), ~Fails(g)
      PROVE  UNCHANGED call
  BY <1>6 DEF UpkeepStep, UpdateRoom_Read, UpdateRoom_Commit, RemoveRooms_Read,
     RemoveRooms_Delete, Open, Close, CloseWritten
<1> QED
  BY <1>1, <1>2, <1>3, <1>4, <1>5, <1>6 DEF LandlordNext

(* A createRental that no write of rentals overtook rents out a physical   *)
(* room nobody lives in, also where rooms are built and removed meanwhile. *)
THEOREM CreateAmongLandlords == LandlordSpec => UndisturbedCreateIsExclusive
<1>1. ASSUME PlatformOK, [LandlordNext]_landlordVars, NEW h \in clean, NEW x \in Inserted,
             At(h, "createRental:insert"), call'[h] # call[h]
      PROVE  LiveOn(rentals'[x].inst) = {}
  <2>1. InvFor(Entitled) /\ Entitled \in SUBSET Handlers /\ h \in Handlers
    BY <1>1 DEF PlatformOK, InvFor, TypeOK, Entitled
  <2>2. ~UNCHANGED rentals
    BY DEF Inserted
  <2>3. Next /\ h \in clean \cap Entitled
    BY <1>1, <2>1, <2>2, WhoMovedAmongLandlords
  <2> QED
    BY <1>1, <2>1, <2>3, UndisturbedCreateStep
<1>2. PlatformOK /\ [LandlordNext]_landlordVars =>
         [\A h \in clean, x \in Inserted :
            At(h, "createRental:insert") /\ call'[h] # call[h]
            => LiveOn(rentals'[x].inst) = {}]_vars
  BY <1>1
<1> QED
  BY <1>2, PlatformInvariant, PTL DEF LandlordSpec, UndisturbedCreateIsExclusive

(* A landlord whom no write of rentals overtook declares no physical room   *)
(* available that somebody lives in, also where rooms come and go.         *)
THEOREM ReleaseAmongLandlords == LandlordSpec => UndisturbedReleaseIsVacant
<1>1. ASSUME PlatformOK, [LandlordNext]_landlordVars, NEW h \in clean, NEW i \in Instances,
             At(h, "roomStatus:write"), call'[h] # call[h],
             instances'[i] = "available", instances[i] # "available"
      PROVE  LiveOn(i) = {}
  <2>1. InvFor(Entitled) /\ Entitled \in SUBSET Handlers /\ h \in Handlers
    BY <1>1 DEF PlatformOK, InvFor, TypeOK, Entitled
  <2>2. Next /\ h \in clean \cap Entitled
    BY <1>1, <2>1, WhoMovedAmongLandlords
  <2> QED
    BY <1>1, <2>1, <2>2, UndisturbedReleaseStep
<1>2. PlatformOK /\ [LandlordNext]_landlordVars =>
         [\A h \in clean, i \in Instances :
            /\ At(h, "roomStatus:write") /\ call'[h] # call[h]
            /\ instances'[i] = "available" /\ instances[i] # "available"
            => LiveOn(i) = {}]_vars
  BY <1>1
<1> QED
  BY <1>2, PlatformInvariant, PTL DEF LandlordSpec, UndisturbedReleaseIsVacant

(* A desk about to remove is moved by its removal or by a crash, and by    *)
(* nothing else.                                                           *)
LEMMA WhoRemoves ==
    ASSUME RoomsOK, [LandlordNext]_landlordVars, NEW h \in Handlers,
           AtDesk(h, "remove:delete"), desk'[h] # desk[h]
    PROVE  RemoveRooms_Delete(h) \/ UNCHANGED rentals
<1>1. CASE PlatformStep \/ UNCHANGED landlordVars
  BY <1>1 DEF PlatformStep, landlordVars
<1>2. CASE \E r \in Rooms, n \in 1..Cardinality(Instances) : CreateRoom(r, n)
  BY <1>2 DEF CreateRoom
<1>3. ASSUME NEW g \in Handlers, RatingStep(g) \/ DeskCrash(g)
      PROVE  UNCHANGED rentals
  BY <1>3 DEF RatingStep, DeskCrash, CreateRating_Check, UpdateRating_Find,
     RemoveRating_Find, Rating_Change, Rating_Read, Rating_Commit, NotRatings
<1>4. ASSUME NEW g \in Handlers, UpkeepStep(g)
      PROVE  RemoveRooms_Delete(h) \/ UNCHANGED rentals
  <2>1. CASE RemoveRooms_Delete(g)
    <3>1. desk' = [desk EXCEPT ![g] = [at |-> "idle"]]
      BY <2>1 DEF RemoveRooms_Delete, CloseWritten
    <3>2. g = h
      BY <1>4, <3>1 DEF RoomsOK
    <3> QED
      BY <2>1, <3>2
  <2>2. CASE ~RemoveRooms_Delete(g)
    BY <1>4, <2>2 DEF UpkeepStep, UpdateRoom_Read, UpdateRoom_Commit, RemoveRooms_Read, Fails
  <2> QED
    BY <2>1, <2>2
<1> QED
  BY <1>1, <1>2, <1>3, <1>4 DEF LandlordNext

(* A removal that no write of rentals overtook takes no live rental with   *)
(* the rooms: "Cannot delete room with active rentals".                    *)
THEOREM UndisturbedRemoval == LandlordSpec => UndisturbedRemovalTakesNoTenant
<1>1. ASSUME PlatformOK, RoomsOK, [LandlordNext]_landlordVars, NEW h \in clean,
             NEW x \in RentalIds, AtDesk(h, "remove:delete"), desk'[h] # desk[h],
             rentals[x] # Null, rentals[x].status \in {"active", "pending_renewal"}
      PROVE  rentals'[x] # Null
  <2>1. /\ h \in Handlers /\ Untaken(h)
        /\ rentals[x] \in Rental
    BY <1>1 DEF PlatformOK, InvFor, TypeOK
  <2>2. CASE RemoveRooms_Delete(h)
    <3>1. PICK rs : rs = {r \in desk[h].rooms : Offered(r)}
      OBVIOUS
    <3>2. PICK requests : requests = RequestsOf(rs)
      OBVIOUS
    <3>3. PICK lost : lost = RentalsOf(BuiltIn(rs))
      OBVIOUS
    <3>4. rentals' = [y \in RentalIds |-> IF y \in lost THEN Null
                                          ELSE Orphaned(rentals[y], requests)]
      BY <2>2, <3>1, <3>2, <3>3 DEF RemoveRooms_Delete
    <3>5. x \in LiveOn(rentals[x].inst)
      BY <1>1 DEF LiveOn
    <3>6. x \notin lost
      BY <1>1, <2>1, <3>1, <3>3, <3>5 DEF Untaken, RentalsOf, BuiltIn
    <3> QED
      BY <2>1, <3>4, <3>6, OrphanedRow, StoreAssumption
  <2> QED
    BY <1>1, <2>1, <2>2, WhoRemoves
<1>2. PlatformOK /\ RoomsOK /\ [LandlordNext]_landlordVars =>
         [\A h \in clean, x \in RentalIds :
            /\ AtDesk(h, "remove:delete") /\ desk'[h] # desk[h]
            /\ rentals[x] # Null /\ rentals[x].status \in {"active", "pending_renewal"}
            => rentals'[x] # Null]_landlordVars
  BY <1>1
<1> QED
  BY <1>2, PlatformInvariant, PTL DEF LandlordSpec, UndisturbedRemovalTakesNoTenant
=============================================================================
