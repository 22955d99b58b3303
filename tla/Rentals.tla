------------------------------ MODULE Rentals ------------------------------
(***************************************************************************)
(* What a landlord and a tenant do with a rental, RentalsService, and what *)
(* a landlord does with the status of physical rooms, RoomsService.        *)
(*                                                                         *)
(* createRental with an invitationId is no action: it compares a column    *)
(* room_invitations does not have with the requested instance, and throws. *)
(***************************************************************************)
EXTENDS RentalStore

NotRentals == <<bookings, invitations, agreed>>

RentableBooking(q, t) == q.status = "accepted" /\ q.tenant = t

(* Mutant: only active rentals of the instance are in the way. *)
CreateRental_FindActive(h, t, i, b) ==
    /\ ActiveOn(i) = {}
    /\ Begin(h, "createRental",
             [Idle EXCEPT !.at = IF b = Null THEN "createRental:insert"
                                             ELSE "createRental:readBooking",
                          !.tenant = t, !.inst = i, !.req = b])
    /\ UNCHANGED <<NotRentals, rentals, instances>>

(* createRental: b is Null when the landlord names no booking. *)
CreateRental_FindExisting(h, t, i, b) ==
    /\ LiveOn(i) = {}
    /\ Begin(h, "createRental",
             [Idle EXCEPT !.at = IF b = Null THEN "createRental:insert"
                                             ELSE "createRental:readBooking",
                          !.tenant = t, !.inst = i, !.req = b])
    /\ UNCHANGED <<NotRentals, rentals, instances>>

CreateRental_ReadBooking(h) ==
    LET b == call[h].req IN
    /\ At(h, "createRental:readBooking")
    /\ IF bookings[b] # Null /\ RentableBooking(bookings[b], call[h].tenant)
       THEN Goto(h, "createRental:insert")
       ELSE Return(h)
    /\ UNCHANGED <<NotRentals, rentals, instances>>

(* No transaction joins this insert to the next step. *)
CreateRental_Insert(h) ==
    LET row == [booking |-> call[h].req, invitation |-> Null, inst |-> call[h].inst,
                tenant |-> call[h].tenant, status |-> "active"]
    IN
    /\ At(h, "createRental:insert")
    /\ \/ /\ NotYetRented(row)
          /\ InsertRental(row)
          /\ GotoWritten(h, "createRental:occupy")
       \/ /\ ~NotYetRented(row)
          /\ Return(h)
          /\ UNCHANGED rentals
    /\ UNCHANGED <<NotRentals, instances>>

CreateRental_Occupy(h) ==
    /\ At(h, "createRental:occupy")
    /\ instances' = [instances EXCEPT ![call[h].inst] = "occupied"]
    /\ ReturnWritten(h)
    /\ UNCHANGED <<NotRentals, rentals>>

(* updateRental reads nothing that its write depends on, so it is one step. *)
UpdateRental(x, s) ==
    /\ "updateRental" \in Ops
    /\ started < MaxCalls
    /\ rentals[x] # Null
    /\ rentals' = [rentals EXCEPT ![x].status = s]
    /\ started' = started + 1
    /\ clean' = {}
    /\ UNCHANGED <<NotRentals, instances, call>>

TerminateRental_Read(h, x) ==
    /\ rentals[x] # Null
    /\ rentals[x].status # "terminated"
    /\ Begin(h, "terminateRental",
             [Idle EXCEPT !.at = "terminateRental:write", !.rental = x])
    /\ UNCHANGED <<NotRentals, rentals, instances>>

TerminateRental_Write(h) ==
    /\ At(h, "terminateRental:write")
    /\ rentals' = [rentals EXCEPT ![call[h].rental].status = "terminated"]
    /\ GotoWritten(h, "terminateRental:release")
    /\ UNCHANGED <<NotRentals, instances>>

TerminateRental_Release(h) ==
    /\ At(h, "terminateRental:release")
    /\ instances' = [instances EXCEPT ![rentals[call[h].rental].inst] = "available"]
    /\ ReturnWritten(h)
    /\ UNCHANGED <<NotRentals, rentals>>

RenewRental_Read(h, x) ==
    /\ rentals[x] # Null
    /\ rentals[x].status = "active"
    /\ Begin(h, "renewRental",
             [Idle EXCEPT !.at = "renewRental:write", !.rental = x])
    /\ UNCHANGED <<NotRentals, rentals, instances>>

RenewRental_Write(h) ==
    /\ At(h, "renewRental:write")
    /\ rentals' = [rentals EXCEPT ![call[h].rental].status = "pending_renewal"]
    /\ ReturnWritten(h)
    /\ UNCHANGED <<NotRentals, instances>>

(* Mutant: an instance can be declared available while somebody rents it. *)
ValidTransition_Careless(i, s) ==
    \/ instances[i] = s
    \/ s = "occupied" /\ instances[i] \in {"available", "reserved"}
    \/ s = "available"
    \/ s = "maintenance" /\ ~(LiveOn(i) # {} /\ instances[i] = "occupied")
    \/ s = "reserved" /\ instances[i] = "available"
    \/ s = "unavailable"

(* validateStatusTransition: may instance i be given status s? *)
ValidTransition(i, s) ==
    \/ instances[i] = s
    \/ s = "occupied" /\ instances[i] \in {"available", "reserved"}
    \/ s = "available" /\ LiveOn(i) = {}
    \/ s = "maintenance" /\ ~(LiveOn(i) # {} /\ instances[i] = "occupied")
    \/ s = "reserved" /\ instances[i] = "available"
    \/ s = "unavailable"

(* updateRoomInstanceStatus, for one instance. *)
UpdateRoomInstanceStatus_Read(h, i, s) ==
    /\ ValidTransition(i, s)
    /\ Begin(h, "updateRoomInstanceStatus",
             [Idle EXCEPT !.at = "roomStatus:write", !.insts = {i}, !.status = s])
    /\ UNCHANGED <<NotRentals, rentals, instances>>

(* bulkUpdateRoomInstanceStatus, for several instances of one room. *)
BulkUpdateRoomInstanceStatus_Read(h, r, is, s) ==
    /\ \A i \in is : RoomOf[i] = r /\ ValidTransition(i, s)
    /\ Begin(h, "bulkUpdateRoomInstanceStatus",
             [Idle EXCEPT !.at = "roomStatus:write", !.insts = is, !.status = s])
    /\ UNCHANGED <<NotRentals, rentals, instances>>

RoomInstanceStatus_Write(h) ==
    /\ At(h, "roomStatus:write")
    /\ instances' = [i \in Instances |-> IF i \in call[h].insts THEN call[h].status
                                                                ELSE instances[i]]
    /\ ReturnWritten(h)
    /\ UNCHANGED <<NotRentals, rentals>>

RentalStep(h) ==
    \/ \E t \in Tenants, i \in Instances, b \in BookingIds \cup {Null} :
          CreateRental_FindExisting(h, t, i, b)
    \/ CreateRental_ReadBooking(h)
    \/ CreateRental_Insert(h)
    \/ CreateRental_Occupy(h)
    \/ \E x \in RentalIds : TerminateRental_Read(h, x)
    \/ TerminateRental_Write(h)
    \/ TerminateRental_Release(h)
    \/ \E x \in RentalIds : RenewRental_Read(h, x)
    \/ RenewRental_Write(h)
    \/ \E i \in Instances, s \in RoomEdits : UpdateRoomInstanceStatus_Read(h, i, s)
    \/ \E r \in Rooms, is \in (SUBSET Instances) \ {{}}, s \in RoomEdits :
          BulkUpdateRoomInstanceStatus_Read(h, r, is, s)
    \/ RoomInstanceStatus_Write(h)
=============================================================================
