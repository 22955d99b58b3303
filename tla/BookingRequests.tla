--------------------------- MODULE BookingRequests ---------------------------
(***************************************************************************)
(* A tenant asks for a room, the landlord answers, the tenant confirms and *)
(* a rental is made: BookingRequestsService, one action per awaited call.  *)
(* Dates, prices and notifications are left out; a notification that fails *)
(* outside a try changes no row.                                           *)
(***************************************************************************)
EXTENDS RentalStore

NotBookings == <<invitations, rentals, instances>>

(* A booking can be confirmed only once the landlord has accepted it. *)
ConfirmableBooking(q) == q.status = "accepted"

CreateBookingRequest_ReadRoom(h, t, r) ==
    /\ AvailableIn(r) # {}
    /\ Begin(h, "createBooking",
             [Idle EXCEPT !.at = "createBooking:findExisting",
                          !.tenant = t, !.room = r])
    /\ UNCHANGED <<bookings, NotBookings, agreed>>

CreateBookingRequest_FindExisting(h) ==
    /\ At(h, "createBooking:findExisting")
    /\ IF \E b \in BookingIds : /\ IsOpen(bookings[b])
                                /\ bookings[b].tenant = call[h].tenant
                                /\ bookings[b].room = call[h].room
       THEN Return(h)
       ELSE Goto(h, "createBooking:insert")
    /\ UNCHANGED <<bookings, NotBookings, agreed>>

CreateBookingRequest_Insert(h) ==
    /\ At(h, "createBooking:insert")
    /\ \E b \in BookingIds :
          /\ bookings[b] = Null
          /\ bookings' = [bookings EXCEPT ![b] =
                 [tenant |-> call[h].tenant, room |-> call[h].room,
                  status |-> "pending", confirmed |-> FALSE]]
    /\ Return(h)
    /\ UNCHANGED <<NotBookings, agreed>>

UpdateBookingRequest_Read(h, b, s) ==
    /\ bookings[b] # Null
    /\ bookings[b].status = "pending"
    /\ Begin(h, "updateBooking",
             [Idle EXCEPT !.at = "updateBooking:write", !.req = b, !.status = s])
    /\ UNCHANGED <<bookings, NotBookings, agreed>>

UpdateBookingRequest_Write(h) ==
    LET b == call[h].req IN
    /\ At(h, "updateBooking:write")
    /\ bookings' = [bookings EXCEPT ![b].status = call[h].status]
    /\ agreed' = IF call[h].status = "accepted" THEN agreed \cup {b} ELSE agreed
    /\ Return(h)
    /\ UNCHANGED NotBookings

(* The booking is read together with one available instance of its room,   *)
(* any of them: the query takes one and states no order.                   *)
ConfirmBookingRequest_Read(h, b) ==
    /\ bookings[b] # Null
    /\ ConfirmableBooking(bookings[b])
    /\ \E i \in (IF AvailableIn(bookings[b].room) = {}
                 THEN {Null} ELSE AvailableIn(bookings[b].room)) :
          Begin(h, "confirmBooking",
                [Idle EXCEPT !.at = "confirmBooking:mark", !.req = b, !.inst = i])
    /\ UNCHANGED <<bookings, NotBookings, agreed>>

(* Step 1 of the handler: whatever happens next, and whatever the status   *)
(* has become since it was read, the booking is now accepted and confirmed.*)
ConfirmBookingRequest_Mark(h) ==
    /\ At(h, "confirmBooking:mark")
    /\ bookings' = [bookings EXCEPT ![call[h].req].status = "accepted",
                                    ![call[h].req].confirmed = TRUE]
    /\ IF call[h].inst = Null
       THEN Return(h)
       ELSE Goto(h, "confirmBooking:instance")
    /\ UNCHANGED <<NotBookings, agreed>>

ConfirmBookingRequest_CheckInstance(h) ==
    /\ At(h, "confirmBooking:instance")
    /\ IF ActiveOn(call[h].inst) # {}
       THEN Return(h)
       ELSE Goto(h, "confirmBooking:tenant")
    /\ UNCHANGED <<bookings, NotBookings, agreed>>

ConfirmBookingRequest_CheckTenant(h) ==
    /\ At(h, "confirmBooking:tenant")
    /\ IF ActiveOf(bookings[call[h].req].tenant) # {}
       THEN Return(h)
       ELSE Goto(h, "confirmBooking:commit")
    /\ UNCHANGED <<bookings, NotBookings, agreed>>

ConfirmBookingRequest_Commit(h) ==
    LET b == call[h].req IN
    /\ At(h, "confirmBooking:commit")
    /\ CommitRental(h, [booking |-> b, invitation |-> Null, inst |-> call[h].inst,
                        tenant |-> bookings[b].tenant, status |-> "active"])
    /\ UNCHANGED <<bookings, invitations, agreed>>

CancelBookingRequest_Read(h, b) ==
    /\ bookings[b] # Null
    /\ bookings[b].status # "cancelled"
    /\ Begin(h, "cancelBooking",
             [Idle EXCEPT !.at = "cancelBooking:write", !.req = b])
    /\ UNCHANGED <<bookings, NotBookings, agreed>>

CancelBookingRequest_Write(h) ==
    /\ At(h, "cancelBooking:write")
    /\ bookings' = [bookings EXCEPT ![call[h].req].status = "cancelled"]
    /\ Return(h)
    /\ UNCHANGED <<NotBookings, agreed>>

BookingStep(h) ==
    \/ \E t \in Tenants, r \in Rooms : CreateBookingRequest_ReadRoom(h, t, r)
    \/ CreateBookingRequest_FindExisting(h)
    \/ CreateBookingRequest_Insert(h)
    \/ \E b \in BookingIds, s \in Answers : UpdateBookingRequest_Read(h, b, s)
    \/ UpdateBookingRequest_Write(h)
    \/ \E b \in BookingIds : ConfirmBookingRequest_Read(h, b)
    \/ ConfirmBookingRequest_Mark(h)
    \/ ConfirmBookingRequest_CheckInstance(h)
    \/ ConfirmBookingRequest_CheckTenant(h)
    \/ ConfirmBookingRequest_Commit(h)
    \/ \E b \in BookingIds : CancelBookingRequest_Read(h, b)
    \/ CancelBookingRequest_Write(h)
=============================================================================
