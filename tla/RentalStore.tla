---------------------------- MODULE RentalStore ----------------------------
(***************************************************************************)
(* The tables that booking, inviting and renting a room share, and the     *)
(* request handlers that read and write them.                              *)
(*                                                                         *)
(* The services run no query under a lock and set no isolation level, so   *)
(* each awaited Prisma call is one atomic step and the handlers of other   *)
(* requests run between two of them.  A handler is a frame: the call it    *)
(* awaits next and what it has read so far.  Rows and columns that never   *)
(* change (users, roles, ownership, prices) are read at any moment with    *)
(* the same result and appear in no step; a request whose checks fail on   *)
(* its first read changes nothing and is no step either.                   *)
(***************************************************************************)
EXTENDS Naturals, FiniteSets

CONSTANTS
    Handlers,         \* requests the server can have in progress at once
    Tenants, Rooms,   \* users of role tenant; room types
    Instances,        \* physical rooms
    RoomOf,           \* the room type of each physical room
    BookingIds, InvitationIds, RentalIds,  \* rows each table can come to hold
    Null,             \* no row, no value
    Ops,              \* the endpoints clients call, and "crash"
    Answers,          \* the statuses PATCH sets on a booking or an invitation
    RentalEdits,      \* the statuses PATCH sets on a rental
    RoomEdits,        \* the statuses PATCH sets on a room instance
    MaxCalls          \* bound: requests the clients send

RequestStatus == {"pending", "accepted", "rejected", "expired", "cancelled",
                  "awaiting_confirmation"}
RentalStatus == {"active", "terminated", "expired", "pending_renewal"}
RoomStatus == {"available", "occupied", "maintenance", "reserved", "unavailable"}

RequestIds == BookingIds \cup InvitationIds

(* A row of room_bookings or of room_invitations; tenant is the recipient. *)
Request == [tenant: Tenants, room: Rooms, status: RequestStatus, confirmed: BOOLEAN]

Rental == [booking: BookingIds \cup {Null}, invitation: InvitationIds \cup {Null},
           inst: Instances, tenant: Tenants, status: RentalStatus]

ASSUME StoreAssumption ==
    /\ RoomOf \in [Instances -> Rooms]
    /\ Null \notin UNION {Tenants, Rooms, Instances, BookingIds, InvitationIds,
                          RentalIds, RequestStatus, RentalStatus, RoomStatus}
    /\ Null \notin Request \cup Rental
    /\ BookingIds \cap InvitationIds = {}
    /\ Answers \subseteq RequestStatus
    /\ RentalEdits \subseteq RentalStatus
    /\ RoomEdits \subseteq RoomStatus
    /\ MaxCalls \in Nat

VARIABLES
    bookings,     \* room_bookings
    invitations,  \* room_invitations
    rentals,      \* rentals
    instances,    \* status column of room_instances
    call,         \* the frame of each handler
    started,      \* requests sent so far
    agreed,       \* history: requests the other party has ever accepted
    clean         \* history: handlers in progress since whose first read no
                  \* other handler has written rentals or room_instances

vars == <<bookings, invitations, rentals, instances, call, started, agreed, clean>>

Labels ==
    {"idle",
     "createBooking:findExisting", "createBooking:insert",
     "updateBooking:write", "cancelBooking:write",
     "confirmBooking:mark", "confirmBooking:instance", "confirmBooking:tenant",
     "confirmBooking:commit",
     "createInvitation:findInvitation", "createInvitation:findBooking",
     "createInvitation:insert",
     "updateInvitation:findInstance", "updateInvitation:write",
     "withdrawInvitation:write",
     "confirmInvitation:mark", "confirmInvitation:instance",
     "confirmInvitation:tenant", "confirmInvitation:commit",
     "createRental:readBooking", "createRental:insert", "createRental:occupy",
     "terminateRental:write", "terminateRental:release", "renewRental:write",
     "roomStatus:write"}

Frame == [at: Labels,
          req: RequestIds \cup {Null},
          rental: RentalIds \cup {Null},
          inst: Instances \cup {Null},
          insts: SUBSET Instances,
          tenant: Tenants \cup {Null},
          room: Rooms \cup {Null},
          status: RequestStatus \cup RoomStatus \cup {Null}]

Idle == [at |-> "idle", req |-> Null, rental |-> Null, inst |-> Null,
         insts |-> {}, tenant |-> Null, room |-> Null, status |-> Null]

-----------------------------------------------------------------------------
(* Queries. *)

IsOpen(q) == q # Null /\ q.status \in {"pending", "accepted"}

AvailableIn(r) == {i \in Instances : RoomOf[i] = r /\ instances[i] = "available"}

ActiveOn(i) == {x \in RentalIds : rentals[x] # Null /\ rentals[x].inst = i
                                  /\ rentals[x].status = "active"}

ActiveOf(t) == {x \in RentalIds : rentals[x] # Null /\ rentals[x].tenant = t
                                  /\ rentals[x].status = "active"}

LiveOn(i) == {x \in RentalIds : rentals[x] # Null /\ rentals[x].inst = i
                                /\ rentals[x].status \in {"active", "pending_renewal"}}

(* Mutant: room_booking_id carries no unique index. *)
NotYetRented_NoBookingIndex(row) ==
    \A x \in RentalIds : rentals[x] # Null =>
        (row.invitation # Null => rentals[x].invitation # row.invitation)

(* The unique indexes of rentals on room_booking_id and on invitation_id. *)
NotYetRented(row) ==
    \A x \in RentalIds : rentals[x] # Null =>
        /\ row.booking # Null => rentals[x].booking # row.booking
        /\ row.invitation # Null => rentals[x].invitation # row.invitation

-----------------------------------------------------------------------------
(* Moving a handler along. *)

At(h, label) == call[h].at = label

(* A request for endpoint op arrives and its first read succeeds. *)
Begin(h, op, frame) ==
    /\ op \in Ops
    /\ At(h, "idle")
    /\ started < MaxCalls
    /\ started' = started + 1
    /\ call' = [call EXCEPT ![h] = frame]
    /\ clean' = clean \cup {h}

Goto(h, label) ==
    /\ call' = [call EXCEPT ![h].at = label]
    /\ UNCHANGED <<started, clean>>

(* The handler answers, or throws: nothing of its frame survives. *)
Return(h) ==
    /\ call' = [call EXCEPT ![h] = Idle]
    /\ clean' = clean \ {h}
    /\ UNCHANGED started

(* The same after a write of rentals or room_instances: the handlers still  *)
(* in progress may have read what it overwrote.                            *)
GotoWritten(h, label) ==
    /\ call' = [call EXCEPT ![h].at = label]
    /\ clean' = clean \cap {h}
    /\ UNCHANGED started

ReturnWritten(h) ==
    /\ call' = [call EXCEPT ![h] = Idle]
    /\ clean' = {}
    /\ UNCHANGED started

InsertRental(row) ==
    \E x \in RentalIds :
        /\ rentals[x] = Null
        /\ rentals' = [rentals EXCEPT ![x] = row]

(* Mutant: the transaction leaves the instance as it is. *)
CommitRental_NotOccupying(h, row) ==
    \/ /\ NotYetRented(row)
       /\ InsertRental(row)
       /\ ReturnWritten(h)
       /\ UNCHANGED instances
    \/ /\ ~NotYetRented(row)
       /\ Return(h)
       /\ UNCHANGED <<rentals, instances>>

(* $transaction of the two confirm handlers: insert the rental and mark its *)
(* instance occupied, or neither.  A unique index that refuses the row      *)
(* throws into the handler's catch, which only reports the failure.         *)
CommitRental(h, row) ==
    \/ /\ NotYetRented(row)
       /\ InsertRental(row)
       /\ instances' = [instances EXCEPT ![row.inst] = "occupied"]
       /\ ReturnWritten(h)
    \/ /\ ~NotYetRented(row)
       /\ Return(h)
       /\ UNCHANGED <<rentals, instances>>

(* The process dies or a query fails while h is in progress: what it has    *)
(* written stays, what it has not is never written.                        *)
Crash(h) ==
    /\ "crash" \in Ops
    /\ ~At(h, "idle")
    /\ Return(h)
    /\ UNCHANGED <<bookings, invitations, rentals, instances, agreed>>
=============================================================================
