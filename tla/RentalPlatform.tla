--------------------------- MODULE RentalPlatform ---------------------------
(***************************************************************************)
(* Bookings, invitations, rentals and room instances together: the four    *)
(* services serve any mix of requests over one database.                   *)
(***************************************************************************)
EXTENDS BookingRequests, RoomInvitations, Rentals

Init ==
    /\ bookings = [b \in BookingIds |-> Null]
    /\ invitations = [v \in InvitationIds |-> Null]
    /\ rentals = [x \in RentalIds |-> Null]
    /\ instances = [i \in Instances |-> "available"]
    /\ call = [h \in Handlers |-> Idle]
    /\ started = 0
    /\ agreed = {}
    /\ clean = {}

Next ==
    \/ \E h \in Handlers :
          BookingStep(h) \/ InvitationStep(h) \/ RentalStep(h) \/ Crash(h)
    \/ \E x \in RentalIds, s \in RentalEdits : UpdateRental(x, s)

Spec == Init /\ [][Next]_vars

-----------------------------------------------------------------------------
(* Every row, frame and history variable has the shape its table or        *)
(* handler gives it.                                                       *)
TypeOK ==
    /\ bookings \in [BookingIds -> Request \cup {Null}]
    /\ invitations \in [InvitationIds -> Request \cup {Null}]
    /\ rentals \in [RentalIds -> Rental \cup {Null}]
    /\ instances \in [Instances -> RoomStatus]
    /\ call \in [Handlers -> Frame]
    /\ started \in 0..MaxCalls
    /\ agreed \subseteq RequestIds
    /\ clean \subseteq Handlers

(* A rental made from a booking or an invitation is between the parties of *)
(* that request, whose other side agreed to it at some time, however the   *)
(* calls that answered, cancelled and confirmed it interleaved; a rental   *)
(* from an invitation is also in the room of the invitation and confirmed. *)
RentalsFollowConsent ==
    \A x \in RentalIds : rentals[x] # Null =>
        /\ rentals[x].booking # Null =>
              LET q == bookings[rentals[x].booking] IN
              /\ q # Null
              /\ q.tenant = rentals[x].tenant
              /\ rentals[x].booking \in agreed
        /\ rentals[x].invitation # Null =>
              LET q == invitations[rentals[x].invitation] IN
              /\ q # Null
              /\ q.tenant = rentals[x].tenant
              /\ q.room = RoomOf[rentals[x].inst]
              /\ q.confirmed
              /\ rentals[x].invitation \in agreed

(* A booking or an invitation is rented out at most once, also when it is  *)
(* confirmed twice or confirmed while the landlord creates its rental.     *)
OneRentalPerRequest ==
    \A x, y \in RentalIds :
        rentals[x] # Null /\ rentals[y] # Null /\ x # y =>
            /\ rentals[x].booking = rentals[y].booking => rentals[x].booking = Null
            /\ rentals[x].invitation = rentals[y].invitation =>
                  rentals[x].invitation = Null

(* The rows a step inserts into rentals. *)
Inserted == {x \in RentalIds : rentals[x] = Null /\ rentals'[x] # Null}

(* The checks of the confirm handlers are enough when nothing comes between *)
(* them and the insert: from every state the system can get into, a handler *)
(* that no other handler's write to rentals or room_instances has overtaken *)
(* gives the tenant their only active rental, on an instance that was       *)
(* available and has no other one.                                         *)
UndisturbedConfirmIsExclusive ==
    [][\A h \in clean, x \in Inserted :
          /\ call[h].at \in {"confirmBooking:commit", "confirmInvitation:commit"}
          /\ call'[h] # call[h]
          => /\ instances[rentals'[x].inst] = "available"
             /\ ActiveOn(rentals'[x].inst) = {}
             /\ ActiveOf(rentals'[x].tenant) = {}]_vars

(* The same for the landlord's createRental, which looks at live rentals   *)
(* of the instance and at nothing else.                                    *)
UndisturbedCreateIsExclusive ==
    [][\A h \in clean, x \in Inserted :
          At(h, "createRental:insert") /\ call'[h] # call[h]
          => LiveOn(rentals'[x].inst) = {}]_vars

(* A physical room that somebody lives in is not declared available by its *)
(* landlord, alone or in bulk, unless a rental was written after the check. *)
UndisturbedReleaseIsVacant ==
    [][\A h \in clean, i \in Instances :
          /\ At(h, "roomStatus:write") /\ call'[h] # call[h]
          /\ instances'[i] = "available" /\ instances[i] # "available"
          => LiveOn(i) = {}]_vars

(* Writes of the rental services that neither look again at what they go   *)
(* with nor share a transaction with it.                                   *)
LooseWrites == {"createRental:insert", "terminateRental:release", "renewRental:write",
                "roomStatus:write"}

(* An instance comes to be shown as available while somebody has a live    *)
(* rental of it only by one of these writes, or by a landlord who edits the *)
(* status of a rental directly: never by a booking or an invitation, by the *)
(* end of a rental or by a crash, however handlers interleave.             *)
OnlyLooseWritesLoseTrack ==
    [][\A i \in Instances :
          /\ instances'[i] = "available" /\ LiveOn(i)' # {}
          /\ ~(instances[i] = "available" /\ LiveOn(i) # {})
          => \/ \E h \in Handlers : call[h].at \in LooseWrites /\ call'[h] # call[h]
             \/ UNCHANGED call]_vars

-----------------------------------------------------------------------------
(* The inductive invariant behind the theorems of RentalPlatform_proofs:   *)
(* what a frame may rely on at each label, and what its checks still say   *)
(* as long as no other handler has written what they looked at.            *)

BookingConfirmLabels == {"confirmBooking:mark", "confirmBooking:instance",
                         "confirmBooking:tenant", "confirmBooking:commit"}

InvitationConfirmLabels == {"confirmInvitation:mark", "confirmInvitation:instance",
                            "confirmInvitation:tenant", "confirmInvitation:commit"}

(* The row a handler works on exists and the consent it has read was given. *)
FrameOK(h) ==
    LET f == call[h] IN
    /\ f.at \in {"createBooking:findExisting", "createBooking:insert",
                 "createInvitation:findInvitation", "createInvitation:findBooking",
                 "createInvitation:insert"}
          => f.tenant \in Tenants /\ f.room \in Rooms
    /\ f.at \in {"updateBooking:write", "cancelBooking:write"} \cup BookingConfirmLabels
          => f.req \in BookingIds /\ bookings[f.req] # Null
    /\ f.at \in {"updateInvitation:findInstance", "updateInvitation:write",
                 "withdrawInvitation:write"} \cup InvitationConfirmLabels
          => f.req \in InvitationIds /\ invitations[f.req] # Null
    /\ f.at \in {"updateBooking:write", "updateInvitation:findInstance",
                 "updateInvitation:write"}
          => f.status \in RequestStatus
    /\ f.at \in BookingConfirmLabels \cup InvitationConfirmLabels => f.req \in agreed
    /\ f.at \in InvitationConfirmLabels /\ f.inst # Null
          => RoomOf[f.inst] = invitations[f.req].room
    /\ f.at \in {"confirmBooking:instance", "confirmBooking:tenant",
                 "confirmBooking:commit", "confirmInvitation:instance",
                 "confirmInvitation:tenant", "confirmInvitation:commit"}
          => f.inst # Null
    /\ f.at \in {"confirmInvitation:instance", "confirmInvitation:tenant",
                 "confirmInvitation:commit"}
          => invitations[f.req].confirmed
    /\ f.at \in {"createRental:readBooking", "createRental:insert", "createRental:occupy"}
          => /\ f.tenant \in Tenants
             /\ f.inst \in Instances
             /\ f.req \in BookingIds \cup {Null}
    /\ f.at = "createRental:readBooking" => f.req # Null
    /\ f.at = "createRental:insert" /\ f.req # Null
          => /\ bookings[f.req] # Null
             /\ bookings[f.req].tenant = f.tenant
             /\ f.req \in agreed
    /\ f.at \in {"terminateRental:write", "terminateRental:release", "renewRental:write"}
          => f.rental \in RentalIds /\ rentals[f.rental] # Null
    /\ f.at = "roomStatus:write" => f.status \in RoomStatus

(* The tenant a confirming handler acts for. *)
TenantOf(h) == IF call[h].at \in BookingConfirmLabels
               THEN bookings[call[h].req].tenant
               ELSE invitations[call[h].req].tenant

(* What the checks behind a frame found, still true while it is clean. *)
ChecksHold(h) ==
    LET f == call[h] IN
    /\ f.at \in BookingConfirmLabels \cup InvitationConfirmLabels /\ f.inst # Null
          => instances[f.inst] = "available"
    /\ f.at \in {"confirmBooking:tenant", "confirmBooking:commit",
                 "confirmInvitation:tenant", "confirmInvitation:commit"}
          => ActiveOn(f.inst) = {}
    /\ f.at \in {"confirmBooking:commit", "confirmInvitation:commit"}
          => ActiveOf(TenantOf(h)) = {}
    /\ f.at \in {"createRental:readBooking", "createRental:insert"} => LiveOn(f.inst) = {}
    /\ f.at = "roomStatus:write" /\ f.status = "available"
          => \A i \in f.insts : instances[i] = "available" \/ LiveOn(i) = {}

ConsentRecorded ==
    /\ \A b \in BookingIds :
          bookings[b] # Null /\ (bookings[b].status = "accepted" \/ bookings[b].confirmed)
              => b \in agreed
    /\ \A v \in InvitationIds :
          invitations[v] # Null
                /\ (invitations[v].status = "accepted" \/ invitations[v].confirmed)
              => v \in agreed

(* The handlers hs can rely on what they have read.                        *)
InvFor(hs) ==
    /\ TypeOK
    /\ \A h \in hs : FrameOK(h)
    /\ \A h \in clean \cap hs : ChecksHold(h)
    /\ ConsentRecorded
    /\ RentalsFollowConsent
    /\ OneRentalPerRequest

IInv == InvFor(Handlers)

-----------------------------------------------------------------------------
(* Refinement: both kinds of request implement TwoPartyConsent. *)

AskedBookings == {b \in BookingIds : bookings[b] # Null}
SealedBookings == {b \in BookingIds : bookings[b] # Null /\ bookings[b].confirmed}
RentedBookings ==
    {b \in BookingIds : \E x \in RentalIds : rentals[x] # Null /\ rentals[x].booking = b}

BookingConsent == INSTANCE TwoPartyConsent WITH
    Requests <- BookingIds,
    NeedSeal <- FALSE,  \* createRental rents out an accepted booking unconfirmed
    asked <- AskedBookings,
    agreed <- agreed \cap BookingIds,
    sealed <- SealedBookings,
    rented <- RentedBookings

AskedInvitations == {v \in InvitationIds : invitations[v] # Null}
SealedInvitations ==
    {v \in InvitationIds : invitations[v] # Null /\ invitations[v].confirmed}
RentedInvitations ==
    {v \in InvitationIds :
        \E x \in RentalIds : rentals[x] # Null /\ rentals[x].invitation = v}

InvitationConsent == INSTANCE TwoPartyConsent WITH
    Requests <- InvitationIds,
    NeedSeal <- TRUE,
    asked <- AskedInvitations,
    agreed <- agreed \cap InvitationIds,
    sealed <- SealedInvitations,
    rented <- RentedInvitations

(* A booking goes from asked to agreed to confirmed and rented in no other *)
(* order and keeps what it has reached.                                    *)
BookingsImplementConsent == BookingConsent!Spec

(* The same for an invitation, whose rental needs the landlord's           *)
(* confirmation as well.                                                   *)
InvitationsImplementConsent == InvitationConsent!Spec

(* Both, over the one table of rentals: a rental moves the request it comes *)
(* from, and no other.                                                     *)
RequestsImplementConsent == BookingsImplementConsent /\ InvitationsImplementConsent

-----------------------------------------------------------------------------
(* What does not hold of every run of the system. *)

(* One person lives in one rental at a time: the comment on the tenant     *)
(* check of both confirm handlers.                                         *)
OneRentalPerTenant ==
    \A t \in Tenants : Cardinality(ActiveOf(t)) <= 1
=============================================================================
