--------------------------- MODULE RoomInvitations ---------------------------
(***************************************************************************)
(* A landlord invites a tenant to a room, the tenant answers, the landlord *)
(* confirms and a rental is made: RoomInvitationsService.                  *)
(***************************************************************************)
EXTENDS RentalStore

NotInvitations == <<bookings, rentals, instances>>

(* Mutant: any invitation that is not closed can be confirmed. *)
ConfirmableInvitation_Pending(q) == q.status \in {"pending", "accepted"}

ConfirmableInvitation(q) == q.status = "accepted"

CreateRoomInvitation_ReadRoom(h, t, r) ==
    /\ AvailableIn(r) # {}
    /\ Begin(h, "createInvitation",
             [Idle EXCEPT !.at = "createInvitation:findInvitation",
                          !.tenant = t, !.room = r])
    /\ UNCHANGED <<invitations, NotInvitations, agreed>>

CreateRoomInvitation_FindInvitation(h) ==
    /\ At(h, "createInvitation:findInvitation")
    /\ IF \E v \in InvitationIds : /\ IsOpen(invitations[v])
                                   /\ invitations[v].tenant = call[h].tenant
                                   /\ invitations[v].room = call[h].room
       THEN Return(h)
       ELSE Goto(h, "createInvitation:findBooking")
    /\ UNCHANGED <<invitations, NotInvitations, agreed>>

CreateRoomInvitation_FindBooking(h) ==
    /\ At(h, "createInvitation:findBooking")
    /\ IF \E b \in BookingIds : /\ IsOpen(bookings[b])
                                /\ bookings[b].tenant = call[h].tenant
                                /\ bookings[b].room = call[h].room
       THEN Return(h)
       ELSE Goto(h, "createInvitation:insert")
    /\ UNCHANGED <<invitations, NotInvitations, agreed>>

CreateRoomInvitation_Insert(h) ==
    /\ At(h, "createInvitation:insert")
    /\ \E v \in InvitationIds :
          /\ invitations[v] = Null
          /\ invitations' = [invitations EXCEPT ![v] =
                 [tenant |-> call[h].tenant, room |-> call[h].room,
                  status |-> "pending", confirmed |-> FALSE]]
    /\ Return(h)
    /\ UNCHANGED <<NotInvitations, agreed>>

(* Only an acceptance looks for a free instance before it is written. *)
UpdateRoomInvitation_Read(h, v, s) ==
    /\ invitations[v] # Null
    /\ invitations[v].status = "pending"
    /\ Begin(h, "updateInvitation",
             [Idle EXCEPT !.at = IF s = "accepted"
                                 THEN "updateInvitation:findInstance"
                                 ELSE "updateInvitation:write",
                          !.req = v, !.status = s])
    /\ UNCHANGED <<invitations, NotInvitations, agreed>>

UpdateRoomInvitation_FindInstance(h) ==
    /\ At(h, "updateInvitation:findInstance")
    /\ IF AvailableIn(invitations[call[h].req].room) = {}
       THEN Return(h)
       ELSE Goto(h, "updateInvitation:write")
    /\ UNCHANGED <<invitations, NotInvitations, agreed>>

UpdateRoomInvitation_Write(h) ==
    LET v == call[h].req IN
    /\ At(h, "updateInvitation:write")
    /\ invitations' = [invitations EXCEPT ![v].status = call[h].status]
    /\ agreed' = IF call[h].status = "accepted" THEN agreed \cup {v} ELSE agreed
    /\ Return(h)
    /\ UNCHANGED NotInvitations

ConfirmRoomInvitation_Read(h, v) ==
    /\ invitations[v] # Null
    /\ ConfirmableInvitation(invitations[v])
    /\ \E i \in (IF AvailableIn(invitations[v].room) = {}
                 THEN {Null} ELSE AvailableIn(invitations[v].room)) :
          Begin(h, "confirmInvitation",
                [Idle EXCEPT !.at = "confirmInvitation:mark", !.req = v, !.inst = i])
    /\ UNCHANGED <<invitations, NotInvitations, agreed>>

ConfirmRoomInvitation_Mark(h) ==
    /\ At(h, "confirmInvitation:mark")
    /\ invitations' = [invitations EXCEPT ![call[h].req].status = "accepted",
                                          ![call[h].req].confirmed = TRUE]
    /\ IF call[h].inst = Null
       THEN Return(h)
       ELSE Goto(h, "confirmInvitation:instance")
    /\ UNCHANGED <<NotInvitations, agreed>>

(* Mutant: active rentals of the instance are not looked at. *)
ConfirmRoomInvitation_TrustInstance(h) ==
    /\ At(h, "confirmInvitation:instance")
    /\ Goto(h, "confirmInvitation:tenant")
    /\ UNCHANGED <<invitations, NotInvitations, agreed>>

ConfirmRoomInvitation_CheckInstance(h) ==
    /\ At(h, "confirmInvitation:instance")
    /\ IF ActiveOn(call[h].inst) # {}
       THEN Return(h)
       ELSE Goto(h, "confirmInvitation:tenant")
    /\ UNCHANGED <<invitations, NotInvitations, agreed>>

ConfirmRoomInvitation_CheckTenant(h) ==
    /\ At(h, "confirmInvitation:tenant")
    /\ IF ActiveOf(invitations[call[h].req].tenant) # {}
       THEN Return(h)
       ELSE Goto(h, "confirmInvitation:commit")
    /\ UNCHANGED <<invitations, NotInvitations, agreed>>

ConfirmRoomInvitation_Commit(h) ==
    LET v == call[h].req IN
    /\ At(h, "confirmInvitation:commit")
    /\ CommitRental(h, [booking |-> Null, invitation |-> v, inst |-> call[h].inst,
                        tenant |-> invitations[v].tenant, status |-> "active"])
    /\ UNCHANGED <<bookings, invitations, agreed>>

WithdrawRoomInvitation_Read(h, v) ==
    /\ invitations[v] # Null
    /\ invitations[v].status \notin {"cancelled", "accepted"}
    /\ Begin(h, "withdrawInvitation",
             [Idle EXCEPT !.at = "withdrawInvitation:write", !.req = v])
    /\ UNCHANGED <<invitations, NotInvitations, agreed>>

WithdrawRoomInvitation_Write(h) ==
    /\ At(h, "withdrawInvitation:write")
    /\ invitations' = [invitations EXCEPT ![call[h].req].status = "cancelled"]
    /\ Return(h)
    /\ UNCHANGED <<NotInvitations, agreed>>

InvitationStep(h) ==
    \/ \E t \in Tenants, r \in Rooms : CreateRoomInvitation_ReadRoom(h, t, r)
    \/ CreateRoomInvitation_FindInvitation(h)
    \/ CreateRoomInvitation_FindBooking(h)
    \/ CreateRoomInvitation_Insert(h)
    \/ \E v \in InvitationIds, s \in Answers : UpdateRoomInvitation_Read(h, v, s)
    \/ UpdateRoomInvitation_FindInstance(h)
    \/ UpdateRoomInvitation_Write(h)
    \/ \E v \in InvitationIds : ConfirmRoomInvitation_Read(h, v)
    \/ ConfirmRoomInvitation_Mark(h)
    \/ ConfirmRoomInvitation_CheckInstance(h)
    \/ ConfirmRoomInvitation_CheckTenant(h)
    \/ ConfirmRoomInvitation_Commit(h)
    \/ \E v \in InvitationIds : WithdrawRoomInvitation_Read(h, v)
    \/ WithdrawRoomInvitation_Write(h)
=============================================================================
