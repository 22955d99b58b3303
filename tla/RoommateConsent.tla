-------------------------- MODULE RoommateConsent --------------------------
(***************************************************************************)
(* What living together promises, with no tables, handlers or schedules:   *)
(* nobody moves in on an application that the tenant who lives there has   *)
(* not welcomed, nor before it is cleared (by the landlord, where the room *)
(* is on the platform), and an application that got so far stays there.    *)
(***************************************************************************)
CONSTANT Applications

VARIABLE stage

(* Some may have applied before. *)
Init == stage \in [Applications -> {"none", "asked"}]

Move(a, from, to) ==
    /\ stage[a] = from
    /\ stage' = [stage EXCEPT ![a] = to]

(* Somebody applies. *)
Apply(a) == Move(a, "none", "asked")

(* The tenant invites somebody, or welcomes who applied. *)
Welcome(a) == Move(a, "none", "welcomed") \/ Move(a, "asked", "welcomed")

(* The landlord agrees, or there is none to ask. *)
Clear(a) == Move(a, "welcomed", "cleared") \/ Move(a, "asked", "cleared")

MoveIn(a) == Move(a, "cleared", "in")

Next == \E a \in Applications : Apply(a) \/ Welcome(a) \/ Clear(a) \/ MoveIn(a)

Spec == Init /\ [][Next]_stage
=============================================================================
