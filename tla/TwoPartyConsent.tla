-------------------------- MODULE TwoPartyConsent --------------------------
(***************************************************************************)
(* What booking and inviting promise a tenant and a landlord, with no      *)
(* tables, handlers or schedules: nothing is rented out on a request its   *)
(* other party never agreed to, where NeedSeal it also takes the asker's   *)
(* own later confirmation, and a request is rented out at most once.       *)
(***************************************************************************)
CONSTANTS Requests, NeedSeal

VARIABLES asked, agreed, sealed, rented

consentVars == <<asked, agreed, sealed, rented>>

Init == asked = {} /\ agreed = {} /\ sealed = {} /\ rented = {}

Ask(q) ==
    /\ q \notin asked
    /\ asked' = asked \cup {q}
    /\ UNCHANGED <<agreed, sealed, rented>>

Agree(q) ==
    /\ q \in asked
    /\ agreed' = agreed \cup {q}
    /\ UNCHANGED <<asked, sealed, rented>>

Seal(q) ==
    /\ q \in agreed
    /\ sealed' = sealed \cup {q}
    /\ UNCHANGED <<asked, agreed, rented>>

Rent(q) ==
    /\ q \in agreed
    /\ NeedSeal => q \in sealed
    /\ q \notin rented
    /\ rented' = rented \cup {q}
    /\ UNCHANGED <<asked, agreed, sealed>>

Next == \E q \in Requests : Ask(q) \/ Agree(q) \/ Seal(q) \/ Rent(q)

Spec == Init /\ [][Next]_consentVars
=============================================================================
