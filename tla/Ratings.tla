------------------------------ MODULE Ratings ------------------------------
(***************************************************************************)
(* Ratings of rooms and users, RatingService: each change is a           *)
(* transaction that changes a row, reads the rows of the target and writes *)
(* its overall rating.                                                     *)
(*                                                                         *)
(* At the default isolation level a transaction holds the lock of the row  *)
(* it changed until it commits, and reads what others have committed.      *)
(***************************************************************************)
EXTENDS RoomUpkeep, Functions

NotRatings == <<bookings, invitations, rentals, instances, agreed, upkeepVars>>

IsThere(t) == t \in Rooms => Offered(t)

OfTarget(rows, t) == {g \in RatingIds : rows[g] # Null /\ rows[g].of = t}

(* What the ratings of a target come to: nothing to divide when there are  *)
(* none.                                                                   *)
Tally(rows, t) ==
    LET stars == [g \in OfTarget(rows, t) |-> rows[g].stars] IN
    IF OfTarget(rows, t) = {} THEN NotRated
    ELSE [sum |-> SumFunction(stars), count |-> Cardinality(OfTarget(rows, t))]

RatingFrame(label, id, row, t, result) ==
    [at |-> label, id |-> id, of |-> t, row |-> row, result |-> result]

ChangeFrame(id, row, t) == RatingFrame("rating:change", id, row, t, Null)

(* create: nobody rates themselves, or anybody twice. *)
CreateRating_Check(h, u, t, s) ==
    /\ IsThere(t)
    /\ u # t
    /\ \A g \in OfTarget(ratings, t) : ratings[g].by # u
    /\ Open(h, "createRating", ChangeFrame(Null, [by |-> u, of |-> t, stars |-> s], t))
    /\ UNCHANGED <<NotRatings, gone, ratingVars>>

UpdateRating_Find(h, g, s) ==
    /\ ratings[g] # Null
    /\ Open(h, "updateRating", ChangeFrame(g, [ratings[g] EXCEPT !.stars = s], ratings[g].of))
    /\ UNCHANGED <<NotRatings, gone, ratingVars>>

RemoveRating_Find(h, g) ==
    /\ ratings[g] # Null
    /\ Open(h, "removeRating", ChangeFrame(g, Null, ratings[g].of))
    /\ UNCHANGED <<NotRatings, gone, ratingVars>>

-----------------------------------------------------------------------------
(* The transaction. *)

InTransaction(h) == desk[h].at \in {"rating:read", "rating:commit"}

Held == {desk[g].id : g \in {h \in Handlers : InTransaction(h)}}

Moves(h, frame) ==
    /\ desk' = [desk EXCEPT ![h] = frame]
    /\ UNCHANGED <<started, call, clean>>

(* A row that is gone cannot be changed. *)
Rating_Change(h) ==
    LET f == desk[h] IN
    /\ AtDesk(h, "rating:change")
    /\ \/ /\ f.id = Null
          /\ \E g \in RatingIds \ (gone \cup Held) :
                ratings[g] = Null /\ Moves(h, RatingFrame("rating:read", g, f.row, f.of, Null))
       \/ /\ f.id # Null /\ f.id \notin Held
          /\ IF ratings[f.id] = Null THEN Close(h)
             ELSE Moves(h, RatingFrame("rating:read", f.id, f.row, f.of, Null))
    /\ UNCHANGED <<NotRatings, gone, ratingVars>>

(* Mutant: the ratings are read outside the transaction. *)
Seen_Outside(f) == ratings

(* The rows as the transaction sees them: with its own change. *)
Seen(f) == [ratings EXCEPT ![f.id] = f.row]

Rating_Read(h) ==
    LET f == desk[h] IN
    /\ AtDesk(h, "rating:read")
    /\ Moves(h, RatingFrame("rating:commit", f.id, f.row, f.of, Tally(Seen(f), f.of)))
    /\ fresh' = fresh \cup {h}
    /\ UNCHANGED <<NotRatings, gone, ratings, overall, blurred>>

(* A target that is gone cannot be updated, and everything is undone.      *)
Rating_Commit(h) ==
    LET f == desk[h] IN
    /\ AtDesk(h, "rating:commit")
    /\ IF IsThere(f.of)
       THEN /\ ratings' = [ratings EXCEPT ![f.id] = f.row]
            /\ overall' = [overall EXCEPT ![f.of] = f.result]
            /\ gone' = IF f.row = Null THEN gone \cup {f.id} ELSE gone
            /\ fresh' = {g \in fresh \ {h} : desk[g].of # f.of}
            /\ blurred' = IF h \in fresh THEN blurred \ {f.of} ELSE blurred \cup {f.of}
       ELSE fresh' = fresh \ {h} /\ UNCHANGED <<ratings, overall, gone, blurred>>
    /\ Close(h)
    /\ UNCHANGED NotRatings

RatingStep(h) ==
    \/ \E u \in Reviewers, t \in Rated, s \in Stars : CreateRating_Check(h, u, t, s)
    \/ \E g \in RatingIds :
          RemoveRating_Find(h, g) \/ \E s \in Stars : UpdateRating_Find(h, g, s)
    \/ Rating_Change(h) \/ Rating_Read(h) \/ Rating_Commit(h)
=============================================================================
