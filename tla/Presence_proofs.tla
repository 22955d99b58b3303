-------------------------- MODULE Presence_proofs --------------------------
(***************************************************************************)
(* Proofs about Presence for any users and finitely many sockets.          *)
(***************************************************************************)
EXTENDS Presence, FiniteSetTheorems, TLAPS

HasSocket(u) == \E s \in Sockets : table.userOf[s] = u

(* The flags under way for a user all say what is so, and the flag itself  *)
(* does when there are none.                                               *)
FlagsAreRight ==
    \A u \in Users \ (switched \cup disturbed) :
        /\ ~Crossing(writes, u)
        /\ writes[u][TRUE] > 0 => HasSocket(u)
        /\ writes[u][FALSE] > 0 => ~HasSocket(u)
        /\ Quiet(writes, u) => (online[u] <=> HasSocket(u))

IInv == TypeOK /\ MapsAgree /\ FlagsAreRight

-----------------------------------------------------------------------------
(* The parts of a state, typed. *)
LEMMA Typed ==
    ASSUME TypeOK
    PROVE  /\ table = [userOf |-> table.userOf, socketsOf |-> table.socketsOf,
                       health |-> table.health]
           /\ table.userOf \in [Sockets -> Users \cup {Null}]
           /\ table.socketsOf \in [Users -> SUBSET Sockets]
           /\ table.health \in [Sockets -> 0..2 \cup {Null}]
           /\ \A u \in Users, b \in BOOLEAN : writes[u][b] \in Nat
BY DEF TypeOK, Table

LEMMA QuietMeansNone ==
    ASSUME NEW q \in [Users -> [BOOLEAN -> Nat]], NEW u \in Users
    PROVE  Quiet(q, u) <=> q[u][TRUE] = 0 /\ q[u][FALSE] = 0
BY DEF Quiet, None

LEMMA CrossingMeansBoth ==
    ASSUME NEW q, NEW u
    PROVE  Crossing(q, u) <=> q[u][TRUE] > 0 /\ q[u][FALSE] > 0
BY DEF Crossing

(* Adding to one of two counters, and to both. *)
LEMMA AddedToOne ==
    ASSUME NEW S, NEW a \in S, NEW b \in S, a # b, NEW f \in [S -> Nat],
           NEW m \in Nat, m # 0, NEW g, g = [f EXCEPT ![a] = @ + m]
    PROVE  g[a] > 0 /\ g[b] = f[b]
OBVIOUS

LEMMA AddedToBoth ==
    ASSUME NEW S, NEW a \in S, NEW b \in S, a # b, NEW f \in [S -> Nat],
           NEW m \in Nat, m # 0, NEW g, g = [f EXCEPT ![a] = @ + m - 1, ![b] = @ + 1]
    PROVE  g[a] >= f[a] /\ g[b] > 0
OBVIOUS

LEMMA AddedTyped ==
    ASSUME NEW S, NEW a \in S, NEW b \in S, a # b, NEW f \in [S -> Nat],
           NEW m \in Nat, m # 0
    PROVE  /\ [f EXCEPT ![a] = @ + m] \in [S -> Nat]
           /\ [f EXCEPT ![a] = @ + m - 1, ![b] = @ + 1] \in [S -> Nat]
OBVIOUS

LEMMA AddedFlags ==
    ASSUME NEW f \in [BOOLEAN -> Nat], NEW m \in Nat, m # 0, NEW g
    PROVE  /\ g = [f EXCEPT ![TRUE] = @ + m] =>
                 g \in [BOOLEAN -> Nat] /\ g[TRUE] > 0 /\ g[FALSE] = f[FALSE]
           /\ g = [f EXCEPT ![TRUE] = @ + m - 1, ![FALSE] = @ + 1] =>
                 g \in [BOOLEAN -> Nat] /\ g[TRUE] >= f[TRUE] /\ g[FALSE] > 0
<1>1. TRUE \in BOOLEAN /\ FALSE \in BOOLEAN /\ TRUE # FALSE
  OBVIOUS
<1>2. ASSUME g = [f EXCEPT ![TRUE] = @ + m]
      PROVE  g[TRUE] > 0 /\ g[FALSE] = f[FALSE]
  BY <1>1, <1>2, AddedToOne, Zenon
<1>3. [f EXCEPT ![TRUE] = @ + m] \in [BOOLEAN -> Nat]
  BY <1>1, AddedTyped, Zenon
<1>4. ASSUME g = [f EXCEPT ![TRUE] = @ + m - 1, ![FALSE] = @ + 1]
      PROVE  g[TRUE] >= f[TRUE] /\ g[FALSE] > 0
  BY <1>1, <1>4, AddedToBoth, Zenon
<1>5. [f EXCEPT ![TRUE] = @ + m - 1, ![FALSE] = @ + 1] \in [BOOLEAN -> Nat]
  BY <1>1, AddedTyped, Zenon
<1> QED
  BY <1>2, <1>3, <1>4, <1>5, Zenon

LEMMA PositiveMeansNotZero ==
    ASSUME NEW m \in Nat
    PROVE  m > 0 <=> m # 0
OBVIOUS

(* What unregistering some sockets leaves. *)
LEMMA UnregisteredTyped ==
    ASSUME TypeOK, NEW gone \in SUBSET Sockets
    PROVE  Unregistered(table, gone) \in Table
BY Typed DEF Unregistered, Table

(* The flags the sockets that go send: none for a user without any,        *)
(* otherwise at least one.                                                 *)
LEMMA FlagsTyped ==
    ASSUME TypeOK, NEW gone \in SUBSET Sockets
    PROVE  /\ FlagsOf(table, gone) \in [Users -> [BOOLEAN -> Nat]]
           /\ \A u \in Users :
                 LET q == FlagsOf(table, gone)[u] IN
                 \/ /\ q = writes[u]
                    /\ \A s \in gone : table.userOf[s] # u
                 \/ /\ Remaining(table, gone, u)
                    /\ q[TRUE] > 0 /\ q[FALSE] = writes[u][FALSE]
                 \/ /\ ~Remaining(table, gone, u)
                    /\ q[TRUE] >= writes[u][TRUE] /\ q[FALSE] > 0
<1> DEFINE n(u) == Cardinality(OfUser(table, gone, u))
           q == FlagsOf(table, gone)
<1>1. ASSUME NEW u \in Users
      PROVE  n(u) \in Nat /\ (n(u) = 0 <=> OfUser(table, gone, u) = {})
  <2>1. OfUser(table, gone, u) \subseteq Sockets
    BY DEF OfUser
  <2> QED
    BY <2>1, FS_Subset, FS_CardinalityType, FS_EmptySet, PresenceAssumption
<1>2. ASSUME NEW u \in Users
      PROVE  /\ q[u] \in [BOOLEAN -> Nat]
             /\ \/ /\ q[u] = writes[u]
                   /\ \A s \in gone : table.userOf[s] # u
                \/ /\ Remaining(table, gone, u)
                   /\ q[u][TRUE] > 0 /\ q[u][FALSE] = writes[u][FALSE]
                \/ /\ ~Remaining(table, gone, u)
                   /\ q[u][TRUE] >= writes[u][TRUE] /\ q[u][FALSE] > 0
  <2>0. writes[u] \in [BOOLEAN -> Nat] /\ writes[u][TRUE] \in Nat /\ writes[u][FALSE] \in Nat
    BY DEF TypeOK
  <2>1. CASE n(u) = 0
    <3>1. q[u] = writes[u]
      BY <2>1 DEF FlagsOf
    <3>2. \A s \in gone : table.userOf[s] # u
      BY <1>1, <2>1 DEF OfUser
    <3> QED
      BY <2>0, <3>1, <3>2
  <2>2. CASE n(u) # 0 /\ Remaining(table, gone, u)
    <3>1. q[u] = [writes[u] EXCEPT ![TRUE] = @ + n(u)]
      BY <2>2 DEF FlagsOf
    <3>2. n(u) \in Nat /\ n(u) # 0
      BY <1>1, <2>2
    <3> HIDE DEF n, q
    <3>3. PICK m \in Nat : m = n(u) /\ m # 0
      BY <3>2
    <3>4. q[u] = [writes[u] EXCEPT ![TRUE] = @ + m]
      BY <3>1, <3>3
    <3>5. q[u] \in [BOOLEAN -> Nat] /\ q[u][TRUE] > 0 /\ q[u][FALSE] = writes[u][FALSE]
      BY <2>0, <3>3, <3>4, AddedFlags, Zenon
    <3> QED
      BY <2>2, <3>5, Zenon
  <2>3. CASE n(u) # 0 /\ ~Remaining(table, gone, u)
    <3>1. q[u] = [writes[u] EXCEPT ![TRUE] = @ + n(u) - 1, ![FALSE] = @ + 1]
      BY <2>3 DEF FlagsOf
    <3>2. n(u) \in Nat /\ n(u) # 0
      BY <1>1, <2>3
    <3> HIDE DEF n, q
    <3>3. PICK m \in Nat : m = n(u) /\ m # 0
      BY <3>2
    <3>4. q[u] = [writes[u] EXCEPT ![TRUE] = @ + m - 1, ![FALSE] = @ + 1]
      BY <3>1, <3>3
    <3>5. q[u] \in [BOOLEAN -> Nat] /\ q[u][TRUE] >= writes[u][TRUE] /\ q[u][FALSE] > 0
      BY <2>0, <3>3, <3>4, AddedFlags, Zenon
    <3> QED
      BY <2>3, <3>5, Zenon
  <2> QED
    BY <2>1, <2>2, <2>3
<1>3. q = [u \in Users |-> q[u]]
  BY DEF FlagsOf
<1> HIDE DEF q, n
<1>4. q \in [Users -> [BOOLEAN -> Nat]]
  BY <1>2, <1>3
<1> QED
  BY <1>2, <1>4 DEF q

-----------------------------------------------------------------------------
(* A change of the tables keeps the flags right when those it sends for a  *)
(* user say what is so then.                                               *)
LEMMA UpdateKeepsFlagsRight ==
    ASSUME IInv, NEW t \in Table, NEW q \in [Users -> [BOOLEAN -> Nat]],
           Update([table |-> t, writes |-> q]),
           UNCHANGED online, switched \subseteq switched',
           \A u \in Users \ switched' :
              \/ /\ q[u] = writes[u]
                 /\ HasSocket(u)' <=> HasSocket(u)
              \/ /\ q[u][TRUE] > 0 /\ q[u][FALSE] = writes[u][FALSE]
                 /\ HasSocket(u)'
              \/ /\ q[u][TRUE] >= writes[u][TRUE] /\ q[u][FALSE] > 0
                 /\ ~HasSocket(u)'
    PROVE  FlagsAreRight'
<1>1. table' = t /\ writes' = q
      /\ disturbed' = {u \in Users :
            \/ Crossing(q, u)
            \/ u \in disturbed /\ ~(Quiet(writes, u) /\ ~Quiet(q, u))}
  BY DEF Update
<1> SUFFICES ASSUME NEW u \in Users \ (switched' \cup disturbed')
             PROVE  /\ ~Crossing(q, u)
                    /\ q[u][TRUE] > 0 => HasSocket(u)'
                    /\ q[u][FALSE] > 0 => ~HasSocket(u)'
                    /\ Quiet(q, u) => (online[u] <=> HasSocket(u)')
  BY <1>1 DEF FlagsAreRight, Quiet, Crossing
<1>2. ~Crossing(q, u)
  BY <1>1
<1>3. /\ q[u][TRUE] > 0 <=> q[u][TRUE] # 0
      /\ q[u][FALSE] > 0 <=> q[u][FALSE] # 0
  BY PositiveMeansNotZero
<1>4. u \notin disturbed \/ (Quiet(writes, u) /\ ~Quiet(q, u))
  BY <1>1
<1>5. writes \in [Users -> [BOOLEAN -> Nat]]
  BY DEF IInv, TypeOK
<1>6. Quiet(q, u) <=> q[u][TRUE] = 0 /\ q[u][FALSE] = 0
  BY QuietMeansNone
<1>7. Quiet(writes, u) <=> writes[u][TRUE] = 0 /\ writes[u][FALSE] = 0
  BY <1>5, QuietMeansNone
<1>8. u \in Users \ switched /\ u \in Users \ switched'
  OBVIOUS
<1>9. CASE q[u] = writes[u] /\ (HasSocket(u)' <=> HasSocket(u))
  <2>1. u \notin disturbed
    BY <1>4, <1>6, <1>7, <1>9
  <2>2. /\ writes[u][TRUE] > 0 => HasSocket(u)
        /\ writes[u][FALSE] > 0 => ~HasSocket(u)
        /\ Quiet(writes, u) => (online[u] <=> HasSocket(u))
    BY <1>8, <2>1 DEF IInv, FlagsAreRight
  <2> QED
    BY <1>2, <1>6, <1>7, <1>9, <2>2
<1>10. CASE q[u][TRUE] > 0 /\ HasSocket(u)'
  BY <1>2, <1>3, <1>6, <1>10, CrossingMeansBoth, Zenon
<1>11. CASE q[u][FALSE] > 0 /\ ~HasSocket(u)'
  BY <1>2, <1>3, <1>6, <1>11, CrossingMeansBoth, Zenon
<1> QED
  BY <1>8, <1>9, <1>10, <1>11

-----------------------------------------------------------------------------
(* The steps. *)

(* Without sockets and flags under way, a flag is right when it is FALSE.  *)
LEMMA NothingIsRight ==
    ASSUME table = EmptyTable, writes = None,
           \A u \in Users \ (switched \cup disturbed) : ~online[u]
    PROVE  FlagsAreRight
<1> SUFFICES ASSUME NEW u \in Users \ (switched \cup disturbed)
             PROVE  /\ ~Crossing(writes, u)
                    /\ ~(writes[u][TRUE] > 0) /\ ~(writes[u][FALSE] > 0)
                    /\ ~HasSocket(u) /\ ~online[u]
  BY DEF FlagsAreRight
<1>1. writes[u][TRUE] = 0 /\ writes[u][FALSE] = 0
  BY DEF None
<1>2. ~(writes[u][TRUE] > 0) /\ ~(writes[u][FALSE] > 0)
  BY <1>1
<1>3. ~HasSocket(u)
  BY PresenceAssumption DEF HasSocket, EmptyTable
<1> QED
  BY <1>2, <1>3, CrossingMeansBoth

LEMMA Initially == Init => IInv
<1> SUFFICES ASSUME Init PROVE IInv
  OBVIOUS
<1>1. EmptyTable \in Table
  BY DEF EmptyTable, Table
<1>2. None \in [Users -> [BOOLEAN -> Nat]]
  BY DEF None
<1>3. TypeOK
  BY <1>1, <1>2 DEF Init, TypeOK
<1>4. MapsAgree
  BY PresenceAssumption DEF Init, MapsAgree, EmptyTable
<1>5. FlagsAreRight
  BY NothingIsRight DEF Init
<1> QED
  BY <1>3, <1>4, <1>5 DEF IInv

LEMMA LinkKeeps ==
    ASSUME IInv, NEW s \in Sockets, Connect(s) \/ Vanish(s)
    PROVE  IInv'
<1>1. TypeOK'
  BY DEF IInv, TypeOK, Connect, Vanish
<1>2. MapsAgree'
  BY DEF IInv, TypeOK, MapsAgree, Connect, Vanish
<1>3. FlagsAreRight'
  BY DEF IInv, FlagsAreRight, HasSocket, Quiet, Crossing, Connect, Vanish
<1> QED
  BY <1>1, <1>2, <1>3 DEF IInv

(* What sending that a user is online leaves. *)
LEMMA SentTyped ==
    ASSUME TypeOK, NEW u \in Users
    PROVE  /\ Send(writes, u, TRUE) \in [Users -> [BOOLEAN -> Nat]]
           /\ Send(writes, u, TRUE)[u][TRUE] > 0
           /\ Send(writes, u, TRUE)[u][FALSE] = writes[u][FALSE]
           /\ \A v \in Users \ {u} : Send(writes, u, TRUE)[v] = writes[v]
<1> DEFINE f == [writes[u] EXCEPT ![TRUE] = @ + 1]
<1>1. writes \in [Users -> [BOOLEAN -> Nat]] /\ writes[u] \in [BOOLEAN -> Nat]
  BY DEF TypeOK
<1>2. f \in [BOOLEAN -> Nat] /\ f[TRUE] > 0 /\ f[FALSE] = writes[u][FALSE]
  <2>1. 1 \in Nat /\ 1 # 0
    OBVIOUS
  <2> QED
    BY <1>1, <2>1, AddedFlags, Zenon
<1>3. Send(writes, u, TRUE) = [writes EXCEPT ![u] = f]
  BY DEF Send
<1> HIDE DEF f
<1>4. /\ Send(writes, u, TRUE) \in [Users -> [BOOLEAN -> Nat]]
      /\ Send(writes, u, TRUE)[u] = f
      /\ \A v \in Users \ {u} : Send(writes, u, TRUE)[v] = writes[v]
  BY <1>1, <1>2, <1>3
<1> QED
  BY <1>2, <1>4, Zenon

LEMMA RegisterKeeps ==
    ASSUME IInv, NEW s \in Sockets, NEW u \in Users, RegisterConnection(s, u)
    PROVE  IInv'
<1> DEFINE t == Registered(table, s, u)
           q == Send(writes, u, TRUE)
<1>1. /\ t.userOf = [table.userOf EXCEPT ![s] = u]
      /\ t.socketsOf = [table.socketsOf EXCEPT ![u] = @ \cup {s}]
      /\ t.health = [table.health EXCEPT ![s] = 0]
      /\ t \in Table
  <2> DEFINE t0 == [table EXCEPT !.userOf[s] = u]
             t1 == [t0 EXCEPT !.socketsOf[u] = @ \cup {s}]
  <2>1. table = [userOf |-> table.userOf, socketsOf |-> table.socketsOf, health |-> table.health]
        /\ table.userOf \in [Sockets -> Users \cup {Null}]
        /\ table.socketsOf \in [Users -> SUBSET Sockets]
        /\ table.health \in [Sockets -> 0..2 \cup {Null}]
    BY Typed DEF IInv
  <2>2. t1 = [userOf |-> [table.userOf EXCEPT ![s] = u],
              socketsOf |-> [table.socketsOf EXCEPT ![u] = @ \cup {s}],
              health |-> table.health]
    <3>1. t0 = [userOf |-> [table.userOf EXCEPT ![s] = u],
                socketsOf |-> table.socketsOf, health |-> table.health]
      BY <2>1
    <3> HIDE DEF t0
    <3> QED
      BY <3>1
  <2>3. t = [t1 EXCEPT !.health[s] = 0]
    BY DEF Registered, MarkAlive
  <2> HIDE DEF t, t1
  <2>4. t = [userOf |-> [table.userOf EXCEPT ![s] = u],
             socketsOf |-> [table.socketsOf EXCEPT ![u] = @ \cup {s}],
             health |-> [table.health EXCEPT ![s] = 0]]
    BY <2>2, <2>3
  <2> QED
    BY <2>1, <2>4 DEF Table
<1>2. /\ q \in [Users -> [BOOLEAN -> Nat]]
      /\ q[u][TRUE] > 0 /\ q[u][FALSE] = writes[u][FALSE]
      /\ \A v \in Users \ {u} : q[v] = writes[v]
  BY SentTyped DEF IInv
<1>3. table' = t /\ writes' = q /\ disturbed' \subseteq Users
      /\ switched' = switched \cup ({table.userOf[s]} \ {u, Null})
      /\ link' = link /\ online' = online
  BY DEF RegisterConnection, Update
<1>3a. Update([table |-> t, writes |-> q])
  BY DEF RegisterConnection
<1>4. link[s] = "open"
  BY DEF RegisterConnection
<1>5. /\ table.userOf \in [Sockets -> Users \cup {Null}]
      /\ table.socketsOf \in [Users -> SUBSET Sockets]
      /\ table.health \in [Sockets -> 0..2 \cup {Null}]
  BY Typed DEF IInv
<1> HIDE DEF t, q
<1>6. TypeOK'
  BY <1>1, <1>2, <1>3, <1>5 DEF IInv, TypeOK
<1>7. MapsAgree'
  <2>1. \A r \in Sockets : t.userOf[r] # Null =>
           /\ r \in t.socketsOf[t.userOf[r]]
           /\ t.health[r] # Null
    <3> TAKE r \in Sockets
    <3>1. CASE r = s
      BY <1>1, <1>5, <3>1, PresenceAssumption
    <3>2. CASE r # s
      BY <1>1, <1>5, <3>2 DEF IInv, MapsAgree
    <3> QED
      BY <3>1, <3>2
  <2>2. \A v \in Users \ switched' : \A r \in t.socketsOf[v] : t.userOf[r] = v
    <3> SUFFICES ASSUME NEW v \in Users \ switched', NEW r \in t.socketsOf[v]
                 PROVE  t.userOf[r] = v
      OBVIOUS
    <3>1. v \in Users \ switched /\ r \in Sockets
      BY <1>1, <1>3, <1>5 DEF Table
    <3>2. CASE r = s /\ v # u
      <4>1. s \in table.socketsOf[v]
        BY <1>1, <1>5, <3>1, <3>2
      <4>2. table.userOf[s] = v
        BY <3>1, <4>1 DEF IInv, MapsAgree
      <4> QED
        BY <1>3, <3>1, <3>2, <4>2, PresenceAssumption
    <3>3. CASE r = s /\ v = u
      BY <1>1, <1>5, <3>3
    <3>4. CASE r # s
      <4>1. r \in table.socketsOf[v] /\ t.userOf[r] = table.userOf[r]
        BY <1>1, <1>5, <3>1, <3>4
      <4> QED
        BY <3>1, <4>1 DEF IInv, MapsAgree
    <3> QED
      BY <3>2, <3>3, <3>4
  <2>3. \A r \in Sockets : t.health[r] # Null => link[r] \in {"open", "vanished"}
    BY <1>1, <1>4, <1>5 DEF IInv, MapsAgree
  <2> QED
    BY <1>3, <2>1, <2>2, <2>3 DEF MapsAgree
<1>8. \A v \in Users \ switched' :
         \/ /\ q[v] = writes[v]
            /\ HasSocket(v)' <=> HasSocket(v)
         \/ /\ q[v][TRUE] > 0 /\ q[v][FALSE] = writes[v][FALSE]
            /\ HasSocket(v)'
  <2> TAKE v \in Users \ switched'
  <2>1. CASE v = u
    BY <1>1, <1>2, <1>3, <1>5, <2>1 DEF HasSocket
  <2>2. CASE v # u
    BY <1>1, <1>2, <1>3, <1>5, <2>2, PresenceAssumption DEF HasSocket
  <2> QED
    BY <2>1, <2>2
<1>9. FlagsAreRight'
  BY <1>1, <1>2, <1>3, <1>3a, <1>8, UpdateKeepsFlagsRight
<1> QED
  BY <1>6, <1>7, <1>9 DEF IInv

LEMMA PongKeeps ==
    ASSUME IInv, NEW s \in Sockets, HandlePong(s)
    PROVE  IInv'
<1> DEFINE t == MarkAlive(table, s)
           q == PongOf(table.userOf[s])
<1>5. /\ table.userOf \in [Sockets -> Users \cup {Null}]
      /\ table.socketsOf \in [Users -> SUBSET Sockets]
      /\ table.health \in [Sockets -> 0..2 \cup {Null}]
  BY Typed DEF IInv
<1>1. /\ t.userOf = table.userOf
      /\ t.socketsOf = table.socketsOf
      /\ t.health = [table.health EXCEPT ![s] = 0]
      /\ t \in Table
  BY Typed DEF IInv, MarkAlive, Table
<1>2. /\ q \in [Users -> [BOOLEAN -> Nat]]
      /\ \A v \in Users : \/ q[v] = writes[v]
                          \/ /\ v = table.userOf[s]
                             /\ q[v][TRUE] > 0 /\ q[v][FALSE] = writes[v][FALSE]
  <2>1. CASE table.userOf[s] = Null
    BY <2>1 DEF IInv, TypeOK, PongOf
  <2>2. CASE table.userOf[s] # Null
    <3>1. table.userOf[s] \in Users /\ q = Send(writes, table.userOf[s], TRUE)
      BY <1>5, <2>2 DEF PongOf
    <3> HIDE DEF q
    <3> QED
      BY <3>1, SentTyped, Zenon DEF IInv
  <2> QED
    BY <2>1, <2>2
<1>3. table' = t /\ writes' = q /\ disturbed' \subseteq Users
      /\ link' = link /\ online' = online /\ switched' = switched
  BY DEF HandlePong, Update
<1>3a. Update([table |-> t, writes |-> q])
  BY DEF HandlePong
<1>4. link[s] = "open"
  BY DEF HandlePong
<1> HIDE DEF t, q
<1>6. TypeOK'
  BY <1>1, <1>2, <1>3 DEF IInv, TypeOK
<1>7. MapsAgree'
  BY <1>1, <1>3, <1>4, <1>5, PresenceAssumption DEF IInv, MapsAgree, TypeOK
<1>8. \A v \in Users \ switched' :
         \/ /\ q[v] = writes[v]
            /\ HasSocket(v)' <=> HasSocket(v)
         \/ /\ q[v][TRUE] > 0 /\ q[v][FALSE] = writes[v][FALSE]
            /\ HasSocket(v)'
  BY <1>1, <1>2, <1>3 DEF HasSocket
<1>9. FlagsAreRight'
  BY <1>1, <1>2, <1>3, <1>3a, <1>8, UpdateKeepsFlagsRight
<1> QED
  BY <1>6, <1>7, <1>9 DEF IInv

(* Sockets that go, alone or found dead; the heartbeat ages the others.    *)
LEMMA LeavingKeeps ==
    ASSUME IInv, NEW gone \in SUBSET Sockets, NEW t \in Table,
           t.userOf = Unregistered(table, gone).userOf,
           t.socketsOf = Unregistered(table, gone).socketsOf,
           \A s \in Sockets : t.health[s] = Null <=> s \in gone \/ table.health[s] = Null,
           link' = [s \in Sockets |-> IF s \in gone THEN "closed" ELSE link[s]],
           Update([table |-> t, writes |-> FlagsOf(table, gone)]),
           UNCHANGED <<online, switched>>
    PROVE  IInv'
<1> DEFINE q == FlagsOf(table, gone)
<1>1. /\ table.userOf \in [Sockets -> Users \cup {Null}]
      /\ table.socketsOf \in [Users -> SUBSET Sockets]
  BY Typed DEF IInv
<1>2. /\ t.userOf = [s \in Sockets |-> IF s \in gone THEN Null ELSE table.userOf[s]]
      /\ \A u \in Users : t.socketsOf[u] = table.socketsOf[u] \ {s \in gone : table.userOf[s] = u}
  BY DEF Unregistered, OfUser
<1>3. table' = t /\ writes' = q /\ disturbed' \subseteq Users
  BY DEF Update
<1>4. q \in [Users -> [BOOLEAN -> Nat]]
  BY FlagsTyped DEF IInv
<1>5. TypeOK'
  BY <1>3, <1>4 DEF IInv, TypeOK
<1>6. MapsAgree'
  <2>1. \A s \in Sockets : t.userOf[s] # Null =>
           /\ s \notin gone /\ t.userOf[s] = table.userOf[s]
           /\ s \in t.socketsOf[t.userOf[s]]
           /\ t.health[s] # Null
    BY <1>1, <1>2 DEF IInv, MapsAgree
  <2>2. \A u \in Users \ switched : \A s \in t.socketsOf[u] : t.userOf[s] = u
    BY <1>1, <1>2 DEF IInv, MapsAgree
  <2>3. \A s \in Sockets : t.health[s] # Null => link'[s] \in {"open", "vanished"}
    BY DEF IInv, MapsAgree
  <2> QED
    BY <1>3, <2>1, <2>2, <2>3 DEF MapsAgree
<1>7. \A u \in Users \ switched :
         Remaining(table, gone, u) <=> \E s \in Sockets : t.userOf[s] = u
  <2> TAKE u \in Users \ switched
  <2>1. Remaining(table, gone, u) <=> t.socketsOf[u] # {}
    BY DEF Remaining
  <2>2. \A s \in Sockets : t.userOf[s] = u <=> s \in t.socketsOf[u]
    BY <1>3, <1>6, PresenceAssumption DEF MapsAgree
  <2>3. t.socketsOf[u] \subseteq Sockets
    BY DEF Table
  <2> QED
    BY <2>1, <2>2, <2>3
<1>8. \A u \in Users \ switched' :
         \/ /\ q[u] = writes[u]
            /\ HasSocket(u)' <=> HasSocket(u)
         \/ /\ q[u][TRUE] > 0 /\ q[u][FALSE] = writes[u][FALSE]
            /\ HasSocket(u)'
         \/ /\ q[u][TRUE] >= writes[u][TRUE] /\ q[u][FALSE] > 0
            /\ ~HasSocket(u)'
  <2> TAKE u \in Users \ switched'
  <2>1. HasSocket(u)' <=> \E s \in Sockets : t.userOf[s] = u
    BY <1>3 DEF HasSocket
  <2>2. CASE q[u] = writes[u] /\ \A s \in gone : table.userOf[s] # u
    BY <1>2, <2>1, <2>2, PresenceAssumption DEF HasSocket
  <2>3. CASE Remaining(table, gone, u) /\ q[u][TRUE] > 0 /\ q[u][FALSE] = writes[u][FALSE]
    BY <1>7, <2>1, <2>3
  <2>4. CASE ~Remaining(table, gone, u) /\ q[u][TRUE] >= writes[u][TRUE] /\ q[u][FALSE] > 0
    BY <1>7, <2>1, <2>4
  <2> QED
    BY <2>2, <2>3, <2>4, FlagsTyped DEF IInv
<1>9. FlagsAreRight'
  BY <1>4, <1>8, UpdateKeepsFlagsRight
<1> QED
  BY <1>5, <1>6, <1>9 DEF IInv

LEMMA DisconnectKeeps ==
    ASSUME IInv, NEW s \in Sockets, HandleDisconnect(s)
    PROVE  IInv'
<1>1. Unregistered(table, {s}) \in Table
  BY UnregisteredTyped DEF IInv
<1>2. \A r \in Sockets : Unregistered(table, {s}).health[r] = Null
                            <=> r \in {s} \/ table.health[r] = Null
  BY DEF Unregistered
<1>3. link' = [r \in Sockets |-> IF r \in {s} THEN "closed" ELSE link[r]]
  BY DEF HandleDisconnect, IInv, TypeOK
<1> QED
  BY <1>1, <1>2, <1>3, LeavingKeeps DEF HandleDisconnect

LEMMA HeartbeatKeeps ==
    ASSUME IInv, Heartbeat
    PROVE  IInv'
<1> DEFINE left == Unregistered(table, Dead)
           t == Aged(left)
<1>1. Dead \subseteq Sockets
  BY DEF Dead
<1>2. left \in Table /\ table.health \in [Sockets -> 0..2 \cup {Null}]
  BY <1>1, Typed, UnregisteredTyped DEF IInv
<1>3. left.health = [s \in Sockets |-> IF s \in Dead THEN Null ELSE table.health[s]]
  BY DEF Unregistered
<1>4. t.userOf = left.userOf /\ t.socketsOf = left.socketsOf
      /\ t = [left EXCEPT !.health =
                [s \in Sockets |-> IF left.health[s] = Null THEN Null ELSE left.health[s] + 1]]
  BY <1>2 DEF Aged, Table
<1> HIDE DEF left
<1>5. t.health = [s \in Sockets |-> IF left.health[s] = Null THEN Null ELSE left.health[s] + 1]
  BY <1>2, <1>4 DEF Table
<1>6. \A s \in Sockets : left.health[s] \in 0..1 \cup {Null}
  BY <1>2, <1>3, PresenceAssumption DEF Dead, HeartbeatTimeout
<1> HIDE DEF t
<1>7. \A s \in Sockets : t.health[s] \in 0..2 \cup {Null}
  BY <1>5, <1>6, PresenceAssumption
<1>8. \A s \in Sockets : t.health[s] = Null <=> s \in Dead \/ table.health[s] = Null
  BY <1>3, <1>5, <1>6, PresenceAssumption
<1>9. t.health \in [Sockets -> 0..2 \cup {Null}]
  BY <1>5, <1>7
<1>10. t \in Table
  BY <1>2, <1>4, <1>5, <1>9 DEF Table
<1>11. /\ link' = [s \in Sockets |-> IF s \in Dead THEN "closed" ELSE link[s]]
       /\ Update([table |-> t, writes |-> FlagsOf(table, Dead)])
       /\ UNCHANGED <<online, switched>>
  BY DEF Heartbeat, t, left
<1> QED
  BY <1>1, <1>4, <1>8, <1>10, <1>11, LeavingKeeps DEF left

LEMMA CrashKeeps ==
    ASSUME IInv, Crash
    PROVE  IInv'
<1>1. EmptyTable \in Table /\ None \in [Users -> [BOOLEAN -> Nat]]
  BY DEF EmptyTable, Table, None
<1>2. TypeOK'
  BY <1>1 DEF Crash, IInv, TypeOK
<1>3. MapsAgree'
  BY PresenceAssumption DEF Crash, MapsAgree, EmptyTable
<1>4. FlagsAreRight'
  <2>1. table' = EmptyTable /\ writes' = None /\ switched' = switched /\ online' = online
        /\ disturbed' = {u \in Users : online[u]}
    BY DEF Crash
  <2> SUFFICES ASSUME NEW u \in Users \ (switched \cup disturbed')
               PROVE  /\ ~Crossing(None, u)
                      /\ ~(None[u][TRUE] > 0) /\ ~(None[u][FALSE] > 0)
                      /\ ~HasSocket(u)' /\ ~online[u]
    BY <2>1 DEF FlagsAreRight, Crossing, Quiet
  <2>2. None[u][TRUE] = 0 /\ None[u][FALSE] = 0
    BY DEF None
  <2>3. ~(None[u][TRUE] > 0) /\ ~(None[u][FALSE] > 0)
    BY <2>2
  <2>4. ~HasSocket(u)'
    BY <2>1, PresenceAssumption DEF HasSocket, EmptyTable
  <2> QED
    BY <2>1, <2>3, <2>4, CrossingMeansBoth
<1> QED
  BY <1>2, <1>3, <1>4 DEF IInv

(* A flag that is written leaves those still under way as they were.       *)
LEMMA WriteKeeps ==
    ASSUME IInv, NEW u \in Users, NEW b \in BOOLEAN, WriteFlag(u, b) \/ WriteFlag_Fails(u, b)
    PROVE  IInv'
<1>1. /\ writes \in [Users -> [BOOLEAN -> Nat]]
      /\ writes[u][b] > 0
      /\ writes' = [writes EXCEPT ![u][b] = @ - 1]
      /\ table' = table /\ link' = link /\ switched' = switched
      /\ \/ online' = [online EXCEPT ![u] = b] /\ disturbed' = disturbed
         \/ online' = online /\ disturbed' = disturbed \cup {u}
  BY DEF WriteFlag, WriteFlag_Fails, IInv, TypeOK
<1>2. /\ writes' \in [Users -> [BOOLEAN -> Nat]]
      /\ \A v \in Users \ {u} : writes'[v] = writes[v]
      /\ writes'[u][b] = writes[u][b] - 1
      /\ \A c \in BOOLEAN \ {b} : writes'[u][c] = writes[u][c]
      /\ \A c \in BOOLEAN : writes[u][c] \in Nat /\ writes'[u][c] \in Nat
  BY <1>1
<1>3. TypeOK'
  BY <1>1, <1>2 DEF IInv, TypeOK
<1>4. MapsAgree'
  BY <1>1 DEF IInv, MapsAgree
<1>5. FlagsAreRight'
  <2> SUFFICES ASSUME NEW v \in Users \ (switched' \cup disturbed')
               PROVE  /\ ~Crossing(writes', v)
                      /\ writes'[v][TRUE] > 0 => HasSocket(v)
                      /\ writes'[v][FALSE] > 0 => ~HasSocket(v)
                      /\ Quiet(writes', v) => (online'[v] <=> HasSocket(v))
    BY <1>1 DEF FlagsAreRight, HasSocket, Crossing, Quiet
  <2>1. /\ ~Crossing(writes, v)
        /\ writes[v][TRUE] > 0 => HasSocket(v)
        /\ writes[v][FALSE] > 0 => ~HasSocket(v)
        /\ Quiet(writes, v) => (online[v] <=> HasSocket(v))
    BY <1>1 DEF IInv, FlagsAreRight
  <2>2. CASE v # u
    <3>1. writes'[v] = writes[v] /\ online'[v] = online[v]
      BY <1>1, <1>2, <2>2 DEF IInv, TypeOK
    <3> QED
      BY <2>1, <3>1 DEF Crossing, Quiet
  <2>3. CASE v = u
    <3>1. online'[u] = b
      BY <1>1, <2>3 DEF IInv, TypeOK
    <3>2. b = TRUE \/ b = FALSE
      OBVIOUS
    <3>3. HasSocket(u) <=> b = TRUE
      BY <1>1, <2>1, <2>3, <3>2
    <3>4. \A c \in BOOLEAN : writes'[u][c] <= writes[u][c]
      BY <1>2
    <3>5. \A c \in BOOLEAN : writes'[u][c] > 0 => writes[u][c] > 0
      BY <1>2, <3>4
    <3>6. ~Crossing(writes', u)
      BY <2>1, <2>3, <3>5 DEF Crossing
    <3> QED
      BY <2>1, <2>3, <3>1, <3>2, <3>3, <3>5, <3>6
  <2> QED
    BY <2>2, <2>3
<1> QED
  BY <1>3, <1>4, <1>5 DEF IInv

-----------------------------------------------------------------------------
(* The inductive invariant: types, agreement of the maps, and flags under  *)
(* way that say what is so.                                                *)
THEOREM Invariant == Spec => []IInv
<1>1. ASSUME IInv, [Next]_vars PROVE IInv'
  <2>1. CASE UNCHANGED vars
    BY <1>1, <2>1, ZenonT(40) DEF IInv, TypeOK, MapsAgree, FlagsAreRight, HasSocket, Crossing, Quiet, vars
  <2>2. CASE \E s \in Sockets : Connect(s) \/ Vanish(s)
    BY <1>1, <2>2, LinkKeeps
  <2>3. CASE \E s \in Sockets, u \in Users : RegisterConnection(s, u)
    BY <1>1, <2>3, RegisterKeeps
  <2>4. CASE \E s \in Sockets : HandlePong(s)
    BY <1>1, <2>4, PongKeeps
  <2>5. CASE \E s \in Sockets : HandleDisconnect(s)
    BY <1>1, <2>5, DisconnectKeeps
  <2>6. CASE \E u \in Users, b \in BOOLEAN : WriteFlag(u, b) \/ WriteFlag_Fails(u, b)
    BY <1>1, <2>6, WriteKeeps
  <2>7. CASE Heartbeat
    BY <1>1, <2>7, HeartbeatKeeps
  <2>8. CASE Crash
    BY <1>1, <2>8, CrashKeeps
  <2> QED
    BY <1>1, <2>1, <2>2, <2>3, <2>4, <2>5, <2>6, <2>7, <2>8 DEF Next
<1> QED
  BY <1>1, Initially, PTL DEF Spec

(* Connections, tables and flags keep their types. *)
THEOREM TypeCorrect == Spec => []TypeOK
<1>1. IInv => TypeOK
  BY DEF IInv
<1> QED
  BY <1>1, Invariant, PTL

(* RealtimeService's maps and health table never disagree, except about a  *)
(* user whose socket went over to another.                                 *)
THEOREM MapsAlwaysAgree == Spec => []MapsAgree
<1>1. IInv => MapsAgree
  BY DEF IInv
<1> QED
  BY <1>1, Invariant, PTL

(* The flag of a user is right whenever no write of it is under way, unless *)
(* the last writes overtook each other or were lost.                       *)
THEOREM FlagAlwaysRight == Spec => []FlagIsRight
<1>1. IInv => FlagIsRight
  BY DEF IInv, FlagsAreRight, FlagIsRight, HasSocket
<1> QED
  BY <1>1, Invariant, PTL
=============================================================================
