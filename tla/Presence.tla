------------------------------ MODULE Presence ------------------------------
(***************************************************************************)
(* Who is online: RealtimeService and its gateway.                         *)
(*                                                                         *)
(* Sockets register for a user, answer the pings of the server, close or   *)
(* vanish.  Two maps and a health table in memory change at once; the flag *)
(* in the database follows by writes that may overtake each other.  What   *)
(* is emitted to the sockets, and the time of the last activity, are left  *)
(* out.                                                                    *)
(***************************************************************************)
EXTENDS Integers, FiniteSets

CONSTANTS
    Users,
    Sockets,      \* connections; an id is never used again
    MaxWrites,    \* bound: a socket registers or answers while fewer flags of its user are under way
    Null          \* no user; not in the health table

ASSUME PresenceAssumption ==
    /\ IsFiniteSet(Sockets)
    /\ MaxWrites \in Nat
    /\ Null \notin Users \cup 0..2

VARIABLES
    link,         \* the state of each connection: a peer that vanishes tells nobody
    table,        \* the maps and the health table
    writes,       \* how often each flag of each user is being written
    online,       \* User.isOnline
    switched,     \* history: users for whom a socket registered that then
                  \* registered for another
    disturbed     \* history: users whose flag was lost, or whose flags overtook
                  \* each other, since their last write of its own

vars == <<link, table, writes, online, switched, disturbed>>

(* Heartbeats come every 30 s, and a socket may be silent for 60 s: one    *)
(* that has seen two heartbeats without a pong is dead at the third.       *)
HeartbeatTimeout == 2

(* health counts the heartbeats since the last pong. *)
Table == [userOf: [Sockets -> Users \cup {Null}],
          socketsOf: [Users -> SUBSET Sockets],
          health: [Sockets -> 0..2 \cup {Null}]]

EmptyTable == [userOf |-> [s \in Sockets |-> Null],
               socketsOf |-> [u \in Users |-> {}],
               health |-> [s \in Sockets |-> Null]]

-----------------------------------------------------------------------------
(* The tables. *)

MarkAlive(t, s) == [t EXCEPT !.health[s] = 0]

(* Mutant: only a pong enters a socket into the health table. *)
Registered_Unwatched(t, s, u) ==
    [t EXCEPT !.userOf[s] = u, !.socketsOf[u] = @ \cup {s}]

(* A socket that was registered for another user stays in the other's set. *)
Registered(t, s, u) ==
    MarkAlive([t EXCEPT !.userOf[s] = u, !.socketsOf[u] = @ \cup {s}], s)

OfUser(t, gone, u) == {s \in gone : t.userOf[s] = u}

(* Mutant: the sockets are left in the sets of their users. *)
Unregistered_KeepsSets(t, gone) ==
    [t EXCEPT !.userOf = [s \in Sockets |-> IF s \in gone THEN Null ELSE @[s]],
              !.health = [s \in Sockets |-> IF s \in gone THEN Null ELSE @[s]]]

Unregistered(t, gone) ==
    [userOf    |-> [s \in Sockets |-> IF s \in gone THEN Null ELSE t.userOf[s]],
     socketsOf |-> [u \in Users |-> t.socketsOf[u] \ OfUser(t, gone, u)],
     health    |-> [s \in Sockets |-> IF s \in gone THEN Null ELSE t.health[s]]]

(* Mutant: the sockets that go away are counted. *)
Remaining_Before(t, gone, u) == t.socketsOf[u] # {}

(* Whether a user has another socket when those in gone are gone. *)
Remaining(t, gone, u) == Unregistered(t, gone).socketsOf[u] # {}

-----------------------------------------------------------------------------
(* Writes of the flag. *)

None == [u \in Users |-> [b \in BOOLEAN |-> 0]]

Send(q, u, b) == [q EXCEPT ![u][b] = @ + 1]

Quiet(q, u) == q[u] = None[u]

Crossing(q, u) == \A b \in BOOLEAN : q[u][b] > 0

CanSend(u) == u # Null => writes[u][TRUE] < MaxWrites

(* The tables change, and the flags are on their way. *)
Update(m) ==
    /\ table' = m.table
    /\ writes' = m.writes
    /\ disturbed' = {u \in Users :
          \/ Crossing(m.writes, u)
          \/ u \in disturbed /\ ~(Quiet(writes, u) /\ ~Quiet(m.writes, u))}

(* The flags of a user may be written in any order. *)
WriteFlag(u, b) ==
    /\ writes[u][b] > 0
    /\ writes' = [writes EXCEPT ![u][b] = @ - 1]
    /\ online' = [online EXCEPT ![u] = b]
    /\ UNCHANGED <<link, table, switched, disturbed>>

(* An error of the database is logged. *)
WriteFlag_Fails(u, b) ==
    /\ writes[u][b] > 0
    /\ writes' = [writes EXCEPT ![u][b] = @ - 1]
    /\ disturbed' = disturbed \cup {u}
    /\ UNCHANGED <<link, table, online, switched>>

-----------------------------------------------------------------------------
Connect(s) ==
    /\ link[s] = "new"
    /\ link' = [link EXCEPT ![s] = "open"]
    /\ UNCHANGED <<table, writes, online, switched, disturbed>>

Vanish(s) ==
    /\ link[s] = "open"
    /\ link' = [link EXCEPT ![s] = "vanished"]
    /\ UNCHANGED <<table, writes, online, switched, disturbed>>

RegisterConnection(s, u) ==
    /\ link[s] = "open"
    /\ CanSend(u)
    /\ Update([table |-> Registered(table, s, u), writes |-> Send(writes, u, TRUE)])
    /\ switched' = switched \cup ({table.userOf[s]} \ {u, Null})
    /\ UNCHANGED <<link, online>>

(* A pong says nothing of a user when its socket is not registered. *)
PongOf(u) == IF u = Null THEN writes ELSE Send(writes, u, TRUE)

HandlePong(s) ==
    /\ link[s] = "open"
    /\ CanSend(table.userOf[s])
    /\ Update([table |-> MarkAlive(table, s), writes |-> PongOf(table.userOf[s])])
    /\ UNCHANGED <<link, online, switched>>

(* Each socket that goes sends a flag of its user; only the flag of the    *)
(* last one can say that the user is offline.                              *)
FlagsOf(t, gone) ==
    [u \in Users |->
        LET n == Cardinality(OfUser(t, gone, u)) IN
        IF n = 0 THEN writes[u]
        ELSE IF Remaining(t, gone, u) THEN [writes[u] EXCEPT ![TRUE] = @ + n]
        ELSE [writes[u] EXCEPT ![TRUE] = @ + n - 1, ![FALSE] = @ + 1]]

HandleDisconnect(s) ==
    /\ link[s] \in {"open", "vanished"}
    /\ link' = [link EXCEPT ![s] = "closed"]
    /\ Update([table |-> Unregistered(table, {s}), writes |-> FlagsOf(table, {s})])
    /\ UNCHANGED <<online, switched>>

Dead == {s \in Sockets : table.health[s] # Null /\ table.health[s] >= HeartbeatTimeout}

Aged(t) ==
    [t EXCEPT !.health = [s \in Sockets |-> IF @[s] = Null THEN Null ELSE @[s] + 1]]

(* checkConnectionHealth: dead sockets are unregistered and disconnected,  *)
(* which unregisters them again, all before anything else happens.         *)
Heartbeat ==
    /\ link' = [s \in Sockets |-> IF s \in Dead THEN "closed" ELSE link[s]]
    /\ Update([table |-> Aged(Unregistered(table, Dead)), writes |-> FlagsOf(table, Dead)])
    /\ UNCHANGED <<online, switched>>

(* The server dies and starts again: no socket, and the flags as they were. *)
Crash ==
    /\ link' = [s \in Sockets |-> IF link[s] = "new" THEN "new" ELSE "closed"]
    /\ table' = EmptyTable
    /\ writes' = None
    /\ disturbed' = {u \in Users : online[u]}
    /\ UNCHANGED <<online, switched>>

-----------------------------------------------------------------------------
Init ==
    /\ link = [s \in Sockets |-> "new"]
    /\ table = EmptyTable
    /\ writes = None
    /\ online = [u \in Users |-> FALSE]
    /\ switched = {} /\ disturbed = {}

Next ==
    \/ \E s \in Sockets :
          \/ Connect(s) \/ Vanish(s) \/ HandlePong(s) \/ HandleDisconnect(s)
          \/ \E u \in Users : RegisterConnection(s, u)
    \/ \E u \in Users, b \in BOOLEAN : WriteFlag(u, b) \/ WriteFlag_Fails(u, b)
    \/ Heartbeat \/ Crash

Spec == Init /\ [][Next]_vars

(* The interval timer goes off, and queries are answered, sooner or later. *)
FairSpec ==
    /\ Spec
    /\ WF_vars(Heartbeat)
    /\ \A u \in Users, b \in BOOLEAN : WF_vars(WriteFlag(u, b) \/ WriteFlag_Fails(u, b))

-----------------------------------------------------------------------------
(* Connections, tables and flags have the shape the code gives them.       *)
TypeOK ==
    /\ link \in [Sockets -> {"new", "open", "vanished", "closed"}]
    /\ table \in Table
    /\ writes \in [Users -> [BOOLEAN -> Nat]]
    /\ online \in [Users -> BOOLEAN]
    /\ switched \subseteq Users /\ disturbed \subseteq Users

(* The two maps agree, but for a user whose socket went over to another,   *)
(* and a registered socket is connected and watched: messages go to the    *)
(* sockets of their user and to no others, and no entry outlives its       *)
(* connection.                                                             *)
MapsAgree ==
    /\ \A s \in Sockets : table.userOf[s] # Null =>
          /\ s \in table.socketsOf[table.userOf[s]]
          /\ table.health[s] # Null
    /\ \A u \in Users \ switched : \A s \in table.socketsOf[u] : table.userOf[s] = u
    /\ \A s \in Sockets : table.health[s] # Null => link[s] \in {"open", "vanished"}

(* When no write is under way for a user, the flag says whether a socket   *)
(* is registered, unless the last writes overtook each other or were lost. *)
FlagIsRight ==
    \A u \in Users \ (switched \cup disturbed) :
        Quiet(writes, u) =>
            (online[u] <=> \E s \in Sockets : table.userOf[s] = u)

(* A user whose connections are all gone, announced or not, is shown as    *)
(* offline in the end, under the same conditions.                          *)
LeaversGoOffline ==
    \A u \in Users :
        (\A s \in Sockets : link[s] # "open") ~>
            \/ ~online[u]
            \/ u \in switched \cup disturbed
            \/ \E s \in Sockets : link[s] = "open"
=============================================================================
