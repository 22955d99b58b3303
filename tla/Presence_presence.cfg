SPECIFICATION FairSpec
CONSTANTS
    Users = {u1, u2}
    Sockets = {s1, s2}
    MaxWrites = 1
    Null = Null
INVARIANTS MapsAgree FlagIsRight
PROPERTIES LeaversGoOffline
