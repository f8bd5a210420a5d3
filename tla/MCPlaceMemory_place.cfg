SPECIFICATION FairSpec
CONSTANTS
    Node = {1, 2}
    Replica = {1, 2}
    Limits = {1, 2}
    MaxAttempts = 2
    Kinds = {"Deployment", "ReplicaSet", "StatefulSet"}
    MaxMoves = 3
    MaxTrouble = 1
INVARIANTS
    MemoryBounded
PROPERTIES
    HomesFadeOnlyWhenFull
    GoesHome
    EventuallyRemembered
CHECK_DEADLOCK FALSE
