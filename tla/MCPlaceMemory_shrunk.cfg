SPECIFICATION Spec
CONSTANTS
    Node = {1, 2}
    Replica = {1, 2}
    Limits = {1, 2}
    MaxAttempts = 2
    Kinds = {"Deployment", "ReplicaSet", "StatefulSet"}
    MaxMoves = 3
    MaxTrouble = 1
INVARIANT ShrunkIsRemembered
CHECK_DEADLOCK FALSE
