SPECIFICATION MCSpec
CONSTANTS
    alice = alice
    bob = bob
    r1 = r1
    r2 = r2
    r3 = r3
    r4 = r4
    Players <- MCPlayers
    Servers = {1}
    Requests <- MCFourRequests
    Threshold = 2
    Never = Never
    NoBan = NoBan
    NoState = NoState
    MaxBans = 2
    Terms <- MCTerms
    MaxTime = 1
    MaxClears = 1
INVARIANTS
    TypeOK
    ApprovalIsExecuted
    EscalatesOncePerThreshold
    NoThresholdSlips
PROPERTIES
    LiftedForAReason
SYMMETRY SymmetricRequests
CHECK_DEADLOCK FALSE
