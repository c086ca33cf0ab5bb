SPECIFICATION Spec
CONSTANTS
    alice = alice
    bob = bob
    r1 = r1
    r2 = r2
    r3 = r3
    r4 = r4
    Players <- MCPlayers
    Servers = {1}
    Requests <- MCTwoRequests
    Threshold = 2
    Never = Never
    NoBan = NoBan
    NoState = NoState
    MaxBans = 2
    Terms <- MCTerms
    MaxTime = 1
    MaxClears = 1
PROPERTY ApprovalLiftsItsBan
SYMMETRY SymmetricRequests
CHECK_DEADLOCK FALSE
