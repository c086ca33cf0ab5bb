SPECIFICATION Spec
CONSTANTS
    wolves = wolves
    ravens = ravens
    alice = alice
    bob = bob
    keep = keep
    r1 = r1
    r2 = r2
    r3 = r3
    r4 = r4
    Servers = {1, 2}
    Guids <- MCGuids
    Players <- MCPlayers
    Castles <- MCCastles
    Payloads <- MCPayloads
    Requests <- MCThreeRequests
    MaxId = 6
    NoClan = NoClan
    NoRequest = NoRequest
    MayOverlap = TRUE
INVARIANT NothingPilesUp
CHECK_DEADLOCK FALSE
