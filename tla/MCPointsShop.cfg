SPECIFICATION Spec
CONSTANTS
    alice = alice
    bob = bob
    r1 = r1
    r2 = r2
    r3 = r3
    Users <- MCUsers
    ItemIds = {1}
    Requests <- MCRequests
    Opening = 3
    Bodies <- MCBodies
    FirstBody <- Sword
    ColumnSets <- MCColumnSets
    Deltas <- MCDeltas
    NickCost = 2
    Cooldown = 1
    Window = 0
    NULL = NULL
    MaxNow = 1
    MaxUpdates = 1
    MaxDeletes = 1
SYMMETRY SymmetricRequests
INVARIANTS
    TypeOK
    TransactionInv
    BalanceIsLastSnapshot
    RedemptionsArePaidOnce
    SpendsNeverOverdraw
PROPERTY ImplementsContract
CHECK_DEADLOCK FALSE
