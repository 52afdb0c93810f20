SPECIFICATION FairSpec
CONSTANTS
    f1 = f1
    f2 = f2
    A = A
    B = B
    C = C
    D = D
    Clients = {1, 2, 3}
    HasData = {2}
    Fences = {f1, f2}
    Arrays = {A, B, C, D}
    Plain = plain
    Children <- MCChildren
    Allocator <- MCAllocator
    Plans <- MCPlans
    Order <- MCOrder
    QuietReset = FALSE
    MaxParents = 3
    JoinClient = 9
    None = none
CHECK_DEADLOCK FALSE
INVARIANTS
    NoSignalMissed
    PendingExact
    JoinExact
    NoDanglingParent
    ClientDataReturned
PROPERTIES
    ResetTellsWaiters
    ResetKeepsOthers
    WaiterServed
