SPECIFICATION Spec
CONSTANTS
    f1 = f1
    f2 = f2
    A = A
    B = B
    C = C
    D = D
    Clients = {1, 2, 3}
    HasData = {}
    Fences = {f1}
    Arrays = {A, C}
    Plain = plain
    Children <- HoleChildren
    Allocator <- MCAllocator
    Plans <- HolePlans
    Order <- HoleOrder
    QuietReset = FALSE
    MaxParents = 3
    JoinClient = 9
    None = none
CHECK_DEADLOCK FALSE
INVARIANT
    ParentsListed
