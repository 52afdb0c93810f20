SPECIFICATION Spec
CONSTANTS
    f1 = f1
    f2 = f2
    A = A
    B = B
    C = C
    D = D
    Clients = {1, 2, 3}
    HasData = {1}
    Fences = {f1}
    Arrays = {A}
    Plain = plain
    Children <- ErrorChildren
    Allocator <- MCAllocator
    Plans <- ErrorPlans
    Order <- ErrorOrder
    QuietReset = FALSE
    MaxParents = 3
    JoinClient = 9
    None = none
CHECK_DEADLOCK FALSE
INVARIANT
    ErrorIsReal
