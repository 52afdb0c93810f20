SPECIFICATION Spec
CONSTANTS
    any = any
    all = all
    u1 = u1
    u2 = u2
    Procs = {p, q}
    Waiters = {w}
    Arrays = {any, all}
    Size <- MCSize
    All = {all}
    Users = {u1, u2}
    Dummy = dummy
    Invalid = invalid
    MaxDevices = 2
    OneBinder = TRUE
    MaxBinds = 1
    MayClose = {p, q}
    None = none
SYMMETRY Symmetry
CHECK_DEADLOCK FALSE
INVARIANTS
    SignalsAsAsked
    BoundForWaiters
    RefsExact
    NoOrphan
