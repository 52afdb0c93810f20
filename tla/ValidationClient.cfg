SPECIFICATION FairSpec
CONSTANTS
    Files = {f, g}
    Handles = {h1, h2, h3}
    Ids = {val0}
    Fences = {x, y}
    MaxWaits = 2
    Null = null
    Err = err
CHECK_DEADLOCK FALSE
INVARIANTS
    OwnClient
    NoFreedClient
    PayloadsAnnounced
PROPERTY
    WaitReturns
