SPECIFICATION Spec
CONSTANTS
    Writers = {pvm, ctl}
    TxWriter = pvm
    Resetter = resetter
    Entries = 3
    QuietReset = TRUE
    MaxWrites = 5
    MaxResets = 1
    Nobody = nobody
    Nothing = nothing
CHECK_DEADLOCK FALSE
INVARIANTS
    TypeOK
    MoreMeansMore
PROPERTIES
    ImplementsFifo
