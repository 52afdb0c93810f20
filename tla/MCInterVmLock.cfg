SPECIFICATION FairSpec
CONSTANTS
    c1 = c1
    c2 = c2
    child = child
    join = join
    Cpus <- MCCpus
    Locks <- MCLocks
    Inside <- MCInside
    Svm = svm
    Nobody = nobody
INVARIANTS
    TypeOK
    LockInv
    NoMissedWakeup
PROPERTIES
    SvmGoesFirst
    ImplementsSharedLock
    Acquires
