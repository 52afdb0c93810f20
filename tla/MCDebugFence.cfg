CONSTANTS
    w1 = w1
    w2 = w2
    f1 = f1
    f2 = f2
    Casts <- MCCasts
    Writers = {w1, w2}
    Files = {f1, f2}
    Ids = {c0, c1}
    Src = c0
    Dst = c1
    Slots = {s1, s2, s3}
    MaxFences = 3
    MaxSeqno = 2
    MaxOfFile = 1
    JoinSize = 2
    MaxArray = 2
    MaxOwed = 1
    Faults <- MCFaults
    None = None
SPECIFICATION Spec
SYMMETRY Symmetry
CHECK_DEADLOCK FALSE
INVARIANTS OneNode RefsExact HwFencesAccounted
PROPERTY KeptUntilRelease
