SPECIFICATION Spec
CONSTANTS
    U32 = 256
    Page = 8
    Payload = 2
    CtrlPayload = 1
    TableHeader = 1
    QueueHeader = 1
    FenceSize = 4
    LockSize = 1
    MaxQueueMem = 24
    ClientTypes <- MCClientTypes
    StaticTypes = 5
    RxqTypes = 3
    RxqClients = 4
    StaticIndex = 7
    SubClients = 3
    ClientMax = 13
    NoProp = noprop
    Trees <- MCTrees
    Callers <- MCCallers
    IpcBase <- MCIpcBase
    ConfigVersion = "v2"
    DpuClient = 2
    Self = self
    Peer = peer
    Nobody = nobody
    MaxFaults = 2
    MaxProbes = 2
CHECK_DEADLOCK FALSE
INVARIANTS
    ReadyMeansResources
