----------------------------- MODULE MemLayout -----------------------------
(***************************************************************************)
(* The layout of the carved-out memory and the numbering of the clients,   *)
(* as hw_fence_drv_utils.c computes them from the device tree: sizes and   *)
(* offsets are u32, so they are taken modulo U32 where the code assigns    *)
(* them, and not where it compares.  Client types are numbered from 0 as   *)
(* in the array hw_fence_client_types.                                     *)
(***************************************************************************)
EXTENDS Naturals, FiniteSets, FiniteSetsExt

CONSTANTS U32,            \* 2^32 in the code
          Page,           \* PAGE_SIZE
          Payload,        \* HW_FENCE_CLIENT_QUEUE_PAYLOAD
          CtrlPayload,    \* HW_FENCE_CTRL_QUEUE_PAYLOAD
          TableHeader,    \* HW_FENCE_HFI_TABLE_HEADER_SIZE
          QueueHeader,    \* HW_FENCE_HFI_QUEUE_HEADER_SIZE
          FenceSize,      \* sizeof(struct msm_hw_fence)
          LockSize,       \* sizeof(u64)
          MaxQueueMem,    \* MAX_CLIENT_QUEUE_MEM_SIZE
          ClientTypes,    \* hw_fence_client_types, from 0
          StaticTypes,    \* HW_FENCE_MAX_CLIENT_TYPE_STATIC
          RxqTypes,       \* HW_FENCE_MIN_RXQ_CLIENT_TYPE
          RxqClients,     \* HW_FENCE_MIN_RXQ_CLIENTS
          StaticIndex,    \* HW_FENCE_MAX_STATIC_CLIENTS_INDEX
          SubClients,     \* MSM_HW_FENCE_MAX_SIGNAL_PER_CLIENT
          ClientMax,      \* HW_FENCE_CLIENT_MAX
          NoProp          \* a property the device tree does not have

Types == DOMAIN ClientTypes
Configurable == {t \in Types : t >= StaticTypes}

\* Client types are in the order of their ids, and each id belongs to one type; the
\* types with lock words are next to each other, and the locks are not 2^32 bytes.
ASSUME LayoutAssumption ==
    /\ {U32, Page, Payload, CtrlPayload, FenceSize, LockSize, SubClients} \subseteq Nat \ {0}
    /\ {TableHeader, QueueHeader, MaxQueueMem} \subseteq Nat
    /\ U32 % Page = 0
    /\ IsFiniteSet(Types) /\ Types = 0..Cardinality(Types) - 1
    /\ \A t \in Types : {ClientTypes[t].init, ClientTypes[t].max} \subseteq Nat
    /\ StaticTypes \in Types /\ RxqTypes \in 0..StaticTypes
    /\ \A t \in Configurable : /\ ClientTypes[t].init = StaticIndex + (t - StaticTypes) * SubClients
                               /\ ClientTypes[t].max <= SubClients
    /\ \A t \in Types \ Configurable : ClientTypes[t].init + ClientTypes[t].max <= StaticIndex
    /\ \A t \in Types : ClientTypes[t].init + ClientTypes[t].max <= ClientMax
    /\ \A t, u \in Types : t < u => ClientTypes[t].init + ClientTypes[t].max <= ClientTypes[u].init
    /\ RxqClients + 1 = ClientTypes[RxqTypes].init
    /\ \A t \in RxqTypes..StaticTypes - 2 :
          ClientTypes[t + 1].init = ClientTypes[t].init + ClientTypes[t].max
    /\ {RxqClients, StaticIndex, ClientMax} \subseteq Nat /\ LockSize * ClientMax < U32

HW_FENCE_CLIENT_QUEUES == 2
HW_FENCE_CTRL_QUEUES == 2

PageAlign(n) == ((n + Page - 1) \div Page) * Page
ClientHeaders(queues) == TableHeader + QueueHeader * queues
LocksSize(clients) == LockSize * clients

-----------------------------------------------------------------------------
(* One client type: _parse_client_queue_dt_props_indv *)

\* What the device tree says of a type, or the defaults of the table.
Desc(type, prop, entries) ==
    IF prop = NoProp
    THEN [clients |-> type.clients, queues |-> type.queues, entries |-> entries, skip |-> type.skip]
    ELSE prop

QueueSize(desc) == (Payload * desc.entries) % U32

MemSize(desc) ==
    PageAlign(ClientHeaders(desc.queues) + ((QueueSize(desc) * desc.queues) % U32)) % U32

ValidDesc(type, desc) ==
    /\ desc.skip <= 1
    /\ desc.clients <= type.max
    /\ desc.queues \in 1..HW_FENCE_CLIENT_QUEUES
    /\ desc.entries # 0
    /\ desc.entries < (U32 - 1) \div Payload
    /\ QueueSize(desc) < (U32 - Page - ClientHeaders(desc.queues)) \div desc.queues
    /\ MemSize(desc) <= MaxQueueMem

-----------------------------------------------------------------------------
(* Client ids: hw_fence_utils_get_client_id_priv *)

\* Clients of the types in S.
ClientsOf(desc, S) == MapThenSumSet(LAMBDA t : desc[t].clients, S)

ConfiguredBefore(desc, type) == ClientsOf(desc, {t \in Configurable : t < type})

\* The internal id of an external one: sub-clients that are not configured have
\* none, the others are numbered consecutively.
ClientIdPriv(desc, ext) ==
    IF ext < StaticIndex THEN ext
    ELSE LET type == StaticTypes + (ext - StaticIndex) \div SubClients
             offset == (ext - StaticIndex) % SubClients
         IN  IF offset >= desc[type].clients THEN ClientMax
             ELSE StaticIndex + offset + ConfiguredBefore(desc, type)

-----------------------------------------------------------------------------
(* The layout: _parse_client_queue_dt_props *)

\* Clients whose Rx queue has a lock word: all ids up to the last validation
\* client, and those of later types that have two queues.
RxqClientsNum(desc) ==
    RxqClients + ClientsOf(desc, {t \in Types : t >= RxqTypes /\ desc[t].queues = HW_FENCE_CLIENT_QUEUES})

ClientsNum(desc) == StaticIndex + ClientsOf(desc, Configurable)

CtrlQueueSize(queueEntries) == (CtrlPayload * queueEntries) % U32
CtrlHeaders == TableHeader + QueueHeader * HW_FENCE_CTRL_QUEUES

\* The external ids that are configured, in the order in which they get memory.
ConfiguredIds(desc) == UNION {ClientTypes[t].init..ClientTypes[t].init + desc[t].clients - 1 : t \in Types}
TypeOf(ext) == CHOOSE t \in Types : ext \in ClientTypes[t].init..ClientTypes[t].init + ClientTypes[t].max - 1

\* What the queues of the clients start after: page-aligned, in order of their ids.
\* SkipsLocks is a plausible mistake: the region of the locks is forgotten.
SkipsLocks(ctrlSize, tableSize, rxq) == PageAlign(ctrlSize + tableSize)
QueuesStart(ctrlSize, tableSize, rxq) == PageAlign(ctrlSize + LocksSize(rxq) + tableSize)
StartOffset(desc, base, ext) ==
    (base + MapThenSumSet(LAMBDA e : MemSize(desc[TypeOf(e)]), {e \in ConfiguredIds(desc) : e < ext})) % U32

NoQueues == [queues |-> 0, entries |-> 0, mem |-> 0, start |-> 0, skip |-> 0]

\* hw_fence_client_queue_size, by internal id; an id without memory keeps zeros.
ClientQueueSize(desc, base) ==
    [id \in 0..ClientsNum(desc) - 1 |->
        IF \E e \in ConfiguredIds(desc) : ClientIdPriv(desc, e) = id
        THEN LET ext == CHOOSE e \in ConfiguredIds(desc) : ClientIdPriv(desc, e) = id
                 d == desc[TypeOf(ext)]
             IN  [queues |-> d.queues, entries |-> d.entries, mem |-> MemSize(d),
                  start |-> StartOffset(desc, base, ext), skip |-> d.skip]
        ELSE NoQueues]

UsedMemSize(desc, base) == StartOffset(desc, base, ClientMax)

=============================================================================
