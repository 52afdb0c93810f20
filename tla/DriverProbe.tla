---------------------------- MODULE DriverProbe ----------------------------
(***************************************************************************)
(* Probe of the hw-fence driver (msm_hw_fence.c, hw_fence_drv_priv.c), the *)
(* notifier that shares the carved-out memory with the peer virtual        *)
(* machine (hw_fence_drv_utils.c), and the registration of client drivers, *)
(* which get an internal id, an ipc signal and queues in that memory.      *)
(*                                                                         *)
(* The probe is one thread; the notifier and the clients run beside it.    *)
(* The peer, the resource manager and the hypervisor are external.         *)
(***************************************************************************)
EXTENDS MemLayout

CONSTANTS Trees,          \* device trees, with the chip and the drivers they are for
          Callers,        \* external client ids whose drivers register
          IpcBase,        \* hw_fence_clients_ipc_map..., by ipcc version
          ConfigVersion,  \* the version with configurable clients (2.3)
          DpuClient,      \* HW_FENCE_CLIENT_ID_CTL0
          Self, Peer,     \* the two virtual machines
          Nobody,
          MaxFaults,      \* bound: calls that fail
          MaxProbes       \* bound: probes

\* Client ids are those of the enum; a device tree has numbers.
ASSUME ProbeAssumption ==
    /\ MaxFaults \in Nat /\ MaxProbes \in Nat /\ Self # Peer
    /\ Callers \subseteq Nat /\ Nobody \notin Callers
    /\ \A c \in Callers : \/ c < StaticIndex
                          \/ \E t \in Configurable : c - ClientTypes[t].init \in 0..SubClients - 1
    /\ \A d \in Trees : /\ {d.table, d.queue, d.size} \subseteq Nat
                        /\ \A t \in Types :
                              LET p == d.types[t] IN
                              p = NoProp \/ {p.clients, p.queues, p.entries, p.skip} \subseteq Nat
    /\ \A t \in Types : {ClientTypes[t].clients, ClientTypes[t].queues, ClientTypes[t].skip} \subseteq Nat

\* The ids of a display, all of them in a table or none; in the tables there are
\* the static clients, with interrupts of their own, and in that of ConfigVersion
\* the configurable types, named as they are, which have no Rx queue.
DpuIds == ClientTypes[TypeOf(DpuClient)].init .. ClientTypes[TypeOf(DpuClient)].init
                                                 + ClientTypes[TypeOf(DpuClient)].max - 1

ASSUME IpcAssumption ==
    /\ TypeOf(DpuClient) \in Types /\ \A id \in DpuIds : id < StaticIndex
    /\ ConfigVersion \in DOMAIN IpcBase
    /\ \A v \in DOMAIN IpcBase :
         LET base == IpcBase[v] IN
         /\ DOMAIN base = 0..StaticIndex + Cardinality(Configurable) - 1
         /\ \A id \in DOMAIN base : DOMAIN base[id] = {"client", "signal", "rxq"}
         /\ {id \in DOMAIN base : base[id].client = "dpu"} \in {{}, DpuIds}
         /\ \A i, j \in 0..StaticIndex - 1 :
              i # j /\ base[i].client = base[j].client /\ base[i].client # Nobody
                => base[i].signal # base[j].signal
         /\ \A t \in Configurable :
              LET row == base[StaticIndex + t - StaticTypes] IN
              IF v # ConfigVersion THEN row.client = Nobody
              ELSE /\ row.client = ClientTypes[t].name /\ ~row.rxq
                   /\ \A u \in Configurable \ {t} : ClientTypes[u].name # row.client
                   /\ \A i \in 0..StaticIndex - 1 : base[i].client # row.client

VARIABLES tree,           \* the device tree, never changed
          drv,            \* struct hw_fence_driver_data
          probe,          \* what the probe does next, or how it ended
          mem,            \* the carved-out memory: what is in it, where headers are
          notifier,       \* rm_nb as registered: live, or in data that was freed
          peer,           \* is the peer up?
          event,          \* the notification being delivered
          share,          \* what the notifier callback does next, or what it left
          owners,         \* who the hypervisor gives the memory to
          parcel,         \* is it shared with the peer as a memparcel?
          client,         \* what each client driver does next
          signalsOn,      \* internal ids whose signal is enabled for the DPU
          probes, faults

probeVars == <<drv, probe, mem, notifier, probes>>
vmVars == <<peer, event, share, owners, parcel>>
clientVars == <<client, signalsOn>>
vars == <<tree, probeVars, vmVars, clientVars, faults>>

NoRow == [client |-> Nobody, signal |-> 0, rxq |-> FALSE]
NoTable == [id \in {} |-> NoRow]

\* kzalloc of the driver data.
NewDriver == [tableEntries |-> 0, tableSize |-> 0, queueEntries |-> 0, ctrlSize |-> 0,
              desc |-> NoProp, rxqNum |-> 0, clientsNum |-> 0, used |-> 0,
              queueSize |-> [id \in {} |-> NoQueues], clients |-> [id \in {} |-> Nobody],
              ipc |-> NoTable, lockCnt |-> 0, tableCnt |-> 0, qtime |-> FALSE, virq |-> FALSE,
              ready |-> FALSE, vmReady |-> FALSE, dpuInit |-> FALSE]

Init ==
    /\ tree \in Trees
    /\ drv = NewDriver
    /\ probe = "idle"
    /\ mem = [clear |-> FALSE, ctrl |-> FALSE, clients |-> {}]
    /\ notifier = "none"
    /\ peer = FALSE /\ event = "none" /\ share = "idle"
    /\ owners = {Self} /\ parcel = FALSE
    /\ client = [c \in Callers |-> "none"]
    /\ signalsOn = {}
    /\ probes = 0 /\ faults = 0

\* A call to something that may fail.
Fault == faults < MaxFaults /\ faults' = faults + 1
NoFault == UNCHANGED faults

-----------------------------------------------------------------------------
(* hw_fence_utils_parse_dt_props *)

\* The fields computed from a valid tree, type by type.
Layout ==
    LET desc == [t \in Types |-> Desc(ClientTypes[t], tree.types[t], tree.queue)]
        tableSize == (FenceSize * tree.table) % U32
        ctrlSize == (CtrlHeaders + HW_FENCE_CTRL_QUEUES * CtrlQueueSize(tree.queue)) % U32
        base == QueuesStart(ctrlSize, tableSize, RxqClientsNum(desc))
    IN  [NewDriver EXCEPT !.tableEntries = tree.table, !.tableSize = tableSize,
                          !.queueEntries = tree.queue, !.ctrlSize = ctrlSize, !.desc = desc,
                          !.rxqNum = RxqClientsNum(desc), !.clientsNum = ClientsNum(desc),
                          !.queueSize = ClientQueueSize(desc, base % U32),
                          !.used = UsedMemSize(desc, base % U32),
                          !.clients = [id \in 0..ClientsNum(desc) - 1 |-> Nobody]]

ValidTable == tree.table < (U32 - 1) \div FenceSize
ValidCtrlQueue == /\ tree.queue < (U32 - 1) \div CtrlPayload
                  /\ CtrlQueueSize(tree.queue) < (U32 - 1 - CtrlHeaders) \div HW_FENCE_CTRL_QUEUES
ValidTypes == \A t \in Types : ValidDesc(ClientTypes[t], Desc(ClientTypes[t], tree.types[t], tree.queue))

\* The probe gives up and frees its data; what it registered stays registered, also
\* when the probe is tried again.  What a notifier in freed data does is undefined:
\* no callback follows.
Fail ==
    /\ probe' = "failed"
    /\ drv' = NewDriver
    /\ notifier' = IF notifier = "live" THEN "stale" ELSE notifier

ProbeInit ==
    /\ probe \in {"idle", "failed"} /\ probes < MaxProbes
    /\ probe' = "parse" /\ probes' = probes + 1
    /\ drv' = NewDriver
    /\ UNCHANGED <<tree, mem, notifier, vmVars, clientVars, faults>>

\* A property that is there and zero ends the parsing with the result 0.
ParseDtProps ==
    /\ probe = "parse"
    /\ \/ /\ tree.table = 0
          /\ UNCHANGED drv /\ probe' = "memory"
          /\ UNCHANGED notifier /\ NoFault
       \/ /\ tree.table # 0 /\ ValidTable /\ tree.queue = 0
          /\ drv' = [drv EXCEPT !.tableEntries = tree.table, !.tableSize = (FenceSize * tree.table) % U32]
          /\ probe' = "memory"
          /\ UNCHANGED notifier /\ NoFault
       \/ /\ tree.table # 0 /\ tree.queue # 0
          /\ ValidTable /\ ValidCtrlQueue /\ ValidTypes
          /\ drv' = Layout /\ probe' = "memory"
          /\ UNCHANGED notifier /\ NoFault
       \/ /\ tree.table # 0
          /\ ~ValidTable \/ (tree.queue # 0 /\ ~(ValidCtrlQueue /\ ValidTypes))
          /\ Fail /\ NoFault
       \/ tree.table # 0 /\ Fault /\ Fail           \* no property, no memory for a table
    /\ UNCHANGED <<tree, mem, probes, vmVars, clientVars>>

-----------------------------------------------------------------------------
(* hw_fence_utils_alloc_mem *)

FitsCarveout == drv.used <= tree.size

\* memset_io, also when an earlier probe's notifier has given the memory to the peer.
ClearMemory == mem' = [clear |-> TRUE, ctrl |-> FALSE, clients |-> {}]

MapMemory ==
    /\ probe = "memory"
    /\ \/ FitsCarveout /\ ClearMemory /\ probe' = "notifier" /\ UNCHANGED <<drv, notifier>> /\ NoFault
       \/ ~FitsCarveout /\ Fail /\ UNCHANGED mem /\ NoFault
       \/ Fault /\ Fail /\ UNCHANGED mem            \* no node, no mapping
    /\ UNCHANGED <<tree, probes, vmVars, clientVars>>

RegisterNotifier ==
    /\ probe = "notifier"
    /\ \/ /\ notifier' = IF notifier = "stale" THEN "stale" ELSE "live"
          /\ probe' = "ctrlq" /\ UNCHANGED drv /\ NoFault
       \/ Fault /\ Fail
    /\ UNCHANGED <<tree, mem, probes, vmVars, clientVars>>

-----------------------------------------------------------------------------
(* hw_fence_utils_reserve_mem and the regions *)

\* Offsets and the sum that is compared with the size are u32.
CtrlStart == 0
LocksStart == drv.ctrlSize
TableStart == (drv.ctrlSize + LocksSize(drv.rxqNum)) % U32

Reserves(start, size) == (start + size) % U32 <= tree.size

\* init_ctrl_queue: the headers are written into the memory.
InitCtrlQueue ==
    /\ probe = "ctrlq"
    /\ \/ /\ Reserves(CtrlStart, drv.ctrlSize)
          /\ mem' = [mem EXCEPT !.ctrl = TRUE]
          /\ probe' = "locks" /\ UNCHANGED <<drv, notifier>>
       \/ ~Reserves(CtrlStart, drv.ctrlSize) /\ Fail /\ UNCHANGED mem
    /\ UNCHANGED <<tree, probes, vmVars, clientVars, faults>>

\* init_global_locks and init_hw_fences_table only take what is there.
InitLocks ==
    /\ probe = "locks"
    /\ LET size == LocksSize(drv.rxqNum) % U32 IN
       \/ /\ Reserves(LocksStart, size)
          /\ drv' = [drv EXCEPT !.lockCnt = size \div LockSize]
          /\ probe' = "table" /\ UNCHANGED notifier
       \/ ~Reserves(LocksStart, size) /\ Fail
    /\ UNCHANGED <<tree, mem, probes, vmVars, clientVars, faults>>

InitTable ==
    /\ probe = "table"
    /\ \/ /\ Reserves(TableStart, drv.tableSize)
          /\ drv' = [drv EXCEPT !.tableCnt = drv.tableSize \div FenceSize]
          /\ probe' = "ipcc" /\ UNCHANGED notifier
       \/ ~Reserves(TableStart, drv.tableSize) /\ Fail
    /\ UNCHANGED <<tree, mem, probes, vmVars, clientVars, faults>>

-----------------------------------------------------------------------------
(* hw_fence_utils_map_ipcc *)

\* FirstRow is a plausible mistake: all configurable types share a row.
FirstRow(type) == StaticIndex
RowOfType(type) == StaticIndex + type - StaticTypes

\* _hw_fence_ipcc_init_map_with_configurable_clients: the static rows, then a row
\* for each sub-client with its own signal.
ConfigurableIpc ==
    LET base == IpcBase[ConfigVersion]
        sub(id) == CHOOSE e \in ConfiguredIds(drv.desc) : ClientIdPriv(drv.desc, e) = id
    IN  [id \in 0..drv.clientsNum - 1 |->
            IF id < StaticIndex THEN base[id]
            ELSE [base[RowOfType(TypeOf(sub(id)))]
                    EXCEPT !.signal = sub(id) - ClientTypes[TypeOf(sub(id))].init]]

\* hw_fence_ipcc_enable_signaling, whose result the probe drops: a version that is
\* not known, or a table that is not allocated, leaves no table.
EnableSignaling ==
    \/ /\ tree.ipcVersion = ConfigVersion /\ drv.desc # NoProp
       /\ drv' = [drv EXCEPT !.ipc = ConfigurableIpc]
       /\ probe' = "qtime" /\ NoFault
    \/ /\ tree.ipcVersion = ConfigVersion /\ drv.desc = NoProp
       /\ probe' = "oops" /\ UNCHANGED drv /\ NoFault     \* copies rows to no memory
    \/ /\ tree.ipcVersion \in DOMAIN IpcBase \ {ConfigVersion}
       /\ drv' = [drv EXCEPT !.ipc = IpcBase[tree.ipcVersion]]
       /\ probe' = "qtime" /\ NoFault
    \/ /\ tree.ipcVersion \notin DOMAIN IpcBase
       /\ probe' = "qtime" /\ UNCHANGED drv /\ NoFault
    \/ /\ tree.ipcVersion = ConfigVersion /\ Fault
       /\ probe' = "qtime" /\ UNCHANGED drv

MapIpcc ==
    /\ probe = "ipcc"
    /\ \/ EnableSignaling /\ UNCHANGED notifier
       \/ Fault /\ Fail
    /\ UNCHANGED <<tree, mem, probes, vmVars, clientVars>>

\* hw_fence_utils_map_qtime; the ctl_start registers after it are optional.
MapQtime ==
    /\ probe = "qtime"
    /\ \/ drv' = [drv EXCEPT !.qtime = TRUE] /\ probe' = "debugfs" /\ UNCHANGED notifier /\ NoFault
       \/ Fault /\ Fail
    /\ UNCHANGED <<tree, mem, probes, vmVars, clientVars>>

\* hw_fence_debug_debugfs_register, then hw_fence_utils_init_virq.
RegisterDebugfs ==
    /\ probe = "debugfs"
    /\ \/ probe' = "virq" /\ UNCHANGED <<drv, notifier>> /\ NoFault
       \/ Fault /\ Fail
    /\ UNCHANGED <<tree, mem, probes, vmVars, clientVars>>

InitVirq ==
    /\ probe = "virq"
    /\ \/ drv' = [drv EXCEPT !.virq = TRUE] /\ probe' = "ready" /\ UNCHANGED notifier /\ NoFault
       \/ Fault /\ Fail
    /\ UNCHANGED <<tree, mem, probes, vmVars, clientVars>>

\* The end of msm_hw_fence_probe_init.
SetReady ==
    /\ probe = "ready"
    /\ probe' = "done"
    /\ drv' = [drv EXCEPT !.ready = TRUE]
    /\ UNCHANGED <<tree, mem, notifier, probes, vmVars, clientVars, faults>>

Probe == \/ ParseDtProps \/ MapMemory \/ RegisterNotifier \/ InitCtrlQueue \/ InitLocks
         \/ InitTable \/ MapIpcc \/ MapQtime \/ RegisterDebugfs \/ InitVirq \/ SetReady

-----------------------------------------------------------------------------
(* The peer and hw_fence_rm_cb *)

\* The peer starts or goes (external).  The resource manager tells whoever is
\* registered at that time, one notification after the other.
PeerStarts ==
    /\ ~peer /\ event = "none"
    /\ peer' = TRUE
    /\ event' = IF notifier = "live" THEN "READY" ELSE "none"
    /\ UNCHANGED <<tree, probeVars, share, owners, parcel, clientVars, faults>>

\* Also after it got the memory: the driver keeps vm_ready and the next READY is refused.
PeerGoes ==
    /\ peer /\ event = "none"
    /\ peer' = FALSE
    /\ event' = IF notifier = "live" THEN "RESET" ELSE "none"
    /\ UNCHANGED <<tree, probeVars, share, owners, parcel, clientVars, faults>>

\* The callback starts; "leaked" is idle as well.
Entered == share \in {"idle", "leaked"}

\* A reset, or a READY whose vmid cannot be read.
IgnoreEvent ==
    /\ \/ event = "RESET" /\ NoFault
       \/ event = "READY" /\ Entered /\ Fault
    /\ event' = "none"
    /\ UNCHANGED <<tree, probeVars, peer, share, owners, parcel, clientVars>>

\* hw_fence_gunyah_share_mem: the hypervisor moves memory of the owner it is told.
AssignMem ==
    /\ event = "READY" /\ Entered
    /\ \/ /\ owners = {Self}
          /\ owners' = {Self, Peer} /\ share' = "acl" /\ UNCHANGED event /\ NoFault
       \/ owners # {Self} /\ event' = "none" /\ UNCHANGED <<owners, share>> /\ NoFault
       \/ Fault /\ event' = "none" /\ UNCHANGED <<owners, share>>
    /\ UNCHANGED <<tree, probeVars, peer, parcel, clientVars>>

\* Without memory for the descriptors the callback ends, the memory stays assigned.
AllocDescriptors ==
    /\ share = "acl"
    /\ \/ share' = "share" /\ UNCHANGED event /\ NoFault
       \/ Fault /\ share' = "leaked" /\ event' = "none"
    /\ UNCHANGED <<tree, probeVars, peer, owners, parcel, clientVars>>

\* KeepsAssigned is a plausible mistake.
KeepsAssigned == owners' = owners
GiveBack == owners' = {Self}

\* If it cannot be shared it is given back, which may fail unnoticed.
ShareMem ==
    /\ share = "share"
    /\ \/ /\ parcel' = TRUE /\ drv' = [drv EXCEPT !.vmReady = TRUE]
          /\ share' = "idle" /\ UNCHANGED owners /\ NoFault
       \/ Fault /\ GiveBack /\ share' = "idle" /\ UNCHANGED <<parcel, drv>>
       \/ Fault /\ share' = "leaked" /\ UNCHANGED <<owners, parcel, drv>>
    /\ event' = "none"
    /\ UNCHANGED <<tree, probe, mem, notifier, probes, peer, clientVars>>

Callback == notifier # "stale" /\ (IgnoreEvent \/ AssignMem \/ AllocDescriptors \/ ShareMem)

-----------------------------------------------------------------------------
(* msm_hw_fence_register *)

IdOf(c) == ClientIdPriv(drv.desc, c)
Goto(c, pc) == client' = [client EXCEPT ![c] = pc]
DpuRow(id) == id \in DOMAIN drv.ipc /\ drv.ipc[id].client = "dpu"

\* The guards, the lookup of the id and the entry in the table, under the lock.
\* Without a parsed device tree there is no table of types and no table of clients.
StartRegister(c) ==
    /\ c \in tree.drivers /\ drv.ready /\ client[c] = "none"
    /\ IF drv.desc = NoProp THEN Goto(c, "oops") /\ UNCHANGED drv
       ELSE IF IdOf(c) >= ClientMax \/ drv.clients[IdOf(c)] # Nobody
       THEN Goto(c, "refused") /\ UNCHANGED drv
       ELSE drv' = [drv EXCEPT !.clients[IdOf(c)] = c] /\ Goto(c, "setup")
    /\ UNCHANGED <<tree, probe, mem, notifier, probes, vmVars, signalsOn, faults>>

\* Has the client an ipc client, and queues to match?
GoodRow(id) ==
    /\ drv.ipc[id].client # Nobody
    /\ drv.ipc[id].rxq => drv.queueSize[id].queues >= HW_FENCE_CLIENT_QUEUES

ReservesQueues(id) ==
    /\ drv.queueSize[id].mem # 0
    /\ Reserves(drv.queueSize[id].start, drv.queueSize[id].mem)

\* Ipc ids and queues of a client; init_hw_fences_queues writes the headers.
SetUp(c) ==
    /\ client[c] = "setup"
    /\ IF IdOf(c) \notin DOMAIN drv.ipc THEN Goto(c, "oops") /\ UNCHANGED mem
       ELSE IF GoodRow(IdOf(c)) /\ ReservesQueues(IdOf(c))
       THEN Goto(c, "signal") /\ mem' = [mem EXCEPT !.clients = @ \cup {c}]
       ELSE Goto(c, "unlink") /\ UNCHANGED mem
    /\ UNCHANGED <<tree, drv, probe, notifier, probes, vmVars, signalsOn, faults>>

\* hw_fence_init_controller_signal: the first display client enables the signals of
\* all of them, after it said that this is done.
InitSignal(c) ==
    /\ client[c] = "signal"
    /\ IF TypeOf(c) = TypeOf(DpuClient) /\ ~drv.dpuInit
       THEN drv' = [drv EXCEPT !.dpuInit = TRUE] /\ Goto(c, "enable")
       ELSE UNCHANGED drv /\ Goto(c, "registered")
    /\ UNCHANGED <<tree, probe, mem, notifier, probes, vmVars, signalsOn, faults>>

\* OwnSignal is a plausible mistake: only the caller's signal is enabled.
OwnSignal(id) == id = CHOOSE i \in DOMAIN drv.ipc : DpuRow(i)
EnabledFor(id) == DpuRow(id)

EnableDpuSignaling(c) ==
    /\ client[c] = "enable"
    /\ signalsOn' = {id \in 0..drv.clientsNum - 1 : EnabledFor(id)}
    /\ Goto(c, "registered")
    /\ UNCHANGED <<tree, probeVars, vmVars, faults>>

\* hw_fence_cleanup_client, after an error or by msm_hw_fence_deregister.
Cleanup(c) ==
    /\ client[c] \in {"unlink", "registered"}
    /\ drv' = [drv EXCEPT !.clients[IdOf(c)] = Nobody]
    /\ Goto(c, IF client[c] = "unlink" THEN "refused" ELSE "none")
    /\ UNCHANGED <<tree, probe, mem, notifier, probes, vmVars, signalsOn, faults>>

Register(c) == \/ StartRegister(c) \/ SetUp(c) \/ InitSignal(c) \/ EnableDpuSignaling(c)
               \/ Cleanup(c)

Next == \/ ProbeInit \/ Probe
        \/ PeerStarts \/ PeerGoes \/ Callback
        \/ \E c \in Callers : Register(c)

\* The probe and the callbacks run on.
Spec == Init /\ [][Next]_vars /\ WF_vars(Probe) /\ WF_vars(Callback)

-----------------------------------------------------------------------------
(* Properties *)

\* A tree whose properties are not zero, for a chip that the driver knows.
Complete == tree.table # 0 /\ tree.queue # 0 /\ tree.ipcVersion \in DOMAIN IpcBase

\* The sum of all regions, without truncation.
TotalSize == QueuesStart(drv.ctrlSize, drv.tableSize, drv.rxqNum)
             + MapThenSumSet(LAMBDA e : MemSize(drv.desc[TypeOf(e)]), ConfiguredIds(drv.desc))

\* No type with two queues comes after one whose ids have no lock words.
NoGap == \A t, u \in Types : (RxqTypes <= t /\ t < u /\ u < StaticTypes /\ drv.desc[u].clients > 0) =>
            drv.desc[t].clients = ClientTypes[t].max /\ drv.desc[t].queues = HW_FENCE_CLIENT_QUEUES

Registered == {c \in Callers : client[c] = "registered"}

\* Types; a ready driver ended its probe; nobody has the memory but the two machines.
TypeOK ==
    /\ tree \in Trees /\ probes \in 0..MaxProbes /\ faults \in 0..MaxFaults
    /\ probe \in {"idle", "parse", "memory", "notifier", "ctrlq", "locks", "table", "ipcc", "qtime",
                  "debugfs", "virq", "ready", "done", "failed", "oops"}
    /\ drv.ready <=> probe = "done"
    /\ notifier \in {"none", "live", "stale"}
    /\ peer \in BOOLEAN /\ parcel \in BOOLEAN
    /\ event \in {"none", "READY", "RESET"} /\ share \in {"idle", "leaked", "acl", "share"}
    /\ owners \in {{Self}, {Self, Peer}}
    /\ client \in [Callers -> {"none", "setup", "signal", "enable", "registered", "unlink",
                               "refused", "oops"}]

\* The regions of the carved-out memory do not overlap and end within it, and the
\* queues of a client fit into the client's region: each driver, the controller
\* and the table stay out of the others' memory.
Region(of, start, size) == [of |-> of, start |-> start, end |-> start + size]
Regions ==
    {Region(<<"ctrl", 0>>, CtrlStart, drv.ctrlSize),
     Region(<<"locks", 0>>, LocksStart, LockSize * drv.lockCnt),
     Region(<<"table", 0>>, TableStart, FenceSize * drv.tableCnt)}
    \cup {Region(<<"client", id>>, drv.queueSize[id].start, drv.queueSize[id].mem) :
             id \in {i \in DOMAIN drv.queueSize : drv.queueSize[i].mem # 0}}

RegionsDisjoint ==
    (drv.ready /\ Complete /\ TotalSize < U32) =>
        /\ \A r, s \in Regions : r # s => r.end <= s.start \/ s.end <= r.start
        /\ \A r \in Regions : r.end <= tree.size
        /\ \A id \in DOMAIN drv.queueSize :
              LET q == drv.queueSize[id] IN
              q.mem # 0 => ClientHeaders(q.queues) + q.queues * Payload * q.entries <= q.mem

\* A registered client has an id and an interrupt that no other registered client
\* has, the ipc client of its own type, and a lock word if its Rx queue is written.
ClientSetUp ==
    /\ TypeOK
    /\ \A c \in Registered :
         LET row == drv.ipc[IdOf(c)] IN
         /\ \A d \in Registered \ {c} : /\ IdOf(d) # IdOf(c)
                                       /\ drv.ipc[IdOf(d)].client = row.client
                                          => drv.ipc[IdOf(d)].signal # row.signal
         /\ TypeOf(c) \in Configurable => row.client = ClientTypes[TypeOf(c)].name
         /\ (row.rxq /\ NoGap) => IdOf(c) - 1 < drv.lockCnt

\* A display client that is registered may be signalled: the first one enables the
\* signals of all, also of those that come after.  It says so before it does it, so
\* others may be registered without; then it is still at it, however registrations
\* and deregistrations overlap.
DpuSignalled ==
    \A c \in Registered :
        DpuRow(IdOf(c)) => IdOf(c) \in signalsOn \/ \E d \in Callers : client[d] = "enable"

\* A peer that becomes ready again and again gets the memory in the end, unless a
\* callback ran out of memory or could not give it back, and left it assigned
\* (hw_fence_gunyah_share_mem), or the probe failed after it registered the notifier.
ShareRetried == []<>(event = "READY") => <>(drv.vmReady \/ share = "leaked" \/ notifier = "stale")

\* "@resources_ready: value set by driver at end of probe, once all resources are
\* ready" (hw_fence_drv_priv.h): a table of clients, ipc rows for them, timer, interrupt.
ReadyMeansResources ==
    drv.ready => /\ drv.tableCnt > 0 /\ drv.lockCnt > 0 /\ drv.qtime /\ drv.virq
                 /\ DOMAIN drv.clients # {} /\ DOMAIN drv.ipc # {}

=============================================================================
