# TLA+ models of the mm-drivers kernel modules

The repository holds three Linux kernel modules: `hw_fence` (fences between
hardware blocks, run together with a fence controller in a second virtual
machine), `sync_fence` (speculative fence arrays) and `msm_ext_display` (the
bridge between display drivers and the audio codec). This directory models their
core logic in TLA+, from the probe of the driver to the fences of its debug
interfaces, checks it with TLC on small instances, and proves with TLAPS, for instances
of any size, what matters most about the lock words, the queues, the table of
hw-fences, waits and resets, join fences, validation clients, speculative fences, the probe
with its memory layout, and the audio bridge.

Short names for sources used below: `priv.c` = `src/hw_fence/src/hw_fence_drv_priv.c`,
`hw_fence.c` = `src/hw_fence/src/msm_hw_fence.c`, `utils.c`, `ioctl.c`, `debug.c`,
`ipc.c` = the other files of that directory, `priv.h` =
`src/hw_fence/include/hw_fence_drv_priv.h`, `sync_file.c` =
`src/sync_fence/src/qcom_sync_file.c`, `ext_display.c` =
`src/msm_ext_display/src/msm_ext_display.c`.

## 1. The system

```
   clients (DPU, GPU, camera, validation files)          display drivers   audio codec
      | register / create / wait / reset                        \           /
      v                                                      msm_ext_display
  hw_fence driver (primary VM)                           (one table of operations)
      |        |            \
   table of   lock words    Rx / Tx queues of a client      user space
   hw-fences     |           /                                 |
      ----- memory shared with the ----                   sync_fence
            fence controller (SVM)              (fence arrays of dummy fences, bound later)
```

| component | state | operations | meets others through | hard part | what makes it correct |
|---|---|---|---|---|---|
| lock words (`utils.c:98-162`) | one 64-bit word per fence slot and per client; bit 0 of the PVM, bit 1 of the SVM | lock, unlock | shared memory, exclusive loads and stores, an interrupt that ends the WFI of the SVM | store-exclusive races; the SVM falls asleep while the PVM unlocks; nesting | one owner; no lost wakeup; who asks, gets it |
| client queues (`priv.c:27-372, 1439-1480`) | read index, write index, `tx_wm`, payloads | write, read, reset | shared memory; the Rx queue under the client's lock word | unlocked readers, several writers, wrap-around, full queue, reset under way | a bounded FIFO |
| table of hw-fences (`priv.c:404-436, 669-1045`, `hw_fence.c:163-290`) | slots with (context, seqno), allocator; a bit of the dma-fence | create, destroy, destroy by handle, find | slot locks, one probe at a time | two clients probe at once, holes, a full table, a check before a second lookup | a set of fences with their creators |
| waiting, join fences, reset (`priv.c:1047-1437, 1482-1548`, `hw_fence.c:293-422`) | per slot: signal flag, wait mask, parents and their count, pending children, client data | wait for a fence or an array, undo, reset of a client | the controller changes the same slots | a signal between the steps of a wait; refusal after some children were linked; reset of an allocator while others wait | nobody misses a signal, an array is told exactly once, a reset tells the waiters and touches nobody else |
| clients and validation files (`hw_fence.c:20-160`, `ioctl.c`, `debug.c:894-925`, `utils.c:228-308`) | the clients table, client objects, doorbell flag | register, deregister, wait; doorbell callback | the callback looks up clients that come and go | publication before initialisation, freeing under a callback | own client, no freed client, a rung wait returns |
| speculative fences (`sync_file.c`) | open files, tracked arrays, references of the dummy fence, arrays and their children | open, release, create, bind, wait for bind | `dma_fence_array` of the kernel, its callbacks | partial binds, signalling before the bind, the last close, concurrent binds | references exact, arrays signal as their flag says, nobody waits for ever |
| external display (`ext_display.c`) | displays, selected codec, its table of operations, a deferred update | (de)register, select, connect, disconnect, notify, codec registration | a mutex, dropped before the end of a codec registration | order of calls, late codec | the table is that of the selected display |
| memory layout, client ids (`utils.c:77-96, 528-794, 904-930`) | offsets, sizes and ids of clients, computed once at probe | parse, reserve, translate | device tree, whose properties may be missing, zero or too large | truncation to 32 bits; ids of clients that are not configured | regions are disjoint and fit; ids one-to-one |
| probe and registration (`hw_fence.c:20-134, 492-526`, `priv.c:27-135, 374-534, 561-667`, `ipc.c:289-484`) | the driver data, the rows of ipc clients, the clients table, signals enabled for the display | probe, register, deregister | every other part: what the probe leaves is where they start | any step may fail and the probe may come again; clients that register meanwhile | a registered client has an id, an interrupt and queues of its own, and display clients can be signalled |
| sharing with the second VM (`utils.c:310-438`) | who owns the memory, the memparcel, `vm_ready` | the notifier callback | resource manager, hypervisor | the peer comes and goes while calls fail | the peer gets the memory in the end |
| debug fences (`debug.c:140-471, 736-892`, `hw_fence_drv_debug.h:105-187`, `ioctl.c:160-645`) | debugfs nodes, sequence numbers, dma-fences and arrays with their references, file descriptors | register, reset, create, simulate, join; create, array, destroy, wait; release | the table of hw-fences; several threads that write, files whose fences meet in arrays | unlocked lists and counters; references over error paths; release after a reset | a fence lives as long as somebody may use it, its hw-fence as long as the fence |
| IPCC registers, dumps, loopback, build files | registers and pointers | I/O, formatting | hardware | – | not modelled |

`PROJECT.json` lists the hazards of each component at the line where they bite,
with the properties that would notice, and says why where there is none.

## 2. The modules

| module | models | notes |
|---|---|---|
| `SharedLock` | what a lock promises | abstract |
| `InterVmLock`, `MCInterVmLock` | `_lock`, `_unlock`, `global_atomic_store` | implements `SharedLock` |
| `InterVmLockProofs` | theorems about the lock words | TLAPS |
| `BoundedFifo` | what a queue promises | abstract |
| `HwFenceQueue` | write, read and reset of one queue | implements `BoundedFifo` |
| `HwFenceQueueProofs` | theorems about the queue | TLAPS |
| `FenceRegistry` | what the table promises | abstract |
| `HwFenceTable`, `MCHwFenceTable` | the probing table | implements `FenceRegistry` |
| `HwFenceTableProofs` | theorems about the table | TLAPS |
| `HwFenceWait`, `MCHwFenceWait` | waits, arrays, the controller's signals, reset | |
| `HwFenceWaitProofs` | theorems about waits, resets and join fences | TLAPS |
| `ValidationClient` | client objects and the validation wait | |
| `ValidationClientProofs` | theorems about client objects | TLAPS |
| `SpecSync`, `MCSpecSync` | `sync_fence` | |
| `SpecSyncProofs` | theorems about fence arrays | TLAPS |
| `ExtDisplay`, `MCExtDisplay` | `msm_ext_display` | |
| `ExtDisplayProofs` | theorems about the codec's table | TLAPS |
| `MemLayout` | sizes, offsets and client ids as operators, u32 where the code assigns u32 | used by `DriverProbe` |
| `DriverProbe`, `MCDriverProbe` | the probe, the notifier callback, registration of clients | establishes what the others start from |
| `DriverProbeProofs` | theorems about the layout, ids, registered clients and the signals of the display | TLAPS |
| `DebugFence`, `MCDebugFence` | debugfs nodes and ioctls that make fences | |

The modules of `hw_fence` stand on one another: what `InterVmLock` shows of a lock
word lets `HwFenceQueue`, `HwFenceTable` and `HwFenceWait` treat a section under a
lock word as one step (the table, the waits) or as a lock with one owner (the
queue); what `HwFenceTable` shows of a lookup lets `HwFenceWait` index slots by
fence; `BoundedFifo` lets `HwFenceWait` keep a set of payloads and
`ValidationClient` a sequence. `DriverProbe` shows that the lock words, the table and the
queues are disjoint memory, which is why each of them has a module of its own, and
`FenceRegistry` lets `DebugFence` keep the table as slots without an order.

### InterVmLock

A word is the set of its bits. `LdaxrZero`/`StxrLock` are the two instructions of
`_lock` (the loop is the action staying enabled), `LdaxrUnlock`/`StxrUnlock` those
of `_unlock`, `CheckSvm` the plain read after it that decides whether to interrupt
the SVM. `mon` is the exclusive monitor of a CPU: every store of somebody else to
the word clears it (`Store`), and it may be lost at any time (`LoseReservation`,
external). The SVM's side (`Svm...`) follows the comments of `_lock` and `_unlock`:
it sets bit 1, enters when bit 0 is clear and otherwise sleeps until the
interrupt. `held` is what a CPU owns; locks nest in the order of `Inside`, as
`hw_fence_process_fence_array` takes the join lock inside the child's.

### HwFenceQueue

Indexes count entries. `hw_fence_update_queue` is `WriteStart` (choice of the write
pointer), `WriteLock` (Rx only), `WriteReadRd`, `WriteReadWr` (with the room check),
`WritePayload`, `WritePublish`, `WriteExit`; `hw_fence_read_queue` is `ReadIndexes`,
`ReadWr`, `ReadPayload`, `ReadPublish`; the reset takes the lock, reads one index and
stores it into the other. `kind` is the queue's kind (Rx, Tx, Tx with
`skip_txq_wr_idx`), fixed by `Init`. `Contents` is the sequence between the two indexes, the
`buf` of `BoundedFifo`.

### HwFenceTable

A call is a record with its operation, pair, step and hash; `Lookup` starts one,
`Probe` is one round of the loop in `_hw_fence_lookup_and_process` (lock, compare,
process, unlock), `AfterFound` and `GivesUp` its two ends. The dma-fence's ENABLED
bit is set and cleared in steps of their own (`SetEnabledBit`, `ClearEnabledBit`),
as the code does outside of the lock. `DestroyWithHandle` checks the allocator
(`CheckAllocator`), reads the pair again (`ReadKey`) and starts a lookup. `FenceRegistry`
keeps, besides the creators, who is in a call (`calling`): a step of the table adds or
removes one fence at most, and only within a call of the client that creates it or
created it.

### HwFenceWait

One slot per fence and per array. A client's call is a program counter and its
locals. `Register`, `CheckFlag` and `SignalSelf` are
`hw_fence_register_wait_client`; `WaitArray` to `DestroyJoin` are
`hw_fence_process_fence_array` with a step for every lock section, `UndoChild` and
`UndoJoin` its cleanup; `StartReset` to `ResetQueues` are
`msm_hw_fence_reset_client`. `CtlSignal` is the controller (external): under the
lock it sets the flag, tells the clients of the mask, and counts the parents down.

### ValidationClient

`RegClient` publishes a client under `clients_register_lock`; `InitResources` and
`InitWaitQueue` are the rest of `msm_hw_fence_register`, the first may fail and then
leads to `Unlink` and `FreeClient` (`hw_fence_cleanup_client`), as deregistration
does. `HwFenceCb` is the doorbell callback for one id. The wait ioctl is `StartWait`,
`WaitEvent` or `WaitTimeout`, `ClearSignal`, and the loop of `ReadPayload` and
`ReadNothing`, in the order that `After` names. `left` is a history variable: the payloads
that a read, or an earlier client, did not take out of the queue. The Rx queue belongs to the id, not to the client object: its indexes
survive a registration (`init_hw_fences_queues` is given memory that it does not
clear), so a later client finds what an earlier one left.

### SpecSync

`Create` and `Track` are the create ioctl (the array joins the tracker after its
descriptor is installed), `StartBind`, `CheckBind`, `ReplaceChildren`, `Enable`,
`Prune`, `SetBound`, `SignalError`, `PutFence` the bind ioctl, `StartWait`, `EndWait`,
`TimeOut` the kernel's wait for a bind, `Open`, `Release` and `ClearTracker` the file
operations. `EnableSignaling`, `CountDown`, `UserSignals` are `dma_fence_array`
(external): once signalling is enabled every child that signals counts
`num_pending` down, at zero the array signals. References are counted.

### ExtDisplay

One action per entry point, because each runs under the mutex; the codec
registration continues after its unlock with `CheckCurrent`, `FindDisplay` and
`CopyOps`. `ops` is the display whose operations are in the codec's table.

### MemLayout and DriverProbe

`MemLayout` computes what `hw_fence_utils_parse_dt_props` stores: `Desc` is a type's
property or its default, `ValidDesc` the checks of one type in the order and with
the divisions of the code, `MemSize` and `StartOffset` the sums, modulo `U32` where the
code stores them in a u32 and exact where it compares a `size_t`. `ClientIdPriv` is the translation of
an external client id. The constants are the macros and the array
`hw_fence_client_types`.

`DriverProbe` runs the probe as one thread with a program counter (`probe`), a step for every
call that may fail (`ParseDtProps` to `SetReady`, in the order of `hw_fence_init`); `Fault`
counts the calls that fail for a reason outside of the driver. `Fail` is the error path of
`msm_hw_fence_probe_init`: the driver data is freed, the notifier, if it was registered, stays.
`ProbeInit` may run again after it, as for a deferred probe, and then clears the memory again,
also memory that the peer has by then.
Beside it run the peer (`PeerStarts`, `PeerGoes`, external) and `hw_fence_rm_cb` (`AssignMem`,
`AllocDescriptors`, `ShareMem`, or `IgnoreEvent`), and the client drivers that a device tree
has, each with the steps of `msm_hw_fence_register`: `StartRegister` under the lock, `SetUp`
for ipc ids and queues, `InitSignal` and `EnableDpuSignaling`, `Cleanup` for an error or a
deregistration. `"oops"` is an access to memory that is not there: a table of clients or of
rows that was never allocated.

### DebugFence

`dma` is the heap of `dma_fence` objects and arrays with their references, `table` the
hw-fences. `PutFence` puts references and does what the last one causes: an array puts its
fences, a fence that has the bit and a handle destroys one hw-fence with its context and
sequence number (`hw_fence_dbg_release`). The writes to debugfs are threads (`Writers`) whose
steps end where another thread can tell: the lookup of a node, the registration and the
insertion of the node (`RegisterWrite`, `RegisterDebugClient`, `AddNode`), loads and stores of
shared sequence numbers, every create, wait and destroy of the tx simulation (`StartTx` to
`TxDestroy`), every child of the join simulation. An ioctl is a program counter of its
validation file: `IoctlCreateFence`, `InstallFd`, `StartArray`, `GetMember` for each fd in
turn (with the exits for an fd that is not positive and for one that is no fence), `CreateArray`
with each of its failures, `StartWait`, `EndWait`. `IoctlDestroy` puts a reference and leaves the
fd. `CloseFd` may come at any time, as fds belong to the process and not to a file. `owed`, a
history variable of a fence, counts the references that such paths left, less those they put too often, so
that an equation can be stated. `abandoned` is a history variable: the hw-fences that a join
simulation leaves.

## 3. The runs

`TypeOK` of each module also says what its comment adds to the types (a reservation
belongs to a store in progress, no count is below zero, a freed slot is clear). Where a
module has an invariant that relates the same variables, `TypeOK` is its first conjunct
and is checked with it.

| run (cfg) | states | shows |
|---|---|---|
| `lock` (`MCInterVmLock`) | 23k | two CPUs, the SVM, a child lock and the join lock nested in it: one owner (the first conjunct of `LockInv`), no missed wakeup, the SVM goes first, the words implement `SharedLock`, and CPUs and the SVM get what they wait for once no new requests arrive |
| `queue` (`HwFenceQueue`) | 587k | an Rx queue with two writers, a Tx queue with one, a Tx queue whose write index the client moves, each with a reader and a reset that meets no read: a FIFO; a result of 1 means that a payload is left |
| `table` (`MCHwFenceTable`) | 850k | four fences of two clients, three of them with the same home, in three slots: implements `FenceRegistry`, handles name their fence, no fence is lost behind a hole |
| `wait` (`MCHwFenceWait`) | 174k | waits for fences; arrays `<<f1, f2>>` and `<<f2, f1>>`; arrays refused for a plain child or a child with its maximum of parents; resets with and without error and destruction, at any time; one of three clients has a data id: no signal is missed, counts are exact, an array is told once and in time, the data told is what was passed (or, for a client that passes none, that of a client before it), a refused array leaves nothing behind, a reset tells the waiters and touches nobody else, every waiter is served |
| `spec` (`MCSpecSync`) | 924k | two processes that create, bind and close an any- and an all-array of two fences, a waiter: arrays signal as asked while they are tracked, waiters see bound fences, references exact, those of the dummy fence included, no orphaned any-array |
| `extdisp` (`MCExtDisplay`) | 326 | two displays of one type, one of another, a codec that may be late |
| `validation` (`ValidationClient`) | 86k | two files that want one id, three client objects, failing registrations, doorbells at any time: a client is used by the file it belongs to and not after it was freed; a payload that came since the last read is announced by the flag or a doorbell; a wait without a timeout whose doorbell is raised returns |
| `probe` (`MCDriverProbe`) | 162k | 22 device trees: chips of three ipc versions with different drivers, and trees with a property that is zero, out of range, too large for the memory or for 32 bits; two faults and two probes, the peer and the clients at any time: regions are disjoint and within the memory; registered clients have ids, interrupts and lock words of their own and the row of their type; display clients can be signalled, or the first of them is still enabling the signals; a peer that keeps becoming ready gets it |
| `debugfs` (`MCDebugFence`) | 755k | two writers, or two files of one process: a client has one debugfs node; a fence has exactly the references of those that may use it, and of what each failing call and each destroy owes it; no hw-fence is left without what backs it; a hw-fence stays until its fence is released or its client is reset |

Three runs find a disagreement between a comment of the repository and the code.
Each checks one property that states the comment, and `PROJECT.json` quotes it under
`findings`.

| run | the code |
|---|---|
| `wait_hole` | the undo of an array leaves a hole in `parent_list` and hides the parent behind it |
| `wait_error` | an array whose fences are all signalled already is told with the client's data as its error |
| `probe_ready` | a property that is zero, or an unknown ipc version, ends with `resources_ready` and without the tables that a registration uses |

Some properties pass because they say what the code does where a reader would expect more:

- `ClientDataReturned`: a reset that tells a client without a data id gives it the data of a
  client before it in the loop, as `client_data` is set to 0 once, before the loop
  (`priv.c:1421`), and only five clients have data ids (`priv.c:1522-1545`); `priv.h:402`
  promises each client its own;
- `ResetTellsWaiters` is about clients whose bit was set when the reset looked at it and is set
  still: one that registers behind the loop is not told before its fence is destroyed (`priv.c:1505`);
- `DpuSignalled` admits a display client that is registered while the first one is still
  enabling the signals (`priv.c:600`);
- `RefsExact` of `DebugFence` has a term `owed`: a destroy puts a reference that the close of the
  fd puts again (`ioctl.c:335-341`); a copy to the process that fails, or an array for which no
  sync_file can be made, puts one too many (`ioctl.c:302, 422, 434`); with a bad fd
  `_put_child_fences` puts the last fence for each of the others (`ioctl.c:351`), and an fd that is not
  positive puts none of them (`ioctl.c:387-390`);
- a probe that is deferred after it registered the notifier is run again and clears memory that
  the peer has (`hw_fence.c:519`, `utils.c:492`): the model has it and no property forbids it.

What else the models show when a restriction of the next section is lifted. No run is
kept for these, a reader can repeat each by changing one line of a cfg:

- a reader that stores `read_index` after a reset of the Rx queue brings old payloads
  back (`priv.c:1473`; `QuietReset = FALSE` in `HwFenceQueue.cfg`);
- two concurrent binds of one array put the references of the dummy fence twice
  (`sync_file.c:378`; `OneBinder = FALSE` in `MCSpecSync.cfg`).

Some more are choices of the properties: a create notices an equal pair only before
the first free slot (`priv.c:936`; the fences of `table` have distinct pairs); the last
of `MSM_HW_FENCE_MAX_JOIN_PARENTS` entries of `parent_list` is never used
(`priv.c:1280`); an array that the last close signals is told before its fences have
signalled, or never (`sync_file.c:119`; `SignalsAsAsked` is stated of tracked arrays);
the wait ioctl of a validation file that drains its queue without a match returns 0, which is
also the value of success (`ioctl.c:620`; `WaitReturns` only says that it returns); a join
simulation leaves its hw-fences in the table (`debug.c:883`; `HwFencesAccounted` excepts them); a
peer that is reset after it got the memory leaves `vm_ready` set, and is refused when it is ready
again (`utils.c:431`; `ShareRetried` says that it gets the memory once).

### Restrictions

- `QuietReset`: no read overlaps a reset in the run `queue`. The code does not enforce it. In
  `wait` resets overlap every other call; the constant is there for `NoDangling` of section 4.
- `OneBinder`: no two binds of one array overlap. Nor is this enforced.
- `Orderly`: no display call overlaps the registration of the codec, and a display
  disconnects before it deregisters. `msm_ext_disp_ready_for_display` runs without
  the mutex, so the code relies on its callers for it.
- `ClientDataReturned` is about waits for single fences: the data of an array is stored after
  its children were linked (`priv.c:1306`).
- No plan of `wait` combines an array with a reset that destroys its child: such an array waits
  for ever (`priv.c:1515` counts nothing down), and no text says what should become of it.
- In `wait` a refused array has no child in common with an array that is not refused
  in the same behaviour; `wait_hole` is the case in which it has.
- A validation file has one thread and uses no handle it gave back. In `debugfs` its process
  gives its fences sequence numbers that none of them has (the writers do load equal ones),
  puts no array into an array, and no fence is off by more than `MaxOwed` references: what
  happens to memory that is freed under a user is undefined.
- The fences of `table` have distinct pairs, so that a create never meets an equal pair behind a
  free slot (`priv.c:936`); a client makes one call at a time, so that nobody frees the slot
  between the two reads of a destroy by handle (`priv.c:1037`).
- `TotalSize < U32` in `RegionsDisjoint`: the sum of all regions fits into 32 bits. Each size is checked
  by the code, the sum is not (`utils.c:715`), and without the premise the property fails.
- `NoGap` in `ClientSetUp`: no static client type with an Rx queue comes after one that the
  device tree leaves out. The lock words are counted and then indexed by id
  (`utils.c:678`): with a VPU and no IPE the words of the VPU lie behind the counted ones, in the table.
- `Casts`: writers and files do not run in one behaviour; they share nothing but slots of the table.

### Bounds

Two CPUs suffice for a race between exclusive stores, and the SVM is the third party; two locks
for the nesting. A ring of three entries holds two payloads, so that it is empty, half full and
full; five writes go round it once and more and a reset falls anywhere. Three slots for four
fences make the table overflow, and with three fences of one home every probe collides and
wraps. Two fences in two arrays in opposite orders are the least in which a child has two
parents and an array a child that is signalled and one that is not. Three clients are needed
for a reset that tells two waiters, and the second has the data id, so that there is a client
without one before it and one behind it in the loop. Each process binds once (`MaxBinds`): with two processes a
second bind of a bound array is among the behaviours. In `probe` a unit is 1/256 of the address
space, so that a size overflows, an offset wraps and a page is still eight units; seven client
types, two of them configurable with two ids each, give every distance between external and
internal ids; two faults let a callback fail and the probe after it. In `debugfs` two threads
are the least for a race on a list or a counter; three objects are two fences and the array
over them (of one or two fences, with a failure after either), three slots leave one free for a fence that is created while another is released.
One id and three client objects let a client be freed, allocated again and found by a late
doorbell. `MaxWrites`, `MaxResets`, `MaxWaits`, `MaxBinds`, `MaxDevices`, `MaxProbes`,
`MaxFaults`, `MaxFences`, `MaxSeqno`, `MaxOfFile`, `MaxArray`, `MaxOwed` and `Plans` (what the clients of
`wait` ask for, each thing once) are the only bounds on behaviours; where they let a model
stop, the cfg says `CHECK_DEADLOCK FALSE`. The lock, table and external display runs have no
such bound and check deadlock.

### Fairness

- Lock: a CPU runs with preemption off from the start of a lock to the end of its
  unlock, hence weak fairness of its instructions and of the unlock; strong
  fairness of the two store-exclusives, since the architecture lets a store that is
  retried for ever succeed in the end. The SVM wakes for an interrupt and gives its
  lock back. Liveness is claimed under `<>[][~NewRequest]_vars`: the loops of `_lock`
  have no queue, a CPU may be overtaken as long as others keep asking.
- Waits: a call that started runs on (weak fairness of its steps), and the producer of
  a fence signals it (weak fairness of `CtlSignal`), which is the contract of dma-fences.
- Validation: threads run on and a doorbell that is raised is taken.
- Probe: a probe and a callback that started run on. That the peer comes back is not assumed: it is
  the premise of `ShareRetried`, and so is that no callback ran out of memory
  after it had assigned the memory.
- Debug fences: no liveness is claimed.

## 4. What is proved

Every theorem holds for every value of the constants that the named assumption of its
module admits (any number of clients, fences, slots, entries, arrays of any length).
Where a hypothesis is more than that, the table names it; it is one of the restrictions
of section 3, or what the framework around the driver promises. "inv." marks an
inductive invariant, which TLC was asked about on the instance of the run before it was
proved.

| module | theorem | property | hypothesis |
|---|---|---|---|
| `InterVmLockProofs` | `TypeCorrect` | `TypeOK` | |
| | `LockInvariant` (inv.), `Exclusion` | `LockInv`, `MutualExclusion` | |
| | `WakeupNotMissed` | `NoMissedWakeup` | |
| | `SvmFirst` | `SvmGoesFirst` | |
| | `Refinement` | `ImplementsSharedLock` | |
| `HwFenceQueueProofs` | `TypeCorrect` | `TypeOK` | |
| | `QueueInvariant` (inv.) | `QueueInv` | `QuietReset` |
| | `MoreMeans` | `MoreMeansMore` | `QuietReset` |
| | `Refinement` | `ImplementsFifo` | `QuietReset` |
| `HwFenceTableProofs` | `TypeCorrect` | `TypeOK`, a found slot names its fence | |
| | `TableInvariant` (inv.) | `TableInv` | `DmaFencesUnique` |
| | `HandleStays` | `HandleNamesFence` | `DmaFencesUnique` |
| | `NothingLost` | `NoFenceLost` | `DmaFencesUnique` |
| | `Refinement` | `ImplementsRegistry` | `DmaFencesUnique` |
| `HwFenceWaitProofs` | `TypeInvariant`, `WaitInvariant` (inv.) | `WaitType`, `WaitInv` | |
| | `SignalHeard` | `NoSignalMissed` | |
| | `DataReturned` | `ClientDataReturned` | |
| | `WaitersTold` | `ResetTellsWaiters` | |
| | `OthersKept` | `ResetKeepsOthers` | |
| | `JoinInvariant` (inv.), `TypeCorrect` | `JoinInv`, `TypeOK` | |
| | `NoDangling` | `NoDanglingParent` | `QuietReset` |
| | `ExactInvariant` (inv.) | `ExactInv` | `[]Undisturbed` |
| | `PendingIsExact` | `PendingExact` | `[]Undisturbed` |
| | `JoinIsExact` | `JoinExact` | `[]Undisturbed` |
| `ValidationClientProofs` | `TypeCorrect` | `TypeOK` | |
| | `ClientInvariant` (inv.), `OneOwner` | `ClientInv`, `OwnClient` | |
| | `FreedNotReached` | `NoFreedClient` | |
| | `PayloadsTold` (inv.) | `PayloadsAnnounced` | |
| `SpecSyncProofs` | `TypeInvariant`, `SyncInvariant` (inv.) | `SyncType`, `SyncInv` | |
| | `BoundHolds` | `BoundForWaiters` | |
| | `NoneOrphaned` | `NoOrphan` | |
| | `AskInvariant` (inv.), `SignalsAsked` | `AskInv`, `SignalsAsAsked` | `OneBinder` |
| | `RefsInvariant`, `DummiesInvariant` (inv.) | `RefsInv`, `DummiesCounted` | `OneBinder` |
| | `RefsHold` | `RefsExact` | `OneBinder` |
| `DriverProbeProofs` | `ProbeInvariant` (inv.), `ProbeTypes` | `ProbeInv`, `TypeOK` | |
| | `IdsDiffer` | `ClientIdPriv` is one-to-one | an accepted description |
| | `ClientsSetUp` | `ClientSetUp` | |
| | `QueuesFit` | a client's queues fit in `MemSize` | an accepted description |
| | `MemoryDisjoint` | `RegionsDisjoint` | |
| | `DpuInvariant` (inv.), `DisplaySignalled` | `DpuInv`, `DpuSignalled` | |
| `ExtDisplayProofs` | `TypeCorrect`, `BrokerInvariant` (inv.) | `TypeOK`, `BrokerInv` | |
| | `LateCodec` | `LateCodecHeard` | |

The assumptions on constants say that names are different (`Nobody` is no writer), that
functions have their domains, and: a table and a ring have an entry, an array has a fence and
finitely many of them, there is a last client id (the loop over all clients of a reset ends at
`HW_FENCE_CLIENT_MAX`), there is a client id (`ValidationClient`). `SpecSync` has finitely many
processes, waiters, arrays and fences, which makes a number of references a number. `MemLayout`
and `DriverProbe` assume of the macros, of `hw_fence_client_types` and of the ipc tables what
the source says of them: types are in the order of their ids and do not overlap, static types
first; the types with an Rx queue follow on each other; every chip's table has a row for each
static id and one for each configurable type, no two static clients of a table have one
interrupt; the display has all its rows in a table or none; the words of all clients take less
than 2^32 bytes. Device trees are arbitrary naturals. TLC evaluates the assumptions on every
run.

**Lock.** Mutual exclusion is not inductive: that a CPU whose store succeeds
may own the lock depends on the word being zero *now*, and the CPU only knows that
it was zero when it loaded it. `LockInv` adds the two facts that close the gap: while
the monitor is set, the register holds what the word holds (every other store clears
the monitor), and the bits of the word say exactly who holds or awaits the lock. A
store that succeeds on a zero word then finds no owner. `NoMissedWakeup` is inductive
relative to `LockInv`: an owner that releases goes to `check`, where it will read the
bit of the sleeping SVM, and an SVM falls asleep only while bit 0 is set, so while
there is an owner. For the refinement, `OneOwnerChanges` and `OwnerUnchanged` say how
`Owner` moves when `held` does, and each step is an `Acquire`, a `Release` or a stutter.

**Queue.** Nobody reads both indexes at one moment, so every thread works with values that may
be old. `QueueInv` says in which direction they are old: a writer's read index leaves at least
as much room as it thinks (`WriterSees`), what a reader saw is still there and more may have
come (`ReaderSees`), a reset's index leads into the queue (`ResetSees`), and the write pointer
has one owner (`OneWriter`), which on an Rx queue is the owner of the lock. All are statements
about distances round the ring; the lemmas about them (`Distance` after a step, after another
index moved) carry the arithmetic modulo `Entries`. The sequence between the indexes is
described by position (`Held`), so that a write appends to it, a read takes its head and
nothing else changes it: the steps of `BoundedFifo`. `QuietReset` is needed: a reader that has
read its index before a reset and stores it after it moves `read_index` back.

**Table.** That no pair is in two slots, on which the other theorems rest (`Unique`), needs two things. `Placed`: a fence is only in the slot that its
handle names or in the slot reserved by the one create under way. `CallsKnown`: the bit of the
dma-fence, which the code tests and sets outside of any lock, tells a create from a second
create, because only the client that owns a fence creates it. `DmaFencesUnique` (a context and
a sequence number name one dma-fence, the contract of `dma_fence_init`) is necessary: a create
stops at the first free slot and does not look for its pair behind it. Uniqueness is therefore
an assumption about fences carried over to slots, and not listed as a result. `SearchInv`, for
`NothingLost`, is about the search of a destruction: a probe has gone as far from the home slot
as it has made steps, and the fence is in none of the slots it has passed, whatever other
callers did to them meanwhile; when it gives up after `Entries` probes the fence is in no slot.

**Waits and resets.** `SignalHeard` needs no hypothesis: a waiter that was not told of a signal
is still before `CheckFlag` or about to signal itself. The one step that could take a message
back is the last of a client's own reset, which empties its Rx queue; by then the client waits
for nothing (`ResetClears`: at most for the fences that the reset has still to come to).
`DataKept` says whose data a slot can hold and `DataCarried` whose the local of the loop, for
`DataReturned`. `WaitersTold` follows the loop over the clients (`ToldSoFar`): who was in the mask
at its start and is in it still, and lies before the client it is at, has been told; a client
that registers meanwhile is not among them.
`OthersKept` is an action property: which fields of a slot each step of a reset may change.

**Join fences.** The driver and the controller both count `pending_child_cnt` down, so that no
step by itself shows that it stays above zero. `Counted` relates it to cardinalities: it is at
least the number of entries in `parent_list`s that can still be signalled and name it (`Live`),
and during a call also the children the call has still to look at. It is an inequality: a
controller that drops an entry without counting leaves the count too high, which is what
`wait_hole` shows. `EntriesWalked` bounds where these entries may be, so that an undo that has
visited the children of its call leaves none: `NoDangling`. With a reset in between it would
not hold: a child that is reset between `FindChild` and `LinkChild` gets the entry into a slot
that is free, and the undo passes a slot that it cannot find.

The equations need a hypothesis: an undo may leave a hole in the list of a child that others
share, the parent behind the hole is counted down by nobody, and a reset clears flags that were
counted already. `Undisturbed` says that no call is undoing an array or resetting; the theorems
are about behaviours in which it always holds, with any number of clients, fences, arrays that
cross and signals between any two steps. `OpenCounted` makes `Counted` an equation: an array
counts the children that are not signalled and those that its call has still to look at. It is
inductive with `EntriesMatch` (a fence that is not signalled has as many entries for an array
as the array's call has linked children that are this fence), `FencesStay`, `FlagAtZero` and
`OneOwner` (the one call that has the array). `ToldAtZero`, `ToldOnce` and `WaitersHear` follow
the message: whoever counts to zero, the driver or the controller, signals, and only one of
them counts to zero.

**Validation clients.** `OwnClient` alone does not survive a deregistration: that no other file
has the object follows from `PointerOwned` (each pointer in the table is the handle of a file
that has not unlinked it) and `HandleLives` (the object of a file lives, as only that file
frees it). `PayloadsAnnounced` is inductive relative to it (`ToldStep`): the doorbell finds the
object of the one file that has the id, so it sets the flag that this file will test, and the
only step that clears the flag is followed by the read.

**Fence arrays.** For the waiters: a bind that is past its children has replaced every dummy,
the bit `bound` is set only of a `Settled` array, and no step unsettles an array (`Older` lists
what no step takes back). For `NoOrphan`: an array of the kind "any" that is not bound signals
at the first count-down (`FreshAny`), and the last close counts down what is in the list, so
the list must hold it (`Listed`). These hold with overlapping binds too. `SignalsAsked` is
about when an array counts: `CountsWell` tells an array nothing has counted (`Uncalled`), one
that its binder is about to enable, and one that has a callback for each child still to signal
and waits for as many (`Armed`). That enabling leads from the second to the third, with some
children signalled already, is `ArmedByEnable`; it needs that the walk over the children, which
stops when the count is zero, reaches a signalled child if there is one (`ReachedIs`, by the
least such child). That a signal keeps the third is `ArmedByUser`. `OneBinder` is needed: a
second bind finds the children replaced, or replaces them under the first.

`RefsExact` is an equation between a count and the number of those who hold a reference, and
every step moves one of its sides or both. `RefsInv` splits the users of an array into the
list, the descriptor, the calls, the armed callbacks and the waits (`RefsCounted`), says where
callbacks can be armed (`Unarmed`), and that nobody holds an array that was not created
(`NewUnused`). A step adds or takes one element of one of these sets (`OneOf`, `OneApart`), and
the lemma about the step names which. The dummy fence is counted over two dimensions, arrays
and their slots; `DummiesCounted` takes the slots of one array out of the sum. Where a bind
fails half-way, the slots already replaced are those for which the code has put the dummy.

**Probe, layout and registration.** `LaidOut` says at which stage of the probe which field
holds what the device tree gives, and that it stays so: the steps of clients, of the peer and
of the callback touch three fields of the driver data (`Still`). `ClientInv` follows a
registration: it has its entry in the clients table before it looks at its ipc row and its
queues, and a ready driver is never laid out again. `ClientSetUp` is then about operators only:
an internal id is the place of a client among those configured (`IdsDiffer`, by `CountBefore`:
the clients of a type come after those of the types before it), and the number of lock words is
enough up to the first gap (`LocksSuffice`, by `UpTo`). What the code adds up in loops is
`MapThenSumSet` in the model; its recursive function is chosen with `CHOOSE`, so that
existence, uniqueness and independence of the order are proved first (`IterExists`,
`IterAgree`, `IterSums`), and the rest uses `Sum` through `SumOf`, `SumSubset` and `SumAdd`.
`MemoryDisjoint` needs that nothing wraps: each parser check is a comparison with a quotient,
which `Below` turns into a bound on the product; the sum of the clients below an id and of its
own memory is at most the sum of all (`StartIs`), so one client ends where the next begins.
`DpuInv` says that the flag is set while a display client enables the signals and once one is
registered, and that the signals are all enabled when the flag is set and nobody is at it.

**Audio bridge.** `Remembered` is what makes a late codec hear of a display: a selection
without a codec sets `update_audio`. `OpsFollowCodec` stays with TLC: it holds of callers that keep an order
(`Orderly`) that the code does not enforce, as the display found by the registration can be
disconnected before its operations are copied.

Only model-checked:

- Liveness, which needs fairness and `ENABLED`: the lock's, `WaiterServed`, `WaitReturns`,
  `ShareRetried`.
- `DebugFence`: `OneNode`, `RefsExact`, `HwFencesAccounted` and `KeptUntilRelease`. A fence's
  references are held by threads, nodes, descriptors and arrays at many program counters; the
  sum is checked on two writers or two files.
- `OpsFollowCodec` (see above).
- `ErrorIsReal`, `ParentsListed` and `ReadyMeansResources` are violated (section 3).

## 5. What is left out

- *Not modelled:* IPCC register addresses and triggering; removal of the driver, which frees its
  data whoever uses it; debugfs nodes that trigger signals or format the table, the queues
  and the events (`debug.c:525-735`), which change no state of the driver; loopbacks of the DPU and GFX
  (except that of validation clients), which drain a queue as the reader of `HwFenceQueue`
  does; the ioctl that signals a fence, which is a write to the Tx queue; switch and platform devices,
  build files. They are I/O or formatting.
- *Abstracted:* payloads are model values with the client data, error and key that
  properties compare; the 64-bit hash is the home slot it gives; memory barriers
  make the shared memory sequentially consistent, as the code's `mb`, `wmb` and the
  acquire load of the lock intend; a full Rx queue does not occur in `HwFenceWait`.
- *External:* the fence controller, the peer VM with its resource manager and hypervisor,
  `dma_fence` and `dma_fence_array`, clients that move their own write index. They are modelled
  from how the code uses them, and no definition about them is claimed to be theirs.

## 6. Plan

Done: the core of `hw_fence` (lock, queue, table, waits), its validation clients, its
probe with layout and ids, its debug fences, the two other kernel modules, and the
theorems of section 4. Next:

1. Proofs about `DebugFence`: `OneNode` (invariant: a thread past the registration is the only one with
   its id), `KeptUntilRelease`, and its references, one kind of holder at a time as in `SpecSyncProofs`.
2. Composition of `HwFenceTable` with `HwFenceWait`, so that a slot found by hash can be
   taken by another fence before it is locked (`priv.c:1360-1367`), and of the wait with
   bounded Rx queues, so that a full queue refuses a signal (`priv.c:1119`).
3. The lifetimes of clients together with resets (`priv.c:1426`, `hw_fence.c:419`).
