----------------------------- MODULE DebugFence -----------------------------
(***************************************************************************)
(* Fences that hw-fence itself makes, for debugging: the debugfs nodes     *)
(* that register clients and simulate fences (hw_fence_drv_debug.c), and   *)
(* the ioctls of the validation device that hand fences and arrays to a    *)
(* process as file descriptors (hw_fence_ioctl.c).  Both back a dma_fence  *)
(* with a hw-fence, which the release of the dma_fence destroys.           *)
(*                                                                         *)
(* The table of hw-fences is abstract: any free slot, see HwFenceTable.    *)
(* Signals and waits are in HwFenceWait; a join fence lives in the table   *)
(* only there.  Validation files are registered (ValidationClient) and stay *)
(* so, each is used by one thread, all belong to one process, which numbers *)
(* its fences: no seqno is that of a fence it still has.                    *)
(*                                                                         *)
(* Some exits of the ioctls put a fence too often or not at all.  What a    *)
(* use of a released fence does is undefined; here its references are       *)
(* counted on, below zero, its memory is not used again while anything      *)
(* points to it, and its fd is only closed.                                 *)
(***************************************************************************)
EXTENDS Integers, Sequences, FiniteSets, SequencesExt

CONSTANTS Casts,        \* who takes part: writers, files, and the files that make arrays
          Writers,      \* threads that write to debugfs nodes
          Files,        \* validation files; also their fence contexts
          Ids, Src, Dst,    \* ids for debug clients; CTL0 and CTL1 simulate
          Slots,        \* of the table of hw-fences
          MaxFences,    \* bound: dma_fence objects
          MaxSeqno,     \* bound: sequence numbers of the simulations
          MaxOfFile,    \* bound: fences of a file at a time
          JoinSize,     \* num_fences of the join simulation
          MaxArray,     \* bound: fences of an array of the ioctl
          MaxOwed,      \* bound: references of a fence put too often, or never
          Faults,       \* what may fail: <<"fence" or "array", the call>>
          None

ASSUME DebugAssumption ==
    /\ MaxFences \in Nat /\ MaxSeqno \in Nat /\ MaxOfFile \in Nat /\ JoinSize \in Nat \ {0}
    /\ MaxArray \in Nat /\ MaxOwed \in Nat
    /\ {Src, Dst} \subseteq Ids
    /\ Faults \subseteq {"fence", "array"} \X {"create", "fd", "file", "copy"}
    /\ None \notin Ids \cup Files

VARIABLES cast,         \* who takes part, never changed
          table,        \* hw-fences: (context, seqno) and allocator
          dma,          \* dma_fences and arrays
          registered,   \* debug ids in drv_data->clients
          nodes,        \* debugfs_data.clients_list
          seqnoCnt,     \* seqno_cnt of a node, by its context
          dbgSeqno,     \* hw_fence_dbg_seqno
          writer,       \* what each debugfs write does next
          fds,          \* dma_fences the process has an fd for
          file,         \* what each ioctl does next
          abandoned     \* pairs of hw-fences that a join simulation left behind

debugVars == <<registered, nodes, seqnoCnt, dbgSeqno, writer, abandoned>>
fileVars == <<fds, file>>
vars == <<cast, table, dma, debugVars, fileVars>>

Free == [key |-> None, by |-> None]
\* owed is a history variable: references that an exit did not put, less those
\* that an exit put without having them.
Unused == [state |-> "unused", key |-> None, refs |-> 0, enabled |-> FALSE, handle |-> None,
           kids |-> <<>>, owed |-> 0]
IdleWriter == [pc |-> "idle", id |-> None, ctx |-> 0, seqno |-> 0, x |-> 0]
IdleFile == [pc |-> "idle", x |-> 0, got |-> <<>>]

Init ==
    /\ cast \in Casts
    /\ table = [s \in Slots |-> Free]
    /\ dma = [x \in 1..MaxFences |-> Unused]
    /\ registered = {} /\ nodes = {}
    /\ seqnoCnt = <<>>
    /\ dbgSeqno = 1
    /\ writer = [w \in Writers |-> IdleWriter]
    /\ fds = {}
    /\ file = [f \in Files |-> IdleFile]
    /\ abandoned = {}

-----------------------------------------------------------------------------
(* hw-fences: msm_hw_fence_create, hw_fence_destroy *)

\* KeyMatches compares both; OnlySeqno is a plausible mistake.
OnlySeqno(s, key) == table[s] # Free /\ table[s].key[2] = key[2]
KeyMatches(s, key) == table[s] # Free /\ table[s].key = key
Found(key) == {s \in Slots : KeyMatches(s, key)}

\* A pair that is in the table already is refused when the probe meets it first,
\* and taken when it meets a free slot before.
Reserve(key, by) == \E s \in Slots : table[s] = Free /\ table' = [table EXCEPT ![s] = [key |-> key, by |-> by]]
Refuses(key) == Found(key) # {} \/ \A s \in Slots : table[s] # Free

\* hw_fence_utils_cleanup_fence for each of the client's; it keeps the dma_fences.
WithoutFencesOf(id) == [s \in Slots |-> IF table[s].by = id THEN Free ELSE table[s]]

(* dma_fences: references and hw_fence_dbg_release *)

Live(x) == dma[x].state = "live"
Times(x, seq) == Cardinality({i \in DOMAIN seq : seq[i] = x})

\* Who has a reference to a fence, or thinks so.
HeldByWriters(x) == Cardinality({w \in Writers : writer[w].pc \in {"create", "load", "store", "join", "joinPut"}
                                                /\ writer[w].x = x})
HeldByFiles(x) == Cardinality({f \in Files : file[f].x = x})
                  + MapThenSumSet(LAMBDA f : Times(x, file[f].got), Files)
HeldByArrays(x) == MapThenSumSet(LAMBDA y : Times(x, dma[y].kids), DOMAIN dma)
HeldByFd(x) == IF x \in fds THEN 1 ELSE 0
Holders(x) == HeldByWriters(x) + HeldByFiles(x) + HeldByArrays(x) + HeldByFd(x)

Fresh == {x \in DOMAIN dma : ~Live(x) /\ Holders(x) = 0}
Enough(n) == Cardinality(Fresh) >= n
New == Min(Fresh)
NewFence(key) == [Unused EXCEPT !.state = "live", !.key = key, !.refs = 1]

Get(x) == dma' = [dma EXCEPT ![x].refs = @ + 1]

\* The last reference of an array puts its fences.
WithMembers(n) ==
    LET ends == {x \in DOMAIN dma : Live(x) /\ dma[x].refs <= n[x]}
    IN  [y \in DOMAIN dma |-> n[y] + MapThenSumSet(LAMBDA x : Times(y, dma[x].kids), ends)]
Only(x, n) == [y \in DOMAIN dma |-> IF y = x THEN n ELSE 0]
Each(seq) == [y \in DOMAIN dma |-> Times(y, seq)]

\* What is released with its hw-fence: it needs the bit and the handle of a client.
\* LeavesHwFence is a plausible mistake.
LeavesHwFence(x) == FALSE
DestroysHwFence(x) == dma[x].enabled /\ dma[x].handle # None

\* A released fence: its account is closed when nobody counts on a reference.
Released(refs, owed) == IF refs = owed THEN Unused ELSE [Unused EXCEPT !.refs = refs, !.owed = owed]

\* dma_fence_put of each fence n[x] times, owed[x] times less than the caller had
\* to; below 0 it has been put too often.  hw_fence_dbg_release destroys a hw-fence
\* for each fence that is released with one.
Bounded(owed) == \A x \in DOMAIN dma : dma[x].owed + owed[x] \in (0 - MaxOwed)..MaxOwed
PutOwing(n, owed) ==
    LET puts == WithMembers(n)
        left(x) == dma[x].refs - puts[x]
        debt(x) == dma[x].owed + owed[x]
        ended == {x \in DOMAIN dma : Live(x) /\ left(x) <= 0}
        gone == {dma[x].key : x \in {y \in ended : DestroysHwFence(y)}}
    IN  /\ Bounded(owed)
        /\ dma' = [x \in DOMAIN dma |->
                      IF left(x) <= 0 THEN Released(left(x), debt(x))
                      ELSE [dma[x] EXCEPT !.refs = left(x), !.owed = debt(x)]]
        /\ \E S \in SUBSET UNION {Found(key) : key \in gone} :
              /\ \A key \in gone : Cardinality(S \cap Found(key)) = Min({1, Cardinality(Found(key))})
              /\ table' = [s \in Slots |-> IF s \in S THEN Free ELSE table[s]]
PutFence(x) == PutOwing(Only(x, 1), Only(x, 0))
PutAgain(x, extra) == PutOwing(Only(x, 1 + extra), Only(x, 0 - extra))

-----------------------------------------------------------------------------
(* hw_fence_dbg_register_clients_wr, hw_fence_dbg_reset_client_wr *)

Does(w, pc) == w \in cast.writers /\ writer[w].pc = pc
Continue(w, pc) == writer' = [writer EXCEPT ![w].pc = pc]
Done(w) == writer' = [writer EXCEPT ![w] = IdleWriter]
Nodes(id) == {n \in nodes : n.id = id}

\* _get_client_node finds none: "we cannot create same debug client twice".
RegisterWrite(w, id) ==
    /\ Does(w, "idle") /\ Nodes(id) = {}
    /\ writer' = [writer EXCEPT ![w] = [IdleWriter EXCEPT !.pc = "register", !.id = id]]
    /\ UNCHANGED <<cast, table, dma, registered, nodes, seqnoCnt, dbgSeqno, abandoned, fileVars>>

\* msm_hw_fence_register.  RegistersAgain is a plausible mistake.
RegistersAgain(id) == TRUE
IdFree(id) == id \notin registered

RegisterDebugClient(w) ==
    /\ Does(w, "register")
    /\ IF IdFree(writer[w].id)
       THEN /\ registered' = registered \cup {writer[w].id}
            /\ seqnoCnt' = Append(seqnoCnt, 0)
            /\ writer' = [writer EXCEPT ![w].pc = "add", ![w].ctx = Len(seqnoCnt) + 1]
       ELSE Done(w) /\ UNCHANGED <<registered, seqnoCnt>>
    /\ UNCHANGED <<cast, table, dma, nodes, dbgSeqno, abandoned, fileVars>>

AddNode(w) ==
    /\ Does(w, "add")
    /\ nodes' = nodes \cup {[id |-> writer[w].id, ctx |-> writer[w].ctx]}
    /\ Done(w)
    /\ UNCHANGED <<cast, table, dma, registered, seqnoCnt, dbgSeqno, abandoned, fileVars>>

ResetClientWrite(w, n) ==
    /\ Does(w, "idle")
    /\ table' = WithoutFencesOf(n.id)
    /\ UNCHANGED <<cast, dma, debugVars, fileVars>>

-----------------------------------------------------------------------------
(* hw_fence_dbg_create_wr *)

NewDebugFence(w, n) ==
    /\ Does(w, "idle") /\ dbgSeqno <= MaxSeqno /\ Enough(1)
    /\ dma' = [dma EXCEPT ![New] = NewFence(<<n.ctx, dbgSeqno>>)]
    /\ writer' = [writer EXCEPT ![w] = [IdleWriter EXCEPT !.pc = "create", !.id = n.id, !.x = New]]
    /\ UNCHANGED <<cast, table, registered, nodes, seqnoCnt, dbgSeqno, abandoned, fileVars>>

CreateDebugFence(w) ==
    LET x == writer[w].x IN
    /\ Does(w, "create")
    /\ \/ /\ Reserve(dma[x].key, writer[w].id)
          /\ dma' = [dma EXCEPT ![x].enabled = TRUE]
          /\ Continue(w, "load")
       \/ Refuses(dma[x].key) /\ PutFence(x) /\ Done(w)
    /\ UNCHANGED <<cast, registered, nodes, seqnoCnt, dbgSeqno, abandoned, fileVars>>

\* hw_fence_dbg_seqno++ by threads that share it; then the handle is kept.
LoadDbgSeqno(w) ==
    /\ Does(w, "load")
    /\ writer' = [writer EXCEPT ![w].pc = "store", ![w].seqno = dbgSeqno]
    /\ UNCHANGED <<cast, table, dma, registered, nodes, seqnoCnt, dbgSeqno, abandoned, fileVars>>

StoreDbgSeqno(w) ==
    /\ Does(w, "store")
    /\ dbgSeqno' = writer[w].seqno + 1
    /\ dma' = [dma EXCEPT ![writer[w].x].handle = writer[w].id]
    /\ Done(w)
    /\ UNCHANGED <<cast, table, registered, nodes, seqnoCnt, abandoned, fileVars>>

-----------------------------------------------------------------------------
(* hw_fence_dbg_tx_and_signal_clients_wr *)

TxKey(w) == <<writer[w].ctx, writer[w].seqno>>

\* Both clients must have been registered through debugfs.
StartTx(w, n) ==
    /\ Does(w, "idle") /\ n.id = Src /\ Nodes(Dst) # {}
    /\ writer' = [writer EXCEPT ![w] = [IdleWriter EXCEPT !.pc = "tx", !.id = Src, !.ctx = n.ctx]]
    /\ UNCHANGED <<cast, table, dma, registered, nodes, seqnoCnt, dbgSeqno, abandoned, fileVars>>

\* The loop ends after the iterations asked for, or when create_hw_fences is cleared.
EndTx(w) ==
    /\ Does(w, "tx") /\ Done(w)
    /\ UNCHANGED <<cast, table, dma, registered, nodes, seqnoCnt, dbgSeqno, abandoned, fileVars>>

\* seqno_cnt++ of the node, shared by the writers.
LoadSeqnoCnt(w) ==
    /\ Does(w, "tx") /\ seqnoCnt[writer[w].ctx] < MaxSeqno
    /\ writer' = [writer EXCEPT ![w].pc = "txInc", ![w].seqno = seqnoCnt[writer[w].ctx]]
    /\ UNCHANGED <<cast, table, dma, registered, nodes, seqnoCnt, dbgSeqno, abandoned, fileVars>>

StoreSeqnoCnt(w) ==
    /\ Does(w, "txInc")
    /\ seqnoCnt' = [seqnoCnt EXCEPT ![writer[w].ctx] = writer[w].seqno + 1]
    /\ Continue(w, "txCreate")
    /\ UNCHANGED <<cast, table, dma, registered, nodes, dbgSeqno, abandoned, fileVars>>

TxCreate(w) ==
    /\ Does(w, "txCreate")
    /\ \/ Reserve(TxKey(w), Src) /\ Continue(w, "txWait")
       \/ Refuses(TxKey(w)) /\ Done(w) /\ UNCHANGED table
    /\ UNCHANGED <<cast, dma, registered, nodes, seqnoCnt, dbgSeqno, abandoned, fileVars>>

\* hw_fence_register_wait_client; if the hw-fence is not found the write ends here.
TxWait(w) ==
    /\ Does(w, "txWait")
    /\ IF Found(TxKey(w)) # {} THEN Continue(w, "txDestroy") ELSE Done(w)
    /\ UNCHANGED <<cast, table, dma, registered, nodes, seqnoCnt, dbgSeqno, abandoned, fileVars>>

TxDestroy(w) ==
    /\ Does(w, "txDestroy")
    /\ \/ /\ \E s \in Found(TxKey(w)) : table' = [table EXCEPT ![s] = Free]
          /\ Continue(w, "tx")
       \/ Found(TxKey(w)) = {} /\ Done(w) /\ UNCHANGED table
    /\ UNCHANGED <<cast, dma, registered, nodes, seqnoCnt, dbgSeqno, abandoned, fileVars>>

-----------------------------------------------------------------------------
(* hw_fence_dbg_create_join_fence *)

Kids(x) == Range(dma[x].kids)

\* The fences and the array over them, which takes their references.
StartJoin(w, n) ==
    /\ Does(w, "idle") /\ n.id = Src /\ Nodes(Dst) # {} /\ Enough(JoinSize + 1)
    /\ LET fresh == SetToSortSeq(Fresh, <)
           kids == SubSeq(fresh, 1, JoinSize)
           array == fresh[JoinSize + 1]
       IN  /\ dma' = [x \in DOMAIN dma |->
                        IF x = array THEN [NewFence(None) EXCEPT !.kids = kids]
                        ELSE IF x \in Range(kids)
                        THEN NewFence(<<n.ctx, CHOOSE i \in 1..JoinSize : kids[i] = x>>)
                        ELSE dma[x]]
           /\ writer' = [writer EXCEPT ![w] = [IdleWriter EXCEPT !.pc = "join", !.id = Src, !.x = array]]
    /\ UNCHANGED <<cast, table, registered, nodes, seqnoCnt, dbgSeqno, abandoned, fileVars>>

\* A hw-fence for each, in order; the handle of the client is not kept in them.
CreateJoinChild(w) ==
    LET todo == {k \in Kids(writer[w].x) : ~dma[k].enabled}
        x == Min(todo)
    IN  /\ Does(w, "join") /\ todo # {}
        /\ \/ /\ Reserve(dma[x].key, Src)
              /\ dma' = [dma EXCEPT ![x].enabled = TRUE]
              /\ UNCHANGED writer
           \/ Refuses(dma[x].key) /\ Continue(w, "joinPut") /\ UNCHANGED <<table, dma>>
        /\ UNCHANGED <<cast, registered, nodes, seqnoCnt, dbgSeqno, abandoned, fileVars>>

\* After the wait on the array, or after an error.
PutJoin(w) ==
    LET made == {k \in Kids(writer[w].x) : dma[k].enabled} IN
    /\ \/ Does(w, "joinPut")
       \/ Does(w, "join") /\ made = Kids(writer[w].x)
    /\ PutFence(writer[w].x)
    /\ abandoned' = abandoned \cup {dma[k].key : k \in made}
    /\ Done(w)
    /\ UNCHANGED <<cast, registered, nodes, seqnoCnt, dbgSeqno, fileVars>>

WriterStep(w) ==
    \/ \E id \in Ids : RegisterWrite(w, id)
    \/ RegisterDebugClient(w) \/ AddNode(w)
    \/ \E n \in nodes : ResetClientWrite(w, n) \/ NewDebugFence(w, n) \/ StartTx(w, n) \/ StartJoin(w, n)
    \/ CreateDebugFence(w) \/ LoadDbgSeqno(w) \/ StoreDbgSeqno(w)
    \/ EndTx(w) \/ LoadSeqnoCnt(w) \/ StoreSeqnoCnt(w) \/ TxCreate(w) \/ TxWait(w) \/ TxDestroy(w)
    \/ CreateJoinChild(w) \/ PutJoin(w)

-----------------------------------------------------------------------------
(* The ioctls that create fences and arrays *)

At(f, pc) == f \in cast.files /\ file[f].pc = pc
GoOn(f, pc, x) == file' = [file EXCEPT ![f] = [IdleFile EXCEPT !.pc = pc, !.x = x]]
Idle(f) == file' = [file EXCEPT ![f] = IdleFile]
IsArray(x) == dma[x].kids # <<>>
SeqnosOf(f) == {dma[x].key[2] : x \in {y \in DOMAIN dma : Live(y) /\ dma[y].handle = f}}

\* The process numbers its fences.  If the hw-fence is refused, so is the call.
IoctlCreateFence(f, seqno) ==
    /\ At(f, "idle") /\ seqno \notin SeqnosOf(f) /\ Enough(1)
    /\ Reserve(<<f, seqno>>, f)
    /\ dma' = [dma EXCEPT ![New] = [NewFence(<<f, seqno>>) EXCEPT !.enabled = TRUE, !.handle = f]]
    /\ GoOn(f, "fd", New)
    /\ UNCHANGED <<cast, debugVars, fds>>

StartArray(f) ==
    /\ At(f, "idle") /\ f \in cast.arrays
    /\ GoOn(f, "get", 0)
    /\ UNCHANGED <<cast, table, dma, debugVars, fds>>

\* The next of the fds that the process named; another ioctl may have closed it
\* by now (or reused it: an array of arrays, which is left out).
GetMember(f, x) ==
    /\ At(f, "get") /\ Len(file[f].got) < MaxArray
    /\ x \in fds /\ Live(x) /\ ~IsArray(x)
    /\ Get(x)
    /\ file' = [file EXCEPT ![f].got = Append(@, x)]
    /\ UNCHANGED <<cast, table, debugVars, fds>>

\* fd <= 0: the references that it got are never put.
ZeroMember(f) ==
    LET left == Each(file[f].got) IN
    /\ At(f, "get") /\ Bounded(left)
    /\ dma' = [x \in DOMAIN dma |-> [dma[x] EXCEPT !.owed = @ + left[x]]]
    /\ Idle(f)
    /\ UNCHANGED <<cast, table, debugVars, fds>>

\* An fd without a fence: _put_child_fences(i-1) puts the last fence that it got,
\* as often as it got any.
BadMember(f) ==
    LET got == file[f].got
        n == Len(got)
        puts == Only(Last(got), n)
        left == [x \in DOMAIN dma |-> Times(x, got) - puts[x]]
    IN  /\ At(f, "get")
        /\ IF n = 0 THEN UNCHANGED <<table, dma>> ELSE PutOwing(puts, left)
        /\ Idle(f)
        /\ UNCHANGED <<cast, debugVars, fds>>

\* dma_fence_array_create: the array has the references of its fences.
CreateArray(f) ==
    /\ At(f, "get") /\ file[f].got # <<>> /\ Enough(1)
    /\ dma' = [dma EXCEPT ![New] = [NewFence(None) EXCEPT !.kids = file[f].got]]
    /\ GoOn(f, "fd", New)
    /\ UNCHANGED <<cast, table, debugVars, fds>>

\* It fails: each fence is put.
FailArray(f) ==
    /\ At(f, "get") /\ file[f].got # <<>> /\ <<"array", "create">> \in Faults
    /\ PutOwing(Each(file[f].got), Only(0, 0))
    /\ Idle(f)
    /\ UNCHANGED <<cast, debugVars, fds>>

\* sync_file_create takes a reference, the first one is put; a failure puts it
\* too, and once more if the copy to the process fails, or frees an array whose
\* last reference it put.
Kind(x) == IF IsArray(x) THEN "array" ELSE "fence"
Extra(x, call) == IF call = "copy" \/ (call = "file" /\ IsArray(x)) THEN 1 ELSE 0

InstallFd(f) ==
    LET x == file[f].x IN
    /\ At(f, "fd")
    /\ \/ fds' = fds \cup {x} /\ UNCHANGED <<table, dma>>
       \/ \E call \in {"fd", "file", "copy"} :
            /\ <<Kind(x), call>> \in Faults
            /\ PutAgain(x, Extra(x, call))
            /\ UNCHANGED fds
    /\ Idle(f)
    /\ UNCHANGED <<cast, debugVars>>

(* What is done with an fd *)

\* It gets the fence and puts it twice.  The fd stays, and still counts on a
\* reference.
IoctlDestroy(f, x) ==
    /\ At(f, "idle") /\ x \in fds /\ Live(x)
    /\ PutOwing(Only(x, 1), Only(x, 0 - 1))
    /\ UNCHANGED <<cast, debugVars, fileVars>>

CloseFd(x) ==
    /\ x \in fds
    /\ fds' = fds \ {x}
    /\ PutFence(x)
    /\ UNCHANGED <<cast, debugVars, file>>

\* HW_SYNC_IOC_REG_FOR_WAIT, HW_SYNC_IOC_FENCE_WAIT: a reference while it lasts.
StartWait(f, x) ==
    /\ At(f, "idle") /\ x \in fds /\ Live(x)
    /\ Get(x)
    /\ GoOn(f, "wait", x)
    /\ UNCHANGED <<cast, table, debugVars, fds>>

\* KeepsReference is a plausible mistake.
KeepsReference(x) == UNCHANGED <<table, dma>>
PutAfterWait(x) == PutFence(x)

EndWait(f) ==
    /\ At(f, "wait")
    /\ PutAfterWait(file[f].x)
    /\ Idle(f)
    /\ UNCHANGED <<cast, debugVars, fds>>

IoctlResetClient(f) ==
    /\ At(f, "idle")
    /\ table' = WithoutFencesOf(f)
    /\ UNCHANGED <<cast, dma, debugVars, fileVars>>

FileStep(f) ==
    \/ \E seqno \in 1..MaxOfFile : IoctlCreateFence(f, seqno)
    \/ StartArray(f) \/ ZeroMember(f) \/ BadMember(f)
    \/ CreateArray(f) \/ FailArray(f) \/ InstallFd(f)
    \/ \E x \in fds : GetMember(f, x) \/ IoctlDestroy(f, x) \/ StartWait(f, x)
    \/ EndWait(f) \/ IoctlResetClient(f)

Next == \/ \E w \in Writers : WriterStep(w)
        \/ \E f \in Files : FileStep(f)
        \/ \E x \in fds : CloseFd(x)

Spec == Init /\ [][Next]_vars

-----------------------------------------------------------------------------
Keys == ((1..Cardinality(Ids)) \X (0..MaxSeqno + JoinSize)) \cup (Files \X (1..MaxOfFile))

TypeOK ==
    /\ cast \in Casts
    /\ table \in [Slots -> [key : Keys, by : Ids \cup Files] \cup {Free}]
    /\ \A x \in DOMAIN dma : dma[x].state = "live" => dma[x].key \in Keys \cup {None} /\ dma[x].refs > 0
    /\ registered \subseteq Ids /\ nodes \subseteq [id : Ids, ctx : 1..Len(seqnoCnt)]
    /\ seqnoCnt \in Seq(0..MaxSeqno) /\ dbgSeqno \in 1..MaxSeqno + Cardinality(Writers)
    /\ fds \subseteq DOMAIN dma /\ abandoned \subseteq Keys

\* A client is a debug client once, however many writes ask for it: "we cannot
\* create same debug client twice".  The list is looked through before the
\* registration and added to after it, so two writers may both find nothing.
OneNode ==
    /\ \A n, m \in nodes : n.id = m.id => n = m
    /\ \A n \in nodes : n.id \in registered

HeldForever(x) == dma[x].handle \in Ids

\* A fence has a reference for each that may still use it: the fd, the arrays
\* over it, the ioctls between get and put; a fence of hw_fence_dbg_create_wr
\* has one that nobody puts.  It is off by one for each destroy ioctl (the fd
\* stays, and its close puts again), for each copy of an fd to the process and
\* each sync_file of an array that failed, and by what _put_child_fences and the
\* exit for fd 0 left or put too much; by nothing else, whoever closes, destroys,
\* waits and puts in between.
RefsExact ==
    /\ TypeOK
    /\ \A x \in DOMAIN dma :
         dma[x].refs = Holders(x) + dma[x].owed + (IF HeldForever(x) THEN 1 ELSE 0)

\* No hw-fence outlives what backs it, a dma_fence or an iteration of the tx
\* simulation, whatever is closed, reset or refused in between: hw_fence_dbg_release
\* and hw_fence_destroy find it.  A join simulation leaves its own behind.
HwFencesAccounted ==
    \A key \in {table[s].key : s \in {t \in Slots : table[t] # Free}} \ abandoned :
        Cardinality(Found(key)) <=
            Cardinality({x \in DOMAIN dma : Live(x) /\ dma[x].enabled /\ dma[x].key = key})
            + Cardinality({w \in Writers : writer[w].pc \in {"txWait", "txDestroy"} /\ TxKey(w) = key})

Backed(x) == \E s \in Slots : table[s].key = dma[x].key

\* The hw-fence of a file's fence stays until the last reference of the fence is
\* put, by whoever that is, or until the client of the file is reset.
KeptUntilRelease ==
    [][\A x \in DOMAIN dma :
         Live(x) /\ Live(x)' /\ dma[x].handle \in Files /\ Backed(x)
           => Backed(x)' \/ IoctlResetClient(dma[x].handle)]_vars
=============================================================================
