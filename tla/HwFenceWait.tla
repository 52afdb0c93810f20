---------------------------- MODULE HwFenceWait ----------------------------
(***************************************************************************)
(* Waiting for hw-fences and for arrays of hw-fences (join fences), the    *)
(* signalling of the waiters, and the reset of a client.                   *)
(*                                                                         *)
(* The state is what a slot of the global table holds, per fence: the      *)
(* search for the slot is HwFenceTable's subject and a lookup is one step  *)
(* here.  No (ctx_id, seq_id) pair is used twice, as dma-fences promise.   *)
(* What the code does under the lock word of a slot is one step            *)
(* (InterVmLock); what it does outside of it is a step of its own.  The Rx *)
(* queues have room (HwFenceQueue) and are kept as the set of payloads     *)
(* written since the client's last reset.                                  *)
(*                                                                         *)
(* The fence controller in the other VM is external: under the lock of the *)
(* child it sets the SIGNAL flag, writes to the waiting clients, and       *)
(* counts down and signals the parents.                                    *)
(***************************************************************************)
EXTENDS Naturals, Sequences, FiniteSets

CONSTANTS Clients,          \* client ids, natural numbers: resets go through them in order
          HasData,          \* clients with a hw_fence_client_data_id
          Fences, Arrays,   \* hw-fences and dma_fence_arrays
          Plain,            \* a dma_fence that is no hw-fence
          Children,         \* the fences of each array
          Allocator,        \* the client that created a fence
          Plans,            \* bound: what the clients ask for, waits and "reset", once each
          Order,            \* the keys in the order of their slots in the table
          QuietReset,       \* no other call is in progress during a reset
          MaxParents,       \* MSM_HW_FENCE_MAX_JOIN_PARENTS
          JoinClient,       \* HW_FENCE_JOIN_FENCE_CLIENT_ID
          None

Keys == Fences \cup Arrays

ASSUME WaitAssumption ==
    /\ Clients \subseteq Nat \ {0} /\ IsFiniteSet(Clients)
    /\ \E last \in Clients : \A c \in Clients : c <= last
    /\ HasData \subseteq Clients
    /\ Children \in [Arrays -> Seq(Fences \cup {Plain}) \ {<<>>}]
    /\ Allocator \in [Fences -> Clients]
    /\ Plans \subseteq [Clients -> SUBSET (Keys \cup {"reset"})]
    /\ Order \in Seq(Keys) \ {<<>>} /\ {Order[i] : i \in DOMAIN Order} = Keys
    /\ MaxParents \in Nat
    /\ Fences \cap Arrays = {} /\ {Plain, None, "reset"} \cap Keys = {}
    /\ JoinClient \notin Clients /\ None \notin Clients

VARIABLES slot,     \* the slot of each fence
          call,     \* what each client is doing
          rxq,      \* the payloads in each client's Rx queue
          todo,     \* waits and resets still to come
          waiting   \* the waits that returned 0

vars == <<slot, call, rxq, todo, waiting>>

\* MSM_HW_FENCE_ERROR_RESET; its value is defined outside of the repository.
ResetError == 100

DataOf(c) == IF c \in HasData THEN c ELSE 0     \* the client_data it passes

\* _cleanup_hw_fence
FreeSlot == [valid |-> FALSE, alloc |-> None, signal |-> FALSE, mask |-> {},
             parents |-> [j \in 1..MaxParents |-> None], cnt |-> 0, pending |-> 0,
             data |-> [c \in Clients |-> 0]]

NoCall == [pc |-> "idle", obj |-> None, i |-> 1, sig |-> FALSE, data |-> 0, left |-> <<>>,
           error |-> 0, destroy |-> TRUE, due |-> {}]

\* Every fence was created by its allocator, nobody waits yet.
Init ==
    /\ slot = [k \in Keys |-> IF k \in Fences
                              THEN [FreeSlot EXCEPT !.valid = TRUE, !.alloc = Allocator[k]]
                              ELSE FreeSlot]
    /\ call = [c \in Clients |-> NoCall]
    /\ rxq = [c \in Clients |-> {}]
    /\ todo \in Plans
    /\ waiting = [c \in Clients |-> {}]

-----------------------------------------------------------------------------
\* hw_fence_update_queue on an Rx queue; a freed slot has no (ctx_id, seq_id).
Write(q, k, data, error) ==
    LET key == IF slot[k].valid THEN k ELSE None
    IN  q \cup {[key |-> key, data |-> data, error |-> error,
                 n |-> Cardinality({p \in q : p.key = key})]}

Told(c, k) == \E p \in rxq[c] : p.key = k

Resetting(c) == call[c].pc \in {"reset", "own", "tell", "drop", "queues"}

\* With QuietReset a reset and another call never overlap.
MayStart(c, what) ==
    /\ call[c].pc = "idle"
    /\ QuietReset => \A d \in Clients :
            ~Resetting(d) /\ (what = "reset" => call[d].pc = "idle")

Begin(c, what, record) ==
    /\ MayStart(c, what)
    /\ what \in todo[c]
    /\ todo' = [todo EXCEPT ![c] = @ \ {what}]
    /\ call' = [call EXCEPT ![c] = record]

At(c, pc) == call[c].pc = pc
Goto(c, pc) == call' = [call EXCEPT ![c].pc = pc]
Return(c, ok) ==
    /\ call' = [call EXCEPT ![c] = NoCall]
    /\ waiting' = IF ok THEN [waiting EXCEPT ![c] = @ \cup {call[c].obj}] ELSE waiting

-----------------------------------------------------------------------------
(* hw_fence_process_fence and hw_fence_register_wait_client *)

\* msm_hw_fence_find: a freed slot matches nothing.
WaitFence(c, f) ==
    /\ f \in Fences
    /\ Begin(c, f, IF slot[f].valid THEN [NoCall EXCEPT !.pc = "register", !.obj = f] ELSE NoCall)
    /\ UNCHANGED <<slot, rxq, waiting>>

\* hw_fence->client_data after client c passed its own for k.
KeepsOldData(k, c) == slot[k].data
NewData(k, c) ==
    IF DataOf(c) # 0 THEN [slot[k].data EXCEPT ![c] = DataOf(c)] ELSE slot[k].data

Register(c) ==
    LET f == call[c].obj
    IN  /\ At(c, "register")
        /\ slot' = [slot EXCEPT ![f].mask = @ \cup {c}, ![f].data = NewData(f, c)]
        /\ Goto(c, "checkFlag")
        /\ UNCHANGED <<rxq, todo, waiting>>

\* After the unlock: was the fence signalled before the wait bit was set?
NeverChecks(f) == FALSE
SignalledAlready(f) == slot[f].signal

CheckFlag(c) ==
    /\ At(c, "checkFlag")
    /\ \/ SignalledAlready(call[c].obj) /\ Goto(c, "signal") /\ UNCHANGED waiting
       \/ ~SignalledAlready(call[c].obj) /\ Return(c, TRUE)
    /\ UNCHANGED <<slot, rxq, todo>>

SignalSelf(c) ==
    /\ At(c, "signal")
    /\ rxq' = [rxq EXCEPT ![c] = Write(@, call[c].obj, DataOf(c), 0)]
    /\ Return(c, TRUE)
    /\ UNCHANGED <<slot, todo>>

-----------------------------------------------------------------------------
(* hw_fence_process_fence_array *)

ThisChild(c) == Children[call[c].obj][call[c].i]

\* _hw_fence_process_join_fence creates the join fence, once for an array.
WaitArray(c, a) ==
    /\ a \in Arrays
    /\ \/ /\ ~slot[a].valid
          /\ Begin(c, a, [NoCall EXCEPT !.pc = "joinMask", !.obj = a])
          /\ slot' = [slot EXCEPT ![a] = [FreeSlot EXCEPT !.valid = TRUE, !.alloc = JoinClient,
                                                          !.pending = Len(Children[a])]]
       \/ slot[a].valid /\ Begin(c, a, NoCall) /\ UNCHANGED slot
    /\ UNCHANGED <<rxq, waiting>>

JoinMask(c) ==
    /\ At(c, "joinMask")
    /\ slot' = [slot EXCEPT ![call[c].obj].mask = @ \cup {c}]
    /\ Goto(c, "child")
    /\ UNCHANGED <<rxq, todo, waiting>>

\* A child must be a hw-fence and be found in the table.
FindChild(c) ==
    /\ At(c, "child")
    /\ Goto(c, IF ThisChild(c) # Plain /\ slot[ThisChild(c)].valid THEN "link" ELSE "undo")
    /\ UNCHANGED <<slot, rxq, todo, waiting>>

NextChild(c, sig) ==
    LET i == call[c].i
        last == i = Len(Children[call[c].obj])
    IN  call' = [call EXCEPT ![c] = [@ EXCEPT !.pc = IF last THEN "finish" ELSE "child",
                                              !.i = IF last THEN i ELSE i + 1, !.sig = sig]]

\* The new parents_cnt is compared with the maximum.
TooManyParents(cnt) == cnt >= MaxParents

\* Under the child's lock, and for a signalled child the join fence's inside it.
UncountedChild(c, f) == UNCHANGED slot /\ NextChild(c, TRUE)
TestsBeforeCounting(c, f) ==
    LET a == call[c].obj
    IN  /\ slot' = [slot EXCEPT ![a].pending = @ - 1]
        /\ NextChild(c, call[c].sig \/ slot[a].pending = 0)
CountSignalledChild(c, f) ==
    LET a == call[c].obj
    IN  /\ slot' = [slot EXCEPT ![a].pending = @ - 1]
        /\ NextChild(c, call[c].sig \/ slot[a].pending = 1)

AddParent(c, f) ==
    /\ slot' = [slot EXCEPT ![f].cnt = @ + 1,
                            ![f].parents = [@ EXCEPT ![slot[f].cnt + 1] = call[c].obj]]
    /\ NextChild(c, call[c].sig)

LinkChild(c) ==
    LET f == ThisChild(c)
    IN  /\ At(c, "link")
        /\ \/ slot[f].signal /\ CountSignalledChild(c, f)
           \/ ~slot[f].signal /\ ~TooManyParents(slot[f].cnt + 1) /\ AddParent(c, f)
           \/ ~slot[f].signal /\ TooManyParents(slot[f].cnt + 1) /\ Goto(c, "undo")
                /\ UNCHANGED slot
        /\ UNCHANGED <<rxq, todo, waiting>>

\* client_data is stored without the lock, after all children are linked.
FinishArray(c) ==
    /\ At(c, "finish")
    /\ slot' = [slot EXCEPT ![call[c].obj].data = NewData(call[c].obj, c)]
    /\ IF call[c].sig THEN Goto(c, "joinSignal") /\ UNCHANGED waiting ELSE Return(c, TRUE)
    /\ UNCHANGED <<rxq, todo>>

\* _fence_ctl_signal(..., flags 0, client_data 0, error client_data)
SignalJoin(c) ==
    /\ At(c, "joinSignal")
    /\ rxq' = [rxq EXCEPT ![c] = Write(@, call[c].obj, 0, DataOf(c))]
    /\ Goto(c, "joinDestroy")
    /\ UNCHANGED <<slot, todo, waiting>>

DestroyJoin(c) ==
    /\ At(c, "joinDestroy")
    /\ slot' = [slot EXCEPT ![call[c].obj] = FreeSlot]
    /\ Return(c, TRUE)
    /\ UNCHANGED <<rxq, todo>>

(* _cleanup_join_and_child_fences *)

\* Every entry that names the join fence is invalidated and parents_cnt is
\* counted down; the entries behind it stay where they are.
KeepParents(sl, a) == sl
RemoveParent(sl, a) ==
    LET found == {j \in 1..sl.cnt : sl.parents[j] = a}
    IN  [sl EXCEPT !.cnt = @ - Cardinality(found),
                   !.parents = [j \in 1..MaxParents |-> IF j \in found THEN None ELSE @[j]]]

UndoChild(c) ==
    LET f == ThisChild(c)
    IN  /\ At(c, "undo")
        /\ IF f # Plain /\ slot[f].valid
           THEN slot' = [slot EXCEPT ![f] = RemoveParent(@, call[c].obj)]
           ELSE UNCHANGED slot
        /\ call' = [call EXCEPT ![c] = IF @.i = 1 THEN [@ EXCEPT !.pc = "undoDestroy"]
                                       ELSE [@ EXCEPT !.i = call[c].i - 1]]
        /\ UNCHANGED <<rxq, todo, waiting>>

UndoJoin(c) ==
    /\ At(c, "undoDestroy")
    /\ slot' = [slot EXCEPT ![call[c].obj] = FreeSlot]
    /\ Return(c, FALSE)
    /\ UNCHANGED <<rxq, todo>>

-----------------------------------------------------------------------------
(* The fence controller (external) *)

CountedParents(f) == {j \in 1..slot[f].cnt : slot[f].parents[j] # None}
Hits(f, a) == Cardinality({j \in CountedParents(f) : slot[f].parents[j] = a})

CtlSignal(f) ==
    LET done == {a \in Arrays : slot[a].valid /\ Hits(f, a) > 0 /\ slot[a].pending = Hits(f, a)}
        fired == {f} \cup done
        Tell(q, c) ==
            LET mine == {k \in fired : c \in slot[k].mask}
            IN  q \cup UNION {Write(q, k, slot[k].data[c], 0) : k \in mine}
    IN  /\ f \in Fences
        /\ slot[f].valid /\ ~slot[f].signal
        /\ slot' = [k \in Keys |->
                      IF k \in fired THEN [slot[k] EXCEPT !.signal = TRUE, !.pending = 0]
                      ELSE IF k \in Arrays /\ slot[k].valid
                      THEN [slot[k] EXCEPT !.pending = @ - Hits(f, k)]
                      ELSE slot[k]]
        /\ rxq' = [c \in Clients |-> Tell(rxq[c], c)]
        /\ UNCHANGED <<call, todo, waiting>>

-----------------------------------------------------------------------------
(* msm_hw_fence_reset_client: hw_fence_utils_cleanup_fence on every slot *)

StartReset(c, error, destroy) ==
    /\ Begin(c, "reset", [NoCall EXCEPT !.pc = "reset", !.left = Order,
                                        !.error = error, !.destroy = destroy])
    /\ UNCHANGED <<slot, rxq, waiting>>

\* Under the lock: the client stops waiting for this fence.
ClearWaitBit(c) ==
    LET k == Head(call[c].left)
    IN  /\ At(c, "reset")
        /\ slot' = [slot EXCEPT ![k].mask = @ \ {c}]
        /\ waiting' = [waiting EXCEPT ![c] = @ \ {k}]
        /\ call' = [call EXCEPT ![c].pc = "own", ![c].obj = k]
        /\ UNCHANGED <<rxq, todo>>

NextSlot(c) ==
    LET left == Tail(call[c].left)
    IN  call' = [call EXCEPT ![c] = [@ EXCEPT !.pc = IF left = <<>> THEN "queues" ELSE "reset",
                                              !.left = left, !.obj = None,
                                              !.i = 1, !.data = 0, !.due = {}]]

\* The allocator and the flag are read without the lock.  due is a history variable:
\* who was waiting then.
ResetsAnySlot(c, k) == TRUE
ResetsSlotOf(c, k) == slot[k].alloc = c
CheckOwn(c) ==
    LET k == call[c].obj
    IN  /\ At(c, "own")
        /\ \/ ~ResetsSlotOf(c, k) /\ NextSlot(c)
           \/ ResetsSlotOf(c, k) /\ slot[k].signal
                /\ IF call[c].destroy THEN Goto(c, "drop") ELSE NextSlot(c)
           \/ ResetsSlotOf(c, k) /\ ~slot[k].signal
                /\ call' = [call EXCEPT ![c].pc = "tell", ![c].due = slot[k].mask]
        /\ UNCHANGED <<slot, rxq, todo, waiting>>

\* _signal_all_wait_clients: one client id after the other; client_data keeps
\* its value for a client that has no place for data.
LastButOne == CHOOSE c \in Clients : Cardinality({d \in Clients : d > c}) = 1
LastClient == CHOOSE c \in Clients : \A d \in Clients : d <= c

DataFor(c, w) == IF w \in HasData THEN slot[call[c].obj].data[w] ELSE call[c].data

TellWaiter(c) ==
    LET w == call[c].i
        k == call[c].obj
        tells == w \in Clients /\ w \in slot[k].mask
    IN  /\ At(c, "tell")
        /\ rxq' = IF tells THEN [rxq EXCEPT ![w] = Write(@, k, DataFor(c, w), call[c].error)]
                  ELSE rxq
        /\ IF w = LastClient /\ ~call[c].destroy THEN NextSlot(c)
           ELSE call' = [call EXCEPT ![c] =
                    [@ EXCEPT !.pc = IF w = LastClient THEN "drop" ELSE "tell",
                              !.i = w + 1,
                              !.data = IF tells THEN DataFor(c, w) ELSE call[c].data]]
        /\ UNCHANGED <<slot, todo, waiting>>

\* hw_fence_destroy by the pair in the slot; a slot that is free already holds
\* (0, 0), which matches free slots only.
DropFence(c) ==
    /\ At(c, "drop")
    /\ slot' = [slot EXCEPT ![call[c].obj] = IF @.valid THEN FreeSlot ELSE @]
    /\ NextSlot(c)
    /\ UNCHANGED <<rxq, todo, waiting>>

\* hw_fence_utils_reset_queues
ResetQueues(c) ==
    /\ At(c, "queues")
    /\ rxq' = [rxq EXCEPT ![c] = {}]
    /\ call' = [call EXCEPT ![c] = NoCall]
    /\ UNCHANGED <<slot, todo, waiting>>

-----------------------------------------------------------------------------
CallStep(c) ==
    \/ Register(c) \/ CheckFlag(c) \/ SignalSelf(c)
    \/ JoinMask(c) \/ FindChild(c) \/ LinkChild(c) \/ FinishArray(c)
    \/ SignalJoin(c) \/ DestroyJoin(c) \/ UndoChild(c) \/ UndoJoin(c)
    \/ ClearWaitBit(c) \/ CheckOwn(c) \/ TellWaiter(c) \/ DropFence(c) \/ ResetQueues(c)

Start(c) ==
    \/ \E k \in Keys : WaitFence(c, k) \/ WaitArray(c, k)
    \/ \E error \in {0, ResetError}, destroy \in BOOLEAN : StartReset(c, error, destroy)

Next ==
    \/ \E c \in Clients : Start(c) \/ CallStep(c)
    \/ \E f \in Fences : CtlSignal(f)

Spec == Init /\ [][Next]_vars

\* A call that was started runs to its end, and the producer of every fence
\* hands it to the controller some day.
Fairness ==
    /\ \A c \in Clients : WF_vars(CallStep(c))
    /\ \A f \in Fences : WF_vars(CtlSignal(f))

FairSpec == Spec /\ Fairness

-----------------------------------------------------------------------------
(* Properties *)

\* The fields of slots, calls and payloads; no count goes below zero.
TypeOK ==
    /\ slot \in [Keys -> [valid : BOOLEAN, alloc : Clients \cup {JoinClient, None},
            signal : BOOLEAN, mask : SUBSET Clients,
            parents : [1..MaxParents -> Arrays \cup {None}], cnt : 0..MaxParents,
            pending : Nat, data : [Clients -> Nat]]]
    /\ \A c \in Clients :
        /\ \A p \in rxq[c] : p.key \in Keys \cup {None} /\ p.data \in Nat /\ p.error \in Nat
        /\ waiting[c] \subseteq Keys
        /\ call[c].obj \in Keys \cup {None} /\ call[c].left \in Seq(Keys)

\* No signal is missed: a client whose wait bit is set on a signalled fence was
\* written to, or is about to find the flag itself.  The controller may signal
\* before, between and after the steps of hw_fence_register_wait_client.
NoSignalMissed ==
    \A c \in Clients, f \in Fences :
        c \in slot[f].mask /\ slot[f].signal =>
            Told(c, f) \/ (call[c].obj = f /\ call[c].pc \in {"checkFlag", "signal"})

Signalled(a, i) == Children[a][i] # Plain /\ slot[Children[a][i]].signal
Registering(a, pcs) == \E c \in Clients : call[c].obj = a /\ call[c].pc \in pcs

\* "Children refcount for a parent-fence in a join-fence": it counts the
\* children not signalled and those hw_fence_process_fence_array has still to
\* look at, though the driver and the controller both count it down.
PendingExact ==
    \A a \in Arrays :
        slot[a].valid /\ ~Registering(a, {"undo", "undoDestroy"}) =>
            slot[a].pending =
                Cardinality({i \in DOMAIN Children[a] :
                    \/ ~Signalled(a, i)
                    \/ \E c \in Clients : /\ call[c].obj = a
                                          /\ call[c].pc \in {"joinMask", "child", "link"}
                                          /\ i >= call[c].i})

\* A client hears of an array when all its fences are signalled, not before,
\* and once.
JoinExact ==
    \A c \in Clients, a \in Arrays :
        /\ Told(c, a) => \A i \in DOMAIN Children[a] : Signalled(a, i)
        /\ Cardinality({p \in rxq[c] : p.key = a}) <= 1
        /\ a \in waiting[c] /\ (\A i \in DOMAIN Children[a] : Signalled(a, i)) => Told(c, a)

\* "@parent_list: list of indexes with the parents for a child-fence in a
\* join-fence, @parent_cnt: total number of parents": the first parents_cnt
\* entries are the join fences that wait for the child.
ParentsListed ==
    \A f \in Fences :
        /\ \A j \in 1..slot[f].cnt : slot[f].parents[j] # None
        /\ \A a \in Arrays : (\E c \in Clients : a \in waiting[c]) =>
            \A i \in DOMAIN Children[a] :
                Children[a][i] = f /\ ~slot[f].signal =>
                    \E j \in 1..slot[f].cnt : slot[f].parents[j] = a

\* An array that was refused leaves nothing behind: no child counts a join
\* fence that is gone (_cleanup_join_and_child_fences).
NoDanglingParent ==
    /\ TypeOK
    /\ \A f \in Fences : ~slot[f].signal =>
         \A j \in 1..slot[f].cnt : slot[f].parents[j] = None \/ slot[slot[f].parents[j]].valid

\* "client_data: data passed from and returned to waiting client upon fence
\* signaling": what a client with a data id reads for a fence is what it passed
\* with the wait, from the controller, from its own call or from another client's
\* reset.  A client without one passes nothing and reads 0, or from a reset the
\* data of a client before it in the loop, which keeps client_data from one
\* waiter to the next (_signal_all_wait_clients).
ClientDataReturned ==
    \A c \in Clients : \A p \in rxq[c] : p.key \in Fences =>
        IF c \in HasData THEN p.data = c
        ELSE p.data = 0 \/ (p.data \in HasData /\ p.data < c)

\* "@error: error code for this fence": a fence that nobody signalled with an
\* error is reported without one, or with the reset's.
ErrorIsReal == \A c \in Clients : \A p \in rxq[c] : p.error \in {0, ResetError}

\* "If fence is not signaled, signal with error all the waiting clients": when a
\* reset destroys such a fence, every client has been told that waited for it when
\* the reset looked at the flag and waits for it still.  The waiters are told
\* without the lock: others may begin to wait, or reset themselves, meanwhile.
ResetTellsWaiters ==
    [][\A c \in Clients, k \in Keys :
        At(c, "drop") /\ call[c].obj = k /\ ~slot[k].signal /\ slot[k].valid =>
            \A w \in call[c].due \cap slot[k].mask : Told(w, k)]_vars

\* A reset leaves the fences and the waits of the other clients alone: a fence
\* goes only when its allocator resets with destroy, a wait ends only with the
\* fence or in the waiting client's own reset (hw_fence_utils_cleanup_fence).
ResetKeepsOthers ==
    [][\A k \in Fences :
        /\ slot[k].valid /\ ~slot'[k].valid =>
              Resetting(Allocator[k]) /\ call[Allocator[k]].destroy
        /\ \A c \in slot[k].mask \ slot'[k].mask : Resetting(c) \/ ~slot'[k].valid]_vars

\* Whoever waits is told in the end, if every fence is signalled in the end, once the
\* clients ask for nothing more (Plans); for a fence that a reset destroyed
\* meanwhile that is ResetTellsWaiters.
WaiterServed ==
    <>[](\A c \in Clients : \A k \in waiting[c] :
            Told(c, k) \/ (k \in Fences /\ ~slot[k].valid))
=============================================================================
