------------------------------ MODULE SpecSync ------------------------------
(***************************************************************************)
(* The speculative sync device: a process creates a fence array whose      *)
(* children are all the dummy fence and hands its fd out; later it binds   *)
(* the real fences; kernel drivers wait for the bind.                      *)
(*                                                                         *)
(* The mutex l_lock makes each pass over fence_array_list one step, the    *)
(* fence's spinlock the loop that replaces the children.  dma_fence_array  *)
(* is the kernel's (external): num_pending counts down with every child    *)
(* that signals once signalling is enabled, and the array signals at zero. *)
(***************************************************************************)
EXTENDS Integers, FiniteSets

CONSTANTS Procs,        \* processes, each with one file of the device
          Waiters,      \* threads in spec_sync_wait_bind_array
          Arrays,       \* fence arrays, each created once
          Size,         \* num_fences of an array
          All,          \* arrays created with SPEC_FENCE_SIGNAL_ALL
          Users,        \* fences of other drivers
          Dummy,        \* dummy_fence
          Invalid,      \* an fd that is no sync_file
          MaxDevices,   \* MAX_DEVICE_SUPPORTED
          OneBinder,    \* no two binds of an array overlap
          MaxBinds,     \* bound: bind calls of a process
          MayClose,     \* processes that close the device
          None

ASSUME SpecSyncAssumption ==
    /\ IsFiniteSet(Users) /\ IsFiniteSet(Procs) /\ IsFiniteSet(Waiters) /\ IsFiniteSet(Arrays)
    /\ Size \in [Arrays -> Nat \ {0}]
    /\ All \subseteq Arrays /\ MayClose \subseteq Procs
    /\ MaxDevices \in Nat /\ MaxBinds \in Nat /\ OneBinder \in BOOLEAN
    /\ Dummy \notin Users /\ Invalid \notin Users /\ None \notin Arrays

VARIABLES open,         \* processes that have the device open
          arr,          \* the fence arrays
          tracked,      \* fence_array_list
          fdOpen,       \* arrays whose sync_file is open
          dummyRefs,    \* refcount of dummy_fence
          signalled,    \* the user fences that have signalled
          call,         \* what each process is doing
          binds,        \* bind calls made so far
          wait          \* what each waiter is doing

vars == <<open, arr, tracked, fdOpen, dummyRefs, signalled, call, binds, wait>>

Slots(a) == 1..Size[a]
NoCall == [pc |-> "idle", array |-> None, fds |-> <<>>]
NoWait == [pc |-> "idle", array |-> None]

Uncreated(a) ==
    [refs |-> 0, child |-> [i \in Slots(a) |-> Dummy],
     pending |-> IF a \in All THEN Size[a] ELSE 1, callbacks |-> {}, enabled |-> TRUE,
     signalled |-> FALSE, error |-> FALSE, bound |-> FALSE, created |-> FALSE]

Init ==
    /\ open = {}
    /\ arr = [a \in Arrays |-> Uncreated(a)]
    /\ tracked = {} /\ fdOpen = {}
    /\ dummyRefs = 1
    /\ signalled = {}
    /\ call = [p \in Procs |-> NoCall]
    /\ binds = [p \in Procs |-> 0]
    /\ wait = [w \in Waiters |-> NoWait]

-----------------------------------------------------------------------------
(* dma_fence_array and reference counts (external) *)

Dummies(r) == {i \in DOMAIN r.child : r.child[i] = Dummy}

\* dma_fence_put: the last one releases an array, which puts its children.
Put(r, n) == [r EXCEPT !.refs = @ - n]
SetArrays(new) ==
    LET freed == {a \in Arrays : arr[a].refs > 0 /\ new[a].refs = 0}
    IN  /\ arr' = new
        /\ dummyRefs' = dummyRefs - Cardinality(UNION {{a} \X Dummies(new[a]) : a \in freed})

CountDown(r, n) ==
    [r EXCEPT !.pending = @ - n,
              !.signalled = @ \/ (r.pending > 0 /\ r.pending <= n)]

\* A child that signals calls back, and each callback puts the array.
UserSignals(u) ==
    LET hits(r) == {i \in r.callbacks : r.child[i] = u}
        CallBack(r) == Put(CountDown([r EXCEPT !.callbacks = @ \ hits(r)],
                                     Cardinality(hits(r))), Cardinality(hits(r)))
    IN  /\ u \notin signalled
        /\ signalled' = signalled \cup {u}
        /\ SetArrays([a \in Arrays |-> CallBack(arr[a])])
        /\ UNCHANGED <<open, tracked, fdOpen, call, binds, wait>>

\* dma_fence_enable_sw_signaling goes through the children until the count is
\* zero: a signalled child counts down, another one gets a callback.
Late(r) == {i \in DOMAIN r.child : r.child[i] \in signalled}
Reached(r) ==
    {i \in DOMAIN r.child : Cardinality({j \in Late(r) : j < i}) < r.pending}

Enabled(r, callbacks, refs, count) ==
    IF r.enabled \/ r.signalled THEN [r EXCEPT !.enabled = TRUE]
    ELSE CountDown([r EXCEPT !.enabled = TRUE, !.callbacks = callbacks, !.refs = @ + refs], count)

MissesSignalled(r) ==
    Enabled(r, DOMAIN r.child \ Late(r), Cardinality(DOMAIN r.child \ Late(r)), 0)
EnableSignaling(r) ==
    Enabled(r, Reached(r) \ Late(r), Cardinality(Reached(r) \ Late(r)),
            Cardinality(Reached(r) \cap Late(r)))

\* Somebody closes the fd of an array.
CloseFence(a) ==
    /\ a \in fdOpen
    /\ fdOpen' = fdOpen \ {a}
    /\ SetArrays([arr EXCEPT ![a] = Put(@, 1)])
    /\ UNCHANGED <<open, tracked, signalled, call, binds, wait>>

-----------------------------------------------------------------------------
(* clear_fence_array_tracker, under l_lock *)

\* Forced, it counts down once more what has not signalled.
NoCountDown(r, force) == Put(r, 1)
Forget(r, force) == Put(IF force /\ ~r.signalled THEN CountDown(r, 1) ELSE r, 1)

Forgets(r, force) == force \/ r.signalled

ClearTracker(force) ==
    LET gone == {a \in tracked : Forgets(arr[a], force)}
    IN  /\ tracked' = tracked \ gone
        /\ SetArrays([a \in Arrays |-> IF a \in gone THEN Forget(arr[a], force) ELSE arr[a]])

-----------------------------------------------------------------------------
(* spec_sync_open and spec_sync_release *)

Open(p) ==
    /\ p \notin open
    /\ Cardinality(open) < MaxDevices
    /\ open' = open \cup {p}
    /\ UNCHANGED <<arr, tracked, fdOpen, dummyRefs, signalled, call, binds, wait>>

Release(p) ==
    /\ p \in open \cap MayClose
    /\ call[p].pc = "idle"
    /\ open' = open \ {p}
    /\ IF open = {p} THEN ClearTracker(TRUE) ELSE UNCHANGED <<arr, tracked, dummyRefs>>
    /\ UNCHANGED <<fdOpen, signalled, call, binds, wait>>

-----------------------------------------------------------------------------
Begin(p, record) ==
    /\ p \in open
    /\ call[p].pc = "idle"
    /\ call' = [call EXCEPT ![p] = record]

At(p, pc) == call[p].pc = pc
Goto(p, pc) == call' = [call EXCEPT ![p].pc = pc]
Return(p) == call' = [call EXCEPT ![p] = NoCall]

(* spec_sync_create_array: a failure gives back in the same call what it took *)

\* One reference for the tracker, one for the sync_file, one on the dummy
\* fence for every child.
Create(p, a) ==
    /\ Begin(p, [NoCall EXCEPT !.pc = "track", !.array = a])
    /\ ~arr[a].created
    /\ arr' = [arr EXCEPT ![a].created = TRUE, ![a].refs = 2]
    /\ dummyRefs' = dummyRefs + Size[a]
    /\ fdOpen' = fdOpen \cup {a}
    /\ UNCHANGED <<open, tracked, signalled, binds, wait>>

\* The fd is installed by now.
Track(p) ==
    /\ At(p, "track")
    /\ tracked' = tracked \cup {call[p].array}
    /\ Return(p)
    /\ UNCHANGED <<open, arr, fdOpen, dummyRefs, signalled, binds, wait>>

(* spec_sync_bind_array *)

Binding(a) == \E p \in Procs : call[p].array = a /\ ~At(p, "track")

StartBind(p, a, fds) ==
    /\ binds[p] < MaxBinds
    /\ a \in fdOpen
    /\ OneBinder => ~Binding(a)
    /\ Begin(p, [pc |-> "check", array |-> a, fds |-> fds])
    /\ binds' = [binds EXCEPT ![p] = @ + 1]
    /\ arr' = [arr EXCEPT ![a].refs = @ + 1]
    /\ UNCHANGED <<open, tracked, fdOpen, dummyRefs, signalled, wait>>

\* Not signalled, registered, and no child bound yet; the fds may not be
\* readable, and there may be no memory for them.
Unbound(a) == Dummies(arr[a]) = Slots(a)

CheckBind(p) ==
    LET a == call[p].array
    IN  /\ At(p, "check")
        /\ \/ ~arr[a].signalled /\ a \in tracked /\ Unbound(a) /\ Goto(p, "replace")
           \/ Goto(p, "put")
        /\ UNCHANGED <<open, arr, tracked, fdOpen, dummyRefs, signalled, binds, wait>>

\* Under the spinlock: the children before the first invalid fd are replaced.
Good(p) == {i \in DOMAIN call[p].fds : \A j \in 1..i : call[p].fds[j] # Invalid}

PutDummies(n) == dummyRefs' = dummyRefs - n

ReplaceChildren(p) ==
    LET a == call[p].array
        valid == Good(p) = Slots(a)
    IN  /\ At(p, "replace")
        /\ arr' = [arr EXCEPT
              ![a].child = [i \in Slots(a) |-> IF i \in Good(p) THEN call[p].fds[i] ELSE @[i]],
              ![a].enabled = @ /\ ~valid]
        /\ PutDummies(Cardinality(Good(p)))
        /\ Goto(p, IF valid THEN "enable" ELSE "failBound")
        /\ UNCHANGED <<open, tracked, fdOpen, signalled, binds, wait>>

Enable(p) ==
    /\ At(p, "enable")
    /\ arr' = [arr EXCEPT ![call[p].array] = EnableSignaling(@)]
    /\ Goto(p, "prune")
    /\ UNCHANGED <<open, tracked, fdOpen, dummyRefs, signalled, binds, wait>>

\* clear_fence_array_tracker(false), in a bind that went well and in one that failed.
Prune(p) ==
    /\ \/ At(p, "prune") /\ Goto(p, "bound")
       \/ At(p, "failPrune") /\ Goto(p, "put")
    /\ ClearTracker(FALSE)
    /\ UNCHANGED <<open, fdOpen, signalled, binds, wait>>

\* wake_up_all: whoever waits sees the bit now.
SetBound(p) ==
    /\ \/ At(p, "bound") /\ Goto(p, "put")
       \/ At(p, "failBound") /\ Goto(p, "fail")
    /\ arr' = [arr EXCEPT ![call[p].array].bound = TRUE]
    /\ UNCHANGED <<open, tracked, fdOpen, dummyRefs, signalled, binds, wait>>

SignalError(r) == [r EXCEPT !.error = TRUE, !.signalled = TRUE]

Fail(p) ==
    /\ At(p, "fail")
    /\ arr' = [arr EXCEPT ![call[p].array] = SignalError(@)]
    /\ Goto(p, "failPrune")
    /\ UNCHANGED <<open, tracked, fdOpen, dummyRefs, signalled, binds, wait>>

LeaksFence(p) ==
    /\ At(p, "put")
    /\ Return(p)
    /\ UNCHANGED <<open, arr, tracked, fdOpen, dummyRefs, signalled, binds, wait>>
PutFence(p) ==
    /\ At(p, "put")
    /\ SetArrays([arr EXCEPT ![call[p].array] = Put(@, 1)])
    /\ Return(p)
    /\ UNCHANGED <<open, tracked, fdOpen, signalled, binds, wait>>

-----------------------------------------------------------------------------
(* spec_sync_wait_bind_array; its caller (external) holds a reference *)

StartWait(w, a) ==
    /\ wait[w].pc = "idle"
    /\ a \in fdOpen
    /\ wait' = [wait EXCEPT ![w] = [pc |-> "waiting", array |-> a]]
    /\ arr' = [arr EXCEPT ![a].refs = @ + 1]
    /\ UNCHANGED <<open, tracked, fdOpen, dummyRefs, signalled, call, binds>>

EndsWait(w, result) ==
    /\ wait' = [wait EXCEPT ![w].pc = result]
    /\ SetArrays([arr EXCEPT ![wait[w].array] = Put(@, 1)])
    /\ UNCHANGED <<open, tracked, fdOpen, signalled, call, binds>>

\* The bit is looked at before the wait and after each wake-up.
AnyWakeup(r) == r.created
WaitOver(r) == r.bound

EndWait(w) ==
    /\ wait[w].pc = "waiting"
    /\ WaitOver(arr[wait[w].array])
    /\ EndsWait(w, "returned")

TimeOut(w) ==
    /\ wait[w].pc = "waiting"
    /\ ~arr[wait[w].array].bound
    /\ EndsWait(w, "timedOut")

-----------------------------------------------------------------------------
ProcStep(p) ==
    \/ Open(p) \/ Release(p)
    \/ \E a \in Arrays : Create(p, a)
    \/ \E a \in Arrays : \E fds \in [Slots(a) -> Users \cup {Invalid}] : StartBind(p, a, fds)
    \/ Track(p) \/ CheckBind(p) \/ ReplaceChildren(p) \/ Enable(p)
    \/ Prune(p) \/ SetBound(p) \/ Fail(p) \/ PutFence(p)

Next ==
    \/ \E p \in Procs : ProcStep(p)
    \/ \E w \in Waiters : EndWait(w) \/ TimeOut(w) \/ \E a \in Arrays : StartWait(w, a)
    \/ \E a \in Arrays : CloseFence(a)
    \/ \E u \in Users : UserSignals(u)

Spec == Init /\ [][Next]_vars

-----------------------------------------------------------------------------
(* Properties *)

Live(a) == arr[a].refs > 0

\* The types of the variables; a freed array is not touched again.
TypeOK ==
    /\ open \subseteq Procs /\ tracked \subseteq Arrays /\ fdOpen \subseteq Arrays
    /\ dummyRefs \in Nat /\ signalled \subseteq Users
    /\ \A a \in Arrays :
        /\ arr[a].refs \in Nat /\ arr[a].pending \in Int
        /\ arr[a].child \in [Slots(a) -> Users \cup {Dummy}]
        /\ arr[a].callbacks \subseteq Slots(a)
    /\ \A p \in Procs : call[p].array \in Arrays \cup {None} /\ binds[p] \in 0..MaxBinds
    /\ \A w \in Waiters : wait[w].pc \in {"idle", "waiting", "returned", "timedOut"}

\* The references of an array are those of the list, of its creator, of the
\* fd, of binds, of callbacks and of those who wait: none leaks, and the array
\* lives as long as anybody uses it (every path through create, bind, release).
\* "we must keep an extra refcount for every time that the fence-array->release
\* can decrement its children's refcount": the dummy fence has one reference
\* for every child that is still the dummy, and its own.
RefsExact ==
    /\ TypeOK
    /\ \A a \in Arrays :
         arr[a].refs = Cardinality({x \in {"list"} : a \in tracked})
                     + Cardinality({x \in {"fd"} : a \in fdOpen})
                     + Cardinality({p \in Procs : call[p].array = a})
                     + Cardinality(arr[a].callbacks)
                     + Cardinality({w \in Waiters : wait[w] = [pc |-> "waiting", array |-> a]})
    /\ dummyRefs = 1 + Cardinality(UNION {{a} \X Dummies(arr[a]) : a \in {b \in Arrays : Live(b)}})

\* "@flags: Flags specifying on how to signal the array": a bound array signals
\* with all its fences or with any of them, also when they signal before or
\* during the bind, as long as the last close has not taken it from the list.
SignalsAsAsked ==
    \A a \in tracked :
        LET due == IF a \in All THEN \A i \in Slots(a) : arr[a].child[i] \in signalled
                                ELSE \E i \in Slots(a) : arr[a].child[i] \in signalled
        IN  Dummies(arr[a]) = {} /\ ~Binding(a) /\ ~arr[a].error => (arr[a].signalled <=> due)

\* When the last process has closed the device no array of the kind "any" is
\* left that nothing can signal any more: nobody can bind it now.
NoOrphan ==
    \A a \in Arrays \ All :
        arr[a].created /\ ~arr[a].signalled /\ Dummies(arr[a]) # {} =>
            a \in tracked \/ \E p \in Procs : call[p].array = a

\* A driver that waited for a bind with success finds the bound fences in the
\* array, or an array that has failed or is about to.
BoundForWaiters ==
    \A w \in Waiters :
        wait[w].pc = "returned" =>
            LET a == wait[w].array
            IN  \/ Dummies(arr[a]) = {}
                \/ arr[a].error /\ arr[a].signalled
                \/ \E p \in Procs : call[p].array = a /\ At(p, "fail")
=============================================================================
