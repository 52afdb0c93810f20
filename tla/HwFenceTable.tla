---------------------------- MODULE HwFenceTable ----------------------------
(***************************************************************************)
(* The global table of hw-fences: open addressing with linear probing over *)
(* slots that each have a lock word shared with the other VM.  A probe     *)
(* (lock, compare, process, unlock) is one step, which InterVmLock         *)
(* justifies; between two probes, and around the unlocked reads of         *)
(* hw_fence_destroy_with_hash, any other client may run.                   *)
(*                                                                         *)
(* A key stands for a pair (ctx_id, seq_id), Zero for the pair (0, 0) that *)
(* _cleanup_hw_fence writes; dma-fence contexts start at 1, so no fence    *)
(* has it.  Home is the hash of step 0.  A client makes one call at a time *)
(* and creates and destroys its own fences; it may pass any handle.        *)
(***************************************************************************)
EXTENDS Naturals, FiniteSets

CONSTANTS Clients,      \* hw-fence clients, one calling thread each
          Fences,       \* dma_fence objects
          Keys, Zero,   \* (ctx_id, seq_id) pairs
          Entries,      \* hw_fence_table_entries
          Key,          \* the pair of a dma_fence
          Home,         \* where the probing for a pair starts
          Owner,        \* the client that creates a dma_fence
          Nobody, NoFence

Slots == 0 .. Entries - 1

ASSUME TableAssumption ==
    /\ Entries \in Nat \ {0}
    /\ Key \in [Fences -> Keys]
    /\ Home \in [Keys \cup {Zero} -> Slots]
    /\ Owner \in [Fences -> Clients]
    /\ Zero \notin Keys /\ Nobody \notin Clients /\ NoFence \notin Fences

VARIABLES table,        \* hw_fences_tbl: valid, (ctx_id, seq_id), fence_allocator
          enabled,      \* dma_fences with MSM_HW_FENCE_FLAG_ENABLED_BIT
          handle,       \* the handle msm_hw_fence_create returned for a fence
          call          \* what each client is doing

vars == <<table, enabled, handle, call>>

NoCall == [pc |-> "idle", op |-> "FIND_FENCE", fence |-> NoFence, key |-> Zero,
           step |-> 0, hash |-> 0]

\* _cleanup_hw_fence followed by valid = 0.
FreeSlot == [valid |-> FALSE, key |-> Zero, alloc |-> Nobody]

Init ==
    /\ table = [s \in Slots |-> FreeSlot]
    /\ enabled = {}
    /\ handle = [f \in Fences |-> 0]
    /\ call = [c \in Clients |-> NoCall]

-----------------------------------------------------------------------------
(* The lookup *)

\* _calculate_hash
CalculateHash(cl) == IF cl.step = 0 THEN Home[cl.key] ELSE (cl.hash + 1) % Entries

\* compare_fnc: _is_hw_fence_free or _hw_fence_match.
Compare(op, slot, key) == IF op = "CREATE" THEN ~slot.valid ELSE slot.key = key

\* process_fnc: _reserve_hw_fence, _unreserve_hw_fence or _fence_found.
Process(op, slot, key, client) ==
    CASE op = "CREATE" -> [valid |-> TRUE, key |-> key, alloc |-> client]
      [] op = "DESTROY" -> FreeSlot
      [] op = "FIND_FENCE" -> slot

\* The loop ends without a slot: a create meets its own pair ("ctx & seqno must
\* be unique"), or all slots were probed.
StopsAtHole(op, slot, key, step) == ~slot.valid \/ step + 1 = Entries
GivesUp(op, slot, key, step) == (op = "CREATE" /\ slot.key = key) \/ step + 1 = Entries

\* Where a call continues after a lookup that found its slot.
AfterFound(cl) ==
    CASE cl.op = "CREATE" -> "setBit"
      [] cl.op = "DESTROY" /\ cl.fence # NoFence -> "clearBit"
      [] OTHER -> "idle"

Goto(c, pc) == IF pc = "idle" THEN NoCall ELSE [call[c] EXCEPT !.pc = pc]

Probe(c) ==
    LET cl == call[c]
        hash == CalculateHash(cl)
        found == Compare(cl.op, table[hash], cl.key)
    IN  /\ cl.pc = "lookup"
        /\ \/ /\ found
              /\ table' = [table EXCEPT ![hash] = Process(cl.op, @, cl.key, c)]
              /\ call' = [call EXCEPT ![c] =
                            IF AfterFound(cl) = "idle" THEN NoCall
                            ELSE [cl EXCEPT !.pc = AfterFound(cl), !.hash = hash]]
           \/ /\ ~found
              /\ ~GivesUp(cl.op, table[hash], cl.key, cl.step)
              /\ call' = [call EXCEPT ![c].step = @ + 1, ![c].hash = hash]
              /\ UNCHANGED table
           \/ /\ ~found
              /\ GivesUp(cl.op, table[hash], cl.key, cl.step)
              /\ call' = [call EXCEPT ![c] = NoCall]
              /\ UNCHANGED table
        /\ UNCHANGED <<enabled, handle>>

Lookup(op, f, k) == [NoCall EXCEPT !.pc = "lookup", !.op = op, !.fence = f, !.key = k]

-----------------------------------------------------------------------------
(* The calls of a client *)

\* test_bit(MSM_HW_FENCE_FLAG_ENABLED_BIT) refuses a dma_fence that is one.
TakesAnyFence(f) == TRUE
NotYetHwFence(f) == f \notin enabled

\* *params->handle is where the lookup ended.
FirstHash(cl) == Home[cl.key]
HandleOf(cl) == cl.hash

\* msm_hw_fence_create, up to the lookup.
Create(c, f) ==
    /\ call[c].pc = "idle"
    /\ Owner[f] = c
    /\ NotYetHwFence(f)
    /\ call' = [call EXCEPT ![c] = Lookup("CREATE", f, Key[f])]
    /\ UNCHANGED <<table, enabled, handle>>

\* ... and its end: the caller gets the handle, the dma_fence its flag.
SetEnabledBit(c) ==
    /\ call[c].pc = "setBit"
    /\ enabled' = enabled \cup {call[c].fence}
    /\ handle' = [handle EXCEPT ![call[c].fence] = HandleOf(call[c])]
    /\ call' = [call EXCEPT ![c] = NoCall]
    /\ UNCHANGED table

\* msm_hw_fence_destroy
Destroy(c, f) ==
    /\ call[c].pc = "idle"
    /\ Owner[f] = c
    /\ f \in enabled
    /\ call' = [call EXCEPT ![c] = Lookup("DESTROY", f, Key[f])]
    /\ UNCHANGED <<table, enabled, handle>>

\* ... and its end; the handle means nothing from here on.
ClearEnabledBit(c) ==
    /\ call[c].pc = "clearBit"
    /\ enabled' = enabled \ {call[c].fence}
    /\ handle' = [handle EXCEPT ![call[c].fence] = 0]
    /\ call' = [call EXCEPT ![c] = NoCall]
    /\ UNCHANGED table

\* msm_hw_fence_destroy_with_handle: the slot is read twice without its lock.
DestroyWithHandle(c, h) ==
    /\ call[c].pc = "idle"
    /\ call' = [call EXCEPT ![c] = [NoCall EXCEPT !.pc = "checkAllocator", !.hash = h]]
    /\ UNCHANGED <<table, enabled, handle>>

AnyAllocator(slot, c) == TRUE
AllocatedBy(slot, c) == slot.alloc = c

CheckAllocator(c) ==
    /\ call[c].pc = "checkAllocator"
    /\ call' = [call EXCEPT ![c] =
                  Goto(c, IF AllocatedBy(table[@.hash], c) THEN "readKey" ELSE "idle")]
    /\ UNCHANGED <<table, enabled, handle>>

ReadKey(c) ==
    /\ call[c].pc = "readKey"
    /\ call' = [call EXCEPT ![c] = Lookup("DESTROY", NoFence, table[@.hash].key)]
    /\ UNCHANGED <<table, enabled, handle>>

\* msm_hw_fence_find, for a fence that has the flag.
FindFence(c, f) ==
    /\ call[c].pc = "idle"
    /\ f \in enabled
    /\ call' = [call EXCEPT ![c] = Lookup("FIND_FENCE", f, Key[f])]
    /\ UNCHANGED <<table, enabled, handle>>

-----------------------------------------------------------------------------
Step(c) ==
    \/ \E f \in Fences : Create(c, f) \/ Destroy(c, f) \/ FindFence(c, f)
    \/ \E h \in Slots : DestroyWithHandle(c, h)
    \/ SetEnabledBit(c) \/ ClearEnabledBit(c)
    \/ CheckAllocator(c) \/ ReadKey(c)
    \/ Probe(c)

Next == \E c \in Clients : Step(c)

Spec == Init /\ [][Next]_vars

-----------------------------------------------------------------------------
(* Properties *)

\* The fields of the slots and of the calls; a free slot is a cleared one.
TypeOK ==
    /\ table \in [Slots -> [valid : BOOLEAN, key : Keys \cup {Zero},
                            alloc : Clients \cup {Nobody}]]
    /\ \A s \in Slots : ~table[s].valid => table[s] = FreeSlot
    /\ enabled \subseteq Fences
    /\ handle \in [Fences -> Slots]
    /\ call \in [Clients ->
          [pc : {"idle", "lookup", "setBit", "clearBit", "checkAllocator", "readKey"},
           op : {"CREATE", "DESTROY", "FIND_FENCE"},
           fence : Fences \cup {NoFence}, key : Keys \cup {Zero},
           step : Slots, hash : Slots]]

Holds(s, k) == table[s].valid /\ table[s].key = k

\* The table implements the registry: each create and each destroy, whatever
\* other clients do between its probes, adds or removes one fence of its
\* client (_hw_fence_lookup_and_process, hw_fence_destroy_with_hash).
Creator(k) ==
    IF \E s \in Slots : Holds(s, k)
    THEN table[CHOOSE s \in Slots : Holds(s, k)].alloc
    ELSE Nobody
Registry == INSTANCE FenceRegistry WITH
    creator <- [k \in Keys |-> Creator(k)], calling <- [c \in Clients |-> call[c] # NoCall]
ImplementsRegistry == Registry!Spec

\* A fence that sits behind slots that were freed since is still found: when
\* msm_hw_fence_destroy gives up, the fence is not in the table.
NoFenceLost ==
    [][\A c \in Clients :
        LET cl == call[c]
        IN  cl.pc = "lookup" /\ cl.op = "DESTROY" /\ cl.fence # NoFence /\ call'[c] = NoCall
            => \A s \in Slots : ~Holds(s, cl.key)]_vars

\* The handle a client got from msm_hw_fence_create names its fence for as long
\* as the fence is in the table: msm_hw_fence_update_txq signals by handle.
HandleNamesFence ==
    /\ TypeOK
    /\ \A f \in enabled, s \in Slots : Holds(s, Key[f]) => s = handle[f]
=============================================================================
