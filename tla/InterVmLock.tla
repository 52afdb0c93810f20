---------------------------- MODULE InterVmLock ----------------------------
(***************************************************************************)
(* The lock words that the primary VM (PVM) shares with the fence          *)
(* controller in the secondary VM (SVM): one per fence-table slot and one  *)
(* per client Rx queue.  Bit 0 of a word is the PVM's, bit 1 the SVM's.    *)
(* GLOBAL_ATOMIC_STORE disables preemption and takes bit 0 with a          *)
(* load-exclusive/store-exclusive loop that waits for the whole word to be *)
(* zero; releasing clears bit 0 and then, in a second access, reads the    *)
(* word to see whether the SVM waits and must be woken by an interrupt.    *)
(*                                                                         *)
(* A word is the set of its bits.  A PVM CPU may hold a lock inside        *)
(* another one (a child fence, then its join fence); Inside is that order. *)
(* The SVM side is not in this repository: it is modelled from the         *)
(* comments of _lock and _unlock.                                          *)
(***************************************************************************)
EXTENDS Naturals

CONSTANTS Cpus,     \* CPUs of the primary VM
          Locks,    \* lock words in the shared memory
          Inside,   \* pairs <<outer, inner>> in which locks are nested
          Svm,      \* the fence controller
          Nobody

ASSUME LockAssumption ==
    /\ Svm \notin Cpus
    /\ Nobody \notin Cpus \cup {Svm}
    /\ Inside \subseteq Locks \X Locks

VARIABLES word,     \* the lock words
          pc,       \* where each CPU is in _lock or _unlock
          target,   \* the lock a CPU is locking or unlocking
          reg,      \* the value its LDAXR loaded (W5)
          mon,      \* its exclusive monitor
          held,     \* the locks a CPU holds
          svmPc, svmTarget, svmHeld,
          irq       \* IPC signal 30 is pending at the SVM

pvmVars == <<pc, target, reg, mon, held>>
svmVars == <<svmPc, svmTarget, svmHeld>>
vars == <<word, pc, target, reg, mon, held, svmPc, svmTarget, svmHeld, irq>>

PVM == 0    \* BIT0
SVM == 1    \* BIT1

Init ==
    /\ word = [l \in Locks |-> {}]
    /\ pc = [c \in Cpus |-> "out"]
    /\ \E l \in Locks : target = [c \in Cpus |-> l]
    /\ reg = [c \in Cpus |-> {}]
    /\ mon = [c \in Cpus |-> FALSE]
    /\ held = [c \in Cpus |-> {}]
    /\ svmPc = "out"
    /\ svmTarget \in Locks
    /\ svmHeld = {}
    /\ irq = FALSE

\* CBNZ: the lock is free when no bit of its word is set.
FreeOfPvm(bits) == PVM \notin bits
FreeWord(bits) == bits = {}

\* STXR stores only if the reservation made by LDAXR is still there.
AlwaysStores(c) == TRUE
StoreSucceeds(c) == mon[c]

\* The test of the word after the release.
TestsBit0(bits) == PVM \in bits
SvmWaits(bits) == SVM \in bits

\* A lock may be taken while holding S only in the nesting order: the join
\* fence of a signalled child is locked while the child is.
TakesAnyLock(S, l) == l \notin S
MayTake(S, l) == l \notin S /\ \A h \in S : <<h, l>> \in Inside

\* The innermost lock held is the first one released.
Innermost(S, l) == l \in S /\ \A h \in S : <<l, h>> \notin Inside

\* A store to a word takes away every exclusive reservation on it.
Store(l, bits) ==
    /\ word' = [word EXCEPT ![l] = bits]
    /\ mon' = [c \in Cpus |-> mon[c] /\ target[c] # l]

Goto(c, from, to) == pc[c] = from /\ pc' = [pc EXCEPT ![c] = to]

-----------------------------------------------------------------------------
(* The primary VM *)

StartLock(c, l) ==
    /\ Goto(c, "out", "ldaxr")
    /\ MayTake(held[c], l)
    /\ target' = [target EXCEPT ![c] = l]
    /\ UNCHANGED <<word, reg, mon, held, svmVars, irq>>

\* The loop "LDAXR; CBNZ 1b" is left when the whole word is zero.
LdaxrZero(c) ==
    /\ Goto(c, "ldaxr", "stxr")
    /\ FreeWord(word[target[c]])
    /\ reg' = [reg EXCEPT ![c] = word[target[c]]]
    /\ mon' = [mon EXCEPT ![c] = TRUE]
    /\ UNCHANGED <<word, target, held, svmVars, irq>>

StxrLock(c) ==
    /\ Goto(c, "stxr", "out")
    /\ StoreSucceeds(c)
    /\ Store(target[c], {PVM})
    /\ held' = [held EXCEPT ![c] = @ \cup {target[c]}]
    /\ UNCHANGED <<target, reg, svmVars, irq>>

StartUnlock(c, l) ==
    /\ Goto(c, "out", "uldaxr")
    /\ Innermost(held[c], l)
    /\ target' = [target EXCEPT ![c] = l]
    /\ UNCHANGED <<word, reg, mon, held, svmVars, irq>>

LdaxrUnlock(c) ==
    /\ Goto(c, "uldaxr", "ustxr")
    /\ reg' = [reg EXCEPT ![c] = word[target[c]]]
    /\ mon' = [mon EXCEPT ![c] = TRUE]
    /\ UNCHANGED <<word, target, held, svmVars, irq>>

StxrUnlock(c) ==
    /\ Goto(c, "ustxr", "check")
    /\ StoreSucceeds(c)
    /\ Store(target[c], reg[c] \ {PVM})
    /\ held' = [held EXCEPT ![c] = @ \ {target[c]}]
    /\ UNCHANGED <<target, reg, svmVars, irq>>

\* Either store-exclusive fails when the reservation is gone.
StxrFails(c) ==
    /\ ~StoreSucceeds(c)
    /\ Goto(c, "stxr", "ldaxr") \/ Goto(c, "ustxr", "uldaxr")
    /\ UNCHANGED <<word, target, reg, mon, held, svmVars, irq>>

\* Preemption is off but interrupts are not: an exception clears the monitor.
LoseReservation(c) ==
    /\ mon[c]
    /\ mon' = [mon EXCEPT ![c] = FALSE]
    /\ UNCHANGED <<word, pc, target, reg, held, svmVars, irq>>

\* The read after the release: trigger IPC signal 30 if the SVM's bit is set.
CheckSvm(c) ==
    /\ Goto(c, "check", "out")
    /\ irq' = (irq \/ SvmWaits(word[target[c]]))
    /\ UNCHANGED <<word, target, reg, mon, held, svmVars>>

-----------------------------------------------------------------------------
(* The fence controller in the secondary VM (external) *)

SvmSetBit(l) ==
    /\ svmPc = "out"
    /\ MayTake(svmHeld, l)
    /\ Store(l, word[l] \cup {SVM})
    /\ svmPc' = "test"
    /\ svmTarget' = l
    /\ UNCHANGED <<pc, target, reg, held, svmHeld, irq>>

SvmEnter ==
    /\ svmPc = "test"
    /\ PVM \notin word[svmTarget]
    /\ svmPc' = "out"
    /\ svmHeld' = svmHeld \cup {svmTarget}
    /\ UNCHANGED <<word, pvmVars, svmTarget, irq>>

SvmSleep ==
    /\ svmPc = "test"
    /\ PVM \in word[svmTarget]
    /\ svmPc' = "wfi"
    /\ UNCHANGED <<word, pvmVars, svmTarget, svmHeld, irq>>

\* A pending interrupt ends WFI, also one that was raised before it.
SvmWake ==
    /\ svmPc = "wfi"
    /\ irq
    /\ irq' = FALSE
    /\ svmPc' = "test"
    /\ UNCHANGED <<word, pvmVars, svmTarget, svmHeld>>

\* A spurious signal is consumed when the SVM is not acquiring a lock.
SvmTakeIrq ==
    /\ svmPc = "out"
    /\ irq
    /\ irq' = FALSE
    /\ UNCHANGED <<word, pvmVars, svmVars>>

SvmUnlock(l) ==
    /\ svmPc = "out"
    /\ Innermost(svmHeld, l)
    /\ Store(l, word[l] \ {SVM})
    /\ svmHeld' = svmHeld \ {l}
    /\ UNCHANGED <<pc, target, reg, held, svmPc, svmTarget, irq>>

-----------------------------------------------------------------------------
NewRequest == (\E c \in Cpus, l \in Locks : StartLock(c, l)) \/ \E l \in Locks : SvmSetBit(l)

PvmStep(c) ==
    \/ \E l \in Locks : StartLock(c, l) \/ StartUnlock(c, l)
    \/ LdaxrZero(c)
    \/ StxrLock(c)
    \/ LdaxrUnlock(c)
    \/ StxrUnlock(c)
    \/ StxrFails(c)
    \/ LoseReservation(c)
    \/ CheckSvm(c)

SvmStep ==
    \/ \E l \in Locks : SvmSetBit(l) \/ SvmUnlock(l)
    \/ SvmEnter
    \/ SvmSleep
    \/ SvmWake
    \/ SvmTakeIrq

Next == SvmStep \/ \E c \in Cpus : PvmStep(c)

Spec == Init /\ [][Next]_vars

\* Preemption is off from StartLock to the end of the unlock, so a CPU runs on;
\* the architecture lets a store-exclusive succeed that is retried for ever.
Fairness ==
    /\ \A c \in Cpus :
        /\ WF_vars(\E l \in Locks : StartUnlock(c, l))
        /\ WF_vars(LdaxrZero(c) \/ LdaxrUnlock(c) \/ StxrFails(c) \/ CheckSvm(c))
        /\ SF_vars(StxrLock(c))
        /\ SF_vars(StxrUnlock(c))
    /\ WF_vars(SvmEnter \/ SvmSleep \/ SvmWake)
    /\ WF_vars(\E l \in Locks : SvmUnlock(l))

FairSpec == Spec /\ Fairness

-----------------------------------------------------------------------------
(* Properties *)

\* Every variable keeps its type, a reservation belongs to a store in progress,
\* and _lock reaches its STXR only with the zero it loaded.
TypeOK ==
    /\ word \in [Locks -> SUBSET {PVM, SVM}]
    /\ pc \in [Cpus -> {"out", "ldaxr", "stxr", "uldaxr", "ustxr", "check"}]
    /\ target \in [Cpus -> Locks]
    /\ reg \in [Cpus -> SUBSET {PVM, SVM}]
    /\ mon \in [Cpus -> BOOLEAN]
    /\ held \in [Cpus -> SUBSET Locks]
    /\ svmPc \in {"out", "test", "wfi"}
    /\ svmTarget \in Locks
    /\ svmHeld \in SUBSET Locks
    /\ irq \in BOOLEAN
    /\ \A c \in Cpus :
        /\ mon[c] => pc[c] \in {"stxr", "ustxr"}
        /\ pc[c] = "stxr" => reg[c] = {}

\* No two CPUs, and no CPU and the SVM, hold a lock at the same time: _lock
\* waits for the whole word and stores with STXR.
MutualExclusion ==
    \A l \in Locks :
        /\ \A c, d \in Cpus : l \in held[c] /\ l \in held[d] => c = d
        /\ \A c \in Cpus : l \in held[c] => l \notin svmHeld

\* The bits tell who holds or awaits a lock, and a store-exclusive in progress
\* stores a value made from what the word still holds: with this, mutual
\* exclusion is preserved by every step of _lock, _unlock and the SVM.
LockInv ==
    /\ MutualExclusion
    /\ \A l \in Locks : PVM \in word[l] <=> \E c \in Cpus : l \in held[c]
    /\ \A l \in Locks :
        SVM \in word[l] <=> l \in svmHeld \/ (svmPc # "out" /\ svmTarget = l)
    /\ svmPc # "out" => svmTarget \notin svmHeld
    /\ \A c \in Cpus :
        /\ mon[c] => reg[c] = word[target[c]]
        /\ pc[c] \in {"uldaxr", "ustxr"} => target[c] \in held[c]
        /\ pc[c] \in {"ldaxr", "stxr", "check"} => target[c] \notin held[c]

\* The SVM never sleeps on a lock that nobody will wake it for: while it is in
\* WFI the lock is held, or a CPU that released it has still to look at BIT1
\* (the read after the release in _unlock), or the signal is already pending.
NoMissedWakeup ==
    svmPc = "wfi" =>
        \/ irq
        \/ \E c \in Cpus :
            \/ svmTarget \in held[c]
            \/ pc[c] = "check" /\ target[c] = svmTarget

\* Once the SVM has set its bit no CPU gets the lock before the SVM had it:
\* _lock spins while the word is not zero, whichever bit is set.
SvmGoesFirst ==
    [][\A l \in Locks, c \in Cpus :
        SVM \in word[l] /\ l \notin held[c] => l \notin held'[c]]_vars

\* When no new requests arrive, whoever asks is served: a CPU that spins in
\* _lock gets its lock, and an SVM that waits in WFI the signal of _unlock.
Acquires ==
    <>[][~NewRequest]_vars =>
        /\ \A c \in Cpus : pc[c] \in {"ldaxr", "stxr"} ~> pc[c] = "out"
        /\ svmPc \in {"test", "wfi"} ~> svmPc = "out"

\* The lock words implement locks with one owner each (GLOBAL_ATOMIC_STORE).
Owner(l) ==
    IF l \in svmHeld THEN Svm
    ELSE IF \E c \in Cpus : l \in held[c] THEN CHOOSE c \in Cpus : l \in held[c]
    ELSE Nobody

Abstract == INSTANCE SharedLock WITH
    Parties <- Cpus \cup {Svm}, owner <- [l \in Locks |-> Owner(l)]

ImplementsSharedLock == Abstract!Spec
=============================================================================
