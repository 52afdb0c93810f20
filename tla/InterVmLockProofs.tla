-------------------------- MODULE InterVmLockProofs --------------------------
(***************************************************************************)
(* Proofs about InterVmLock, for any set of CPUs, any set of locks and any *)
(* nesting order.                                                          *)
(***************************************************************************)
EXTENDS InterVmLock, TLAPS

\* The type invariant of the lock words and of the code that uses them
\* (_lock, _unlock).
THEOREM TypeCorrect == Spec => []TypeOK
<1>1. Init => TypeOK
  BY DEF Init, TypeOK, PVM, SVM
<1>2. TypeOK /\ [Next]_vars => TypeOK'
  <2> SUFFICES ASSUME TypeOK, [Next]_vars PROVE TypeOK'
    OBVIOUS
  <2> USE DEF TypeOK, PVM, SVM
  <2>1. CASE UNCHANGED vars
    BY <2>1 DEF vars
  <2>2. ASSUME NEW c \in Cpus, PvmStep(c) PROVE TypeOK'
    <3>1. ASSUME NEW l \in Locks, StartLock(c, l) PROVE TypeOK'
      BY <3>1 DEF StartLock, Goto, svmVars
    <3>2. ASSUME NEW l \in Locks, StartUnlock(c, l) PROVE TypeOK'
      BY <3>2 DEF StartUnlock, Goto, svmVars
    <3>3. CASE LdaxrZero(c)
      BY <3>3 DEF LdaxrZero, Goto, svmVars, FreeWord
    <3>4. CASE StxrLock(c)
      BY <3>4 DEF StxrLock, Goto, svmVars, Store, StoreSucceeds
    <3>5. CASE LdaxrUnlock(c)
      BY <3>5 DEF LdaxrUnlock, Goto, svmVars
    <3>6. CASE StxrUnlock(c)
      BY <3>6 DEF StxrUnlock, Goto, svmVars, Store, StoreSucceeds
    <3>7. CASE StxrFails(c)
      BY <3>7 DEF StxrFails, Goto, svmVars, StoreSucceeds
    <3>8. CASE LoseReservation(c)
      BY <3>8 DEF LoseReservation, svmVars
    <3>9. CASE CheckSvm(c)
      BY <3>9 DEF CheckSvm, Goto, svmVars, SvmWaits
    <3> QED BY <2>2, <3>1, <3>2, <3>3, <3>4, <3>5, <3>6, <3>7, <3>8, <3>9 DEF PvmStep
  <2>3. CASE SvmStep
    <3>1. ASSUME NEW l \in Locks, SvmSetBit(l) PROVE TypeOK'
      BY <3>1 DEF SvmSetBit, Store
    <3>2. ASSUME NEW l \in Locks, SvmUnlock(l) PROVE TypeOK'
      BY <3>2 DEF SvmUnlock, Store, Innermost
    <3>3. CASE SvmEnter \/ SvmSleep \/ SvmWake \/ SvmTakeIrq
      BY <3>3 DEF SvmEnter, SvmSleep, SvmWake, SvmTakeIrq, pvmVars, svmVars
    <3> QED BY <2>3, <3>1, <3>2, <3>3 DEF SvmStep
  <2> QED BY <2>1, <2>2, <2>3 DEF Next
<1> QED BY <1>1, <1>2, PTL DEF Spec

-----------------------------------------------------------------------------
LEMMA LockInvStep ==
  ASSUME TypeOK, TypeOK', LockInv, [Next]_vars
  PROVE  LockInv'
<1> USE DEF TypeOK, LockInv, MutualExclusion, PVM, SVM
<1>1. CASE UNCHANGED vars
  BY <1>1 DEF vars
<1>2. ASSUME NEW c \in Cpus, PvmStep(c) PROVE LockInv'
  <2>1. ASSUME NEW l \in Locks, StartLock(c, l) PROVE LockInv'
    BY <2>1 DEF StartLock, Goto, svmVars, MayTake
  <2>2. ASSUME NEW l \in Locks, StartUnlock(c, l) PROVE LockInv'
    BY <2>2 DEF StartUnlock, Goto, svmVars, Innermost
  <2>3. CASE LdaxrZero(c)
    BY <2>3 DEF LdaxrZero, Goto, svmVars, FreeWord
  <2>4. CASE StxrLock(c)
    BY <2>4 DEF StxrLock, Goto, svmVars, Store, StoreSucceeds
  <2>5. CASE LdaxrUnlock(c)
    BY <2>5 DEF LdaxrUnlock, Goto, svmVars
  <2>6. CASE StxrUnlock(c)
    BY <2>6 DEF StxrUnlock, Goto, svmVars, Store, StoreSucceeds
  <2>7. CASE StxrFails(c)
    BY <2>7 DEF StxrFails, Goto, svmVars, StoreSucceeds
  <2>8. CASE LoseReservation(c)
    BY <2>8 DEF LoseReservation, svmVars
  <2>9. CASE CheckSvm(c)
    BY <2>9 DEF CheckSvm, Goto, svmVars, SvmWaits
  <2> QED BY <1>2, <2>1, <2>2, <2>3, <2>4, <2>5, <2>6, <2>7, <2>8, <2>9 DEF PvmStep
<1>3. CASE SvmStep
  <2>1. ASSUME NEW l \in Locks, SvmSetBit(l) PROVE LockInv'
    <3>1. /\ svmPc = "out"  /\ l \notin svmHeld
          /\ word' = [word EXCEPT ![l] = word[l] \cup {SVM}]
          /\ mon' = [c \in Cpus |-> mon[c] /\ target[c] # l]
          /\ svmPc' = "test" /\ svmTarget' = l
          /\ UNCHANGED <<pc, target, reg, held, svmHeld>>
      BY <2>1 DEF SvmSetBit, Store, MayTake
    <3>2. MutualExclusion'
      BY <3>1
    <3>3. \A k \in Locks : (PVM \in word[k] <=> \E c \in Cpus : k \in held[c])'
      BY <3>1
    <3>4. \A k \in Locks :
            (SVM \in word[k] <=> k \in svmHeld \/ (svmPc # "out" /\ svmTarget = k))'
      BY <3>1
    <3>5. \A c \in Cpus : (mon[c] => reg[c] = word[target[c]])'
      BY <3>1
    <3> QED BY <3>1, <3>2, <3>3, <3>4, <3>5
  <2>2. ASSUME NEW l \in Locks, SvmUnlock(l) PROVE LockInv'
    BY <2>2 DEF SvmUnlock, Store, Innermost
  <2>3. CASE SvmEnter \/ SvmSleep \/ SvmWake \/ SvmTakeIrq
    BY <2>3 DEF SvmEnter, SvmSleep, SvmWake, SvmTakeIrq, pvmVars, svmVars
  <2> QED BY <1>3, <2>1, <2>2, <2>3 DEF SvmStep
<1> QED BY <1>1, <1>2, <1>3 DEF Next

\* The bits of every lock word agree with who holds and who awaits the lock.
THEOREM LockInvariant == Spec => []LockInv
<1>1. Init => LockInv
  BY DEF Init, LockInv, MutualExclusion, PVM, SVM
<1>2. TypeOK /\ TypeOK' /\ LockInv /\ [Next]_vars => LockInv'
  BY LockInvStep
<1> QED BY <1>1, <1>2, TypeCorrect, PTL DEF Spec

\* GLOBAL_ATOMIC_STORE excludes every other CPU and the fence controller.
THEOREM Exclusion == Spec => []MutualExclusion
<1>1. LockInv => MutualExclusion
  BY DEF LockInv
<1> QED BY <1>1, LockInvariant, PTL

-----------------------------------------------------------------------------
LEMMA NoMissedWakeupStep ==
  ASSUME TypeOK, LockInv, NoMissedWakeup, [Next]_vars
  PROVE  NoMissedWakeup'
<1> USE DEF TypeOK, NoMissedWakeup
<1>1. CASE UNCHANGED vars
  BY <1>1 DEF vars
<1>2. ASSUME NEW c \in Cpus, PvmStep(c) PROVE NoMissedWakeup'
  <2>1. ASSUME NEW l \in Locks, StartLock(c, l) \/ StartUnlock(c, l) PROVE NoMissedWakeup'
    BY <2>1 DEF StartLock, StartUnlock, Goto, svmVars
  <2>2. CASE LdaxrZero(c) \/ LdaxrUnlock(c) \/ StxrFails(c) \/ LoseReservation(c)
    BY <2>2 DEF LdaxrZero, LdaxrUnlock, StxrFails, LoseReservation, Goto, svmVars
  <2>3. CASE StxrLock(c)
    BY <2>3 DEF StxrLock, Store, Goto, svmVars
  <2>4. CASE StxrUnlock(c)
    BY <2>4 DEF StxrUnlock, Store, Goto, svmVars
  <2>5. CASE CheckSvm(c)
    <3>1. /\ pc[c] = "check" /\ pc' = [pc EXCEPT ![c] = "out"]
          /\ irq' = (irq \/ SVM \in word[target[c]])
          /\ UNCHANGED <<word, target, held, svmPc, svmTarget, svmHeld>>
      BY <2>5 DEF CheckSvm, SvmWaits, Goto, svmVars
    <3>2. CASE svmPc = "wfi" /\ target[c] = svmTarget
      <4>1. SVM \in word[target[c]]
        BY <3>2 DEF LockInv
      <4>2. irq'
        BY <3>1, <4>1, Zenon
      <4> QED BY <4>2
    <3>3. CASE irq
      BY <3>1, <3>3, Zenon
    <3>4. CASE svmPc # "wfi"
      BY <3>1, <3>4
    <3>5. CASE (~irq) /\ svmPc = "wfi" /\ target[c] # svmTarget
      <4>1. PICK d \in Cpus :
              svmTarget \in held[d] \/ (pc[d] = "check" /\ target[d] = svmTarget)
        BY <3>5
      <4> QED BY <3>1, <3>5, <4>1
    <3> QED BY <3>2, <3>3, <3>4, <3>5
  <2> QED BY <1>2, <2>1, <2>2, <2>3, <2>4, <2>5 DEF PvmStep
<1>3. CASE SvmStep
  BY <1>3 DEF SvmStep, SvmSetBit, SvmUnlock, SvmEnter, SvmSleep, SvmWake, SvmTakeIrq,
              Store, LockInv, pvmVars, svmVars
<1> QED BY <1>1, <1>2, <1>3 DEF Next

\* The SVM never sleeps on a lock that no CPU will wake it for: the read after
\* the release in _unlock comes late enough.
THEOREM WakeupNotMissed == Spec => []NoMissedWakeup
<1>1. Init => NoMissedWakeup
  BY DEF Init, NoMissedWakeup
<1>2. TypeOK /\ LockInv /\ NoMissedWakeup /\ [Next]_vars => NoMissedWakeup'
  BY NoMissedWakeupStep
<1> QED BY <1>1, <1>2, TypeCorrect, LockInvariant, PTL DEF Spec

\* A CPU never overtakes a waiting SVM: _lock spins while BIT1 is set.
THEOREM SvmFirst == Spec => SvmGoesFirst
<1>1. ASSUME TypeOK, LockInv, [Next]_vars,
             NEW l \in Locks, NEW c \in Cpus, SVM \in word[l], l \notin held[c]
      PROVE  l \notin held'[c]
  <2> USE DEF TypeOK, LockInv, PVM, SVM
  <2>1. CASE \E d \in Cpus : StxrLock(d)
    <3>1. PICK d \in Cpus : StxrLock(d)
      BY <2>1
    <3>2. mon[d] /\ pc[d] = "stxr" /\ held' = [held EXCEPT ![d] = held[d] \cup {target[d]}]
      BY <3>1 DEF StxrLock, StoreSucceeds, Goto
    <3>3. word[target[d]] = {}
      BY <1>1, <3>2
    <3> QED BY <1>1, <3>2, <3>3
  <2>2. CASE \E d \in Cpus : StxrUnlock(d)
    BY <1>1, <2>2 DEF StxrUnlock
  <2>3. CASE ~\E d \in Cpus : StxrLock(d) \/ StxrUnlock(d)
    <3>1. held' = held
      BY <1>1, <2>3 DEF Next, PvmStep, SvmStep, vars, StartLock, StartUnlock, LdaxrZero,
        LdaxrUnlock, StxrFails, LoseReservation, CheckSvm, SvmSetBit, SvmUnlock, SvmEnter,
        SvmSleep, SvmWake, SvmTakeIrq, pvmVars
    <3> QED BY <1>1, <3>1
  <2> QED BY <2>1, <2>2, <2>3
<1>2. TypeOK /\ LockInv /\ [Next]_vars
        => [\A l \in Locks, c \in Cpus :
              SVM \in word[l] /\ l \notin held[c] => l \notin held'[c]]_vars
  BY <1>1
<1> QED BY <1>2, TypeCorrect, LockInvariant, PTL DEF Spec, SvmGoesFirst

-----------------------------------------------------------------------------
(* Refinement: each lock word implements a lock with one owner. *)

\* While a CPU holds a lock, it is the owner.
LEMMA OwnerIsHolder ==
  ASSUME LockInv, NEW l \in Locks, NEW c \in Cpus, l \in held[c]
  PROVE  Owner(l) = c
BY DEF LockInv, MutualExclusion, Owner

\* Owner depends on nothing but who holds the lock.
LEMMA OwnerUnchanged ==
  ASSUME NEW l \in Locks, l \in svmHeld <=> l \in svmHeld',
         \A c \in Cpus : l \in held[c] <=> l \in held'[c]
  PROVE  Owner(l)' = Owner(l)
<1>1. (CHOOSE c \in Cpus : l \in held[c]) = (CHOOSE c \in Cpus : l \in held'[c])
  OBVIOUS
<1> QED BY <1>1 DEF Owner

\* A change of one owner is a change of the abstract function at one point.
LEMMA OneOwnerChanges ==
  ASSUME NEW l \in Locks, NEW p, Owner(l)' = p,
         \A k \in Locks \ {l} :
            /\ k \in svmHeld <=> k \in svmHeld'
            /\ \A c \in Cpus : k \in held[c] <=> k \in held'[c]
  PROVE  [k \in Locks |-> Owner(k)]' = [[k \in Locks |-> Owner(k)] EXCEPT ![l] = p]
<1>1. \A k \in Locks \ {l} : Owner(k)' = Owner(k)
  BY OwnerUnchanged
<1> QED BY <1>1

\* Every step takes a free lock, gives up an owned one, or changes no owner.
LEMMA StepRefines ==
  ASSUME TypeOK, LockInv, LockInv', [Next]_vars
  PROVE  [Abstract!Next]_([l \in Locks |-> Owner(l)])
<1> USE DEF TypeOK
<1>1. ASSUME NEW c \in Cpus, StxrLock(c), NEW l \in Locks, l = target[c]
      PROVE  Abstract!Acquire(c, l)
  <2>1. /\ mon[c] /\ pc[c] = "stxr"
        /\ held' = [held EXCEPT ![c] = held[c] \cup {l}]
        /\ svmHeld' = svmHeld
    BY <1>1 DEF StxrLock, StoreSucceeds, Goto, svmVars
  <2>2. Owner(l) = Nobody
    BY <1>1, <2>1 DEF LockInv, Owner, PVM, SVM
  <2>3. l \in held'[c]
    BY <2>1
  <2>4. Owner(l)' = c
    BY <2>3 DEF LockInv, MutualExclusion, Owner
  <2>5. [k \in Locks |-> Owner(k)]' = [[k \in Locks |-> Owner(k)] EXCEPT ![l] = c]
    BY <2>1, <2>4, OneOwnerChanges
  <2> QED BY <2>2, <2>5 DEF Abstract!Acquire
<1>2. ASSUME NEW c \in Cpus, StxrUnlock(c), NEW l \in Locks, l = target[c]
      PROVE  Abstract!Release(c, l)
  <2>1. /\ pc[c] = "ustxr"
        /\ held' = [held EXCEPT ![c] = held[c] \ {l}]
        /\ svmHeld' = svmHeld
    BY <1>2 DEF StxrUnlock, Goto, svmVars
  <2>2. l \in held[c]
    BY <1>2, <2>1 DEF LockInv
  <2>3. Owner(l) = c
    BY <2>2, OwnerIsHolder
  <2>4. l \notin svmHeld' /\ \A d \in Cpus : l \notin held'[d]
    BY <2>1, <2>2 DEF LockInv, MutualExclusion
  <2>5. Owner(l)' = Nobody
    BY <2>4 DEF Owner
  <2>6. [k \in Locks |-> Owner(k)]' = [[k \in Locks |-> Owner(k)] EXCEPT ![l] = Nobody]
    BY <2>1, <2>5, OneOwnerChanges
  <2> QED BY <2>3, <2>6 DEF Abstract!Release
<1>3. ASSUME SvmEnter, NEW l \in Locks, l = svmTarget PROVE Abstract!Acquire(Svm, l)
  <2>1. /\ svmPc = "test" /\ PVM \notin word[l]
        /\ svmHeld' = svmHeld \cup {l}
        /\ held' = held
    BY <1>3 DEF SvmEnter, pvmVars
  <2>2. Owner(l) = Nobody
    BY <1>3, <2>1 DEF LockInv, Owner
  <2>3. l \in svmHeld'
    BY <2>1
  <2>4. Owner(l)' = Svm
    BY <2>3 DEF Owner
  <2>5. [k \in Locks |-> Owner(k)]' = [[k \in Locks |-> Owner(k)] EXCEPT ![l] = Svm]
    BY <2>1, <2>4, OneOwnerChanges
  <2> QED BY <2>2, <2>5 DEF Abstract!Acquire
<1>4. ASSUME NEW l \in Locks, SvmUnlock(l) PROVE Abstract!Release(Svm, l)
  <2>1. l \in svmHeld /\ svmHeld' = svmHeld \ {l} /\ held' = held
    BY <1>4 DEF SvmUnlock, Innermost
  <2>2. Owner(l) = Svm
    BY <2>1 DEF Owner
  <2>3. l \notin svmHeld' /\ \A d \in Cpus : l \notin held'[d]
    BY <2>1 DEF LockInv, MutualExclusion
  <2>4. Owner(l)' = Nobody
    BY <2>3 DEF Owner
  <2>5. [k \in Locks |-> Owner(k)]' = [[k \in Locks |-> Owner(k)] EXCEPT ![l] = Nobody]
    BY <2>1, <2>4, OneOwnerChanges
  <2> QED BY <2>2, <2>5 DEF Abstract!Release
<1>5. CASE /\ ~SvmEnter
           /\ \A c \in Cpus : ~StxrLock(c) /\ ~StxrUnlock(c)
           /\ \A l \in Locks : ~SvmUnlock(l)
  <2>1. held' = held /\ svmHeld' = svmHeld
    BY <1>5 DEF Next, PvmStep, SvmStep, vars, StartLock, StartUnlock, LdaxrZero, LdaxrUnlock,
      StxrFails, LoseReservation, CheckSvm, SvmSetBit, SvmSleep, SvmWake, SvmTakeIrq,
      pvmVars, svmVars
  <2>2. \A l \in Locks : Owner(l)' = Owner(l)
    BY <2>1, OwnerUnchanged
  <2> QED BY <2>2
<1>6. \A c \in Cpus : target[c] \in Locks
  OBVIOUS
<1>7. svmTarget \in Locks
  OBVIOUS
<1> QED BY <1>1, <1>2, <1>3, <1>4, <1>5, <1>6, <1>7 DEF Abstract!Next

\* GLOBAL_ATOMIC_STORE on the shared words implements the abstract lock.
THEOREM Refinement == Spec => ImplementsSharedLock
<1>1. Init => Abstract!Init
  BY DEF Init, Abstract!Init, Owner
<1>2. TypeOK /\ LockInv /\ LockInv' /\ [Next]_vars
        => [Abstract!Next]_([l \in Locks |-> Owner(l)])
  BY StepRefines
<1> QED BY <1>1, <1>2, TypeCorrect, LockInvariant, PTL
      DEF Spec, ImplementsSharedLock, Abstract!Spec
=============================================================================
