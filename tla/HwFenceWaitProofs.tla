------------------------- MODULE HwFenceWaitProofs -------------------------
(***************************************************************************)
(* Proofs about HwFenceWait, for any number of clients, fences and arrays, *)
(* any children and any plans.                                             *)
(***************************************************************************)
EXTENDS HwFenceWait, Integers, FiniteSetTheorems, SequenceTheorems, TLAPS

-----------------------------------------------------------------------------
(* Types *)

FencePcs == {"register", "checkFlag", "signal"}
UndoPcs == {"undo", "undoDestroy"}
LinkPcs == {"joinMask", "child", "link"}
EndPcs == {"finish", "joinSignal", "joinDestroy"}
JoinPcs == LinkPcs \cup EndPcs \cup UndoPcs
SlotPcs == {"own", "tell", "drop"}

SlotRec ==
    [valid : BOOLEAN, alloc : Clients \cup {JoinClient, None}, signal : BOOLEAN,
     mask : SUBSET Clients, parents : [1..MaxParents -> Arrays \cup {None}],
     cnt : 0..MaxParents, pending : Int, data : [Clients -> Nat]]

CallRec ==
    [pc : {"idle", "reset", "queues"} \cup FencePcs \cup JoinPcs \cup SlotPcs,
     obj : Keys \cup {None}, i : Nat, sig : BOOLEAN, data : Nat, left : Seq(Keys),
     error : {0, ResetError}, destroy : BOOLEAN, due : SUBSET Clients]

\* A wait is about a fence, a join about an array and one of its children, and
\* a reset has come to the first of the slots that are left.
CallShape(r) ==
    /\ r.pc \in FencePcs => r.obj \in Fences
    /\ r.pc \in JoinPcs => r.obj \in Arrays /\ r.i \in 1..Len(Children[r.obj])
    /\ r.pc \in SlotPcs => r.left # <<>> /\ r.obj = Head(r.left)
    /\ r.pc = "reset" => r.left # <<>>
    /\ r.pc \in {"reset", "own"} => r.i = 1 /\ r.data = 0 /\ r.due = {}
    /\ r.pc = "drop" => r.destroy

GoodCall == {r \in CallRec : CallShape(r)}

\* The type without the sign of pending, which takes counting.
WaitType ==
    /\ slot \in [Keys -> SlotRec]
    /\ call \in [Clients -> GoodCall]
    /\ rxq = [c \in Clients |-> rxq[c]]
    /\ \A c \in Clients : \A p \in rxq[c] :
            p.key \in Keys \cup {None} /\ p.data \in Nat /\ p.error \in Nat
    /\ todo = [c \in Clients |-> todo[c]]
    /\ waiting \in [Clients -> SUBSET Keys]

-----------------------------------------------------------------------------
(* The operators of the model *)

LEMMA FreeSlotType == FreeSlot \in SlotRec
<1>1. 0 \in 0..MaxParents /\ {} \in SUBSET Clients
  <2>1. MaxParents \in Nat
    BY WaitAssumption
  <2> QED BY <2>1
<1>2. [j \in 1..MaxParents |-> None] \in [1..MaxParents -> Arrays \cup {None}]
  OBVIOUS
<1>3. [c \in Clients |-> 0] \in [Clients -> Nat]
  OBVIOUS
<1> QED BY <1>1, <1>2, <1>3 DEF FreeSlot, SlotRec

LEMMA DataOfType == \A c \in Clients : DataOf(c) \in Nat
BY WaitAssumption DEF DataOf

LEMMA NoCallType == NoCall \in GoodCall
<1>1. <<>> \in Seq(Keys)
  OBVIOUS
<1>2. NoCall \in CallRec
  BY <1>1 DEF NoCall, CallRec
<1> QED BY <1>2 DEF NoCall, GoodCall, CallShape, FencePcs, JoinPcs, LinkPcs, EndPcs, UndoPcs, SlotPcs

LEMMA ChildrenType ==
  ASSUME NEW a \in Arrays
  PROVE  /\ Children[a] \in Seq(Fences \cup {Plain})
         /\ Len(Children[a]) \in Nat \ {0}
         /\ \A i \in 1..Len(Children[a]) : Children[a][i] \in Fences \cup {Plain}
<1>1. Children[a] \in Seq(Fences \cup {Plain}) /\ Children[a] # <<>>
  BY WaitAssumption
<1> QED BY <1>1, EmptySeq, ElementOfSeq

\* A payload written is an old one, or one of the fence whose slot it is read from.
LEMMA WritePayload ==
  ASSUME NEW q, NEW k, NEW data, NEW error
  PROVE  /\ \A p \in Write(q, k, data, error) :
                p \in q \/ (p.key \in {k, None} /\ p.data = data /\ p.error = error)
         /\ q \subseteq Write(q, k, data, error)
         /\ slot[k].valid => \E p \in Write(q, k, data, error) : p.key = k
<1> DEFINE key == IF slot[k].valid THEN k ELSE None
           new == [key |-> key, data |-> data, error |-> error,
                   n |-> Cardinality({p \in q : p.key = key})]
<1>1. Write(q, k, data, error) = q \cup {new}
  BY DEF Write
<1>2. new.key = key /\ new.data = data /\ new.error = error
  OBVIOUS
<1>3. key \in {k, None} /\ (slot[k].valid => key = k)
  OBVIOUS
<1> HIDE DEF key, new
<1> QED BY <1>1, <1>2, <1>3

LEMMA HitsType ==
  ASSUME slot \in [Keys -> SlotRec], NEW f \in Keys, NEW a
  PROVE  /\ IsFiniteSet({j \in CountedParents(f) : slot[f].parents[j] = a})
         /\ Hits(f, a) \in Nat
<1> DEFINE S == {j \in CountedParents(f) : slot[f].parents[j] = a}
<1>1. slot[f].cnt \in Nat
  BY WaitAssumption DEF SlotRec
<1>2. IsFiniteSet(1..slot[f].cnt) /\ S \subseteq 1..slot[f].cnt
  BY <1>1, FS_Interval DEF CountedParents
<1> QED BY <1>2, FS_Subset, FS_CardinalityType DEF Hits

\* What _cleanup_join_and_child_fences takes out of a child.
LEMMA RemoveParentType ==
  ASSUME NEW sl \in SlotRec, NEW a
  PROVE  /\ RemoveParent(sl, a) \in SlotRec
         /\ RemoveParent(sl, a).cnt \in 0..sl.cnt
         /\ \A j \in 1..MaxParents : RemoveParent(sl, a).parents[j] =
                IF j \in 1..sl.cnt /\ sl.parents[j] = a THEN None ELSE sl.parents[j]
         /\ \A field \in {"valid", "alloc", "signal", "mask", "pending", "data"} :
                RemoveParent(sl, a)[field] = sl[field]
<1> DEFINE found == {j \in 1..sl.cnt : sl.parents[j] = a}
           ps == [j \in 1..MaxParents |-> IF j \in found THEN None ELSE sl.parents[j]]
           n == sl.cnt - Cardinality(found)
<1>1. sl.cnt \in 0..MaxParents /\ sl.cnt \in Nat /\ MaxParents \in Nat
  BY WaitAssumption DEF SlotRec
<1>2. IsFiniteSet(1..sl.cnt) /\ Cardinality(1..sl.cnt) = sl.cnt
  <2>1. PICK m \in Nat : m = sl.cnt
    BY <1>1
  <2>2. IsFiniteSet(1..m) /\ Cardinality(1..m) = IF 1 > m THEN 0 ELSE m - 1 + 1
    BY FS_Interval
  <2>3. Cardinality(1..m) = m
    BY <2>2
  <2> QED BY <2>1, <2>2, <2>3
<1>3. Cardinality(found) \in Nat /\ Cardinality(found) <= sl.cnt
  BY <1>2, FS_Subset, FS_CardinalityType
<1>4. n \in 0..sl.cnt /\ n \in 0..MaxParents
  BY <1>1, <1>3
<1>5. sl.parents \in [1..MaxParents -> Arrays \cup {None}]
  BY DEF SlotRec
<1>6. ps \in [1..MaxParents -> Arrays \cup {None}]
  BY <1>5
<1>7. RemoveParent(sl, a) = [sl EXCEPT !.cnt = n, !.parents = ps]
  BY DEF RemoveParent
<1> HIDE DEF n, ps
<1>8. /\ RemoveParent(sl, a) \in SlotRec
      /\ RemoveParent(sl, a).cnt = n /\ RemoveParent(sl, a).parents = ps
      /\ \A field \in {"valid", "alloc", "signal", "mask", "pending", "data"} :
            RemoveParent(sl, a)[field] = sl[field]
  BY <1>4, <1>6, <1>7 DEF SlotRec
<1> QED BY <1>4, <1>8 DEF ps

LEMMA LastClientType == LastClient \in Clients /\ \A c \in Clients : c <= LastClient
BY WaitAssumption DEF LastClient

-----------------------------------------------------------------------------
(* Every step keeps the types *)

\* A client writes the record of its own call, and leaves it well formed.
LEMMA CallStepType ==
  ASSUME WaitType, NEW c \in Clients, Start(c) \/ CallStep(c)
  PROVE  \E r \in GoodCall : call' = [call EXCEPT ![c] = r]
<1> USE DEF FencePcs, LinkPcs, EndPcs, UndoPcs, JoinPcs, SlotPcs
<1> DEFINE Written == \E r \in GoodCall : call' = [call EXCEPT ![c] = r]
<1>1. call[c] \in CallRec /\ CallShape(call[c]) /\ NoCall \in GoodCall
  BY NoCallType DEF WaitType, GoodCall
<1>2. ASSUME NEW pc, Goto(c, pc), [call[c] EXCEPT !.pc = pc] \in GoodCall
      PROVE  Written
  BY <1>2 DEF Goto
<1>3. ASSUME NEW ok, Return(c, ok)
      PROVE  Written
  BY <1>1, <1>3 DEF Return
<1>4. ASSUME NEW f \in Keys, WaitFence(c, f)
      PROVE  Written
  <2> DEFINE r == [NoCall EXCEPT !.pc = "register", !.obj = f]
  <2>1. f \in Fences
    BY <1>4 DEF WaitFence
  <2>2. r \in CallRec
    BY <1>1 DEF GoodCall, CallRec
  <2>3. r.pc = "register" /\ r.obj = f
    BY DEF NoCall
  <2> HIDE DEF r
  <2>4. r \in GoodCall
    BY <2>1, <2>2, <2>3 DEF GoodCall, CallShape
  <2> QED BY <1>1, <1>4, <2>4 DEF WaitFence, Begin, r
<1>5. ASSUME NEW a \in Keys, WaitArray(c, a)
      PROVE  Written
  <2>1. a \in Arrays
    BY <1>5 DEF WaitArray
  <2>2. 1 \in 1..Len(Children[a])
    BY <2>1, ChildrenType
  <2>3. [NoCall EXCEPT !.pc = "joinMask", !.obj = a] \in GoodCall
    BY <1>1, <2>1, <2>2, ZenonT(30) DEF GoodCall, CallRec, CallShape, NoCall
  <2> QED BY <1>1, <1>5, <2>3 DEF WaitArray, Begin
<1>6. ASSUME NEW error \in {0, ResetError}, NEW destroy \in BOOLEAN, StartReset(c, error, destroy)
      PROVE  Written
  <2>1. [NoCall EXCEPT !.pc = "reset", !.left = Order, !.error = error, !.destroy = destroy]
            \in GoodCall
    <3>1. Order \in Seq(Keys) /\ Order # <<>>
      BY WaitAssumption
    <3> DEFINE r == [NoCall EXCEPT !.pc = "reset", !.left = Order, !.error = error,
                                   !.destroy = destroy]
    <3>2. r \in CallRec
      BY <1>1, <3>1 DEF GoodCall, CallRec
    <3>3. r.pc = "reset" /\ r.left = Order /\ r.i = 1 /\ r.data = 0 /\ r.due = {}
      BY DEF NoCall
    <3> HIDE DEF r
    <3>4. r \in GoodCall
      BY <3>1, <3>2, <3>3 DEF GoodCall, CallShape
    <3> QED BY <3>4 DEF r
  <2> QED BY <1>6, <2>1 DEF StartReset, Begin
<1>7. CASE Register(c)
  BY <1>1, <1>2, <1>7, ZenonT(30) DEF Register, At, GoodCall, CallRec, CallShape
<1>8. CASE CheckFlag(c)
  BY <1>1, <1>2, <1>3, <1>8, ZenonT(30) DEF CheckFlag, At, GoodCall, CallRec, CallShape
<1>9. CASE SignalSelf(c)
  BY <1>3, <1>9 DEF SignalSelf
<1>10. CASE JoinMask(c)
  BY <1>1, <1>2, <1>10, ZenonT(30) DEF JoinMask, At, GoodCall, CallRec, CallShape
<1>11. CASE FindChild(c)
  <2>1. PICK pc \in {"link", "undo"} : Goto(c, pc)
    BY <1>11 DEF FindChild
  <2>2. call[c].obj \in Arrays /\ call[c].i \in 1..Len(Children[call[c].obj])
    BY <1>1, <1>11 DEF FindChild, At, CallShape
  <2> DEFINE r == [call[c] EXCEPT !.pc = pc]
  <2>3. r \in CallRec /\ r.pc = pc /\ r.obj = call[c].obj /\ r.i = call[c].i
    BY <1>1 DEF CallRec
  <2> HIDE DEF r
  <2>4. r \in GoodCall
    BY <2>2, <2>3 DEF GoodCall, CallShape
  <2> QED BY <1>2, <2>1, <2>4 DEF r
<1>12. CASE LinkChild(c)
  <2>1. call[c].pc = "link" /\ call[c].obj \in Arrays /\ call[c].i \in 1..Len(Children[call[c].obj])
    BY <1>1, <1>12 DEF LinkChild, At, CallShape
  <2>2. Len(Children[call[c].obj]) \in Nat
    BY <2>1, ChildrenType
  <2>3. ASSUME NEW sig \in BOOLEAN, NextChild(c, sig)
        PROVE  Written
    <3> DEFINE last == call[c].i = Len(Children[call[c].obj])
               pc == IF last THEN "finish" ELSE "child"
               i == IF last THEN call[c].i ELSE call[c].i + 1
    <3>1. call' = [call EXCEPT ![c] = [call[c] EXCEPT !.pc = pc, !.i = i, !.sig = sig]]
      BY <2>3 DEF NextChild
    <3>2. pc \in {"finish", "child"} /\ i \in Nat /\ i \in 1..Len(Children[call[c].obj])
      BY <2>1, <2>2
    <3> HIDE DEF pc, i
    <3>3. [call[c] EXCEPT !.pc = pc, !.i = i, !.sig = sig] \in GoodCall
      BY <1>1, <2>1, <3>2, ZenonT(30) DEF GoodCall, CallRec, CallShape
    <3> QED BY <3>1, <3>3
  <2>4. CASE slot[ThisChild(c)].signal /\ CountSignalledChild(c, ThisChild(c))
    <3>1. (call[c].sig \/ slot[call[c].obj].pending = 1) \in BOOLEAN
      BY <1>1 DEF CallRec
    <3> QED BY <2>3, <2>4, <3>1 DEF CountSignalledChild
  <2>5. CASE AddParent(c, ThisChild(c))
    BY <1>1, <2>3, <2>5 DEF AddParent, CallRec
  <2>6. CASE Goto(c, "undo")
    BY <1>1, <1>2, <2>1, <2>6, ZenonT(30) DEF GoodCall, CallRec, CallShape
  <2> QED BY <1>12, <2>4, <2>5, <2>6 DEF LinkChild
<1>13. CASE FinishArray(c)
  BY <1>1, <1>2, <1>3, <1>13, ZenonT(30) DEF FinishArray, At, GoodCall, CallRec, CallShape
<1>14. CASE SignalJoin(c)
  BY <1>1, <1>2, <1>14, ZenonT(30) DEF SignalJoin, At, GoodCall, CallRec, CallShape
<1>15. CASE DestroyJoin(c) \/ UndoJoin(c)
  BY <1>3, <1>15 DEF DestroyJoin, UndoJoin
<1>16. CASE UndoChild(c)
  <2>1. call[c].pc = "undo" /\ call[c].obj \in Arrays /\ call[c].i \in 1..Len(Children[call[c].obj])
    BY <1>1, <1>16 DEF UndoChild, At, CallShape
  <2>2. Len(Children[call[c].obj]) \in Nat
    BY <2>1, ChildrenType
  <2>3. CASE call[c].i = 1
    <3>1. [call[c] EXCEPT !.pc = "undoDestroy"] \in GoodCall
      BY <1>1, <2>1 DEF GoodCall, CallRec, CallShape
    <3> QED BY <1>16, <2>3, <3>1 DEF UndoChild
  <2>4. CASE call[c].i # 1
    <3>1. call[c].i - 1 \in Nat /\ call[c].i - 1 \in 1..Len(Children[call[c].obj])
      BY <2>1, <2>2, <2>4
    <3>2. [call[c] EXCEPT !.i = call[c].i - 1] \in GoodCall
      BY <1>1, <2>1, <3>1 DEF GoodCall, CallRec, CallShape
    <3>3. call' = [call EXCEPT ![c] = [call[c] EXCEPT !.i = call[c].i - 1]]
      BY <1>16, <2>4, Zenon DEF UndoChild
    <3> QED BY <3>2, <3>3
  <2> QED BY <2>3, <2>4
<1>17. CASE ClearWaitBit(c)
  <2>1. call[c].pc = "reset" /\ call[c].left # <<>> /\ call[c].left \in Seq(Keys)
    BY <1>1, <1>17 DEF ClearWaitBit, At, CallRec, CallShape
  <2>2. Head(call[c].left) \in Keys
    BY <2>1, HeadTailProperties
  <2>3. [call[c] EXCEPT !.pc = "own", !.obj = Head(call[c].left)] \in GoodCall
    BY <1>1, <2>1, <2>2 DEF GoodCall, CallRec, CallShape
  <2> QED BY <1>17, <2>3 DEF ClearWaitBit
<1>18. ASSUME call[c].pc \in SlotPcs, NextSlot(c)
       PROVE  Written
  <2>1. call[c].left # <<>> /\ call[c].left \in Seq(Keys)
    BY <1>1, <1>18 DEF CallRec, CallShape
  <2>2. Tail(call[c].left) \in Seq(Keys)
    BY <2>1, HeadTailProperties
  <2> DEFINE left == Tail(call[c].left)
             Record(pc) == [call[c] EXCEPT !.pc = pc, !.left = left, !.obj = None,
                                           !.i = 1, !.data = 0, !.due = {}]
  <2>3. ASSUME NEW pc \in {"queues", "reset"}
        PROVE  /\ Record(pc) \in CallRec /\ Record(pc).pc = pc /\ Record(pc).left = left
               /\ Record(pc).i = 1 /\ Record(pc).data = 0 /\ Record(pc).due = {}
    BY <1>1, <2>2 DEF CallRec
  <2>4. CASE left = <<>>
    <3> DEFINE r == Record("queues")
    <3>1. r \in CallRec /\ r.pc = "queues"
      BY <2>3
    <3>2. call' = [call EXCEPT ![c] = r]
      BY <1>18, <2>4 DEF NextSlot
    <3> HIDE DEF r
    <3>3. r \in GoodCall
      BY <3>1 DEF GoodCall, CallShape
    <3> QED BY <3>2, <3>3
  <2>5. CASE left # <<>>
    <3> DEFINE r == Record("reset")
    <3>1. r \in CallRec /\ r.pc = "reset" /\ r.left # <<>> /\ r.i = 1 /\ r.data = 0 /\ r.due = {}
      BY <2>3, <2>5
    <3>2. call' = [call EXCEPT ![c] = r]
      BY <1>18, <2>5 DEF NextSlot
    <3> HIDE DEF r
    <3>3. r \in GoodCall
      BY <3>1 DEF GoodCall, CallShape
    <3> QED BY <3>2, <3>3
  <2> QED BY <2>4, <2>5
<1>19. CASE CheckOwn(c)
  <2>1. call[c].pc = "own" /\ call[c].left # <<>> /\ call[c].obj = Head(call[c].left)
    BY <1>1, <1>19 DEF CheckOwn, At, CallShape
  <2>2. CASE NextSlot(c)
    BY <1>18, <2>1, <2>2
  <2>3. CASE call' = [call EXCEPT ![c].pc = "tell", ![c].due = slot[call[c].obj].mask]
    <3> DEFINE mask == slot[call[c].obj].mask
               r == [call[c] EXCEPT !.pc = "tell", !.due = mask]
    <3>1. call[c].left \in Seq(Keys)
      BY <1>1 DEF CallRec
    <3>2. call[c].obj \in Keys
      BY <2>1, <3>1, HeadTailProperties
    <3>3. mask \in SUBSET Clients
      BY <3>2 DEF WaitType, SlotRec
    <3>4. call' = [call EXCEPT ![c] = r]
      BY <2>3
    <3> HIDE DEF mask
    <3>5. r \in CallRec /\ r.pc = "tell" /\ r.left = call[c].left /\ r.obj = call[c].obj
      BY <1>1, <3>3 DEF CallRec
    <3> HIDE DEF r
    <3>6. r \in GoodCall
      BY <2>1, <3>5 DEF GoodCall, CallShape
    <3> QED BY <3>4, <3>6
  <2>4. CASE call[c].destroy /\ Goto(c, "drop")
    BY <1>1, <1>2, <2>1, <2>4, ZenonT(30) DEF GoodCall, CallRec, CallShape
  <2> QED BY <1>19, <2>2, <2>3, <2>4 DEF CheckOwn
<1>20. CASE TellWaiter(c)
  <2> DEFINE w == call[c].i
             data == IF w \in Clients /\ w \in slot[call[c].obj].mask THEN DataFor(c, w) ELSE call[c].data
             nextPc == IF w = LastClient THEN "drop" ELSE "tell"
             Record(pc) == [call[c] EXCEPT !.pc = pc, !.i = w + 1, !.data = data]
  <2>1. call[c].pc = "tell" /\ call[c].left # <<>> /\ call[c].obj = Head(call[c].left)
    BY <1>1, <1>20 DEF TellWaiter, At, CallShape
  <2>2. Head(call[c].left) \in Keys
    BY <1>1, <2>1, HeadTailProperties DEF CallRec
  <2>3. data \in Nat
    <3>1. slot[call[c].obj].data \in [Clients -> Nat]
      BY <2>1, <2>2 DEF WaitType, SlotRec
    <3> QED BY <1>1, <3>1 DEF DataFor, CallRec
  <2>4. ASSUME NEW pc \in {"tell", "drop"}, pc = "drop" => call[c].destroy
        PROVE  Record(pc) \in GoodCall
    <3>1. Record(pc) \in CallRec
      <4>1. w + 1 \in Nat
        BY <1>1 DEF CallRec
      <4> HIDE DEF data
      <4> QED BY <1>1, <2>3, <4>1 DEF CallRec
    <3> HIDE DEF data
    <3>2. /\ Record(pc).pc = pc /\ Record(pc).left = call[c].left
          /\ Record(pc).obj = call[c].obj /\ Record(pc).destroy = call[c].destroy
      BY <1>1 DEF CallRec
    <3>3. CallShape(Record(pc))
      <4> HIDE DEF Record
      <4> QED BY <2>1, <2>4, <3>2 DEF CallShape
    <3> QED BY <3>1, <3>3 DEF GoodCall
  <2>5. CASE w = LastClient /\ ~call[c].destroy
    BY <1>18, <1>20, <2>1, <2>5 DEF TellWaiter
  <2>6. CASE ~(w = LastClient /\ ~call[c].destroy)
    <3>1. call' = [call EXCEPT ![c] = Record(nextPc)]
      BY <1>20, <2>6, Zenon DEF TellWaiter
    <3>2. nextPc \in {"tell", "drop"} /\ (nextPc = "drop" => call[c].destroy)
      BY <1>1, <2>6 DEF CallRec
    <3> HIDE DEF nextPc
    <3>3. Record(nextPc) \in GoodCall
      BY <2>4, <3>2
    <3> QED BY <3>1, <3>3
  <2> QED BY <2>5, <2>6
<1>21. CASE DropFence(c)
  BY <1>18, <1>21 DEF DropFence, At
<1>22. CASE ResetQueues(c)
  BY <1>1, <1>22 DEF ResetQueues
<1>23. CASE Start(c)
  BY <1>4, <1>5, <1>6, <1>23 DEF Start
<1> QED
  BY <1>7, <1>8, <1>9, <1>10, <1>11, <1>12, <1>13, <1>14, <1>15, <1>16, <1>17, <1>19,
     <1>20, <1>21, <1>22, <1>23 DEF CallStep

LEMMA SlotStepType ==
  ASSUME WaitType, [Next]_vars
  PROVE  slot' \in [Keys -> SlotRec]
<1> USE DEF FencePcs, LinkPcs, EndPcs, UndoPcs, JoinPcs, SlotPcs
<1> DEFINE Typed == slot' \in [Keys -> SlotRec]
<1>1. slot \in [Keys -> SlotRec] /\ FreeSlot \in SlotRec
  BY FreeSlotType DEF WaitType
<1>2. \A c \in Clients : call[c] \in CallRec /\ CallShape(call[c])
  BY DEF WaitType, GoodCall
<1>3. ASSUME NEW k \in Keys, NEW r \in SlotRec, slot' = [slot EXCEPT ![k] = r]
      PROVE  Typed
  BY <1>1, <1>3
<1>4. ASSUME UNCHANGED slot
      PROVE  Typed
  BY <1>1, <1>4
<1>5. ASSUME NEW k \in Keys, NEW c \in Clients
      PROVE  NewData(k, c) \in [Clients -> Nat]
  BY <1>1, DataOfType DEF NewData, SlotRec
<1>6. ASSUME NEW c \in Clients, Start(c)
      PROVE  Typed
  <2>1. ASSUME NEW a \in Arrays,
               slot' = [slot EXCEPT ![a] = [FreeSlot EXCEPT !.valid = TRUE, !.alloc = JoinClient,
                                                            !.pending = Len(Children[a])]]
        PROVE  Typed
    <3>1. Len(Children[a]) \in Int
      BY <2>1, ChildrenType
    <3>2. [FreeSlot EXCEPT !.valid = TRUE, !.alloc = JoinClient, !.pending = Len(Children[a])]
            \in SlotRec
      BY <1>1, <3>1 DEF SlotRec
    <3> QED BY <1>3, <2>1, <3>2 DEF Keys
  <2> QED BY <1>4, <1>6, <2>1 DEF Start, WaitFence, WaitArray, StartReset
<1>7. ASSUME NEW c \in Clients, Register(c)
      PROVE  Typed
  <2>1. call[c].obj \in Keys
    BY <1>2, <1>7 DEF Register, At, CallShape, Keys
  <2>2. [slot[call[c].obj] EXCEPT !.mask = slot[call[c].obj].mask \cup {c},
                                  !.data = NewData(call[c].obj, c)] \in SlotRec
    BY <1>1, <1>5, <2>1 DEF SlotRec
  <2>3. slot' = [slot EXCEPT ![call[c].obj] =
            [slot[call[c].obj] EXCEPT !.mask = slot[call[c].obj].mask \cup {c},
                                      !.data = NewData(call[c].obj, c)]]
    BY <1>1, <1>7, <2>1 DEF Register
  <2> QED BY <1>3, <2>1, <2>2, <2>3
<1>8. ASSUME NEW c \in Clients, JoinMask(c)
      PROVE  Typed
  BY <1>1, <1>2, <1>8, ZenonT(30) DEF JoinMask, SlotRec
<1>9. ASSUME NEW c \in Clients, LinkChild(c)
      PROVE  Typed
  <2> DEFINE a == call[c].obj
             f == ThisChild(c)
  <2>1. a \in Keys
    BY <1>2, <1>9 DEF LinkChild, At, CallShape, Keys
  <2>2. CASE CountSignalledChild(c, f)
    <3>1. [slot[a] EXCEPT !.pending = slot[a].pending - 1] \in SlotRec
      <4>1. slot[a] \in SlotRec
        BY <1>1, <2>1
      <4> HIDE DEF a
      <4>2. slot[a].pending - 1 \in Int
        BY <4>1 DEF SlotRec
      <4> QED BY <4>1, <4>2 DEF SlotRec
    <3> QED BY <1>3, <2>1, <2>2, <3>1 DEF CountSignalledChild
  <2>3. CASE ~TooManyParents(slot[f].cnt + 1) /\ AddParent(c, f)
    <3>1. CASE f \in Keys
      <4>1. slot[f].cnt + 1 \in 1..MaxParents /\ slot[f].cnt + 1 \in 0..MaxParents
        <5>1. slot[f].cnt \in 0..MaxParents /\ ~(slot[f].cnt + 1 >= MaxParents) /\ MaxParents \in Nat
          BY <1>1, <2>3, <3>1, WaitAssumption DEF TooManyParents, SlotRec
        <5> HIDE DEF f
        <5> QED BY <5>1
      <4>2. a \in Arrays
        BY <1>2, <1>9 DEF LinkChild, At, CallShape
      <4>3. [slot[f].parents EXCEPT ![slot[f].cnt + 1] = a] \in [1..MaxParents -> Arrays \cup {None}]
        BY <1>1, <3>1, <4>1, <4>2 DEF SlotRec
      <4>4. [slot[f] EXCEPT !.cnt = slot[f].cnt + 1,
                            !.parents = [slot[f].parents EXCEPT ![slot[f].cnt + 1] = a]] \in SlotRec
        BY <1>1, <3>1, <4>1, <4>3 DEF SlotRec
      <4>5. slot' = [slot EXCEPT ![f] =
              [slot[f] EXCEPT !.cnt = slot[f].cnt + 1,
                              !.parents = [slot[f].parents EXCEPT ![slot[f].cnt + 1] = a]]]
        BY <1>1, <2>3, <3>1 DEF AddParent
      <4> QED BY <1>3, <3>1, <4>4, <4>5
    <3>2. CASE f \notin Keys
      <4>1. slot' = slot
        BY <1>1, <2>3, <3>2 DEF AddParent
      <4> QED BY <1>4, <4>1
    <3> QED BY <3>1, <3>2
  <2> QED BY <1>4, <1>9, <2>2, <2>3 DEF LinkChild
<1>10. ASSUME NEW c \in Clients, FinishArray(c)
       PROVE  Typed
  <2>1. call[c].obj \in Keys
    BY <1>2, <1>10 DEF FinishArray, At, CallShape, Keys
  <2>2. [slot[call[c].obj] EXCEPT !.data = NewData(call[c].obj, c)] \in SlotRec
    BY <1>1, <1>5, <2>1 DEF SlotRec
  <2> QED BY <1>3, <1>10, <2>1, <2>2 DEF FinishArray
<1>11. ASSUME NEW c \in Clients, DestroyJoin(c) \/ UndoJoin(c)
       PROVE  Typed
  BY <1>1, <1>11 DEF DestroyJoin, UndoJoin
<1>12. ASSUME NEW c \in Clients, UndoChild(c)
       PROVE  Typed
  <2>1. CASE UNCHANGED slot
    BY <1>4, <2>1
  <2>2. CASE ThisChild(c) # Plain
             /\ slot' = [slot EXCEPT ![ThisChild(c)] = RemoveParent(@, call[c].obj)]
    <3>1. ThisChild(c) \in Keys
      BY <1>2, <1>12, <2>2, ChildrenType DEF UndoChild, At, CallShape, ThisChild, Keys
    <3>2. RemoveParent(slot[ThisChild(c)], call[c].obj) \in SlotRec
      BY <1>1, <3>1, RemoveParentType
    <3> QED BY <1>3, <2>2, <3>1, <3>2
  <2> QED BY <1>12, <2>1, <2>2 DEF UndoChild
<1>13. ASSUME NEW c \in Clients, ClearWaitBit(c)
       PROVE  Typed
  <2> DEFINE k == Head(call[c].left)
  <2>1. k \in Keys
    BY <1>2, <1>13, HeadTailProperties DEF ClearWaitBit, At, CallRec, CallShape
  <2>2. [slot[k] EXCEPT !.mask = slot[k].mask \ {c}] \in SlotRec
    BY <1>1, <2>1 DEF SlotRec
  <2>3. slot' = [slot EXCEPT ![k] = [slot[k] EXCEPT !.mask = slot[k].mask \ {c}]]
    BY <1>1, <1>13, <2>1 DEF ClearWaitBit
  <2> QED BY <1>3, <2>1, <2>2, <2>3
<1>14. ASSUME NEW c \in Clients, DropFence(c)
       PROVE  Typed
  BY <1>1, <1>14 DEF DropFence
<1>15. ASSUME NEW f \in Fences, CtlSignal(f)
       PROVE  Typed
  <2>3. ASSUME NEW sl \in SlotRec, NEW n \in Int
        PROVE  [sl EXCEPT !.pending = n] \in SlotRec /\ [sl EXCEPT !.signal = TRUE, !.pending = n] \in SlotRec
    BY DEF SlotRec
  <2> DEFINE done == {a \in Arrays : slot[a].valid /\ Hits(f, a) > 0 /\ slot[a].pending = Hits(f, a)}
             fired == {f} \cup done
             value(k) == IF k \in fired THEN [slot[k] EXCEPT !.signal = TRUE, !.pending = 0]
                         ELSE IF k \in Arrays /\ slot[k].valid
                         THEN [slot[k] EXCEPT !.pending = slot[k].pending - Hits(f, k)]
                         ELSE slot[k]
  <2>1. slot' = [k \in Keys |-> value(k)]
    BY <1>15 DEF CtlSignal
  <2>2. ASSUME NEW k \in Keys
        PROVE  value(k) \in SlotRec
    <3>1. slot[k] \in SlotRec /\ Hits(f, k) \in Nat
      <4>1. f \in Keys
        BY DEF Keys
      <4> QED BY <1>1, <4>1, HitsType
    <3>2. [slot[k] EXCEPT !.signal = TRUE, !.pending = 0] \in SlotRec
      <4>1. PICK n \in Int : n = 0
        OBVIOUS
      <4>2. [slot[k] EXCEPT !.signal = TRUE, !.pending = n] \in SlotRec
        BY <2>3, <3>1
      <4> QED BY <4>1, <4>2
    <3>3. [slot[k] EXCEPT !.pending = slot[k].pending - Hits(f, k)] \in SlotRec
      <4>1. slot[k].pending - Hits(f, k) \in Int
        BY <3>1 DEF SlotRec
      <4> QED BY <2>3, <3>1, <4>1
    <3> HIDE DEF fired
    <3> QED BY <3>1, <3>2, <3>3
  <2> HIDE DEF value
  <2> QED BY <2>1, <2>2
<1>16. ASSUME NEW c \in Clients, CallStep(c)
       PROVE  Typed
  <2>1. CASE CheckFlag(c) \/ SignalSelf(c) \/ FindChild(c) \/ SignalJoin(c)
             \/ CheckOwn(c) \/ TellWaiter(c) \/ ResetQueues(c)
    BY <1>4, <2>1 DEF CheckFlag, SignalSelf, FindChild, SignalJoin, CheckOwn, TellWaiter, ResetQueues
  <2> QED BY <1>7, <1>8, <1>9, <1>10, <1>11, <1>12, <1>13, <1>14, <1>16, <2>1 DEF CallStep
<1>17. CASE UNCHANGED vars
  BY <1>4, <1>17 DEF vars
<1> QED BY <1>6, <1>15, <1>16, <1>17 DEF Next

\* What the controller writes to the waiters of a fence and of the arrays it ends.
LEMMA CtlPayloads ==
  ASSUME NEW f \in Fences, CtlSignal(f), NEW w \in Clients
  PROVE  /\ rxq[w] \subseteq rxq'[w]
         /\ \A p \in rxq'[w] : \/ p \in rxq[w]
                               \/ \E k \in Keys : /\ w \in slot[k].mask
                                                  /\ p.key \in {k, None}
                                                  /\ p.data = slot[k].data[w]
                                                  /\ p.error = 0
         /\ w \in slot[f].mask => \E p \in rxq'[w] : p.key = f
<1> DEFINE done == {a \in Arrays : slot[a].valid /\ Hits(f, a) > 0 /\ slot[a].pending = Hits(f, a)}
           fired == {f} \cup done
           mine == {k \in fired : w \in slot[k].mask}
           Payloads(k) == Write(rxq[w], k, slot[k].data[w], 0)
<1>1. slot[f].valid /\ rxq'[w] = rxq[w] \cup UNION {Payloads(k) : k \in mine}
  BY DEF CtlSignal
<1>2. fired \subseteq Keys /\ f \in fired
  BY DEF Keys
<1> HIDE DEF done, fired
<1>3. \A k \in mine : /\ \A p \in Payloads(k) :
                            p \in rxq[w] \/ (p.key \in {k, None} /\ p.data = slot[k].data[w] /\ p.error = 0)
                      /\ slot[k].valid => \E p \in Payloads(k) : p.key = k
  BY WritePayload
<1> HIDE DEF Payloads
<1>4. \A p \in rxq'[w] : p \in rxq[w] \/ \E k \in mine : p \in Payloads(k)
  BY <1>1
<1>5. \A k \in mine : Payloads(k) \subseteq rxq'[w]
  BY <1>1
<1>6. \A p \in rxq'[w] : \/ p \in rxq[w]
                         \/ \E k \in Keys : /\ w \in slot[k].mask
                                            /\ p.key \in {k, None}
                                            /\ p.data = slot[k].data[w]
                                            /\ p.error = 0
  BY <1>2, <1>3, <1>4
<1>7. w \in slot[f].mask => \E p \in rxq'[w] : p.key = f
  BY <1>1, <1>2, <1>3, <1>5
<1> QED BY <1>1, <1>6, <1>7

\* Whatever a step writes to a queue has the type of a payload.
LEMMA RxqStepType ==
  ASSUME WaitType, [Next]_vars
  PROVE  /\ rxq' = [w \in Clients |-> rxq'[w]]
         /\ \A w \in Clients : \A p \in rxq'[w] :
                p.key \in Keys \cup {None} /\ p.data \in Nat /\ p.error \in Nat
<1> DEFINE Typed(q) == \A p \in q : p.key \in Keys \cup {None} /\ p.data \in Nat /\ p.error \in Nat
           TypedQueues == rxq' = [w \in Clients |-> rxq'[w]] /\ \A w \in Clients : Typed(rxq'[w])
<1>1. rxq = [w \in Clients |-> rxq[w]] /\ \A w \in Clients : Typed(rxq[w])
  BY DEF WaitType
<1>2. slot \in [Keys -> SlotRec] /\ \A c \in Clients : call[c] \in CallRec /\ CallShape(call[c])
  BY DEF WaitType, GoodCall
<1>3. ASSUME UNCHANGED rxq
      PROVE  TypedQueues
  BY <1>1, <1>3
<1>4. ASSUME NEW w \in Clients, NEW q, Typed(q), rxq' = [rxq EXCEPT ![w] = q]
      PROVE  TypedQueues
  BY <1>1, <1>4
<1>5. ASSUME NEW w \in Clients, NEW k \in Keys, NEW data \in Nat, NEW error \in Nat
      PROVE  Typed(Write(rxq[w], k, data, error))
  BY <1>1, WritePayload
<1> HIDE DEF Typed
<1>6. ASSUME NEW c \in Clients, SignalSelf(c)
      PROVE  TypedQueues
  <2>1. call[c].obj \in Keys
    BY <1>2, <1>6 DEF SignalSelf, At, CallShape, FencePcs, Keys
  <2> QED BY <1>4, <1>5, <1>6, <2>1, DataOfType DEF SignalSelf
<1>7. ASSUME NEW c \in Clients, SignalJoin(c)
      PROVE  TypedQueues
  <2>1. call[c].obj \in Keys
    BY <1>2, <1>7 DEF SignalJoin, At, CallShape, JoinPcs, EndPcs, Keys
  <2> QED BY <1>4, <1>5, <1>7, <2>1, DataOfType DEF SignalJoin
<1>8. ASSUME NEW c \in Clients, TellWaiter(c)
      PROVE  TypedQueues
  <2> DEFINE w == call[c].i
             k == call[c].obj
  <2>1. k \in Keys
    BY <1>2, <1>8, HeadTailProperties DEF TellWaiter, At, CallShape, SlotPcs, CallRec
  <2>2. CASE w \in Clients /\ rxq' = [rxq EXCEPT ![w] = Write(rxq[w], k, DataFor(c, w), call[c].error)]
    <3>1. DataFor(c, w) \in Nat
      BY <1>2, <2>1, <2>2 DEF DataFor, SlotRec, CallRec
    <3>2. call[c].error \in Nat
      BY <1>2 DEF CallRec, ResetError
    <3> HIDE DEF w, k
    <3> QED BY <1>4, <1>5, <2>1, <2>2, <3>1, <3>2
  <2>3. CASE UNCHANGED rxq
    BY <1>3, <2>3
  <2> QED BY <1>8, <2>2, <2>3 DEF TellWaiter
<1>9. ASSUME NEW c \in Clients, ResetQueues(c)
      PROVE  TypedQueues
  <2>1. Typed({})
    BY DEF Typed
  <2> QED BY <1>4, <1>9, <2>1 DEF ResetQueues
<1>10. ASSUME NEW f \in Fences, CtlSignal(f)
       PROVE  TypedQueues
  <2>1. rxq' = [w \in Clients |-> rxq'[w]]
    BY <1>10 DEF CtlSignal
  <2>2. ASSUME NEW w \in Clients
        PROVE  Typed(rxq'[w])
    <3>1. \A k \in Keys : slot[k].data[w] \in Nat
      BY <1>2 DEF SlotRec
    <3> QED BY <1>1, <1>10, <3>1, CtlPayloads DEF Typed
  <2> QED BY <2>1, <2>2
<1>11. ASSUME NEW c \in Clients, CallStep(c)
       PROVE  TypedQueues
  <2>1. CASE Register(c) \/ CheckFlag(c) \/ JoinMask(c) \/ FindChild(c) \/ LinkChild(c)
             \/ FinishArray(c) \/ DestroyJoin(c) \/ UndoChild(c) \/ UndoJoin(c)
             \/ ClearWaitBit(c) \/ CheckOwn(c) \/ DropFence(c)
    BY <1>3, <2>1 DEF Register, CheckFlag, JoinMask, FindChild, LinkChild, FinishArray, DestroyJoin,
                      UndoChild, UndoJoin, ClearWaitBit, CheckOwn, DropFence
  <2> QED BY <1>6, <1>7, <1>8, <1>9, <1>11, <2>1 DEF CallStep
<1>12. ASSUME NEW c \in Clients, Start(c)
       PROVE  TypedQueues
  BY <1>3, <1>12 DEF Start, WaitFence, WaitArray, StartReset
<1>13. ASSUME UNCHANGED vars
       PROVE  TypedQueues
  <2>1. UNCHANGED rxq
    BY <1>13 DEF vars
  <2> QED BY <1>3, <2>1
<1> HIDE DEF TypedQueues
<1>14. TypedQueues
  BY <1>10, <1>11, <1>12, <1>13 DEF Next
<1> QED BY <1>14 DEF TypedQueues, Typed

LEMMA WaitingStepType ==
  ASSUME WaitType, [Next]_vars
  PROVE  /\ todo' = [c \in Clients |-> todo'[c]]
         /\ waiting' \in [Clients -> SUBSET Keys]
<1> DEFINE Typed == waiting' \in [Clients -> SUBSET Keys]
<1>1. todo = [c \in Clients |-> todo[c]] /\ waiting \in [Clients -> SUBSET Keys]
  BY DEF WaitType
<1>2. \A c \in Clients : call[c] \in CallRec /\ CallShape(call[c])
  BY DEF WaitType, GoodCall
<1>3. ASSUME UNCHANGED waiting
      PROVE  Typed
  BY <1>1, <1>3
<1>4. ASSUME NEW c \in Clients, NEW ok \in BOOLEAN, Return(c, ok), call[c].obj \in Keys
      PROVE  Typed
  <2>1. [waiting EXCEPT ![c] = waiting[c] \cup {call[c].obj}] \in [Clients -> SUBSET Keys]
    BY <1>1, <1>4
  <2> QED BY <1>1, <1>4, <2>1 DEF Return
<1>5. ASSUME NEW c \in Clients, Start(c)
      PROVE  todo' = [d \in Clients |-> todo'[d]] /\ Typed
  <2>1. \E what : todo' = [todo EXCEPT ![c] = todo[c] \ {what}]
    BY <1>5 DEF Start, WaitFence, WaitArray, StartReset, Begin
  <2>2. UNCHANGED waiting
    BY <1>5 DEF Start, WaitFence, WaitArray, StartReset
  <2> QED BY <1>1, <1>3, <2>1, <2>2
<1>6. ASSUME NEW c \in Clients, CheckFlag(c)
      PROVE  Typed
  <2>1. call[c].obj \in Keys
    BY <1>2, <1>6 DEF CheckFlag, At, CallShape, FencePcs, Keys
  <2> QED BY <1>3, <1>4, <1>6, <2>1 DEF CheckFlag
<1>7. ASSUME NEW c \in Clients, SignalSelf(c)
      PROVE  Typed
  <2>1. call[c].obj \in Keys
    BY <1>2, <1>7 DEF SignalSelf, At, CallShape, FencePcs, Keys
  <2> QED BY <1>4, <1>7, <2>1 DEF SignalSelf
<1>8. ASSUME NEW c \in Clients, FinishArray(c) \/ DestroyJoin(c) \/ UndoJoin(c)
      PROVE  Typed
  <2>1. call[c].obj \in Keys
    BY <1>2, <1>8 DEF FinishArray, DestroyJoin, UndoJoin, At, CallShape, JoinPcs, EndPcs, UndoPcs, Keys
  <2> QED BY <1>3, <1>4, <1>8, <2>1 DEF FinishArray, DestroyJoin, UndoJoin
<1>9. ASSUME NEW c \in Clients, ClearWaitBit(c)
      PROVE  Typed
  BY <1>1, <1>9 DEF ClearWaitBit
<1>10. ASSUME NEW c \in Clients, CallStep(c)
       PROVE  Typed /\ UNCHANGED todo
  <2>1. CASE Register(c) \/ JoinMask(c) \/ FindChild(c) \/ LinkChild(c) \/ SignalJoin(c)
             \/ UndoChild(c) \/ CheckOwn(c) \/ TellWaiter(c) \/ DropFence(c) \/ ResetQueues(c)
    BY <1>3, <2>1 DEF Register, JoinMask, FindChild, LinkChild, SignalJoin, UndoChild, CheckOwn,
                      TellWaiter, DropFence, ResetQueues
  <2>2. CASE CheckFlag(c) \/ SignalSelf(c) \/ FinishArray(c) \/ DestroyJoin(c) \/ UndoJoin(c)
             \/ ClearWaitBit(c)
    BY <1>6, <1>7, <1>8, <1>9, <2>2 DEF CheckFlag, SignalSelf, FinishArray, DestroyJoin, UndoJoin,
                                        ClearWaitBit
  <2> QED BY <1>10, <2>1, <2>2 DEF CallStep
<1>11. ASSUME NEW f \in Fences, CtlSignal(f)
       PROVE  Typed /\ UNCHANGED todo
  BY <1>3, <1>11 DEF CtlSignal
<1>12. CASE UNCHANGED vars
  BY <1>1, <1>3, <1>12 DEF vars
<1> QED BY <1>1, <1>5, <1>10, <1>11, <1>12 DEF Next

LEMMA TypeStep ==
  ASSUME WaitType, [Next]_vars
  PROVE  WaitType'
<1>1. call' \in [Clients -> GoodCall]
  <2>1. call \in [Clients -> GoodCall]
    BY DEF WaitType
  <2>2. ASSUME NEW c \in Clients, Start(c) \/ CallStep(c)
        PROVE  call' \in [Clients -> GoodCall]
    BY <2>1, <2>2, CallStepType
  <2>3. ASSUME NEW f \in Fences, CtlSignal(f)
        PROVE  call' = call
    BY <2>3 DEF CtlSignal
  <2> QED BY <2>1, <2>2, <2>3 DEF Next, vars
<1> QED BY <1>1, SlotStepType, RxqStepType, WaitingStepType DEF WaitType

LEMMA InitType == Init => WaitType
<1> SUFFICES ASSUME Init PROVE WaitType
  OBVIOUS
<1>1. slot \in [Keys -> SlotRec]
  <2>1. ASSUME NEW k \in Fences
        PROVE  [FreeSlot EXCEPT !.valid = TRUE, !.alloc = Allocator[k]] \in SlotRec
    BY FreeSlotType, WaitAssumption DEF SlotRec
  <2> QED BY <2>1, FreeSlotType DEF Init
<1>2. todo \in [Clients -> SUBSET (Keys \cup {"reset"})]
  BY WaitAssumption DEF Init
<1> QED BY <1>1, <1>2, NoCallType DEF Init, WaitType

\* The fields of every slot, of every call and of every payload have their
\* types in every reachable state (msm_hw_fence_client, msm_hw_fence).
THEOREM TypeInvariant == Spec => []WaitType
BY InitType, TypeStep, PTL DEF Spec

-----------------------------------------------------------------------------
(* What a step leaves of a fence *)

JoinStep(c) ==
    \/ \E a \in Keys : WaitArray(c, a)
    \/ JoinMask(c) \/ FindChild(c) \/ LinkChild(c) \/ FinishArray(c)
    \/ SignalJoin(c) \/ DestroyJoin(c) \/ UndoChild(c) \/ UndoJoin(c)

\* The steps of a call on behalf of itself, by the part of the driver they are in.
LEMMA StepCases ==
  ASSUME NEW c \in Clients, Start(c) \/ CallStep(c)
  PROVE  \/ JoinStep(c)
         \/ \E f \in Keys : WaitFence(c, f)
         \/ \E error \in {0, ResetError}, destroy \in BOOLEAN : StartReset(c, error, destroy)
         \/ Register(c) \/ CheckFlag(c) \/ SignalSelf(c) \/ ClearWaitBit(c)
         \/ CheckOwn(c) \/ TellWaiter(c) \/ DropFence(c) \/ ResetQueues(c)
BY DEF Start, CallStep, JoinStep

SameFor(k) ==
    /\ slot'[k].valid = slot[k].valid /\ slot'[k].alloc = slot[k].alloc
    /\ slot'[k].signal = slot[k].signal /\ slot'[k].mask = slot[k].mask
    /\ slot'[k].data = slot[k].data

\* A call on an array changes the parents of fences and nothing else of them.
LEMMA JoinKeepsFences ==
  ASSUME WaitType, NEW c \in Clients, JoinStep(c), NEW f \in Fences
  PROVE  SameFor(f)
<1>1. slot \in [Keys -> SlotRec] /\ f \in Keys /\ f \notin Arrays
  BY WaitAssumption DEF WaitType, Keys
<1>2. call[c] \in CallRec /\ CallShape(call[c])
  BY DEF WaitType, GoodCall
<1>3. CASE UNCHANGED slot
  BY <1>3 DEF SameFor
<1>4. ASSUME NEW a \in Arrays, NEW r, slot' = [slot EXCEPT ![a] = r]
      PROVE  SameFor(f)
  BY <1>1, <1>4 DEF SameFor
<1>5. ASSUME NEW k, NEW r \in SlotRec, slot' = [slot EXCEPT ![k] = r], k \in Keys =>
                \A field \in {"valid", "alloc", "signal", "mask", "data"} : r[field] = slot[k][field]
      PROVE  SameFor(f)
  <2>1. CASE k = f
    BY <1>1, <1>5, <2>1 DEF SameFor
  <2>2. CASE k # f
    BY <1>1, <1>5, <2>2 DEF SameFor
  <2> QED BY <2>1, <2>2
<1>6. CASE \E a \in Keys : WaitArray(c, a)
  BY <1>3, <1>4, <1>6 DEF WaitArray
<1>7. CASE JoinMask(c) \/ FinishArray(c) \/ DestroyJoin(c) \/ UndoJoin(c)
  <2>1. call[c].obj \in Arrays
    BY <1>2, <1>7 DEF JoinMask, FinishArray, DestroyJoin, UndoJoin, At, CallShape, JoinPcs, LinkPcs,
                      EndPcs, UndoPcs
  <2> QED BY <1>1, <1>7, <2>1 DEF JoinMask, FinishArray, DestroyJoin, UndoJoin, SameFor
<1>8. CASE FindChild(c) \/ SignalJoin(c)
  BY <1>3, <1>8 DEF FindChild, SignalJoin
<1>9. CASE LinkChild(c)
  <2>1. call[c].obj \in Arrays
    BY <1>2, <1>9 DEF LinkChild, At, CallShape, JoinPcs, LinkPcs
  <2>2. CASE CountSignalledChild(c, ThisChild(c))
    BY <1>1, <2>1, <2>2 DEF CountSignalledChild, SameFor
  <2>3. CASE AddParent(c, ThisChild(c))
    BY <1>1, <2>3 DEF AddParent, SameFor, SlotRec
  <2> QED BY <1>3, <1>9, <2>2, <2>3 DEF LinkChild
<1>10. CASE UndoChild(c)
  <2>1. CASE ThisChild(c) = f
    <3>1. \A field \in {"valid", "alloc", "signal", "mask", "data"} :
            RemoveParent(slot[f], call[c].obj)[field] = slot[f][field]
      BY <1>1, RemoveParentType
    <3>2. CASE UNCHANGED slot
      BY <3>2 DEF SameFor
    <3>3. CASE slot' = [slot EXCEPT ![f] = RemoveParent(slot[f], call[c].obj)]
      BY <1>1, <3>1, <3>3 DEF SameFor
    <3> QED BY <1>10, <2>1, <3>2, <3>3 DEF UndoChild
  <2>2. CASE ThisChild(c) # f
    BY <1>1, <1>10, <2>2 DEF UndoChild, SameFor
  <2> QED BY <2>1, <2>2
<1> QED BY <1>6, <1>7, <1>8, <1>9, <1>10 DEF JoinStep

\* The controller changes the flag and the count of a slot, of a fence only of its own.
LEMMA CtlSlots ==
  ASSUME slot \in [Keys -> SlotRec], NEW f \in Fences, CtlSignal(f), NEW k \in Keys
  PROVE  /\ slot'[k].valid = slot[k].valid /\ slot'[k].alloc = slot[k].alloc
         /\ slot'[k].mask = slot[k].mask /\ slot'[k].data = slot[k].data
         /\ slot'[k].cnt = slot[k].cnt /\ slot'[k].parents = slot[k].parents
         /\ slot[k].signal => slot'[k].signal
         /\ k \in Fences /\ k # f => slot'[k] = slot[k]
         /\ k = f => slot'[k].signal /\ slot'[k].pending = 0
         /\ k \in Arrays /\ ~(slot[k].valid /\ Hits(f, k) > 0 /\ slot[k].pending = Hits(f, k)) =>
                /\ slot'[k].signal = slot[k].signal
                /\ slot'[k].pending = IF slot[k].valid THEN slot[k].pending - Hits(f, k)
                                      ELSE slot[k].pending
         /\ k \in Arrays /\ slot[k].valid /\ Hits(f, k) > 0 /\ slot[k].pending = Hits(f, k) =>
                slot'[k].signal /\ slot'[k].pending = 0
<1> DEFINE ends == slot[k].valid /\ Hits(f, k) > 0 /\ slot[k].pending = Hits(f, k)
           fired == {f} \cup {a \in Arrays :
                        slot[a].valid /\ Hits(f, a) > 0 /\ slot[a].pending = Hits(f, a)}
           left == slot[k].pending - Hits(f, k)
           plain == [slot[k] EXCEPT !.pending = left]
           ended == [slot[k] EXCEPT !.signal = TRUE, !.pending = 0]
<1>1. Fences \cap Arrays = {} /\ slot[k] \in SlotRec
  BY WaitAssumption
<1>2. slot'[k] = IF k \in fired THEN ended
                 ELSE IF k \in Arrays /\ slot[k].valid THEN plain ELSE slot[k]
  BY Zenon DEF CtlSignal
<1>3. (k \in fired) <=> (k = f \/ (k \in Arrays /\ ends))
  OBVIOUS
<1> HIDE DEF fired, ends
<1>4. \A n : LET r == [slot[k] EXCEPT !.pending = n]
             IN  /\ r.valid = slot[k].valid /\ r.alloc = slot[k].alloc /\ r.mask = slot[k].mask
                 /\ r.data = slot[k].data /\ r.cnt = slot[k].cnt /\ r.parents = slot[k].parents
                 /\ r.signal = slot[k].signal /\ r.pending = n
  BY <1>1 DEF SlotRec
<1>5. /\ ended.valid = slot[k].valid /\ ended.alloc = slot[k].alloc /\ ended.mask = slot[k].mask
      /\ ended.data = slot[k].data /\ ended.cnt = slot[k].cnt /\ ended.parents = slot[k].parents
      /\ ended.signal /\ ended.pending = 0
  BY <1>1 DEF SlotRec
<1> HIDE DEF ended, left
<1>6. /\ plain.valid = slot[k].valid /\ plain.alloc = slot[k].alloc /\ plain.mask = slot[k].mask
      /\ plain.data = slot[k].data /\ plain.cnt = slot[k].cnt /\ plain.parents = slot[k].parents
      /\ plain.signal = slot[k].signal /\ plain.pending = left
  BY <1>4
<1> HIDE DEF plain
<1>7. CASE k \in fired
  BY <1>1, <1>2, <1>3, <1>5, <1>7 DEF ends
<1>8. CASE k \notin fired /\ k \in Arrays /\ slot[k].valid
  BY <1>1, <1>2, <1>3, <1>6, <1>8 DEF ends, left
<1>9. CASE k \notin fired /\ ~(k \in Arrays /\ slot[k].valid)
  BY <1>1, <1>2, <1>3, <1>9 DEF ends
<1> QED BY <1>7, <1>8, <1>9

-----------------------------------------------------------------------------
(* The allocator of a slot *)

\* A fence in the table has the allocator that created it, and only a fence in
\* the table is signalled; a join fence belongs to none of the clients.
SlotsOwned ==
    /\ \A f \in Fences :
        /\ slot[f].valid => slot[f].alloc = Allocator[f]
        /\ ~slot[f].valid => slot[f].alloc = None /\ ~slot[f].signal
    /\ \A a \in Arrays : slot[a].alloc \notin Clients

LEMMA SlotsOwnedStep ==
  ASSUME WaitType, SlotsOwned, [Next]_vars
  PROVE  SlotsOwned'
<1>1. slot \in [Keys -> SlotRec] /\ Fences \cup Arrays = Keys /\ Fences \cap Arrays = {}
  BY WaitAssumption DEF WaitType, Keys
<1>2. FreeSlot.valid = FALSE /\ FreeSlot.alloc = None /\ FreeSlot.signal = FALSE
  BY DEF FreeSlot
<1>3. None \notin Clients /\ JoinClient \notin Clients
  BY WaitAssumption
<1>4. CASE UNCHANGED slot
  BY <1>4 DEF SlotsOwned
<1>5. ASSUME NEW k \in Keys, NEW r, slot' = [slot EXCEPT ![k] = r],
             r = FreeSlot \/ /\ r.valid = slot[k].valid /\ r.alloc = slot[k].alloc
                             /\ r.signal = slot[k].signal
      PROVE  SlotsOwned'
  BY <1>1, <1>2, <1>3, <1>5 DEF SlotsOwned
<1>6. ASSUME NEW c \in Clients, JoinStep(c)
      PROVE  SlotsOwned'
  <2>1. \A f \in Fences : SameFor(f)
    BY <1>6, JoinKeepsFences
  <2>2. call[c] \in CallRec /\ CallShape(call[c])
    BY DEF WaitType, GoodCall
  <2>3. ASSUME NEW a \in Arrays
        PROVE  slot'[a].alloc \in {slot[a].alloc, None, JoinClient}
    <3>1. CASE \E b \in Keys : WaitArray(c, b)
      <4>1. PICK b \in Keys : WaitArray(c, b)
        BY <3>1
      <4>2. [FreeSlot EXCEPT !.valid = TRUE, !.alloc = JoinClient,
                             !.pending = Len(Children[b])].alloc = JoinClient
        BY DEF FreeSlot
      <4> QED BY <1>1, <4>1, <4>2 DEF WaitArray
    <3>6. call[c].pc \in JoinPcs => call[c].obj \in Arrays
      BY <2>2 DEF CallShape
    <3>2. CASE JoinMask(c) \/ FinishArray(c) \/ FindChild(c) \/ SignalJoin(c)
      <4>1. call[c].obj \in Keys
        BY <1>1, <3>2, <3>6 DEF JoinMask, FinishArray, FindChild, SignalJoin, At, JoinPcs, LinkPcs, EndPcs
      <4>2. CASE UNCHANGED slot
        BY <4>2
      <4>3. CASE JoinMask(c)
        BY <1>1, <4>1, <4>3 DEF JoinMask, SlotRec
      <4>4. CASE FinishArray(c)
        BY <1>1, <4>1, <4>4 DEF FinishArray, SlotRec
      <4> QED BY <3>2, <4>2, <4>3, <4>4 DEF FindChild, SignalJoin
    <3>3. CASE DestroyJoin(c) \/ UndoJoin(c)
      BY <1>1, <1>2, <3>3 DEF DestroyJoin, UndoJoin
    <3>4. CASE LinkChild(c)
      <4>1. call[c].obj \in Keys
        BY <1>1, <3>4, <3>6 DEF LinkChild, At, JoinPcs, LinkPcs
      <4>2. CASE CountSignalledChild(c, ThisChild(c))
        BY <1>1, <4>1, <4>2 DEF CountSignalledChild, SlotRec
      <4>3. CASE AddParent(c, ThisChild(c))
        BY <1>1, <4>3 DEF AddParent, SlotRec
      <4> QED BY <3>4, <4>2, <4>3 DEF LinkChild
    <3>5. CASE UndoChild(c)
      <4>1. RemoveParent(slot[a], call[c].obj).alloc = slot[a].alloc
        BY <1>1, RemoveParentType
      <4> QED BY <1>1, <3>5, <4>1 DEF UndoChild
    <3> QED BY <1>6, <3>1, <3>2, <3>3, <3>4, <3>5 DEF JoinStep
  <2> QED BY <1>3, <2>1, <2>3 DEF SlotsOwned, SameFor
<1>7. ASSUME NEW c \in Clients, Register(c)
      PROVE  SlotsOwned'
  <2>1. \A k \in Keys : /\ slot'[k].valid = slot[k].valid /\ slot'[k].alloc = slot[k].alloc
                        /\ slot'[k].signal = slot[k].signal
    BY <1>1, <1>7 DEF Register, SlotRec
  <2> QED BY <1>1, <2>1 DEF SlotsOwned
<1>8. ASSUME NEW c \in Clients, ClearWaitBit(c)
      PROVE  SlotsOwned'
  BY <1>1, <1>8 DEF ClearWaitBit, SlotsOwned, SlotRec
<1>9. ASSUME NEW c \in Clients, DropFence(c)
      PROVE  SlotsOwned'
  BY <1>1, <1>2, <1>3, <1>9 DEF DropFence, SlotsOwned
<1>10. ASSUME NEW f \in Fences, CtlSignal(f)
       PROVE  SlotsOwned'
  <2>1. ASSUME NEW k \in Keys
        PROVE  /\ slot'[k].valid = slot[k].valid /\ slot'[k].alloc = slot[k].alloc
               /\ k \in Fences /\ k # f => slot'[k].signal = slot[k].signal
    BY <1>1, <1>10, CtlSlots
  <2>2. slot[f].valid
    BY <1>10 DEF CtlSignal
  <2> QED BY <1>1, <2>1, <2>2 DEF SlotsOwned
<1>11. ASSUME NEW c \in Clients, Start(c) \/ CallStep(c)
       PROVE  SlotsOwned'
  <2>1. CASE \/ \E f \in Keys : WaitFence(c, f)
             \/ \E error \in {0, ResetError}, destroy \in BOOLEAN : StartReset(c, error, destroy)
    BY <1>4, <2>1 DEF WaitFence, StartReset
  <2>2. CASE CheckFlag(c) \/ SignalSelf(c) \/ CheckOwn(c) \/ TellWaiter(c) \/ ResetQueues(c)
    BY <1>4, <2>2 DEF CheckFlag, SignalSelf, CheckOwn, TellWaiter, ResetQueues
  <2> QED BY <1>6, <1>7, <1>8, <1>9, <1>11, <2>1, <2>2, StepCases
<1>12. CASE UNCHANGED vars
  BY <1>4, <1>12 DEF vars
<1> QED BY <1>10, <1>11, <1>12 DEF Next

-----------------------------------------------------------------------------
(* What a client does to a fence, and to the queues *)

LEMMA FenceStep ==
  ASSUME WaitType, NEW c \in Clients, Start(c) \/ CallStep(c), NEW f \in Fences
  PROVE  \/ SameFor(f)
         \/ /\ Register(c) /\ call[c].obj = f
            /\ slot'[f].valid = slot[f].valid /\ slot'[f].signal = slot[f].signal
            /\ slot'[f].mask = slot[f].mask \cup {c} /\ slot'[f].data = NewData(f, c)
         \/ /\ ClearWaitBit(c) /\ Head(call[c].left) = f
            /\ slot'[f].valid = slot[f].valid /\ slot'[f].signal = slot[f].signal
            /\ slot'[f].mask = slot[f].mask \ {c} /\ slot'[f].data = slot[f].data
         \/ /\ DropFence(c) /\ call[c].obj = f
            /\ slot'[f] = FreeSlot
<1>1. slot \in [Keys -> SlotRec] /\ f \in Keys /\ slot[f] \in SlotRec
  BY DEF WaitType, Keys
<1>2. CASE UNCHANGED slot
  BY <1>2 DEF SameFor
<1>3. CASE Register(c)
  <2>1. CASE call[c].obj = f
    BY <1>1, <1>3, <2>1 DEF Register, SlotRec
  <2>2. CASE call[c].obj # f
    BY <1>1, <1>3, <2>2 DEF Register, SameFor
  <2> QED BY <2>1, <2>2
<1>4. CASE ClearWaitBit(c)
  <2>1. CASE Head(call[c].left) = f
    BY <1>1, <1>4, <2>1 DEF ClearWaitBit, SlotRec
  <2>2. CASE Head(call[c].left) # f
    BY <1>1, <1>4, <2>2 DEF ClearWaitBit, SameFor
  <2> QED BY <2>1, <2>2
<1>5. CASE DropFence(c)
  <2>1. CASE call[c].obj = f /\ slot[f].valid
    BY <1>1, <1>5, <2>1 DEF DropFence
  <2>2. CASE call[c].obj # f \/ ~slot[f].valid
    BY <1>1, <1>5, <2>2 DEF DropFence, SameFor
  <2> QED BY <2>1, <2>2
<1>6. CASE \/ \E k \in Keys : WaitFence(c, k)
           \/ \E error \in {0, ResetError}, destroy \in BOOLEAN : StartReset(c, error, destroy)
  BY <1>2, <1>6 DEF WaitFence, StartReset
<1>7. CASE CheckFlag(c) \/ SignalSelf(c) \/ CheckOwn(c) \/ TellWaiter(c) \/ ResetQueues(c)
  BY <1>2, <1>7 DEF CheckFlag, SignalSelf, CheckOwn, TellWaiter, ResetQueues
<1> QED BY <1>3, <1>4, <1>5, <1>6, <1>7, StepCases, JoinKeepsFences

\* A queue grows; a client's reset alone empties it.
LEMMA RxqGrows ==
  ASSUME WaitType, [Next]_vars, NEW w \in Clients, ~ResetQueues(w)
  PROVE  rxq[w] \subseteq rxq'[w]
<1>1. rxq = [d \in Clients |-> rxq[d]]
  BY DEF WaitType
<1>2. CASE UNCHANGED rxq
  BY <1>2
<1>3. ASSUME NEW d, NEW k, NEW data, NEW error,
             rxq' = [rxq EXCEPT ![d] = Write(rxq[d], k, data, error)]
      PROVE  rxq[w] \subseteq rxq'[w]
  BY <1>1, <1>3, WritePayload
<1>4. ASSUME NEW c \in Clients, Start(c) \/ CallStep(c)
      PROVE  rxq[w] \subseteq rxq'[w]
  <2>1. CASE Start(c)
    BY <1>2, <2>1 DEF Start, WaitFence, WaitArray, StartReset
  <2>2. CASE SignalSelf(c)
    BY <1>3, <2>2 DEF SignalSelf
  <2>3. CASE SignalJoin(c)
    BY <1>3, <2>3 DEF SignalJoin
  <2>4. CASE TellWaiter(c)
    BY <1>2, <1>3, <2>4, Zenon DEF TellWaiter
  <2>5. CASE ResetQueues(c)
    BY <1>1, <2>5 DEF ResetQueues
  <2>6. CASE Register(c) \/ CheckFlag(c) \/ JoinMask(c) \/ FindChild(c) \/ LinkChild(c)
             \/ FinishArray(c) \/ DestroyJoin(c) \/ UndoChild(c) \/ UndoJoin(c)
             \/ ClearWaitBit(c) \/ CheckOwn(c) \/ DropFence(c)
    BY <1>2, <2>6 DEF Register, CheckFlag, JoinMask, FindChild, LinkChild, FinishArray, DestroyJoin,
                      UndoChild, UndoJoin, ClearWaitBit, CheckOwn, DropFence
  <2> QED BY <1>4, <2>1, <2>2, <2>3, <2>4, <2>5, <2>6 DEF CallStep
<1>5. ASSUME NEW f \in Fences, CtlSignal(f)
      PROVE  rxq[w] \subseteq rxq'[w]
  BY <1>5, CtlPayloads
<1>6. CASE UNCHANGED vars
  BY <1>2, <1>6 DEF vars
<1> QED BY <1>4, <1>5, <1>6 DEF Next

\* A client's step leaves the calls of the others alone.
LEMMA OthersCalls ==
  ASSUME WaitType, NEW c \in Clients, Start(c) \/ CallStep(c), NEW d \in Clients, d # c
  PROVE  call'[d] = call[d]
BY CallStepType DEF WaitType

-----------------------------------------------------------------------------
(* The slots a reset has still to come to *)

Rng(s) == {s[i] : i \in 1..Len(s)}

StillToReset(r) ==
    IF r.pc = "reset" THEN Rng(r.left)
    ELSE IF r.pc \in SlotPcs THEN Rng(Tail(r.left)) ELSE {}

\* A client that resets waits at most for the fences it has still to come to.
ResetClears ==
    \A c \in Clients, f \in Fences :
        Resetting(c) /\ c \in slot[f].mask => f \in StillToReset(call[c])

LEMMA RngSplit ==
  ASSUME NEW s \in Seq(Keys), s # <<>>
  PROVE  Rng(s) = {Head(s)} \cup Rng(Tail(s))
<1>1. /\ Len(s) \in Nat /\ Len(s) >= 1 /\ Head(s) = s[1]
      /\ Tail(s) \in Seq(Keys) /\ Len(Tail(s)) = Len(s) - 1
      /\ \A i \in 1..Len(Tail(s)) : Tail(s)[i] = s[i + 1]
  BY HeadTailProperties, EmptySeq, LenProperties
<1>2. ASSUME NEW i \in 1..Len(s)
      PROVE  i = 1 \/ (i - 1 \in 1..Len(Tail(s)) /\ Tail(s)[i - 1] = s[i])
  <2>1. CASE i = 1
    BY <2>1
  <2>2. CASE i # 1
    <3>1. i - 1 \in 1..Len(Tail(s)) /\ (i - 1) + 1 = i
      BY <1>1, <2>2
    <3> QED BY <1>1, <3>1
  <2> QED BY <2>1, <2>2
<1>3. \A i \in 1..Len(Tail(s)) : i + 1 \in 1..Len(s)
  BY <1>1
<1>4. Rng(Tail(s)) \subseteq Rng(s) /\ Head(s) \in Rng(s)
  BY <1>1, <1>3 DEF Rng
<1>5. Rng(s) \subseteq {Head(s)} \cup Rng(Tail(s))
  BY <1>1, <1>2 DEF Rng
<1> QED BY <1>4, <1>5

ResetPcs == {"reset", "queues"} \cup SlotPcs

\* A wait, a join and the end of a reset do not lead into a reset.
LEMMA WaitPcs ==
  ASSUME WaitType, NEW c \in Clients,
         \/ JoinStep(c) \/ \E f \in Keys : WaitFence(c, f)
         \/ Register(c) \/ CheckFlag(c) \/ SignalSelf(c) \/ ResetQueues(c)
  PROVE  call'[c].pc \notin ResetPcs
<1> USE DEF ResetPcs, SlotPcs
<1>1. call \in [Clients -> GoodCall] /\ call[c] \in CallRec /\ NoCall.pc = "idle"
  BY DEF WaitType, GoodCall, NoCall
<1>2. ASSUME NEW r, call' = [call EXCEPT ![c] = r], r.pc \notin ResetPcs
      PROVE  call'[c].pc \notin ResetPcs
  BY <1>1, <1>2
<1>3. ASSUME NEW pc, Goto(c, pc), pc \notin ResetPcs
      PROVE  call'[c].pc \notin ResetPcs
  <2>1. [call[c] EXCEPT !.pc = pc].pc = pc
    BY <1>1 DEF CallRec
  <2> QED BY <1>1, <1>3, <2>1 DEF Goto
<1>4. ASSUME NEW ok, Return(c, ok)
      PROVE  call'[c].pc \notin ResetPcs
  BY <1>1, <1>4 DEF Return
<1>5. ASSUME NEW sig, NextChild(c, sig)
      PROVE  call'[c].pc \notin ResetPcs
  <2> DEFINE i == call[c].i
             last == i = Len(Children[call[c].obj])
             pc == IF last THEN "finish" ELSE "child"
             i1 == IF last THEN i ELSE i + 1
  <2>1. call' = [call EXCEPT ![c] = [call[c] EXCEPT !.pc = pc, !.i = i1, !.sig = sig]]
    BY <1>5 DEF NextChild
  <2>2. pc \notin ResetPcs
    OBVIOUS
  <2> HIDE DEF pc, i1
  <2>3. [call[c] EXCEPT !.pc = pc, !.i = i1, !.sig = sig].pc = pc
    BY <1>1 DEF CallRec
  <2> QED BY <1>2, <2>1, <2>2, <2>3
<1>6. CASE \E k \in Keys : WaitFence(c, k) \/ WaitArray(c, k)
  <2>1. PICK k \in Keys : WaitFence(c, k) \/ WaitArray(c, k)
    BY <1>6
  <2> DEFINE wait == [NoCall EXCEPT !.pc = "register", !.obj = k]
             join == [NoCall EXCEPT !.pc = "joinMask", !.obj = k]
  <2>2. wait.pc = "register" /\ join.pc = "joinMask"
    BY DEF NoCall
  <2>3. \/ call' = [call EXCEPT ![c] = wait]
        \/ call' = [call EXCEPT ![c] = join]
        \/ call' = [call EXCEPT ![c] = NoCall]
    BY <2>1 DEF WaitFence, WaitArray, Begin
  <2> HIDE DEF wait, join
  <2> QED BY <1>1, <1>2, <2>2, <2>3
<1>7. CASE Register(c) \/ JoinMask(c) \/ FindChild(c) \/ SignalJoin(c)
  BY <1>3, <1>7 DEF Register, JoinMask, FindChild, SignalJoin
<1>8. CASE CheckFlag(c) \/ SignalSelf(c) \/ FinishArray(c) \/ DestroyJoin(c) \/ UndoJoin(c)
  BY <1>3, <1>4, <1>8 DEF CheckFlag, SignalSelf, FinishArray, DestroyJoin, UndoJoin
<1>9. CASE LinkChild(c)
  BY <1>3, <1>5, <1>9 DEF LinkChild, CountSignalledChild, AddParent
<1>10. CASE UndoChild(c)
  <2>1. [call[c] EXCEPT !.pc = "undoDestroy"].pc = "undoDestroy"
    BY <1>1 DEF CallRec
  <2>2. call[c].pc = "undo" /\ [call[c] EXCEPT !.i = call[c].i - 1].pc = call[c].pc
    BY <1>1, <1>10 DEF UndoChild, At, CallRec
  <2>3. call' = [call EXCEPT ![c] = [call[c] EXCEPT !.pc = "undoDestroy"]]
        \/ call' = [call EXCEPT ![c] = [call[c] EXCEPT !.i = call[c].i - 1]]
    BY <1>10, Zenon DEF UndoChild
  <2> QED BY <1>2, <2>1, <2>2, <2>3
<1>11. CASE ResetQueues(c)
  BY <1>1, <1>11 DEF ResetQueues
<1> QED BY <1>6, <1>7, <1>8, <1>9, <1>10, <1>11 DEF JoinStep

\* The part of a call that a step of a reset sets.
LEMMA ResetCalls ==
  ASSUME WaitType, NEW c \in Clients
  PROVE  /\ \A error \in {0, ResetError}, destroy \in BOOLEAN :
                StartReset(c, error, destroy) =>
                    call'[c].pc = "reset" /\ call'[c].left = Order
         /\ ClearWaitBit(c) =>
                /\ call'[c].pc = "own" /\ call'[c].left = call[c].left
                /\ call'[c].obj = Head(call[c].left) /\ call'[c].i = call[c].i
         /\ CheckOwn(c) =>
                \/ ~ResetsSlotOf(c, call[c].obj) /\ NextSlot(c)
                \/ slot[call[c].obj].signal /\ NextSlot(c)
                \/ /\ ResetsSlotOf(c, call[c].obj) /\ slot[call[c].obj].signal
                   /\ call'[c].pc = "drop" /\ call'[c].left = call[c].left
                   /\ call'[c].obj = call[c].obj /\ call'[c].due = call[c].due
                \/ /\ ResetsSlotOf(c, call[c].obj)
                   /\ call'[c].pc = "tell" /\ call'[c].left = call[c].left
                   /\ call'[c].obj = call[c].obj /\ call'[c].i = call[c].i
                   /\ call'[c].due = slot[call[c].obj].mask /\ call'[c].data = call[c].data
         /\ TellWaiter(c) =>
                \/ NextSlot(c)
                \/ /\ call'[c].pc = (IF call[c].i = LastClient THEN "drop" ELSE "tell")
                   /\ call'[c].i = call[c].i + 1
                   /\ call'[c].left = call[c].left /\ call'[c].obj = call[c].obj
                   /\ call'[c].due = call[c].due
                   /\ call'[c].data = IF /\ call[c].i \in Clients
                                         /\ call[c].i \in slot[call[c].obj].mask
                                      THEN DataFor(c, call[c].i) ELSE call[c].data
         /\ DropFence(c) => NextSlot(c)
         /\ NextSlot(c) =>
                /\ call'[c].left = Tail(call[c].left)
                /\ call'[c].pc = IF Tail(call[c].left) = <<>> THEN "queues" ELSE "reset"
<1>1. call \in [Clients -> GoodCall] /\ call[c] \in CallRec
  BY DEF WaitType, GoodCall
<1>2. ASSUME NEW error \in {0, ResetError}, NEW destroy \in BOOLEAN, StartReset(c, error, destroy)
      PROVE  call'[c].pc = "reset" /\ call'[c].left = Order
  BY <1>1, <1>2 DEF StartReset, Begin, NoCall
<1>3. ASSUME ClearWaitBit(c)
      PROVE  /\ call'[c].pc = "own" /\ call'[c].left = call[c].left
             /\ call'[c].obj = Head(call[c].left) /\ call'[c].i = call[c].i
  BY <1>1, <1>3 DEF ClearWaitBit, CallRec
<1>4. ASSUME NEW pc, Goto(c, pc)
      PROVE  /\ call'[c].pc = pc /\ call'[c].left = call[c].left
             /\ call'[c].obj = call[c].obj /\ call'[c].due = call[c].due
  BY <1>1, <1>4 DEF Goto, CallRec
<1>5. ASSUME TellWaiter(c), ~NextSlot(c)
      PROVE  /\ call'[c].pc = (IF call[c].i = LastClient THEN "drop" ELSE "tell")
             /\ call'[c].i = call[c].i + 1
             /\ call'[c].left = call[c].left /\ call'[c].obj = call[c].obj
             /\ call'[c].due = call[c].due
             /\ call'[c].data = IF /\ call[c].i \in Clients
                                   /\ call[c].i \in slot[call[c].obj].mask
                                THEN DataFor(c, call[c].i) ELSE call[c].data
  <2> DEFINE w == call[c].i
             pc == IF w = LastClient THEN "drop" ELSE "tell"
             i1 == w + 1
             data == IF w \in Clients /\ w \in slot[call[c].obj].mask THEN DataFor(c, w) ELSE call[c].data
  <2>1. call' = [call EXCEPT ![c] = [call[c] EXCEPT !.pc = pc, !.i = i1, !.data = data]]
    BY <1>5, Zenon DEF TellWaiter
  <2> HIDE DEF pc, i1, data
  <2>2. /\ call'[c].pc = pc /\ call'[c].i = i1 /\ call'[c].data = data
        /\ call'[c].left = call[c].left /\ call'[c].obj = call[c].obj
        /\ call'[c].due = call[c].due
    BY <1>1, <2>1 DEF CallRec
  <2> QED BY <2>2 DEF pc, i1, data
<1>6. ASSUME NextSlot(c)
      PROVE  /\ call'[c].left = Tail(call[c].left)
             /\ call'[c].pc = IF Tail(call[c].left) = <<>> THEN "queues" ELSE "reset"
  <2> DEFINE left == Tail(call[c].left)
             pc == IF left = <<>> THEN "queues" ELSE "reset"
  <2>1. call' = [call EXCEPT ![c] = [call[c] EXCEPT !.pc = pc, !.left = left, !.obj = None,
                                                    !.i = 1, !.data = 0, !.due = {}]]
    BY <1>6 DEF NextSlot
  <2> HIDE DEF pc, left
  <2>2. call'[c].left = left /\ call'[c].pc = pc
    BY <1>1, <2>1 DEF CallRec
  <2> QED BY <2>2 DEF pc, left
<1>7. ASSUME CheckOwn(c)
      PROVE  \/ ~ResetsSlotOf(c, call[c].obj) /\ NextSlot(c)
             \/ slot[call[c].obj].signal /\ NextSlot(c)
             \/ ResetsSlotOf(c, call[c].obj) /\ slot[call[c].obj].signal /\ Goto(c, "drop")
             \/ /\ ResetsSlotOf(c, call[c].obj)
                /\ call' = [call EXCEPT ![c].pc = "tell", ![c].due = slot[call[c].obj].mask]
  BY <1>7 DEF CheckOwn
<1>8. DropFence(c) => NextSlot(c)
  BY DEF DropFence
<1>9. ASSUME NEW mask, call' = [call EXCEPT ![c].pc = "tell", ![c].due = mask]
      PROVE  /\ call'[c].pc = "tell" /\ call'[c].left = call[c].left
             /\ call'[c].obj = call[c].obj /\ call'[c].i = call[c].i
             /\ call'[c].due = mask /\ call'[c].data = call[c].data
  BY <1>1, <1>9 DEF CallRec
<1> HIDE DEF NextSlot
<1> QED BY <1>2, <1>3, <1>4, <1>5, <1>6, <1>7, <1>8, <1>9

LEMMA ResetClearsStep ==
  ASSUME WaitType, ResetClears, [Next]_vars
  PROVE  ResetClears'
<1> SUFFICES ASSUME NEW c \in Clients, NEW f \in Fences, Resetting(c)', c \in slot'[f].mask
             PROVE  f \in StillToReset(call'[c])
  BY DEF ResetClears
<1>1. slot \in [Keys -> SlotRec] /\ call[c] \in CallRec /\ CallShape(call[c]) /\ f \in Keys
  BY DEF WaitType, GoodCall, Keys
<1>2. Resetting(c) /\ c \in slot[f].mask => f \in StillToReset(call[c])
  BY DEF ResetClears
<1>3. CASE UNCHANGED <<slot, call>>
  BY <1>2, <1>3 DEF Resetting
<1>4. ASSUME NEW g \in Fences, CtlSignal(g)
      PROVE  f \in StillToReset(call'[c])
  <2>1. slot'[f].mask = slot[f].mask
    BY <1>1, <1>4, CtlSlots
  <2>2. call' = call
    BY <1>4 DEF CtlSignal
  <2> QED BY <1>2, <2>1, <2>2 DEF Resetting
<1>5. FreeSlot.mask = {}
  BY DEF FreeSlot
<1>6. ASSUME NEW d \in Clients, Start(d) \/ CallStep(d), d # c
      PROVE  f \in StillToReset(call'[c])
  <2>1. call'[c] = call[c]
    BY <1>6, OthersCalls
  <2>2. c \in slot[f].mask
    BY <1>5, <1>6, FenceStep DEF SameFor
  <2> QED BY <1>2, <2>1, <2>2 DEF Resetting
<1>7. ASSUME Start(c) \/ CallStep(c)
      PROVE  f \in StillToReset(call'[c])
  <2> DEFINE left == call[c].left
  <2>1. call'[c].pc \in ResetPcs
    BY DEF Resetting, ResetPcs, SlotPcs
  <2>2. ~Register(c) => c \in slot[f].mask
    BY <1>5, <1>7, FenceStep DEF SameFor
  <2>3. ASSUME NEW error \in {0, ResetError}, NEW destroy \in BOOLEAN, StartReset(c, error, destroy)
        PROVE  f \in StillToReset(call'[c])
    <3>1. call'[c].pc = "reset" /\ call'[c].left = Order
      BY <2>3, ResetCalls
    <3>2. Rng(Order) = Keys
      <4>1. DOMAIN Order = 1..Len(Order) /\ {Order[i] : i \in DOMAIN Order} = Keys
        BY WaitAssumption
      <4> QED BY <4>1 DEF Rng
    <3> QED BY <1>1, <3>1, <3>2 DEF StillToReset
  <2>4. CASE ClearWaitBit(c)
    <3>1. call[c].pc = "reset" /\ left # <<>> /\ left \in Seq(Keys)
      BY <1>1, <2>4 DEF ClearWaitBit, At, CallShape, CallRec
    <3>2. f \in Rng(left)
      BY <1>2, <2>2, <2>4, <3>1 DEF Resetting, StillToReset, ClearWaitBit, Register, At
    <3>3. f # Head(left)
      <4>1. Head(left) \in Keys
        BY <3>1, HeadTailProperties
      <4>2. slot'[Head(left)].mask = slot[Head(left)].mask \ {c}
        BY <1>1, <2>4, <4>1 DEF ClearWaitBit, SlotRec
      <4> QED BY <4>2
    <3>4. f \in Rng(Tail(left))
      BY <3>1, <3>2, <3>3, RngSplit
    <3>5. call'[c].pc = "own" /\ call'[c].left = left
      BY <2>4, ResetCalls
    <3> HIDE DEF left
    <3> QED BY <3>4, <3>5 DEF StillToReset, SlotPcs
  <2>5. CASE CheckOwn(c) \/ TellWaiter(c) \/ DropFence(c)
    <3>1. call[c].pc \in SlotPcs
      BY <2>5 DEF CheckOwn, TellWaiter, DropFence, At, SlotPcs
    <3>2. f \in Rng(Tail(left))
      <4>1. c \in slot[f].mask
        BY <2>2, <3>1 DEF Register, At, SlotPcs
      <4> QED BY <1>2, <3>1, <4>1 DEF Resetting, StillToReset, SlotPcs
    <3>3. CASE NextSlot(c)
      <4>1. Tail(left) # <<>>
        BY <3>2 DEF Rng
      <4>2. call'[c].pc = "reset" /\ call'[c].left = Tail(left)
        BY <3>3, <4>1, ResetCalls
      <4> HIDE DEF left
      <4> QED BY <3>2, <4>2 DEF StillToReset
    <3>4. CASE ~NextSlot(c)
      <4>1. call'[c].pc \in SlotPcs /\ call'[c].left = left
        BY <2>5, <3>4, ResetCalls DEF SlotPcs
      <4> HIDE DEF left
      <4> QED BY <3>2, <4>1 DEF StillToReset, SlotPcs
    <3> QED BY <3>3, <3>4
  <2> QED BY <1>7, <2>1, <2>3, <2>4, <2>5, StepCases, WaitPcs
<1>8. CASE UNCHANGED vars
  BY <1>3, <1>8 DEF vars
<1> QED BY <1>4, <1>6, <1>7, <1>8 DEF Next

-----------------------------------------------------------------------------
(* The data a client passed *)

\* A slot holds what the clients in its mask passed, and nothing of the others.
DataKept ==
    \A c \in Clients, f \in Fences :
        /\ slot[f].data[c] \in {0, DataOf(c)}
        /\ c \in slot[f].mask => slot[f].data[c] = DataOf(c)

LEMMA DataKeptStep ==
  ASSUME WaitType, DataKept, [Next]_vars
  PROVE  DataKept'
<1> SUFFICES ASSUME NEW c \in Clients, NEW f \in Fences
             PROVE  /\ slot'[f].data[c] \in {0, DataOf(c)}
                    /\ c \in slot'[f].mask => slot'[f].data[c] = DataOf(c)
  BY DEF DataKept, DataOf
<1>1. /\ slot[f].data[c] \in {0, DataOf(c)}
      /\ c \in slot[f].mask => slot[f].data[c] = DataOf(c)
  BY DEF DataKept
<1>2. slot \in [Keys -> SlotRec] /\ f \in Keys /\ slot[f].data \in [Clients -> Nat]
  BY DEF WaitType, Keys, SlotRec
<1>3. ASSUME NEW d \in Clients, Start(d) \/ CallStep(d)
      PROVE  /\ slot'[f].data[c] \in {0, DataOf(c)}
             /\ c \in slot'[f].mask => slot'[f].data[c] = DataOf(c)
  <2>1. FreeSlot.mask = {} /\ FreeSlot.data[c] = 0
    BY DEF FreeSlot
  <2>2. CASE slot'[f].mask = slot[f].mask \cup {d} /\ slot'[f].data = NewData(f, d)
    <3>1. CASE d = c
      BY <1>1, <1>2, <2>2, <3>1 DEF NewData
    <3>2. CASE d # c
      BY <1>1, <1>2, <2>2, <3>2 DEF NewData
    <3> QED BY <3>1, <3>2
  <2> QED BY <1>1, <1>3, <2>1, <2>2, FenceStep DEF SameFor
<1>4. ASSUME NEW g \in Fences, CtlSignal(g)
      PROVE  slot'[f].mask = slot[f].mask /\ slot'[f].data = slot[f].data
  BY <1>2, <1>4, CtlSlots
<1>5. CASE UNCHANGED vars
  BY <1>1, <1>5 DEF vars
<1> QED BY <1>1, <1>3, <1>4, <1>5 DEF Next

-----------------------------------------------------------------------------
(* No signal is missed *)

LEMMA NoSignalMissedStep ==
  ASSUME WaitType, SlotsOwned, ResetClears, NoSignalMissed, [Next]_vars
  PROVE  NoSignalMissed'
<1> DEFINE Finds(r, f) == r.obj = f /\ r.pc \in {"checkFlag", "signal"}
<1> SUFFICES ASSUME NEW c \in Clients, NEW f \in Fences, c \in slot'[f].mask, slot'[f].signal
             PROVE  (\E p \in rxq'[c] : p.key = f) \/ Finds(call'[c], f)
  BY DEF NoSignalMissed, Told
<1>1. slot \in [Keys -> SlotRec] /\ f \in Keys /\ call[c] \in CallRec /\ call \in [Clients -> GoodCall]
  BY DEF WaitType, GoodCall, Keys
<1>2. c \in slot[f].mask /\ slot[f].signal => (\E p \in rxq[c] : p.key = f) \/ Finds(call[c], f)
  BY DEF NoSignalMissed, Told
<1>3. ASSUME NEW g \in Fences, CtlSignal(g)
      PROVE  (\E p \in rxq'[c] : p.key = f) \/ Finds(call'[c], f)
  <2>1. slot'[f].mask = slot[f].mask /\ (f # g => slot'[f].signal = slot[f].signal) /\ call' = call
    BY <1>1, <1>3, CtlSlots DEF CtlSignal
  <2> QED BY <1>2, <1>3, <2>1, CtlPayloads, ZenonT(30)
<1>4. FreeSlot.signal = FALSE
  BY DEF FreeSlot
<1>5. ASSUME NEW d \in Clients, Start(d) \/ CallStep(d), d # c
      PROVE  (\E p \in rxq'[c] : p.key = f) \/ Finds(call'[c], f)
  <2>1. call'[c] = call[c]
    BY <1>5, OthersCalls
  <2>2. c \in slot[f].mask /\ slot[f].signal
    BY <1>4, <1>5, FenceStep DEF SameFor
  <2>3. CASE ResetQueues(c)
    <3>1. call'[c].pc = "idle"
      BY <1>1, <2>3 DEF ResetQueues, NoCall
    <3> QED BY <2>1, <2>3, <3>1 DEF ResetQueues, At
  <2>4. CASE ~ResetQueues(c)
    <3>1. Next
      BY <1>5 DEF Next
    <3> QED BY <1>2, <2>1, <2>2, <2>4, <3>1, RxqGrows
  <2> QED BY <2>3, <2>4
<1>6. ASSUME Start(c) \/ CallStep(c)
      PROVE  (\E p \in rxq'[c] : p.key = f) \/ Finds(call'[c], f)
  <2>1. CASE Register(c) /\ call[c].obj = f
    BY <1>1, <2>1 DEF Register, Goto, CallRec
  <2>2. CASE ~(Register(c) /\ call[c].obj = f)
    <3>1. c \in slot[f].mask /\ slot[f].signal
      BY <1>4, <1>6, <2>2, FenceStep DEF SameFor
    <3>2. CASE ResetQueues(c)
      BY <3>1, <3>2 DEF ResetQueues, At, ResetClears, Resetting, StillToReset, SlotPcs
    <3>3. ASSUME ~ResetQueues(c), NEW p \in rxq[c], p.key = f
          PROVE  \E q \in rxq'[c] : q.key = f
      <4>1. Next
        BY <1>6 DEF Next
      <4> QED BY <3>3, <4>1, RxqGrows
    <3>4. CASE Finds(call[c], f)
      <4>1. CASE CheckFlag(c)
        <5>1. Goto(c, "signal")
          BY <3>1, <3>4, <4>1 DEF CheckFlag, SignalledAlready
        <5> QED BY <1>1, <3>4, <5>1 DEF Goto, CallRec
      <4>2. CASE SignalSelf(c)
        <5>1. rxq = [w \in Clients |-> rxq[w]] /\ slot[f].valid
          BY <3>1 DEF WaitType, SlotsOwned
        <5>2. rxq'[c] = Write(rxq[c], f, DataOf(c), 0)
          BY <3>4, <4>2, <5>1 DEF SignalSelf
        <5> QED BY <5>1, <5>2, WritePayload
      <4>3. CheckFlag(c) \/ SignalSelf(c)
        BY <1>6, <3>4 DEF Start, CallStep, WaitFence, WaitArray, StartReset, Begin, MayStart, At,
            Register, JoinMask, FindChild, LinkChild, FinishArray, SignalJoin, DestroyJoin, UndoChild,
            UndoJoin, ClearWaitBit, CheckOwn, TellWaiter, DropFence, ResetQueues
      <4> QED BY <4>1, <4>2, <4>3
    <3> QED BY <1>2, <3>1, <3>2, <3>3, <3>4
  <2> QED BY <2>1, <2>2
<1>7. CASE UNCHANGED vars
  BY <1>2, <1>7 DEF vars
<1> QED BY <1>3, <1>5, <1>6, <1>7 DEF Next

-----------------------------------------------------------------------------
(* A reset *)

\* Only the slots of the client's own fences are told of and dropped.
ResetOwn ==
    \A c \in Clients :
        call[c].pc \in {"tell", "drop"} => call[c].obj \in Fences /\ Allocator[call[c].obj] = c

\* A client that resets is alone.
OneResets ==
    \A c, d \in Clients : Resetting(c) /\ d # c => call[d].pc = "idle"

\* Client w has still to set its bit for the fence f.
Comes(w, f) == f \in todo[w] \/ (call[w].pc = "register" /\ call[w].obj = f)

\* A client waits for a fence once: if it is in the mask, or was when a reset
\* looked, it does not come again.
WaitsOnce ==
    /\ \A w \in Clients : call[w].pc = "register" => call[w].obj \notin todo[w]
    /\ \A w \in Clients, f \in Fences : w \in slot[f].mask => ~Comes(w, f)
    /\ \A c, w \in Clients :
            call[c].pc \in {"tell", "drop"} /\ w \in call[c].due => ~Comes(w, call[c].obj)

\* The loop over the clients told those before the one it is at that were in the
\* mask at its start and are in it still.
ToldSoFar ==
    \A c \in Clients :
        call[c].pc \in {"tell", "drop"} /\ slot[call[c].obj].valid /\ ~slot[call[c].obj].signal =>
            \A w \in call[c].due \cap slot[call[c].obj].mask :
                call[c].pc = "drop" \/ w < call[c].i => Told(w, call[c].obj)

\* client_data in the loop: of nobody, or of a client the loop was at.
DataCarried ==
    \A c \in Clients : call[c].pc = "tell" =>
        call[c].data = 0 \/ (call[c].data \in HasData /\ call[c].data < call[c].i)

\* A reset comes to "tell" and to "drop" by these two steps only.
LEMMA IntoTell ==
  ASSUME WaitType, NEW c \in Clients, Start(c) \/ CallStep(c), call'[c].pc \in {"tell", "drop"}
  PROVE  CheckOwn(c) \/ (TellWaiter(c) /\ ~NextSlot(c))
<1> USE DEF ResetPcs, SlotPcs
<1>1. call'[c].pc \in ResetPcs
  OBVIOUS
<1>2. ~NextSlot(c)
  BY ResetCalls
<1> QED BY <1>1, <1>2, StepCases, WaitPcs, ResetCalls

LEMMA ResetOwnStep ==
  ASSUME WaitType, SlotsOwned, ResetOwn, [Next]_vars
  PROVE  ResetOwn'
<1> SUFFICES ASSUME NEW c \in Clients, call'[c].pc \in {"tell", "drop"}
             PROVE  call'[c].obj \in Fences /\ Allocator[call'[c].obj] = c
  BY DEF ResetOwn
<1>1. call[c] \in CallRec /\ CallShape(call[c])
  BY DEF WaitType, GoodCall
<1>2. CASE UNCHANGED call
  BY <1>2 DEF ResetOwn
<1>3. ASSUME NEW d \in Clients, Start(d) \/ CallStep(d), d # c
      PROVE  call'[c] = call[c]
  BY <1>3, OthersCalls
<1>4. ASSUME Start(c) \/ CallStep(c)
      PROVE  call'[c].obj \in Fences /\ Allocator[call'[c].obj] = c
  <2>1. CASE CheckOwn(c)
    <3>1. ResetsSlotOf(c, call[c].obj) /\ call'[c].obj = call[c].obj
      BY <2>1, ResetCalls
    <3>2. call[c].obj \in Keys
      <4>1. call[c].left # <<>> /\ call[c].left \in Seq(Keys) /\ call[c].obj = Head(call[c].left)
        BY <1>1, <2>1 DEF CheckOwn, At, CallShape, SlotPcs, CallRec
      <4> QED BY <4>1, HeadTailProperties
    <3>3. slot[call[c].obj].alloc = c /\ c # None
      BY <3>1, WaitAssumption DEF ResetsSlotOf
    <3>4. call[c].obj \in Fences
      BY <3>2, <3>3 DEF SlotsOwned, Keys
    <3>5. Allocator[call[c].obj] = c
      BY <3>3, <3>4 DEF SlotsOwned
    <3> QED BY <3>1, <3>4, <3>5
  <2>2. CASE TellWaiter(c) /\ ~NextSlot(c)
    BY <2>2, ResetCalls DEF TellWaiter, At, ResetOwn
  <2> QED BY <1>4, <2>1, <2>2, IntoTell
<1>5. ASSUME NEW f \in Fences, CtlSignal(f)
      PROVE  UNCHANGED call
  BY <1>5 DEF CtlSignal
<1>6. CASE UNCHANGED vars
  BY <1>2, <1>6 DEF vars
<1> QED BY <1>2, <1>3, <1>4, <1>5, <1>6 DEF Next, ResetOwn

\* A client that is idle can only start, which it may not while another resets.
LEMMA NoneBeside ==
  ASSUME QuietReset, WaitType, OneResets,
         NEW c \in Clients, Resetting(c), NEW d \in Clients, d # c
  PROVE  ~Start(d) /\ ~CallStep(d)
<1>1. call[d].pc = "idle"
  BY DEF OneResets
<1>2. ~CallStep(d)
  BY <1>1 DEF CallStep, At, Register, CheckFlag, SignalSelf, JoinMask, FindChild, LinkChild, FinishArray,
     SignalJoin, DestroyJoin, UndoChild, UndoJoin, ClearWaitBit, CheckOwn, TellWaiter, DropFence,
     ResetQueues
<1>3. ~Start(d)
  BY DEF Start, WaitFence, WaitArray, StartReset, Begin, MayStart
<1> QED BY <1>2, <1>3

LEMMA OneResetsStep ==
  ASSUME QuietReset, WaitType, OneResets, [Next]_vars
  PROVE  OneResets'
<1> SUFFICES ASSUME NEW c \in Clients, NEW d \in Clients, Resetting(c)', d # c
             PROVE  call'[d].pc = "idle"
  BY DEF OneResets
<1>1. CASE UNCHANGED call
  BY <1>1 DEF OneResets, Resetting
<1>2. ASSUME NEW f \in Fences, CtlSignal(f)
      PROVE  UNCHANGED call
  BY <1>2 DEF CtlSignal
<1>3. ASSUME NEW e \in Clients, Start(e) \/ CallStep(e), e # c
      PROVE  call'[d].pc = "idle"
  <2>1. Resetting(c)
    BY <1>3, OthersCalls DEF Resetting
  <2> QED BY <1>3, <2>1, NoneBeside
<1>4. ASSUME Start(c) \/ CallStep(c)
      PROVE  call'[d].pc = "idle"
  <2>1. call'[d] = call[d] /\ call'[c].pc \in ResetPcs
    BY <1>4, OthersCalls DEF Resetting, ResetPcs, SlotPcs
  <2>2. CASE Resetting(c)
    BY <2>1, <2>2 DEF OneResets
  <2>3. ASSUME NEW error \in {0, ResetError}, NEW destroy \in BOOLEAN, StartReset(c, error, destroy)
        PROVE  call[d].pc = "idle"
    BY <2>3 DEF StartReset, Begin, MayStart
  <2>4. Resetting(c) \/ \E error \in {0, ResetError}, destroy \in BOOLEAN : StartReset(c, error, destroy)
    BY <1>4, <2>1, StepCases, WaitPcs
       DEF ClearWaitBit, CheckOwn, TellWaiter, DropFence, At, Resetting
  <2> QED BY <2>1, <2>2, <2>3, <2>4
<1>5. CASE UNCHANGED vars
  BY <1>1, <1>5 DEF vars
<1> QED BY <1>1, <1>2, <1>3, <1>4, <1>5 DEF Next

\* A client begins to wait by taking the fence off what it has still to do.
LEMMA ComesStep ==
  ASSUME WaitType, [Next]_vars, NEW w \in Clients
  PROVE  /\ \A f : ~Comes(w, f) =>
                f \notin todo'[w] /\ ~(call'[w].pc = "register" /\ call'[w].obj = f)
         /\ call'[w].pc = "register" /\ ~(call[w].pc = "register" /\ call'[w].obj = call[w].obj) =>
                call'[w].obj \notin todo'[w]
         /\ todo'[w] \subseteq todo[w]
         /\ Register(w) => call'[w].pc # "register" /\ UNCHANGED todo
<1> DEFINE Goal == /\ todo'[w] \subseteq todo[w]
                   /\ \/ call'[w].pc # "register"
                      \/ call[w].pc = "register" /\ call'[w].obj = call[w].obj
                      \/ call'[w].obj \in todo[w] /\ call'[w].obj \notin todo'[w]
<1>1. call[w] \in CallRec /\ call \in [Clients -> GoodCall] /\ todo = [c \in Clients |-> todo[c]]
  BY DEF WaitType, GoodCall
<1>2. NoCall.pc = "idle" /\ NoCall \in GoodCall
  BY NoCallType DEF NoCall
<1>3. ASSUME NEW r, call' = [call EXCEPT ![w] = r], r.pc # "register"
      PROVE  call'[w].pc # "register"
  BY <1>1, <1>3
<1>4. ASSUME NEW pc, Goto(w, pc), pc # "register"
      PROVE  call'[w].pc # "register"
  BY <1>1, <1>4 DEF Goto, CallRec
<1>5. ASSUME UNCHANGED <<call, todo>>
      PROVE  Goal
  <2>1. call'[w] = call[w] /\ todo'[w] = todo[w]
    BY <1>5
  <2> QED BY <2>1
<1>6. ASSUME NEW d \in Clients, d # w, Start(d) \/ CallStep(d)
      PROVE  Goal
  <2>1. call'[w] = call[w]
    BY <1>6, OthersCalls
  <2>2. todo'[w] = todo[w]
    <3>1. CASE Start(d)
      <4>1. \E what : todo' = [todo EXCEPT ![d] = todo[d] \ {what}]
        BY <3>1 DEF Start, WaitFence, WaitArray, StartReset, Begin
      <4> QED BY <1>1, <1>6, <4>1
    <3>2. CASE CallStep(d)
      BY <3>2 DEF CallStep, Register, CheckFlag, SignalSelf, JoinMask, FindChild, LinkChild,
         FinishArray, SignalJoin, DestroyJoin, UndoChild, UndoJoin, ClearWaitBit, CheckOwn,
         TellWaiter, DropFence, ResetQueues
    <3> QED BY <1>6, <3>1, <3>2
  <2> QED BY <2>1, <2>2
<1>7. ASSUME Start(w)
      PROVE  Goal
  <2>1. ASSUME NEW what, NEW r, Begin(w, what, r), r.pc # "register" \/ r.obj = what
        PROVE  Goal
    <3>1. what \in todo[w] /\ todo' = [todo EXCEPT ![w] = todo[w] \ {what}]
          /\ call' = [call EXCEPT ![w] = r]
      BY <2>1 DEF Begin
    <3>2. todo'[w] = todo[w] \ {what} /\ call'[w] = r
      BY <1>1, <3>1
    <3> QED BY <2>1, <3>1, <3>2
  <2>2. ASSUME NEW f \in Keys, WaitFence(w, f)
        PROVE  Goal
    <3> DEFINE r == IF slot[f].valid THEN [NoCall EXCEPT !.pc = "register", !.obj = f] ELSE NoCall
    <3>1. Begin(w, f, r)
      BY <2>2 DEF WaitFence
    <3>2. r.pc # "register" \/ r.obj = f
      BY DEF NoCall
    <3> HIDE DEF r
    <3> QED BY <2>1, <3>1, <3>2
  <2>3. ASSUME NEW a \in Keys, WaitArray(w, a)
        PROVE  Goal
    <3> DEFINE r == [NoCall EXCEPT !.pc = "joinMask", !.obj = a]
    <3>1. Begin(w, a, r) \/ Begin(w, a, NoCall)
      BY <2>3 DEF WaitArray
    <3>2. r.pc = "joinMask"
      BY DEF NoCall
    <3> HIDE DEF r
    <3> QED BY <1>2, <2>1, <3>1, <3>2
  <2>4. ASSUME NEW error \in {0, ResetError}, NEW destroy \in BOOLEAN, StartReset(w, error, destroy)
        PROVE  Goal
    <3> DEFINE r == [NoCall EXCEPT !.pc = "reset", !.left = Order, !.error = error,
                                   !.destroy = destroy]
    <3>1. Begin(w, "reset", r)
      BY <2>4 DEF StartReset
    <3>2. r.pc = "reset"
      BY DEF NoCall
    <3> HIDE DEF r
    <3> QED BY <2>1, <3>1, <3>2
  <2> HIDE DEF Goal
  <2> QED BY <1>7, <2>2, <2>3, <2>4 DEF Start
<1>8. ASSUME CallStep(w)
      PROVE  UNCHANGED todo /\ call'[w].pc # "register"
  <2>1. UNCHANGED todo
    BY <1>8 DEF CallStep, Register, CheckFlag, SignalSelf, JoinMask, FindChild, LinkChild,
       FinishArray, SignalJoin, DestroyJoin, UndoChild, UndoJoin, ClearWaitBit, CheckOwn,
       TellWaiter, DropFence, ResetQueues
  <2>2. ASSUME NextSlot(w)
        PROVE  call'[w].pc # "register"
    BY <2>2, ResetCalls
  <2>3. CASE Register(w) \/ JoinMask(w) \/ FindChild(w) \/ SignalJoin(w)
    BY <1>4, <2>3 DEF Register, JoinMask, FindChild, SignalJoin
  <2>4. ASSUME NEW ok, Return(w, ok)
        PROVE  call'[w].pc # "register"
    BY <1>2, <1>3, <2>4 DEF Return
  <2>5. CASE CheckFlag(w) \/ SignalSelf(w) \/ FinishArray(w) \/ DestroyJoin(w) \/ UndoJoin(w)
    BY <1>4, <2>4, <2>5 DEF CheckFlag, SignalSelf, FinishArray, DestroyJoin, UndoJoin
  <2>6. ASSUME NEW sig, NextChild(w, sig)
        PROVE  call'[w].pc # "register"
    <3> DEFINE i == call[w].i
               last == i = Len(Children[call[w].obj])
               pc == IF last THEN "finish" ELSE "child"
               i1 == IF last THEN i ELSE i + 1
    <3>1. call' = [call EXCEPT ![w] = [call[w] EXCEPT !.pc = pc, !.i = i1, !.sig = sig]]
      BY <2>6 DEF NextChild
    <3>2. pc # "register"
      OBVIOUS
    <3> HIDE DEF pc, i1
    <3>3. [call[w] EXCEPT !.pc = pc, !.i = i1, !.sig = sig].pc = pc
      BY <1>1 DEF CallRec
    <3> QED BY <1>3, <3>1, <3>2, <3>3
  <2>7. CASE LinkChild(w)
    BY <1>4, <2>6, <2>7 DEF LinkChild, CountSignalledChild, AddParent
  <2>8. CASE UndoChild(w) \/ ResetQueues(w)
    <3>1. JoinStep(w) \/ ResetQueues(w)
      BY <2>8 DEF JoinStep
    <3>2. CASE ResetQueues(w)
      BY <1>2, <1>3, <3>2 DEF ResetQueues
    <3>3. CASE UndoChild(w)
      <4>1. [call[w] EXCEPT !.pc = "undoDestroy"].pc = "undoDestroy"
        BY <1>1 DEF CallRec
      <4>2. [call[w] EXCEPT !.i = call[w].i - 1].pc = "undo"
        BY <1>1, <3>3 DEF UndoChild, At, CallRec
      <4>3. call' = [call EXCEPT ![w] = [call[w] EXCEPT !.pc = "undoDestroy"]]
            \/ call' = [call EXCEPT ![w] = [call[w] EXCEPT !.i = call[w].i - 1]]
        BY <3>3, Zenon DEF UndoChild
      <4>4. \A r : call' = [call EXCEPT ![w] = r] => call'[w] = r
        BY <1>1
      <4>5. call'[w].pc = "undoDestroy" \/ call'[w].pc = "undo"
        BY <4>1, <4>2, <4>3, <4>4, Zenon
      <4> QED BY <2>1, <4>5
    <3> QED BY <2>8, <3>2, <3>3
  <2>9. CASE ClearWaitBit(w) \/ CheckOwn(w) \/ TellWaiter(w) \/ DropFence(w)
    <3>1. /\ ClearWaitBit(w) => call'[w].pc = "own"
          /\ CheckOwn(w) => NextSlot(w) \/ call'[w].pc \in {"drop", "tell"}
          /\ TellWaiter(w) => NextSlot(w) \/ call'[w].pc \in {"drop", "tell"}
          /\ DropFence(w) => NextSlot(w)
      <4> HIDE DEF Goal
      <4> QED BY ResetCalls
    <3>2. NextSlot(w) \/ call'[w].pc \in {"own", "drop", "tell"}
      BY <2>9, <3>1, Zenon
    <3> QED BY <2>1, <2>2, <3>2
  <2> QED BY <1>8, <2>1, <2>3, <2>5, <2>7, <2>8, <2>9 DEF CallStep
<1>9. Goal
  <2>1. ASSUME NEW f \in Fences, CtlSignal(f)
        PROVE  UNCHANGED <<call, todo>>
    BY <2>1 DEF CtlSignal
  <2>2. ASSUME UNCHANGED vars
        PROVE  Goal
    BY <1>5, <2>2 DEF vars
  <2>3. ASSUME CallStep(w)
        PROVE  Goal
    BY <1>8, <2>3
  <2> HIDE DEF Goal
  <2>4. ASSUME NEW d \in Clients, Start(d) \/ CallStep(d)
        PROVE  Goal
    <3>1. CASE d = w
      BY <1>7, <2>3, <2>4, <3>1
    <3> QED BY <1>6, <2>4, <3>1
  <2>5. ASSUME NEW f \in Fences, CtlSignal(f)
        PROVE  Goal
    BY <1>5, <2>1, <2>5
  <2> QED BY <2>2, <2>4, <2>5 DEF Next
<1>10. Register(w) => call'[w].pc # "register" /\ UNCHANGED todo
  <2>1. Register(w) => CallStep(w)
    BY DEF CallStep
  <2> QED BY <1>8, <2>1
<1> QED BY <1>9, <1>10 DEF Comes

LEMMA WaitsOnceStep ==
  ASSUME WaitType, SlotsOwned, ResetOwn, WaitsOnce, [Next]_vars
  PROVE  WaitsOnce'
<1> DEFINE Later(w, f) == f \in todo'[w] \/ (call'[w].pc = "register" /\ call'[w].obj = f)
<1>1. ASSUME NEW w \in Clients, call'[w].pc = "register"
      PROVE  call'[w].obj \notin todo'[w]
  BY <1>1, ComesStep DEF WaitsOnce
<1>2. ASSUME NEW w \in Clients, NEW f, ~Comes(w, f)
      PROVE  ~Later(w, f)
  BY <1>2, ComesStep
<1> HIDE DEF Later
<1>3. ASSUME NEW w \in Clients, NEW f \in Fences, w \in slot'[f].mask
      PROVE  ~Later(w, f)
  <2>1. CASE w \in slot[f].mask
    BY <1>2, <2>1 DEF WaitsOnce
  <2>2. CASE Register(w) /\ call[w].obj = f
    <3>1. f \notin todo[w]
      BY <2>2 DEF WaitsOnce, Register, At
    <3> QED BY <2>2, <3>1, ComesStep DEF Later
  <2>3. ASSUME NEW d \in Clients, Start(d) \/ CallStep(d)
        PROVE  w \in slot[f].mask \/ (Register(w) /\ call[w].obj = f)
    <3>1. FreeSlot.mask = {}
      BY DEF FreeSlot
    <3> QED BY <1>3, <2>3, <3>1, FenceStep DEF SameFor
  <2>4. ASSUME NEW g \in Fences, CtlSignal(g)
        PROVE  w \in slot[f].mask
    <3>1. slot \in [Keys -> SlotRec] /\ f \in Keys
      BY DEF WaitType, Keys
    <3> QED BY <1>3, <2>4, <3>1, CtlSlots
  <2>5. CASE UNCHANGED vars
    BY <1>3, <2>1, <2>5 DEF vars
  <2> QED BY <2>1, <2>2, <2>3, <2>4, <2>5 DEF Next
<1>4. ASSUME NEW c \in Clients, NEW w \in Clients, call'[c].pc \in {"tell", "drop"}, w \in call'[c].due
      PROVE  ~Later(w, call'[c].obj)
  <2>1. ASSUME call[c].pc \in {"tell", "drop"}, w \in call[c].due, call'[c].obj = call[c].obj
        PROVE  ~Later(w, call'[c].obj)
    BY <1>2, <2>1 DEF WaitsOnce
  <2>2. CASE call'[c] = call[c]
    BY <1>4, <2>1, <2>2
  <2>3. ASSUME NEW d \in Clients, Start(d) \/ CallStep(d), d # c
        PROVE  call'[c] = call[c]
    BY <2>3, OthersCalls
  <2>4. ASSUME Start(c) \/ CallStep(c)
        PROVE  ~Later(w, call'[c].obj)
    <3>1. call'[c].obj \in Fences
      BY <1>4, ResetOwnStep DEF ResetOwn
    <3>2. CASE CheckOwn(c)
      <4>1. call[c].due = {} /\ ~NextSlot(c)
        BY <1>4, <3>2, ResetCalls DEF CheckOwn, At, WaitType, GoodCall, CallShape
      <4>2. call'[c].obj = call[c].obj /\ call'[c].due = slot[call[c].obj].mask
        BY <1>4, <3>2, <4>1, ResetCalls
      <4>3. w \in slot[call'[c].obj].mask
        BY <1>4, <4>2
      <4> QED BY <1>2, <3>1, <4>3 DEF WaitsOnce
    <3>3. CASE TellWaiter(c) /\ ~NextSlot(c)
      <4>1. call'[c].obj = call[c].obj /\ call'[c].due = call[c].due /\ call[c].pc = "tell"
        BY <3>3, ResetCalls DEF TellWaiter, At
      <4> QED BY <1>4, <2>1, <4>1
    <3> QED BY <1>4, <2>4, <3>2, <3>3, IntoTell
  <2>5. ASSUME NEW f \in Fences, CtlSignal(f)
        PROVE  call'[c] = call[c]
    BY <2>5 DEF CtlSignal
  <2>6. CASE UNCHANGED vars
    BY <2>2, <2>6 DEF vars
  <2> QED BY <2>2, <2>3, <2>4, <2>5, <2>6 DEF Next
<1> QED BY <1>1, <1>3, <1>4 DEF WaitsOnce, Comes, Later

LEMMA ToldSoFarStep ==
  ASSUME WaitType, ResetClears, ResetOwn, WaitsOnce, ToldSoFar, [Next]_vars
  PROVE  ToldSoFar'
<1> DEFINE Heard(w, k) == \E p \in rxq[w] : p.key = k
           HeardThen(w, k) == \E p \in rxq'[w] : p.key = k
           Goal(c) == slot'[call'[c].obj].valid /\ ~slot'[call'[c].obj].signal =>
                \A w \in call'[c].due \cap slot'[call'[c].obj].mask :
                    call'[c].pc = "drop" \/ w < call'[c].i => HeardThen(w, call'[c].obj)
<1> SUFFICES ASSUME NEW c \in Clients, call'[c].pc \in {"tell", "drop"}
             PROVE  Goal(c)
  BY DEF ToldSoFar, Told
<1>1. slot \in [Keys -> SlotRec] /\ rxq = [w \in Clients |-> rxq[w]]
  BY DEF WaitType
<1>2. ASSUME call[c].pc \in {"tell", "drop"}, slot[call[c].obj].valid, ~slot[call[c].obj].signal,
             NEW w \in call[c].due \cap slot[call[c].obj].mask,
             call[c].pc = "drop" \/ w < call[c].i
      PROVE  Heard(w, call[c].obj)
  BY <1>2 DEF ToldSoFar, Told
\* No queue of a client in the mask is emptied.
<1>3. ASSUME call[c].pc \in {"tell", "drop"}, NEW w \in slot[call[c].obj].mask
      PROVE  w \in Clients /\ rxq[w] \subseteq rxq'[w]
  <2>1. call[c].obj \in Fences /\ call[c].obj \in Keys
    BY <1>3 DEF ResetOwn, Keys
  <2>2. w \in Clients
    BY <1>1, <1>3, <2>1 DEF SlotRec
  <2>3. ~ResetQueues(w)
    BY <1>3, <2>1, <2>2 DEF ResetQueues, At, ResetClears, Resetting, StillToReset, SlotPcs
  <2> QED BY <2>2, <2>3, RxqGrows
\* A step that leaves the call and the flag alone, and adds nobody who was due.
<1>4. ASSUME call'[c] = call[c],
             slot'[call[c].obj].valid /\ ~slot'[call[c].obj].signal =>
                /\ slot[call[c].obj].valid /\ ~slot[call[c].obj].signal
                /\ call[c].due \cap slot'[call[c].obj].mask \subseteq slot[call[c].obj].mask
      PROVE  Goal(c)
  <2> DEFINE k == call[c].obj
  <2> SUFFICES ASSUME slot'[k].valid, ~slot'[k].signal, NEW w \in call[c].due \cap slot'[k].mask,
                      call[c].pc = "drop" \/ w < call[c].i
               PROVE  HeardThen(w, k)
    BY <1>4
  <2>1. slot[k].valid /\ ~slot[k].signal /\ w \in call[c].due \cap slot[k].mask
    BY <1>4
  <2>2. Heard(w, k)
    BY <1>2, <1>4, <2>1
  <2> QED BY <1>3, <1>4, <2>1, <2>2
<1>5. CASE UNCHANGED vars
  BY <1>4, <1>5 DEF vars
<1>6. ASSUME NEW g \in Fences, CtlSignal(g)
      PROVE  Goal(c)
  <2>1. call' = call /\ call[c].obj \in Fences
    BY <1>6 DEF CtlSignal, ResetOwn
  <2>2. call[c].obj \in Keys
    BY <2>1 DEF Keys
  <2>3. slot'[call[c].obj].valid /\ ~slot'[call[c].obj].signal =>
            slot'[call[c].obj] = slot[call[c].obj]
    BY <1>1, <1>6, <2>1, <2>2, CtlSlots
  <2> HIDE DEF Goal
  <2> QED BY <1>4, <2>1, <2>3
<1>7. ASSUME NEW d \in Clients, Start(d) \/ CallStep(d), d # c
      PROVE  Goal(c)
  <2>1. call'[c] = call[c]
    BY <1>7, OthersCalls
  <2>2. call[c].obj \in Fences /\ Allocator[call[c].obj] = c
    BY <2>1 DEF ResetOwn
  <2>3. CASE SameFor(call[c].obj)
    BY <1>4, <2>1, <2>3 DEF SameFor
  <2>4. CASE Register(d) /\ call[d].obj = call[c].obj
    <3>1. d \notin call[c].due
      BY <2>1, <2>4 DEF WaitsOnce, Comes, Register, At
    <3>2. slot'[call[c].obj].valid = slot[call[c].obj].valid
          /\ slot'[call[c].obj].signal = slot[call[c].obj].signal
          /\ slot'[call[c].obj].mask \subseteq slot[call[c].obj].mask \cup {d}
      BY <1>1, <2>2, <2>4 DEF Register, Keys, SlotRec
    <3> HIDE DEF Goal
    <3> QED BY <1>4, <2>1, <3>1, <3>2
  <2>5. CASE /\ slot'[call[c].obj].valid = slot[call[c].obj].valid
             /\ slot'[call[c].obj].signal = slot[call[c].obj].signal
             /\ slot'[call[c].obj].mask \subseteq slot[call[c].obj].mask
    <3> HIDE DEF Goal
    <3> QED BY <1>4, <2>1, <2>5
  <2>6. ~(DropFence(d) /\ call[d].obj = call[c].obj)
    BY <1>7, <2>2 DEF DropFence, At, ResetOwn
  <2> HIDE DEF Goal
  <2> QED BY <1>7, <2>2, <2>3, <2>4, <2>5, <2>6, FenceStep
<1>8. ASSUME Start(c) \/ CallStep(c)
      PROVE  Goal(c)
  <2>1. CASE CheckOwn(c)
    <3>1. UNCHANGED slot /\ call[c].pc = "own" /\ ~NextSlot(c)
      BY <2>1, ResetCalls DEF CheckOwn, At
    <3>2. CASE slot[call[c].obj].signal /\ call'[c].obj = call[c].obj
      BY <3>1, <3>2
    <3>3. CASE call'[c].pc = "tell" /\ call'[c].i = call[c].i /\ call'[c].obj = call[c].obj
      <4>1. call[c].i = 1
        BY <3>1 DEF WaitType, GoodCall, CallShape
      <4>2. slot[call[c].obj].mask \subseteq Nat \ {0}
        <5>1. call'[c].obj \in Keys
          <6>1. WaitType'
            BY TypeStep
          <6>2. call'[c].left # <<>> /\ call'[c].left \in Seq(Keys) /\ call'[c].obj = Head(call'[c].left)
            BY <6>1 DEF WaitType, GoodCall, CallRec, CallShape, SlotPcs
          <6> QED BY <6>2, HeadTailProperties
        <5> QED BY <1>1, <3>3, <5>1, WaitAssumption DEF SlotRec
      <4>3. \A w \in slot'[call'[c].obj].mask : ~(w < call'[c].i)
        BY <3>1, <3>3, <4>1, <4>2
      <4> QED BY <3>3, <4>3
    <3> QED BY <2>1, <3>1, <3>2, <3>3, ResetCalls
  <2>2. CASE TellWaiter(c) /\ ~NextSlot(c)
    <3> DEFINE k == call[c].obj
               v == call[c].i
    <3>1. UNCHANGED slot /\ call[c].pc = "tell" /\ k \in Keys /\ v \in Nat
      BY <2>2 DEF TellWaiter, At, ResetOwn, Keys, WaitType, GoodCall, CallRec
    <3>2. /\ call'[c].obj = k /\ call'[c].i = v + 1 /\ call'[c].due = call[c].due
          /\ call'[c].pc = (IF v = LastClient THEN "drop" ELSE "tell")
      BY <2>2, ResetCalls
    <3>3. slot[k].mask \subseteq Clients /\ Clients \subseteq Nat
      BY <1>1, <3>1, WaitAssumption DEF SlotRec
    <3>4. ASSUME slot[k].valid, ~slot[k].signal, NEW w \in call[c].due \cap slot[k].mask, w < v + 1
          PROVE  HeardThen(w, k)
      <4>1. CASE w < v
        <5>1. Heard(w, k)
          BY <1>2, <3>1, <3>4, <4>1
        <5> QED BY <1>3, <3>1, <3>4, <5>1
      <4>2. CASE w = v
        <5>1. v \in Clients /\ v \in slot[k].mask
          BY <3>3, <3>4, <4>2
        <5>2. rxq' = [rxq EXCEPT ![v] = Write(rxq[v], k, DataFor(c, v), call[c].error)]
          BY <2>2, <5>1 DEF TellWaiter
        <5>3. rxq'[v] = Write(rxq[v], k, DataFor(c, v), call[c].error)
          BY <1>1, <5>1, <5>2
        <5> QED BY <3>4, <4>2, <5>3, WritePayload
      <4>3. w \in Nat
        BY <3>3, <3>4
      <4>4. w < v \/ w = v
        <5> HIDE DEF v
        <5> QED BY <3>1, <3>4, <4>3
      <4> QED BY <4>1, <4>2, <4>4
    <3>5. v = LastClient => \A w \in slot[k].mask : w < v + 1
      <4>1. \A w \in Clients : w <= LastClient /\ w \in Nat
        BY LastClientType, WaitAssumption
      <4> HIDE DEF k, v
      <4> QED BY <3>1, <3>3, <4>1
    <3> HIDE DEF HeardThen, k, v
    <3> QED BY <3>1, <3>2, <3>4, <3>5
  <2> QED BY <1>8, <2>1, <2>2, IntoTell
<1> QED BY <1>5, <1>6, <1>7, <1>8 DEF Next

LEMMA DataCarriedStep ==
  ASSUME WaitType, DataKept, ResetOwn, DataCarried, [Next]_vars
  PROVE  DataCarried'
<1> SUFFICES ASSUME NEW c \in Clients, call'[c].pc = "tell"
             PROVE  call'[c].data = 0 \/ (call'[c].data \in HasData /\ call'[c].data < call'[c].i)
  BY DEF DataCarried
<1>1. CASE call'[c] = call[c]
  BY <1>1 DEF DataCarried
<1>2. ASSUME NEW d \in Clients, Start(d) \/ CallStep(d), d # c
      PROVE  call'[c] = call[c]
  BY <1>2, OthersCalls
<1>3. CASE CheckOwn(c)
  BY <1>3, ResetCalls DEF CheckOwn, At, WaitType, GoodCall, CallShape
<1>4. CASE TellWaiter(c) /\ ~NextSlot(c)
  <2> DEFINE v == call[c].i
             k == call[c].obj
             told == v \in Clients /\ v \in slot[k].mask
  <2>1. call'[c].i = v + 1 /\ call'[c].data = IF told THEN DataFor(c, v) ELSE call[c].data
    BY <1>4, ResetCalls
  <2>2. v \in Nat /\ k \in Fences /\ call[c].data \in Nat
    BY <1>4 DEF TellWaiter, At, ResetOwn, WaitType, GoodCall, CallRec
  <2>3. call[c].data = 0 \/ (call[c].data \in HasData /\ call[c].data < v)
    BY <1>4 DEF TellWaiter, At, DataCarried
  <2>4. CASE told /\ v \in HasData
    <3>1. DataFor(c, v) \in {0, v}
      BY <2>2, <2>4 DEF DataFor, DataKept, DataOf
    <3> HIDE DEF v
    <3> QED BY <2>1, <2>2, <2>4, <3>1
  <2>5. CASE ~(told /\ v \in HasData)
    <3>1. call'[c].data = call[c].data
      BY <2>1, <2>5 DEF DataFor
    <3> HIDE DEF v
    <3> QED BY <2>1, <2>2, <2>3, <3>1
  <2> QED BY <2>4, <2>5
<1>5. ASSUME Start(c) \/ CallStep(c)
      PROVE  CheckOwn(c) \/ (TellWaiter(c) /\ ~NextSlot(c))
  BY <1>5, IntoTell
<1>6. ASSUME NEW f \in Fences, CtlSignal(f)
      PROVE  call'[c] = call[c]
  BY <1>6 DEF CtlSignal
<1>7. CASE UNCHANGED vars
  BY <1>1, <1>7 DEF vars
<1> QED BY <1>1, <1>2, <1>3, <1>4, <1>5, <1>6, <1>7 DEF Next

-----------------------------------------------------------------------------
(* The theorems *)

\* The inductive invariant of the waits and resets: what a slot knows of its
\* allocator and of its waiters, where a reset has come to, whom it told and
\* whose data it carries.
WaitInv ==
    /\ WaitType
    /\ SlotsOwned
    /\ DataKept
    /\ ResetClears
    /\ NoSignalMissed
    /\ ResetOwn
    /\ WaitsOnce
    /\ ToldSoFar
    /\ DataCarried

LEMMA InitInv == Init => WaitInv /\ OneResets
<1> SUFFICES ASSUME Init PROVE WaitInv /\ OneResets
  OBVIOUS
<1>1. WaitType
  BY InitType
<1>2. \A c \in Clients : call[c].pc = "idle"
  BY DEF Init, NoCall
<1>3. ASSUME NEW f \in Fences
      PROVE  /\ slot[f].valid = TRUE /\ slot[f].alloc = Allocator[f] /\ slot[f].mask = {}
             /\ \A c \in Clients : slot[f].data[c] = 0
  <2>1. f \in Keys
    BY DEF Keys
  <2>2. slot[f] = [FreeSlot EXCEPT !.valid = TRUE, !.alloc = Allocator[f]]
    BY <2>1 DEF Init
  <2> QED BY <2>2 DEF FreeSlot
<1>4. ASSUME NEW a \in Arrays
      PROVE  slot[a].alloc = None
  BY WaitAssumption DEF Init, FreeSlot, Keys
<1>5. SlotsOwned
  BY <1>3, <1>4, WaitAssumption DEF SlotsOwned
<1>6. DataKept
  BY <1>3 DEF DataKept
<1>7. ResetClears /\ ResetOwn /\ OneResets /\ ToldSoFar /\ DataCarried
  BY <1>2 DEF ResetClears, ResetOwn, OneResets, ToldSoFar, DataCarried, Resetting
<1>9. WaitsOnce
  BY <1>2, <1>3 DEF WaitsOnce
<1>8. NoSignalMissed
  BY <1>3 DEF NoSignalMissed
<1> QED BY <1>1, <1>5, <1>6, <1>7, <1>8, <1>9 DEF WaitInv

LEMMA WaitInvStep == WaitInv /\ [Next]_vars => WaitInv'
BY TypeStep, SlotsOwnedStep, DataKeptStep, ResetClearsStep, NoSignalMissedStep, ResetOwnStep,
   WaitsOnceStep, ToldSoFarStep, DataCarriedStep DEF WaitInv

THEOREM WaitInvariant == Spec => []WaitInv
BY InitInv, WaitInvStep, PTL DEF Spec

\* However the controller's signal falls between the steps of
\* hw_fence_register_wait_client, the client hears of it.
THEOREM SignalHeard == Spec => []NoSignalMissed
<1>1. WaitInv => NoSignalMissed
  BY DEF WaitInv
<1> QED BY <1>1, WaitInvariant, PTL

\* Whichever of the three writers of a payload writes it, and whichever clients
\* have a data id (_get_hw_fence_client_data_id): a client with one reads for a
\* fence the client_data it passed with its wait, a client without one reads 0 or
\* what the loop of a reset carried along.
THEOREM DataReturned == Spec => []ClientDataReturned
<1> DEFINE Right(w, data) == IF w \in HasData THEN data = w
                             ELSE data = 0 \/ (data \in HasData /\ data < w)
<1>1. Init => ClientDataReturned
  BY DEF Init, ClientDataReturned
<1>3. ASSUME NEW w \in Clients
      PROVE  Right(w, DataOf(w))
  BY DEF DataOf
<1>2. ASSUME WaitInv, ClientDataReturned, [Next]_vars
      PROVE  ClientDataReturned'
  <2> SUFFICES ASSUME NEW w \in Clients, NEW p \in rxq'[w], p.key \in Fences
               PROVE  Right(w, p.data)
    BY DEF ClientDataReturned
  <2>1. \A q \in rxq[w] : q.key \in Fences => Right(w, q.data)
    BY <1>2 DEF ClientDataReturned
  <2>2. WaitType /\ DataKept /\ rxq = [d \in Clients |-> rxq[d]] /\ None \notin Fences
        /\ Fences \cap Arrays = {}
    BY <1>2, WaitAssumption DEF WaitInv, WaitType, Keys
  <2> HIDE DEF Right
  <2>3. CASE UNCHANGED rxq
    BY <2>1, <2>3
  <2>4. ASSUME NEW d \in Clients, NEW k, NEW data, NEW error,
               rxq' = [rxq EXCEPT ![d] = Write(rxq[d], k, data, error)],
               k \in Fences => Right(d, data)
        PROVE  Right(w, p.data)
    <3>1. CASE d = w
      BY <2>1, <2>2, <2>4, <3>1, WritePayload
    <3>2. CASE d # w
      BY <2>1, <2>2, <2>4, <3>2
    <3> QED BY <3>1, <3>2
  <2>5. ASSUME NEW c \in Clients, Start(c) \/ CallStep(c)
        PROVE  Right(w, p.data)
    <3>1. CASE Start(c)
      BY <2>3, <3>1 DEF Start, WaitFence, WaitArray, StartReset
    <3>2. CASE SignalSelf(c)
      BY <1>3, <2>4, <3>2 DEF SignalSelf
    <3>3. CASE SignalJoin(c)
      <4>1. call[c].obj \in Arrays
        BY <2>2, <3>3 DEF WaitType, GoodCall, CallShape, SignalJoin, At, JoinPcs, EndPcs
      <4>2. call[c].obj \notin Fences
        BY <2>2, <4>1
      <4> QED BY <2>4, <3>3, <4>2 DEF SignalJoin
    <3>4. CASE TellWaiter(c)
      <4> DEFINE k == call[c].obj
                 v == call[c].i
      <4>1. CASE UNCHANGED rxq
        BY <2>3, <4>1
      <4>2. CASE /\ v \in Clients /\ v \in slot[k].mask
                 /\ rxq' = [rxq EXCEPT ![v] = Write(rxq[v], k, DataFor(c, v), call[c].error)]
        <5>1. ASSUME k \in Fences
              PROVE  Right(v, DataFor(c, v))
          <6>1. CASE v \in HasData
            BY <2>2, <4>2, <5>1, <6>1 DEF Right, DataFor, DataKept, DataOf
          <6>2. CASE v \notin HasData
            <7>1. call[c].data = 0 \/ (call[c].data \in HasData /\ call[c].data < v)
              BY <1>2, <3>4 DEF WaitInv, DataCarried, TellWaiter, At
            <7> HIDE DEF v
            <7> QED BY <6>2, <7>1 DEF Right, DataFor
          <6> QED BY <6>1, <6>2
        <5> HIDE DEF k, v
        <5> QED BY <2>4, <4>2, <5>1
      <4> QED BY <3>4, <4>1, <4>2, Zenon DEF TellWaiter
    <3>5. CASE ResetQueues(c)
      BY <2>1, <2>2, <3>5 DEF ResetQueues
    <3>6. CASE Register(c) \/ CheckFlag(c) \/ JoinMask(c) \/ FindChild(c) \/ LinkChild(c)
               \/ FinishArray(c) \/ DestroyJoin(c) \/ UndoChild(c) \/ UndoJoin(c)
               \/ ClearWaitBit(c) \/ CheckOwn(c) \/ DropFence(c)
      BY <2>3, <3>6 DEF Register, CheckFlag, JoinMask, FindChild, LinkChild, FinishArray, DestroyJoin,
                        UndoChild, UndoJoin, ClearWaitBit, CheckOwn, DropFence
    <3> QED BY <2>5, <3>1, <3>2, <3>3, <3>4, <3>5, <3>6 DEF CallStep
  <2>6. ASSUME NEW f \in Fences, CtlSignal(f)
        PROVE  Right(w, p.data)
    <3>1. ASSUME NEW k \in Keys, w \in slot[k].mask, p.key \in {k, None}, p.data = slot[k].data[w]
          PROVE  Right(w, p.data)
      <4>1. p.data = DataOf(w)
        BY <2>2, <3>1 DEF DataKept
      <4> QED BY <1>3, <4>1
    <3> QED BY <2>1, <2>6, <3>1, CtlPayloads
  <2>7. CASE UNCHANGED vars
    BY <2>3, <2>7 DEF vars
  <2> QED BY <1>2, <2>5, <2>6, <2>7 DEF Next
<1> QED BY <1>1, <1>2, WaitInvariant, PTL DEF Spec

\* hw_fence_utils_cleanup_fence destroys a fence that nobody signalled after it
\* told every client that was waiting when it looked at the flag and waits still,
\* whatever the other clients and the controller do beside its loop.
THEOREM WaitersTold == Spec => ResetTellsWaiters
<1> DEFINE AllTold == \A c \in Clients, k \in Keys :
                        At(c, "drop") /\ call[c].obj = k /\ ~slot[k].signal /\ slot[k].valid =>
                            \A w \in call[c].due \cap slot[k].mask : Told(w, k)
<1>1. WaitInv => AllTold
  BY DEF WaitInv, ToldSoFar, At
<1>2. AllTold => [AllTold]_vars
  OBVIOUS
<1>3. Spec => []AllTold
  BY <1>1, WaitInvariant, PTL
<1> QED BY <1>2, <1>3, PTL DEF ResetTellsWaiters

\* No reset takes a fence from the table that another client created, nor the
\* wait of another client from a fence that stays.
THEOREM OthersKept == Spec => ResetKeepsOthers
<1> DEFINE Kept(k) ==
        /\ slot[k].valid /\ ~slot'[k].valid =>
              Resetting(Allocator[k]) /\ call[Allocator[k]].destroy
        /\ \A c \in slot[k].mask \ slot'[k].mask : Resetting(c) \/ ~slot'[k].valid
<1>1. ASSUME WaitInv, [Next]_vars, NEW k \in Fences
      PROVE  Kept(k)
  <2>1. WaitType /\ ResetOwn /\ slot \in [Keys -> SlotRec] /\ k \in Keys
    BY <1>1 DEF WaitInv, WaitType, Keys
  <2>2. FreeSlot.valid = FALSE
    BY DEF FreeSlot
  <2>3. ASSUME NEW c \in Clients, Start(c) \/ CallStep(c)
        PROVE  Kept(k)
    <3>1. CASE SameFor(k)
      BY <3>1 DEF SameFor
    <3>2. CASE slot'[k].valid = slot[k].valid /\ slot'[k].mask = slot[k].mask \cup {c}
      BY <3>2
    <3>3. CASE ClearWaitBit(c) /\ slot'[k].valid = slot[k].valid /\ slot'[k].mask = slot[k].mask \ {c}
      BY <3>3 DEF ClearWaitBit, At, Resetting
    <3>4. CASE DropFence(c) /\ call[c].obj = k /\ slot'[k] = FreeSlot
      <4>1. Allocator[k] = c /\ Resetting(c)
        BY <2>1, <3>4 DEF DropFence, At, ResetOwn, Resetting
      <4>2. call[c].destroy
        BY <2>1, <3>4 DEF DropFence, At, WaitType, GoodCall, CallShape
      <4> QED BY <2>2, <3>4, <4>1, <4>2
    <3> QED BY <2>1, <2>3, <3>1, <3>2, <3>3, <3>4, FenceStep
  <2>4. ASSUME NEW f \in Fences, CtlSignal(f)
        PROVE  Kept(k)
    BY <2>1, <2>4, CtlSlots
  <2>5. CASE UNCHANGED vars
    BY <2>5 DEF vars
  <2> QED BY <1>1, <2>3, <2>4, <2>5 DEF Next
<1>2. ASSUME WaitInv, [Next]_vars
      PROVE  [\A k \in Fences : Kept(k)]_vars
  BY <1>1, <1>2
<1> QED BY <1>2, WaitInvariant, PTL DEF Spec, ResetKeepsOthers

-----------------------------------------------------------------------------
(* The count of a join fence *)

\* Entry j of a fence that can still be signalled names the join fence a.
Entry(f, j, a) ==
    /\ slot[f].valid /\ ~slot[f].signal
    /\ j \in 1..slot[f].cnt /\ slot[f].parents[j] = a

Live(a) == {e \in Fences \X (1..MaxParents) : Entry(e[1], e[2], a)}

\* How many children hw_fence_process_fence_array has still to look at, and
\* behind which child there is no entry of its own to take out again.
ToLink(c) == Len(Children[call[c].obj]) - call[c].i + 1
Linked(c) ==
    IF call[c].pc \in LinkPcs THEN call[c].i - 1
    ELSE IF call[c].pc = "undo" THEN call[c].i ELSE 0

\* A call on an array has the array to itself, and a join fence in the table.
JoinOwned ==
    /\ \A c \in Clients : call[c].pc \in JoinPcs => slot[call[c].obj].valid
    /\ \A c, d \in Clients :
         call[c].pc \in JoinPcs /\ call[d].pc \in JoinPcs /\ call[c].obj = call[d].obj => c = d
    /\ \A c \in Clients : call[c].pc = "link" => ThisChild(c) \in Fences

\* A call that is to signal its join fence has counted it down to nothing.
SignalAtZero ==
    \A c \in Clients :
        /\ call[c].pc \in JoinPcs /\ call[c].sig => slot[call[c].obj].pending = 0
        /\ call[c].pc \in {"joinSignal", "joinDestroy"} => call[c].sig

\* Every entry still to be signalled is counted, and so is every child not yet
\* looked at; a fence has no children.
Counted ==
    /\ \A f \in Fences : slot[f].pending = 0
    /\ \A a \in Arrays : slot[a].pending >= Cardinality(Live(a))
    /\ \A c \in Clients, a \in Arrays : call[c].pc \in LinkPcs /\ call[c].obj = a =>
            slot[a].pending >= Cardinality(Live(a)) + ToLink(c)

\* The entries of an array lie in the children its call has been at, and a join
\* fence out of the table has none.
EntriesWalked ==
    /\ \A a \in Arrays : ~slot[a].valid => Live(a) = {}
    /\ \A c \in Clients, a \in Arrays : call[c].pc \in LinkPcs \cup UndoPcs /\ call[c].obj = a =>
            \A e \in Live(a) : \E i \in 1..Linked(c) : Children[a][i] = e[1]

JoinInv == JoinOwned /\ SignalAtZero /\ Counted /\ EntriesWalked

\* With quiet resets no call finds its child gone between the lookup and the lock.
ChildrenStay ==
    /\ \A f \in Fences : ~slot[f].valid => slot[f].cnt = 0
    /\ \A c \in Clients : call[c].pc = "link" => slot[ThisChild(c)].valid

-----------------------------------------------------------------------------
(* Sets of entries *)

LEMMA FencesFinite == IsFiniteSet(Fences)
<1>1. Order \in Seq(Keys) /\ {Order[i] : i \in DOMAIN Order} = Keys
  BY WaitAssumption
<1>2. PICK n \in Nat : n = Len(Order)
  BY <1>1
<1>3. DOMAIN Order = 1..n /\ Order \in [1..n -> Keys]
  BY <1>1, <1>2
<1>4. Order \in Surjection(1..n, Keys)
  BY <1>1, <1>3 DEF Surjection
<1>5. IsFiniteSet(1..n)
  BY FS_Interval
<1>6. IsFiniteSet(Keys)
  BY <1>4, <1>5, FS_Surjection
<1> QED BY <1>6, FS_Subset DEF Keys

LEMMA EntriesFinite == IsFiniteSet(Fences \X (1..MaxParents))
<1>1. IsFiniteSet(1..MaxParents)
  BY WaitAssumption, FS_Interval
<1> QED BY <1>1, FencesFinite, FS_Product

LEMMA CardinalityOfParts ==
  ASSUME NEW S, NEW T, IsFiniteSet(S), T \subseteq S
  PROVE  /\ Cardinality(S) = Cardinality(S \ T) + Cardinality(T)
         /\ Cardinality(S \ T) \in Nat
<1>1. S \cap T = T
  OBVIOUS
<1>2. Cardinality(S \cap T) = Cardinality(T)
  BY <1>1
<1>3. /\ Cardinality(S \ T) = Cardinality(S) - Cardinality(S \cap T)
      /\ IsFiniteSet(S \ T) /\ IsFiniteSet(T)
  BY FS_Difference, FS_Subset
<1>4. Cardinality(S) \in Nat /\ Cardinality(T) \in Nat /\ Cardinality(S \ T) \in Nat
  BY <1>3, FS_CardinalityType
<1> QED BY <1>2, <1>3, <1>4

LEMMA LiveFinite ==
  ASSUME NEW a
  PROVE  /\ IsFiniteSet(Live(a)) /\ Cardinality(Live(a)) \in Nat
         /\ Live(a) \subseteq Fences \X (1..MaxParents)
<1>1. Live(a) \subseteq Fences \X (1..MaxParents)
  BY DEF Live
<1> QED BY <1>1, EntriesFinite, FS_Subset, FS_CardinalityType

\* The controller's count of a fence's entries for an array is their number.
LEMMA HitsAreEntries ==
  ASSUME WaitType, NEW f \in Fences, NEW a \in Arrays, slot[f].valid, ~slot[f].signal
  PROVE  Hits(f, a) = Cardinality({e \in Live(a) : e[1] = f})
<1> DEFINE S == {j \in CountedParents(f) : slot[f].parents[j] = a}
           T == {e \in Live(a) : e[1] = f}
           pair == [j \in S |-> <<f, j>>]
<1>1. slot[f] \in SlotRec /\ f \in Keys /\ MaxParents \in Nat
  BY WaitAssumption DEF WaitType, Keys
<1>2. IsFiniteSet(S) /\ Hits(f, a) = Cardinality(S)
  BY <1>1, HitsType DEF WaitType, Hits
<1>3. a # None
  BY WaitAssumption DEF Keys
<1>4. \A j : j \in S <=> j \in 1..slot[f].cnt /\ slot[f].parents[j] = a
  BY <1>3 DEF CountedParents
<1>5. 1..slot[f].cnt \subseteq 1..MaxParents
  <2>1. slot[f].cnt \in 0..MaxParents
    BY <1>1 DEF SlotRec
  <2> QED BY <1>1, <2>1
<1>6. \A j \in S : <<f, j>> \in T
  BY <1>4, <1>5 DEF Live, Entry
<1>7. ASSUME NEW e \in T
      PROVE  \E j \in S : e = <<f, j>>
  <2>1. e \in Fences \X (1..MaxParents) /\ e[1] = f /\ Entry(f, e[2], a)
    BY <1>7 DEF Live
  <2>2. e = <<f, e[2]>> /\ e[2] \in S
    BY <1>4, <2>1 DEF Entry
  <2> QED BY <2>2
<1> HIDE DEF S, T
<1>8. pair \in Injection(S, T) /\ pair \in Surjection(S, T)
  <2>1. pair \in [S -> T]
    BY <1>6
  <2>2. \A i, j \in S : pair[i] = pair[j] => i = j
    OBVIOUS
  <2>3. \A e \in T : \E j \in S : pair[j] = e
    BY <1>7
  <2> HIDE DEF pair
  <2> QED BY <2>1, <2>2, <2>3 DEF Injection, IsInjective, Surjection
<1>9. ExistsBijection(S, T)
  BY <1>8 DEF ExistsBijection, Bijection
<1> QED BY <1>2, <1>9, FS_Bijection DEF T

-----------------------------------------------------------------------------
(* What a client's step does to the entries and to the counts *)

\* A fence gets an entry from a link and loses some to an undo or to a reset.
LEMMA FenceParents ==
  ASSUME WaitType, NEW c \in Clients, Start(c) \/ CallStep(c), NEW f \in Fences
  PROVE  /\ slot'[f].pending \in {slot[f].pending, 0}
         /\ \/ slot'[f].cnt = slot[f].cnt /\ slot'[f].parents = slot[f].parents
            \/ /\ LinkChild(c) /\ ThisChild(c) = f /\ ~slot[f].signal /\ NextChild(c, call[c].sig)
               /\ slot[f].cnt + 1 \in 1..MaxParents
               /\ slot'[f].cnt = slot[f].cnt + 1
               /\ slot'[f].parents = [slot[f].parents EXCEPT ![slot[f].cnt + 1] = call[c].obj]
               /\ UNCHANGED <<rxq, todo, waiting>>
            \/ /\ UndoChild(c) /\ ThisChild(c) = f /\ slot[f].valid
               /\ slot'[f] = RemoveParent(slot[f], call[c].obj)
            \/ slot'[f] = FreeSlot
<1> DEFINE Same == /\ slot'[f].pending = slot[f].pending
                   /\ slot'[f].cnt = slot[f].cnt /\ slot'[f].parents = slot[f].parents
<1>1. /\ slot \in [Keys -> SlotRec] /\ f \in Keys /\ slot[f] \in SlotRec /\ f \notin Arrays
      /\ call[c] \in CallRec /\ CallShape(call[c])
  BY WaitAssumption DEF WaitType, GoodCall, Keys
<1>2. FreeSlot.pending = 0
  BY DEF FreeSlot
<1>3. CASE UNCHANGED slot
  BY <1>3
<1>4. ASSUME NEW a \in Arrays, NEW r, slot' = [slot EXCEPT ![a] = r]
      PROVE  Same
  BY <1>1, <1>4
<1>5. ASSUME NEW k, NEW r, slot' = [slot EXCEPT ![k] = r],
             r.pending = slot[k].pending /\ r.cnt = slot[k].cnt /\ r.parents = slot[k].parents
      PROVE  Same
  BY <1>1, <1>5
<1>6. CASE \E a \in Keys : WaitArray(c, a)
  BY <1>3, <1>4, <1>6 DEF WaitArray
<1>7. CASE JoinMask(c) \/ FinishArray(c) \/ DestroyJoin(c) \/ UndoJoin(c)
  <2>1. call[c].obj \in Arrays
    BY <1>1, <1>7 DEF JoinMask, FinishArray, DestroyJoin, UndoJoin, At, CallShape, JoinPcs, LinkPcs,
                      EndPcs, UndoPcs
  <2>2. slot'[f] = slot[f]
    <3>1. f # call[c].obj
      BY <1>1, <2>1
    <3> QED BY <1>1, <1>7, <3>1 DEF JoinMask, FinishArray, DestroyJoin, UndoJoin
  <2> QED BY <2>2
<1>8. CASE LinkChild(c)
  <2>1. call[c].obj \in Arrays
    BY <1>1, <1>8 DEF LinkChild, At, CallShape, JoinPcs, LinkPcs
  <2>2. CASE CountSignalledChild(c, ThisChild(c))
    <3>1. f # call[c].obj
      BY <1>1, <2>1
    <3>2. slot'[f] = slot[f]
      BY <1>1, <2>2, <3>1 DEF CountSignalledChild
    <3> QED BY <3>2
  <2>3. CASE /\ ~slot[ThisChild(c)].signal /\ ~TooManyParents(slot[ThisChild(c)].cnt + 1)
             /\ AddParent(c, ThisChild(c))
    <3>1. CASE ThisChild(c) = f
      <4>1. slot[f].cnt + 1 \in 1..MaxParents
        <5>1. slot[f].cnt \in 0..MaxParents /\ ~(slot[f].cnt + 1 >= MaxParents) /\ MaxParents \in Nat
          BY <1>1, <2>3, <3>1, WaitAssumption DEF TooManyParents, SlotRec
        <5> QED BY <5>1
      <4>2. /\ slot'[f].cnt = slot[f].cnt + 1 /\ slot'[f].pending = slot[f].pending
            /\ slot'[f].parents = [slot[f].parents EXCEPT ![slot[f].cnt + 1] = call[c].obj]
        BY <1>1, <2>3, <3>1 DEF AddParent, SlotRec
      <4> QED BY <1>8, <2>3, <3>1, <4>1, <4>2 DEF AddParent, LinkChild
    <3>2. CASE ThisChild(c) # f
      <4>1. slot'[f] = slot[f]
        BY <1>1, <2>3, <3>2 DEF AddParent
      <4> QED BY <4>1
    <3> QED BY <3>1, <3>2
  <2> QED BY <1>3, <1>8, <2>2, <2>3 DEF LinkChild
<1>9. CASE UndoChild(c)
  <2>1. RemoveParent(slot[f], call[c].obj).pending = slot[f].pending
    BY <1>1, RemoveParentType
  <2>2. CASE ThisChild(c) = f /\ slot[f].valid /\ slot' = [slot EXCEPT ![f] = RemoveParent(slot[f], call[c].obj)]
    BY <1>1, <1>9, <2>1, <2>2
  <2>3. CASE ThisChild(c) # f
    <3>1. slot'[f] = slot[f]
      BY <1>1, <1>9, <2>3 DEF UndoChild
    <3> QED BY <3>1
  <2> QED BY <1>3, <1>9, <2>2, <2>3 DEF UndoChild
<1>10. CASE Register(c)
  <2>1. CASE call[c].obj = f
    BY <1>1, <1>10, <2>1 DEF Register, SlotRec
  <2>2. CASE call[c].obj # f
    BY <1>1, <1>10, <2>2 DEF Register
  <2> QED BY <2>1, <2>2
<1>11. CASE ClearWaitBit(c)
  <2>1. CASE Head(call[c].left) = f
    BY <1>1, <1>11, <2>1 DEF ClearWaitBit, SlotRec
  <2>2. CASE Head(call[c].left) # f
    BY <1>1, <1>11, <2>2 DEF ClearWaitBit
  <2> QED BY <2>1, <2>2
<1>12. CASE DropFence(c)
  BY <1>1, <1>2, <1>12 DEF DropFence
<1>13. CASE \/ \E k \in Keys : WaitFence(c, k)
            \/ \E error \in {0, ResetError}, destroy \in BOOLEAN : StartReset(c, error, destroy)
  BY <1>3, <1>13 DEF WaitFence, StartReset
<1>14. CASE CheckFlag(c) \/ SignalSelf(c) \/ CheckOwn(c) \/ TellWaiter(c) \/ ResetQueues(c)
            \/ FindChild(c) \/ SignalJoin(c)
  BY <1>3, <1>14 DEF CheckFlag, SignalSelf, CheckOwn, TellWaiter, ResetQueues, FindChild, SignalJoin
<1> QED BY <1>6, <1>7, <1>8, <1>9, <1>10, <1>11, <1>12, <1>13, <1>14, StepCases DEF JoinStep

\* The link of an unsignalled child adds the one entry of the array's own; no
\* other step adds an entry.
LEMMA LiveStep ==
  ASSUME WaitType, SlotsOwned, NEW c \in Clients, Start(c) \/ CallStep(c), NEW a \in Arrays
  PROVE  \/ Live(a)' \subseteq Live(a)
         \/ /\ LinkChild(c) /\ call[c].obj = a /\ NextChild(c, call[c].sig)
            /\ \E j : Live(a)' \subseteq Live(a) \cup {<<ThisChild(c), j>>}
<1>1. slot \in [Keys -> SlotRec] /\ \A f \in Fences : f \in Keys /\ slot[f] \in SlotRec
  BY DEF WaitType, Keys
<1>2. FreeSlot.valid = FALSE
  BY DEF FreeSlot
<1>3. ASSUME NEW f \in Fences, slot'[f].valid, ~slot'[f].signal
      PROVE  slot[f].valid /\ ~slot[f].signal
  BY <1>2, <1>3, FenceStep DEF SameFor
<1> DEFINE Linked0(f, j) == /\ LinkChild(c) /\ call[c].obj = a /\ NextChild(c, call[c].sig)
                            /\ ThisChild(c) = f /\ j = slot[f].cnt + 1
<1>4. ASSUME NEW f \in Fences, NEW j \in 1..MaxParents, Entry(f, j, a)'
      PROVE  Entry(f, j, a) \/ Linked0(f, j)
  <2>1. /\ slot'[f].valid /\ ~slot'[f].signal /\ j \in 1..slot'[f].cnt /\ slot'[f].parents[j] = a
        /\ slot[f].valid /\ ~slot[f].signal
    BY <1>3, <1>4 DEF Entry
  <2>2. slot[f].cnt \in Nat /\ j \in Nat /\ slot[f].parents \in [1..MaxParents -> Arrays \cup {None}]
    <3>1. slot[f].cnt \in 0..MaxParents /\ MaxParents \in Nat
      BY <1>1, WaitAssumption DEF SlotRec
    <3> QED BY <1>1, <3>1 DEF SlotRec
  <2>3. CASE slot'[f].cnt = slot[f].cnt /\ slot'[f].parents = slot[f].parents
    BY <2>1, <2>3 DEF Entry
  <2>4. CASE /\ LinkChild(c) /\ ThisChild(c) = f /\ NextChild(c, call[c].sig)
             /\ slot[f].cnt + 1 \in 1..MaxParents
             /\ slot'[f].cnt = slot[f].cnt + 1
             /\ slot'[f].parents = [slot[f].parents EXCEPT ![slot[f].cnt + 1] = call[c].obj]
    <3>1. CASE j = slot[f].cnt + 1
      BY <2>1, <2>2, <2>4, <3>1
    <3>2. CASE j # slot[f].cnt + 1
      <4>1. j \in 1..slot[f].cnt
        BY <2>1, <2>2, <2>4, <3>2
      <4>2. slot'[f].parents[j] = slot[f].parents[j]
        BY <2>2, <2>4, <3>2
      <4> QED BY <2>1, <4>1, <4>2 DEF Entry
    <3> QED BY <3>1, <3>2
  <2>5. CASE slot'[f] = RemoveParent(slot[f], call[c].obj)
    <3>1. /\ slot'[f].cnt \in 0..slot[f].cnt
          /\ slot'[f].parents[j] = IF j \in 1..slot[f].cnt /\ slot[f].parents[j] = call[c].obj
                                   THEN None ELSE slot[f].parents[j]
      BY <1>1, <2>5, RemoveParentType
    <3>2. j \in 1..slot[f].cnt
      BY <2>1, <2>2, <3>1
    <3>3. CASE slot[f].parents[j] = call[c].obj
      <4>2. slot'[f].parents[j] = None
        BY <3>1, <3>2, <3>3
      <4> QED BY <2>1, <4>2, WaitAssumption DEF Keys
    <3>4. CASE slot[f].parents[j] # call[c].obj
      BY <2>1, <3>1, <3>2, <3>4 DEF Entry
    <3> QED BY <3>3, <3>4
  <2> QED BY <1>2, <2>1, <2>3, <2>4, <2>5, FenceParents
<1>5. ASSUME NEW e \in Live(a)', e \notin Live(a)
      PROVE  Linked0(e[1], e[2])
  <2>1. e \in Fences \X (1..MaxParents) /\ Entry(e[1], e[2], a)' /\ ~Entry(e[1], e[2], a)
    BY <1>5 DEF Live
  <2> QED BY <1>4, <2>1
<1>6. CASE Live(a)' \subseteq Live(a)
  BY <1>6
<1>7. CASE ~(Live(a)' \subseteq Live(a))
  <2>1. PICK x \in Live(a)' : x \notin Live(a)
    BY <1>7
  <2>2. LinkChild(c) /\ call[c].obj = a /\ NextChild(c, call[c].sig)
    BY <1>5, <2>1
  <2>3. \A e \in Live(a)' : e \in Live(a) \/ e = <<ThisChild(c), slot[ThisChild(c)].cnt + 1>>
    <3> TAKE e \in Live(a)'
    <3>1. e = <<e[1], e[2]>>
      BY DEF Live
    <3> QED BY <1>5, <3>1
  <2> QED BY <2>2, <2>3
<1> QED BY <1>6, <1>7

\* The slot of an array changes hands in its own call only.
LEMMA ArrayStep ==
  ASSUME WaitType, ResetOwn, NEW c \in Clients, Start(c) \/ CallStep(c), NEW a \in Arrays
  PROVE  \/ slot'[a].valid = slot[a].valid /\ slot'[a].pending = slot[a].pending
         \/ /\ WaitArray(c, a) /\ ~slot[a].valid
            /\ slot'[a].valid /\ slot'[a].pending = Len(Children[a])
         \/ /\ LinkChild(c) /\ call[c].obj = a /\ CountSignalledChild(c, ThisChild(c))
            /\ slot'[a].valid = slot[a].valid /\ slot'[a].pending = slot[a].pending - 1
         \/ /\ DestroyJoin(c) \/ UndoJoin(c)
            /\ call[c].obj = a /\ slot'[a] = FreeSlot
<1> DEFINE Same == slot'[a].valid = slot[a].valid /\ slot'[a].pending = slot[a].pending
<1>1. /\ slot \in [Keys -> SlotRec] /\ a \in Keys /\ slot[a] \in SlotRec /\ a \notin Fences
      /\ call[c] \in CallRec /\ CallShape(call[c])
  BY WaitAssumption DEF WaitType, GoodCall, Keys
<1>2. CASE UNCHANGED slot
  BY <1>2
<1>3. ASSUME NEW k, slot' = [slot EXCEPT ![k] = slot'[k]], k # a
      PROVE  Same
  BY <1>1, <1>3
<1>4. CASE \E b \in Keys : WaitArray(c, b)
  <2>1. PICK b \in Keys : WaitArray(c, b)
    BY <1>4
  <2> DEFINE r == [FreeSlot EXCEPT !.valid = TRUE, !.alloc = JoinClient, !.pending = Len(Children[b])]
  <2>2. r.valid /\ r.pending = Len(Children[b])
    BY DEF FreeSlot
  <2>3. CASE ~slot[b].valid /\ slot' = [slot EXCEPT ![b] = r]
    <3> HIDE DEF r
    <3>1. CASE b = a
      BY <1>1, <2>1, <2>2, <2>3, <3>1
    <3>2. CASE b # a
      BY <1>1, <2>3, <3>2
    <3> QED BY <3>1, <3>2
  <2> QED BY <1>2, <2>1, <2>3 DEF WaitArray
<1>5. CASE JoinMask(c) \/ FinishArray(c) \/ Register(c)
  <2>1. CASE call[c].obj # a
    <3>1. slot'[a] = slot[a]
      BY <1>1, <1>5, <2>1 DEF JoinMask, FinishArray, Register
    <3> QED BY <3>1
  <2>2. CASE call[c].obj = a /\ JoinMask(c)
    BY <1>1, <2>2 DEF JoinMask, SlotRec
  <2>3. CASE call[c].obj = a /\ FinishArray(c)
    BY <1>1, <2>3 DEF FinishArray, SlotRec
  <2>4. CASE call[c].obj = a /\ Register(c)
    BY <1>1, <2>4 DEF Register, SlotRec
  <2> QED BY <1>5, <2>1, <2>2, <2>3, <2>4
<1>6. CASE DestroyJoin(c) \/ UndoJoin(c)
  BY <1>1, <1>6 DEF DestroyJoin, UndoJoin
<1>7. CASE LinkChild(c)
  <2>1. CASE CountSignalledChild(c, ThisChild(c))
    <3>1. CASE call[c].obj = a
      BY <1>1, <1>7, <2>1, <3>1 DEF CountSignalledChild, SlotRec
    <3>2. CASE call[c].obj # a
      BY <1>1, <2>1, <3>2 DEF CountSignalledChild
    <3> QED BY <3>1, <3>2
  <2>2. CASE AddParent(c, ThisChild(c))
    BY <1>1, <2>2 DEF AddParent, SlotRec
  <2> QED BY <1>2, <1>7, <2>1, <2>2 DEF LinkChild
<1>8. CASE UndoChild(c)
  <2>1. RemoveParent(slot[a], call[c].obj).pending = slot[a].pending
        /\ RemoveParent(slot[a], call[c].obj).valid = slot[a].valid
    BY <1>1, RemoveParentType
  <2>2. CASE slot' = [slot EXCEPT ![ThisChild(c)] = RemoveParent(slot[ThisChild(c)], call[c].obj)]
    <3>1. CASE ThisChild(c) = a
      <4>1. slot'[a] = RemoveParent(slot[a], call[c].obj)
        BY <1>1, <2>2, <3>1
      <4> QED BY <2>1, <4>1
    <3>2. CASE ThisChild(c) # a
      <4>1. slot'[a] = slot[a]
        BY <1>1, <2>2, <3>2
      <4> QED BY <4>1
    <3> QED BY <3>1, <3>2
  <2> QED BY <1>2, <1>8, <2>2 DEF UndoChild
<1>9. CASE ClearWaitBit(c)
  BY <1>1, <1>9 DEF ClearWaitBit, SlotRec
<1>10. CASE DropFence(c)
  <2>1. call[c].obj \in Fences
    BY <1>10 DEF DropFence, At, ResetOwn
  <2> QED BY <1>1, <1>10, <2>1 DEF DropFence
<1>11. CASE \/ \E k \in Keys : WaitFence(c, k)
            \/ \E error \in {0, ResetError}, destroy \in BOOLEAN : StartReset(c, error, destroy)
  BY <1>2, <1>11 DEF WaitFence, StartReset
<1>12. CASE CheckFlag(c) \/ SignalSelf(c) \/ CheckOwn(c) \/ TellWaiter(c) \/ ResetQueues(c)
            \/ FindChild(c) \/ SignalJoin(c)
  BY <1>2, <1>12 DEF CheckFlag, SignalSelf, CheckOwn, TellWaiter, ResetQueues, FindChild, SignalJoin
<1> QED BY <1>4, <1>5, <1>6, <1>7, <1>8, <1>9, <1>10, <1>11, <1>12, StepCases DEF JoinStep

\* _hw_fence_process_join_fence puts the join fence into the table.
LEMMA JoinFenceMade ==
  ASSUME WaitType, NEW c \in Clients, NEW a \in Arrays, WaitArray(c, a), ~slot[a].valid
  PROVE  slot'[a].valid /\ slot'[a].pending = Len(Children[a])
<1> DEFINE r == [FreeSlot EXCEPT !.valid = TRUE, !.alloc = JoinClient, !.pending = Len(Children[a])]
<1>1. r.valid /\ r.pending = Len(Children[a])
  BY DEF FreeSlot
<1>2. slot' = [slot EXCEPT ![a] = r]
  BY DEF WaitArray
<1> HIDE DEF r
<1>3. slot'[a] = r
  BY <1>2 DEF WaitType, Keys
<1> QED BY <1>1, <1>3

\* The way of a call through hw_fence_process_fence_array.
LEMMA JoinCalls ==
  ASSUME WaitType, NEW c \in Clients, Start(c) \/ CallStep(c), call'[c].pc \in JoinPcs
  PROVE
    \/ \E a \in Arrays : /\ WaitArray(c, a) /\ ~slot[a].valid
                         /\ call'[c].pc = "joinMask" /\ call'[c].obj = a
                         /\ call'[c].i = 1 /\ ~call'[c].sig
    \/ /\ call[c].pc \in JoinPcs /\ call'[c].obj = call[c].obj
       /\ \/ /\ call[c].pc = "joinMask" /\ call'[c].pc = "child"
             /\ call'[c].i = call[c].i /\ call'[c].sig = call[c].sig
          \/ /\ call[c].pc = "child" /\ call'[c].pc = "link" /\ UNCHANGED slot
             /\ ThisChild(c) # Plain /\ slot[ThisChild(c)].valid
             /\ call'[c].i = call[c].i /\ call'[c].sig = call[c].sig
          \/ /\ call[c].pc \in {"child", "link"} /\ call'[c].pc = "undo" /\ UNCHANGED slot
             /\ call'[c].i = call[c].i /\ call'[c].sig = call[c].sig
          \/ /\ call[c].pc = "link"
             /\ \/ call[c].i = Len(Children[call[c].obj]) /\ call'[c].pc = "finish"
                \/ /\ call[c].i # Len(Children[call[c].obj]) /\ call'[c].pc = "child"
                   /\ call'[c].i = call[c].i + 1
             /\ \/ /\ CountSignalledChild(c, ThisChild(c))
                   /\ call'[c].sig = (call[c].sig \/ slot[call[c].obj].pending = 1)
                \/ AddParent(c, ThisChild(c)) /\ call'[c].sig = call[c].sig
          \/ /\ call[c].pc = "finish" /\ call'[c].pc = "joinSignal" /\ call[c].sig
             /\ call'[c].sig = call[c].sig
          \/ /\ call[c].pc = "joinSignal" /\ call'[c].pc = "joinDestroy" /\ UNCHANGED slot
             /\ call'[c].sig = call[c].sig
          \/ /\ UndoChild(c) /\ call[c].i = 1 /\ call'[c].pc = "undoDestroy"
             /\ call'[c].sig = call[c].sig
          \/ /\ UndoChild(c) /\ call[c].i # 1 /\ call'[c].pc = "undo"
             /\ call'[c].i = call[c].i - 1 /\ call'[c].sig = call[c].sig
<1> USE DEF JoinPcs, LinkPcs, EndPcs, UndoPcs
<1>1. call \in [Clients -> GoodCall] /\ call[c] \in CallRec /\ NoCall.pc = "idle"
  BY DEF WaitType, GoodCall, NoCall
<1>2. ASSUME NEW pc, Goto(c, pc)
      PROVE  /\ call'[c].pc = pc /\ call'[c].obj = call[c].obj /\ call'[c].i = call[c].i
             /\ call'[c].sig = call[c].sig
  BY <1>1, <1>2 DEF Goto, CallRec
<1>3. ASSUME NEW ok, Return(c, ok)
      PROVE  FALSE
  BY <1>1, <1>3 DEF Return
<1>4. ASSUME NEW sig, NextChild(c, sig)
      PROVE  /\ call'[c].obj = call[c].obj /\ call'[c].sig = sig
             /\ \/ call[c].i = Len(Children[call[c].obj]) /\ call'[c].pc = "finish"
                \/ /\ call[c].i # Len(Children[call[c].obj]) /\ call'[c].pc = "child"
                   /\ call'[c].i = call[c].i + 1
  <2> DEFINE i == call[c].i
             last == i = Len(Children[call[c].obj])
             pc == IF last THEN "finish" ELSE "child"
             i1 == IF last THEN i ELSE i + 1
  <2>1. call' = [call EXCEPT ![c] = [call[c] EXCEPT !.pc = pc, !.i = i1, !.sig = sig]]
    BY <1>4 DEF NextChild
  <2> HIDE DEF pc, i1
  <2>2. call'[c].pc = pc /\ call'[c].i = i1 /\ call'[c].sig = sig /\ call'[c].obj = call[c].obj
    BY <1>1, <2>1 DEF CallRec
  <2> QED BY <2>2 DEF pc, i1
<1>5. CASE \E k \in Keys : WaitArray(c, k)
  <2>1. PICK k \in Keys : WaitArray(c, k)
    BY <1>5
  <2> DEFINE join == [NoCall EXCEPT !.pc = "joinMask", !.obj = k]
  <2>2. join.pc = "joinMask" /\ join.obj = k /\ join.i = 1 /\ join.sig = FALSE
    BY DEF NoCall
  <2>3. k \in Arrays
    BY <2>1 DEF WaitArray
  <2>4. \/ ~slot[k].valid /\ call' = [call EXCEPT ![c] = join]
        \/ call' = [call EXCEPT ![c] = NoCall]
    BY <2>1 DEF WaitArray, Begin
  <2> HIDE DEF join
  <2>5. ~slot[k].valid /\ call'[c] = join
    BY <1>1, <2>4
  <2> QED BY <2>1, <2>2, <2>3, <2>5
<1>6. CASE \E k \in Keys : WaitFence(c, k)
  <2>1. PICK k \in Keys : WaitFence(c, k)
    BY <1>6
  <2> DEFINE wait == [NoCall EXCEPT !.pc = "register", !.obj = k]
  <2>2. wait.pc = "register"
    BY DEF NoCall
  <2>3. call' = [call EXCEPT ![c] = wait] \/ call' = [call EXCEPT ![c] = NoCall]
    BY <2>1 DEF WaitFence, Begin
  <2> HIDE DEF wait
  <2> QED BY <1>1, <2>2, <2>3
<1>7. CASE JoinMask(c)
  BY <1>2, <1>7 DEF JoinMask, At
<1>8. CASE FindChild(c)
  <2>1. CASE ThisChild(c) # Plain /\ slot[ThisChild(c)].valid
    BY <1>2, <1>8, <2>1 DEF FindChild, At
  <2>2. CASE ~(ThisChild(c) # Plain /\ slot[ThisChild(c)].valid)
    BY <1>2, <1>8, <2>2 DEF FindChild, At
  <2> QED BY <2>1, <2>2
<1>9. CASE LinkChild(c)
  <2>1. call[c].pc = "link"
    BY <1>9 DEF LinkChild, At
  <2>2. CASE CountSignalledChild(c, ThisChild(c))
    BY <1>4, <2>1, <2>2 DEF CountSignalledChild
  <2>3. CASE AddParent(c, ThisChild(c))
    BY <1>4, <2>1, <2>3 DEF AddParent
  <2>4. CASE Goto(c, "undo") /\ UNCHANGED slot
    BY <1>2, <2>1, <2>4
  <2> QED BY <1>9, <2>2, <2>3, <2>4 DEF LinkChild
<1>10. CASE FinishArray(c)
  BY <1>2, <1>3, <1>10 DEF FinishArray, At
<1>11. CASE SignalJoin(c)
  BY <1>2, <1>11 DEF SignalJoin, At
<1>12. CASE UndoChild(c)
  <2>1. call[c].pc = "undo"
    BY <1>12 DEF UndoChild, At
  <2>2. CASE call[c].i = 1
    <3>1. call' = [call EXCEPT ![c] = [call[c] EXCEPT !.pc = "undoDestroy"]]
      BY <1>12, <2>2 DEF UndoChild
    <3> QED BY <1>1, <1>12, <2>1, <2>2, <3>1 DEF CallRec
  <2>3. CASE call[c].i # 1
    <3>1. call' = [call EXCEPT ![c] = [call[c] EXCEPT !.i = call[c].i - 1]]
      BY <1>12, <2>3, Zenon DEF UndoChild
    <3> QED BY <1>1, <1>12, <2>1, <2>3, <3>1 DEF CallRec
  <2> QED BY <2>2, <2>3
<1>13. CASE CheckFlag(c) \/ SignalSelf(c) \/ DestroyJoin(c) \/ UndoJoin(c) \/ Register(c)
  BY <1>2, <1>3, <1>13 DEF CheckFlag, SignalSelf, DestroyJoin, UndoJoin, Register
<1>14. CASE ResetQueues(c)
  BY <1>1, <1>14 DEF ResetQueues
<1>15. CASE \/ \E error \in {0, ResetError}, destroy \in BOOLEAN : StartReset(c, error, destroy)
            \/ ClearWaitBit(c) \/ CheckOwn(c) \/ TellWaiter(c) \/ DropFence(c)
  BY <1>15, ResetCalls
<1> QED BY <1>5, <1>6, <1>7, <1>8, <1>9, <1>10, <1>11, <1>12, <1>13, <1>14, <1>15, StepCases DEF JoinStep

-----------------------------------------------------------------------------
(* The invariant step by step *)

\* The controller takes the entries of its fence off every count.
LEMMA CtlCounts ==
  ASSUME WaitType, NEW f \in Fences, CtlSignal(f), NEW a \in Arrays
  PROVE  /\ Live(a)' = {e \in Live(a) : e[1] # f}
         /\ Cardinality(Live(a)) = Cardinality(Live(a)') + Hits(f, a)
         /\ Hits(f, a) \in Nat
         /\ Cardinality(Live(a)') \in Nat
<1>1. slot \in [Keys -> SlotRec] /\ \A g \in Fences : g \in Keys
  BY DEF WaitType, Keys
<1>2. slot[f].valid /\ ~slot[f].signal
  BY <1>1 DEF CtlSignal
<1>3. ASSUME NEW g \in Fences, NEW j
      PROVE  Entry(g, j, a)' <=> g # f /\ Entry(g, j, a)
  <2>1. CASE g = f
    <3>1. slot'[g].signal
      BY <1>1, <2>1, CtlSlots
    <3> QED BY <2>1, <3>1 DEF Entry
  <2>2. CASE g # f
    <3>1. slot'[g] = slot[g]
      BY <1>1, <2>2, CtlSlots
    <3> QED BY <2>2, <3>1 DEF Entry
  <2> QED BY <2>1, <2>2
<1>4. Live(a)' = {e \in Live(a) : e[1] # f}
  BY <1>3 DEF Live
<1> DEFINE S == Live(a)
           T == {e \in S : e[1] = f}
<1>5. IsFiniteSet(S) /\ Cardinality(T) = Hits(f, a) /\ Hits(f, a) \in Nat
  BY <1>1, <1>2, LiveFinite, HitsAreEntries, HitsType
<1>6. T \subseteq S /\ Live(a)' = S \ T
  BY <1>4
<1>7. /\ Cardinality(S) = Cardinality(S \ T) + Cardinality(T)
      /\ Cardinality(S \ T) \in Nat
  BY <1>5, <1>6, CardinalityOfParts
<1> HIDE DEF S, T
<1>8. Cardinality(Live(a)') = Cardinality(S \ T)
  BY <1>6
<1>9. Cardinality(S) = Cardinality(Live(a)') + Hits(f, a)
  BY <1>5, <1>7, <1>8
<1> QED BY <1>4, <1>5, <1>7, <1>8, <1>9 DEF S

LEMMA JoinOwnedStep ==
  ASSUME WaitType, SlotsOwned, ResetOwn, JoinOwned, [Next]_vars
  PROVE  JoinOwned'
<1>1. WaitType' /\ slot \in [Keys -> SlotRec] /\ Arrays \subseteq Keys
  BY TypeStep DEF WaitType, Keys
<1>2. \A d \in Clients : call'[d].pc \in JoinPcs => call'[d].obj \in Arrays
  BY <1>1 DEF WaitType, GoodCall, CallShape
<1>3. CASE UNCHANGED vars
  <2>1. UNCHANGED <<slot, call>>
    BY <1>3 DEF vars
  <2> QED BY <2>1 DEF JoinOwned, ThisChild
<1>4. ASSUME NEW f \in Fences, CtlSignal(f)
      PROVE  JoinOwned'
  <2>1. call' = call /\ \A a \in Arrays : slot'[a].valid = slot[a].valid
    BY <1>1, <1>4, CtlSlots DEF CtlSignal
  <2> QED BY <1>2, <2>1 DEF JoinOwned, ThisChild
<1>5. ASSUME NEW c \in Clients, Start(c) \/ CallStep(c)
      PROVE  JoinOwned'
  <2>1. \A d \in Clients : d # c => call'[d] = call[d]
    BY <1>5, OthersCalls
  <2>2. ASSUME call'[c].pc \in JoinPcs
        PROVE  \/ \E a \in Arrays : WaitArray(c, a) /\ ~slot[a].valid /\ call'[c].obj = a
               \/ call[c].pc \in JoinPcs /\ call'[c].obj = call[c].obj
    BY <1>5, <2>2, JoinCalls
  <2>3. ASSUME NEW d \in Clients, call'[d].pc \in JoinPcs
        PROVE  slot'[call'[d].obj].valid
    <3> DEFINE a == call'[d].obj
    <3>1. a \in Arrays
      BY <1>2, <2>3
    <3>2. CASE WaitArray(c, a) /\ ~slot[a].valid
      BY <3>1, <3>2, JoinFenceMade
    <3>3. CASE call[d].pc \in JoinPcs /\ a = call[d].obj
      <4>1. slot[a].valid
        BY <3>3 DEF JoinOwned
      <4>2. CASE (DestroyJoin(c) \/ UndoJoin(c)) /\ call[c].obj = a
        <5>1. call[c].pc \in JoinPcs
          BY <4>2 DEF DestroyJoin, UndoJoin, At, JoinPcs, EndPcs, UndoPcs
        <5>2. c = d
          BY <3>3, <4>2, <5>1 DEF JoinOwned
        <5>3. call'[c].pc = "idle"
          BY <4>2 DEF DestroyJoin, UndoJoin, Return, NoCall, WaitType
        <5> QED BY <2>3, <5>2, <5>3 DEF JoinPcs, LinkPcs, EndPcs, UndoPcs
      <4>3. CASE ~((DestroyJoin(c) \/ UndoJoin(c)) /\ call[c].obj = a)
        BY <1>5, <3>1, <4>1, <4>3, ArrayStep
      <4> QED BY <4>2, <4>3
    <3> QED BY <2>1, <2>2, <2>3, <3>2, <3>3
  <2>4. ASSUME NEW d \in Clients, NEW e \in Clients, d # e,
               call'[d].pc \in JoinPcs, call'[e].pc \in JoinPcs, call'[d].obj = call'[e].obj
        PROVE  FALSE
    <3>1. ASSUME NEW x \in Clients, x # c, call'[x].pc \in JoinPcs, call'[c].pc \in JoinPcs,
                 call'[x].obj = call'[c].obj
          PROVE  FALSE
      <4>1. call[x].pc \in JoinPcs /\ slot[call[x].obj].valid /\ call[x].obj = call'[c].obj
        BY <2>1, <3>1 DEF JoinOwned
      <4> QED BY <2>2, <3>1, <4>1 DEF JoinOwned
    <3>2. CASE d # c /\ e # c
      BY <2>1, <2>4, <3>2 DEF JoinOwned
    <3> QED BY <2>4, <3>1, <3>2
  <2>5. ASSUME NEW d \in Clients, call'[d].pc = "link"
        PROVE  Children[call'[d].obj][call'[d].i] \in Fences
    <3>1. CASE d # c
      BY <2>1, <2>5, <3>1 DEF JoinOwned, ThisChild
    <3>2. CASE d = c
      <4>1. call'[c].pc \in JoinPcs
        BY <2>5, <3>2 DEF JoinPcs, LinkPcs
      <4>2. /\ call'[c].obj = call[c].obj /\ call'[c].i = call[c].i
            /\ ThisChild(c) # Plain /\ call[c].pc = "child"
        BY <1>5, <2>5, <3>2, <4>1, JoinCalls
      <4>3. call[c].obj \in Arrays /\ call[c].i \in 1..Len(Children[call[c].obj])
        BY <4>2 DEF WaitType, GoodCall, CallShape, JoinPcs, LinkPcs
      <4>4. ThisChild(c) \in Fences
        BY <4>2, <4>3, ChildrenType DEF ThisChild
      <4> QED BY <3>2, <4>2, <4>4 DEF ThisChild
    <3> QED BY <3>1, <3>2
  <2> QED BY <2>3, <2>4, <2>5 DEF JoinOwned, ThisChild
<1> QED BY <1>3, <1>4, <1>5 DEF Next

\* The steps on the count of an array, in its own call: a call that takes the
\* last child off the count is to signal, and one that signals has nothing left.
LEMMA SignalAtZeroStep ==
  ASSUME WaitType, ResetOwn, JoinOwned, JoinOwned', SignalAtZero, Counted, [Next]_vars
  PROVE  SignalAtZero'
<1>1. slot \in [Keys -> SlotRec] /\ Arrays \subseteq Keys
  BY DEF WaitType, Keys
<1>2. \A d \in Clients : /\ call[d].pc \in JoinPcs => /\ call[d].obj \in Arrays
                                                      /\ call[d].i \in 1..Len(Children[call[d].obj])
                         /\ call[d].pc \in JoinPcs /\ call[d].sig => slot[call[d].obj].pending = 0
                         /\ call[d].pc \in {"joinSignal", "joinDestroy"} => call[d].sig
                         /\ call[d] \in CallRec
  BY DEF WaitType, GoodCall, CallShape, SignalAtZero
\* With a child still to look at the count is not zero.
<1>3. ASSUME NEW d \in Clients, call[d].pc \in LinkPcs
      PROVE  slot[call[d].obj].pending > 0 /\ ~call[d].sig
  <2>1. call[d].pc \in JoinPcs /\ call[d].obj \in Arrays
    BY <1>2, <1>3 DEF JoinPcs
  <2>2. slot[call[d].obj].pending >= Cardinality(Live(call[d].obj)) + ToLink(d)
    BY <1>3, <2>1 DEF Counted
  <2>3. Cardinality(Live(call[d].obj)) \in Nat
    BY LiveFinite
  <2>4. ToLink(d) \in Nat /\ ToLink(d) >= 1
    <3>1. Len(Children[call[d].obj]) \in Nat /\ call[d].i \in 1..Len(Children[call[d].obj])
      BY <1>2, <2>1, ChildrenType
    <3> QED BY <3>1 DEF ToLink
  <2>5. slot[call[d].obj].pending \in Int
    BY <1>1, <2>1 DEF SlotRec
  <2>6. slot[call[d].obj].pending > 0
    BY <2>2, <2>3, <2>4, <2>5
  <2> QED BY <1>2, <2>1, <2>6
<1>4. CASE UNCHANGED vars
  <2>1. UNCHANGED <<slot, call>>
    BY <1>4 DEF vars
  <2> QED BY <2>1 DEF SignalAtZero
<1>5. ASSUME NEW f \in Fences, CtlSignal(f)
      PROVE  SignalAtZero'
  <2>1. call' = call
    BY <1>5 DEF CtlSignal
  <2>2. ASSUME NEW a \in Arrays, slot[a].pending = 0
        PROVE  slot'[a].pending = 0
    <3>1. Hits(f, a) = 0
      <4>1. 0 >= Cardinality(Live(a))
        BY <2>2 DEF Counted
      <4>2. /\ Cardinality(Live(a)) = Cardinality(Live(a)') + Hits(f, a)
            /\ Hits(f, a) \in Nat /\ Cardinality(Live(a)') \in Nat /\ Cardinality(Live(a)) \in Nat
        BY <1>5, CtlCounts, LiveFinite
      <4> QED BY <4>1, <4>2
    <3>2. a \in Keys /\ slot[a].pending - 0 = 0
      BY <1>1, <2>2
    <3> QED BY <1>1, <1>5, <2>2, <3>1, <3>2, CtlSlots
  <2> QED BY <1>2, <2>1, <2>2 DEF SignalAtZero
<1>6. ASSUME NEW c \in Clients, Start(c) \/ CallStep(c)
      PROVE  SignalAtZero'
  <2>1. \A d \in Clients : d # c => call'[d] = call[d]
    BY <1>6, OthersCalls
  \* Another client's call is about another array.
  <2>2. ASSUME NEW d \in Clients, d # c, call[d].pc \in JoinPcs
        PROVE  slot'[call[d].obj].pending = slot[call[d].obj].pending
    <3> DEFINE a == call[d].obj
    <3>1. a \in Arrays /\ slot[a].valid
      BY <1>2, <2>2 DEF JoinOwned
    <3>2. call[c].pc \in JoinPcs => call[c].obj # a
      BY <2>2 DEF JoinOwned
    <3>3. LinkChild(c) \/ DestroyJoin(c) \/ UndoJoin(c) => call[c].pc \in JoinPcs
      BY DEF LinkChild, DestroyJoin, UndoJoin, At, JoinPcs, LinkPcs, EndPcs, UndoPcs
    <3> QED BY <1>6, <3>1, <3>2, <3>3, ArrayStep
  <2>3. ASSUME call'[c].pc \in JoinPcs
        PROVE  /\ call'[c].sig => slot'[call'[c].obj].pending = 0
               /\ call'[c].pc \in {"joinSignal", "joinDestroy"} => call'[c].sig
    <3> DEFINE a == call[c].obj
    <3>1. CASE \E b \in Arrays : call'[c].pc = "joinMask" /\ call'[c].obj = b /\ ~call'[c].sig
      BY <3>1
    <3>2. CASE call[c].pc \in LinkPcs /\ call'[c].sig = call[c].sig /\ call'[c].pc \notin {"joinSignal", "joinDestroy"}
      BY <1>3, <3>2
    <3>3. CASE /\ call[c].pc = "link" /\ call'[c].obj = a
               /\ CountSignalledChild(c, ThisChild(c))
               /\ call'[c].sig = (call[c].sig \/ slot[a].pending = 1)
               /\ call'[c].pc \in {"finish", "child"}
      <4>1. ~call[c].sig /\ a \in Keys
        BY <1>1, <1>2, <1>3, <3>3 DEF LinkPcs, JoinPcs
      <4>2. slot'[a].pending = slot[a].pending - 1
        BY <1>1, <3>3, <4>1 DEF CountSignalledChild, SlotRec
      <4>3. call'[c].sig => slot[a].pending = 1
        BY <3>3, <4>1, Zenon
      <4>4. slot[a].pending = 1 => slot'[a].pending = 0
        BY <4>2
      <4>5. call'[c].pc \notin {"joinSignal", "joinDestroy"} /\ call'[c].obj = a
        BY <3>3
      <4> HIDE DEF a
      <4> QED BY <4>3, <4>4, <4>5
    <3>4. CASE call[c].pc \in EndPcs \cup UndoPcs /\ call'[c].obj = a /\ call'[c].sig = call[c].sig
               /\ (call'[c].pc \in {"joinSignal", "joinDestroy"} => call[c].pc \in {"joinSignal", "joinDestroy"} \/ call[c].sig)
      <4>1. a \in Arrays /\ slot[a].valid /\ call[c].pc \in JoinPcs
        BY <1>2, <3>4 DEF JoinOwned, JoinPcs
      <4>2. ~DestroyJoin(c) /\ ~UndoJoin(c)
        <5>1. NoCall.pc = "idle"
          BY DEF NoCall
        <5> QED BY <2>3, <5>1 DEF DestroyJoin, UndoJoin, Return, JoinPcs, LinkPcs, EndPcs, UndoPcs, WaitType
      <4>3. ~LinkChild(c)
        BY <3>4 DEF LinkChild, At, EndPcs, UndoPcs
      <4>4. slot'[a].pending = slot[a].pending
        BY <1>6, <4>1, <4>2, <4>3, ArrayStep
      <4> QED BY <1>2, <3>4, <4>1, <4>4
    <3> QED BY <1>6, <2>3, <3>1, <3>2, <3>3, <3>4, JoinCalls DEF LinkPcs, EndPcs, UndoPcs, UndoChild, At
  <2>4. ASSUME NEW d \in Clients
        PROVE  /\ call'[d].pc \in JoinPcs /\ call'[d].sig => slot'[call'[d].obj].pending = 0
               /\ call'[d].pc \in {"joinSignal", "joinDestroy"} => call'[d].sig
    <3>1. {"joinSignal", "joinDestroy"} \subseteq JoinPcs
      BY DEF JoinPcs, EndPcs
    <3> QED BY <1>2, <2>1, <2>2, <2>3, <3>1
  <2> QED BY <2>4 DEF SignalAtZero
<1> QED BY <1>4, <1>5, <1>6 DEF Next

-----------------------------------------------------------------------------
(* Where the entries are *)

\* A refused call takes its entries out of the child it is at.
LEMMA UndoTakes ==
  ASSUME WaitType, NEW c \in Clients, UndoChild(c),
         NEW a \in Arrays, call[c].obj = a, NEW e \in Live(a)'
  PROVE  e \in Live(a) /\ e[1] # ThisChild(c)
<1> DEFINE f == e[1]
           j == e[2]
<1>2. /\ e \in Fences \X (1..MaxParents) /\ slot'[f].valid /\ ~slot'[f].signal
      /\ j \in 1..slot'[f].cnt /\ slot'[f].parents[j] = a
  BY DEF Live, Entry
<1>3. f \in Fences /\ f \in Keys /\ slot \in [Keys -> SlotRec] /\ f # Plain /\ a # None
      /\ slot[f] \in SlotRec /\ j \in 1..MaxParents
  BY <1>2, WaitAssumption DEF WaitType, Keys
<1> HIDE DEF f, j
<1>4. CASE ThisChild(c) = f
  <2>1. CASE slot[f].valid
    <3>1. slot' = [slot EXCEPT ![f] = RemoveParent(slot[f], call[c].obj)]
      BY <1>3, <1>4, <2>1 DEF UndoChild
    <3>2. slot'[f] = RemoveParent(slot[f], a)
      BY <1>3, <3>1
    <3>3. /\ slot'[f].cnt \in 0..slot[f].cnt
          /\ slot'[f].parents[j] = IF j \in 1..slot[f].cnt /\ slot[f].parents[j] = a
                                   THEN None ELSE slot[f].parents[j]
      BY <1>3, <3>2, RemoveParentType
    <3>4. j \in 1..slot[f].cnt
      <4>1. slot[f].cnt \in Nat
        BY <1>3, WaitAssumption DEF SlotRec
      <4> QED BY <1>2, <3>3, <4>1
    <3> QED BY <1>2, <1>3, <3>3, <3>4
  <2>2. CASE ~slot[f].valid
    <3>1. slot' = slot
      BY <1>4, <2>2 DEF UndoChild
    <3> QED BY <1>2, <2>2, <3>1
  <2> QED BY <2>1, <2>2
<1>5. CASE ThisChild(c) # f
  <2>1. slot'[f] = slot[f]
    <3>1. \/ UNCHANGED slot
          \/ slot' = [slot EXCEPT ![ThisChild(c)] = RemoveParent(slot[ThisChild(c)], call[c].obj)]
      BY DEF UndoChild
    <3> QED BY <1>3, <1>5, <3>1
  <2>2. e \in Live(a)
    BY <1>2, <2>1 DEF Live, Entry, f, j
  <2> QED BY <1>5, <2>2 DEF f
<1> QED BY <1>4, <1>5

\* The ways into and through the part of a call that adds entries or takes them out.
LEMMA LinkCalls ==
  ASSUME WaitType, NEW c \in Clients, Start(c) \/ CallStep(c), call'[c].pc \in LinkPcs \cup UndoPcs
  PROVE
    \/ \E a \in Arrays : WaitArray(c, a) /\ ~slot[a].valid /\ call'[c].obj = a
                         /\ call'[c].pc = "joinMask" /\ call'[c].i = 1
    \/ /\ call'[c].obj = call[c].obj /\ call[c].pc \in LinkPcs \cup UndoPcs
       /\ \/ /\ call[c].pc \in {"joinMask", "child"} /\ call'[c].pc \in {"child", "link"}
             /\ call'[c].i = call[c].i
          \/ /\ call[c].pc \in {"child", "link"} /\ call'[c].pc = "undo" /\ UNCHANGED slot
             /\ call'[c].i = call[c].i
          \/ /\ call[c].pc = "link" /\ call'[c].pc = "child" /\ call'[c].i = call[c].i + 1
             /\ CountSignalledChild(c, ThisChild(c)) \/ AddParent(c, ThisChild(c))
          \/ UndoChild(c) /\ call[c].i = 1 /\ call'[c].pc = "undoDestroy" /\ call[c].pc = "undo"
          \/ /\ UndoChild(c) /\ call'[c].pc = "undo" /\ call[c].pc = "undo"
             /\ call'[c].i = call[c].i - 1
<1>1. call'[c].pc \in JoinPcs
  BY DEF JoinPcs
<1>2. UndoChild(c) => call[c].pc = "undo"
  BY DEF UndoChild, At
<1> QED BY <1>1, <1>2, JoinCalls DEF LinkPcs, UndoPcs

LEMMA EntriesWalkedStep ==
  ASSUME WaitType, SlotsOwned, ResetOwn, JoinInv, [Next]_vars
  PROVE  EntriesWalked'
<1>1. /\ WaitType' /\ slot \in [Keys -> SlotRec] /\ Arrays \subseteq Keys
      /\ LinkPcs \subseteq JoinPcs /\ UndoPcs \subseteq JoinPcs
  BY TypeStep DEF WaitType, Keys, JoinPcs
<1>2. \A d \in Clients : call[d].pc \in JoinPcs => call[d].obj \in Arrays
                            /\ call[d].i \in 1..Len(Children[call[d].obj])
  BY DEF WaitType, GoodCall, CallShape
<1>3. /\ \A a \in Arrays : ~slot[a].valid => Live(a) = {}
      /\ \A c \in Clients, a \in Arrays : call[c].pc \in LinkPcs \cup UndoPcs /\ call[c].obj = a =>
              \A e \in Live(a) : \E i \in 1..Linked(c) : Children[a][i] = e[1]
  BY DEF JoinInv, EntriesWalked
<1>4. CASE UNCHANGED vars
  <2>1. UNCHANGED <<slot, call>>
    BY <1>4 DEF vars
  <2>2. \A a : Live(a)' = Live(a)
    BY <2>1 DEF Live, Entry
  <2>3. \A d : Linked(d)' = Linked(d)
    BY <2>1 DEF Linked
  <2> QED BY <1>3, <2>1, <2>2, <2>3 DEF EntriesWalked
<1>5. ASSUME NEW f \in Fences, CtlSignal(f)
      PROVE  EntriesWalked'
  <2>1. call' = call /\ \A a \in Arrays : slot'[a].valid = slot[a].valid
    BY <1>1, <1>5, CtlSlots DEF CtlSignal
  <2>2. \A a \in Arrays : Live(a)' \subseteq Live(a)
    BY <1>5, CtlCounts
  <2>3. \A d : Linked(d)' = Linked(d)
    BY <2>1 DEF Linked
  <2> QED BY <1>1, <1>2, <1>3, <2>1, <2>2, <2>3 DEF EntriesWalked
<1>6. ASSUME NEW c \in Clients, Start(c) \/ CallStep(c)
      PROVE  EntriesWalked'
  <2>1. \A d \in Clients : d # c => call'[d] = call[d]
    BY <1>6, OthersCalls
  <2>2. ASSUME NEW a \in Arrays, ~(call[c].pc = "link" /\ call[c].obj = a)
        PROVE  Live(a)' \subseteq Live(a)
    BY <1>6, <2>2, LiveStep DEF LinkChild, At
  <2>3. ASSUME NEW a \in Arrays, ~slot'[a].valid
        PROVE  Live(a)' = {}
    <3>1. CASE call[c].pc = "link" /\ call[c].obj = a
      <4>1. slot[a].valid
        BY <3>1 DEF JoinInv, JoinOwned, JoinPcs, LinkPcs
      <4>2. ~DestroyJoin(c) /\ ~UndoJoin(c)
        BY <3>1 DEF DestroyJoin, UndoJoin, At
      <4> QED BY <1>6, <2>3, <4>1, <4>2, ArrayStep
    <3>2. CASE Live(a) = {} /\ ~(call[c].pc = "link" /\ call[c].obj = a)
      BY <2>2, <3>2
    <3>3. CASE ~slot[a].valid
      BY <1>3, <3>1, <3>2, <3>3
    <3>4. CASE DestroyJoin(c) /\ call[c].obj = a
      <4>1. call[c].pc = "joinDestroy"
        BY <3>4 DEF DestroyJoin, At
      <4>2. slot[a].pending = 0
        BY <3>4, <4>1 DEF JoinInv, SignalAtZero, JoinPcs, EndPcs
      <4>3. 0 >= Cardinality(Live(a)) /\ Cardinality(Live(a)) \in Nat /\ IsFiniteSet(Live(a))
        BY <4>2, LiveFinite DEF JoinInv, Counted
      <4>4. Live(a) = {}
        BY <4>3, FS_EmptySet
      <4> QED BY <3>2, <4>1, <4>4
    <3>5. CASE UndoJoin(c) /\ call[c].obj = a
      <4>1. call[c].pc = "undoDestroy"
        BY <3>5 DEF UndoJoin, At
      <4>2. Linked(c) = 0
        BY <4>1 DEF Linked, LinkPcs
      <4>3. Live(a) = {}
        <5>1. call[c].pc \in UndoPcs
          BY <4>1 DEF UndoPcs
        <5>2. \A e \in Live(a) : \E i \in 1..0 : Children[a][i] = e[1]
          BY <1>3, <3>5, <4>2, <5>1
        <5> QED BY <5>2
      <4> QED BY <3>2, <4>1, <4>3
    <3> QED BY <1>6, <2>3, <3>3, <3>4, <3>5, ArrayStep
  <2>4. ASSUME NEW d \in Clients, d # c, call'[d].pc \in LinkPcs \cup UndoPcs,
               NEW a \in Arrays, call'[d].obj = a, NEW e \in Live(a)'
        PROVE  \E i \in 1..Linked(d)' : Children[a][i] = e[1]
    <3>1. call'[d] = call[d] /\ Linked(d)' = Linked(d)
      BY <2>1, <2>4 DEF Linked
    <3>2. call[d].pc \in JoinPcs /\ call[d].obj = a
      BY <1>1, <2>4, <3>1
    <3>3. ~(call[c].pc = "link" /\ call[c].obj = a)
      BY <2>4, <3>2 DEF JoinInv, JoinOwned, JoinPcs, LinkPcs
    <3>4. e \in Live(a)
      BY <2>2, <2>4, <3>3
    <3> QED BY <1>3, <2>4, <3>1, <3>2, <3>4
  <2>5. ASSUME call'[c].pc \in LinkPcs \cup UndoPcs,
               NEW a \in Arrays, call'[c].obj = a, NEW e \in Live(a)'
        PROVE  \E i \in 1..Linked(c)' : Children[a][i] = e[1]
    <3>1. Linked(c)' = IF call'[c].pc \in LinkPcs THEN call'[c].i - 1
                       ELSE IF call'[c].pc = "undo" THEN call'[c].i ELSE 0
      BY DEF Linked
    <3>2. ASSUME NEW b \in Arrays, WaitArray(c, b), ~slot[b].valid, call'[c].obj = b
          PROVE  FALSE
      <4>1. ~(call[c].pc = "link" /\ call[c].obj = b)
        BY <3>2 DEF JoinInv, JoinOwned, JoinPcs, LinkPcs
      <4>2. e \in Live(b)
        BY <2>2, <2>5, <3>2, <4>1
      <4> QED BY <1>3, <3>2, <4>2
    <3>3. call[c].pc \in LinkPcs \cup UndoPcs /\ call[c].obj = a
      BY <1>6, <2>5, <3>2, LinkCalls
    <3>4. call[c].i \in Nat
      BY <1>1, <1>2, <3>3 DEF WaitType, GoodCall, CallRec
    <3>5. CASE e \in Live(a)
      <4>1. PICK i \in 1..Linked(c) : Children[a][i] = e[1]
        BY <1>3, <3>3, <3>5
      <4>2. CASE call[c].pc \in {"joinMask", "child"} /\ call'[c].pc \in {"child", "link"} /\ call'[c].i = call[c].i
        <5>1. Linked(c)' = Linked(c)
          BY <3>1, <4>2 DEF Linked, LinkPcs
        <5> QED BY <4>1, <5>1
      <4>3. CASE /\ call[c].pc \in {"child", "link"}
                 /\ \/ call'[c].pc = "undo" /\ call'[c].i = call[c].i
                    \/ call'[c].pc = "child" /\ call'[c].i = call[c].i + 1
        <5>1. Linked(c) = call[c].i - 1 /\ Linked(c)' = call[c].i
          BY <3>1, <3>4, <4>3 DEF Linked, LinkPcs
        <5>2. i \in 1..Linked(c)'
          BY <3>4, <4>1, <5>1
        <5> QED BY <4>1, <5>2
      <4>4. ASSUME UndoChild(c), call[c].pc = "undo"
            PROVE  i \in 1..call[c].i /\ i # call[c].i
        <5>1. Linked(c) = call[c].i
          BY <4>4 DEF Linked, LinkPcs
        <5>2. e[1] # Children[a][call[c].i]
          BY <2>5, <3>3, <4>4, UndoTakes DEF ThisChild
        <5> QED BY <4>1, <5>1, <5>2
      <4>5. ~(UndoChild(c) /\ call[c].i = 1 /\ call[c].pc = "undo")
        BY <4>4
      <4>6. CASE UndoChild(c) /\ call[c].pc = "undo" /\ call'[c].pc = "undo" /\ call'[c].i = call[c].i - 1
        <5>1. Linked(c)' = call[c].i - 1
          BY <3>1, <4>6 DEF LinkPcs
        <5>2. i \in 1..Linked(c)'
          BY <3>4, <4>4, <4>6, <5>1
        <5> QED BY <4>1, <5>2
      <4> QED BY <1>6, <2>5, <3>2, <4>2, <4>3, <4>5, <4>6, LinkCalls
    <3>6. CASE e \notin Live(a)
      <4>1. call[c].pc = "link" /\ e[1] = ThisChild(c)
        BY <1>6, <2>5, <3>6, LiveStep DEF LinkChild, At
      <4>2. ~(UNCHANGED slot)
        <5>1. ASSUME slot' = slot
              PROVE  Live(a)' = Live(a)
          BY <5>1 DEF Live, Entry
        <5> QED BY <2>5, <3>6, <5>1
      <4>3. ~UndoChild(c)
        BY <4>1 DEF UndoChild, At
      <4>4. call'[c].pc = "child" /\ call'[c].i = call[c].i + 1
        BY <1>6, <2>5, <3>2, <4>1, <4>2, <4>3, LinkCalls
      <4>5. call[c].i \in 1..Linked(c)'
        <5>1. Linked(c)' = (call[c].i + 1) - 1
          BY <3>1, <4>4 DEF LinkPcs
        <5>2. call[c].i \in Nat /\ call[c].i >= 1
          BY <1>1, <1>2, <3>3, <3>4, ChildrenType
        <5> QED BY <5>1, <5>2
      <4> QED BY <3>3, <4>1, <4>5 DEF ThisChild
    <3> QED BY <3>5, <3>6
  <2> QED BY <2>3, <2>4, <2>5 DEF EntriesWalked
<1> QED BY <1>4, <1>5, <1>6 DEF Next

-----------------------------------------------------------------------------
(* The count *)

LEMMA LiveCount ==
  ASSUME NEW a
  PROVE  /\ Cardinality(Live(a)) \in Nat /\ Cardinality(Live(a)') \in Nat
         /\ Live(a)' \subseteq Live(a) => Cardinality(Live(a)') <= Cardinality(Live(a))
         /\ \A x : Live(a)' \subseteq Live(a) \cup {x} =>
                        Cardinality(Live(a)') <= Cardinality(Live(a)) + 1
<1>1. IsFiniteSet(Live(a)) /\ Cardinality(Live(a)) \in Nat
  BY LiveFinite
<1>2. Live(a)' \subseteq Fences \X (1..MaxParents)
  BY DEF Live
<1>3. IsFiniteSet(Live(a)') /\ Cardinality(Live(a)') \in Nat
  BY <1>2, EntriesFinite, FS_Subset, FS_CardinalityType
<1>4. Live(a)' \subseteq Live(a) => Cardinality(Live(a)') <= Cardinality(Live(a))
  BY <1>1, FS_Subset
<1>5. ASSUME NEW x, Live(a)' \subseteq Live(a) \cup {x}
      PROVE  Cardinality(Live(a)') <= Cardinality(Live(a)) + 1
  <2>1. /\ IsFiniteSet(Live(a) \cup {x})
        /\ Cardinality(Live(a) \cup {x}) = Cardinality(Live(a)) \/
           Cardinality(Live(a) \cup {x}) = Cardinality(Live(a)) + 1
    BY <1>1, FS_AddElement
  <2>2. Cardinality(Live(a)') <= Cardinality(Live(a) \cup {x})
    BY <1>5, <2>1, FS_Subset
  <2> QED BY <1>1, <1>3, <2>1, <2>2
<1> QED BY <1>1, <1>3, <1>4, <1>5

\* What the step of a call on an array costs the count of the array.
LEMMA CountStep ==
  ASSUME WaitType, SlotsOwned, ResetOwn, JoinInv,
         NEW c \in Clients, Start(c) \/ CallStep(c), NEW a \in Arrays
  PROVE  \/ slot'[a].pending = slot[a].pending /\ Live(a)' \subseteq Live(a)
         \/ /\ call[c].pc = "link" /\ call[c].obj = a
            /\ \/ /\ slot'[a].pending = slot[a].pending - 1 /\ Live(a)' \subseteq Live(a)
               \/ /\ slot'[a].pending = slot[a].pending
                  /\ \E x : Live(a)' \subseteq Live(a) \cup {x}
         \/ /\ WaitArray(c, a) /\ ~slot[a].valid
            /\ slot'[a].pending = Len(Children[a]) /\ Live(a)' = {}
         \/ /\ call[c].pc \in {"joinDestroy", "undoDestroy"} /\ call[c].obj = a
            /\ slot'[a].pending = 0 /\ Live(a)' = {}
<1>1. /\ WaitType' /\ slot \in [Keys -> SlotRec] /\ a \in Keys /\ a \notin Fences
  BY TypeStep, WaitAssumption DEF WaitType, Keys, Next
<1>2. CASE WaitArray(c, a) /\ ~slot[a].valid
  <2>1. ~(LinkChild(c) /\ call[c].obj = a)
    BY <1>2 DEF LinkChild, At, JoinInv, JoinOwned, JoinPcs, LinkPcs
  <2>2. Live(a) = {} /\ Live(a)' \subseteq Live(a)
    BY <1>2, <2>1, LiveStep DEF JoinInv, EntriesWalked
  <2> QED BY <1>2, <2>2, JoinFenceMade
<1>3. CASE (DestroyJoin(c) \/ UndoJoin(c)) /\ call[c].obj = a
  <2>1. call[c].pc \in {"joinDestroy", "undoDestroy"}
    BY <1>3 DEF DestroyJoin, UndoJoin, At
  <2>2. slot'[a] = FreeSlot
    BY <1>1, <1>3 DEF DestroyJoin, UndoJoin
  <2>3. slot'[a].pending = 0 /\ ~slot'[a].valid
    BY <2>2 DEF FreeSlot
  <2>4. Live(a)' = {}
    BY <2>3, EntriesWalkedStep DEF EntriesWalked, Next
  <2> QED BY <1>3, <2>1, <2>3, <2>4
<1>4. CASE LinkChild(c) /\ call[c].obj = a
  <2>1. call[c].pc = "link"
    BY <1>4 DEF LinkChild, At
  <2>2. CASE CountSignalledChild(c, ThisChild(c))
    <3>1. \A f \in Fences : slot'[f] = slot[f]
      BY <1>1, <1>4, <2>2 DEF CountSignalledChild, Keys
    <3>2. Live(a)' \subseteq Live(a)
      BY <3>1 DEF Live, Entry
    <3>3. slot'[a].pending = slot[a].pending - 1
      BY <1>1, <1>4, <2>2 DEF CountSignalledChild, SlotRec
    <3> QED BY <1>4, <2>1, <3>2, <3>3
  <2>3. CASE ~CountSignalledChild(c, ThisChild(c))
    <3>1. slot'[a].pending = slot[a].pending
      <4>1. ~WaitArray(c, a) /\ ~DestroyJoin(c) /\ ~UndoJoin(c)
        BY <1>4, <2>1 DEF WaitArray, Begin, MayStart, DestroyJoin, UndoJoin, At
      <4> QED BY <2>3, <4>1, ArrayStep
    <3>2. \E x : Live(a)' \subseteq Live(a) \cup {x}
      <4>1. CASE Live(a)' \subseteq Live(a)
        BY <4>1
      <4> QED BY <4>1, LiveStep
    <3> QED BY <1>4, <2>1, <3>1, <3>2
  <2> QED BY <2>2, <2>3
<1>5. CASE /\ ~(WaitArray(c, a) /\ ~slot[a].valid) /\ ~(LinkChild(c) /\ call[c].obj = a)
           /\ ~((DestroyJoin(c) \/ UndoJoin(c)) /\ call[c].obj = a)
  BY <1>5, ArrayStep, LiveStep
<1> QED BY <1>2, <1>3, <1>4, <1>5

LEMMA CountedStep ==
  ASSUME WaitType, SlotsOwned, ResetOwn, JoinInv, [Next]_vars
  PROVE  Counted'
<1>1. /\ WaitType' /\ slot \in [Keys -> SlotRec] /\ Arrays \subseteq Keys /\ Fences \subseteq Keys
      /\ Fences \cap Arrays = {} /\ LinkPcs \subseteq JoinPcs
  BY TypeStep, WaitAssumption DEF WaitType, Keys, JoinPcs
<1>2. \A d \in Clients : call[d].pc \in JoinPcs => /\ call[d].obj \in Arrays
                                                   /\ call[d].i \in 1..Len(Children[call[d].obj])
                                                   /\ call[d].i \in Nat
  BY DEF WaitType, GoodCall, CallShape, CallRec
<1>3. /\ \A f \in Fences : slot[f].pending = 0
      /\ \A a \in Arrays : slot[a].pending >= Cardinality(Live(a))
      /\ \A d \in Clients, a \in Arrays : call[d].pc \in LinkPcs /\ call[d].obj = a =>
              slot[a].pending >= Cardinality(Live(a)) + ToLink(d)
  BY DEF JoinInv, Counted
\* The children that are left to look at are at least this one.
<1>4. ASSUME NEW d \in Clients, call[d].pc \in LinkPcs
      PROVE  ToLink(d) \in Nat /\ ToLink(d) >= 1
  <2>1. Len(Children[call[d].obj]) \in Nat /\ call[d].i \in 1..Len(Children[call[d].obj])
    BY <1>1, <1>2, <1>4, ChildrenType
  <2> QED BY <2>1 DEF ToLink
<1>5. \A a \in Arrays : /\ slot[a].pending \in Int
                        /\ Cardinality(Live(a)) \in Nat /\ Cardinality(Live(a)') \in Nat
  BY <1>1, LiveCount DEF SlotRec
<1>6. CASE UNCHANGED vars
  <2>1. UNCHANGED <<slot, call>>
    BY <1>6 DEF vars
  <2>2. \A a : Live(a)' = Live(a)
    BY <2>1 DEF Live, Entry
  <2>3. \A d : ToLink(d)' = ToLink(d)
    BY <2>1 DEF ToLink
  <2> QED BY <1>3, <2>1, <2>2, <2>3 DEF Counted
<1>7. ASSUME NEW f \in Fences, CtlSignal(f)
      PROVE  Counted'
  <2>1. call' = call
    BY <1>7 DEF CtlSignal
  <2>2. \A d : ToLink(d)' = ToLink(d)
    BY <2>1 DEF ToLink
  <2>3. \A g \in Fences : slot'[g].pending = 0
    BY <1>1, <1>3, <1>7, CtlSlots
  <2>4. ASSUME NEW a \in Arrays
        PROVE  /\ slot'[a].pending >= Cardinality(Live(a)')
               /\ \A d \in Clients : call'[d].pc \in LinkPcs /\ call'[d].obj = a =>
                       slot'[a].pending >= Cardinality(Live(a)') + ToLink(d)
    <3>1. Cardinality(Live(a)) = Cardinality(Live(a)') + Hits(f, a) /\ Hits(f, a) \in Nat
      BY <1>7, CtlCounts
    <3>2. CASE slot[a].valid /\ Hits(f, a) > 0 /\ slot[a].pending = Hits(f, a)
      <4>1. slot'[a].pending = 0
        BY <1>1, <1>7, <3>2, CtlSlots
      <4>2. Cardinality(Live(a)') = 0
        BY <1>3, <1>5, <3>1, <3>2
      <4>3. ASSUME NEW d \in Clients, call[d].pc \in LinkPcs, call[d].obj = a
            PROVE  FALSE
        BY <1>3, <1>4, <1>5, <3>1, <3>2, <4>3
      <4> QED BY <2>1, <4>1, <4>2, <4>3
    <3>3. CASE ~(slot[a].valid /\ Hits(f, a) > 0 /\ slot[a].pending = Hits(f, a))
      <4>1. slot'[a].pending = IF slot[a].valid THEN slot[a].pending - Hits(f, a)
                               ELSE slot[a].pending
        BY <1>1, <1>7, <3>3, CtlSlots
      <4>2. slot'[a].pending \in Int /\ slot'[a].pending >= slot[a].pending - Hits(f, a)
        BY <1>5, <3>1, <4>1
      <4>3. slot'[a].pending >= Cardinality(Live(a)')
        BY <1>3, <1>5, <3>1, <4>2
      <4>4. ASSUME NEW d \in Clients, call[d].pc \in LinkPcs, call[d].obj = a
            PROVE  slot'[a].pending >= Cardinality(Live(a)') + ToLink(d)
        <5>1. slot[a].pending >= Cardinality(Live(a)) + ToLink(d) /\ ToLink(d) \in Nat
          BY <1>3, <1>4, <4>4
        <5> QED BY <1>5, <3>1, <4>2, <5>1
      <4> QED BY <2>1, <4>3, <4>4
    <3> QED BY <3>2, <3>3
  <2> QED BY <2>2, <2>3, <2>4 DEF Counted
<1>8. ASSUME NEW c \in Clients, Start(c) \/ CallStep(c)
      PROVE  Counted'
  <2>1. \A g \in Fences : slot'[g].pending = 0
    BY <1>3, <1>8, FenceParents
  <2>2. \A d \in Clients : d # c => call'[d] = call[d] /\ ToLink(d)' = ToLink(d)
    BY <1>8, OthersCalls DEF ToLink
  <2>3. ToLink(c)' = Len(Children[call'[c].obj]) - call'[c].i + 1
    BY DEF ToLink
  <2>4. ASSUME NEW a \in Arrays
        PROVE  slot'[a].pending >= Cardinality(Live(a)')
    <3>1. CASE slot'[a].pending = slot[a].pending /\ Live(a)' \subseteq Live(a)
      BY <1>3, <1>5, <3>1, LiveCount
    <3>2. CASE call[c].pc = "link" /\ call[c].obj = a
      <4>1. call[c].pc \in LinkPcs
        BY <3>2 DEF LinkPcs
      <4>2. slot[a].pending >= Cardinality(Live(a)) + ToLink(c) /\ ToLink(c) \in Nat /\ ToLink(c) >= 1
        BY <1>3, <1>4, <3>2, <4>1
      <4>3. CASE slot'[a].pending = slot[a].pending - 1 /\ Live(a)' \subseteq Live(a)
        BY <1>5, <4>2, <4>3, LiveCount
      <4>4. CASE slot'[a].pending = slot[a].pending /\ \E x : Live(a)' \subseteq Live(a) \cup {x}
        <5>1. Cardinality(Live(a)') <= Cardinality(Live(a)) + 1
          BY <4>4, LiveCount
        <5> QED BY <1>5, <4>2, <4>4, <5>1
      <4>5. call[c].pc \notin {"joinDestroy", "undoDestroy"} /\ ~WaitArray(c, a)
        BY <3>2 DEF WaitArray, Begin, MayStart
      <4> QED BY <1>8, <3>1, <4>3, <4>4, <4>5, CountStep
    <3>3. CASE Live(a)' = {} /\ slot'[a].pending \in Nat
      <4>1. Cardinality(Live(a)') = 0
        BY <3>3, FS_EmptySet
      <4> QED BY <3>3, <4>1
    <3>4. Len(Children[a]) \in Nat
      BY ChildrenType
    <3> QED BY <1>8, <3>1, <3>2, <3>3, <3>4, CountStep
  <2>5. ASSUME NEW d \in Clients, d # c, NEW a \in Arrays, call'[d].pc \in LinkPcs, call'[d].obj = a
        PROVE  slot'[a].pending >= Cardinality(Live(a)') + ToLink(d)'
    <3>1. call[d].pc \in LinkPcs /\ call[d].obj = a /\ ToLink(d)' = ToLink(d) /\ ToLink(d) \in Nat
      BY <1>4, <2>2, <2>5
    <3>2. slot[a].valid /\ ~(call[c].pc \in JoinPcs /\ call[c].obj = a)
      BY <1>1, <2>5, <3>1 DEF JoinInv, JoinOwned
    <3>3. slot'[a].pending = slot[a].pending /\ Live(a)' \subseteq Live(a)
      BY <1>8, <3>2, CountStep DEF JoinPcs, LinkPcs, EndPcs, UndoPcs
    <3>4. Cardinality(Live(a)') <= Cardinality(Live(a))
      BY <3>3, LiveCount
    <3>5. slot[a].pending >= Cardinality(Live(a)) + ToLink(d)
      BY <1>3, <3>1
    <3> QED BY <1>5, <3>1, <3>3, <3>4, <3>5
  <2>6. ASSUME NEW a \in Arrays, call'[c].pc \in LinkPcs, call'[c].obj = a
        PROVE  slot'[a].pending >= Cardinality(Live(a)') + ToLink(c)'
    <3>1. CASE WaitArray(c, a) /\ ~slot[a].valid /\ call'[c].i = 1
      <4>1. Len(Children[a]) \in Nat
        BY ChildrenType
      <4>2. slot'[a].pending = Len(Children[a]) /\ Live(a)' \subseteq Live(a) /\ Live(a) = {}
        <5>1. ~(LinkChild(c) /\ call[c].obj = a)
          BY <3>1 DEF LinkChild, At, JoinInv, JoinOwned, JoinPcs, LinkPcs
        <5> QED BY <1>8, <3>1, <5>1, JoinFenceMade, LiveStep DEF JoinInv, EntriesWalked
      <4>3. Cardinality(Live(a)') = 0
        BY <4>2, FS_EmptySet
      <4>4. ToLink(c)' = (Len(Children[a]) - 1) + 1
        BY <2>3, <2>6, <3>1
      <4> QED BY <4>1, <4>2, <4>3, <4>4
    <3>2. call'[c].pc \in LinkPcs \cup UndoPcs
      BY <2>6
    <3>3. CASE /\ call[c].obj = a /\ call[c].pc \in {"joinMask", "child"} /\ call'[c].i = call[c].i
      <4>1. slot'[a].pending = slot[a].pending /\ Live(a)' \subseteq Live(a)
        BY <1>8, <3>3, CountStep DEF WaitArray, Begin, MayStart
      <4>2. call[c].pc \in LinkPcs /\ ToLink(c)' = ToLink(c)
        BY <2>3, <2>6, <3>3 DEF ToLink, LinkPcs
      <4>3. slot[a].pending >= Cardinality(Live(a)) + ToLink(c) /\ ToLink(c) \in Nat
        BY <1>3, <1>4, <3>3, <4>2
      <4>4. Cardinality(Live(a)') <= Cardinality(Live(a))
        BY <4>1, LiveCount
      <4> QED BY <1>5, <4>1, <4>2, <4>3, <4>4
    <3>4. CASE call[c].obj = a /\ call[c].pc = "link" /\ call'[c].i = call[c].i + 1
      <4>1. call[c].pc \in LinkPcs
        BY <3>4 DEF LinkPcs
      <4>2. slot[a].pending >= Cardinality(Live(a)) + ToLink(c) /\ ToLink(c) \in Nat /\ ToLink(c) >= 1
        BY <1>3, <1>4, <3>4, <4>1
      <4>3. ToLink(c)' = ToLink(c) - 1
        <5>1. ToLink(c)' = Len(Children[a]) - (call[c].i + 1) + 1
          BY <2>3, <2>6, <3>4
        <5>2. ToLink(c) = Len(Children[a]) - call[c].i + 1
          BY <3>4 DEF ToLink
        <5>3. Len(Children[a]) \in Nat /\ call[c].i \in Nat
          BY <1>1, <1>2, <4>1, ChildrenType
        <5> QED BY <5>1, <5>2, <5>3
      <4>4. CASE slot'[a].pending = slot[a].pending /\ Live(a)' \subseteq Live(a)
        <5>1. Cardinality(Live(a)') <= Cardinality(Live(a))
          BY <4>4, LiveCount
        <5> QED BY <1>5, <4>2, <4>3, <4>4, <5>1
      <4>5. CASE slot'[a].pending = slot[a].pending - 1 /\ Live(a)' \subseteq Live(a)
        <5>1. Cardinality(Live(a)') <= Cardinality(Live(a))
          BY <4>5, LiveCount
        <5> QED BY <1>5, <4>2, <4>3, <4>5, <5>1
      <4>6. CASE slot'[a].pending = slot[a].pending /\ \E x : Live(a)' \subseteq Live(a) \cup {x}
        <5>1. Cardinality(Live(a)') <= Cardinality(Live(a)) + 1
          BY <4>6, LiveCount
        <5> QED BY <1>5, <4>2, <4>3, <4>6, <5>1
      <4>7. call[c].pc \notin {"joinDestroy", "undoDestroy"} /\ ~WaitArray(c, a)
        BY <3>4 DEF WaitArray, Begin, MayStart
      <4> QED BY <1>8, <4>4, <4>5, <4>6, <4>7, CountStep
    <3>5. call'[c].pc # "undo" /\ call'[c].pc # "undoDestroy"
      BY <2>6 DEF LinkPcs
    <3> QED BY <1>8, <2>6, <3>1, <3>2, <3>3, <3>4, <3>5, LinkCalls
  <2> QED BY <2>1, <2>4, <2>5, <2>6 DEF Counted
<1> QED BY <1>6, <1>7, <1>8 DEF Next

-----------------------------------------------------------------------------
(* Theorems *)

LEMMA InitJoin == Init => JoinInv /\ ChildrenStay
<1> SUFFICES ASSUME Init PROVE JoinInv /\ ChildrenStay
  OBVIOUS
<1>1. \A c \in Clients : call[c].pc = "idle"
  BY DEF Init, NoCall
<1>2. ASSUME NEW k \in Keys
      PROVE  slot[k].cnt = 0 /\ slot[k].pending = 0
  <2>1. slot[k] = FreeSlot \/ slot[k] = [FreeSlot EXCEPT !.valid = TRUE, !.alloc = Allocator[k]]
    BY DEF Init
  <2>2. FreeSlot \in SlotRec /\ FreeSlot.cnt = 0 /\ FreeSlot.pending = 0
    BY FreeSlotType DEF FreeSlot
  <2>3. [FreeSlot EXCEPT !.valid = TRUE, !.alloc = Allocator[k]].cnt = FreeSlot.cnt
        /\ [FreeSlot EXCEPT !.valid = TRUE, !.alloc = Allocator[k]].pending = FreeSlot.pending
    BY <2>2 DEF SlotRec
  <2> QED BY <2>1, <2>2, <2>3
<1>3. \A f \in Fences : \A j : ~(j \in 1..slot[f].cnt)
  BY <1>2 DEF Keys
<1>4. \A a : Live(a) = {}
  BY <1>3 DEF Live, Entry
<1>5. Cardinality({}) = 0
  BY FS_EmptySet
<1>6. \A a \in Arrays : Cardinality(Live(a)) = 0
  BY <1>4, <1>5
<1>7. JoinOwned /\ SignalAtZero /\ EntriesWalked
  BY <1>1, <1>4 DEF JoinOwned, SignalAtZero, EntriesWalked, JoinPcs, LinkPcs, EndPcs, UndoPcs
<1>8. Counted
  BY <1>1, <1>2, <1>6 DEF Counted, LinkPcs, Keys
<1>9. ChildrenStay
  BY <1>1, <1>2 DEF ChildrenStay, Keys
<1> QED BY <1>7, <1>8, <1>9 DEF JoinInv

LEMMA JoinInvStep == WaitInv /\ JoinInv /\ [Next]_vars => JoinInv'
<1> SUFFICES ASSUME WaitInv, JoinInv, [Next]_vars PROVE JoinInv'
  OBVIOUS
<1>1. WaitType /\ SlotsOwned /\ ResetOwn
  BY DEF WaitInv
<1>2. JoinOwned'
  BY <1>1, JoinOwnedStep DEF JoinInv
<1>3. SignalAtZero'
  BY <1>1, <1>2, SignalAtZeroStep DEF JoinInv
<1> QED BY <1>1, <1>2, <1>3, CountedStep, EntriesWalkedStep DEF JoinInv

\* A join fence counts at least the entries that name it in children not yet
\* signalled and the children its call has still to look at, and a call signals
\* it only when it counts nothing (hw_fence_process_fence_array and the
\* controller count it down).
THEOREM JoinInvariant == Spec => [](WaitInv /\ JoinInv)
BY InitInv, InitJoin, WaitInvStep, JoinInvStep, PTL DEF Spec

\* pending_child_cnt never goes below zero, and every other field has its type:
\* no child is counted down twice by hw_fence_process_fence_array and the
\* controller together.
THEOREM TypeCorrect == Spec => []TypeOK
<1>1. ASSUME WaitInv, JoinInv
      PROVE  TypeOK
  <2>1. WaitType /\ Counted
    BY <1>1 DEF WaitInv, JoinInv
  <2>2. ASSUME NEW k \in Keys
        PROVE  slot[k] \in SlotRec /\ slot[k].pending \in Nat
    <3>1. slot[k] \in SlotRec /\ slot[k].pending \in Int
      BY <2>1 DEF WaitType, SlotRec
    <3>2. CASE k \in Fences
      BY <2>1, <3>1, <3>2 DEF Counted
    <3>3. CASE k \in Arrays
      <4>1. slot[k].pending >= Cardinality(Live(k)) /\ Cardinality(Live(k)) \in Nat
        BY <2>1, <3>3, LiveFinite DEF Counted
      <4> QED BY <3>1, <4>1
    <3> QED BY <3>2, <3>3 DEF Keys
  <2>3. ASSUME NEW k \in Keys
        PROVE  slot[k] \in [valid : BOOLEAN, alloc : Clients \cup {JoinClient, None},
                   signal : BOOLEAN, mask : SUBSET Clients,
                   parents : [1..MaxParents -> Arrays \cup {None}], cnt : 0..MaxParents,
                   pending : Nat, data : [Clients -> Nat]]
    BY <2>2 DEF SlotRec
  <2>4. slot = [k \in Keys |-> slot[k]]
    BY <2>1 DEF WaitType
  <2>5. \A c \in Clients :
           /\ \A p \in rxq[c] : p.key \in Keys \cup {None} /\ p.data \in Nat /\ p.error \in Nat
           /\ waiting[c] \subseteq Keys
           /\ call[c].obj \in Keys \cup {None} /\ call[c].left \in Seq(Keys)
    BY <2>1 DEF WaitType, GoodCall, CallRec
  <2> QED BY <2>3, <2>4, <2>5 DEF TypeOK
<1> QED BY <1>1, JoinInvariant, PTL

LEMMA ChildrenStayStep ==
  ASSUME QuietReset, WaitInv, JoinInv, OneResets, ChildrenStay, [Next]_vars
  PROVE  ChildrenStay'
<1>1. /\ WaitType /\ ResetOwn /\ slot \in [Keys -> SlotRec] /\ Fences \subseteq Keys
      /\ JoinInv' /\ WaitType'
  BY JoinInvStep, TypeStep DEF WaitInv, WaitType, Keys
<1>2. /\ \A f \in Fences : ~slot[f].valid => slot[f].cnt = 0
      /\ \A c \in Clients : call[c].pc = "link" => slot[ThisChild(c)].valid /\ ThisChild(c) \in Fences
  BY DEF ChildrenStay, JoinInv, JoinOwned
<1>3. FreeSlot.valid = FALSE /\ FreeSlot.cnt = 0
  BY DEF FreeSlot
<1>4. CASE UNCHANGED vars
  <2>1. UNCHANGED <<slot, call>>
    BY <1>4 DEF vars
  <2> QED BY <1>2, <2>1 DEF ChildrenStay, ThisChild
<1>5. ASSUME NEW f \in Fences, CtlSignal(f)
      PROVE  ChildrenStay'
  <2>1. call' = call /\ \A g \in Fences : slot'[g].valid = slot[g].valid /\ slot'[g].cnt = slot[g].cnt
    BY <1>1, <1>5, CtlSlots DEF CtlSignal
  <2> QED BY <1>2, <2>1 DEF ChildrenStay, ThisChild
<1>6. ASSUME NEW c \in Clients, Start(c) \/ CallStep(c)
      PROVE  ChildrenStay'
  <2>1. \A d \in Clients : d # c => call'[d] = call[d]
    BY <1>1, <1>6, OthersCalls
  \* Only its allocator's reset takes a fence out of the table.
  <2>2. ASSUME NEW f \in Fences, slot[f].valid, ~slot'[f].valid
        PROVE  DropFence(c) /\ slot'[f] = FreeSlot
    BY <1>1, <1>6, <2>2, FenceStep DEF SameFor
  <2>3. ASSUME NEW f \in Fences, ~slot'[f].valid
        PROVE  slot'[f].cnt = 0
    <3>1. CASE slot[f].valid
      BY <1>3, <2>2, <2>3, <3>1
    <3>2. CASE ~slot[f].valid
      <4>1. ~(LinkChild(c) /\ ThisChild(c) = f)
        BY <1>2, <3>2 DEF LinkChild, At
      <4> QED BY <1>1, <1>2, <1>3, <1>6, <3>2, <4>1, FenceParents
    <3> QED BY <3>1, <3>2
  <2>4. ASSUME NEW d \in Clients, d # c, call'[d].pc = "link"
        PROVE  slot'[Children[call'[d].obj][call'[d].i]].valid
    <3>1. call'[d] = call[d] /\ slot[ThisChild(d)].valid /\ ThisChild(d) \in Fences
      BY <1>2, <2>1, <2>4
    <3>2. ~DropFence(c)
      BY <2>4, <3>1 DEF OneResets, DropFence, At, Resetting
    <3> QED BY <2>2, <3>1, <3>2 DEF ThisChild
  <2>5. ASSUME call'[c].pc = "link"
        PROVE  slot'[Children[call'[c].obj][call'[c].i]].valid
    <3>1. call'[c].pc \in LinkPcs \cup UndoPcs /\ call'[c].pc \in JoinPcs
      BY <2>5 DEF LinkPcs, JoinPcs
    <3>2. /\ call'[c].obj = call[c].obj /\ call'[c].i = call[c].i /\ UNCHANGED slot
          /\ slot[ThisChild(c)].valid
      BY <1>1, <1>6, <2>5, <3>1, JoinCalls
    <3> QED BY <3>2 DEF ThisChild
  <2> QED BY <2>1, <2>3, <2>4, <2>5 DEF ChildrenStay, ThisChild
<1> QED BY <1>4, <1>5, <1>6 DEF Next

\* When no wait overlaps a reset, no child that can still be signalled names a
\* join fence that is gone: _cleanup_join_and_child_fences takes out every entry
\* that hw_fence_process_fence_array made, and a join fence is destroyed by its
\* own call only when no child counts it any more.
THEOREM NoDangling == QuietReset => (Spec => []NoDanglingParent)
<1> SUFFICES ASSUME QuietReset
             PROVE  Spec => []NoDanglingParent
  OBVIOUS
<1> DEFINE Quiet == WaitInv /\ JoinInv /\ OneResets /\ ChildrenStay
<1>1. Init => Quiet
  BY InitInv, InitJoin
<1>2. ASSUME Quiet, [Next]_vars
      PROVE  Quiet'
  <2>1. WaitInv' /\ JoinInv'
    BY <1>2, WaitInvStep, JoinInvStep
  <2>2. OneResets'
    BY <1>2, OneResetsStep DEF WaitInv
  <2>3. ChildrenStay'
    BY <1>2, ChildrenStayStep
  <2> QED BY <2>1, <2>2, <2>3
<1>3. ASSUME Quiet, TypeOK
      PROVE  NoDanglingParent
  <2> SUFFICES ASSUME NEW f \in Fences, ~slot[f].signal, NEW j \in 1..slot[f].cnt,
                      slot[f].parents[j] # None
               PROVE  slot[slot[f].parents[j]].valid
    BY <1>3 DEF NoDanglingParent
  <2>1. slot[f] \in SlotRec /\ MaxParents \in Nat
    BY <1>3, WaitAssumption DEF WaitInv, WaitType, Keys
  <2>2. slot[f].cnt \in 0..MaxParents /\ j \in 1..MaxParents
    BY <2>1 DEF SlotRec
  <2>3. PICK a \in Arrays : a = slot[f].parents[j]
    BY <2>1, <2>2 DEF SlotRec
  <2>4. slot[f].valid
    <3>1. ~slot[f].valid => slot[f].cnt = 0
      BY <1>3 DEF ChildrenStay
    <3> QED BY <3>1
  <2>5. <<f, j>> \in Live(a)
    BY <2>2, <2>3, <2>4 DEF Live, Entry
  <2> QED BY <1>3, <2>3, <2>5 DEF JoinInv, EntriesWalked
<1> HIDE DEF Quiet
<1> QED BY <1>1, <1>2, <1>3, TypeCorrect, PTL DEF Spec

-----------------------------------------------------------------------------
(* What a join fence counts, and who hears of it *)

\* No array has been refused and no client has begun to reset.
Undisturbed == \A c \in Clients : call[c].pc \notin UndoPcs \cup ResetPcs

Joins(c, a) == call[c].pc \in JoinPcs /\ call[c].obj = a

\* A call on the array has still to look at child i.
AheadIn(calls, a, i) ==
    \E c \in Clients : calls[c].obj = a /\ calls[c].pc \in LinkPcs /\ i >= calls[c].i
Ahead(a, i) == AheadIn(call, a, i)

Open(a) == {i \in DOMAIN Children[a] : ~Signalled(a, i) \/ Ahead(a, i)}
Behind(a, f) == {i \in DOMAIN Children[a] : slot[a].valid /\ ~Ahead(a, i) /\ Children[a][i] = f}
EntriesOf(f, a) == {j \in 1..slot[f].cnt : slot[f].parents[j] = a}

FencesStay == \A f \in Fences : slot[f].valid
OpenCounted == \A a \in Arrays : slot[a].valid => slot[a].pending = Cardinality(Open(a))
EntriesMatch ==
    \A f \in Fences, a \in Arrays :
        ~slot[f].signal => Cardinality(EntriesOf(f, a)) = Cardinality(Behind(a, f))
FlagAtZero ==
    /\ \A a \in Arrays : slot[a].signal => slot[a].valid /\ slot[a].pending = 0
    /\ \A c \in Clients : call[c].pc \in JoinPcs /\ call[c].sig => ~slot[call[c].obj].signal
OneOwner ==
    \A c \in Clients, a \in Arrays :
        /\ Joins(c, a) => /\ a \notin todo[c] /\ a \notin waiting[c] /\ slot[a].mask \subseteq {c}
                          /\ call[c].pc # "joinMask" => c \in slot[a].mask
        /\ a \in waiting[c] \/ c \in slot[a].mask \/ Told(c, a) => a \notin todo[c]
ToldAtZero ==
    \A c \in Clients, a \in Arrays : Told(c, a) =>
        /\ \A i \in DOMAIN Children[a] : Signalled(a, i)
        /\ c \in slot[a].mask => slot[a].pending = 0
        /\ Joins(c, a) /\ call[c].pc # "joinDestroy" => slot[a].signal
ToldOnce == \A c \in Clients, a \in Arrays :
                \A p, q \in rxq[c] : p.key = a /\ q.key = a => p = q
WaitersHear ==
    \A c \in Clients, a \in Arrays :
        /\ Joins(c, a) /\ call[c].pc = "joinDestroy" => Told(c, a)
        /\ a \in waiting[c] => Told(c, a) \/ (slot[a].valid /\ c \in slot[a].mask)
        /\ slot[a].valid /\ c \in slot[a].mask /\ slot[a].pending = 0 =>
                Told(c, a) \/ (Joins(c, a) /\ call[c].sig)

ExactInv ==
    /\ FencesStay /\ OpenCounted /\ EntriesMatch /\ FlagAtZero
    /\ OneOwner /\ ToldAtZero /\ ToldOnce /\ WaitersHear

-----------------------------------------------------------------------------
(* What the steps of a call on an array change *)

\* A step apart from the join fences.
Aside ==
    /\ \A a \in Arrays : slot'[a] = slot[a]
    /\ \A f \in Fences : /\ slot'[f].valid = slot[f].valid /\ slot'[f].signal = slot[f].signal
                         /\ slot'[f].cnt = slot[f].cnt /\ slot'[f].parents = slot[f].parents
    /\ \A d \in Clients : call'[d] = call[d] \/ (call[d].pc \notin JoinPcs /\ call'[d].pc \notin JoinPcs)
    /\ \A d \in Clients, a \in Arrays : /\ a \in todo'[d] => a \in todo[d]
                                        /\ a \in waiting'[d] <=> a \in waiting[d]
                                        /\ \A p : p.key = a => (p \in rxq'[d] <=> p \in rxq[d])

\* The rest of the slots and calls.
Others(c, a) ==
    /\ \A b \in Arrays : b # a => slot'[b] = slot[b]
    /\ \A d \in Clients : d # c => call'[d] = call[d]
FencesSame == \A f \in Fences : slot'[f] = slot[f]
MaskSame(a) == slot'[a].valid = slot[a].valid /\ slot'[a].signal = slot[a].signal
               /\ slot'[a].mask = slot[a].mask
CallSame(c) == call'[c].obj = call[c].obj /\ call'[c].i = call[c].i /\ call'[c].sig = call[c].sig
NextIndex(c, a) ==
    /\ call'[c].obj = call[c].obj
    /\ \/ call[c].i = Len(Children[a]) /\ call'[c].pc = "finish"
       \/ /\ call[c].i # Len(Children[a]) /\ call'[c].pc = "child" /\ call'[c].i = call[c].i + 1

Made(c, a) ==
    /\ FencesSame /\ Others(c, a) /\ UNCHANGED <<rxq, waiting>>
    /\ ~slot[a].valid /\ a \in todo[c] /\ todo' = [todo EXCEPT ![c] = @ \ {a}]
    /\ slot'[a].valid /\ ~slot'[a].signal /\ slot'[a].mask = {} /\ slot'[a].pending = Len(Children[a])
    /\ call[c].pc = "idle"
    /\ call'[c].pc = "joinMask" /\ call'[c].obj = a /\ call'[c].i = 1 /\ ~call'[c].sig
Masked(c, a) ==
    /\ FencesSame /\ Others(c, a) /\ UNCHANGED <<rxq, waiting, todo>>
    /\ slot'[a].valid = slot[a].valid /\ slot'[a].signal = slot[a].signal
    /\ slot'[a].mask = slot[a].mask \cup {c} /\ slot'[a].pending = slot[a].pending
    /\ call[c].pc = "joinMask" /\ call[c].obj = a /\ call'[c].pc = "child" /\ CallSame(c)
Found(c, a) ==
    /\ FencesSame /\ Others(c, a) /\ UNCHANGED <<slot, rxq, waiting, todo>>
    /\ call[c].pc = "child" /\ call[c].obj = a /\ call'[c].pc = "link" /\ CallSame(c)
CountedOff(c, a) ==
    /\ FencesSame /\ Others(c, a) /\ UNCHANGED <<rxq, waiting, todo>>
    /\ ThisChild(c) \in Fences /\ slot[ThisChild(c)].signal
    /\ MaskSame(a) /\ slot'[a].pending = slot[a].pending - 1
    /\ call[c].pc = "link" /\ call[c].obj = a /\ NextIndex(c, a)
    /\ call'[c].sig = (call[c].sig \/ slot[a].pending = 1)
Added(c, a) ==
    LET f == ThisChild(c)
    IN  /\ Others(c, a) /\ UNCHANGED <<rxq, waiting, todo>>
        /\ \A g \in Fences : g # f => slot'[g] = slot[g]
        /\ f \in Fences /\ ~slot[f].signal /\ slot'[f].signal = slot[f].signal /\ slot'[f].valid = slot[f].valid
        /\ slot[f].cnt + 1 \in 1..MaxParents /\ slot'[f].cnt = slot[f].cnt + 1
        /\ slot'[f].parents = [slot[f].parents EXCEPT ![slot[f].cnt + 1] = a]
        /\ slot'[a] = slot[a]
        /\ call[c].pc = "link" /\ call[c].obj = a /\ NextIndex(c, a) /\ call'[c].sig = call[c].sig
Finished(c, a) ==
    /\ FencesSame /\ Others(c, a) /\ UNCHANGED <<rxq, todo>>
    /\ MaskSame(a) /\ slot'[a].pending = slot[a].pending
    /\ call[c].pc = "finish" /\ call[c].obj = a
    /\ \/ call[c].sig /\ call'[c].pc = "joinSignal" /\ CallSame(c) /\ waiting' = waiting
       \/ ~call[c].sig /\ call'[c] = NoCall /\ waiting' = [waiting EXCEPT ![c] = @ \cup {a}]
Signals(c, a) ==
    /\ FencesSame /\ Others(c, a) /\ UNCHANGED <<slot, waiting, todo>>
    /\ call[c].pc = "joinSignal" /\ call[c].obj = a /\ call'[c].pc = "joinDestroy" /\ CallSame(c)
    /\ rxq' = [rxq EXCEPT ![c] = Write(@, a, 0, DataOf(c))]
Destroyed(c, a) ==
    /\ FencesSame /\ Others(c, a) /\ UNCHANGED <<rxq, todo>>
    /\ slot'[a] = FreeSlot
    /\ call[c].pc = "joinDestroy" /\ call[c].obj = a /\ call'[c] = NoCall
    /\ waiting' = [waiting EXCEPT ![c] = @ \cup {a}]

JoinMove(c, a) ==
    \/ Made(c, a) \/ Masked(c, a) \/ Found(c, a) \/ CountedOff(c, a) \/ Added(c, a)
    \/ Finished(c, a) \/ Signals(c, a) \/ Destroyed(c, a)

LEMMA JoinMoves ==
  ASSUME WaitType, JoinOwned, Undisturbed, Undisturbed', NEW c \in Clients, JoinStep(c)
  PROVE  Aside \/ \E a \in Arrays : JoinMove(c, a)
<1> USE DEF JoinPcs, LinkPcs, EndPcs
<1>1. /\ slot \in [Keys -> SlotRec] /\ Fences \subseteq Keys /\ Arrays \subseteq Keys
      /\ Fences \cap Arrays = {}
  BY WaitAssumption DEF WaitType, Keys
<1>2. call \in [Clients -> GoodCall] /\ call[c] \in CallRec /\ CallShape(call[c]) /\ NoCall.pc = "idle"
  BY DEF WaitType, GoodCall, NoCall
<1>3. \A d \in Clients : d # c => call'[d] = call[d]
  <2>1. Start(c) \/ CallStep(c)
    BY Zenon DEF Start, CallStep, JoinStep
  <2> QED BY <2>1, OthersCalls
<1>4. todo = [d \in Clients |-> todo[d]] /\ waiting \in [Clients -> SUBSET Keys]
  BY DEF WaitType
<1>5. ASSUME NEW pc, Goto(c, pc)
      PROVE  call'[c].pc = pc /\ CallSame(c)
  BY <1>2, <1>5 DEF Goto, CallRec, CallSame
<1>6. ASSUME NEW ok, Return(c, ok)
      PROVE  call'[c] = NoCall
  BY <1>2, <1>6 DEF Return
<1>7. call'[c].pc # "undo"
  BY DEF Undisturbed, UndoPcs
<1>8. ASSUME NEW k \in Keys, WaitArray(c, k)
      PROVE  Aside \/ \E a \in Arrays : JoinMove(c, a)
  <2>1. k \in Arrays /\ call[c].pc = "idle" /\ k \in todo[c]
        /\ todo' = [todo EXCEPT ![c] = @ \ {k}] /\ UNCHANGED <<rxq, waiting>>
    BY <1>8 DEF WaitArray, Begin, MayStart
  <2>2. CASE slot[k].valid
    <3>1. slot' = slot /\ call' = [call EXCEPT ![c] = NoCall]
      BY <1>8, <2>2 DEF WaitArray, Begin
    <3>2. call'[c] = NoCall
      BY <1>2, <3>1
    <3>3. \A d \in Clients : call'[d] = call[d] \/ (call[d].pc \notin JoinPcs /\ call'[d].pc \notin JoinPcs)
      BY <1>2, <1>3, <2>1, <3>2 DEF UndoPcs
    <3>4. \A d \in Clients : todo'[d] \subseteq todo[d]
      BY <1>4, <2>1
    <3> QED BY <2>1, <3>1, <3>3, <3>4 DEF Aside
  <2>3. CASE ~slot[k].valid
    <3> DEFINE join == [NoCall EXCEPT !.pc = "joinMask", !.obj = k]
               made == [FreeSlot EXCEPT !.valid = TRUE, !.alloc = JoinClient, !.pending = Len(Children[k])]
    <3>1. join.pc = "joinMask" /\ join.obj = k /\ join.i = 1 /\ ~join.sig
      BY DEF NoCall
    <3>2. made.valid /\ ~made.signal /\ made.mask = {} /\ made.pending = Len(Children[k])
      BY DEF FreeSlot
    <3>3. slot' = [slot EXCEPT ![k] = made] /\ call' = [call EXCEPT ![c] = join]
      BY <1>8, <2>3 DEF WaitArray, Begin
    <3> HIDE DEF join, made
    <3>4. slot'[k] = made /\ call'[c] = join
      BY <1>1, <1>2, <3>3
    <3>5. FencesSame /\ Others(c, k)
      BY <1>1, <1>3, <2>1, <3>3 DEF FencesSame, Others
    <3>6. Made(c, k)
      BY <2>1, <2>3, <3>1, <3>2, <3>4, <3>5 DEF Made
    <3> QED BY <2>1, <3>6 DEF JoinMove
  <2> QED BY <2>2, <2>3
<1>9. ASSUME call[c].pc \in JoinPcs
      PROVE  call[c].obj \in Arrays /\ call[c].obj \in Keys /\ \A f \in Fences : f # call[c].obj
  BY <1>1, <1>2, <1>9 DEF CallShape
<1> DEFINE a == call[c].obj
<1>10. CASE JoinMask(c)
  <2>1. a \in Arrays /\ call[c].pc = "joinMask" /\ UNCHANGED <<rxq, waiting, todo>>
    BY <1>9, <1>10 DEF JoinMask, At
  <2>2. /\ slot'[a].valid = slot[a].valid /\ slot'[a].signal = slot[a].signal
        /\ slot'[a].mask = slot[a].mask \cup {c} /\ slot'[a].pending = slot[a].pending
    BY <1>1, <1>10, <2>1 DEF JoinMask, SlotRec
  <2>3. FencesSame /\ Others(c, a)
    BY <1>1, <1>3, <1>9, <1>10, <2>1 DEF JoinMask, FencesSame, Others
  <2>4. call'[c].pc = "child" /\ CallSame(c)
    BY <1>5, <1>10 DEF JoinMask
  <2> QED BY <2>1, <2>2, <2>3, <2>4 DEF Masked, JoinMove
<1>11. CASE FindChild(c)
  <2>1. a \in Arrays /\ call[c].pc = "child" /\ UNCHANGED <<slot, rxq, waiting, todo>>
    BY <1>9, <1>11 DEF FindChild, At
  <2>2. Goto(c, "link") \/ Goto(c, "undo")
    BY <1>11, Zenon DEF FindChild
  <2>3. call'[c].pc = "link" /\ CallSame(c)
    BY <1>5, <1>7, <2>2
  <2> QED BY <1>3, <2>1, <2>3 DEF Found, JoinMove, FencesSame, Others
<1>12. ASSUME NEW sig, NextChild(c, sig)
       PROVE  NextIndex(c, a) /\ call'[c].sig = sig
  <2> DEFINE i == call[c].i
             last == i = Len(Children[call[c].obj])
             pc == IF last THEN "finish" ELSE "child"
             i1 == IF last THEN i ELSE i + 1
  <2>1. call' = [call EXCEPT ![c] = [call[c] EXCEPT !.pc = pc, !.i = i1, !.sig = sig]]
    BY <1>12 DEF NextChild
  <2> HIDE DEF pc, i1
  <2>2. call'[c].pc = pc /\ call'[c].i = i1 /\ call'[c].sig = sig /\ call'[c].obj = call[c].obj
    BY <1>2, <2>1 DEF CallRec
  <2> QED BY <2>2 DEF pc, i1, NextIndex
<1>13. CASE LinkChild(c)
  <2>1. a \in Arrays /\ call[c].pc = "link" /\ UNCHANGED <<rxq, waiting, todo>>
    BY <1>9, <1>13 DEF LinkChild, At
  <2>2. PICK f \in Fences : f = ThisChild(c)
    BY <2>1 DEF JoinOwned
  <2>3. CASE slot[f].signal /\ CountSignalledChild(c, f)
    <3>1. slot' = [slot EXCEPT ![a].pending = @ - 1] /\ NextChild(c, call[c].sig \/ slot[a].pending = 1)
      BY <2>3 DEF CountSignalledChild
    <3>2. MaskSame(a) /\ slot'[a].pending = slot[a].pending - 1
      BY <1>1, <2>1, <3>1 DEF MaskSame, SlotRec
    <3>3. FencesSame /\ Others(c, a)
      BY <1>1, <1>3, <1>9, <2>1, <3>1 DEF FencesSame, Others
    <3>4. NextIndex(c, a) /\ call'[c].sig = (call[c].sig \/ slot[a].pending = 1)
      BY <1>12, <3>1
    <3>5. CountedOff(c, a)
      BY <2>1, <2>2, <2>3, <3>2, <3>3, <3>4 DEF CountedOff
    <3> QED BY <2>1, <3>5 DEF JoinMove
  <2>4. CASE ~slot[f].signal /\ AddParent(c, f)
    <3> DEFINE new == [slot[f].parents EXCEPT ![slot[f].cnt + 1] = a]
    <3>1. slot' = [slot EXCEPT ![f] = [slot[f] EXCEPT !.cnt = slot[f].cnt + 1, !.parents = new]]
          /\ NextChild(c, call[c].sig)
      BY <1>1, <2>4 DEF AddParent
    <3>7. slot[f] \in SlotRec
      BY <1>1
    <3> HIDE DEF new
    <3>8. LET r == [slot[f] EXCEPT !.cnt = slot[f].cnt + 1, !.parents = new]
          IN  /\ r.signal = slot[f].signal /\ r.valid = slot[f].valid
              /\ r.cnt = slot[f].cnt + 1 /\ r.parents = new
      BY <3>7 DEF SlotRec
    <3>2. /\ \A g \in Fences : g # f => slot'[g] = slot[g]
          /\ slot'[a] = slot[a] /\ Others(c, a)
      BY <1>1, <1>3, <1>9, <2>1, <3>1 DEF Others
    <3>3. /\ slot'[f].signal = slot[f].signal /\ slot'[f].valid = slot[f].valid
          /\ slot'[f].cnt = slot[f].cnt + 1
          /\ slot'[f].parents = new
      BY <1>1, <3>1, <3>8
    <3>4. slot[f].cnt + 1 \in 1..MaxParents
      <4>1. ~TooManyParents(slot[f].cnt + 1)
        <5>1. ~Goto(c, "undo")
          BY <1>5, <1>7
        <5> QED BY <1>13, <2>2, <2>4, <5>1 DEF LinkChild
      <4>2. slot[f].cnt \in Nat /\ MaxParents \in Nat
        BY <1>1, WaitAssumption DEF SlotRec
      <4> QED BY <4>1, <4>2 DEF TooManyParents
    <3>5. NextIndex(c, a) /\ call'[c].sig = call[c].sig
      BY <1>12, <3>1
    <3>6. Added(c, a)
      BY <2>1, <2>2, <2>4, <3>2, <3>3, <3>4, <3>5 DEF Added, new
    <3> QED BY <2>1, <3>6 DEF JoinMove
  <2>5. ~Goto(c, "undo")
    BY <1>5, <1>7
  <2> QED BY <1>13, <2>2, <2>3, <2>4, <2>5 DEF LinkChild
<1>14. CASE FinishArray(c)
  <2>1. a \in Arrays /\ call[c].pc = "finish" /\ UNCHANGED <<rxq, todo>>
    BY <1>9, <1>14 DEF FinishArray, At
  <2>2. MaskSame(a) /\ slot'[a].pending = slot[a].pending
    BY <1>1, <1>14, <2>1 DEF FinishArray, MaskSame, SlotRec
  <2>3. FencesSame /\ Others(c, a)
    BY <1>1, <1>3, <1>9, <1>14, <2>1 DEF FinishArray, FencesSame, Others
  <2>4. \/ call[c].sig /\ Goto(c, "joinSignal") /\ waiting' = waiting
        \/ ~call[c].sig /\ Return(c, TRUE)
    BY <1>14, Zenon DEF FinishArray
  <2>5. \/ call[c].sig /\ call'[c].pc = "joinSignal" /\ CallSame(c) /\ waiting' = waiting
        \/ ~call[c].sig /\ call'[c] = NoCall /\ waiting' = [waiting EXCEPT ![c] = @ \cup {a}]
    BY <1>5, <1>6, <2>4 DEF Return
  <2>6. Finished(c, a)
    BY <2>1, <2>2, <2>3, <2>5 DEF Finished
  <2> QED BY <2>1, <2>6 DEF JoinMove
<1>15. CASE SignalJoin(c)
  <2>1. a \in Arrays /\ call[c].pc = "joinSignal" /\ UNCHANGED <<slot, waiting, todo>>
        /\ rxq' = [rxq EXCEPT ![c] = Write(@, a, 0, DataOf(c))]
    BY <1>9, <1>15 DEF SignalJoin, At
  <2>2. call'[c].pc = "joinDestroy" /\ CallSame(c)
    BY <1>5, <1>15 DEF SignalJoin
  <2> QED BY <1>3, <2>1, <2>2 DEF Signals, JoinMove, FencesSame, Others
<1>16. CASE DestroyJoin(c)
  <2>1. a \in Arrays /\ call[c].pc = "joinDestroy" /\ UNCHANGED <<rxq, todo>>
        /\ slot' = [slot EXCEPT ![a] = FreeSlot] /\ Return(c, TRUE)
    BY <1>9, <1>16 DEF DestroyJoin, At
  <2>2. FencesSame /\ Others(c, a) /\ slot'[a] = FreeSlot
    BY <1>1, <1>3, <1>9, <2>1 DEF FencesSame, Others
  <2>3. call'[c] = NoCall /\ waiting' = [waiting EXCEPT ![c] = @ \cup {a}]
    BY <1>6, <2>1 DEF Return
  <2> QED BY <2>1, <2>2, <2>3 DEF Destroyed, JoinMove
<1>17. ~UndoChild(c) /\ ~UndoJoin(c)
  BY DEF Undisturbed, UndoPcs, UndoChild, UndoJoin, At
<1> QED BY <1>8, <1>10, <1>11, <1>13, <1>14, <1>15, <1>16, <1>17 DEF JoinStep

\* A step without refusals and resets, by what it has to do with join fences.
LEMMA MoveCases ==
  ASSUME WaitType, JoinOwned, Undisturbed, Undisturbed', [Next]_vars
  PROVE  \/ Aside
         \/ \E c \in Clients, a \in Arrays : JoinMove(c, a)
         \/ \E f \in Fences : CtlSignal(f)
<1>1. /\ slot \in [Keys -> SlotRec] /\ Fences \subseteq Keys /\ Arrays \subseteq Keys
      /\ Fences \cap Arrays = {} /\ None \notin Arrays
  BY WaitAssumption DEF WaitType, Keys
<1>2. call \in [Clients -> GoodCall] /\ (\A c \in Clients : call[c] \in CallRec /\ CallShape(call[c]))
      /\ NoCall.pc = "idle"
  BY DEF WaitType, GoodCall, NoCall
<1>3. todo = [d \in Clients |-> todo[d]] /\ waiting \in [Clients -> SUBSET Keys]
      /\ rxq = [d \in Clients |-> rxq[d]]
  BY DEF WaitType
<1>4. CASE UNCHANGED vars
  BY <1>4 DEF vars, Aside
<1>5. ASSUME NEW c \in Clients, Start(c) \/ CallStep(c)
      PROVE  Aside \/ \E a \in Arrays : JoinMove(c, a)
  <2>1. \A d \in Clients : d # c => call'[d] = call[d]
    BY <1>5, OthersCalls
  <2>2. ASSUME NEW pc, Goto(c, pc)
        PROVE  call'[c].pc = pc
    BY <1>2, <2>2 DEF Goto, CallRec
  <2>3. ASSUME NEW ok, Return(c, ok)
        PROVE  call'[c] = NoCall
    BY <1>2, <2>3 DEF Return
  <2>4. CASE JoinStep(c)
    BY <2>4, JoinMoves
  <2>5. CASE \E f \in Keys : WaitFence(c, f)
    <3>1. PICK f \in Keys : WaitFence(c, f)
      BY <2>5
    <3> DEFINE wait == [NoCall EXCEPT !.pc = "register", !.obj = f]
    <3>2. wait.pc = "register"
      BY DEF NoCall
    <3>3. /\ UNCHANGED <<slot, rxq, waiting>> /\ call[c].pc = "idle"
          /\ todo' = [todo EXCEPT ![c] = @ \ {f}]
          /\ call' = [call EXCEPT ![c] = IF slot[f].valid THEN wait ELSE NoCall]
      BY <3>1 DEF WaitFence, Begin, MayStart
    <3> HIDE DEF wait
    <3>4. call'[c] \in {wait, NoCall}
      BY <1>2, <3>3
    <3>5. \A d \in Clients : todo'[d] \subseteq todo[d]
      BY <1>3, <3>3
    <3>6. call[c].pc \notin JoinPcs /\ call'[c].pc \notin JoinPcs
      BY <1>2, <3>2, <3>3, <3>4 DEF JoinPcs, LinkPcs, EndPcs, UndoPcs
    <3> QED BY <2>1, <3>3, <3>5, <3>6 DEF Aside
  <2>6. CASE Register(c)
    <3>1. call[c].obj \in Fences /\ call[c].pc = "register" /\ UNCHANGED <<rxq, todo, waiting>>
      BY <1>2, <2>6 DEF Register, At, CallShape, FencePcs
    <3>2. \A a \in Arrays : slot'[a] = slot[a]
      BY <1>1, <2>6, <3>1 DEF Register
    <3>3. \A f \in Fences : /\ slot'[f].valid = slot[f].valid /\ slot'[f].signal = slot[f].signal
                            /\ slot'[f].cnt = slot[f].cnt /\ slot'[f].parents = slot[f].parents
      BY <1>1, <2>6 DEF Register, SlotRec
    <3>4. call'[c].pc = "checkFlag"
      BY <2>2, <2>6 DEF Register
    <3>5. call[c].pc \notin JoinPcs /\ call'[c].pc \notin JoinPcs
      BY <3>1, <3>4 DEF JoinPcs, LinkPcs, EndPcs, UndoPcs
    <3> QED BY <2>1, <3>1, <3>2, <3>3, <3>5 DEF Aside
  <2>7. CASE CheckFlag(c)
    <3>1. /\ call[c].obj \in Fences /\ call[c].pc = "checkFlag" /\ UNCHANGED <<slot, rxq, todo>>
          /\ (Goto(c, "signal") /\ UNCHANGED waiting) \/ Return(c, TRUE)
      BY <1>2, <2>7 DEF CheckFlag, At, CallShape, FencePcs
    <3>2. call'[c].pc \in {"signal", "idle"}
      BY <1>2, <2>2, <2>3, <3>1
    <3>3. waiting' = waiting \/ waiting' = [waiting EXCEPT ![c] = @ \cup {call[c].obj}]
      BY <3>1 DEF Return
    <3>4. \A d \in Clients, a \in Arrays : a \in waiting'[d] <=> a \in waiting[d]
      BY <1>1, <1>3, <3>1, <3>3
    <3>5. call[c].pc \notin JoinPcs /\ call'[c].pc \notin JoinPcs
      BY <3>1, <3>2 DEF JoinPcs, LinkPcs, EndPcs, UndoPcs
    <3> QED BY <2>1, <3>1, <3>4, <3>5 DEF Aside
  <2>8. CASE SignalSelf(c)
    <3>1. /\ call[c].obj \in Fences /\ call[c].pc = "signal" /\ UNCHANGED <<slot, todo>>
          /\ rxq' = [rxq EXCEPT ![c] = Write(@, call[c].obj, DataOf(c), 0)]
          /\ Return(c, TRUE)
      BY <1>2, <2>8 DEF SignalSelf, At, CallShape, FencePcs
    <3>2. call'[c].pc = "idle" /\ waiting' = [waiting EXCEPT ![c] = @ \cup {call[c].obj}]
      BY <1>2, <2>3, <3>1 DEF Return
    <3>3. \A d \in Clients, a \in Arrays : a \in waiting'[d] <=> a \in waiting[d]
      BY <1>1, <1>3, <3>1, <3>2
    <3>4. call[c].pc \notin JoinPcs /\ call'[c].pc \notin JoinPcs
      BY <3>1, <3>2 DEF JoinPcs, LinkPcs, EndPcs, UndoPcs
    <3>5. ASSUME NEW p, p.key \in Arrays, NEW d \in Clients
          PROVE  p \in rxq'[d] <=> p \in rxq[d]
      <4>1. CASE d # c
        BY <1>3, <3>1, <4>1
      <4>2. CASE d = c
        <5>1. rxq'[d] = Write(rxq[d], call[c].obj, DataOf(c), 0)
          BY <1>3, <3>1, <4>2
        <5>2. p \in Write(rxq[d], call[c].obj, DataOf(c), 0) => p \in rxq[d]
          BY <1>1, <3>1, <3>5, WritePayload
        <5>3. rxq[d] \subseteq Write(rxq[d], call[c].obj, DataOf(c), 0)
          BY WritePayload
        <5> QED BY <5>1, <5>2, <5>3
      <4> QED BY <4>1, <4>2
    <3> QED BY <2>1, <3>1, <3>3, <3>4, <3>5 DEF Aside
  <2>9. CASE \E error \in {0, ResetError}, destroy \in BOOLEAN : StartReset(c, error, destroy)
    <3>1. PICK r : r.pc = "reset" /\ call' = [call EXCEPT ![c] = r]
      <4>1. PICK error \in {0, ResetError}, destroy \in BOOLEAN : StartReset(c, error, destroy)
        BY <2>9
      <4>2. [NoCall EXCEPT !.pc = "reset", !.left = Order, !.error = error, !.destroy = destroy].pc = "reset"
        BY DEF NoCall
      <4> QED BY <4>1, <4>2 DEF StartReset, Begin
    <3>2. call'[c].pc = "reset"
      BY <1>2, <3>1
    <3> QED BY <3>2 DEF Undisturbed, ResetPcs
  <2>10. ~(ClearWaitBit(c) \/ CheckOwn(c) \/ TellWaiter(c) \/ DropFence(c) \/ ResetQueues(c))
    BY DEF Undisturbed, ResetPcs, SlotPcs, ClearWaitBit, CheckOwn, TellWaiter, DropFence, ResetQueues, At
  <2> QED BY <1>5, <2>4, <2>5, <2>6, <2>7, <2>8, <2>9, <2>10, StepCases
<1> QED BY <1>4, <1>5 DEF Next

-----------------------------------------------------------------------------
(* What a call has still to look at *)

LEMMA AheadOwner ==
  ASSUME NEW calls, NEW c \in Clients, NEW a, NEW i, calls[c].obj = a,
         \A d \in Clients : d # c => ~(calls[d].obj = a /\ calls[d].pc \in LinkPcs)
  PROVE  AheadIn(calls, a, i) <=> (calls[c].pc \in LinkPcs /\ i >= calls[c].i)
BY DEF AheadIn

LEMMA AheadSame ==
  ASSUME NEW old, NEW new, NEW a, NEW i,
         \A d \in Clients : \/ new[d] = old[d]
                            \/ /\ new[d].obj = a => new[d].pc \notin LinkPcs
                               /\ old[d].obj = a => old[d].pc \notin LinkPcs
                            \/ /\ old[d].pc \in LinkPcs /\ new[d].pc \in LinkPcs
                               /\ new[d].obj = old[d].obj /\ new[d].i = old[d].i
  PROVE  AheadIn(new, a, i) <=> AheadIn(old, a, i)
BY DEF AheadIn

LEMMA JoinsAlone ==
  ASSUME JoinOwned, NEW c \in Clients, NEW a, call[c].obj = a, call[c].pc \in JoinPcs
  PROVE  \A d \in Clients : d # c => ~(call[d].obj = a /\ call[d].pc \in JoinPcs)
BY DEF JoinOwned

LEMMA LinksAreJoins == LinkPcs \subseteq JoinPcs
BY DEF JoinPcs

LEMMA AheadOthers ==
  ASSUME NEW c \in Clients, NEW a \in Arrays, JoinMove(c, a), NEW b \in Arrays, b # a, NEW i
  PROVE  Ahead(b, i)' <=> Ahead(b, i)
<1>1. \A d \in Clients : d # c => call'[d] = call[d]
  BY DEF JoinMove, Made, Masked, Found, CountedOff, Added, Finished, Signals, Destroyed, Others
<1>2. call[c].obj = b => call[c].pc \notin LinkPcs
  BY DEF JoinMove, Made, Masked, Found, CountedOff, Added, Finished, Signals, Destroyed, LinkPcs
<1>3. call'[c].obj = b => call'[c].pc \notin LinkPcs
  BY DEF JoinMove, Made, Masked, Found, CountedOff, Added, Finished, Signals, Destroyed, LinkPcs,
         NextIndex, CallSame, NoCall
<1>4. AheadIn(call', b, i) <=> AheadIn(call, b, i)
  BY <1>1, <1>2, <1>3, AheadSame
<1> QED BY <1>4 DEF Ahead

LEMMA AheadKept ==
  ASSUME JoinOwned, NEW c \in Clients, NEW a \in Arrays, NEW i,
         Masked(c, a) \/ Found(c, a) \/ Finished(c, a) \/ Signals(c, a) \/ Destroyed(c, a)
  PROVE  /\ Ahead(a, i)' <=> Ahead(a, i)
         /\ Finished(c, a) \/ Signals(c, a) \/ Destroyed(c, a) => ~Ahead(a, i)
<1>1. \A d \in Clients : d # c => call'[d] = call[d]
  BY DEF Masked, Found, Finished, Signals, Destroyed, Others
<1>2. call[c].obj = a /\ call[c].pc \in JoinPcs
  BY DEF Masked, Found, Finished, Signals, Destroyed, JoinPcs, LinkPcs, EndPcs
<1>3. CASE Masked(c, a) \/ Found(c, a)
  <2>1. call[c].pc \in LinkPcs /\ call'[c].pc \in LinkPcs /\ call'[c].obj = call[c].obj /\ call'[c].i = call[c].i
    BY <1>3 DEF Masked, Found, LinkPcs, CallSame
  <2>2. AheadIn(call', a, i) <=> AheadIn(call, a, i)
    BY <1>1, <2>1, AheadSame
  <2>3. ~(Finished(c, a) \/ Signals(c, a) \/ Destroyed(c, a))
    BY <1>3 DEF Masked, Found, Finished, Signals, Destroyed
  <2> QED BY <2>2, <2>3 DEF Ahead
<1>4. CASE Finished(c, a) \/ Signals(c, a) \/ Destroyed(c, a)
  <2>5. NoCall.pc = "idle"
    BY DEF NoCall
  <2>1. call[c].pc \notin LinkPcs /\ call'[c].pc \notin LinkPcs
    BY <1>4, <2>5 DEF Finished, Signals, Destroyed, LinkPcs
  <2>2. AheadIn(call', a, i) <=> AheadIn(call, a, i)
    BY <1>1, <2>1, AheadSame
  <2>3. \A d \in Clients : d # c => ~(call[d].obj = a /\ call[d].pc \in LinkPcs)
    BY <1>2, JoinsAlone, LinksAreJoins
  <2>4. ~AheadIn(call, a, i)
    <3>1. AheadIn(call, a, i) <=> (call[c].pc \in LinkPcs /\ i >= call[c].i)
      BY <1>2, <2>3, AheadOwner
    <3> QED BY <2>1, <3>1
  <2> QED BY <2>2, <2>4 DEF Ahead
<1> QED BY <1>3, <1>4

LEMMA ChildrenDomain ==
  ASSUME NEW a \in Arrays
  PROVE  \E n \in Nat : n = Len(Children[a]) /\ n > 0 /\ DOMAIN Children[a] = 1..n
<1>1. Children[a] \in Seq(Fences \cup {Plain}) /\ Len(Children[a]) \in Nat \ {0}
  BY ChildrenType
<1> QED BY <1>1

LEMMA AheadMade ==
  ASSUME NEW c \in Clients, NEW a \in Arrays, Made(c, a), NEW i \in DOMAIN Children[a]
  PROVE  Ahead(a, i)'
<1>1. i >= 1
  <2>1. PICK n \in Nat : n = Len(Children[a]) /\ DOMAIN Children[a] = 1..n
    BY ChildrenDomain
  <2> QED BY <2>1
<1>2. AheadIn(call', a, i)
  BY <1>1 DEF Made, AheadIn, LinkPcs
<1> QED BY <1>2 DEF Ahead

\* The call has looked at one child more.
LEMMA AheadLooked ==
  ASSUME WaitType, JoinOwned, NEW c \in Clients, NEW a \in Arrays, CountedOff(c, a) \/ Added(c, a)
  PROVE  /\ call[c].i \in DOMAIN Children[a] /\ ThisChild(c) = Children[a][call[c].i]
         /\ Ahead(a, call[c].i)
         /\ \A i \in DOMAIN Children[a] : Ahead(a, i)' <=> (Ahead(a, i) /\ i # call[c].i)
<1>1. /\ \A d \in Clients : d # c => call'[d] = call[d]
      /\ call[c].obj = a /\ call[c].pc = "link" /\ NextIndex(c, a)
  BY DEF CountedOff, Added, Others
<1>2. call[c].pc \in LinkPcs /\ call[c].pc \in JoinPcs
  BY <1>1 DEF LinkPcs, JoinPcs
<1>3. PICK n \in Nat : n = Len(Children[a]) /\ DOMAIN Children[a] = 1..n
  BY ChildrenDomain
<1>4. PICK k \in 1..n : k = call[c].i
  BY <1>1, <1>2, <1>3 DEF WaitType, GoodCall, CallShape
<1>5. \A d \in Clients : d # c => ~(call[d].obj = a /\ call[d].pc \in LinkPcs)
  BY <1>1, <1>2, JoinsAlone, LinksAreJoins
<1>6. \A d \in Clients : d # c => ~(call'[d].obj = a /\ call'[d].pc \in LinkPcs)
  BY <1>1, <1>5
<1>7. \A i : Ahead(a, i) <=> i >= k
  <2>1. \A i : AheadIn(call, a, i) <=> (call[c].pc \in LinkPcs /\ i >= call[c].i)
    BY <1>1, <1>5, AheadOwner
  <2> QED BY <1>2, <1>4, <2>1 DEF Ahead
<1>8. call'[c].obj = a
  BY <1>1 DEF NextIndex
<1>9. \A i : Ahead(a, i)' <=> (call'[c].pc \in LinkPcs /\ i >= call'[c].i)
  <2>1. \A i : AheadIn(call', a, i) <=> (call'[c].pc \in LinkPcs /\ i >= call'[c].i)
    BY <1>6, <1>8, AheadOwner
  <2> QED BY <2>1 DEF Ahead
<1>10. \/ k = n /\ call'[c].pc \notin LinkPcs
       \/ k # n /\ call'[c].pc \in LinkPcs /\ call'[c].i = k + 1
  BY <1>1, <1>3, <1>4 DEF NextIndex, LinkPcs
<1>11. \A i \in 1..n : Ahead(a, i)' <=> (Ahead(a, i) /\ i # k)
  BY <1>7, <1>9, <1>10
<1>12. Ahead(a, k)
  BY <1>7
<1> QED BY <1>1, <1>3, <1>4, <1>11, <1>12 DEF ThisChild

-----------------------------------------------------------------------------
(* The invariant step by step *)

LEMMA FenceFlags ==
  ASSUME Aside \/ \E c \in Clients, a \in Arrays : JoinMove(c, a), NEW f \in Fences
  PROVE  slot'[f].signal = slot[f].signal /\ slot'[f].valid = slot[f].valid
<1>1. CASE Aside
  BY <1>1 DEF Aside
<1>2. ASSUME NEW c \in Clients, NEW a \in Arrays, JoinMove(c, a)
      PROVE  slot'[f].signal = slot[f].signal /\ slot'[f].valid = slot[f].valid
  <2>1. CASE Added(c, a)
    BY <2>1 DEF Added
  <2>2. CASE ~Added(c, a)
    BY <1>2, <2>2 DEF JoinMove, Made, Masked, Found, CountedOff, Finished, Signals, Destroyed, FencesSame
  <2> QED BY <2>1, <2>2
<1> QED BY <1>1, <1>2

LEMMA SignalledKept ==
  ASSUME Aside \/ \E c \in Clients, a \in Arrays : JoinMove(c, a),
         NEW a \in Arrays, NEW i \in DOMAIN Children[a]
  PROVE  Signalled(a, i)' <=> Signalled(a, i)
<1>1. Children[a][i] \in Fences \cup {Plain}
  BY ChildrenType
<1>2. \A f \in Fences : slot'[f].signal = slot[f].signal
  BY FenceFlags
<1> QED BY <1>1, <1>2 DEF Signalled

LEMMA SignalledByCtl ==
  ASSUME WaitType, NEW f \in Fences, CtlSignal(f), NEW a \in Arrays, NEW i \in DOMAIN Children[a]
  PROVE  Signalled(a, i)' <=> Signalled(a, i) \/ Children[a][i] = f
<1>1. Children[a][i] \in Fences \cup {Plain} /\ Plain \notin Fences
  BY ChildrenType, WaitAssumption DEF Keys
<1>2. \A g \in Fences : slot'[g].signal <=> slot[g].signal \/ g = f
  <2>1. ASSUME NEW g \in Fences
        PROVE  slot'[g].signal <=> slot[g].signal \/ g = f
    <3>1. g \in Keys /\ slot \in [Keys -> SlotRec]
      BY DEF Keys, WaitType
    <3>2. g # f => slot'[g] = slot[g]
      BY <3>1, CtlSlots
    <3>3. g = f => slot'[g].signal
      BY <3>1, CtlSlots
    <3> QED BY <3>2, <3>3
  <2> QED BY <2>1
<1> QED BY <1>1, <1>2 DEF Signalled

\* The children that are open are finitely many, and of those that the controller
\* closes each has its entry.
LEMMA OpenFinite ==
  ASSUME NEW a \in Arrays, NEW S, S \subseteq DOMAIN Children[a]
  PROVE  IsFiniteSet(S) /\ Cardinality(S) \in Nat
<1>1. PICK n \in Nat : DOMAIN Children[a] = 1..n
  BY ChildrenDomain
<1>2. IsFiniteSet(1..n)
  BY FS_Interval
<1> QED BY <1>1, <1>2, FS_Subset, FS_CardinalityType

LEMMA OpenSubset == \A a, f : Open(a) \subseteq DOMAIN Children[a] /\ Behind(a, f) \subseteq DOMAIN Children[a]
BY DEF Open, Behind

LEMMA OpenKept ==
  ASSUME NEW a \in Arrays,
         \A i \in DOMAIN Children[a] : /\ Signalled(a, i)' <=> Signalled(a, i)
                                       /\ Ahead(a, i)' <=> Ahead(a, i)
  PROVE  Open(a)' = Open(a)
BY DEF Open

LEMMA HitsAre ==
  ASSUME NEW f \in Fences, NEW a \in Arrays
  PROVE  Hits(f, a) = Cardinality(EntriesOf(f, a))
<1>1. a # None
  BY WaitAssumption DEF Keys
<1>2. {j \in CountedParents(f) : slot[f].parents[j] = a} = EntriesOf(f, a)
  BY <1>1 DEF CountedParents, EntriesOf
<1> QED BY <1>2 DEF Hits

LEMMA AsideKeeps ==
  ASSUME Aside, NEW a \in Arrays
  PROVE  Open(a)' = Open(a) /\ \A f \in Fences : Behind(a, f)' = Behind(a, f)
<1>1. \A i : AheadIn(call', a, i) <=> AheadIn(call, a, i)
  <2>1. \A d \in Clients : call'[d] = call[d] \/ (call[d].pc \notin LinkPcs /\ call'[d].pc \notin LinkPcs)
    BY LinksAreJoins DEF Aside
  <2> QED BY <2>1, AheadSame
<1>2. \A i : Ahead(a, i)' <=> Ahead(a, i)
  BY <1>1 DEF Ahead
<1>3. \A i \in DOMAIN Children[a] : Signalled(a, i)' <=> Signalled(a, i)
  BY SignalledKept
<1>4. slot'[a] = slot[a]
  BY DEF Aside
<1> QED BY <1>2, <1>3, <1>4, OpenKept DEF Behind

\* The controller closes the children that are its fence and that a call has been at.
LEMMA CtlCloses ==
  ASSUME WaitType, NEW f \in Fences, CtlSignal(f), NEW a \in Arrays, slot[a].valid,
         EntriesMatch
  PROVE  /\ Behind(a, f) \subseteq Open(a) /\ Open(a)' = Open(a) \ Behind(a, f)
         /\ Hits(f, a) = Cardinality(Behind(a, f))
         /\ Cardinality(Open(a)') = Cardinality(Open(a)) - Hits(f, a)
         /\ Hits(f, a) \in Nat /\ Cardinality(Open(a)') \in Nat /\ Cardinality(Open(a)) \in Nat
<1>1. ~slot[f].signal /\ call' = call
  BY DEF CtlSignal
<1>2. \A i : Ahead(a, i)' <=> Ahead(a, i)
  BY <1>1 DEF Ahead, AheadIn
<1>3. \A i \in DOMAIN Children[a] : Signalled(a, i)' <=> Signalled(a, i) \/ Children[a][i] = f
  BY SignalledByCtl
<1>4. \A i \in Behind(a, f) : ~Signalled(a, i)
  BY <1>1 DEF Behind, Signalled
<1>5. Behind(a, f) \subseteq Open(a)
  BY <1>4 DEF Behind, Open
<1>6. Open(a)' = Open(a) \ Behind(a, f)
  BY <1>2, <1>3 DEF Behind, Open
<1>7. Hits(f, a) = Cardinality(Behind(a, f))
  BY <1>1, HitsAre DEF EntriesMatch
<1>8. IsFiniteSet(Open(a)) /\ Cardinality(Open(a)) \in Nat /\ Cardinality(Behind(a, f)) \in Nat
  BY OpenFinite, OpenSubset
<1>9. Open(a) \cap Behind(a, f) = Behind(a, f)
  BY <1>5
<1>10. /\ IsFiniteSet(Open(a) \ Behind(a, f))
       /\ Cardinality(Open(a) \ Behind(a, f)) = Cardinality(Open(a)) - Cardinality(Behind(a, f))
  BY <1>8, <1>9, FS_Difference
<1>11. Cardinality(Open(a) \ Behind(a, f)) \in Nat
  BY <1>10, FS_CardinalityType
<1> QED BY <1>5, <1>6, <1>7, <1>8, <1>10, <1>11

\* A call on an array closes the signalled child it counts, and no other.
LEMMA MoveCloses ==
  ASSUME WaitType, JoinOwned, NEW c \in Clients, NEW a \in Arrays, JoinMove(c, a)
  PROVE  /\ \A b \in Arrays : b # a => Open(b)' = Open(b)
         /\ Made(c, a) => Open(a)' = DOMAIN Children[a]
         /\ CountedOff(c, a) => call[c].i \in Open(a) /\ Open(a)' = Open(a) \ {call[c].i}
         /\ ~Made(c, a) /\ ~CountedOff(c, a) => Open(a)' = Open(a)
<1>1. \A b \in Arrays : \A i \in DOMAIN Children[b] : Signalled(b, i)' <=> Signalled(b, i)
  BY SignalledKept
<1>2. \A b \in Arrays : b # a => Open(b)' = Open(b)
  BY <1>1, AheadOthers, OpenKept
<1>3. ASSUME Made(c, a)
      PROVE  Open(a)' = DOMAIN Children[a]
  BY <1>3, AheadMade DEF Open
<1>4. ASSUME CountedOff(c, a)
      PROVE  call[c].i \in Open(a) /\ Open(a)' = Open(a) \ {call[c].i}
  <2>1. /\ call[c].i \in DOMAIN Children[a] /\ ThisChild(c) = Children[a][call[c].i]
        /\ Ahead(a, call[c].i)
        /\ \A i \in DOMAIN Children[a] : Ahead(a, i)' <=> (Ahead(a, i) /\ i # call[c].i)
    BY <1>4, AheadLooked
  <2>2. Signalled(a, call[c].i)
    BY <1>4, <2>1, WaitAssumption DEF CountedOff, Signalled, Keys
  <2> QED BY <1>1, <2>1, <2>2 DEF Open
<1>5. ASSUME Added(c, a)
      PROVE  Open(a)' = Open(a)
  <2>1. /\ call[c].i \in DOMAIN Children[a] /\ ThisChild(c) = Children[a][call[c].i]
        /\ Ahead(a, call[c].i)
        /\ \A i \in DOMAIN Children[a] : Ahead(a, i)' <=> (Ahead(a, i) /\ i # call[c].i)
    BY <1>5, AheadLooked
  <2>2. ~Signalled(a, call[c].i)
    BY <1>5, <2>1 DEF Added, Signalled
  <2> QED BY <1>1, <2>1, <2>2 DEF Open
<1>6. ASSUME Masked(c, a) \/ Found(c, a) \/ Finished(c, a) \/ Signals(c, a) \/ Destroyed(c, a)
      PROVE  Open(a)' = Open(a)
  BY <1>1, <1>6, AheadKept, OpenKept
<1> QED BY <1>2, <1>3, <1>4, <1>5, <1>6 DEF JoinMove

LEMMA OpenCountedStep ==
  ASSUME WaitType, JoinOwned, EntriesMatch, OpenCounted, Undisturbed, Undisturbed', [Next]_vars
  PROVE  OpenCounted'
<1> SUFFICES ASSUME NEW b \in Arrays, slot'[b].valid
             PROVE  slot'[b].pending = Cardinality(Open(b)')
  BY DEF OpenCounted
<1>1. CASE Aside
  BY <1>1, AsideKeeps DEF Aside, OpenCounted
<1>2. ASSUME NEW f \in Fences, CtlSignal(f)
      PROVE  slot'[b].pending = Cardinality(Open(b)')
  <2>1. b \in Keys /\ b \notin Fences /\ slot \in [Keys -> SlotRec]
    BY WaitAssumption DEF Keys, WaitType
  <2>2. slot[b].valid
    BY <1>2, <2>1, CtlSlots
  <2>3. slot[b].pending = Cardinality(Open(b))
    BY <2>2 DEF OpenCounted
  <2>4. Cardinality(Open(b)') = Cardinality(Open(b)) - Hits(f, b)
        /\ Hits(f, b) \in Nat /\ Cardinality(Open(b)) \in Nat
    BY <1>2, <2>2, CtlCloses
  <2>5. slot'[b].pending = IF Hits(f, b) > 0 /\ slot[b].pending = Hits(f, b) THEN 0
                           ELSE slot[b].pending - Hits(f, b)
    BY <1>2, <2>1, <2>2, CtlSlots
  <2> QED BY <2>3, <2>4, <2>5
<1>3. ASSUME NEW c \in Clients, NEW a \in Arrays, JoinMove(c, a)
      PROVE  slot'[b].pending = Cardinality(Open(b)')
  <2>1. CASE b # a
    <3>1. slot'[b] = slot[b]
      BY <1>3, <2>1 DEF JoinMove, Made, Masked, Found, CountedOff, Added, Finished, Signals, Destroyed, Others
    <3> QED BY <1>3, <2>1, <3>1, MoveCloses DEF OpenCounted
  <2>2. CASE b = a /\ Made(c, a)
    <3>1. Open(a)' = DOMAIN Children[a] /\ slot'[a].pending = Len(Children[a])
      BY <1>3, <2>2, MoveCloses DEF Made
    <3>2. PICK n \in Nat : n = Len(Children[a]) /\ DOMAIN Children[a] = 1..n
      BY ChildrenDomain
    <3>3. Cardinality(1..n) = n
      <4>1. Cardinality(1..n) = IF 1 > n THEN 0 ELSE n - 1 + 1
        BY FS_Interval
      <4> QED BY <4>1
    <3> QED BY <2>2, <3>1, <3>2, <3>3
  <2>3. CASE b = a /\ CountedOff(c, a)
    <3>1. call[c].i \in Open(a) /\ Open(a)' = Open(a) \ {call[c].i}
      BY <1>3, <2>3, MoveCloses
    <3>2. slot[a].valid /\ slot'[a].pending = slot[a].pending - 1
      BY <2>3 DEF CountedOff, MaskSame
    <3>3. IsFiniteSet(Open(a))
      BY OpenFinite, OpenSubset
    <3>4. Cardinality(Open(a) \ {call[c].i}) = Cardinality(Open(a)) - 1
      <4>1. PICK S : S = Open(a)
        OBVIOUS
      <4>2. PICK i : i = call[c].i
        OBVIOUS
      <4>3. IsFiniteSet(S) /\ i \in S
        BY <3>1, <3>3, <4>1, <4>2
      <4>4. Cardinality(S \ {i}) = Cardinality(S) - 1
        BY <4>3, FS_RemoveElement
      <4> QED BY <4>1, <4>2, <4>4
    <3> QED BY <2>3, <3>1, <3>2, <3>4 DEF OpenCounted
  <2>4. CASE b = a /\ (Masked(c, a) \/ Found(c, a) \/ Added(c, a) \/ Finished(c, a) \/ Signals(c, a))
    <3>1. slot[a].valid /\ slot'[a].pending = slot[a].pending /\ ~Made(c, a) /\ ~CountedOff(c, a)
      <4>1. slot[a].valid /\ slot'[a].pending = slot[a].pending
        BY <2>4 DEF Masked, Found, Added, Finished, Signals, MaskSame
      <4>2. ~Made(c, a)
        BY <4>1 DEF Made
      <4>3. CountedOff(c, a) => Added(c, a)
        BY <2>4 DEF CountedOff, Masked, Found, Finished, Signals
      <4>4. ~(CountedOff(c, a) /\ Added(c, a))
        BY DEF CountedOff, Added
      <4> QED BY <4>1, <4>2, <4>3, <4>4
    <3>2. Open(a)' = Open(a)
      BY <1>3, <3>1, MoveCloses
    <3> QED BY <2>4, <3>1, <3>2 DEF OpenCounted
  <2>5. CASE b = a /\ Destroyed(c, a)
    BY <2>5 DEF Destroyed, FreeSlot
  <2> QED BY <1>3, <2>1, <2>2, <2>3, <2>4, <2>5 DEF JoinMove
<1> QED BY <1>1, <1>2, <1>3, MoveCases

\* The fence to which a call adds the array has one entry more, and no entry of
\* another array more.
LEMMA EntryAdded ==
  ASSUME WaitType, NEW c \in Clients, NEW a \in Arrays, Added(c, a), NEW f \in Fences, f = ThisChild(c)
  PROVE  /\ \A b \in Arrays : b # a => EntriesOf(f, b)' = EntriesOf(f, b)
         /\ Cardinality(EntriesOf(f, a)') = Cardinality(EntriesOf(f, a)) + 1
<1>1. PICK n \in Nat : n = slot[f].cnt /\ n + 1 \in 1..MaxParents /\ slot'[f].cnt = n + 1
  <2>1. slot[f] \in SlotRec
    BY DEF WaitType, Keys
  <2>2. slot[f].cnt \in Nat
    BY <2>1, WaitAssumption DEF SlotRec
  <2> QED BY <2>2 DEF Added
<1>2. slot[f].parents \in [1..MaxParents -> Arrays \cup {None}]
  BY DEF WaitType, Keys, SlotRec
<1>3. slot'[f].parents = [slot[f].parents EXCEPT ![n + 1] = a]
  BY <1>1 DEF Added
<1>4. MaxParents \in Nat
  BY WaitAssumption
<1>5. \A j \in 1..n : slot'[f].parents[j] = slot[f].parents[j]
  BY <1>1, <1>2, <1>3, <1>4
<1>6. slot'[f].parents[n + 1] = a
  BY <1>1, <1>2, <1>3
<1>7. 1..(n + 1) = (1..n) \cup {n + 1} /\ n + 1 \notin 1..n
  OBVIOUS
<1>8. ASSUME NEW b
      PROVE  /\ EntriesOf(f, b) = {j \in 1..n : slot[f].parents[j] = b}
             /\ EntriesOf(f, b)' = {j \in 1..(n + 1) : slot'[f].parents[j] = b}
  BY <1>1 DEF EntriesOf
<1>9. ASSUME NEW b \in Arrays, b # a
      PROVE  EntriesOf(f, b)' = EntriesOf(f, b)
  <2>1. \A j \in 1..(n + 1) : slot'[f].parents[j] = b <=> j \in 1..n /\ slot[f].parents[j] = b
    BY <1>5, <1>6, <1>7, <1>9
  <2>2. EntriesOf(f, b)' = {j \in 1..(n + 1) : slot'[f].parents[j] = b}
    BY <1>8, <1>9
  <2>3. EntriesOf(f, b) = {j \in 1..n : slot[f].parents[j] = b}
    BY <1>8, <1>9
  <2>4. \A j : j \in EntriesOf(f, b)' <=> j \in EntriesOf(f, b)
    BY <1>7, <2>1, <2>2, <2>3
  <2> QED BY <2>4
<1>10. EntriesOf(f, a)' = EntriesOf(f, a) \cup {n + 1} /\ n + 1 \notin EntriesOf(f, a)
  BY <1>5, <1>6, <1>7, <1>8
<1>11. IsFiniteSet(EntriesOf(f, a))
  <2>1. IsFiniteSet(1..n) /\ EntriesOf(f, a) \subseteq 1..n
    BY <1>8, FS_Interval
  <2> QED BY <2>1, FS_Subset
<1> QED BY <1>9, <1>10, <1>11, FS_AddElement

\* The children a call has been at, of those not signalled.
LEMMA MoveBehind ==
  ASSUME WaitType, JoinOwned, ToldAtZero, WaitersHear,
         NEW c \in Clients, NEW a \in Arrays, JoinMove(c, a), NEW f \in Fences, ~slot[f].signal
  PROVE  /\ \A b \in Arrays : b # a => Behind(b, f)' = Behind(b, f)
         /\ ~(Added(c, a) /\ f = ThisChild(c)) => Behind(a, f)' = Behind(a, f)
         /\ Added(c, a) /\ f = ThisChild(c) =>
                Cardinality(Behind(a, f)') = Cardinality(Behind(a, f)) + 1
<1>1. ASSUME NEW b \in Arrays, b # a
      PROVE  Behind(b, f)' = Behind(b, f)
  <2>1. slot'[b] = slot[b]
    BY <1>1 DEF JoinMove, Made, Masked, Found, CountedOff, Added, Finished, Signals, Destroyed, Others
  <2>2. \A i : Ahead(b, i)' <=> Ahead(b, i)
    BY <1>1, AheadOthers
  <2> QED BY <2>1, <2>2 DEF Behind
<1>2. ASSUME Made(c, a)
      PROVE  Behind(a, f)' = Behind(a, f)
  <2>1. \A i \in DOMAIN Children[a] : Ahead(a, i)'
    BY <1>2, AheadMade
  <2>2. ~slot[a].valid
    BY <1>2 DEF Made
  <2> QED BY <2>1, <2>2 DEF Behind
<1>3. ASSUME Masked(c, a) \/ Found(c, a) \/ Finished(c, a) \/ Signals(c, a)
      PROVE  Behind(a, f)' = Behind(a, f)
  <2>1. slot'[a].valid = slot[a].valid
    BY <1>3 DEF Masked, Found, Finished, Signals, MaskSame
  <2>2. \A i : Ahead(a, i)' <=> Ahead(a, i)
    BY <1>3, AheadKept
  <2> QED BY <2>1, <2>2 DEF Behind
<1>4. ASSUME Destroyed(c, a)
      PROVE  Behind(a, f)' = Behind(a, f)
  <2>1. ~slot'[a].valid
    BY <1>4 DEF Destroyed, FreeSlot
  <2>2. Joins(c, a) /\ call[c].pc = "joinDestroy"
    BY <1>4 DEF Destroyed, Joins, JoinPcs, EndPcs
  <2>3. Told(c, a)
    BY <2>2 DEF WaitersHear
  <2>4. \A i \in DOMAIN Children[a] : Signalled(a, i)
    BY <2>3 DEF ToldAtZero
  <2>5. \A i \in DOMAIN Children[a] : Children[a][i] # f
    BY <2>4 DEF Signalled
  <2> QED BY <2>1, <2>5 DEF Behind
<1>5. ASSUME CountedOff(c, a) \/ Added(c, a)
      PROVE  /\ slot'[a].valid = slot[a].valid /\ slot[a].valid
             /\ call[c].i \in DOMAIN Children[a] /\ ThisChild(c) = Children[a][call[c].i]
             /\ Ahead(a, call[c].i)
             /\ \A i \in DOMAIN Children[a] : Ahead(a, i)' <=> (Ahead(a, i) /\ i # call[c].i)
  <2>1. slot'[a].valid = slot[a].valid /\ call[c].pc = "link" /\ call[c].obj = a
    BY <1>5 DEF CountedOff, Added, MaskSame
  <2>2. slot[a].valid
    BY <2>1 DEF JoinOwned, JoinPcs, LinkPcs
  <2> QED BY <1>5, <2>1, <2>2, AheadLooked
<1>6. ASSUME CountedOff(c, a) \/ Added(c, a), ThisChild(c) # f
      PROVE  Behind(a, f)' = Behind(a, f)
  BY <1>5, <1>6 DEF Behind
<1>7. CountedOff(c, a) => ThisChild(c) # f
  BY DEF CountedOff
<1>8. ASSUME Added(c, a), f = ThisChild(c)
      PROVE  Cardinality(Behind(a, f)') = Cardinality(Behind(a, f)) + 1
  <2>1. Behind(a, f)' = Behind(a, f) \cup {call[c].i} /\ call[c].i \notin Behind(a, f)
    BY <1>5, <1>8 DEF Behind
  <2>2. IsFiniteSet(Behind(a, f))
    BY OpenFinite, OpenSubset
  <2> QED BY <2>1, <2>2, FS_AddElement
<1> QED BY <1>1, <1>2, <1>3, <1>4, <1>6, <1>7, <1>8 DEF JoinMove

LEMMA EntriesMatchStep ==
  ASSUME WaitType, JoinOwned, ToldAtZero, WaitersHear, EntriesMatch,
         Undisturbed, Undisturbed', [Next]_vars
  PROVE  EntriesMatch'
<1> SUFFICES ASSUME NEW f \in Fences, NEW b \in Arrays, ~slot'[f].signal
             PROVE  Cardinality(EntriesOf(f, b)') = Cardinality(Behind(b, f)')
  BY DEF EntriesMatch
<1>1. CASE Aside
  <2>1. ~slot[f].signal /\ EntriesOf(f, b)' = EntriesOf(f, b)
    BY <1>1 DEF Aside, EntriesOf
  <2> QED BY <1>1, <2>1, AsideKeeps DEF EntriesMatch
<1>2. ASSUME NEW g \in Fences, CtlSignal(g)
      PROVE  Cardinality(EntriesOf(f, b)') = Cardinality(Behind(b, f)')
  <2>1. slot \in [Keys -> SlotRec] /\ f \in Keys /\ b \in Keys /\ g \in Keys
    BY DEF WaitType, Keys
  <2>2. slot'[f] = slot[f] /\ slot'[b].valid = slot[b].valid
    BY <1>2, <2>1, CtlSlots
  <2>3. \A i : Ahead(b, i)' <=> Ahead(b, i)
    BY <1>2 DEF CtlSignal, Ahead, AheadIn
  <2>4. EntriesOf(f, b)' = EntriesOf(f, b) /\ Behind(b, f)' = Behind(b, f)
    BY <2>2, <2>3 DEF EntriesOf, Behind
  <2> QED BY <2>2, <2>4 DEF EntriesMatch
<1>3. ASSUME NEW c \in Clients, NEW a \in Arrays, JoinMove(c, a)
      PROVE  Cardinality(EntriesOf(f, b)') = Cardinality(Behind(b, f)')
  <2>1. ~slot[f].signal
    BY <1>3, FenceFlags
  <2>2. Cardinality(EntriesOf(f, b)) = Cardinality(Behind(b, f))
    BY <2>1 DEF EntriesMatch
  <2>3. CASE Added(c, a) /\ f = ThisChild(c)
    <3>1. CASE b = a
      BY <1>3, <2>1, <2>2, <2>3, <3>1, EntryAdded, MoveBehind
    <3>2. CASE b # a
      BY <1>3, <2>1, <2>2, <2>3, <3>2, EntryAdded, MoveBehind
    <3> QED BY <3>1, <3>2
  <2>4. CASE ~(Added(c, a) /\ f = ThisChild(c))
    <3>1. slot'[f] = slot[f]
      BY <1>3, <2>4 DEF JoinMove, Made, Masked, Found, CountedOff, Added, Finished, Signals, Destroyed,
                        FencesSame
    <3>2. EntriesOf(f, b)' = EntriesOf(f, b)
      BY <3>1 DEF EntriesOf
    <3>3. Behind(b, f)' = Behind(b, f)
      BY <1>3, <2>1, <2>4, MoveBehind
    <3> QED BY <2>2, <3>2, <3>3
  <2> QED BY <2>3, <2>4
<1> QED BY <1>1, <1>2, <1>3, MoveCases

LEMMA FencesStayStep ==
  ASSUME WaitType, JoinOwned, FencesStay, Undisturbed, Undisturbed', [Next]_vars
  PROVE  FencesStay'
<1> SUFFICES ASSUME NEW f \in Fences PROVE slot'[f].valid
  BY DEF FencesStay
<1>1. slot[f].valid /\ f \in Keys /\ slot \in [Keys -> SlotRec]
  BY DEF FencesStay, Keys, WaitType
<1>2. ASSUME NEW g \in Fences, CtlSignal(g)
      PROVE  slot'[f].valid
  BY <1>1, <1>2, CtlSlots
<1>3. ASSUME Aside \/ \E c \in Clients, a \in Arrays : JoinMove(c, a)
      PROVE  slot'[f].valid
  BY <1>1, <1>3, FenceFlags
<1> QED BY <1>2, <1>3, MoveCases

\* An array that has been counted down stays so.
LEMMA ZeroStays ==
  ASSUME WaitType, EntriesMatch, OpenCounted, NEW f \in Fences, CtlSignal(f), NEW a \in Arrays,
         slot[a].valid, slot[a].pending = 0
  PROVE  slot'[a].pending = 0 /\ slot'[a].signal = slot[a].signal
<1>1. a \in Keys /\ slot \in [Keys -> SlotRec]
  BY DEF Keys, WaitType
<1>2. /\ Cardinality(Open(a)') = Cardinality(Open(a)) - Hits(f, a)
      /\ Hits(f, a) \in Nat /\ Cardinality(Open(a)') \in Nat
      /\ Cardinality(Open(a)) = 0
  BY CtlCloses DEF OpenCounted
<1>3. Hits(f, a) = 0
  BY <1>2
<1>4. /\ slot'[a].signal = slot[a].signal
      /\ slot'[a].pending = slot[a].pending - Hits(f, a)
  <2>1. ~(slot[a].valid /\ Hits(f, a) > 0 /\ slot[a].pending = Hits(f, a))
    BY <1>3
  <2> QED BY <1>1, <2>1, CtlSlots
<1> QED BY <1>3, <1>4

LEMMA CountedOffOpen ==
  ASSUME WaitType, JoinOwned, OpenCounted, NEW c \in Clients, NEW a \in Arrays, CountedOff(c, a)
  PROVE  slot[a].valid /\ slot[a].pending \in Nat /\ slot[a].pending > 0
<1>1. slot[a].valid
  BY DEF CountedOff, JoinOwned, JoinPcs, LinkPcs
<1>2. call[c].i \in Open(a)
  BY MoveCloses DEF JoinMove
<1>3. IsFiniteSet(Open(a)) /\ Cardinality(Open(a)) \in Nat
  BY OpenFinite, OpenSubset
<1>4. Cardinality(Open(a)) # 0
  BY <1>2, <1>3, FS_EmptySet
<1> QED BY <1>1, <1>3, <1>4 DEF OpenCounted

LEMMA FlagAtZeroStep ==
  ASSUME WaitType, JoinOwned, SignalAtZero, EntriesMatch, OpenCounted, FlagAtZero,
         Undisturbed, Undisturbed', [Next]_vars
  PROVE  FlagAtZero'
<1>1. CASE Aside
  BY <1>1 DEF Aside, FlagAtZero, WaitType, GoodCall, CallShape
<1>2. ASSUME NEW f \in Fences, CtlSignal(f)
      PROVE  FlagAtZero'
  <2>1. slot \in [Keys -> SlotRec] /\ Arrays \subseteq Keys /\ call' = call
    BY <1>2 DEF WaitType, Keys, CtlSignal
  <2>2. ASSUME NEW a \in Arrays, slot'[a].signal
        PROVE  slot'[a].valid /\ slot'[a].pending = 0
    <3>1. slot'[a].valid = slot[a].valid
      BY <1>2, <2>1, CtlSlots
    <3>2. CASE slot[a].signal
      BY <1>2, <3>1, <3>2, ZeroStays DEF FlagAtZero
    <3>3. CASE ~slot[a].signal
      <4>1. slot[a].valid /\ Hits(f, a) > 0 /\ slot[a].pending = Hits(f, a)
        BY <1>2, <2>1, <2>2, <3>3, CtlSlots
      <4> QED BY <1>2, <2>1, <3>1, <4>1, CtlSlots
    <3> QED BY <3>2, <3>3
  <2>3. ASSUME NEW c \in Clients, call[c].pc \in JoinPcs, call[c].sig
        PROVE  ~slot'[call[c].obj].signal
    <3>1. call[c].obj \in Arrays
      BY <2>3 DEF WaitType, GoodCall, CallShape
    <3>2. slot[call[c].obj].valid /\ slot[call[c].obj].pending = 0 /\ ~slot[call[c].obj].signal
      BY <2>3 DEF JoinOwned, SignalAtZero, FlagAtZero
    <3> QED BY <1>2, <3>1, <3>2, ZeroStays
  <2> QED BY <2>1, <2>2, <2>3 DEF FlagAtZero
<1>3. ASSUME NEW c \in Clients, NEW a \in Arrays, JoinMove(c, a)
      PROVE  FlagAtZero'
  <2>1. \A b \in Arrays : b # a => slot'[b] = slot[b]
    BY <1>3 DEF JoinMove, Made, Masked, Found, CountedOff, Added, Finished, Signals, Destroyed, Others
  <2>2. \A d \in Clients : d # c => call'[d] = call[d]
    BY <1>3 DEF JoinMove, Made, Masked, Found, CountedOff, Added, Finished, Signals, Destroyed, Others
  <2>3. \A d \in Clients : d # c => ~(call[d].obj = a /\ call[d].pc \in JoinPcs)
    <3>1. CASE Made(c, a)
      BY <3>1 DEF Made, JoinOwned
    <3>2. CASE ~Made(c, a)
      <4>1. call[c].obj = a /\ call[c].pc \in JoinPcs
        BY <1>3, <3>2 DEF JoinMove, Masked, Found, CountedOff, Added, Finished, Signals, Destroyed,
                          JoinPcs, LinkPcs, EndPcs
      <4> QED BY <4>1, JoinsAlone
    <3> QED BY <3>1, <3>2
  <2>4. call'[c].pc \in JoinPcs => call'[c].obj = a
    BY <1>3 DEF JoinMove, Made, Masked, Found, CountedOff, Added, Finished, Signals, Destroyed,
                NextIndex, CallSame, NoCall, JoinPcs, LinkPcs, EndPcs, UndoPcs
  <2>5. CASE Made(c, a) \/ Destroyed(c, a)
    <3>1. ~slot'[a].signal
      BY <2>5 DEF Made, Destroyed, FreeSlot
    <3>2. \A d \in Clients : call[d].pc \in JoinPcs => call[d].obj \in Arrays
      BY DEF WaitType, GoodCall, CallShape
    <3> QED BY <2>1, <2>2, <2>3, <2>4, <3>1, <3>2 DEF FlagAtZero
  <2>6. CASE CountedOff(c, a)
    <3>1. slot[a].valid /\ slot[a].pending > 0
      BY <2>6, CountedOffOpen
    <3>2. ~slot[a].signal
      BY <3>1 DEF FlagAtZero
    <3>3. ~slot'[a].signal
      BY <2>6, <3>2 DEF CountedOff, MaskSame
    <3>4. \A d \in Clients : call[d].pc \in JoinPcs => call[d].obj \in Arrays
      BY DEF WaitType, GoodCall, CallShape
    <3> QED BY <2>1, <2>2, <2>3, <2>4, <3>3, <3>4 DEF FlagAtZero
  <2>7. CASE Masked(c, a) \/ Found(c, a) \/ Added(c, a) \/ Finished(c, a) \/ Signals(c, a)
    <3>1. slot'[a].valid = slot[a].valid /\ slot'[a].signal = slot[a].signal /\ slot'[a].pending = slot[a].pending
      BY <2>7 DEF Masked, Found, Added, Finished, Signals, MaskSame
    <3>2. call'[c].pc \in JoinPcs => call'[c].sig = call[c].sig
      BY <2>7 DEF Masked, Found, Added, Finished, Signals, CallSame, NoCall, JoinPcs, LinkPcs, EndPcs, UndoPcs
    <3>3. call[c].pc \in JoinPcs /\ call[c].obj = a
      BY <2>7 DEF Masked, Found, Added, Finished, Signals, JoinPcs, LinkPcs, EndPcs
    <3>4. \A d \in Clients : call[d].pc \in JoinPcs => call[d].obj \in Arrays
      BY DEF WaitType, GoodCall, CallShape
    <3> QED BY <2>1, <2>2, <2>3, <2>4, <3>1, <3>2, <3>3, <3>4 DEF FlagAtZero
  <2> QED BY <1>3, <2>5, <2>6, <2>7 DEF JoinMove
<1> QED BY <1>1, <1>2, <1>3, MoveCases

-----------------------------------------------------------------------------
(* Who hears of an array *)

\* The controller signals the array a with the fence f.
Fires(f, a) == slot[a].valid /\ Hits(f, a) > 0 /\ slot[a].pending = Hits(f, a)

\* The queue of d gets one payload of b, if new, and no other of b.
Gets(d, b, new) ==
    \E x : /\ x.key = b
           /\ \A p : p.key = b => (p \in rxq'[d] <=> (p \in rxq[d] \/ (new /\ p = x)))

LEMMA GetsTold ==
  ASSUME NEW d, NEW b, NEW new \in BOOLEAN, Gets(d, b, new)
  PROVE  /\ Told(d, b)' <=> (Told(d, b) \/ new)
         /\ /\ new => ~Told(d, b)
            /\ \A p, q \in rxq[d] : p.key = b /\ q.key = b => p = q
            => \A p, q \in rxq'[d] : p.key = b /\ q.key = b => p = q
<1>1. PICK x : /\ x.key = b
               /\ \A p : p.key = b => (p \in rxq'[d] <=> (p \in rxq[d] \/ (new /\ p = x)))
  BY DEF Gets
<1>2. Told(d, b)' <=> (Told(d, b) \/ new)
  BY <1>1 DEF Told
<1>3. ASSUME new => ~Told(d, b),
             \A p, q \in rxq[d] : p.key = b /\ q.key = b => p = q,
             NEW p \in rxq'[d], NEW q \in rxq'[d], p.key = b, q.key = b
      PROVE  p = q
  <2>1. CASE new
    <3>1. p = x /\ q = x
      BY <1>1, <1>3, <2>1 DEF Told
    <3> QED BY <3>1
  <2>2. CASE ~new
    BY <1>1, <1>3, <2>2
  <2> QED BY <2>1, <2>2
<1> QED BY <1>2, <1>3

LEMMA WriteAdds ==
  ASSUME NEW q, NEW k, k # None, NEW data, NEW error
  PROVE  \E x : /\ x.key = k \/ x.key = None
                /\ slot[k].valid => x.key = k
                /\ Write(q, k, data, error) = q \cup {x}
<1> DEFINE key == IF slot[k].valid THEN k ELSE None
           new == [key |-> key, data |-> data, error |-> error,
                   n |-> Cardinality({p \in q : p.key = key})]
<1>1. Write(q, k, data, error) = q \cup {new}
  BY DEF Write
<1>2. new.key = key
  OBVIOUS
<1>3. key \in {k, None} /\ (slot[k].valid => key = k)
  OBVIOUS
<1> HIDE DEF key, new
<1> QED BY <1>1, <1>2, <1>3

LEMMA CtlGets ==
  ASSUME NEW f \in Fences, CtlSignal(f), NEW d \in Clients, NEW b \in Arrays
  PROVE  \E new \in BOOLEAN : /\ Gets(d, b, new)
                              /\ new <=> (Fires(f, b) /\ d \in slot[b].mask)
<1> DEFINE done == {a \in Arrays : slot[a].valid /\ Hits(f, a) > 0 /\ slot[a].pending = Hits(f, a)}
           fired == {f} \cup done
           mine == {k \in fired : d \in slot[k].mask}
           Payloads(k) == Write(rxq[d], k, slot[k].data[d], 0)
<1>1. slot[f].valid /\ rxq'[d] = rxq[d] \cup UNION {Payloads(k) : k \in mine}
  BY DEF CtlSignal
<1>2. /\ b \in fired <=> Fires(f, b)
      /\ \A k \in fired : slot[k].valid /\ k # None
  BY <1>1, WaitAssumption DEF Fires, Keys
<1> HIDE DEF done, fired
<1>3. \A k \in mine : \E x : x.key = k /\ Payloads(k) = rxq[d] \cup {x}
  <2>1. ASSUME NEW k \in mine
        PROVE  \E x : x.key = k /\ Payloads(k) = rxq[d] \cup {x}
    <3>1. slot[k].valid /\ k # None
      BY <1>2
    <3>2. PICK x : /\ slot[k].valid => x.key = k
                   /\ Write(rxq[d], k, slot[k].data[d], 0) = rxq[d] \cup {x}
      BY <3>1, WriteAdds
    <3> QED BY <3>1, <3>2
  <2> QED BY <2>1
<1> HIDE DEF Payloads
<1>4. PICK new \in BOOLEAN : new <=> (Fires(f, b) /\ d \in slot[b].mask)
  OBVIOUS
<1>5. b \in mine <=> new
  BY <1>2, <1>4
<1>6. \A p : p \in rxq'[d] <=> (p \in rxq[d] \/ \E k \in mine : p \in Payloads(k))
  BY <1>1
<1> HIDE DEF mine
<1>7. CASE new
  <2>1. PICK x : x.key = b /\ Payloads(b) = rxq[d] \cup {x}
    BY <1>3, <1>5, <1>7
  <2>2. ASSUME NEW p, p.key = b
        PROVE  p \in rxq'[d] <=> (p \in rxq[d] \/ p = x)
    <3>1. ASSUME NEW k \in mine, p \in Payloads(k)
          PROVE  p \in rxq[d] \/ p = x
      <4>1. PICK y : y.key = k /\ Payloads(k) = rxq[d] \cup {y}
        BY <1>3, <3>1
      <4> QED BY <2>1, <2>2, <3>1, <4>1
    <3>2. p = x => \E k \in mine : p \in Payloads(k)
      BY <1>5, <1>7, <2>1
    <3> QED BY <1>6, <3>1, <3>2
  <2>3. Gets(d, b, new)
    BY <1>7, <2>1, <2>2 DEF Gets
  <2> QED BY <1>4, <2>3
<1>8. CASE ~new
  <2>1. PICK x : x.key = b
    <3>1. [key |-> b].key = b
      OBVIOUS
    <3> QED BY <3>1
  <2>2. ASSUME NEW p, p.key = b
        PROVE  p \in rxq'[d] <=> p \in rxq[d]
    <3>1. ASSUME NEW k \in mine, p \in Payloads(k)
          PROVE  p \in rxq[d]
      <4>1. PICK y : y.key = k /\ Payloads(k) = rxq[d] \cup {y}
        BY <1>3, <3>1
      <4> QED BY <1>5, <1>8, <2>2, <3>1, <4>1
    <3> QED BY <1>6, <3>1
  <2>3. Gets(d, b, new)
    BY <1>8, <2>1, <2>2 DEF Gets
  <2> QED BY <1>4, <2>3
<1> QED BY <1>7, <1>8

LEMMA SameGets ==
  ASSUME NEW d, NEW b, \A p : p.key = b => (p \in rxq'[d] <=> p \in rxq[d])
  PROVE  Gets(d, b, FALSE)
<1>1. PICK x : x.key = b
  <2>1. [key |-> b].key = b
    OBVIOUS
  <2> QED BY <2>1
<1> QED BY <1>1 DEF Gets

LEMMA MoveGets ==
  ASSUME WaitType, JoinOwned, NEW c \in Clients, NEW a \in Arrays, JoinMove(c, a),
         NEW d \in Clients, NEW b \in Arrays
  PROVE  \E new \in BOOLEAN : /\ Gets(d, b, new)
                              /\ new <=> (Signals(c, a) /\ d = c /\ b = a)
<1>1. CASE Signals(c, a)
  <2>1. slot[a].valid /\ a # None /\ rxq' = [rxq EXCEPT ![c] = Write(rxq[c], a, 0, DataOf(c))]
    BY <1>1, WaitAssumption DEF Signals, JoinOwned, JoinPcs, EndPcs, Keys
  <2>2. PICK x : x.key = a /\ Write(rxq[c], a, 0, DataOf(c)) = rxq[c] \cup {x}
    BY <2>1, WriteAdds
  <2>3. rxq = [e \in Clients |-> rxq[e]]
    BY DEF WaitType
  <2>4. rxq'[d] = IF d = c THEN rxq[d] \cup {x} ELSE rxq[d]
    BY <2>1, <2>2, <2>3
  <2>5. PICK new \in BOOLEAN : new <=> (d = c /\ b = a)
    OBVIOUS
  <2>6. CASE new
    BY <1>1, <2>2, <2>4, <2>5, <2>6 DEF Gets
  <2>7. CASE ~new
    <3>1. \A p : p.key = b => (p \in rxq'[d] <=> p \in rxq[d])
      BY <2>2, <2>4, <2>5, <2>7
    <3>2. PICK no \in BOOLEAN : no = FALSE
      OBVIOUS
    <3>3. Gets(d, b, no)
      BY <3>1, <3>2, SameGets
    <3> QED BY <2>5, <2>7, <3>2, <3>3
  <2> QED BY <2>6, <2>7
<1>2. CASE ~Signals(c, a)
  <2>1. rxq' = rxq
    BY <1>2 DEF JoinMove, Made, Masked, Found, CountedOff, Added, Finished, Destroyed
  <2>2. PICK no \in BOOLEAN : no = FALSE
    OBVIOUS
  <2>3. Gets(d, b, no)
    BY <2>1, <2>2, SameGets
  <2> QED BY <1>2, <2>2, <2>3
<1> QED BY <1>1, <1>2

LEMMA AsideTold ==
  ASSUME Aside, NEW d \in Clients, NEW b \in Arrays
  PROVE  Told(d, b)' <=> Told(d, b)
BY DEF Aside, Told

LEMMA CtlTold ==
  ASSUME NEW f \in Fences, CtlSignal(f), NEW d \in Clients, NEW b \in Arrays
  PROVE  Told(d, b)' <=> (Told(d, b) \/ (Fires(f, b) /\ d \in slot[b].mask))
<1>1. PICK new \in BOOLEAN : Gets(d, b, new) /\ (new <=> (Fires(f, b) /\ d \in slot[b].mask))
  BY CtlGets
<1> QED BY <1>1, GetsTold

LEMMA MoveTold ==
  ASSUME WaitType, JoinOwned, NEW c \in Clients, NEW a \in Arrays, JoinMove(c, a),
         NEW d \in Clients, NEW b \in Arrays
  PROVE  Told(d, b)' <=> (Told(d, b) \/ (Signals(c, a) /\ d = c /\ b = a))
<1>1. PICK new \in BOOLEAN : Gets(d, b, new) /\ (new <=> (Signals(c, a) /\ d = c /\ b = a))
  BY MoveGets
<1> QED BY <1>1, GetsTold

LEMMA ToldOnceStep ==
  ASSUME WaitType, JoinOwned, SignalAtZero, FlagAtZero, ToldAtZero, ToldOnce,
         Undisturbed, Undisturbed', [Next]_vars
  PROVE  ToldOnce'
<1> SUFFICES ASSUME NEW d \in Clients, NEW b \in Arrays
             PROVE  \A p, q \in rxq'[d] : p.key = b /\ q.key = b => p = q
  BY DEF ToldOnce
<1>1. \A p, q \in rxq[d] : p.key = b /\ q.key = b => p = q
  BY DEF ToldOnce
<1>2. ASSUME NEW new \in BOOLEAN, Gets(d, b, new), new => ~Told(d, b)
      PROVE  \A p, q \in rxq'[d] : p.key = b /\ q.key = b => p = q
  BY <1>1, <1>2, GetsTold
<1>3. CASE Aside
  BY <1>1, <1>3 DEF Aside
<1>4. ASSUME NEW f \in Fences, CtlSignal(f)
      PROVE  \A p, q \in rxq'[d] : p.key = b /\ q.key = b => p = q
  <2>1. PICK new \in BOOLEAN : Gets(d, b, new) /\ (new <=> (Fires(f, b) /\ d \in slot[b].mask))
    BY <1>4, CtlGets
  <2>2. Fires(f, b) => slot[b].pending # 0
    BY DEF Fires
  <2>3. new => ~Told(d, b)
    BY <2>1, <2>2 DEF ToldAtZero
  <2> QED BY <1>2, <2>1, <2>3
<1>5. ASSUME NEW c \in Clients, NEW a \in Arrays, JoinMove(c, a)
      PROVE  \A p, q \in rxq'[d] : p.key = b /\ q.key = b => p = q
  <2>1. PICK new \in BOOLEAN : Gets(d, b, new) /\ (new <=> (Signals(c, a) /\ d = c /\ b = a))
    BY <1>5, MoveGets
  <2>2. Signals(c, a) => ~Told(c, a)
    <3>1. SUFFICES ASSUME Signals(c, a) PROVE ~Told(c, a)
      OBVIOUS
    <3>2. call[c].pc = "joinSignal" /\ call[c].obj = a /\ call[c].pc \in JoinPcs
      BY <3>1 DEF Signals, JoinPcs, EndPcs
    <3>3. ~slot[a].signal
      BY <3>2 DEF SignalAtZero, FlagAtZero
    <3> QED BY <3>2, <3>3 DEF ToldAtZero, Joins
  <2> QED BY <1>2, <2>1, <2>2
<1> QED BY <1>3, <1>4, <1>5, MoveCases

\* The call that a move is about is alone on its array.
LEMMA MoveOwner ==
  ASSUME JoinOwned, NEW c \in Clients, NEW a \in Arrays, JoinMove(c, a)
  PROVE  /\ ~Made(c, a) => Joins(c, a)
         /\ Made(c, a) => ~Joins(c, a)
         /\ Joins(c, a)' => call'[c].obj = a
         /\ \A d \in Clients : d # c => ~Joins(d, a) /\ ~Joins(d, a)' /\ call'[d] = call[d]
         /\ \A b \in Arrays : b # a => ~Joins(c, b) /\ ~Joins(c, b)' /\ slot'[b] = slot[b]
<1>1. /\ \A d \in Clients : d # c => call'[d] = call[d]
      /\ \A b \in Arrays : b # a => slot'[b] = slot[b]
  BY DEF JoinMove, Made, Masked, Found, CountedOff, Added, Finished, Signals, Destroyed, Others
<1>2. ~Made(c, a) => call[c].obj = a /\ call[c].pc \in JoinPcs
  BY DEF JoinMove, Masked, Found, CountedOff, Added, Finished, Signals, Destroyed, JoinPcs, LinkPcs, EndPcs
<1>3. Made(c, a) => call[c].pc \notin JoinPcs /\ ~slot[a].valid
  BY DEF Made, JoinPcs, LinkPcs, EndPcs, UndoPcs
<1>4. call'[c].pc \in JoinPcs => call'[c].obj = a
  BY DEF JoinMove, Made, Masked, Found, CountedOff, Added, Finished, Signals, Destroyed,
         NextIndex, CallSame, NoCall, JoinPcs, LinkPcs, EndPcs, UndoPcs
<1>5. ASSUME NEW d \in Clients, d # c
      PROVE  ~Joins(d, a)
  <2>1. CASE Made(c, a)
    BY <1>3, <2>1 DEF JoinOwned, Joins
  <2>2. CASE ~Made(c, a)
    BY <1>2, <1>5, <2>2, JoinsAlone DEF Joins
  <2> QED BY <2>1, <2>2
<1>6. \A d \in Clients : d # c => ~Joins(d, a)'
  BY <1>1, <1>5 DEF Joins
<1>7. \A b \in Arrays : b # a => ~Joins(c, b) /\ ~Joins(c, b)'
  BY <1>2, <1>3, <1>4 DEF Joins
<1> QED BY <1>1, <1>2, <1>3, <1>4, <1>5, <1>6, <1>7 DEF Joins

\* What a move leaves of the waits.
LEMMA MoveWaits ==
  ASSUME WaitType, NEW c \in Clients, NEW a \in Arrays, JoinMove(c, a), NEW d \in Clients, NEW b \in Arrays
  PROVE  /\ b \in todo'[d] => b \in todo[d]
         /\ b \in waiting'[d] => b \in waiting[d] \/ (d = c /\ b = a /\ (Finished(c, a) \/ Destroyed(c, a)))
         /\ ~Made(c, a) => (b \in todo'[d] <=> b \in todo[d])
<1>1. todo = [e \in Clients |-> todo[e]] /\ waiting = [e \in Clients |-> waiting[e]]
  BY DEF WaitType
<1>2. todo' = todo \/ (Made(c, a) /\ todo' = [todo EXCEPT ![c] = @ \ {a}])
  BY DEF JoinMove, Made, Masked, Found, CountedOff, Added, Finished, Signals, Destroyed
<1>3. \/ waiting' = waiting
      \/ (Finished(c, a) \/ Destroyed(c, a)) /\ waiting' = [waiting EXCEPT ![c] = @ \cup {a}]
  BY DEF JoinMove, Made, Masked, Found, CountedOff, Added, Finished, Signals, Destroyed
<1>4. (b \in todo'[d] => b \in todo[d]) /\ (~Made(c, a) => (b \in todo'[d] <=> b \in todo[d]))
  BY <1>1, <1>2
<1>5. b \in waiting'[d] => b \in waiting[d] \/ (d = c /\ b = a /\ (Finished(c, a) \/ Destroyed(c, a)))
  BY <1>1, <1>3
<1> QED BY <1>4, <1>5

LEMMA MoveMask ==
  ASSUME NEW c \in Clients, NEW a \in Arrays, JoinMove(c, a)
  PROVE  /\ Made(c, a) => slot'[a].mask = {}
         /\ Destroyed(c, a) => slot'[a].mask = {} /\ ~slot'[a].valid
         /\ Masked(c, a) => slot'[a].mask = slot[a].mask \cup {c}
         /\ ~Made(c, a) /\ ~Destroyed(c, a) /\ ~Masked(c, a) => slot'[a].mask = slot[a].mask
         /\ ~Made(c, a) /\ ~Destroyed(c, a) => /\ slot'[a].valid = slot[a].valid
                                               /\ slot'[a].signal = slot[a].signal
         /\ ~Made(c, a) /\ ~Destroyed(c, a) /\ ~CountedOff(c, a) => slot'[a].pending = slot[a].pending
<1>1. Made(c, a) => slot'[a].mask = {}
  BY DEF Made
<1>2. Destroyed(c, a) => slot'[a].mask = {} /\ ~slot'[a].valid
  BY DEF Destroyed, FreeSlot
<1>3. Masked(c, a) => slot'[a].mask = slot[a].mask \cup {c}
  BY DEF Masked
<1>4. ~Made(c, a) /\ ~Destroyed(c, a) /\ ~Masked(c, a) => slot'[a].mask = slot[a].mask
  BY DEF JoinMove, Found, CountedOff, Added, Finished, Signals, MaskSame
<1>5. ~Made(c, a) /\ ~Destroyed(c, a) => /\ slot'[a].valid = slot[a].valid
                                         /\ slot'[a].signal = slot[a].signal
  BY DEF JoinMove, Masked, Found, CountedOff, Added, Finished, Signals, MaskSame
<1>6. ~Made(c, a) /\ ~Destroyed(c, a) /\ ~CountedOff(c, a) => slot'[a].pending = slot[a].pending
  BY DEF JoinMove, Masked, Found, Added, Finished, Signals
<1> QED BY <1>1, <1>2, <1>3, <1>4, <1>5, <1>6

LEMMA OneOwnerStep ==
  ASSUME WaitType, JoinOwned, OneOwner, Undisturbed, Undisturbed', [Next]_vars
  PROVE  OneOwner'
<1> SUFFICES ASSUME NEW d \in Clients, NEW b \in Arrays
             PROVE  /\ Joins(d, b)' => /\ b \notin todo'[d] /\ b \notin waiting'[d]
                                       /\ slot'[b].mask \subseteq {d}
                                       /\ call'[d].pc # "joinMask" => d \in slot'[b].mask
                    /\ b \in waiting'[d] \/ d \in slot'[b].mask \/ Told(d, b)' => b \notin todo'[d]
  BY DEF OneOwner
<1>1. /\ Joins(d, b) => /\ b \notin todo[d] /\ b \notin waiting[d] /\ slot[b].mask \subseteq {d}
                        /\ call[d].pc # "joinMask" => d \in slot[b].mask
      /\ b \in waiting[d] \/ d \in slot[b].mask \/ Told(d, b) => b \notin todo[d]
  BY DEF OneOwner
<1>2. CASE Aside
  <2>1. /\ slot'[b] = slot[b] /\ (b \in todo'[d] => b \in todo[d]) /\ (b \in waiting'[d] <=> b \in waiting[d])
        /\ call'[d] = call[d] \/ call'[d].pc \notin JoinPcs
    BY <1>2 DEF Aside
  <2>2. Told(d, b)' <=> Told(d, b)
    BY <1>2, AsideTold
  <2> QED BY <1>1, <2>1, <2>2 DEF Joins
<1>3. ASSUME NEW f \in Fences, CtlSignal(f)
      PROVE  /\ Joins(d, b)' => /\ b \notin todo'[d] /\ b \notin waiting'[d]
                                /\ slot'[b].mask \subseteq {d}
                                /\ call'[d].pc # "joinMask" => d \in slot'[b].mask
             /\ b \in waiting'[d] \/ d \in slot'[b].mask \/ Told(d, b)' => b \notin todo'[d]
  <2>1. call' = call /\ todo' = todo /\ waiting' = waiting
    BY <1>3 DEF CtlSignal
  <2>2. slot'[b].mask = slot[b].mask
    BY <1>3, CtlSlots DEF WaitType, Keys
  <2>3. Told(d, b)' <=> (Told(d, b) \/ (Fires(f, b) /\ d \in slot[b].mask))
    BY <1>3, CtlTold
  <2> QED BY <1>1, <2>1, <2>2, <2>3 DEF Joins
<1>4. ASSUME NEW c \in Clients, NEW a \in Arrays, JoinMove(c, a)
      PROVE  /\ Joins(d, b)' => /\ b \notin todo'[d] /\ b \notin waiting'[d]
                                /\ slot'[b].mask \subseteq {d}
                                /\ call'[d].pc # "joinMask" => d \in slot'[b].mask
             /\ b \in waiting'[d] \/ d \in slot'[b].mask \/ Told(d, b)' => b \notin todo'[d]
  <2>1. /\ b \in todo'[d] => b \in todo[d]
        /\ b \in waiting'[d] => b \in waiting[d] \/ (d = c /\ b = a /\ (Finished(c, a) \/ Destroyed(c, a)))
    BY <1>4, MoveWaits
  <2>2. Told(d, b)' <=> (Told(d, b) \/ (Signals(c, a) /\ d = c /\ b = a))
    BY <1>4, MoveTold
  <2>3. /\ ~Made(c, a) => Joins(c, a)
        /\ \A e \in Clients : e # c => ~Joins(e, a)' /\ call'[e] = call[e]
        /\ \A e \in Arrays : e # a => ~Joins(c, e)' /\ slot'[e] = slot[e]
    BY <1>4, MoveOwner
  <2>4. CASE b # a
    <3>1. Joins(d, b)' => Joins(d, b) /\ call'[d] = call[d]
      BY <2>3, <2>4 DEF Joins
    <3> QED BY <1>1, <2>1, <2>2, <2>3, <2>4, <3>1
  <2>5. CASE b = a /\ d # c
    <3>1. d \in slot'[a].mask => d \in slot[a].mask
      BY <1>4, <2>5, MoveMask
    <3> QED BY <1>1, <2>1, <2>2, <2>3, <2>5, <3>1
  <2>6. CASE b = a /\ d = c /\ Made(c, a)
    <3>1. a \in todo[c] /\ todo' = [todo EXCEPT ![c] = @ \ {a}] /\ waiting' = waiting
          /\ call'[c].pc = "joinMask" /\ slot'[a].mask = {}
      BY <2>6 DEF Made
    <3>2. a \notin todo'[c]
      <4>1. todo = [e \in Clients |-> todo[e]]
        BY DEF WaitType
      <4> QED BY <3>1, <4>1
    <3> QED BY <1>1, <2>6, <3>1, <3>2
  <2>7. CASE b = a /\ d = c /\ ~Made(c, a)
    <3>1. /\ a \notin todo[c] /\ a \notin waiting[c] /\ slot[a].mask \subseteq {c}
          /\ call[c].pc # "joinMask" => c \in slot[a].mask
      BY <1>1, <2>3, <2>7
    <3>2. a \notin todo'[c]
      BY <2>1, <2>7, <3>1
    <3>3. ASSUME Joins(c, a)'
          PROVE  /\ a \notin waiting'[c] /\ slot'[a].mask \subseteq {c}
                 /\ call'[c].pc # "joinMask" => c \in slot'[a].mask
      <4>1. ~Destroyed(c, a)
        BY <3>3 DEF Destroyed, Joins, NoCall, JoinPcs, LinkPcs, EndPcs, UndoPcs
      <4>2. waiting' = waiting
        BY <1>4, <3>3, <4>1 DEF JoinMove, Made, Masked, Found, CountedOff, Added, Finished, Signals,
                                Joins, NoCall, JoinPcs, LinkPcs, EndPcs, UndoPcs
      <4>3. CASE Masked(c, a)
        BY <1>4, <3>1, <4>2, <4>3, MoveMask
      <4>4. CASE ~Masked(c, a)
        <5>1. call[c].pc # "joinMask"
          BY <1>4, <2>7, <4>4 DEF JoinMove, Found, CountedOff, Added, Finished, Signals, Destroyed
        <5>2. slot'[a].mask = slot[a].mask
          BY <1>4, <2>7, <4>1, <4>4, MoveMask
        <5> QED BY <3>1, <4>2, <5>1, <5>2
      <4> QED BY <4>3, <4>4
    <3> QED BY <2>7, <3>2, <3>3
  <2> QED BY <2>4, <2>5, <2>6, <2>7
<1> QED BY <1>2, <1>3, <1>4, MoveCases

LEMMA NoneOpen ==
  ASSUME OpenCounted, NEW a \in Arrays, slot[a].valid, slot[a].pending = 0
  PROVE  \A i \in DOMAIN Children[a] : Signalled(a, i)
<1>1. Cardinality(Open(a)) = 0 /\ IsFiniteSet(Open(a))
  BY OpenFinite, OpenSubset DEF OpenCounted
<1>2. Open(a) = {}
  BY <1>1, FS_EmptySet
<1> QED BY <1>2 DEF Open

\* The array that the controller counts down to nothing has all its children signalled.
LEMMA FiresLast ==
  ASSUME WaitType, EntriesMatch, OpenCounted, NEW f \in Fences, CtlSignal(f), NEW a \in Arrays, Fires(f, a)
  PROVE  /\ slot'[a].pending = 0 /\ slot'[a].signal /\ slot[a].pending # 0
         /\ \A i \in DOMAIN Children[a] : Signalled(a, i)'
<1>1. a \in Keys /\ slot \in [Keys -> SlotRec] /\ slot[a].valid
  BY DEF Keys, WaitType, Fires
<1>2. slot'[a].pending = 0 /\ slot'[a].signal
  BY <1>1, CtlSlots DEF Fires
<1>3. slot[a].pending = Cardinality(Open(a))
      /\ Cardinality(Open(a)') = Cardinality(Open(a)) - Hits(f, a)
      /\ slot[a].pending = Hits(f, a) /\ Hits(f, a) \in Nat /\ Hits(f, a) > 0
  BY <1>1, CtlCloses DEF OpenCounted, Fires
<1>4. Cardinality(Open(a)') = 0 /\ Open(a)' \subseteq DOMAIN Children[a]
  BY <1>3 DEF Open
<1>5. Open(a)' = {}
  BY <1>4, OpenFinite, FS_EmptySet
<1>6. \A i \in DOMAIN Children[a] : Signalled(a, i)'
  BY <1>5 DEF Open
<1> QED BY <1>2, <1>3, <1>6

LEMMA ToldAtZeroStep ==
  ASSUME WaitType, JoinOwned, SignalAtZero, EntriesMatch, OpenCounted, FlagAtZero, OneOwner, ToldAtZero,
         Undisturbed, Undisturbed', [Next]_vars
  PROVE  ToldAtZero'
<1> DEFINE Goal(d, b) == /\ \A i \in DOMAIN Children[b] : Signalled(b, i)'
                         /\ d \in slot'[b].mask => slot'[b].pending = 0
                         /\ Joins(d, b)' /\ call'[d].pc # "joinDestroy" => slot'[b].signal
<1> SUFFICES ASSUME NEW d \in Clients, NEW b \in Arrays, Told(d, b)' PROVE Goal(d, b)
  BY DEF ToldAtZero
<1>1. Told(d, b) => /\ \A i \in DOMAIN Children[b] : Signalled(b, i)
                    /\ d \in slot[b].mask => slot[b].pending = 0
                    /\ Joins(d, b) /\ call[d].pc # "joinDestroy" => slot[b].signal
  BY DEF ToldAtZero
<1>2. CASE Aside
  <2>1. Told(d, b) /\ slot'[b] = slot[b] /\ (call'[d] = call[d] \/ call'[d].pc \notin JoinPcs)
    BY <1>2, AsideTold DEF Aside
  <2>2. \A i \in DOMAIN Children[b] : Signalled(b, i)' <=> Signalled(b, i)
    BY <1>2, SignalledKept
  <2> QED BY <1>1, <2>1, <2>2 DEF Joins
<1>3. ASSUME NEW f \in Fences, CtlSignal(f)
      PROVE  Goal(d, b)
  <2>1. /\ slot'[b].mask = slot[b].mask /\ (slot[b].signal => slot'[b].signal)
        /\ ~slot[b].valid => slot'[b].pending = slot[b].pending
    <3>1. b \in Keys /\ b \in Arrays /\ slot \in [Keys -> SlotRec]
      BY DEF WaitType, Keys
    <3> QED BY <1>3, <3>1, CtlSlots
  <2>2. \A i \in DOMAIN Children[b] : Signalled(b, i)' <=> Signalled(b, i) \/ Children[b][i] = f
    BY <1>3, SignalledByCtl
  <2>3. call' = call
    BY <1>3 DEF CtlSignal
  <2>4. CASE Told(d, b)
    <3>1. d \in slot[b].mask => slot'[b].pending = 0
      BY <1>1, <1>3, <2>1, <2>4, ZeroStays
    <3> QED BY <1>1, <2>1, <2>2, <2>3, <2>4, <3>1 DEF Joins
  <2>5. CASE ~Told(d, b)
    <3>1. Fires(f, b)
      BY <1>3, <2>5, CtlTold
    <3> QED BY <1>3, <3>1, FiresLast
  <2> QED BY <2>4, <2>5
<1>4. ASSUME NEW c \in Clients, NEW a \in Arrays, JoinMove(c, a)
      PROVE  Goal(d, b)
  <2>1. Told(d, b) \/ (Signals(c, a) /\ d = c /\ b = a)
    BY <1>4, MoveTold
  <2>2. \A i \in DOMAIN Children[b] : Signalled(b, i)' <=> Signalled(b, i)
    BY <1>4, SignalledKept
  <2>3. /\ ~Made(c, a) => Joins(c, a)
        /\ \A e \in Clients : e # c => ~Joins(e, a) /\ ~Joins(e, a)' /\ call'[e] = call[e]
        /\ \A e \in Arrays : e # a => ~Joins(c, e)' /\ slot'[e] = slot[e]
    BY <1>4, MoveOwner
  <2>4. CASE b # a
    <3>1. Joins(d, b)' => Joins(d, b) /\ call'[d] = call[d]
      BY <2>3, <2>4 DEF Joins
    <3> QED BY <1>1, <2>1, <2>2, <2>3, <2>4, <3>1
  <2>5. CASE b = a /\ d # c
    <3>1. Told(d, a) /\ ~Joins(d, a)'
      BY <2>1, <2>3, <2>5
    <3>2. d \notin slot'[a].mask
      <4>1. ~Made(c, a) => slot[a].mask \subseteq {c}
        BY <2>3 DEF OneOwner
      <4> QED BY <1>4, <2>5, <4>1, MoveMask
    <3> QED BY <1>1, <2>2, <2>5, <3>1, <3>2
  <2>6. CASE b = a /\ d = c /\ Made(c, a)
    <3>1. Told(c, a) /\ a \in todo[c]
      BY <2>1, <2>6 DEF Made, Signals
    <3> QED BY <3>1 DEF OneOwner
  <2>7. CASE b = a /\ d = c /\ Destroyed(c, a)
    <3>1. Told(c, a) /\ slot'[a].mask = {} /\ ~Joins(c, a)'
      <4>1. call[c].pc = "joinDestroy" /\ ~Joins(c, a)'
        BY <2>7 DEF Destroyed, Joins, NoCall, JoinPcs, LinkPcs, EndPcs, UndoPcs
      <4>2. ~Signals(c, a)
        BY <4>1 DEF Signals
      <4>3. Told(c, a)
        BY <2>1, <2>7, <4>2
      <4> QED BY <1>4, <2>7, <4>1, <4>3, MoveMask
    <3> QED BY <1>1, <2>2, <2>7, <3>1
  <2>8. CASE b = a /\ d = c /\ Signals(c, a)
    <3>1. slot[a].pending = 0 /\ slot[a].valid /\ slot' = slot /\ call'[c].pc = "joinDestroy"
      BY <2>8 DEF Signals, SignalAtZero, JoinOwned, JoinPcs, EndPcs
    <3>2. \A i \in DOMAIN Children[a] : Signalled(a, i)
      BY <3>1, NoneOpen
    <3> QED BY <2>2, <2>8, <3>1, <3>2
  <2>9. CASE b = a /\ d = c /\ ~Made(c, a) /\ ~Destroyed(c, a) /\ ~Signals(c, a)
    <3>1. Told(c, a) /\ Joins(c, a) /\ call[c].pc # "joinDestroy"
      BY <1>4, <2>1, <2>3, <2>9 DEF JoinMove, Masked, Found, CountedOff, Added, Finished
    <3>2. slot[a].signal /\ slot[a].valid /\ slot[a].pending = 0
      BY <1>1, <2>9, <3>1 DEF FlagAtZero
    <3>3. ~CountedOff(c, a)
      BY <3>2, CountedOffOpen
    <3>4. slot'[a].signal = slot[a].signal /\ slot'[a].pending = slot[a].pending
      BY <1>4, <2>9, <3>3, MoveMask
    <3> QED BY <1>1, <2>2, <2>9, <3>1, <3>2, <3>4
  <2> QED BY <2>4, <2>5, <2>6, <2>7, <2>8, <2>9
<1> QED BY <1>2, <1>3, <1>4, MoveCases

LEMMA WaitersHearStep ==
  ASSUME WaitType, JoinOwned, SignalAtZero, EntriesMatch, OpenCounted, FlagAtZero, OneOwner, ToldAtZero,
         WaitersHear, Undisturbed, Undisturbed', [Next]_vars
  PROVE  WaitersHear'
<1> DEFINE Goal(d, b) ==
        /\ Joins(d, b)' /\ call'[d].pc = "joinDestroy" => Told(d, b)'
        /\ b \in waiting'[d] => Told(d, b)' \/ (slot'[b].valid /\ d \in slot'[b].mask)
        /\ slot'[b].valid /\ d \in slot'[b].mask /\ slot'[b].pending = 0 =>
                Told(d, b)' \/ (Joins(d, b)' /\ call'[d].sig)
<1> SUFFICES ASSUME NEW d \in Clients, NEW b \in Arrays PROVE Goal(d, b)
  BY DEF WaitersHear
<1>1. /\ Joins(d, b) /\ call[d].pc = "joinDestroy" => Told(d, b)
      /\ b \in waiting[d] => Told(d, b) \/ (slot[b].valid /\ d \in slot[b].mask)
      /\ slot[b].valid /\ d \in slot[b].mask /\ slot[b].pending = 0 =>
                Told(d, b) \/ (Joins(d, b) /\ call[d].sig)
  BY DEF WaitersHear
<1>2. CASE Aside
  <2>1. /\ slot'[b] = slot[b] /\ (b \in waiting'[d] <=> b \in waiting[d])
        /\ call'[d] = call[d] \/ (call[d].pc \notin JoinPcs /\ call'[d].pc \notin JoinPcs)
    BY <1>2 DEF Aside
  <2>2. Told(d, b)' <=> Told(d, b)
    BY <1>2, AsideTold
  <2> QED BY <1>1, <2>1, <2>2 DEF Joins
<1>3. ASSUME NEW f \in Fences, CtlSignal(f)
      PROVE  Goal(d, b)
  <2>1. b \in Keys /\ b \in Arrays /\ slot \in [Keys -> SlotRec] /\ call' = call /\ waiting' = waiting
    BY <1>3 DEF WaitType, Keys, CtlSignal
  <2>2. slot'[b].mask = slot[b].mask /\ slot'[b].valid = slot[b].valid
    BY <1>3, <2>1, CtlSlots
  <2>3. Told(d, b)' <=> (Told(d, b) \/ (Fires(f, b) /\ d \in slot[b].mask))
    BY <1>3, CtlTold
  <2>4. ASSUME slot[b].valid, ~Fires(f, b), slot'[b].pending = 0
        PROVE  slot[b].pending = 0
    <3>1. slot'[b].pending = slot[b].pending - Hits(f, b)
      BY <1>3, <2>1, <2>4, CtlSlots DEF Fires
    <3>2. Hits(f, b) \in Nat /\ slot[b].pending \in Nat
      BY <1>3, <2>4, CtlCloses DEF OpenCounted
    <3> QED BY <2>4, <3>1, <3>2 DEF Fires
  <2> QED BY <1>1, <2>1, <2>2, <2>3, <2>4 DEF Joins
<1>4. ASSUME NEW c \in Clients, NEW a \in Arrays, JoinMove(c, a)
      PROVE  Goal(d, b)
  <2>1. Told(d, b)' <=> (Told(d, b) \/ (Signals(c, a) /\ d = c /\ b = a))
    BY <1>4, MoveTold
  <2>2. b \in waiting'[d] => b \in waiting[d] \/ (d = c /\ b = a /\ (Finished(c, a) \/ Destroyed(c, a)))
    BY <1>4, MoveWaits
  <2>3. /\ ~Made(c, a) => Joins(c, a)
        /\ \A e \in Clients : e # c => ~Joins(e, a) /\ ~Joins(e, a)' /\ call'[e] = call[e]
        /\ \A e \in Arrays : e # a => ~Joins(c, e) /\ ~Joins(c, e)' /\ slot'[e] = slot[e]
    BY <1>4, MoveOwner
  <2>4. CASE b # a
    <3>1. (Joins(d, b)' <=> Joins(d, b)) /\ (Joins(d, b) => call'[d] = call[d])
      BY <2>3, <2>4 DEF Joins
    <3> QED BY <1>1, <2>1, <2>2, <2>3, <2>4, <3>1
  <2>5. CASE b = a /\ d # c
    <3>1. ~Joins(d, a)'
      BY <2>3, <2>5
    <3>2. ~Made(c, a) => d \notin slot[a].mask
      BY <2>3, <2>5 DEF OneOwner
    <3>3. d \notin slot'[a].mask
      BY <1>4, <2>5, <3>2, MoveMask
    <3>4. Made(c, a) => ~slot[a].valid
      BY DEF Made
    <3>5. a \in waiting'[d] => Told(d, a)'
      BY <1>1, <2>1, <2>2, <2>5, <3>2, <3>4
    <3> QED BY <2>5, <3>1, <3>3, <3>5
  <2>6. CASE b = a /\ d = c /\ Made(c, a)
    <3>1. slot'[a].mask = {} /\ call'[c].pc = "joinMask" /\ waiting' = waiting /\ ~slot[a].valid
      BY <2>6 DEF Made
    <3> QED BY <1>1, <2>1, <2>6, <3>1
  <2>7. CASE b = a /\ d = c /\ Destroyed(c, a)
    <3>1. Told(c, a) /\ slot'[a].mask = {} /\ ~Joins(c, a)'
      <4>1. call[c].pc = "joinDestroy" /\ ~Joins(c, a)'
        BY <2>7 DEF Destroyed, Joins, NoCall, JoinPcs, LinkPcs, EndPcs, UndoPcs
      <4>2. Joins(c, a)
        BY <2>7 DEF Destroyed, Joins, JoinPcs, EndPcs
      <4> QED BY <1>1, <1>4, <2>7, <4>1, <4>2, MoveMask
    <3> QED BY <2>1, <2>7, <3>1
  <2>8. CASE b = a /\ d = c /\ Signals(c, a)
    BY <2>1, <2>8
  <2>9. CASE b = a /\ d = c /\ ~Made(c, a) /\ ~Destroyed(c, a) /\ ~Signals(c, a)
    <3>1. Joins(c, a) /\ call'[c].pc # "joinDestroy" /\ slot[a].valid
      <4>1. call'[c].pc # "joinDestroy"
        BY <1>4, <2>9 DEF JoinMove, Masked, Found, CountedOff, Added, Finished, NextIndex, NoCall
      <4> QED BY <2>3, <2>9, <4>1 DEF Joins, JoinOwned
    <3>2. slot'[a].valid = slot[a].valid
      BY <1>4, <2>9, MoveMask
    <3>3. call[c].pc # "joinMask" => c \in slot[a].mask
      BY <3>1 DEF OneOwner
    <3>4. a \in waiting'[c] => c \in slot'[a].mask
      <4>1. a \notin waiting[c]
        BY <3>1 DEF OneOwner
      <4>2. Finished(c, a) => call[c].pc = "finish" /\ ~Masked(c, a)
        BY DEF Finished, Masked
      <4> QED BY <1>4, <2>2, <2>9, <3>3, <4>1, <4>2, MoveMask
    <3>5. CASE Masked(c, a)
      <4>1. slot[a].pending # 0
        <5>1. call[c].obj = a /\ call[c].pc = "joinMask"
          BY <3>5 DEF Masked
        <5>2. PICK i \in DOMAIN Children[a] : i = call[c].i
          BY <5>1, ChildrenDomain DEF WaitType, GoodCall, CallShape, JoinPcs, LinkPcs
        <5>3. Ahead(a, i)
          <6>1. i >= call[c].i
            BY <5>2, ChildrenDomain
          <6> QED BY <5>1, <6>1 DEF Ahead, AheadIn, LinkPcs
        <5>4. Open(a) # {}
          BY <5>3 DEF Open
        <5>5. Cardinality(Open(a)) # 0
          BY <5>4, OpenFinite, OpenSubset, FS_EmptySet
        <5> QED BY <3>1, <5>5 DEF OpenCounted
      <4>2. slot'[a].pending # 0
        BY <3>5, <4>1 DEF Masked
      <4> QED BY <2>9, <3>1, <3>2, <3>4, <4>2
    <3>6. CASE CountedOff(c, a)
      <4>1. slot'[a].pending = 0 => call'[c].sig /\ Joins(c, a)'
        <5>1. slot[a].pending \in Nat /\ slot'[a].pending = slot[a].pending - 1
              /\ call'[c].sig = (call[c].sig \/ slot[a].pending = 1)
          BY <3>6, CountedOffOpen DEF CountedOff
        <5>2. Joins(c, a)'
          BY <3>6 DEF CountedOff, NextIndex, Joins, JoinPcs, LinkPcs, EndPcs
        <5>3. slot'[a].pending = 0 => slot[a].pending = 1
          BY <5>1
        <5>4. slot[a].pending = 1 => call'[c].sig
          BY <3>6, Zenon DEF CountedOff
        <5> QED BY <5>2, <5>3, <5>4
      <4> QED BY <2>9, <3>1, <3>2, <3>4, <4>1
    <3>7. CASE Found(c, a) \/ Added(c, a) \/ Finished(c, a)
      <4>1. slot'[a].pending = slot[a].pending /\ slot'[a].mask = slot[a].mask
        BY <3>7 DEF Found, Added, Finished, MaskSame
      <4>2. call[c].sig => call'[c].sig /\ Joins(c, a)'
        BY <3>7 DEF Found, Added, Finished, CallSame, NextIndex, Joins, JoinPcs, LinkPcs, EndPcs
      <4> QED BY <1>1, <2>1, <2>9, <3>1, <3>2, <3>4, <4>1, <4>2
    <3> QED BY <1>4, <2>9, <3>5, <3>6, <3>7 DEF JoinMove
  <2> QED BY <2>4, <2>5, <2>6, <2>7, <2>8, <2>9
<1> QED BY <1>2, <1>3, <1>4, MoveCases

LEMMA InitExact == Init => ExactInv
<1> SUFFICES ASSUME Init PROVE ExactInv
  OBVIOUS
<1>1. /\ \A c \in Clients : call[c].pc = "idle" /\ rxq[c] = {} /\ waiting[c] = {}
      /\ \A c \in Clients : call[c].pc \notin JoinPcs
  BY DEF Init, NoCall, JoinPcs, LinkPcs, EndPcs, UndoPcs
<1>2. ASSUME NEW f \in Fences
      PROVE  slot[f].valid /\ slot[f].cnt = 0
  <2>1. slot[f] = [FreeSlot EXCEPT !.valid = TRUE, !.alloc = Allocator[f]]
    BY DEF Init, Keys
  <2> QED BY <2>1 DEF FreeSlot
<1>3. ASSUME NEW a \in Arrays
      PROVE  ~slot[a].valid /\ ~slot[a].signal /\ slot[a].mask = {}
  <2>1. slot[a] = FreeSlot
    BY WaitAssumption DEF Init, Keys
  <2> QED BY <2>1 DEF FreeSlot
<1>4. FencesStay /\ OpenCounted /\ FlagAtZero
  BY <1>1, <1>2, <1>3 DEF FencesStay, OpenCounted, FlagAtZero
<1>5. ASSUME NEW f \in Fences, NEW a \in Arrays
      PROVE  EntriesOf(f, a) = {} /\ Behind(a, f) = {}
  <2>1. 1..slot[f].cnt = {}
    BY <1>2
  <2> QED BY <1>3, <2>1 DEF EntriesOf, Behind
<1>6. EntriesMatch
  BY <1>5 DEF EntriesMatch
<1>7. \A c \in Clients, a \in Arrays : ~Told(c, a)
  BY <1>1 DEF Told
<1>8. OneOwner /\ ToldAtZero /\ ToldOnce /\ WaitersHear
  BY <1>1, <1>3, <1>7 DEF OneOwner, ToldAtZero, ToldOnce, WaitersHear, Joins
<1> QED BY <1>4, <1>6, <1>8 DEF ExactInv

LEMMA ExactStep ==
  WaitInv /\ JoinInv /\ ExactInv /\ Undisturbed /\ Undisturbed' /\ [Next]_vars => ExactInv'
<1> SUFFICES ASSUME WaitInv, JoinInv, ExactInv, Undisturbed, Undisturbed', [Next]_vars
             PROVE  ExactInv'
  OBVIOUS
<1>1. WaitType /\ JoinOwned /\ SignalAtZero
  BY DEF WaitInv, JoinInv
<1>2. /\ FencesStay /\ OpenCounted /\ EntriesMatch /\ FlagAtZero
      /\ OneOwner /\ ToldAtZero /\ ToldOnce /\ WaitersHear
  BY DEF ExactInv
<1>3. FencesStay' /\ OpenCounted' /\ EntriesMatch' /\ FlagAtZero'
  BY <1>1, <1>2, FencesStayStep, OpenCountedStep, EntriesMatchStep, FlagAtZeroStep
<1>4. OneOwner' /\ ToldAtZero' /\ ToldOnce' /\ WaitersHear'
  BY <1>1, <1>2, OneOwnerStep, ToldAtZeroStep, ToldOnceStep, WaitersHearStep
<1> QED BY <1>3, <1>4 DEF ExactInv

\* As long as no array is refused and no client resets, the counts, the entries and
\* the messages of the join fences agree.
THEOREM ExactInvariant == Spec /\ []Undisturbed => []ExactInv
BY InitExact, ExactStep, JoinInvariant, PTL DEF Spec

\* As long as no array is refused and no client resets, the driver and the
\* controller together count a join fence down exactly: it counts the children that
\* are not signalled and those hw_fence_process_fence_array has still to look at.
THEOREM PendingIsExact == Spec /\ []Undisturbed => []PendingExact
<1>1. ExactInv => PendingExact
  <2> SUFFICES ASSUME ExactInv, NEW a \in Arrays, slot[a].valid
               PROVE  slot[a].pending =
                        Cardinality({i \in DOMAIN Children[a] :
                            \/ ~Signalled(a, i)
                            \/ \E c \in Clients : /\ call[c].obj = a
                                                  /\ call[c].pc \in {"joinMask", "child", "link"}
                                                  /\ i >= call[c].i})
    BY DEF PendingExact
  <2>1. slot[a].pending = Cardinality(Open(a))
    BY DEF ExactInv, OpenCounted
  <2> QED BY <2>1 DEF Open, Ahead, AheadIn, LinkPcs
<1> QED BY <1>1, ExactInvariant, PTL

\* As long as no array is refused and no client resets, a client hears of an array
\* once, when its last child is signalled and not before, whoever signals it.
THEOREM JoinIsExact == Spec /\ []Undisturbed => []JoinExact
<1>1. ASSUME WaitInv, JoinInv, ExactInv
      PROVE  JoinExact
  <2> SUFFICES ASSUME NEW c \in Clients, NEW a \in Arrays
               PROVE  /\ Told(c, a) => \A i \in DOMAIN Children[a] : Signalled(a, i)
                      /\ Cardinality({p \in rxq[c] : p.key = a}) <= 1
                      /\ a \in waiting[c] /\ (\A i \in DOMAIN Children[a] : Signalled(a, i)) => Told(c, a)
    BY DEF JoinExact
  <2>1. WaitType /\ JoinOwned /\ OpenCounted /\ OneOwner /\ ToldAtZero /\ ToldOnce /\ WaitersHear
    BY <1>1 DEF WaitInv, JoinInv, ExactInv
  <2>2. Told(c, a) => \A i \in DOMAIN Children[a] : Signalled(a, i)
    BY <2>1 DEF ToldAtZero
  <2>3. Cardinality({p \in rxq[c] : p.key = a}) <= 1
    <3>1. PICK S : S = {p \in rxq[c] : p.key = a}
      OBVIOUS
    <3>2. \A p, q \in S : p = q
      BY <2>1, <3>1 DEF ToldOnce
    <3>3. S = {} \/ \E p : S = {p}
      BY <3>2
    <3>4. Cardinality(S) = 0 \/ Cardinality(S) = 1
      BY <3>3, FS_EmptySet, FS_Singleton
    <3> QED BY <3>1, <3>4
  <2>4. ASSUME a \in waiting[c], \A i \in DOMAIN Children[a] : Signalled(a, i), ~Told(c, a)
        PROVE  FALSE
    <3>1. slot[a].valid /\ c \in slot[a].mask /\ ~Joins(c, a)
      BY <2>1, <2>4 DEF WaitersHear, OneOwner
    <3>2. \A d \in Clients : ~Joins(d, a)
      BY <2>1, <3>1 DEF OneOwner
    <3>3. Open(a) = {}
      BY <2>4, <3>2, LinksAreJoins DEF Open, Ahead, AheadIn, Joins
    <3>4. slot[a].pending = 0
      BY <2>1, <3>1, <3>3, FS_EmptySet DEF OpenCounted
    <3> QED BY <2>1, <2>4, <3>1, <3>4 DEF WaitersHear
  <2> QED BY <2>2, <2>3, <2>4
<1> QED BY <1>1, ExactInvariant, JoinInvariant, PTL
=============================================================================
