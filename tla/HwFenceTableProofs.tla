-------------------------- MODULE HwFenceTableProofs --------------------------
(***************************************************************************)
(* Proofs about HwFenceTable, for any number of clients, of fences and of  *)
(* slots, and any hash.                                                    *)
(***************************************************************************)
EXTENDS HwFenceTable, Integers, TLAPS

\* What the dma-fence framework promises: a context is allocated once, and its
\* sequence numbers are used once.
DmaFencesUnique == \A f, g \in Fences : Key[f] = Key[g] => f = g

CallRec ==
    [pc : {"idle", "lookup", "setBit", "clearBit", "checkAllocator", "readKey"},
     op : {"CREATE", "DESTROY", "FIND_FENCE"},
     fence : Fences \cup {NoFence}, key : Keys \cup {Zero}, step : Slots, hash : Slots]

SlotRec == [valid : BOOLEAN, key : Keys \cup {Zero}, alloc : Clients \cup {Nobody}]

\* A call that creates a fence, or that is to change a flag, is about a dma_fence.
NamesFence ==
    \A c \in Clients :
        call[c].op = "CREATE" \/ call[c].pc \in {"setBit", "clearBit"} => call[c].fence \in Fences

-----------------------------------------------------------------------------
(* The operators of the lookup *)

\* _calculate_hash goes round the table.
LEMMA NextSlot ==
  ASSUME NEW h \in Slots
  PROVE  (h + 1) % Entries = IF h + 1 = Entries THEN 0 ELSE h + 1
<1>1. Entries \in Nat \ {0} /\ h \in Nat /\ h < Entries
  BY TableAssumption DEF Slots
<1>2. CASE h + 1 = Entries
  BY <1>1, <1>2
<1>3. CASE h + 1 < Entries
  BY <1>1, <1>3
<1> QED BY <1>1, <1>2, <1>3

LEMMA HashIsSlot ==
  ASSUME NEW cl \in CallRec
  PROVE  CalculateHash(cl) \in Slots
<1>1. cl.hash \in Slots /\ cl.key \in Keys \cup {Zero}
  BY DEF CallRec
<1>2. (cl.hash + 1) % Entries \in Slots
  BY <1>1, NextSlot, TableAssumption DEF Slots
<1> QED BY <1>1, <1>2, TableAssumption DEF CalculateHash

LEMMA NoCallType == NoCall \in CallRec
BY TableAssumption DEF NoCall, CallRec, Slots

LEMMA FreeSlotType == FreeSlot \in SlotRec
BY DEF FreeSlot, SlotRec

\* A probe ends a call, goes on to the next slot, or reserves or frees its slot.
LEMMA ProbeCases ==
  ASSUME NEW c \in Clients, Probe(c), call \in [Clients -> CallRec],
         table \in [Slots -> SlotRec], NEW h \in Slots, h = CalculateHash(call[c])
  PROVE  \/ /\ call[c].op = "CREATE" /\ ~table[h].valid
            /\ table' = [table EXCEPT ![h] = [valid |-> TRUE, key |-> call[c].key, alloc |-> c]]
            /\ call' = [call EXCEPT ![c] = [call[c] EXCEPT !.pc = "setBit", !.hash = h]]
         \/ /\ call[c].op = "DESTROY" /\ table[h].key = call[c].key
            /\ table' = [table EXCEPT ![h] = FreeSlot]
            /\ \/ /\ call[c].fence = NoFence
                  /\ call' = [call EXCEPT ![c] = NoCall]
               \/ /\ call[c].fence # NoFence
                  /\ call' = [call EXCEPT ![c] = [call[c] EXCEPT !.pc = "clearBit", !.hash = h]]
         \/ /\ call[c].op = "DESTROY" => table[h].key # call[c].key /\ call[c].step + 1 = Entries
            /\ table' = table
            /\ call' = [call EXCEPT ![c] = NoCall]
         \/ /\ call[c].op = "DESTROY" => table[h].key # call[c].key
            /\ call[c].step + 1 # Entries
            /\ table' = table
            /\ call' = [call EXCEPT ![c] =
                          [call[c] EXCEPT !.step = call[c].step + 1, !.hash = h]]
<1>1. call[c] \in CallRec
  OBVIOUS
<1>2. call[c].op \in {"CREATE", "DESTROY", "FIND_FENCE"}
  BY <1>1 DEF CallRec
<1>3. CASE ~Compare(call[c].op, table[h], call[c].key)
  BY <1>1, <1>3 DEF Probe, GivesUp, Compare, CallRec
<1>4. CASE Compare(call[c].op, table[h], call[c].key)
  <2>1. /\ table' = [table EXCEPT ![h] = Process(call[c].op, table[h], call[c].key, c)]
        /\ call' = [call EXCEPT ![c] = IF AfterFound(call[c]) = "idle" THEN NoCall
                          ELSE [call[c] EXCEPT !.pc = AfterFound(call[c]), !.hash = h]]
    BY <1>4 DEF Probe
  <2>2. CASE call[c].op = "CREATE"
    BY <1>4, <2>1, <2>2 DEF Compare, Process, AfterFound
  <2>3. CASE call[c].op = "DESTROY"
    <3>1. CASE call[c].fence = NoFence
      <4>1. AfterFound(call[c]) = "idle"
        BY <2>3, <3>1 DEF AfterFound
      <4> QED BY <1>4, <2>1, <2>3, <3>1, <4>1 DEF Compare, Process
    <3>2. CASE call[c].fence # NoFence
      <4>1. AfterFound(call[c]) = "clearBit"
        BY <2>3, <3>2 DEF AfterFound
      <4> QED BY <1>4, <2>1, <2>3, <3>2, <4>1 DEF Compare, Process
    <3> QED BY <3>1, <3>2
  <2>4. CASE call[c].op = "FIND_FENCE"
    <3>1. AfterFound(call[c]) = "idle" /\ Process(call[c].op, table[h], call[c].key, c) = table[h]
      BY <2>4 DEF AfterFound, Process
    <3>2. [table EXCEPT ![h] = table[h]] = table
      OBVIOUS
    <3> QED BY <2>1, <2>4, <3>1, <3>2
  <2> QED BY <1>2, <2>2, <2>3, <2>4
<1> QED BY <1>3, <1>4

-----------------------------------------------------------------------------
\* A client writes the record of its own call only.
LEMMA StepCall ==
  ASSUME TypeOK, NEW c \in Clients, Step(c)
  PROVE  \E r \in CallRec : call' = [call EXCEPT ![c] = r]
<1>1. call \in [Clients -> CallRec] /\ call[c] \in CallRec /\ NoCall \in CallRec
  BY NoCallType DEF TypeOK, CallRec
<1>2. ASSUME NEW op \in {"CREATE", "DESTROY", "FIND_FENCE"},
             NEW f \in Fences \cup {NoFence}, NEW k \in Keys \cup {Zero}
      PROVE  Lookup(op, f, k) \in CallRec
  BY <1>1 DEF Lookup, CallRec
<1>3. \A f \in Fences : Key[f] \in Keys
  BY TableAssumption
<1>4. ASSUME NEW f \in Fences, Create(c, f) \/ Destroy(c, f) \/ FindFence(c, f)
      PROVE  \E r \in CallRec : call' = [call EXCEPT ![c] = r]
  BY <1>2, <1>3, <1>4 DEF Create, Destroy, FindFence
<1>5. ASSUME NEW h \in Slots, DestroyWithHandle(c, h)
      PROVE  \E r \in CallRec : call' = [call EXCEPT ![c] = r]
  <2>1. [NoCall EXCEPT !.pc = "checkAllocator", !.hash = h] \in CallRec
    BY <1>1 DEF CallRec
  <2> QED BY <1>5, <2>1 DEF DestroyWithHandle
<1>6. CASE SetEnabledBit(c) \/ ClearEnabledBit(c)
  BY <1>1, <1>6 DEF SetEnabledBit, ClearEnabledBit
<1>7. CASE CheckAllocator(c)
  <2>1. \A pc \in {"idle", "readKey"} : Goto(c, pc) \in CallRec
    BY <1>1 DEF Goto, CallRec
  <2> QED BY <1>7, <2>1 DEF CheckAllocator
<1>8. CASE ReadKey(c)
  <2>1. table[call[c].hash].key \in Keys \cup {Zero}
    BY <1>1 DEF TypeOK, CallRec
  <2> QED BY <1>2, <1>8, <2>1 DEF ReadKey
<1>9. CASE Probe(c)
  <2>1. PICK h \in Slots : h = CalculateHash(call[c])
    BY <1>1, HashIsSlot
  <2>2. ASSUME NEW pc \in {"setBit", "clearBit"} PROVE [call[c] EXCEPT !.pc = pc, !.hash = h] \in CallRec
    BY <1>1 DEF CallRec
  <2>3. call[c].step + 1 # Entries => [call[c] EXCEPT !.step = call[c].step + 1, !.hash = h] \in CallRec
    <3>1. call[c].step + 1 # Entries => call[c].step + 1 \in Slots
      <4>1. call[c].step \in Slots
        BY <1>1 DEF CallRec
      <4> QED BY <4>1, TableAssumption DEF Slots
    <3> QED BY <1>1, <3>1 DEF CallRec
  <2>4. table \in [Slots -> SlotRec]
    BY DEF TypeOK, SlotRec
  <2> QED BY <1>1, <1>9, <2>1, <2>2, <2>3, <2>4, ProbeCases
<1> QED BY <1>4, <1>5, <1>6, <1>7, <1>8, <1>9 DEF Step

LEMMA OtherCalls ==
  ASSUME TypeOK, NEW c \in Clients, Step(c)
  PROVE  \A d \in Clients \ {c} : call'[d] = call[d]
BY StepCall DEF TypeOK

LEMMA NamesFenceStep ==
  ASSUME TypeOK, NamesFence, NEW c \in Clients, Step(c)
  PROVE  NamesFence'
<1>1. call \in [Clients -> CallRec] /\ call[c] \in CallRec
  BY DEF TypeOK, CallRec
<1>2. SUFFICES call'[c].op = "CREATE" \/ call'[c].pc \in {"setBit", "clearBit"}
               => call'[c].fence \in Fences
  BY OtherCalls DEF NamesFence
<1>3. ASSUME NEW f \in Fences, Create(c, f) \/ Destroy(c, f) \/ FindFence(c, f)
      PROVE  call'[c].fence = f
  BY <1>1, <1>3 DEF Create, Destroy, FindFence, Lookup, NoCall
<1>4. CASE SetEnabledBit(c) \/ ClearEnabledBit(c)
  BY <1>1, <1>4 DEF SetEnabledBit, ClearEnabledBit, NoCall
<1>5. ASSUME NEW h \in Slots, DestroyWithHandle(c, h)
      PROVE  call'[c].op = "FIND_FENCE" /\ call'[c].pc = "checkAllocator"
  BY <1>1, <1>5 DEF DestroyWithHandle, NoCall
<1>6. CASE CheckAllocator(c)
  <2>1. call'[c] = NoCall \/ call'[c] = [call[c] EXCEPT !.pc = "readKey"]
    BY <1>1, <1>6 DEF CheckAllocator, Goto
  <2> QED BY <1>1, <2>1 DEF NamesFence, NoCall, CallRec
<1>7. CASE ReadKey(c)
  BY <1>1, <1>7 DEF ReadKey, Lookup, NoCall
<1>8. CASE Probe(c)
  <2>1. PICK h \in Slots : h = CalculateHash(call[c])
    BY <1>1, HashIsSlot
  <2>2. table \in [Slots -> SlotRec]
    BY DEF TypeOK, SlotRec
  <2>3. \/ call' = [call EXCEPT ![c] = NoCall]
        \/ /\ call[c].op = "CREATE" \/ call[c].fence # NoFence
           /\ \/ call' = [call EXCEPT ![c] = [call[c] EXCEPT !.pc = "setBit", !.hash = h]]
              \/ call' = [call EXCEPT ![c] = [call[c] EXCEPT !.pc = "clearBit", !.hash = h]]
        \/ call' = [call EXCEPT ![c] = [call[c] EXCEPT !.step = call[c].step + 1, !.hash = h]]
    BY <1>1, <1>8, <2>1, <2>2, ProbeCases
  <2>4. /\ call[c].fence # NoFence => call[c].fence \in Fences
        /\ call[c].op = "CREATE" => call[c].fence \in Fences
        /\ call[c].pc = "lookup"
    BY <1>1, <1>8 DEF NamesFence, CallRec, Probe
  <2>5. CASE call' = [call EXCEPT ![c] = NoCall]
    BY <1>1, <2>5 DEF NoCall
  <2>6. CASE /\ call[c].op = "CREATE" \/ call[c].fence # NoFence
             /\ \/ call' = [call EXCEPT ![c] = [call[c] EXCEPT !.pc = "setBit", !.hash = h]]
                \/ call' = [call EXCEPT ![c] = [call[c] EXCEPT !.pc = "clearBit", !.hash = h]]
    <3>1. call'[c].fence = call[c].fence
      BY <1>1, <2>6, ZenonT(30) DEF CallRec
    <3> QED BY <2>4, <2>6, <3>1
  <2>7. CASE call' = [call EXCEPT ![c] = [call[c] EXCEPT !.step = call[c].step + 1, !.hash = h]]
    <3>1. /\ call'[c].fence = call[c].fence /\ call'[c].op = call[c].op
          /\ call'[c].pc = call[c].pc
      BY <1>1, <2>7 DEF CallRec
    <3> QED BY <2>4, <3>1
  <2> QED BY <2>3, <2>5, <2>6, <2>7
<1> QED BY <1>3, <1>4, <1>5, <1>6, <1>7, <1>8 DEF Step

\* The type invariant of the table and of the calls; a slot that
\* _unreserve_hw_fence gave back is a cleared one.
THEOREM TypeCorrect == Spec => [](TypeOK /\ NamesFence)
<1>1. Init => TypeOK /\ NamesFence
  <2> SUFFICES ASSUME Init PROVE TypeOK /\ NamesFence
    OBVIOUS
  <2>1. call \in [Clients -> CallRec]
    BY NoCallType DEF Init
  <2>2. table \in [Slots -> SlotRec] /\ \A s \in Slots : ~table[s].valid => table[s] = FreeSlot
    BY FreeSlotType DEF Init
  <2>3. handle \in [Fences -> Slots]
    BY TableAssumption DEF Init, Slots
  <2>4. NamesFence
    BY DEF Init, NamesFence, NoCall
  <2> QED BY <2>1, <2>2, <2>3, <2>4 DEF Init, TypeOK, CallRec, SlotRec
<1>2. TypeOK /\ NamesFence /\ [Next]_vars => TypeOK' /\ NamesFence'
  <2> SUFFICES ASSUME TypeOK, NamesFence, NEW c \in Clients, Step(c) PROVE TypeOK' /\ NamesFence'
    BY DEF Next, vars, TypeOK, NamesFence
  <2>1. call \in [Clients -> CallRec] /\ call[c] \in CallRec
    BY DEF TypeOK, CallRec
  <2>2. call' \in [Clients -> CallRec]
    BY <2>1, StepCall
  <2>3. table' \in [Slots -> SlotRec] /\ \A s \in Slots : ~table'[s].valid => table'[s] = FreeSlot
    <3>1. table \in [Slots -> SlotRec] /\ \A s \in Slots : ~table[s].valid => table[s] = FreeSlot
      BY DEF TypeOK, SlotRec
    <3>2. CASE Probe(c)
      <4>1. PICK h \in Slots : h = CalculateHash(call[c])
        BY <2>1, HashIsSlot
      <4>2. [valid |-> TRUE, key |-> call[c].key, alloc |-> c] \in SlotRec
        BY <2>1 DEF CallRec, SlotRec
      <4>3. \/ table' = [table EXCEPT ![h] = [valid |-> TRUE, key |-> call[c].key, alloc |-> c]]
            \/ table' = [table EXCEPT ![h] = FreeSlot]
            \/ table' = table
        BY <2>1, <3>1, <3>2, <4>1, ProbeCases
      <4>4. table' \in [Slots -> SlotRec]
        BY <3>1, <4>2, <4>3, FreeSlotType
      <4>5. ASSUME NEW s \in Slots, ~table'[s].valid PROVE table'[s] = FreeSlot
        BY <3>1, <4>3, <4>5
      <4> QED BY <4>4, <4>5
    <3>3. CASE UNCHANGED table
      BY <3>1, <3>3
    <3> QED BY <3>2, <3>3 DEF Step, Create, Destroy, FindFence, DestroyWithHandle, SetEnabledBit,
      ClearEnabledBit, CheckAllocator, ReadKey
  <2>4. enabled' \subseteq Fences /\ handle' \in [Fences -> Slots]
    <3>1. enabled \subseteq Fences /\ handle \in [Fences -> Slots]
      BY DEF TypeOK
    <3>2. call[c].hash \in Slots /\ call[c].fence \in Fences \cup {NoFence} /\ 0 \in Slots
      BY <2>1, TableAssumption DEF CallRec, Slots
    <3>3. CASE SetEnabledBit(c)
      BY <3>1, <3>2, <3>3 DEF SetEnabledBit, HandleOf, NamesFence
    <3>4. CASE ClearEnabledBit(c)
      BY <3>1, <3>2, <3>4 DEF ClearEnabledBit
    <3>5. CASE UNCHANGED <<enabled, handle>>
      BY <3>1, <3>5
    <3> QED BY <3>3, <3>4, <3>5 DEF Step, Create, Destroy, FindFence, DestroyWithHandle,
      CheckAllocator, ReadKey, Probe
  <2> QED BY <2>2, <2>3, <2>4, NamesFenceStep DEF TypeOK, CallRec, SlotRec
<1> QED BY <1>1, <1>2, PTL DEF Spec

-----------------------------------------------------------------------------
(* The inductive invariant *)

\* A call works on a fence of its client: the flag tells whether the fence may be
\* in the table, and a slot the client allocated stays as it is during the call.
CallKnown(c) ==
    LET cl == call[c]
    IN  /\ cl.pc = "idle" => cl = NoCall
        /\ cl.pc = "setBit" => cl.op = "CREATE"
        /\ cl.pc = "clearBit" => cl.op = "DESTROY"
        /\ cl.op = "CREATE" => /\ cl.key = Key[cl.fence] /\ Owner[cl.fence] = c
                              /\ cl.fence \notin enabled
        /\ cl.op = "DESTROY" => \E f \in Fences : Key[f] = cl.key /\ Owner[f] = c
        /\ cl.op = "DESTROY" /\ cl.fence # NoFence =>
                /\ cl.key = Key[cl.fence] /\ Owner[cl.fence] = c
                /\ cl.fence \in enabled
        /\ cl.pc = "readKey" => table[cl.hash].alloc = c

CallsKnown == \A c \in Clients : CallKnown(c)

\* A slot in use holds a fence and the client it belongs to.
SlotsKnown ==
    \A s \in Slots : table[s].valid =>
        \E f \in Fences : table[s].key = Key[f] /\ table[s].alloc = Owner[f]

\* A fence is only in the slot that its handle names or, while its creation ends, in
\* the slot that was reserved; and it is not there any more when its flag is cleared.
Placed ==
    \A s \in Slots, f \in Fences : Holds(s, Key[f]) =>
        LET cl == call[Owner[f]]
        IN  /\ s = IF f \in enabled THEN handle[f] ELSE cl.hash
            /\ f \notin enabled => cl.pc = "setBit" /\ cl.fence = f
            /\ ~(cl.pc = "clearBit" /\ cl.fence = f)

TableInv == CallsKnown /\ SlotsKnown /\ Placed

-----------------------------------------------------------------------------
LEMMA KeyTypes ==
  /\ \A f \in Fences : Key[f] \in Keys /\ Owner[f] \in Clients
  /\ Zero \notin Keys /\ Nobody \notin Clients /\ NoFence \notin Fences
BY TableAssumption

\* Only a probe writes the table, and only the end of a creation or of a destruction
\* writes the flag and the handle of a fence.
LEMMA OnlyProbe ==
  ASSUME NEW c \in Clients, Step(c), ~Probe(c)
  PROVE  table' = table
BY DEF Step, Create, Destroy, FindFence, DestroyWithHandle, SetEnabledBit,
       ClearEnabledBit, CheckAllocator, ReadKey

LEMMA OnlyEnds ==
  ASSUME NEW c \in Clients, Step(c), ~SetEnabledBit(c), ~ClearEnabledBit(c)
  PROVE  enabled' = enabled /\ handle' = handle
BY DEF Step, Create, Destroy, FindFence, DestroyWithHandle, CheckAllocator, ReadKey, Probe

\* The flag is written for fences of the calling client only.
LEMMA OwnFlags ==
  ASSUME TypeOK, NamesFence, CallsKnown, NEW c \in Clients, Step(c),
         NEW f \in Fences, Owner[f] # c
  PROVE  (f \in enabled' <=> f \in enabled) /\ handle'[f] = handle[f]
<1>1. CASE SetEnabledBit(c)
  <2>1. Owner[call[c].fence] = c /\ call[c].fence \in Fences
    BY <1>1 DEF SetEnabledBit, CallsKnown, CallKnown, NamesFence
  <2> QED BY <1>1, <2>1 DEF SetEnabledBit, TypeOK
<1>2. CASE ClearEnabledBit(c)
  <2>1. Owner[call[c].fence] = c /\ call[c].fence \in Fences
    BY <1>2, KeyTypes DEF ClearEnabledBit, CallsKnown, CallKnown, NamesFence
  <2> QED BY <1>2, <2>1 DEF ClearEnabledBit, TypeOK
<1> QED BY <1>1, <1>2, OnlyEnds

\* What a destroying probe finds is in use, and is a fence of the prober.
LEMMA FoundIsHeld ==
  ASSUME TypeOK, CallsKnown, NEW c \in Clients, NEW h \in Slots,
         call[c].op = "DESTROY", table[h].key = call[c].key
  PROVE  \E f \in Fences : Owner[f] = c /\ Key[f] = call[c].key /\ Holds(h, Key[f])
<1>1. PICK f \in Fences : Key[f] = call[c].key /\ Owner[f] = c
  BY DEF CallsKnown, CallKnown
<1>2. table[h].valid
  BY <1>1, KeyTypes DEF TypeOK, FreeSlot
<1> QED BY <1>1, <1>2 DEF Holds

\* No other client touches a slot that a client allocated.
LEMMA OwnSlots ==
  ASSUME DmaFencesUnique, TypeOK, CallsKnown, SlotsKnown,
         NEW c \in Clients, Step(c), NEW d \in Clients \ {c},
         NEW s \in Slots, table[s].alloc = d
  PROVE  table'[s] = table[s]
<1>1. table[s].valid
  BY KeyTypes DEF TypeOK, FreeSlot
<1>2. CASE ~Probe(c)
  BY <1>2, OnlyProbe
<1>3. CASE Probe(c)
  <2>1. call \in [Clients -> CallRec] /\ table \in [Slots -> SlotRec] /\ call[c] \in CallRec
    BY DEF TypeOK, CallRec, SlotRec
  <2>2. PICK h \in Slots : h = CalculateHash(call[c])
    BY <2>1, HashIsSlot
  <2>3. \/ ~table[h].valid /\ table' = [table EXCEPT ![h] = [valid |-> TRUE, key |-> call[c].key, alloc |-> c]]
        \/ /\ call[c].op = "DESTROY" /\ table[h].key = call[c].key
           /\ table' = [table EXCEPT ![h] = FreeSlot]
        \/ table' = table
    BY <1>3, <2>1, <2>2, ProbeCases
  <2>4. CASE call[c].op = "DESTROY" /\ table[h].key = call[c].key /\ h = s
    <3>1. PICK f \in Fences : Owner[f] = c /\ Key[f] = call[c].key
      BY <2>4, FoundIsHeld
    <3>2. PICK g \in Fences : table[s].key = Key[g] /\ table[s].alloc = Owner[g]
      BY <1>1 DEF SlotsKnown
    <3> QED BY <2>4, <3>1, <3>2 DEF DmaFencesUnique
  <2> QED BY <1>1, <2>1, <2>3, <2>4
<1> QED BY <1>2, <1>3

LEMMA CallsKnownStep ==
  ASSUME DmaFencesUnique, TypeOK, NamesFence, CallsKnown, SlotsKnown, NEW c \in Clients, Step(c)
  PROVE  CallsKnown'
<1>1. call \in [Clients -> CallRec] /\ call[c] \in CallRec /\ table \in [Slots -> SlotRec]
  BY DEF TypeOK, CallRec, SlotRec
<1>2. CallKnown(c)
  BY DEF CallsKnown
<1>3. ASSUME NEW d \in Clients \ {c} PROVE CallKnown(d)'
  <2>1. call'[d] = call[d] /\ CallKnown(d)
    BY OtherCalls DEF CallsKnown
  <2>2. call[d].fence \in Fences \cup {NoFence} /\ call[d].hash \in Slots
    BY <1>1 DEF CallRec
  <2>3. call[d].op = "CREATE" => call[d].fence \in Fences
    BY DEF NamesFence
  <2>4. call[d].fence \in Fences /\ Owner[call[d].fence] = d
        => (call[d].fence \in enabled' <=> call[d].fence \in enabled)
    BY OwnFlags
  <2>5. call[d].pc = "readKey" => table'[call[d].hash] = table[call[d].hash]
    BY <2>1, <2>2, OwnSlots DEF CallKnown
  <2> QED BY <2>1, <2>2, <2>3, <2>4, <2>5 DEF CallKnown
<1>4. ASSUME NEW f \in Fences, NEW op \in {"CREATE", "DESTROY", "FIND_FENCE"},
             call' = [call EXCEPT ![c] = Lookup(op, f, Key[f])],
             op = "CREATE" => Owner[f] = c /\ f \notin enabled,
             op = "DESTROY" => Owner[f] = c /\ f \in enabled,
             enabled' = enabled
      PROVE  CallKnown(c)'
  <2>1. /\ call'[c].pc = "lookup" /\ call'[c].op = op
        /\ call'[c].fence = f /\ call'[c].key = Key[f]
    BY <1>1, <1>4 DEF Lookup, NoCall
  <2> QED BY <1>4, <2>1 DEF CallKnown
<1>5. ASSUME NEW f \in Fences, Create(c, f) \/ Destroy(c, f) \/ FindFence(c, f)
      PROVE  CallKnown(c)'
  BY <1>4, <1>5 DEF Create, NotYetHwFence, Destroy, FindFence
<1>6. ASSUME call' = [call EXCEPT ![c] = NoCall] PROVE CallKnown(c)'
  BY <1>1, <1>6 DEF NoCall, CallKnown
<1>7. ASSUME NEW h \in Slots, DestroyWithHandle(c, h) PROVE CallKnown(c)'
  <2>1. call'[c].pc = "checkAllocator" /\ call'[c].op = "FIND_FENCE"
    BY <1>1, <1>7 DEF DestroyWithHandle, NoCall
  <2> QED BY <2>1 DEF CallKnown
<1>8. ASSUME SetEnabledBit(c) \/ ClearEnabledBit(c) PROVE CallKnown(c)'
  BY <1>6, <1>8 DEF SetEnabledBit, ClearEnabledBit
<1>9. ASSUME CheckAllocator(c) PROVE CallKnown(c)'
  <2>1. CASE ~AllocatedBy(table[call[c].hash], c)
    BY <1>6, <1>9, <2>1 DEF CheckAllocator, Goto
  <2>2. CASE AllocatedBy(table[call[c].hash], c)
    <3>1. /\ call' = [call EXCEPT ![c] = [call[c] EXCEPT !.pc = "readKey"]]
          /\ table' = table /\ enabled' = enabled
      BY <1>9, <2>2 DEF CheckAllocator, Goto
    <3>2. /\ call'[c].pc = "readKey" /\ call'[c].op = call[c].op /\ call'[c].key = call[c].key
          /\ call'[c].fence = call[c].fence /\ call'[c].hash = call[c].hash
      BY <1>1, <3>1 DEF CallRec
    <3> QED BY <1>2, <2>2, <3>1, <3>2 DEF AllocatedBy, CallKnown
  <2> QED BY <2>1, <2>2
<1>10. ASSUME ReadKey(c) PROVE CallKnown(c)'
  <2>1. /\ call'[c].pc = "lookup" /\ call'[c].op = "DESTROY" /\ call'[c].fence = NoFence
        /\ call'[c].key = table[call[c].hash].key
    BY <1>1, <1>10 DEF ReadKey, Lookup, NoCall
  <2>2. call[c].hash \in Slots /\ table[call[c].hash].alloc = c
    BY <1>1, <1>2, <1>10 DEF ReadKey, CallRec, CallKnown
  <2>3. table[call[c].hash].valid
    BY <2>2, KeyTypes DEF TypeOK, FreeSlot
  <2>4. \E f \in Fences : Key[f] = call'[c].key /\ Owner[f] = c
    BY <2>1, <2>2, <2>3 DEF SlotsKnown
  <2> QED BY <2>1, <2>4 DEF CallKnown
<1>11. ASSUME Probe(c) PROVE CallKnown(c)'
  <2>1. PICK h \in Slots : h = CalculateHash(call[c])
    BY <1>1, HashIsSlot
  <2>2. enabled' = enabled /\ call[c].pc = "lookup"
    BY <1>11 DEF Probe
  <2>3. ASSUME NEW r, call' = [call EXCEPT ![c] = r], r.op = call[c].op, r.key = call[c].key,
               r.fence = call[c].fence, r.pc \in {"lookup", "setBit", "clearBit"},
               r.pc = "setBit" => r.op = "CREATE", r.pc = "clearBit" => r.op = "DESTROY"
        PROVE  CallKnown(c)'
    <3>1. call'[c] = r
      BY <1>1, <2>3
    <3> QED BY <1>2, <2>2, <2>3, <3>1 DEF CallKnown
  <2>4. ASSUME NEW p \in {"setBit", "clearBit"}, p = "setBit" => call[c].op = "CREATE",
               p = "clearBit" => call[c].op = "DESTROY",
               call' = [call EXCEPT ![c] = [call[c] EXCEPT !.pc = p, !.hash = h]]
        PROVE  CallKnown(c)'
    <3> DEFINE r == [call[c] EXCEPT !.pc = p, !.hash = h]
    <3>1. /\ r.op = call[c].op /\ r.key = call[c].key /\ r.fence = call[c].fence /\ r.pc = p
      BY <1>1 DEF CallRec
    <3> HIDE DEF r
    <3> QED BY <2>3, <2>4, <3>1 DEF r
  <2>5. ASSUME call' = [call EXCEPT ![c] = [call[c] EXCEPT !.step = call[c].step + 1, !.hash = h]]
        PROVE  CallKnown(c)'
    <3> DEFINE r == [call[c] EXCEPT !.step = call[c].step + 1, !.hash = h]
    <3>1. /\ r.op = call[c].op /\ r.key = call[c].key /\ r.fence = call[c].fence
          /\ r.pc = call[c].pc
      BY <1>1 DEF CallRec
    <3>2. call' = [call EXCEPT ![c] = r]
      BY <2>5
    <3> HIDE DEF r
    <3> QED BY <2>2, <2>3, <3>1, <3>2
  <2> QED BY <1>1, <1>6, <1>11, <2>1, <2>4, <2>5, ProbeCases
<1>12. CallKnown(c)'
  BY <1>5, <1>7, <1>8, <1>9, <1>10, <1>11 DEF Step
<1> QED BY <1>3, <1>12 DEF CallsKnown

LEMMA SlotsKnownStep ==
  ASSUME TypeOK, NamesFence, CallsKnown, SlotsKnown, NEW c \in Clients, Step(c)
  PROVE  SlotsKnown'
<1>1. call \in [Clients -> CallRec] /\ call[c] \in CallRec /\ table \in [Slots -> SlotRec]
  BY DEF TypeOK, CallRec, SlotRec
<1>2. CASE ~Probe(c)
  BY <1>2, OnlyProbe DEF SlotsKnown
<1>3. CASE Probe(c)
  <2>1. PICK h \in Slots : h = CalculateHash(call[c])
    BY <1>1, HashIsSlot
  <2> DEFINE slot == [valid |-> TRUE, key |-> call[c].key, alloc |-> c]
  <2>2. \/ call[c].op = "CREATE" /\ table' = [table EXCEPT ![h] = slot]
        \/ table' = [table EXCEPT ![h] = FreeSlot]
        \/ table' = table
    BY <1>1, <1>3, <2>1, ProbeCases
  <2>3. call[c].op = "CREATE" =>
          call[c].fence \in Fences /\ slot.key = Key[call[c].fence] /\ slot.alloc = Owner[call[c].fence]
    BY DEF CallsKnown, CallKnown, NamesFence
  <2>4. ~FreeSlot.valid
    BY DEF FreeSlot
  <2> HIDE DEF slot
  <2> QED BY <1>1, <2>2, <2>3, <2>4 DEF SlotsKnown
<1> QED BY <1>2, <1>3

LEMMA PlacedStep ==
  ASSUME DmaFencesUnique, TypeOK, NamesFence, TableInv, NEW c \in Clients, Step(c)
  PROVE  Placed'
<1> DEFINE In(s, f) == Holds(s, Key[f])
           PlacedIn(s, f) ==
             LET cl == call[Owner[f]]
             IN  /\ s = IF f \in enabled THEN handle[f] ELSE cl.hash
                 /\ f \notin enabled => cl.pc = "setBit" /\ cl.fence = f
                 /\ ~(cl.pc = "clearBit" /\ cl.fence = f)
<1>1. call \in [Clients -> CallRec] /\ call[c] \in CallRec /\ table \in [Slots -> SlotRec]
  BY DEF TypeOK, CallRec, SlotRec
<1>2. CallKnown(c) /\ (\A s \in Slots, f \in Fences : In(s, f) => PlacedIn(s, f))
  BY DEF TableInv, CallsKnown, Placed
<1> SUFFICES ASSUME NEW s \in Slots, NEW f \in Fences, In(s, f)' PROVE PlacedIn(s, f)'
  BY DEF Placed
<1>3. ASSUME Owner[f] # c, In(s, f) PROVE PlacedIn(s, f)'
  <2>1. call'[Owner[f]] = call[Owner[f]]
    BY <1>3, OtherCalls, KeyTypes
  <2>2. (f \in enabled' <=> f \in enabled) /\ handle'[f] = handle[f]
    BY <1>3, OwnFlags DEF TableInv
  <2>3. PlacedIn(s, f)
    BY <1>2, <1>3
  <2> QED BY <2>1, <2>2, <2>3
<1>4. ASSUME Owner[f] = c, PlacedIn(s, f), f \in enabled,
             f \in enabled', handle'[f] = handle[f], call'[c].pc # "clearBit" \/ call'[c].fence # f
      PROVE  PlacedIn(s, f)'
  BY <1>4
<1>5. ASSUME ~Probe(c), Owner[f] = c PROVE PlacedIn(s, f)'
  <2>1. In(s, f) /\ PlacedIn(s, f)
    BY <1>2, <1>5, OnlyProbe DEF Holds
  <2>2. ASSUME NEW g \in Fences, Create(c, g) \/ Destroy(c, g) \/ FindFence(c, g)
        PROVE  PlacedIn(s, f)'
    <3>1. /\ call[c].pc = "idle" /\ enabled' = enabled /\ handle' = handle
          /\ call'[c].pc = "lookup"
      BY <1>1, <2>2 DEF Create, Destroy, FindFence, Lookup, NoCall
    <3> QED BY <1>4, <1>5, <2>1, <3>1
  <2>3. ASSUME NEW h \in Slots, DestroyWithHandle(c, h) PROVE PlacedIn(s, f)'
    <3>1. /\ call[c].pc = "idle" /\ enabled' = enabled /\ handle' = handle
          /\ call'[c].pc = "checkAllocator"
      BY <1>1, <2>3 DEF DestroyWithHandle, NoCall
    <3> QED BY <1>4, <1>5, <2>1, <3>1
  <2>4. ASSUME CheckAllocator(c) \/ ReadKey(c) PROVE PlacedIn(s, f)'
    <3>1. /\ call[c].pc \in {"checkAllocator", "readKey"} /\ enabled' = enabled /\ handle' = handle
      BY <2>4 DEF CheckAllocator, ReadKey
    <3>2. CASE CheckAllocator(c)
      <4>1. call'[c] = NoCall \/ call'[c] = [call[c] EXCEPT !.pc = "readKey"]
        BY <1>1, <3>2 DEF CheckAllocator, Goto
      <4>2. call'[c].pc # "clearBit"
        BY <1>1, <4>1 DEF NoCall, CallRec
      <4> QED BY <1>4, <1>5, <2>1, <3>1, <4>2
    <3>3. CASE ReadKey(c)
      <4>1. call'[c].pc = "lookup"
        BY <1>1, <3>3 DEF ReadKey, Lookup, NoCall
      <4> QED BY <1>4, <1>5, <2>1, <3>1, <4>1
    <3> QED BY <2>4, <3>2, <3>3
  <2>5. ASSUME SetEnabledBit(c) PROVE PlacedIn(s, f)'
    <3>1. /\ call[c].pc = "setBit" /\ enabled' = enabled \cup {call[c].fence}
          /\ handle' = [handle EXCEPT ![call[c].fence] = call[c].hash]
          /\ call'[c].pc = "idle" /\ call[c].fence \notin enabled
      BY <1>1, <1>2, <2>5 DEF SetEnabledBit, HandleOf, NoCall, CallKnown
    <3>2. handle \in [Fences -> Slots]
      BY DEF TypeOK
    <3> QED BY <1>5, <2>1, <3>1, <3>2
  <2>6. ASSUME ClearEnabledBit(c) PROVE PlacedIn(s, f)'
    <3>1. /\ call[c].pc = "clearBit" /\ enabled' = enabled \ {call[c].fence}
          /\ handle' = [handle EXCEPT ![call[c].fence] = 0]
          /\ call'[c].pc = "idle"
      BY <1>1, <2>6 DEF ClearEnabledBit, NoCall
    <3>2. handle \in [Fences -> Slots]
      BY DEF TypeOK
    <3> QED BY <1>5, <2>1, <3>1, <3>2
  <2> QED BY <1>5, <2>2, <2>3, <2>4, <2>5, <2>6 DEF Step
<1>6. ASSUME Probe(c) PROVE PlacedIn(s, f)'
  <2>1. PICK h \in Slots : h = CalculateHash(call[c])
    BY <1>1, HashIsSlot
  <2>2. call[c].pc = "lookup" /\ enabled' = enabled /\ handle' = handle
    BY <1>6 DEF Probe
  <2>3. ASSUME call[c].op = "CREATE",
               table' = [table EXCEPT ![h] = [valid |-> TRUE, key |-> call[c].key, alloc |-> c]],
               call' = [call EXCEPT ![c] = [call[c] EXCEPT !.pc = "setBit", !.hash = h]]
        PROVE  PlacedIn(s, f)'
    <3>1. /\ call'[c].pc = "setBit" /\ call'[c].hash = h /\ call'[c].fence = call[c].fence
      BY <1>1, <2>3 DEF CallRec
    <3>2. /\ call[c].key = Key[call[c].fence] /\ Owner[call[c].fence] = c
          /\ call[c].fence \in Fences /\ call[c].fence \notin enabled
      BY <1>2, <2>3 DEF CallKnown, NamesFence
    <3>3. CASE s = h
      <4>1. Key[f] = Key[call[c].fence]
        BY <1>1, <2>3, <3>2, <3>3 DEF Holds
      <4>2. f = call[c].fence
        BY <3>2, <4>1 DEF DmaFencesUnique
      <4> QED BY <2>2, <3>1, <3>2, <3>3, <4>2
    <3>4. CASE s # h
      <4>1. In(s, f) /\ PlacedIn(s, f)
        BY <1>1, <1>2, <2>3, <3>4 DEF Holds
      <4> QED BY <1>3, <1>4, <2>2, <3>1, <4>1
    <3> QED BY <3>3, <3>4
  <2>4. ASSUME call[c].op = "DESTROY", table[h].key = call[c].key,
               table' = [table EXCEPT ![h] = FreeSlot],
               \/ call' = [call EXCEPT ![c] = NoCall]
               \/ /\ call[c].fence # NoFence
                  /\ call' = [call EXCEPT ![c] = [call[c] EXCEPT !.pc = "clearBit", !.hash = h]]
        PROVE  PlacedIn(s, f)'
    <3>1. s # h
      BY <1>1, <2>4 DEF Holds, FreeSlot
    <3>2. In(s, f) /\ PlacedIn(s, f)
      BY <1>1, <1>2, <2>4, <3>1 DEF Holds
    <3>3. CASE Owner[f] = c /\ call[c].fence = f
      <4>1. call[c].key = Key[f] /\ f \in enabled
        BY <1>2, <2>4, <3>3, KeyTypes DEF CallKnown
      <4>2. In(h, f)
        BY <2>4, <4>1, KeyTypes DEF Holds, TypeOK, FreeSlot
      <4>3. h = handle[f] /\ s = handle[f]
        BY <1>2, <3>2, <4>1, <4>2
      <4> QED BY <3>1, <4>3
    <3>4. CASE Owner[f] = c /\ call[c].fence # f
      <4>1. call'[c].pc # "clearBit" \/ call'[c].fence # f
        <5>1. CASE call' = [call EXCEPT ![c] = NoCall]
          BY <1>1, <5>1 DEF NoCall
        <5>2. CASE call' = [call EXCEPT ![c] = [call[c] EXCEPT !.pc = "clearBit", !.hash = h]]
          BY <1>1, <3>4, <5>2 DEF CallRec
        <5> QED BY <2>4, <5>1, <5>2
      <4> QED BY <1>4, <2>2, <3>2, <3>4, <4>1
    <3> QED BY <1>3, <3>2, <3>3, <3>4
  <2>5. ASSUME table' = table, call'[c].pc # "clearBit" PROVE PlacedIn(s, f)'
    <3>1. In(s, f) /\ PlacedIn(s, f)
      BY <1>2, <2>5 DEF Holds
    <3> QED BY <1>3, <1>4, <2>2, <2>5, <3>1
  <2>6. ASSUME call' = [call EXCEPT ![c] = NoCall] PROVE call'[c].pc # "clearBit"
    BY <1>1, <2>6 DEF NoCall
  <2>7. ASSUME call' = [call EXCEPT ![c] = [call[c] EXCEPT !.step = call[c].step + 1, !.hash = h]]
        PROVE  call'[c].pc # "clearBit"
    BY <1>1, <2>2, <2>7 DEF CallRec
  <2> HIDE DEF PlacedIn
  <2> QED BY <1>1, <1>6, <2>1, <2>3, <2>4, <2>5, <2>6, <2>7, ProbeCases, ZenonT(30)
<1> QED BY <1>3, <1>5, <1>6, OnlyProbe DEF Holds

\* Who may be in the table, where, and whose it is, for any interleaving of the probes of
\* all clients: the inductive invariant.
THEOREM TableInvariant == DmaFencesUnique => (Spec => []TableInv)
<1> SUFFICES ASSUME DmaFencesUnique PROVE Spec => []TableInv
  OBVIOUS
<1>1. Init => TableInv
  <2> SUFFICES ASSUME Init PROVE TableInv
    OBVIOUS
  <2>1. CallsKnown
    BY DEF Init, CallsKnown, CallKnown, NoCall
  <2>2. \A s \in Slots : ~table[s].valid
    BY DEF Init, FreeSlot
  <2> QED BY <2>1, <2>2 DEF TableInv, SlotsKnown, Placed, Holds
<1>2. TypeOK /\ NamesFence /\ TableInv /\ [Next]_vars => TableInv'
  <2> SUFFICES ASSUME TypeOK, NamesFence, TableInv, [Next]_vars PROVE TableInv'
    OBVIOUS
  <2>1. CASE UNCHANGED vars
    BY <2>1 DEF vars, TableInv, CallsKnown, CallKnown, SlotsKnown, Placed, Holds
  <2>2. ASSUME NEW c \in Clients, Step(c) PROVE TableInv'
    BY <2>2, CallsKnownStep, SlotsKnownStep, PlacedStep DEF TableInv
  <2> QED BY <2>1, <2>2 DEF Next
<1> QED BY <1>1, <1>2, TypeCorrect, PTL DEF Spec

\* Of pairs that differ, as DmaFencesUnique says, none is in two slots: the registry has one
\* creator for each.
UniqueKeys ==
    /\ TypeOK
    /\ \A s, t \in Slots, k \in Keys : Holds(s, k) /\ Holds(t, k) => s = t

LEMMA Unique == DmaFencesUnique => (Spec => []UniqueKeys)
<1>1. TypeOK /\ TableInv => UniqueKeys
  <2> SUFFICES ASSUME TypeOK, TableInv, NEW s \in Slots, NEW t \in Slots, NEW k \in Keys,
                      Holds(s, k), Holds(t, k)
               PROVE  s = t
    BY DEF UniqueKeys
  <2>1. PICK f \in Fences : k = Key[f]
    BY DEF TableInv, SlotsKnown, Holds
  <2> QED BY <2>1 DEF TableInv, Placed
<1> QED BY <1>1, TypeCorrect, TableInvariant, PTL

\* The handle that msm_hw_fence_create returned names its fence for as long as the
\* fence is in the table.
THEOREM HandleStays == DmaFencesUnique => (Spec => []HandleNamesFence)
<1>1. TypeOK /\ TableInv => HandleNamesFence
  <2> SUFFICES ASSUME TypeOK, TableInv, NEW f \in enabled, NEW s \in Slots, Holds(s, Key[f])
               PROVE  s = handle[f]
    BY DEF HandleNamesFence
  <2>1. f \in Fences
    BY DEF TypeOK
  <2> QED BY <2>1 DEF TableInv, Placed
<1> QED BY <1>1, TypeCorrect, TableInvariant, PTL

-----------------------------------------------------------------------------
(* Refinement: the probed table implements the registry. *)

Calling == [c \in Clients |-> call[c] # NoCall]
Creators == [k \in Keys |-> Creator(k)]

LEMMA CreatorIs ==
  ASSUME UniqueKeys, NEW k \in Keys, NEW s \in Slots, Holds(s, k)
  PROVE  Creator(k) = table[s].alloc
<1>1. (CHOOSE t \in Slots : Holds(t, k)) = s
  BY DEF UniqueKeys
<1> QED BY <1>1 DEF Creator

LEMMA CreatorIsNext ==
  ASSUME UniqueKeys', NEW k \in Keys, NEW s \in Slots, Holds(s, k)'
  PROVE  Creator(k)' = table'[s].alloc
<1>1. (CHOOSE t \in Slots : Holds(t, k)') = s
  BY DEF UniqueKeys
<1> QED BY <1>1 DEF Creator

\* The creator of a key does not depend on what happens in the slots of other keys.
LEMMA CreatorKept ==
  ASSUME UniqueKeys, UniqueKeys', NEW k \in Keys,
         \A s \in Slots : Holds(s, k)' <=> Holds(s, k),
         \A s \in Slots : Holds(s, k) => table'[s].alloc = table[s].alloc
  PROVE  Creator(k)' = Creator(k)
<1>1. CASE \E s \in Slots : Holds(s, k)
  <2>1. PICK s \in Slots : Holds(s, k) /\ Holds(s, k)'
    BY <1>1
  <2> QED BY <2>1, CreatorIs, CreatorIsNext
<1>2. CASE ~\E s \in Slots : Holds(s, k)
  BY <1>2 DEF Creator
<1> QED BY <1>1, <1>2

\* A change of one slot is a change of the registry at one key.
LEMMA OneCreatorChanges ==
  ASSUME UniqueKeys, UniqueKeys', NEW k \in Keys, NEW x, Creator(k)' = x,
         \A j \in Keys \ {k}, s \in Slots :
            /\ Holds(s, j)' <=> Holds(s, j)
            /\ Holds(s, j) => table'[s].alloc = table[s].alloc
  PROVE  Creators' = [Creators EXCEPT ![k] = x]
<1>1. \A j \in Keys \ {k} : Creator(j)' = Creator(j)
  BY CreatorKept
<1> QED BY <1>1 DEF Creators

\* Each step is part of the call of one client.
LEMMA OneCallChanges ==
  ASSUME TypeOK, NEW c \in Clients, Step(c)
  PROVE  Calling' = [Calling EXCEPT ![c] = (call'[c] # NoCall)]
<1>1. \A d \in Clients \ {c} : call'[d] = call[d]
  BY OtherCalls
<1>2. \A d \in Clients : (call'[d] # NoCall) = (IF d = c THEN call'[c] # NoCall ELSE call[d] # NoCall)
  BY <1>1
<1> QED BY <1>2, Zenon DEF Calling

\* Every step enters a call, goes on with it, or takes its effect.
LEMMA StepRefines ==
  ASSUME DmaFencesUnique, TypeOK, NamesFence, TableInv, UniqueKeys, UniqueKeys',
         NEW c \in Clients, Step(c)
  PROVE  \/ Registry!Enter(c) \/ Registry!Leave(c)
         \/ \E k \in Keys : Registry!Create(k, c) \/ Registry!Destroy(k, c)
<1> USE DEF Calling, Creators
<1>1. call \in [Clients -> CallRec] /\ call[c] \in CallRec /\ table \in [Slots -> SlotRec]
  BY DEF TypeOK, CallRec, SlotRec
<1>2. Calling' = [Calling EXCEPT ![c] = (call'[c] # NoCall)] /\ (call'[c] # NoCall) \in BOOLEAN
  BY OneCallChanges
<1>3. ASSUME call[c] # NoCall PROVE Registry!Goes(c)
  <2> USE DEF Calling
  <2>1. Calling[c]
    BY <1>3
  <2>2. \E more \in BOOLEAN : Calling' = [Calling EXCEPT ![c] = more]
    BY <1>2
  <2> QED BY <2>1, <2>2 DEF Registry!Goes
<1>4. ASSUME table' = table PROVE Creators' = Creators
  <2>1. \A k \in Keys : Creator(k)' = Creator(k)
    BY <1>4, CreatorKept DEF Holds
  <2> QED BY <2>1
<1>5. CASE call[c].pc = "idle" /\ ~Probe(c)
  <2>1. call[c] = NoCall /\ ~Calling[c]
    BY <1>5 DEF TableInv, CallsKnown, CallKnown
  <2>2. call'[c].pc \in {"lookup", "checkAllocator"}
    BY <1>1, <1>5, ZenonT(30) DEF Step, Create, Destroy, FindFence, DestroyWithHandle, SetEnabledBit,
      ClearEnabledBit, CheckAllocator, ReadKey, Lookup, NoCall
  <2>3. call'[c] # NoCall
    BY <2>2 DEF NoCall
  <2>4. Calling' = [Calling EXCEPT ![c] = TRUE]
    BY <1>2, <2>3
  <2>5. Creators' = Creators
    BY <1>4, <1>5, OnlyProbe
  <2> QED BY <2>1, <2>4, <2>5 DEF Registry!Enter
<1>6. ASSUME call[c].pc # "idle" PROVE call[c] # NoCall
  BY <1>6 DEF NoCall
<1>7. CASE call[c].pc # "idle" /\ table' = table
  BY <1>3, <1>4, <1>6, <1>7 DEF Registry!Leave
<1>8. CASE Probe(c) /\ table' # table
  <2>1. PICK h \in Slots : h = CalculateHash(call[c])
    BY <1>1, HashIsSlot
  <2>2. Registry!Goes(c)
    BY <1>3, <1>6, <1>8 DEF Probe
  <2>k. PICK k \in Keys \cup {Zero} : k = call[c].key
    BY <1>1 DEF CallRec
  <2>3. ASSUME call[c].op = "CREATE", ~table[h].valid,
               table' = [table EXCEPT ![h] = [valid |-> TRUE, key |-> k, alloc |-> c]]
        PROVE  k \in Keys /\ Registry!Create(k, c)
    <3>1. call[c].pc = "lookup"
      BY <1>8 DEF Probe
    <3>2. PICK f \in Fences : Key[f] = k /\ Owner[f] = c /\ f \notin enabled
      BY <2>k, <2>3 DEF TableInv, CallsKnown, CallKnown, NamesFence
    <3>3. k \in Keys /\ \A s \in Slots : ~Holds(s, k)
      BY <2>3, <3>1, <3>2, <2>k, KeyTypes DEF TableInv, Placed, CallsKnown, CallKnown, NamesFence, DmaFencesUnique
    <3>4. Creator(k) = Nobody
      BY <3>3 DEF Creator
    <3>5. Holds(h, k)' /\ table'[h].alloc = c
      BY <1>1, <2>3 DEF Holds
    <3>6. Creator(k)' = c
      BY <3>3, <3>5, CreatorIsNext
    <3>7. \A j \in Keys \ {k}, s \in Slots :
            /\ Holds(s, j)' <=> Holds(s, j)
            /\ Holds(s, j) => table'[s].alloc = table[s].alloc
      BY <1>1, <2>3 DEF Holds
    <3>8. Creators' = [Creators EXCEPT ![k] = c]
      BY <3>3, <3>6, <3>7, OneCreatorChanges
    <3> QED BY <2>2, <3>3, <3>4, <3>8 DEF Registry!Create
  <2>4. ASSUME call[c].op = "DESTROY", table[h].key = k,
               table' = [table EXCEPT ![h] = FreeSlot]
        PROVE  k \in Keys /\ Registry!Destroy(k, c)
    <3>1. PICK f \in Fences : Owner[f] = c /\ Key[f] = k /\ Holds(h, Key[f])
      BY <2>k, <2>4, FoundIsHeld DEF TableInv
    <3>2. k \in Keys /\ Holds(h, k) /\ table[h].alloc = c
      <4>1. PICK g \in Fences : table[h].key = Key[g] /\ table[h].alloc = Owner[g]
        BY <3>1 DEF TableInv, SlotsKnown, Holds
      <4> QED BY <2>4, <3>1, <4>1, KeyTypes DEF DmaFencesUnique
    <3>3. Creator(k) = c
      BY <3>2, CreatorIs
    <3>4. \A s \in Slots : ~Holds(s, k)'
      BY <1>1, <2>4, <3>2 DEF Holds, FreeSlot, UniqueKeys
    <3>5. Creator(k)' = Nobody
      BY <3>4 DEF Creator
    <3>6. \A j \in Keys \ {k}, s \in Slots :
            /\ Holds(s, j)' <=> Holds(s, j)
            /\ Holds(s, j) => table'[s].alloc = table[s].alloc
      BY <1>1, <2>4 DEF Holds, FreeSlot
    <3>7. Creators' = [Creators EXCEPT ![k] = Nobody]
      BY <3>2, <3>5, <3>6, OneCreatorChanges
    <3> QED BY <2>2, <3>2, <3>3, <3>7 DEF Registry!Destroy
  <2> QED BY <1>1, <1>8, <2>1, <2>k, <2>3, <2>4, ProbeCases
<1> QED BY <1>5, <1>7, <1>8, OnlyProbe DEF Probe

\* The table implements the registry (FenceRegistry), whatever other clients do between the
\* probes of a call.
THEOREM Refinement == DmaFencesUnique => (Spec => ImplementsRegistry)
<1> SUFFICES ASSUME DmaFencesUnique PROVE Spec => ImplementsRegistry
  OBVIOUS
<1>1. Init => Registry!Init
  <2> SUFFICES ASSUME Init PROVE Registry!Init
    OBVIOUS
  <2>1. \A k \in Keys : Creator(k) = Nobody
    BY DEF Init, Creator, Holds, FreeSlot
  <2>2. \A c \in Clients : (call[c] # NoCall) = FALSE
    BY DEF Init
  <2> QED BY <2>1, <2>2, Zenon DEF Registry!Init
<1>2. TypeOK /\ NamesFence /\ TableInv /\ UniqueKeys /\ UniqueKeys' /\ [Next]_vars
        => [Registry!Next]_<<[k \in Keys |-> Creator(k)], [c \in Clients |-> call[c] # NoCall]>>
  <2>1. CASE UNCHANGED vars
    BY <2>1 DEF vars, Creator, Holds
  <2>2. CASE Next
    BY <2>2, StepRefines DEF Next, Registry!Next
  <2> QED BY <2>1, <2>2
<1> QED BY <1>1, <1>2, TypeCorrect, TableInvariant, Unique, PTL
      DEF Spec, ImplementsRegistry, Registry!Spec

-----------------------------------------------------------------------------
(* The search of a destruction *)

\* How far a slot is from the first one probed.
Dist(home, s) == IF home <= s THEN s - home ELSE s + Entries - home

\* A destruction has gone as far round the table as it has made steps, and its fence is in none
\* of the slots behind it.
SearchInv ==
    \A c \in Clients :
        LET cl == call[c]
        IN  cl.pc = "lookup" /\ cl.op = "DESTROY" =>
              /\ cl.step # 0 => Dist(Home[cl.key], cl.hash) = cl.step - 1
              /\ \A s \in Slots : Dist(Home[cl.key], s) < cl.step => table[s].key # cl.key

\* The n-th probe is n slots from home, and no other slot is as far.
LEMMA ProbeDist ==
  ASSUME NEW cl \in CallRec,
         cl.step # 0 => Dist(Home[cl.key], cl.hash) = cl.step - 1
  PROVE  \A s \in Slots :
            /\ s = CalculateHash(cl) <=> Dist(Home[cl.key], s) = cl.step
            /\ Dist(Home[cl.key], s) < Entries
<1>1. /\ cl.hash \in Slots /\ cl.step \in Slots /\ Home[cl.key] \in Slots
      /\ Entries \in Nat \ {0}
  BY TableAssumption DEF CallRec
<1>2. CASE cl.step = 0
  BY <1>1, <1>2 DEF CalculateHash, Dist, Slots
<1>3. CASE cl.step # 0
  <2>1. CalculateHash(cl) = IF cl.hash + 1 = Entries THEN 0 ELSE cl.hash + 1
    BY <1>1, <1>3, NextSlot DEF CalculateHash
  <2>2. ASSUME NEW n \in Nat, NEW home \in 0..n-1, NEW hash \in 0..n-1, NEW step \in 1..n-1,
               NEW s \in 0..n-1,
               (IF home <= hash THEN hash - home ELSE hash + n - home) = step - 1
        PROVE  LET away == IF home <= s THEN s - home ELSE s + n - home
               IN  /\ s = (IF hash + 1 = n THEN 0 ELSE hash + 1) <=> away = step
                   /\ away < n
    <3>1. CASE hash + 1 = n
      BY <2>2, <3>1
    <3>2. CASE hash + 1 # n
      BY <2>2, <3>2
    <3> QED BY <3>1, <3>2
  <2>3. cl.step \in 1..Entries-1
    BY <1>1, <1>3 DEF Slots
  <2> QED BY <1>1, <1>3, <2>1, <2>2, <2>3 DEF Dist, Slots
<1> QED BY <1>2, <1>3

LEMMA SearchInvStep ==
  ASSUME DmaFencesUnique, TypeOK, NamesFence, TableInv, SearchInv, NEW c \in Clients, Step(c)
  PROVE  SearchInv'
<1>1. call \in [Clients -> CallRec] /\ call[c] \in CallRec /\ table \in [Slots -> SlotRec]
  BY DEF TypeOK, CallRec, SlotRec
<1> SUFFICES ASSUME NEW d \in Clients, call'[d].pc = "lookup", call'[d].op = "DESTROY"
             PROVE  /\ call'[d].step # 0 =>
                          Dist(Home[call'[d].key], call'[d].hash) = call'[d].step - 1
                    /\ \A s \in Slots : Dist(Home[call'[d].key], s) < call'[d].step
                          => table'[s].key # call'[d].key
  BY DEF SearchInv, Dist
<1>2. CASE d # c
  <2>1. call'[d] = call[d]
    BY <1>2, OtherCalls
  <2>2. PICK f \in Fences : Key[f] = call[d].key /\ Owner[f] = d
    BY <2>1 DEF TableInv, CallsKnown, CallKnown
  <2>3. ASSUME NEW s \in Slots, table[s].key # call[d].key PROVE table'[s].key # call[d].key
    <3>1. CASE Probe(c)
      <4>1. PICK h \in Slots : h = CalculateHash(call[c])
        BY <1>1, HashIsSlot
      <4>2. \/ /\ call[c].op = "CREATE"
              /\ table' = [table EXCEPT ![h] = [valid |-> TRUE, key |-> call[c].key, alloc |-> c]]
            \/ table' = [table EXCEPT ![h] = FreeSlot]
            \/ table' = table
        BY <1>1, <3>1, <4>1, ProbeCases
      <4>3. call[c].op = "CREATE" => call[c].key # call[d].key
        BY <1>2, <2>2 DEF TableInv, CallsKnown, CallKnown, NamesFence, DmaFencesUnique
      <4>4. FreeSlot.key # call[d].key
        BY <2>2, KeyTypes DEF FreeSlot
      <4> QED BY <1>1, <2>3, <4>2, <4>3, <4>4
    <3> QED BY <2>3, <3>1, OnlyProbe
  <2> QED BY <2>1, <2>3 DEF SearchInv
<1>3. CASE d = c
  <2>1. CASE Probe(c)
    <3>1. PICK h \in Slots : h = CalculateHash(call[c])
      BY <1>1, HashIsSlot
    <3>2. /\ call[c].op = "DESTROY" => table[h].key # call[c].key
          /\ table' = table
          /\ call' = [call EXCEPT ![c] = [call[c] EXCEPT !.step = call[c].step + 1, !.hash = h]]
      <4>1. ASSUME NEW pc \in {"setBit", "clearBit"},
                   call' = [call EXCEPT ![c] = [call[c] EXCEPT !.pc = pc, !.hash = h]]
            PROVE  FALSE
        BY <1>1, <1>3, <4>1 DEF CallRec
      <4>2. ASSUME call' = [call EXCEPT ![c] = NoCall] PROVE FALSE
        BY <1>1, <1>3, <4>2 DEF NoCall
      <4> QED BY <1>1, <2>1, <3>1, <4>1, <4>2, ProbeCases
    <3>3. /\ call'[c].step = call[c].step + 1 /\ call'[c].hash = h /\ call'[c].key = call[c].key
          /\ call'[c].op = call[c].op /\ call[c].pc = "lookup"
      BY <1>1, <2>1, <3>2 DEF CallRec, Probe
    <3>4. /\ call[c].step # 0 => Dist(Home[call[c].key], call[c].hash) = call[c].step - 1
          /\ \A s \in Slots : Dist(Home[call[c].key], s) < call[c].step
                => table[s].key # call[c].key
      BY <1>3, <3>3 DEF SearchInv
    <3>5. /\ Dist(Home[call[c].key], h) = call[c].step
          /\ \A s \in Slots : Dist(Home[call[c].key], s) = call[c].step => s = h
      BY <1>1, <3>1, <3>4, ProbeDist
    <3>6. Home[call[c].key] \in Int /\ Entries \in Int /\ call[c].step \in Int
      BY <1>1, TableAssumption DEF CallRec, Slots
    <3>7. \A s \in Slots : Dist(Home[call[c].key], s) \in Int
      BY <3>6 DEF Dist, Slots
    <3> QED BY <1>3, <3>2, <3>3, <3>4, <3>5, <3>6, <3>7
  <2>2. CASE ~Probe(c)
    <3>1. call'[c].step = 0
      <4>2. CASE \E f \in Fences : Destroy(c, f)
        BY <1>1, <4>2 DEF Destroy, Lookup, NoCall
      <4>3. CASE ReadKey(c)
        BY <1>1, <4>3 DEF ReadKey, Lookup, NoCall
      <4>4. ASSUME ~(\E f \in Fences : Destroy(c, f)), ~ReadKey(c) PROVE FALSE
        <5>1. CASE \E f \in Fences : Create(c, f) \/ FindFence(c, f)
          BY <1>1, <1>3, <5>1 DEF Create, FindFence, Lookup, NoCall
        <5>2. CASE \E h \in Slots : DestroyWithHandle(c, h)
          BY <1>1, <1>3, <5>2 DEF DestroyWithHandle, NoCall
        <5>3. CASE SetEnabledBit(c) \/ ClearEnabledBit(c)
          BY <1>1, <1>3, <5>3 DEF SetEnabledBit, ClearEnabledBit, NoCall
        <5>4. CASE CheckAllocator(c)
          <6>1. call'[c] = NoCall \/ call'[c] = [call[c] EXCEPT !.pc = "readKey"]
            BY <1>1, <5>4 DEF CheckAllocator, Goto
          <6> QED BY <1>1, <1>3, <6>1 DEF NoCall, CallRec
        <5> QED BY <2>2, <4>4, <5>1, <5>2, <5>3, <5>4 DEF Step
      <4> QED BY <4>2, <4>3, <4>4
    <3>2. call'[c] \in CallRec
      BY <1>1, StepCall
    <3>3. Home[call'[c].key] \in Slots /\ Entries \in Nat \ {0}
      BY <3>2, TableAssumption DEF CallRec
    <3>4. \A s \in Slots : ~(Dist(Home[call'[c].key], s) < 0)
      BY <3>3 DEF Dist, Slots
    <3> QED BY <1>3, <3>1, <3>4
  <2> QED BY <2>1, <2>2
<1> QED BY <1>2, <1>3

\* When msm_hw_fence_destroy gives up, its fence is in no slot: the probes go all round the
\* table, and what they left behind stays without the fence.
THEOREM NothingLost == DmaFencesUnique => (Spec => NoFenceLost)
<1> SUFFICES ASSUME DmaFencesUnique PROVE Spec => NoFenceLost
  OBVIOUS
<1>1. Init => SearchInv
  BY DEF Init, SearchInv, NoCall
<1>2. TypeOK /\ NamesFence /\ TableInv /\ SearchInv /\ [Next]_vars => SearchInv'
  BY SearchInvStep DEF Next, vars, SearchInv, Dist
<1>3. ASSUME TypeOK, NamesFence, TableInv, SearchInv, [Next]_vars, NEW c \in Clients,
             call[c].pc = "lookup", call[c].op = "DESTROY", call[c].fence # NoFence,
             call'[c] = NoCall
      PROVE  \A s \in Slots : ~Holds(s, call[c].key)
  <2>1. call \in [Clients -> CallRec] /\ call[c] \in CallRec /\ table \in [Slots -> SlotRec]
    BY <1>3 DEF TypeOK, CallRec, SlotRec
  <2>2. call[c] # NoCall
    BY <1>3 DEF NoCall
  <2>3. Step(c)
    BY <1>3, <2>2, OtherCalls DEF Next, vars
  <2>4. Probe(c)
    BY <1>3, <2>3 DEF Step, Create, Destroy, FindFence, DestroyWithHandle, SetEnabledBit,
      ClearEnabledBit, CheckAllocator, ReadKey
  <2>5. PICK h \in Slots : h = CalculateHash(call[c])
    BY <2>1, HashIsSlot
  <2>6. table[h].key # call[c].key /\ call[c].step + 1 = Entries
    <3>1. ASSUME call' = [call EXCEPT ![c] = [call[c] EXCEPT !.pc = "clearBit", !.hash = h]]
          PROVE  FALSE
      BY <1>3, <2>1, <3>1 DEF NoCall, CallRec
    <3>2. ASSUME call' = [call EXCEPT ![c] = [call[c] EXCEPT !.step = call[c].step + 1, !.hash = h]]
          PROVE  FALSE
      BY <1>3, <2>1, <3>2 DEF NoCall, CallRec
    <3> QED BY <1>3, <2>1, <2>4, <2>5, <3>1, <3>2, ProbeCases
  <2>7. /\ call[c].step # 0 => Dist(Home[call[c].key], call[c].hash) = call[c].step - 1
        /\ \A s \in Slots : Dist(Home[call[c].key], s) < call[c].step
              => table[s].key # call[c].key
    BY <1>3 DEF SearchInv
  <2>8. \A s \in Slots : /\ s = h <=> Dist(Home[call[c].key], s) = call[c].step
                         /\ Dist(Home[call[c].key], s) < Entries
    BY <2>1, <2>5, <2>7, ProbeDist
  <2>9. Home[call[c].key] \in Slots /\ Entries \in Nat \ {0} /\ call[c].step \in Slots
    BY <2>1, TableAssumption DEF CallRec
  <2>10. \A s \in Slots : Dist(Home[call[c].key], s) \in Int
    BY <2>9 DEF Dist, Slots
  <2> QED BY <2>6, <2>7, <2>8, <2>9, <2>10 DEF Holds, Slots
<1>4. TypeOK /\ NamesFence /\ TableInv /\ SearchInv /\ [Next]_vars =>
        [\A c \in Clients :
          LET cl == call[c]
          IN  cl.pc = "lookup" /\ cl.op = "DESTROY" /\ cl.fence # NoFence /\ call'[c] = NoCall
              => \A s \in Slots : ~Holds(s, cl.key)]_vars
  BY <1>3
<1> QED BY <1>1, <1>2, <1>4, TypeCorrect, TableInvariant, PTL DEF Spec, NoFenceLost
=============================================================================
