------------------------- MODULE HwFenceQueueProofs -------------------------
(***************************************************************************)
(* Proofs about HwFenceQueue, for a ring of any size, any number of        *)
(* writers, writes and resets, and each kind of queue.                     *)
(***************************************************************************)
EXTENDS HwFenceQueue, Integers, SequenceTheorems, TLAPS

-----------------------------------------------------------------------------
(* The ring *)

\* How far an index is behind another, and what a step of either does to it.
LEMMA Ring ==
  ASSUME NEW a \in Index, NEW b \in Index
  PROVE  /\ Distance(a, b) \in Index /\ (Distance(a, b) = 0 <=> a = b)
         /\ After(a) \in Index
         /\ CannotFit(a, b) <=> Distance(a, b) >= Entries - 1
         /\ Distance(a, b) < Entries - 1 => Distance(a, After(b)) = Distance(a, b) + 1
         /\ Distance(a, b) > 0 => Distance(After(a), b) = Distance(a, b) - 1
BY QueueAssumption DEF Index, Distance, After, CannotFit, Free

\* An index between two others divides the way from the one to the other.
LEMMA Between ==
  ASSUME NEW a \in Index, NEW b \in Index, NEW c \in Index, Distance(a, b) <= Distance(a, c)
  PROVE  Distance(b, c) = Distance(a, c) - Distance(a, b)
BY QueueAssumption DEF Index, Distance

\* The entry of the k-th payload from a, a being the first.
Place(a, k) == (a + k - 1) % Entries

LEMMA PlaceIs ==
  ASSUME NEW a \in Index, NEW k \in 1..Entries
  PROVE  /\ Place(a, k) = IF a + k - 1 < Entries THEN a + k - 1 ELSE a + k - 1 - Entries
         /\ Place(a, k) \in Index
<1>1. PICK x \in 0..(2 * Entries - 1) : x = a + k - 1
  BY QueueAssumption DEF Index
<1>2. x % Entries = IF x < Entries THEN x ELSE x - Entries
  BY QueueAssumption
<1>3. Place(a, k) = x % Entries
  BY <1>1, Zenon DEF Place
<1>4. Place(a, k) = IF x < Entries THEN x ELSE x - Entries
  BY <1>2, <1>3
<1>5. Place(a, k) = IF a + k - 1 < Entries THEN a + k - 1 ELSE a + k - 1 - Entries
  BY <1>1, <1>4, QueueAssumption DEF Index
<1>6. (IF x < Entries THEN x ELSE x - Entries) \in 0 .. Entries - 1
  BY QueueAssumption
<1> QED BY <1>4, <1>5, <1>6 DEF Index

LEMMA Places ==
  ASSUME NEW a \in Index, NEW b \in Index
  PROVE  /\ Place(a, 1) = a
         /\ Distance(a, b) + 1 \in 1..Entries /\ Place(a, Distance(a, b) + 1) = b
         /\ \A k \in 1..Distance(a, b) : k \in 1..Entries /\ Place(a, k) \in Index /\ Place(a, k) # b
         /\ \A k \in 1..Entries : Distance(a, b) + k <= Entries =>
                Place(b, k) = Place(a, Distance(a, b) + k)
         /\ \A k \in 1..Entries : k + 1 <= Entries => Place(After(a), k) = Place(a, k + 1)
<1>1. Place(a, 1) = a
  <2>1. PICK k \in 1..Entries : k = 1
    BY QueueAssumption
  <2>2. a + k - 1 = a /\ a < Entries
    BY <2>1, QueueAssumption DEF Index
  <2>3. Place(a, k) = a
    BY <2>2, PlaceIs
  <2> QED BY <2>1, <2>3
<1>2. Distance(a, b) + 1 \in 1..Entries
  BY QueueAssumption DEF Index, Distance
<1>3. Place(a, Distance(a, b) + 1) = b
  BY <1>2, PlaceIs, QueueAssumption DEF Index, Distance
<1>4. ASSUME NEW k \in 1..Distance(a, b)
      PROVE  k \in 1..Entries /\ Place(a, k) \in Index /\ Place(a, k) # b
  <2>1. k \in 1..Entries
    BY <1>2, Ring, QueueAssumption DEF Index
  <2>2. Place(a, k) = IF a + k - 1 < Entries THEN a + k - 1 ELSE a + k - 1 - Entries
    BY <2>1, PlaceIs
  <2>3. (IF a + k - 1 < Entries THEN a + k - 1 ELSE a + k - 1 - Entries) # b
    BY <2>1, QueueAssumption DEF Index, Distance
  <2> QED BY <2>1, <2>2, <2>3, PlaceIs
<1>5. ASSUME NEW k \in 1..Entries, Distance(a, b) + k <= Entries
      PROVE  Place(b, k) = Place(a, Distance(a, b) + k)
  <2>1. Distance(a, b) + k \in 1..Entries
    BY <1>2, <1>5, QueueAssumption DEF Index, Distance
  <2> QED BY <1>5, <2>1, PlaceIs, QueueAssumption DEF Index, Distance
<1>6. ASSUME NEW k \in 1..Entries, k + 1 <= Entries
      PROVE  Place(After(a), k) = Place(a, k + 1)
  <2>1. After(a) \in Index /\ k + 1 \in 1..Entries
    BY <1>6, Ring
  <2> QED BY <2>1, PlaceIs, QueueAssumption DEF Index, After
<1> QED BY <1>1, <1>2, <1>3, <1>4, <1>5, <1>6

-----------------------------------------------------------------------------
(* Types *)

LEMMA InitType == Init => TypeOK
<1>1. 0 \in Index
  BY QueueAssumption DEF Index
<1> SUFFICES ASSUME Init PROVE TypeOK
  OBVIOUS
<1>2. 0 \in 0..MaxWrites /\ 0 \in 0..MaxResets
  BY QueueAssumption
<1>3. /\ slot \in [Index -> Payloads \cup {Nothing}]
      /\ wpc \in [Writers -> {"idle", "lock", "readIndexes", "readWr", "put", "publish", "exit"}]
      /\ wmsg \in [Writers -> Payloads \cup {Nothing}]
      /\ wrd \in [Writers -> Index] /\ wwr \in [Writers -> Index]
  BY <1>1 DEF Init
<1> QED BY <1>1, <1>2, <1>3 DEF Init, TypeOK

LEMMA TypeStep == TypeOK /\ [Next]_vars => TypeOK'
<1> SUFFICES ASSUME TypeOK, [Next]_vars PROVE TypeOK'
  OBVIOUS
<1> USE DEF TypeOK, header, writer, reader, reset, vars
<1>1. WrPtr \in Index /\ \A i \in Index : After(i) \in Index
  BY Ring DEF WrPtr
<1>2. CASE UNCHANGED vars
  BY <1>2
<1>3. ASSUME UNCHANGED kind, NEW w \in Writers, WriterStep(w)
      PROVE  TypeOK'
  <2>1. CASE WriteStart(w)
    <3>1. calls' \in 0..MaxWrites /\ calls + 1 \in Payloads
      BY <2>1, QueueAssumption DEF WriteStart, Payloads
    <3> QED BY <1>3, <2>1, <3>1 DEF WriteStart, WGoto
  <2>2. CASE WriteLock(w)
    BY <1>3, <2>2 DEF WriteLock, WGoto
  <2>3. CASE WriteReadRd(w)
    BY <1>3, <2>3 DEF WriteReadRd, WGoto
  <2>4. CASE WriteReadWr(w)
    BY <1>1, <1>3, <2>4 DEF WriteReadWr, WGoto
  <2>5. CASE WritePayload(w)
    BY <1>3, <2>5 DEF WritePayload, WGoto
  <2>6. CASE WritePublish(w)
    BY <1>1, <1>3, <2>6 DEF WritePublish, WGoto, SetWrPtr
  <2>7. CASE WriteExit(w)
    BY <1>3, <2>7 DEF WriteExit, WGoto
  <2> QED BY <1>3, <2>1, <2>2, <2>3, <2>4, <2>5, <2>6, <2>7 DEF WriterStep
<1>4. CASE UNCHANGED kind /\ ClientMovesWriteIndex
  BY <1>4 DEF ClientMovesWriteIndex
<1>5. CASE UNCHANGED kind /\ ReaderStep
  BY <1>1, <1>5 DEF ReaderStep, ReadIndexes, ReadWr, ReadPayload, ReadPublish, MoreLeft
<1>6. CASE UNCHANGED kind /\ ResetStep
  <2>1. CASE ResetStart
    <3>1. resets' \in 0..MaxResets
      BY <2>1, QueueAssumption DEF ResetStart
    <3> QED BY <1>6, <2>1, <3>1 DEF ResetStart
  <2>2. CASE ResetReadIndex
    BY <1>6, <2>2 DEF ResetReadIndex
  <2>3. CASE ResetWriteIndex
    BY <1>6, <2>3 DEF ResetWriteIndex, SetIndex
  <2> QED BY <1>6, <2>1, <2>2, <2>3 DEF ResetStep
<1> QED BY <1>2, <1>3, <1>4, <1>5, <1>6 DEF Next

\* The indexes stay inside the ring, whoever writes, reads and resets, and at the same time.
THEOREM TypeCorrect == Spec => []TypeOK
BY InitType, TypeStep, PTL DEF Spec

-----------------------------------------------------------------------------
(* What readers, writers and a reset may rely on *)

InWrite == {"readIndexes", "readWr", "put", "publish", "exit"}

\* One thread at most moves the write pointer: on an Rx queue the owner of the
\* client's lock, on a Tx queue the client.
OneWriter ==
    /\ kind = "rx" => /\ \A w \in Writers : wpc[w] \in InWrite => lock = w
                      /\ spc # "idle" => lock = Resetter
    /\ kind # "rx" => \A w \in Writers : wpc[w] # "idle" => w = TxWriter

\* A writer's read index may be old, but then the queue has more room than it
\* thinks; the write pointer waits for it.
WriterSees ==
    \A w \in Writers :
        /\ wpc[w] # "idle" => wmsg[w] \in Payloads
        /\ wpc[w] = "readWr" => Distance(readIndex, WrPtr) <= Distance(wrd[w], WrPtr)
        /\ wpc[w] \in {"put", "publish"} =>
                wwr[w] = WrPtr /\ Distance(readIndex, WrPtr) < Entries - 1
        /\ wpc[w] = "publish" => slot[wwr[w]] = wmsg[w]

\* A Tx client that moves write_index itself is not ahead of tx_wm.
ClientBehind == Distance(readIndex, writeIndex) <= Distance(readIndex, WrPtr)

\* What a reader saw of the queue is still there, and more may have come.
ReaderSees ==
    /\ rpc # "idle" => rrd = readIndex /\ spc = "idle"
    /\ rpc \in {"get", "publish"} =>
            rrd # rwr /\ Distance(rrd, rwr) <= Distance(readIndex, writeIndex)
    /\ rpc = "publish" => payload = slot[rrd]
    /\ more /\ rpc = "idle" /\ resets = 0 => readIndex # writeIndex

\* The index that a reset stores leads into the queue, or empties it.
ResetSees ==
    /\ spc # "idle" => resets # 0
    /\ spc = "set" /\ kind = "rx" => sidx = readIndex
    /\ spc = "set" /\ kind # "rx" =>
            Distance(readIndex, sidx) <= Distance(readIndex, writeIndex)

QueueInv == OneWriter /\ WriterSees /\ ClientBehind /\ ReaderSees /\ ResetSees

LEMMA InitQueue == Init => QueueInv
<1> SUFFICES ASSUME Init PROVE QueueInv
  OBVIOUS
<1>1. OneWriter /\ WriterSees
  BY DEF Init, OneWriter, WriterSees, InWrite
<1>2. ClientBehind
  <2>1. WrPtr = writeIndex
    BY DEF Init, WrPtr
  <2>2. Distance(readIndex, writeIndex) \in Nat
    BY QueueAssumption DEF Init, Distance
  <2> QED BY <2>1, <2>2 DEF ClientBehind
<1>3. ReaderSees /\ ResetSees
  BY DEF Init, ReaderSees, ResetSees
<1> QED BY <1>1, <1>2, <1>3 DEF QueueInv

LEMMA Indexes ==
  ASSUME TypeOK
  PROVE  /\ {readIndex, writeIndex, WrPtr} \subseteq Index
         /\ Index \subseteq Nat /\ Entries \in Nat
         /\ Distance(readIndex, WrPtr) \in Nat /\ Distance(readIndex, writeIndex) \in Nat
         /\ kind # "skip" => WrPtr = writeIndex
<1>1. {readIndex, writeIndex, WrPtr} \subseteq Index
  BY DEF TypeOK, WrPtr
<1>2. Index \subseteq Nat /\ Entries \in Nat
  BY QueueAssumption DEF Index
<1> QED BY <1>1, <1>2, Ring DEF WrPtr

\* The writers that look at the header are one.
LEMMA Alone ==
  ASSUME OneWriter, NEW w \in Writers, NEW v \in Writers, wpc[w] \in InWrite, wpc[v] \in InWrite
  PROVE  v = w
BY DEF OneWriter, InWrite

\* A writer's steps up to the one that publishes its payload.
LEMMA WriterKeeps ==
  ASSUME TypeOK, QueueInv, UNCHANGED kind, NEW w \in Writers, WriterStep(w), ~WritePublish(w)
  PROVE  QueueInv'
<1> USE DEF header, reader, reset
<1>1. /\ TypeOK /\ OneWriter /\ WriterSees /\ ClientBehind /\ ReaderSees /\ ResetSees
      /\ Nobody \notin Writers /\ Resetter \notin Writers /\ Nobody # Resetter
  BY QueueAssumption DEF QueueInv
<1>2. /\ UNCHANGED <<kind, header, reader, reset>> /\ WrPtr' = WrPtr
      /\ ~WritePayload(w) => UNCHANGED slot
  BY DEF WriterStep, WriteStart, WriteLock, WriteReadRd, WriteReadWr, WritePayload, WriteExit, WrPtr
<1>3. ClientBehind' /\ ResetSees'
  BY <1>1, <1>2 DEF ClientBehind, ResetSees, Distance
<1>4. wpc \in [Writers -> {"idle", "lock", "readIndexes", "readWr", "put", "publish", "exit"}]
  BY DEF TypeOK
<1>5. OneWriter'
  <2>1. CASE WriteStart(w)
    <3>1. /\ UNCHANGED lock /\ wpc'[w] = IF kind = "rx" THEN "lock" ELSE "readIndexes"
          /\ \A v \in Writers : v # w => wpc'[v] = wpc[v]
          /\ kind # "rx" => w = TxWriter
      BY <1>4, <2>1, Zenon DEF WriteStart, WGoto, LockClientQueue
    <3>2. CASE kind = "rx"
      BY <1>1, <1>2, <3>1, <3>2 DEF OneWriter, InWrite
    <3>3. CASE kind # "rx"
      BY <1>1, <1>2, <3>1, <3>3 DEF OneWriter, InWrite
    <3> QED BY <3>2, <3>3
  <2>2. CASE WriteLock(w)
    <3>1. /\ wpc[w] = "lock" /\ wpc'[w] = "readIndexes" /\ lock = Nobody /\ lock' = w
          /\ \A v \in Writers : v # w => wpc'[v] = wpc[v]
      BY <1>4, <2>2 DEF WriteLock, WGoto
    <3>2. CASE kind = "rx"
      BY <1>1, <1>2, <3>1, <3>2 DEF OneWriter, InWrite
    <3>3. CASE kind # "rx"
      BY <1>1, <1>2, <3>1, <3>3 DEF OneWriter
    <3> QED BY <3>2, <3>3
  <2>3. CASE WriteReadRd(w) \/ WriteReadWr(w) \/ WritePayload(w)
    <3>1. /\ UNCHANGED lock /\ wpc[w] \in InWrite /\ wpc'[w] \in InWrite
          /\ \A v \in Writers : v # w => wpc'[v] = wpc[v]
      BY <1>4, <2>3 DEF WriteReadRd, WriteReadWr, WritePayload, WGoto, InWrite
    <3> QED BY <1>1, <1>2, <3>1 DEF OneWriter, InWrite
  <2>4. CASE WriteExit(w)
    <3>1. /\ lock' = IF kind = "rx" THEN Nobody ELSE lock
          /\ wpc[w] = "exit" /\ wpc'[w] = "idle" /\ \A v \in Writers : v # w => wpc'[v] = wpc[v]
      BY <1>4, <2>4 DEF WriteExit, WGoto, LockClientQueue
    <3> QED BY <1>1, <1>2, <3>1 DEF OneWriter, InWrite
  <2> QED BY <2>1, <2>2, <2>3, <2>4 DEF WriterStep
<1>6. ReaderSees'
  <2>1. CASE UNCHANGED slot
    BY <1>1, <1>2, <2>1 DEF ReaderSees, Distance
  <2>2. CASE WritePayload(w)
    <3>1. rpc = "publish" => slot'[rrd] = slot[rrd]
      <4> SUFFICES ASSUME rpc = "publish" PROVE rrd # wwr[w]
        BY <1>1, <2>2 DEF WritePayload, TypeOK
      <4>1. wwr[w] = WrPtr
        BY <1>1, <2>2 DEF WritePayload, WGoto, WriterSees
      <4>2. /\ rrd = readIndex /\ rrd # rwr /\ rrd \in Index /\ rwr \in Index
            /\ Distance(rrd, rwr) <= Distance(readIndex, writeIndex)
            /\ Distance(readIndex, writeIndex) <= Distance(readIndex, WrPtr)
        BY <1>1 DEF ReaderSees, TypeOK, ClientBehind
      <4>3. Distance(rrd, rwr) \in Nat /\ Distance(rrd, rwr) # 0
        BY <4>2, Indexes, Ring
      <4>4. Distance(readIndex, WrPtr) # 0
        BY <4>2, <4>3, Indexes
      <4> QED BY <4>1, <4>2, <4>4, Indexes, Ring
    <3> QED BY <1>1, <1>2, <3>1 DEF ReaderSees, Distance
  <2> QED BY <1>2, <2>1, <2>2
<1>7. WriterSees'
  <2> SUFFICES ASSUME NEW v \in Writers
               PROVE  /\ wpc'[v] # "idle" => wmsg'[v] \in Payloads
                      /\ wpc'[v] = "readWr" => Distance(readIndex, WrPtr) <= Distance(wrd'[v], WrPtr)
                      /\ wpc'[v] \in {"put", "publish"} =>
                              wwr'[v] = WrPtr /\ Distance(readIndex, WrPtr) < Entries - 1
                      /\ wpc'[v] = "publish" => slot'[wwr'[v]] = wmsg'[v]
    BY <1>2 DEF WriterSees, Distance
  <2>1. /\ wpc[v] # "idle" => wmsg[v] \in Payloads
        /\ wpc[v] = "readWr" => Distance(readIndex, WrPtr) <= Distance(wrd[v], WrPtr)
        /\ wpc[v] \in {"put", "publish"} =>
                wwr[v] = WrPtr /\ Distance(readIndex, WrPtr) < Entries - 1
        /\ wpc[v] = "publish" => slot[wwr[v]] = wmsg[v]
    BY <1>1 DEF WriterSees
  <2>2. CASE v # w
    <3>1. wpc'[v] = wpc[v] /\ wmsg'[v] = wmsg[v] /\ wrd'[v] = wrd[v] /\ wwr'[v] = wwr[v]
      BY <1>1, <2>2 DEF TypeOK, WriterStep, WriteStart, WriteLock, WriteReadRd, WriteReadWr,
                        WritePayload, WriteExit, WGoto
    <3>2. wpc[v] = "publish" => ~WritePayload(w)
      BY <1>1, <2>2, Alone DEF WritePayload, WGoto, InWrite
    <3> QED BY <1>2, <2>1, <3>1, <3>2
  <2>3. CASE v = w /\ WriteStart(w)
    <3>1. wpc'[w] \in {"lock", "readIndexes"} /\ wmsg'[w] = calls + 1 /\ calls + 1 \in Payloads
      BY <1>1, <1>4, <2>3, QueueAssumption DEF WriteStart, WGoto, TypeOK, Payloads
    <3> QED BY <2>3, <3>1
  <2>4. CASE v = w /\ WriteLock(w)
    BY <1>4, <2>1, <2>4 DEF WriteLock, WGoto
  <2>5. CASE v = w /\ WriteReadRd(w)
    <3>1. wpc[w] = "readIndexes" /\ wpc'[w] = "readWr" /\ wmsg' = wmsg /\ wrd'[w] = readIndex
      BY <1>1, <1>4, <2>5 DEF WriteReadRd, WGoto, TypeOK
    <3> QED BY <2>1, <2>5, <3>1, Indexes
  <2>6. CASE v = w /\ WriteReadWr(w)
    <3>1. /\ wpc[w] = "readWr" /\ wpc'[w] = IF CannotFit(wrd[w], WrPtr) THEN "exit" ELSE "put"
          /\ wmsg' = wmsg /\ wwr'[w] = WrPtr
      BY <1>1, <1>4, <2>6 DEF WriteReadWr, WGoto, TypeOK
    <3>2. wrd[w] \in Index /\ WrPtr \in Index
      BY <1>1, Indexes DEF TypeOK
    <3>3. ~CannotFit(wrd[w], WrPtr) => Distance(readIndex, WrPtr) < Entries - 1
      <4>1. /\ Distance(wrd[w], WrPtr) \in Nat
            /\ CannotFit(wrd[w], WrPtr) <=> Distance(wrd[w], WrPtr) >= Entries - 1
        BY <3>2, Ring, Indexes
      <4> QED BY <2>1, <2>6, <3>1, <4>1, Indexes
    <3> QED BY <2>1, <2>6, <3>1, <3>3
  <2>7. CASE v = w /\ WritePayload(w)
    <3>1. /\ wpc[w] = "put" /\ wpc'[w] = "publish" /\ wmsg' = wmsg /\ wwr' = wwr
          /\ slot' = [slot EXCEPT ![wwr[w]] = wmsg[w]] /\ wwr[w] \in Index
      BY <1>1, <1>4, <2>7 DEF WritePayload, WGoto, TypeOK
    <3>2. slot'[wwr[w]] = wmsg[w]
      BY <1>1, <3>1 DEF TypeOK
    <3> QED BY <2>1, <2>7, <3>1, <3>2
  <2>8. CASE v = w /\ WriteExit(w)
    BY <1>4, <2>8 DEF WriteExit, WGoto
  <2> QED BY <2>2, <2>3, <2>4, <2>5, <2>6, <2>7, <2>8 DEF WriterStep
<1> QED BY <1>3, <1>5, <1>6, <1>7 DEF QueueInv

\* The write index only grows towards what a reader or a reset saw already.
LEMMA HeaderGrows ==
  ASSUME TypeOK, QueueInv, UNCHANGED <<kind, readIndex, slot, reader, reset>>, writeIndex' \in Index,
         Distance(readIndex, writeIndex) <= Distance(readIndex, writeIndex')
  PROVE  ReaderSees' /\ ResetSees'
<1>1. ReaderSees /\ ResetSees /\ rrd \in Index /\ rwr \in Index /\ sidx \in Index
  BY DEF QueueInv, TypeOK
<1>2. UNCHANGED <<kind, readIndex, slot, rpc, rrd, rwr, payload, more, spc, sidx, resets>>
  BY DEF reader, reset
<1>3. /\ readIndex \in Index /\ writeIndex \in Index
      /\ Distance(readIndex, writeIndex) \in Nat /\ Distance(readIndex, writeIndex') \in Nat
      /\ Distance(rrd, rwr) \in Nat /\ Distance(readIndex, sidx) \in Nat
  BY <1>1, Indexes, Ring
<1>4. readIndex # writeIndex => readIndex # writeIndex'
  BY <1>3, Ring
<1>5. Distance(rrd, rwr) <= Distance(readIndex, writeIndex)
          => Distance(rrd, rwr) <= Distance(readIndex, writeIndex')
  BY <1>3
<1>6. Distance(readIndex, sidx) <= Distance(readIndex, writeIndex)
          => Distance(readIndex, sidx) <= Distance(readIndex, writeIndex')
  BY <1>3
<1>7. Distance(rrd, rwr)' = Distance(rrd, rwr) /\ Distance(readIndex, sidx)' = Distance(readIndex, sidx)
      /\ Distance(readIndex, writeIndex)' = Distance(readIndex, writeIndex')
  BY <1>2 DEF Distance
<1> QED BY <1>1, <1>2, <1>4, <1>5, <1>6, <1>7 DEF ReaderSees, ResetSees

\* What the writer that publishes its payload finds and leaves.
LEMMA PublishIs ==
  ASSUME TypeOK, QueueInv, UNCHANGED kind, NEW w \in Writers, WritePublish(w)
  PROVE  /\ UNCHANGED <<kind, readIndex, slot, lock, reader, reset, wmsg, wrd, wwr>>
         /\ wpc[w] = "publish" /\ wpc' = [wpc EXCEPT ![w] = "exit"]
         /\ slot[WrPtr] = wmsg[w] /\ wmsg[w] \in Payloads
         /\ Distance(readIndex, WrPtr) < Entries - 1
         /\ WrPtr' = After(WrPtr) /\ Distance(readIndex, WrPtr') = Distance(readIndex, WrPtr) + 1
         /\ writeIndex' = IF kind = "skip" THEN writeIndex ELSE WrPtr'
<1>1. UNCHANGED <<kind, readIndex, slot, lock, reader, reset, wmsg, wrd, wwr>>
  BY DEF WritePublish, SetWrPtr
<1>2. wpc[w] = "publish" /\ wpc' = [wpc EXCEPT ![w] = "exit"]
  BY DEF WritePublish, WGoto
<1>3. /\ wmsg[w] \in Payloads /\ wwr[w] = WrPtr /\ slot[wwr[w]] = wmsg[w]
      /\ Distance(readIndex, WrPtr) < Entries - 1
  BY <1>2 DEF QueueInv, WriterSees
<1>4. IF kind = "skip" THEN txWm' = After(wwr[w]) /\ UNCHANGED writeIndex
                       ELSE writeIndex' = After(wwr[w]) /\ UNCHANGED txWm
  BY DEF WritePublish, SetWrPtr
<1>5. WrPtr' = After(wwr[w])
  BY <1>1, <1>4 DEF WrPtr
<1>6. writeIndex' = IF kind = "skip" THEN writeIndex ELSE WrPtr'
  BY <1>4, <1>5
<1> QED BY <1>1, <1>2, <1>3, <1>5, <1>6, Indexes, Ring

LEMMA PublishKeeps ==
  ASSUME TypeOK, QueueInv, UNCHANGED kind, NEW w \in Writers, WritePublish(w)
  PROVE  QueueInv'
<1>1. /\ OneWriter /\ WriterSees /\ ClientBehind
      /\ wpc \in [Writers -> {"idle", "lock", "readIndexes", "readWr", "put", "publish", "exit"}]
  BY DEF QueueInv, TypeOK
<1>2. /\ UNCHANGED <<kind, readIndex, slot, lock, reader, reset, wmsg, wrd, wwr>>
      /\ wpc[w] = "publish" /\ wpc'[w] = "exit" /\ \A v \in Writers : v # w => wpc'[v] = wpc[v]
  BY <1>1, PublishIs
<1>3. /\ writeIndex' \in Index
      /\ Distance(readIndex, writeIndex) <= Distance(readIndex, writeIndex')
      /\ Distance(readIndex, writeIndex') <= Distance(readIndex, WrPtr')
  <2>1. /\ Distance(readIndex, WrPtr') = Distance(readIndex, WrPtr) + 1
        /\ writeIndex' = IF kind = "skip" THEN writeIndex ELSE WrPtr'
        /\ WrPtr' = After(WrPtr)
    BY PublishIs
  <2>2. Distance(readIndex, writeIndex) <= Distance(readIndex, WrPtr)
    BY <1>1 DEF ClientBehind
  <2>3. WrPtr' \in Index /\ writeIndex \in Index
    BY <2>1, Indexes, Ring
  <2> QED BY <2>1, <2>2, <2>3, Indexes
<1>4. OneWriter'
  BY <1>1, <1>2 DEF OneWriter, InWrite, reset
<1>5. WriterSees'
  <2> SUFFICES ASSUME NEW v \in Writers
               PROVE  /\ wpc'[v] # "idle" => wmsg[v] \in Payloads
                      /\ wpc'[v] \notin {"readWr", "put", "publish"}
    BY <1>2 DEF WriterSees
  <2>1. wpc[v] # "idle" => wmsg[v] \in Payloads
    BY <1>1 DEF WriterSees
  <2>2. CASE v = w
    BY <1>2, <2>1, <2>2
  <2>3. CASE v # w
    <3>1. wpc[v] \notin InWrite
      BY <1>1, <1>2, <2>3, Alone DEF InWrite
    <3> QED BY <1>2, <2>1, <2>3, <3>1 DEF InWrite
  <2> QED BY <2>2, <2>3
<1>6. ClientBehind'
  BY <1>2, <1>3 DEF ClientBehind, Distance
<1> QED BY <1>2, <1>3, <1>4, <1>5, <1>6, HeaderGrows DEF QueueInv

LEMMA ClientKeeps ==
  ASSUME TypeOK, QueueInv, UNCHANGED kind, ClientMovesWriteIndex
  PROVE  QueueInv'
<1>1. /\ UNCHANGED <<kind, readIndex, txWm, slot, lock, writer, reader, reset>>
      /\ WrPtr' = WrPtr /\ writeIndex' = WrPtr
  BY DEF ClientMovesWriteIndex, WrPtr
<1>2. OneWriter /\ WriterSees /\ ClientBehind
  BY DEF QueueInv
<1>3. OneWriter' /\ WriterSees'
  BY <1>1, <1>2 DEF OneWriter, WriterSees, Distance, writer, reset
<1>4. /\ Distance(readIndex, writeIndex) <= Distance(readIndex, writeIndex')
      /\ writeIndex' \in Index /\ Distance(readIndex, writeIndex') \in Nat
  BY <1>1, <1>2, Indexes DEF ClientBehind
<1>5. ClientBehind'
  BY <1>1, <1>4 DEF ClientBehind, Distance
<1> QED BY <1>1, <1>3, <1>4, <1>5, HeaderGrows DEF QueueInv

\* What a successful read finds and leaves.
LEMMA ReadIs ==
  ASSUME TypeOK, QueueInv, UNCHANGED kind, ReadPublish
  PROVE  /\ UNCHANGED <<kind, writeIndex, txWm, slot, lock, writer, reset, rwr>> /\ WrPtr' = WrPtr
         /\ spc = "idle" /\ rpc' = "idle" /\ more' = (After(readIndex) # rwr)
         /\ readIndex' = After(readIndex) /\ delivered' = slot[readIndex]
         /\ Distance(readIndex, rwr) > 0 /\ Distance(readIndex, rwr) <= Distance(readIndex, writeIndex)
         /\ Distance(readIndex, writeIndex) <= Distance(readIndex, WrPtr)
<1>1. /\ UNCHANGED <<kind, writeIndex, txWm, slot, lock, writer, reset, rwr>>
      /\ rpc = "publish" /\ rpc' = "idle" /\ readIndex' = After(rrd) /\ delivered' = payload
      /\ more' = MoreLeft(After(rrd), rwr)
  BY DEF ReadPublish
<1>2. /\ rrd = readIndex /\ spc = "idle" /\ payload = slot[rrd] /\ rrd # rwr
      /\ Distance(rrd, rwr) <= Distance(readIndex, writeIndex)
      /\ Distance(readIndex, writeIndex) <= Distance(readIndex, WrPtr)
  BY <1>1 DEF QueueInv, ReaderSees, ClientBehind
<1>3. Distance(readIndex, rwr) > 0
  <2>1. readIndex \in Index /\ rwr \in Index /\ readIndex # rwr
    BY <1>2 DEF TypeOK
  <2>2. Distance(readIndex, rwr) \in Nat /\ Distance(readIndex, rwr) # 0
    BY <2>1, Indexes, Ring
  <2> QED BY <2>2
<1>4. WrPtr' = WrPtr
  BY <1>1 DEF WrPtr
<1>5. more' = (After(readIndex) # rwr)
  BY <1>1, <1>2, Zenon DEF MoreLeft
<1> QED BY <1>1, <1>2, <1>3, <1>4, <1>5

LEMMA ReaderKeeps ==
  ASSUME QuietReset, TypeOK, QueueInv, UNCHANGED kind, ReaderStep
  PROVE  QueueInv'
<1>1. OneWriter /\ WriterSees /\ ClientBehind /\ ReaderSees /\ ResetSees
  BY DEF QueueInv
<1>2. ASSUME UNCHANGED <<header, slot, lock, writer, reset>>
      PROVE  /\ OneWriter' /\ WriterSees' /\ ClientBehind' /\ ResetSees'
             /\ UNCHANGED <<readIndex, writeIndex, WrPtr, slot, spc, resets>>
  <2>1. UNCHANGED <<readIndex, writeIndex, WrPtr, kind, slot, lock, wpc, wmsg, wrd, wwr, spc, sidx, resets>>
    BY <1>2 DEF header, writer, reset, WrPtr
  <2> QED BY <1>1, <2>1 DEF OneWriter, WriterSees, ClientBehind, ResetSees, Distance
<1>3. CASE ReadIndexes
  <2>1. UNCHANGED <<header, slot, lock, writer, reset>> /\ rrd' = readIndex /\ rpc' = "readWr" /\ spc = "idle"
    BY <1>3 DEF ReadIndexes
  <2>2. ReaderSees'
    BY <1>2, <2>1 DEF ReaderSees
  <2> QED BY <1>2, <2>1, <2>2 DEF QueueInv
<1>4. CASE ReadWr
  <2>1. /\ UNCHANGED <<header, slot, lock, writer, reset>> /\ UNCHANGED rrd
        /\ rpc = "readWr" /\ rwr' = writeIndex
        /\ rpc' = IF rrd = writeIndex THEN "idle" ELSE "get"
        /\ more' = IF rrd = writeIndex THEN FALSE ELSE more
    BY <1>4 DEF ReadWr
  <2>2. rrd = readIndex /\ spc = "idle"
    BY <1>1, <2>1 DEF ReaderSees
  <2>3. Distance(rrd, rwr)' = Distance(readIndex, writeIndex)
        /\ Distance(readIndex, writeIndex)' = Distance(readIndex, writeIndex)
    BY <1>2, <2>1, <2>2 DEF Distance
  <2>4. ReaderSees'
    <3>1. CASE rrd = writeIndex
      BY <1>2, <2>1, <2>2, <3>1 DEF ReaderSees
    <3>2. CASE rrd # writeIndex
      BY <1>2, <2>1, <2>2, <2>3, <3>2, Indexes DEF ReaderSees
    <3> QED BY <3>1, <3>2
  <2> QED BY <1>2, <2>1, <2>4 DEF QueueInv
<1>5. CASE ReadPayload
  <2>1. /\ UNCHANGED <<header, slot, lock, writer, reset>> /\ UNCHANGED <<rrd, rwr, more>>
        /\ rpc = "get" /\ rpc' = "publish" /\ payload' = slot[rrd]
    BY <1>5 DEF ReadPayload
  <2>2. ReaderSees'
    BY <1>1, <1>2, <2>1 DEF ReaderSees, Distance
  <2> QED BY <1>2, <2>1, <2>2 DEF QueueInv
<1>6. CASE ReadPublish
  <2>1. /\ UNCHANGED <<kind, writeIndex, txWm, slot, lock, writer, reset, rwr>> /\ WrPtr' = WrPtr
        /\ spc = "idle" /\ rpc' = "idle" /\ more' = (After(readIndex) # rwr)
        /\ readIndex' = After(readIndex)
        /\ Distance(readIndex, rwr) > 0 /\ Distance(readIndex, rwr) <= Distance(readIndex, writeIndex)
        /\ Distance(readIndex, writeIndex) <= Distance(readIndex, WrPtr)
    BY <1>6, ReadIs
  <2>2. /\ {readIndex, writeIndex, WrPtr, rwr, readIndex'} \subseteq Index
        /\ Distance(readIndex, rwr) \in Nat /\ Distance(readIndex, writeIndex) \in Nat
        /\ Distance(readIndex, WrPtr) \in Nat
    BY <2>1, Indexes, Ring DEF TypeOK
  <2>3. /\ Distance(readIndex', rwr) = Distance(readIndex, rwr) - 1
        /\ Distance(readIndex', writeIndex) = Distance(readIndex, writeIndex) - 1
        /\ Distance(readIndex', WrPtr) = Distance(readIndex, WrPtr) - 1
    BY <2>1, <2>2, Ring
  <2>4. OneWriter' /\ ResetSees'
    BY <1>1, <2>1 DEF OneWriter, ResetSees, Distance, writer, reset
  <2>5. WriterSees'
    <3> SUFFICES ASSUME NEW v \in Writers
                 PROVE  /\ wpc[v] # "idle" => wmsg[v] \in Payloads
                        /\ wpc[v] = "readWr" => Distance(readIndex', WrPtr) <= Distance(wrd[v], WrPtr)
                        /\ wpc[v] \in {"put", "publish"} =>
                                wwr[v] = WrPtr /\ Distance(readIndex', WrPtr) < Entries - 1
                        /\ wpc[v] = "publish" => slot[wwr[v]] = wmsg[v]
      BY <2>1 DEF WriterSees, Distance, writer
    <3>1. Distance(wrd[v], WrPtr) \in Nat
      BY <2>2, Indexes, Ring DEF TypeOK
    <3> QED BY <1>1, <2>2, <2>3, <3>1, Indexes DEF WriterSees
  <2>6. ClientBehind'
    <3>1. Distance(readIndex', writeIndex) <= Distance(readIndex', WrPtr)
      BY <2>1, <2>2, <2>3
    <3> QED BY <2>1, <3>1 DEF ClientBehind, Distance
  <2>7. ReaderSees'
    <3>1. After(readIndex) # rwr => readIndex' # writeIndex
      BY <2>1, <2>2, <2>3, Ring
    <3> QED BY <2>1, <3>1 DEF ReaderSees
  <2> QED BY <2>4, <2>5, <2>6, <2>7 DEF QueueInv
<1> QED BY <1>3, <1>4, <1>5, <1>6 DEF ReaderStep

\* What the last step of a reset finds and leaves.
LEMMA ResetIs ==
  ASSUME TypeOK, QueueInv, UNCHANGED kind, ResetWriteIndex
  PROVE  /\ UNCHANGED <<kind, txWm, slot, calls, writer, reader, sidx, resets>>
         /\ spc = "set" /\ spc' = "idle" /\ resets # 0 /\ rpc = "idle"
         /\ lock' = IF kind = "rx" THEN Nobody ELSE lock
         /\ kind = "rx" => readIndex' = readIndex /\ writeIndex' = readIndex /\ WrPtr' = readIndex
         /\ kind # "rx" => /\ readIndex' = sidx /\ writeIndex' = writeIndex /\ WrPtr' = WrPtr
                           /\ Distance(readIndex, sidx) <= Distance(readIndex, writeIndex)
                           /\ Distance(readIndex, writeIndex) <= Distance(readIndex, WrPtr)
<1>1. /\ UNCHANGED <<kind, txWm, slot, calls, writer, reader, sidx, resets>>
      /\ spc = "set" /\ spc' = "idle" /\ lock' = IF kind = "rx" THEN Nobody ELSE lock
  BY DEF ResetWriteIndex, SetIndex, LockClientQueue
<1>2. resets # 0 /\ rpc = "idle"
  BY <1>1 DEF QueueInv, ResetSees, ReaderSees
<1>3. CASE kind = "rx"
  <2>1. readIndex' = readIndex /\ writeIndex' = sidx /\ sidx = readIndex
    BY <1>1, <1>3 DEF ResetWriteIndex, SetIndex, QueueInv, ResetSees
  <2> QED BY <1>1, <1>2, <1>3, <2>1 DEF WrPtr
<1>4. CASE kind # "rx"
  <2>1. readIndex' = sidx /\ writeIndex' = writeIndex
    BY <1>4 DEF ResetWriteIndex, SetIndex
  <2>2. /\ Distance(readIndex, sidx) <= Distance(readIndex, writeIndex)
        /\ Distance(readIndex, writeIndex) <= Distance(readIndex, WrPtr)
    BY <1>1, <1>4 DEF QueueInv, ResetSees, ClientBehind
  <2> QED BY <1>1, <1>2, <1>4, <2>1, <2>2 DEF WrPtr
<1> QED BY <1>3, <1>4

LEMMA ResetKeeps ==
  ASSUME QuietReset, TypeOK, QueueInv, UNCHANGED kind, ResetStep
  PROVE  QueueInv'
<1>1. OneWriter /\ WriterSees /\ ClientBehind /\ ReaderSees /\ ResetSees
  BY DEF QueueInv
<1>2. ASSUME UNCHANGED <<header, slot, writer>>
      PROVE  /\ WriterSees' /\ ClientBehind'
             /\ UNCHANGED <<readIndex, writeIndex, kind, slot, wpc>>
  <2>1. UNCHANGED <<readIndex, writeIndex, WrPtr, kind, slot, wpc, wmsg, wrd, wwr>>
    BY <1>2 DEF header, writer, WrPtr
  <2> QED BY <1>1, <2>1 DEF WriterSees, ClientBehind, Distance
<1>3. CASE ResetStart
  <2>1. /\ UNCHANGED <<header, slot, calls, writer, reader, sidx>>
        /\ resets' = resets + 1 /\ resets \in Nat /\ rpc = "idle" /\ spc' = "get" /\ rpc' = "idle"
    BY <1>3 DEF ResetStart, TypeOK, reader
  <2>2. kind = "rx" => lock = Nobody /\ lock' = Resetter
    BY <1>3 DEF ResetStart, LockClientQueue
  <2>3. OneWriter'
    BY <1>1, <1>2, <2>1, <2>2, QueueAssumption DEF OneWriter
  <2>4. resets' # 0
    BY <2>1
  <2>5. ReaderSees' /\ ResetSees'
    BY <2>1, <2>4 DEF ReaderSees, ResetSees
  <2> QED BY <1>2, <2>1, <2>3, <2>5 DEF QueueInv
<1>4. CASE ResetReadIndex
  <2>1. /\ UNCHANGED <<header, slot, lock, calls, writer, reader, resets>>
        /\ spc = "get" /\ spc' = "set" /\ sidx' = IF kind = "rx" THEN readIndex ELSE writeIndex
    BY <1>4 DEF ResetReadIndex
  <2>2. OneWriter'
    BY <1>1, <1>2, <2>1 DEF OneWriter
  <2>3. ReaderSees'
    BY <1>1, <1>2, <2>1 DEF ReaderSees, Distance, reader
  <2>4. ResetSees'
    <3>1. kind # "rx" => Distance(readIndex, sidx)' = Distance(readIndex, writeIndex)
          /\ Distance(readIndex, writeIndex)' = Distance(readIndex, writeIndex)
      BY <1>2, <2>1 DEF Distance
    <3> QED BY <1>1, <1>2, <2>1, <3>1, Indexes DEF ResetSees
  <2> QED BY <1>2, <2>1, <2>2, <2>3, <2>4 DEF QueueInv
<1>5. CASE ResetWriteIndex
  <2>1. /\ UNCHANGED <<kind, txWm, slot, calls, writer, reader, sidx, resets>>
        /\ spc = "set" /\ spc' = "idle" /\ resets # 0 /\ rpc = "idle"
        /\ lock' = IF kind = "rx" THEN Nobody ELSE lock
    BY <1>5, ResetIs
  <2>2. UNCHANGED <<wpc, wmsg, wrd, wwr, rpc>>
    BY <2>1 DEF writer, reader
  <2>3. OneWriter'
    BY <1>1, <2>1, <2>2, QueueAssumption DEF OneWriter, InWrite
  <2>4. ReaderSees' /\ ResetSees'
    BY <2>1, <2>2 DEF ReaderSees, ResetSees
  <2>5. WriterSees' /\ ClientBehind'
    <3>1. CASE kind = "rx"
      <4>1. \A v \in Writers : wpc[v] \notin InWrite
        BY <1>1, <2>1, <3>1, QueueAssumption DEF OneWriter
      <4>2. WriterSees'
        BY <1>1, <2>2, <4>1 DEF WriterSees, InWrite
      <4>3. readIndex' = readIndex /\ writeIndex' = readIndex /\ WrPtr' = readIndex
        BY <1>5, <3>1, ResetIs
      <4>4. Distance(readIndex, readIndex) \in Nat
        BY Indexes, Ring
      <4>5. ClientBehind'
        BY <4>3, <4>4 DEF ClientBehind, Distance
      <4> QED BY <4>2, <4>5
    <3>2. CASE kind # "rx"
      <4>1. /\ readIndex' = sidx /\ writeIndex' = writeIndex /\ WrPtr' = WrPtr
            /\ Distance(readIndex, sidx) <= Distance(readIndex, writeIndex)
            /\ Distance(readIndex, writeIndex) <= Distance(readIndex, WrPtr)
        BY <1>5, <3>2, ResetIs
      <4>2. /\ {readIndex, writeIndex, WrPtr, sidx} \subseteq Index
            /\ Distance(readIndex, sidx) \in Nat /\ Distance(readIndex, writeIndex) \in Nat
            /\ Distance(readIndex, WrPtr) \in Nat
        BY Indexes, Ring, ZenonT(30) DEF TypeOK
      <4>3. /\ Distance(sidx, writeIndex) = Distance(readIndex, writeIndex) - Distance(readIndex, sidx)
            /\ Distance(sidx, WrPtr) = Distance(readIndex, WrPtr) - Distance(readIndex, sidx)
        BY <4>1, <4>2, Between
      <4>4. /\ Distance(sidx, writeIndex) <= Distance(sidx, WrPtr)
            /\ Distance(sidx, WrPtr) <= Distance(readIndex, WrPtr) /\ Distance(sidx, WrPtr) \in Nat
        BY <4>1, <4>2, <4>3
      <4>5. ClientBehind'
        BY <4>1, <4>4 DEF ClientBehind, Distance
      <4>6. WriterSees'
        <5> SUFFICES ASSUME NEW v \in Writers
                     PROVE  /\ wpc[v] # "idle" => wmsg[v] \in Payloads
                            /\ wpc[v] = "readWr" => Distance(sidx, WrPtr) <= Distance(wrd[v], WrPtr)
                            /\ wpc[v] \in {"put", "publish"} =>
                                    wwr[v] = WrPtr /\ Distance(sidx, WrPtr) < Entries - 1
                            /\ wpc[v] = "publish" => slot[wwr[v]] = wmsg[v]
          BY <2>1, <2>2, <4>1 DEF WriterSees, Distance
        <5>1. Distance(wrd[v], WrPtr) \in Nat
          BY <4>2, Indexes, Ring DEF TypeOK
        <5> QED BY <1>1, <4>2, <4>4, <5>1, Indexes DEF WriterSees
      <4> QED BY <4>5, <4>6
    <3> QED BY <3>1, <3>2
  <2> QED BY <2>3, <2>4, <2>5 DEF QueueInv
<1> QED BY <1>3, <1>4, <1>5 DEF ResetStep

LEMMA QueueStep ==
  ASSUME QuietReset, TypeOK, QueueInv, [Next]_vars
  PROVE  QueueInv'
<1>1. CASE UNCHANGED vars
  <2>1. UNCHANGED <<kind, readIndex, writeIndex, WrPtr, slot, lock, wpc, wmsg, wrd, wwr,
                    rpc, rrd, rwr, payload, more, spc, sidx, resets>>
    BY <1>1 DEF vars, header, writer, reader, reset, WrPtr
  <2> QED BY <2>1 DEF QueueInv, OneWriter, WriterSees, ClientBehind, ReaderSees, ResetSees, Distance
<1>2. CASE Next
  BY <1>2, WriterKeeps, PublishKeeps, ClientKeeps, ReaderKeeps, ResetKeeps DEF Next
<1> QED BY <1>1, <1>2

\* What a thread that has read an index, a payload or a lock word may still rely
\* on when it uses it (hw_fence_update_queue, hw_fence_read_queue,
\* hw_fence_utils_reset_queues): one writer moves the write pointer, it never
\* overtakes the reader, and what the reader saw has not been overwritten.
THEOREM QueueInvariant == QuietReset => (Spec => []QueueInv)
<1> SUFFICES ASSUME QuietReset PROVE Spec => []QueueInv
  OBVIOUS
<1>1. TypeOK /\ QueueInv /\ [Next]_vars => QueueInv'
  BY QueueStep
<1> QED BY InitQueue, TypeCorrect, <1>1, PTL DEF Spec

\* hw_fence_read_queue returns 1 only if the next read finds a payload.
THEOREM MoreMeans == QuietReset => (Spec => []MoreMeansMore)
<1> SUFFICES ASSUME QuietReset PROVE Spec => []MoreMeansMore
  OBVIOUS
<1>1. ASSUME TypeOK, QueueInv
      PROVE  MoreMeansMore
  <2> SUFFICES ASSUME more, rpc = "idle", resets = 0 PROVE Contents # <<>>
    BY DEF MoreMeansMore
  <2>1. readIndex # writeIndex /\ Distance(readIndex, writeIndex) <= Distance(readIndex, WrPtr)
    BY <1>1 DEF QueueInv, ReaderSees, ClientBehind
  <2>2. Distance(readIndex, WrPtr) >= 1
    BY <1>1, <2>1, Indexes, Ring
  <2>3. Contents # <<>>
    <3>1. PICK n \in Nat : n = Distance(readIndex, WrPtr) /\ n >= 1
      BY <1>1, <2>2, Indexes
    <3>2. Contents = [k \in 1..n |-> slot[(readIndex + k - 1) % Entries]]
      BY <3>1 DEF Contents
    <3>3. DOMAIN Contents = 1..n /\ 1 \in 1..n
      BY <3>1, <3>2
    <3> QED BY <3>3
  <2> QED BY <2>3
<1> QED BY <1>1, TypeCorrect, QueueInvariant, PTL

-----------------------------------------------------------------------------
(* The queue is a bounded FIFO *)

Entry == Payloads \cup {Nothing}

\* The n entries from index a on.
Held(s, a, n) == [k \in 1..n |-> s[(a + k - 1) % Entries]]

LEMMA HeldIs ==
  ASSUME NEW s \in [Index -> Entry], NEW a \in Index, NEW n \in 0..Entries
  PROVE  /\ Held(s, a, n) \in Seq(Entry) /\ Len(Held(s, a, n)) = n
         /\ \A k \in 1..n : Held(s, a, n)[k] = s[Place(a, k)]
<1>1. \A k \in 1..n : k \in 1..Entries
  BY QueueAssumption
<1>2. \A k \in 1..n : Place(a, k) \in Index
  BY <1>1, PlaceIs
<1>3. Held(s, a, n) = [k \in 1..n |-> s[Place(a, k)]]
  BY DEF Held, Place
<1>4. [k \in 1..n |-> s[Place(a, k)]] \in [1..n -> Entry]
  BY <1>2
<1>5. n \in Nat
  BY QueueAssumption
<1> QED BY <1>3, <1>4, <1>5

LEMMA HeldSame ==
  ASSUME NEW s \in [Index -> Entry], NEW t \in [Index -> Entry], NEW a \in Index, NEW n \in 0..Entries,
         \A k \in 1..n : s[Place(a, k)] = t[Place(a, k)]
  PROVE  Held(s, a, n) = Held(t, a, n)
BY DEF Held, Place

LEMMA HeldNone ==
  ASSUME NEW s \in [Index -> Entry], NEW a \in Index, NEW n \in 0..Entries
  PROVE  Held(s, a, n) = <<>> <=> n = 0
<1>1. Held(s, a, n) \in Seq(Entry) /\ Len(Held(s, a, n)) = n
  BY HeldIs
<1> QED BY <1>1, EmptySeq

LEMMA HeldAppend ==
  ASSUME NEW s \in [Index -> Entry], NEW a \in Index, NEW n \in 0..Entries, n + 1 \in 0..Entries
  PROVE  Held(s, a, n + 1) = Append(Held(s, a, n), s[Place(a, n + 1)])
<1> DEFINE h == Held(s, a, n)
           g == Held(s, a, n + 1)
           e == s[Place(a, n + 1)]
<1>1. n + 1 \in 1..Entries /\ n \in Nat
  BY QueueAssumption
<1>2. e \in Entry
  BY <1>1, PlaceIs
<1>3. /\ h \in Seq(Entry) /\ Len(h) = n /\ \A k \in 1..n : h[k] = s[Place(a, k)]
      /\ g \in Seq(Entry) /\ Len(g) = n + 1 /\ \A k \in 1..(n + 1) : g[k] = s[Place(a, k)]
  BY HeldIs
<1>4. g[n + 1] = e /\ \A k \in 1..n : g[k] = h[k]
  BY <1>1, <1>3
<1> HIDE DEF h, g, e
<1>5. /\ Append(h, e) \in Seq(Entry) /\ Len(Append(h, e)) = n + 1
      /\ \A k \in 1..n : Append(h, e)[k] = h[k]
      /\ Append(h, e)[n + 1] = e
  BY <1>2, <1>3, AppendProperties
<1>6. \A k \in 1..(n + 1) : k \in 1..n \/ k = n + 1
  BY <1>1
<1>7. \A k \in 1..(n + 1) : g[k] = Append(h, e)[k]
  BY <1>4, <1>5, <1>6
<1>8. g = Append(h, e)
  BY <1>3, <1>5, <1>7, SeqEqual
<1> QED BY <1>8 DEF g, h, e

\* Without its first m entries a sequence of entries starts at a later index.
LEMMA HeldDrop ==
  ASSUME NEW s \in [Index -> Entry], NEW a \in Index, NEW b \in Index, NEW n \in 0..Entries,
         Distance(a, b) <= n
  PROVE  Held(s, b, n - Distance(a, b)) = SubSeq(Held(s, a, n), Distance(a, b) + 1, n)
<1>1. PICK m \in Nat : m = Distance(a, b)
  BY Ring, QueueAssumption DEF Index
<1> DEFINE h == Held(s, a, n)
           g == Held(s, b, n - m)
<1>2. n \in Nat /\ m <= n /\ n - m \in 0..Entries
  BY <1>1, QueueAssumption
<1>3. /\ h \in Seq(Entry) /\ Len(h) = n /\ \A k \in 1..n : h[k] = s[Place(a, k)]
      /\ g \in Seq(Entry) /\ Len(g) = n - m /\ \A k \in 1..(n - m) : g[k] = s[Place(b, k)]
  BY <1>2, HeldIs
<1>4. ASSUME NEW k \in 1..(n - m)
      PROVE  g[k] = h[m + k]
  <2>1. k \in 1..Entries /\ m + k <= Entries /\ m + k \in 1..n
    BY <1>2, QueueAssumption
  <2>2. Place(b, k) = Place(a, m + k)
    BY <1>1, <2>1, Places
  <2> QED BY <1>3, <2>1, <2>2
<1> HIDE DEF h, g
<1>5. /\ SubSeq(h, m + 1, n) \in Seq(Entry)
      /\ Len(SubSeq(h, m + 1, n)) = n - m
      /\ \A k \in 1..(n - m) : SubSeq(h, m + 1, n)[k] = h[m + k]
  <2>1. m + 1 \in Int /\ n \in Int /\ \A i \in (m + 1)..n : i \in 1..Len(h)
    BY <1>2, <1>3
  <2>2. \A i \in (m + 1)..n : h[i] \in Entry
    BY <1>3, <2>1, ElementOfSeq
  <2>3. /\ SubSeq(h, m + 1, n) \in Seq(Entry)
        /\ Len(SubSeq(h, m + 1, n)) = IF m + 1 <= n THEN n - (m + 1) + 1 ELSE 0
        /\ \A i \in 1..(n - (m + 1) + 1) : SubSeq(h, m + 1, n)[i] = h[m + 1 + i - 1]
    BY <2>1, <2>2, SubSeqProperties
  <2>4. n - (m + 1) + 1 = n - m /\ (IF m + 1 <= n THEN n - (m + 1) + 1 ELSE 0) = n - m
    BY <1>2
  <2>5. \A k \in 1..(n - m) : m + 1 + k - 1 = m + k
    BY <1>2
  <2> QED BY <2>3, <2>4, <2>5
<1>6. g = SubSeq(h, m + 1, n)
  BY <1>3, <1>4, <1>5, SeqEqual
<1> QED BY <1>1, <1>6 DEF g, h

LEMMA ContentsAre ==
  ASSUME TypeOK
  PROVE  /\ slot \in [Index -> Entry] /\ Distance(readIndex, WrPtr) \in 0..Entries
         /\ Contents = Held(slot, readIndex, Distance(readIndex, WrPtr))
         /\ Contents \in Seq(Entry) /\ Len(Contents) = Distance(readIndex, WrPtr)
         /\ Contents = <<>> <=> Distance(readIndex, WrPtr) = 0
<1>1. slot \in [Index -> Entry]
  BY DEF TypeOK, Entry
<1>2. readIndex \in Index /\ Distance(readIndex, WrPtr) \in 0..Entries
  BY Indexes, Ring, QueueAssumption DEF Index
<1>3. Contents = Held(slot, readIndex, Distance(readIndex, WrPtr))
  BY DEF Contents, Held
<1> QED BY <1>1, <1>2, <1>3, HeldIs, HeldNone

LEMMA RxReset ==
  ASSUME TypeOK, TypeOK', QueueInv, UNCHANGED kind, kind = "rx", ResetWriteIndex
  PROVE  Contents' = <<>>
<1>1. readIndex' = readIndex /\ WrPtr' = readIndex /\ readIndex \in Index /\ slot' \in [Index -> Entry]
  BY ResetIs, Indexes DEF TypeOK, Entry
<1>2. Distance(readIndex', WrPtr') = 0 /\ 0 \in 0..Entries
  BY <1>1, Ring, QueueAssumption
<1>3. Contents' = Held(slot', readIndex', Distance(readIndex', WrPtr'))
  BY DEF Contents, Held, Distance
<1> QED BY <1>1, <1>2, <1>3, HeldNone

\* What a step does to the contents of the queue.
LEMMA StepRefines ==
  ASSUME QuietReset, TypeOK, TypeOK', QueueInv, [Next]_vars
  PROVE  \/ UNCHANGED <<Contents, delivered>>
         \/ (\E p \in Payloads : Fifo!Put(p)) /\ \E w \in Writers : wpc[w] = "publish"
         \/ Fifo!Take
         \/ \E n \in 1..Len(Contents) : Fifo!Discard(n)
<1> DEFINE d == Distance(readIndex, WrPtr)
<1>1. /\ slot \in [Index -> Entry] /\ slot' \in [Index -> Entry] /\ d \in 0..Entries /\ d \in Nat
      /\ readIndex \in Index /\ WrPtr \in Index /\ readIndex' \in Index /\ WrPtr' \in Index
      /\ Contents = Held(slot, readIndex, d) /\ Contents \in Seq(Entry) /\ Len(Contents) = d
      /\ Contents = <<>> <=> d = 0
  BY ContentsAre, Indexes DEF TypeOK, WrPtr, Entry
<1>2. Contents' = Held(slot', readIndex', Distance(readIndex', WrPtr'))
  BY DEF Contents, Held, Distance
<1>3. ASSUME UNCHANGED <<readIndex, WrPtr, slot>>
      PROVE  UNCHANGED Contents
  BY <1>1, <1>2, <1>3
<1>4. CASE UNCHANGED vars
  BY <1>3, <1>4 DEF vars, header, reader, WrPtr
<1>5. ASSUME UNCHANGED kind, NEW w \in Writers, WriterStep(w), ~WritePublish(w)
      PROVE  UNCHANGED <<Contents, delivered>>
  <2>1. UNCHANGED <<readIndex, WrPtr, delivered>>
    BY <1>5 DEF WriterStep, WriteStart, WriteLock, WriteReadRd, WriteReadWr, WritePayload, WriteExit,
                WrPtr, header, reader
  <2>2. CASE UNCHANGED slot
    BY <1>3, <2>1, <2>2
  <2>3. CASE WritePayload(w)
    <3>1. wwr[w] = WrPtr /\ slot' = [slot EXCEPT ![wwr[w]] = wmsg[w]]
      BY <2>3 DEF WritePayload, WGoto, QueueInv, WriterSees
    <3>2. ASSUME NEW k \in 1..d
          PROVE  slot'[Place(readIndex, k)] = slot[Place(readIndex, k)]
      <4>1. Place(readIndex, k) \in Index /\ Place(readIndex, k) # WrPtr
        BY <1>1, Places
      <4> QED BY <1>1, <3>1, <4>1
    <3>3. Held(slot', readIndex, d) = Held(slot, readIndex, d)
      BY <1>1, <3>2, HeldSame
    <3> QED BY <1>1, <1>2, <2>1, <3>3
  <2>4. ~WritePayload(w) => UNCHANGED slot
    BY <1>5 DEF WriterStep, WriteStart, WriteLock, WriteReadRd, WriteReadWr, WriteExit
  <2> QED BY <2>2, <2>3, <2>4
<1>6. ASSUME UNCHANGED kind, NEW w \in Writers, WritePublish(w)
      PROVE  (\E p \in Payloads : Fifo!Put(p)) /\ wpc[w] = "publish"
  <2>1. /\ UNCHANGED <<readIndex, slot, delivered>> /\ wpc[w] = "publish"
        /\ slot[WrPtr] = wmsg[w] /\ wmsg[w] \in Payloads /\ d < Entries - 1
        /\ Distance(readIndex, WrPtr') = d + 1
    BY <1>6, PublishIs DEF reader
  <2>2. Contents' = Held(slot, readIndex, d + 1)
    BY <1>2, <2>1
  <2>3. d + 1 \in 0..Entries
    BY <1>1, <2>1, QueueAssumption
  <2>4. Place(readIndex, d + 1) = WrPtr
    BY <1>1, Places
  <2>5. Contents' = Append(Contents, wmsg[w])
    BY <1>1, <2>1, <2>2, <2>3, <2>4, HeldAppend
  <2>6. Fifo!Put(wmsg[w])
    BY <1>1, <2>1, <2>5 DEF Fifo!Put
  <2> QED BY <2>1, <2>6
<1>7. CASE UNCHANGED kind /\ ClientMovesWriteIndex
  BY <1>3, <1>7 DEF ClientMovesWriteIndex, WrPtr, reader
<1>8. CASE UNCHANGED kind /\ ReaderStep
  <2>1. CASE ReadIndexes \/ ReadWr \/ ReadPayload
    BY <1>3, <1>8, <2>1 DEF ReadIndexes, ReadWr, ReadPayload, WrPtr, header
  <2>2. CASE ReadPublish
    <3>1. /\ UNCHANGED <<slot, WrPtr>> /\ readIndex' = After(readIndex) /\ delivered' = slot[readIndex]
          /\ Distance(readIndex, rwr) > 0 /\ Distance(readIndex, rwr) <= Distance(readIndex, writeIndex)
          /\ Distance(readIndex, writeIndex) <= d
      BY <1>8, <2>2, ReadIs
    <3>2. d > 0
      <4>1. Distance(readIndex, rwr) \in Nat
        BY <1>1, Indexes, Ring DEF TypeOK
      <4> QED BY <1>1, <3>1, <4>1, Indexes
    <3>3. Distance(readIndex', WrPtr') = d - 1
      BY <1>1, <3>1, <3>2, Ring
    <3>4. Distance(readIndex, readIndex') = 1
      <4>1. Entries > 1
        BY <1>1, <3>2, QueueAssumption DEF Index, Distance
      <4> QED BY <1>1, <3>1, <4>1, QueueAssumption DEF Index, Distance, After
    <3>5. Contents' = SubSeq(Contents, 2, d)
      <4>1. Contents' = Held(slot, readIndex', d - 1)
        BY <1>2, <3>1, <3>3
      <4>2. Held(slot, readIndex', d - Distance(readIndex, readIndex'))
              = SubSeq(Held(slot, readIndex, d), Distance(readIndex, readIndex') + 1, d)
        <5>1. Distance(readIndex, readIndex') <= d
          BY <1>1, <3>2, <3>4
        <5> QED BY <1>1, <5>1, HeldDrop
      <4>3. 1 + 1 = 2
        OBVIOUS
      <4> QED BY <1>1, <3>4, <4>1, <4>2, <4>3
    <3>6. Contents # <<>> /\ Contents' = Tail(Contents)
      <4>1. Contents # <<>>
        BY <1>1, <3>2
      <4> QED BY <1>1, <3>5, <4>1, TailIsSubSeq
    <3>7. Head(Contents) = Contents[1] /\ Contents[1] = slot[readIndex]
      <4>1. 1 \in 1..d /\ Place(readIndex, 1) = readIndex
        BY <1>1, <3>2, Places
      <4> QED BY <1>1, <4>1, HeldIs
    <3> QED BY <3>1, <3>6, <3>7 DEF Fifo!Take
  <2> QED BY <1>8, <2>1, <2>2 DEF ReaderStep
<1>9. CASE UNCHANGED kind /\ ResetStep
  <2>1. CASE ResetStart \/ ResetReadIndex
    BY <1>3, <1>9, <2>1 DEF ResetStart, ResetReadIndex, WrPtr, header, reader
  <2>2. CASE ResetWriteIndex
    <3>1. UNCHANGED <<slot, delivered>>
      BY <1>9, <2>2, ResetIs DEF reader
    <3>2. CASE kind = "rx"
      <4>1. Contents' = <<>>
        BY <1>9, <2>2, <3>2, RxReset
      <4>2. d = 0 => UNCHANGED Contents
        BY <1>1, <4>1
      <4>3. d # 0 => Fifo!Discard(d)
        <5>1. SubSeq(Contents, d + 1, d) = <<>>
          BY <1>1, SubSeqEmpty
        <5> QED BY <1>1, <3>1, <4>1, <5>1 DEF Fifo!Discard
      <4> QED BY <1>1, <3>1, <4>2, <4>3
    <3>3. CASE kind # "rx"
      <4> DEFINE m == Distance(readIndex, sidx)
      <4>1. /\ readIndex' = sidx /\ WrPtr' = WrPtr /\ m <= Distance(readIndex, writeIndex)
            /\ Distance(readIndex, writeIndex) <= d
        BY <1>9, <2>2, <3>3, ResetIs
      <4>2. m \in Nat /\ m <= d /\ sidx \in Index
        <5>1. sidx \in Index
          BY DEF TypeOK
        <5>2. m \in Nat
          BY <1>1, <5>1, Indexes, Ring
        <5> HIDE DEF m
        <5> QED BY <1>1, <4>1, <5>1, <5>2, Indexes
      <4>3. Distance(readIndex', WrPtr') = d - m
        BY <1>1, <4>1, <4>2, Between
      <4>4. Contents' = SubSeq(Contents, m + 1, d)
        BY <1>1, <1>2, <3>1, <4>1, <4>2, <4>3, HeldDrop
      <4>5. m = 0 => UNCHANGED Contents
        BY <1>1, <1>2, <3>1, <4>1, Ring
      <4>6. m # 0 => m \in 1..Len(Contents) /\ Fifo!Discard(m)
        BY <1>1, <3>1, <4>2, <4>4 DEF Fifo!Discard
      <4> QED BY <3>1, <4>5, <4>6
    <3> QED BY <3>2, <3>3
  <2> QED BY <1>9, <2>1, <2>2 DEF ResetStep
<1> QED BY <1>4, <1>5, <1>6, <1>7, <1>8, <1>9 DEF Next

\* hw_fence_update_queue and hw_fence_read_queue hand over payloads in order,
\* whole and once, in a ring of any size, whatever else happens meanwhile.
THEOREM Refinement == QuietReset => (Spec => ImplementsFifo)
<1> SUFFICES ASSUME QuietReset PROVE Spec => ImplementsFifo
  OBVIOUS
<1>1. Init => Fifo!Init
  <2> SUFFICES ASSUME Init PROVE Fifo!Init
    OBVIOUS
  <2>1. TypeOK /\ readIndex = WrPtr
    BY InitType DEF Init, WrPtr
  <2>2. Contents = <<>>
    BY <2>1, ContentsAre, Indexes, Ring
  <2> QED BY <2>2 DEF Init, Fifo!Init
<1>2. TypeOK /\ TypeOK' /\ QueueInv /\ [Next]_vars => [Fifo!Next]_<<Contents, delivered>>
  BY StepRefines DEF Fifo!Next
<1> QED BY <1>1, <1>2, TypeCorrect, QueueInvariant, PTL DEF Spec, ImplementsFifo, Fifo!Spec
=============================================================================
