---------------------------- MODULE HwFenceQueue ----------------------------
(***************************************************************************)
(* One queue of a client, in memory shared with the fence controller: the  *)
(* ring with the indexes of its HFI header, hw_fence_update_queue,         *)
(* hw_fence_read_queue and the part of hw_fence_utils_reset_queues that    *)
(* concerns it.  Indexes count entries: the code counts 32-bit words, and  *)
(* every index is a multiple of the payload size.                          *)
(*                                                                         *)
(* Rx queue: written by PVM threads and by the fence controller (external, *)
(* one of the Writers) under the client's lock word, of which InterVmLock  *)
(* shows that it has one owner; read by the client.  Tx queue: written by  *)
(* the client without a lock, read by the controller.  With                *)
(* skip_txq_wr_idx the driver moves tx_wm and the client itself moves      *)
(* write_index later.  Which of the three a queue is never changes.        *)
(***************************************************************************)
EXTENDS Naturals, Sequences

CONSTANTS Writers,          \* threads that call hw_fence_update_queue
          Resetter,         \* the thread in hw_fence_utils_reset_queues
          Entries,          \* q_size_u32 / payload_size_u32
          TxWriter,         \* the one that writes to a Tx queue
          QuietReset,       \* no read is in progress while a reset runs
          MaxWrites,        \* bound: calls of hw_fence_update_queue
          MaxResets,        \* bound: calls of hw_fence_utils_reset_queues
          Nobody, Nothing

ASSUME QueueAssumption ==
    /\ Entries \in Nat \ {0}
    /\ MaxWrites \in Nat /\ MaxResets \in Nat
    /\ QuietReset \in BOOLEAN /\ TxWriter \in Writers
    /\ Resetter \notin Writers /\ Nobody \notin Writers \cup {Resetter}
    /\ Nothing \notin 1..MaxWrites

VARIABLES kind,                         \* "rx", "tx", or "skip": Tx with skip_txq_wr_idx
          readIndex, writeIndex, txWm,  \* the HFI header
          slot,                         \* the entries
          lock,                         \* client_lock_tbl[client_id - 1]
          calls,                        \* writes started so far
          wpc, wmsg, wrd, wwr,          \* hw_fence_update_queue: its locals
          rpc, rrd, rwr, payload,       \* hw_fence_read_queue: its locals
          delivered, more,              \* the last successful read, its result
          spc, sidx, resets             \* hw_fence_utils_reset_queues

header == <<readIndex, writeIndex, txWm>>
writer == <<wpc, wmsg, wrd, wwr>>
reader == <<rpc, rrd, rwr, payload, delivered, more>>
reset == <<spc, sidx, resets>>
vars == <<kind, header, slot, lock, calls, writer, reader, reset>>

Index == 0 .. Entries - 1
Payloads == 1..MaxWrites

Init ==
    /\ kind \in {"rx", "tx", "skip"}
    /\ readIndex = 0 /\ writeIndex = 0 /\ txWm = 0
    /\ slot = [i \in Index |-> Nothing]
    /\ lock = Nobody
    /\ calls = 0
    /\ wpc = [w \in Writers |-> "idle"]
    /\ wmsg = [w \in Writers |-> Nothing]
    /\ wrd = [w \in Writers |-> 0]
    /\ wwr = [w \in Writers |-> 0]
    /\ rpc = "idle" /\ rrd = 0 /\ rwr = 0
    /\ payload = Nothing /\ delivered = Nothing /\ more = FALSE
    /\ spc = "idle" /\ sidx = 0 /\ resets = 0

-----------------------------------------------------------------------------
\* The index after i, back to the first entry after the last one.
NoWrap(i) == i + 1
After(i) == IF i + 1 >= Entries THEN 0 ELSE i + 1

\* q_free_u32: the distance the write index may still go.
Free(rd, wr) == IF rd <= wr THEN Entries - (wr - rd) ELSE rd - wr

\* One entry always stays free, to tell a full queue from an empty one.
CannotFit(rd, wr) == Free(rd, wr) <= 1

\* The index the driver's writer moves.
WrPtr == IF kind = "skip" THEN txWm ELSE writeIndex

SetWrPtr(i) ==
    IF kind = "skip"
    THEN txWm' = i /\ UNCHANGED <<readIndex, writeIndex>>
    ELSE writeIndex' = i /\ UNCHANGED <<readIndex, txWm>>

\* The result of a read that took a payload: something is left behind it.
AlwaysMore(next, wr) == TRUE
MoreLeft(next, wr) == next # wr

NeverLocks == FALSE
LockClientQueue == kind = "rx"

-----------------------------------------------------------------------------
(* hw_fence_update_queue *)

WGoto(w, from, to) == wpc[w] = from /\ wpc' = [wpc EXCEPT ![w] = to]

WriteStart(w) ==
    /\ calls < MaxWrites
    /\ kind # "rx" => w = TxWriter
    /\ calls' = calls + 1
    /\ WGoto(w, "idle", IF LockClientQueue THEN "lock" ELSE "readIndexes")
    /\ wmsg' = [wmsg EXCEPT ![w] = calls + 1]
    /\ UNCHANGED <<header, slot, lock, wrd, wwr, reader, reset>>

WriteLock(w) ==
    /\ WGoto(w, "lock", "readIndexes")
    /\ lock = Nobody
    /\ lock' = w
    /\ UNCHANGED <<header, slot, calls, wmsg, wrd, wwr, reader, reset>>

WriteReadRd(w) ==
    /\ WGoto(w, "readIndexes", "readWr")
    /\ wrd' = [wrd EXCEPT ![w] = readIndex]
    /\ UNCHANGED <<header, slot, lock, calls, wmsg, wwr, reader, reset>>

WriteReadWr(w) ==
    /\ WGoto(w, "readWr", IF CannotFit(wrd[w], WrPtr) THEN "exit" ELSE "put")
    /\ wwr' = [wwr EXCEPT ![w] = WrPtr]
    /\ UNCHANGED <<header, slot, lock, calls, wmsg, wrd, reader, reset>>

WritePayload(w) ==
    /\ WGoto(w, "put", "publish")
    /\ slot' = [slot EXCEPT ![wwr[w]] = wmsg[w]]
    /\ UNCHANGED <<header, lock, calls, wmsg, wrd, wwr, reader, reset>>

WritePublish(w) ==
    /\ WGoto(w, "publish", "exit")
    /\ SetWrPtr(After(wwr[w]))
    /\ UNCHANGED <<slot, lock, calls, wmsg, wrd, wwr, reader, reset>>

WriteExit(w) ==
    /\ WGoto(w, "exit", "idle")
    /\ lock' = IF LockClientQueue THEN Nobody ELSE lock
    /\ UNCHANGED <<header, slot, calls, wmsg, wrd, wwr, reader, reset>>

\* skip_txq_wr_idx: the client (external) hands over what tx_wm covers.
ClientMovesWriteIndex ==
    /\ kind = "skip"
    /\ writeIndex # txWm
    /\ writeIndex' = txWm
    /\ UNCHANGED <<readIndex, txWm, slot, lock, calls, writer, reader, reset>>

-----------------------------------------------------------------------------
(* hw_fence_read_queue *)

ReadIndexes ==
    /\ rpc = "idle"
    /\ QuietReset => spc = "idle"
    /\ rrd' = readIndex
    /\ rpc' = "readWr"
    /\ UNCHANGED <<header, slot, lock, calls, writer, rwr, payload, delivered, more, reset>>

ReadWr ==
    /\ rpc = "readWr"
    /\ rwr' = writeIndex
    /\ rpc' = IF rrd = writeIndex THEN "idle" ELSE "get"
    /\ more' = IF rrd = writeIndex THEN FALSE ELSE more
    /\ UNCHANGED <<header, slot, lock, calls, writer, rrd, payload, delivered, reset>>

ReadPayload ==
    /\ rpc = "get"
    /\ payload' = slot[rrd]
    /\ rpc' = "publish"
    /\ UNCHANGED <<header, slot, lock, calls, writer, rrd, rwr, delivered, more, reset>>

ReadPublish ==
    /\ rpc = "publish"
    /\ readIndex' = After(rrd)
    /\ delivered' = payload
    /\ more' = MoreLeft(After(rrd), rwr)
    /\ rpc' = "idle"
    /\ UNCHANGED <<writeIndex, txWm, slot, lock, calls, writer, rrd, rwr, payload, reset>>

-----------------------------------------------------------------------------
(* hw_fence_utils_reset_queues *)

ResetStart ==
    /\ spc = "idle"
    /\ resets < MaxResets
    /\ resets' = resets + 1
    /\ QuietReset => rpc = "idle"
    /\ IF LockClientQueue
       THEN lock = Nobody /\ lock' = Resetter
       ELSE UNCHANGED lock
    /\ spc' = "get"
    /\ UNCHANGED <<header, slot, calls, writer, reader, sidx>>

\* Tx: the last write done by the client; Rx: the last read done by the client.
ResetReadIndex ==
    /\ spc = "get"
    /\ sidx' = IF kind = "rx" THEN readIndex ELSE writeIndex
    /\ spc' = "set"
    /\ UNCHANGED <<header, slot, lock, calls, writer, reader, resets>>

\* Tx: the read index is set to it; Rx: the write index is.
SetIndex(i) ==
    IF kind = "rx" THEN writeIndex' = i /\ UNCHANGED <<readIndex, txWm>>
                   ELSE readIndex' = i /\ UNCHANGED <<writeIndex, txWm>>

ResetWriteIndex ==
    /\ spc = "set"
    /\ SetIndex(sidx)
    /\ lock' = IF LockClientQueue THEN Nobody ELSE lock
    /\ spc' = "idle"
    /\ UNCHANGED <<slot, calls, writer, reader, sidx, resets>>

-----------------------------------------------------------------------------
WriterStep(w) ==
    \/ WriteStart(w) \/ WriteLock(w) \/ WriteReadRd(w) \/ WriteReadWr(w)
    \/ WritePayload(w) \/ WritePublish(w) \/ WriteExit(w)

ReaderStep == ReadIndexes \/ ReadWr \/ ReadPayload \/ ReadPublish

ResetStep == ResetStart \/ ResetReadIndex \/ ResetWriteIndex

Next ==
    /\ \/ \E w \in Writers : WriterStep(w)
       \/ ClientMovesWriteIndex
       \/ ReaderStep
       \/ ResetStep
    /\ UNCHANGED kind

Spec == Init /\ [][Next]_vars

-----------------------------------------------------------------------------
(* Properties *)

\* The indexes stay inside the ring and the locals have their types.
TypeOK ==
    /\ kind \in {"rx", "tx", "skip"}
    /\ {readIndex, writeIndex, txWm, rrd, rwr, sidx} \subseteq Index
    /\ slot \in [Index -> Payloads \cup {Nothing}]
    /\ lock \in Writers \cup {Resetter, Nobody}
    /\ calls \in 0..MaxWrites
    /\ wpc \in [Writers -> {"idle", "lock", "readIndexes", "readWr", "put", "publish", "exit"}]
    /\ wmsg \in [Writers -> Payloads \cup {Nothing}]
    /\ wrd \in [Writers -> Index] /\ wwr \in [Writers -> Index]
    /\ rpc \in {"idle", "readWr", "get", "publish"}
    /\ payload \in Payloads \cup {Nothing}
    /\ delivered \in Payloads \cup {Nothing}
    /\ more \in BOOLEAN
    /\ spc \in {"idle", "get", "set"}
    /\ resets \in 0..MaxResets

\* The number of entries from rd up to wr, around the ring.
Distance(rd, wr) == IF rd <= wr THEN wr - rd ELSE Entries - (rd - wr)

\* The payloads written and not yet read.
Contents ==
    [k \in 1..Distance(readIndex, WrPtr) |-> slot[(readIndex + k - 1) % Entries]]

\* The queue implements a bounded FIFO of Entries - 1 payloads: a payload is
\* read once, whole and in order, whatever the writers, the reader, and resets
\* do at the same time (hw_fence_update_queue, hw_fence_read_queue).
Fifo == INSTANCE BoundedFifo WITH buf <- Contents, Capacity <- Entries - 1
ImplementsFifo == Fifo!Spec

\* A return value 1 of hw_fence_read_queue is a promise: until the next reset
\* the next read finds a payload.  The loops that drain a queue rely on it.
MoreMeansMore == more /\ rpc = "idle" /\ resets = 0 => Contents # <<>>
=============================================================================
