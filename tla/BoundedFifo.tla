---------------------------- MODULE BoundedFifo ----------------------------
(***************************************************************************)
(* What a client queue promises: at most Capacity payloads, handed over in *)
(* the order they were put in, each of them once; a reset may discard the  *)
(* oldest ones, never one in the middle and never bring one back.          *)
(***************************************************************************)
EXTENDS Naturals, Sequences

CONSTANTS Payloads, Capacity, Nothing

VARIABLES buf,          \* the payloads in the queue
          delivered     \* the payload of the last successful read

Init == buf = <<>> /\ delivered = Nothing

Put(p) ==
    /\ Len(buf) < Capacity
    /\ buf' = Append(buf, p)
    /\ UNCHANGED delivered

Take ==
    /\ buf # <<>>
    /\ buf' = Tail(buf)
    /\ delivered' = Head(buf)

Discard(n) ==
    /\ buf' = SubSeq(buf, n + 1, Len(buf))
    /\ UNCHANGED delivered

Next ==
    \/ \E p \in Payloads : Put(p)
    \/ Take
    \/ \E n \in 1..Len(buf) : Discard(n)

Spec == Init /\ [][Next]_<<buf, delivered>>
=============================================================================
