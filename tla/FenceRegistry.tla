---------------------------- MODULE FenceRegistry ----------------------------
(***************************************************************************)
(* What the global fence table promises its clients: a fence is in it at   *)
(* most once, a call adds or removes one fence at most, and only the       *)
(* client that created a fence removes it, in a call of its own.           *)
(***************************************************************************)
CONSTANTS Keys, Clients, Nobody

VARIABLES creator,      \* of each fence in the table
          calling       \* the clients in a call, before and after it took effect

Init == creator = [k \in Keys |-> Nobody] /\ calling = [c \in Clients |-> FALSE]

Enter(c) ==
    /\ ~calling[c]
    /\ calling' = [calling EXCEPT ![c] = TRUE]
    /\ UNCHANGED creator

\* An effect is the end of the call, or some of the call is still to come.
Goes(c) == calling[c] /\ \E more \in BOOLEAN : calling' = [calling EXCEPT ![c] = more]

Leave(c) == Goes(c) /\ UNCHANGED creator

Create(k, c) ==
    /\ creator[k] = Nobody
    /\ creator' = [creator EXCEPT ![k] = c]
    /\ Goes(c)

Destroy(k, c) ==
    /\ creator[k] = c
    /\ creator' = [creator EXCEPT ![k] = Nobody]
    /\ Goes(c)

Next ==
    \E c \in Clients :
        \/ Enter(c) \/ Leave(c)
        \/ \E k \in Keys : Create(k, c) \/ Destroy(k, c)

Spec == Init /\ [][Next]_<<creator, calling>>
=============================================================================
