---------------------------- MODULE SharedLock ----------------------------
(***************************************************************************)
(* What a lock word shared with the other VM promises: each lock has at    *)
(* most one owner, and an owner gives the lock up before anybody takes it. *)
(***************************************************************************)
CONSTANTS Parties, Locks, Nobody

VARIABLE owner

Init == owner = [l \in Locks |-> Nobody]

Acquire(p, l) ==
    /\ owner[l] = Nobody
    /\ owner' = [owner EXCEPT ![l] = p]

Release(p, l) ==
    /\ owner[l] = p
    /\ owner' = [owner EXCEPT ![l] = Nobody]

Next == \E p \in Parties, l \in Locks : Acquire(p, l) \/ Release(p, l)

Spec == Init /\ [][Next]_owner
=============================================================================
