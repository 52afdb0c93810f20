---------------------------- MODULE MCDebugFence ----------------------------
(* DebugFence with two writers, or with two files. *)
EXTENDS DebugFence, TLC

CONSTANTS w1, w2, f1, f2

MCCasts == {[writers |-> {w1, w2}, files |-> {}, arrays |-> {}]}
           \cup {[writers |-> {}, files |-> {f1, f2}, arrays |-> {f}] : f \in {f1, f2}}

\* Every call that may fail after the hw-fence is there.
MCFaults == ({"fence", "array"} \X {"fd", "file", "copy"}) \cup {<<"array", "create">>}

Symmetry == Permutations(Writers) \cup Permutations(Files) \cup Permutations(Slots)
=============================================================================
