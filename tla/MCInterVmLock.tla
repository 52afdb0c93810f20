--------------------------- MODULE MCInterVmLock ---------------------------
(* Two CPUs and the SVM on a child-fence lock and the join-fence lock inside it. *)
EXTENDS InterVmLock

CONSTANTS c1, c2, child, join

MCCpus == {c1, c2}
MCLocks == {child, join}
MCInside == {<<child, join>>}
=============================================================================
