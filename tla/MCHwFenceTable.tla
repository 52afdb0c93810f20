--------------------------- MODULE MCHwFenceTable ---------------------------
(* Four fences of two clients on three slots, all but one with the same home, *)
(* so that probes collide, wrap around and meet a full table.                 *)
EXTENDS HwFenceTable

CONSTANTS a, b, a1, a2, b1, b2

MCFences == {a1, a2, b1, b2}
MCKey == [f \in MCFences |-> f]
MCHome == [k \in MCFences \cup {Zero} |-> IF k = Zero THEN 1 ELSE IF k = b2 THEN 0 ELSE 2]
MCOwner == [f \in MCFences |-> IF f \in {a1, a2} THEN a ELSE b]
=============================================================================
