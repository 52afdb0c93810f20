--------------------------- MODULE MCHwFenceWait ---------------------------
(* Three clients, two fences and arrays over them; the plans are what the     *)
(* clients may ask for in one behaviour.                                      *)
EXTENDS HwFenceWait

CONSTANTS f1, f2, A, B, C, D

MCAllocator == [f \in Fences |-> IF f = f1 THEN 1 ELSE 2]

\* A and B cross, C has a child that is no hw-fence, D one child too often.
MCChildren == [a \in {A, B, C, D} |->
    CASE a = A -> <<f1, f2>>
      [] a = B -> <<f2, f1>>
      [] a = C -> <<f1, Plain>>
      [] a = D -> <<f2, f2, f2>>]
MCOrder == <<f1, A, B, f2, C, D>>

Plan(one, two, three) == [c \in Clients |-> CASE c = 1 -> one [] c = 2 -> two [] c = 3 -> three]

MCPlans == {
    Plan({f1, f2}, {f1}, {}),                           \* waits for fences
    Plan({A, f1}, {B}, {}),                             \* for arrays
    Plan({C, D}, {D, f1}, {}),                          \* for arrays that are refused
    Plan({"reset"}, {f1}, {f1}),                        \* a reset beside waits
    Plan({"reset"}, {f1, "reset"}, {})}                 \* and beside a reset

\* An array that is refused beside one that is not, on one child.
HoleChildren == [a \in {A, C} |-> IF a = C THEN <<f1, Plain>> ELSE <<f1>>]
HoleOrder == <<f1, A, C>>
HolePlans == {Plan({C}, {A}, {})}

ErrorChildren == [a \in {A} |-> <<f1>>]
ErrorOrder == <<f1, A>>
ErrorPlans == {Plan({A}, {}, {})}
=============================================================================
