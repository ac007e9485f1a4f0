--------------------------- MODULE MCBranchStock ---------------------------
(* BranchStock on two branches, the first with one unit and the second with none. *)
EXTENDS BranchStock, TLC

CONSTANTS r1, r2, t1, t2, b1, b2

MCInitialQuantity == [b \in Branches |-> IF b = b1 THEN 1 ELSE 0]

\* The search stops where a branch was changed while a count of it was under way: its card says
\* nothing of it from there on
NotBlurred == blurred = {}

Symmetric == Permutations({r1, r2}) \cup Permutations({t1, t2})
=============================================================================
