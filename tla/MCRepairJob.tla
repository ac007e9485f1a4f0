----------------------------- MODULE MCRepairJob -----------------------------
(* RepairJob with two requests under way on a small job. *)
EXTENDS RepairJob, TLC

CONSTANTS r1, r2

MCInitialStock == [p \in Products |-> 1]

\* The search stops at a transaction that relied on something that had changed: the invariants
\* say nothing of what comes after it
NotOvertaken == ~overtaken

Symmetric == Permutations({r1, r2})
=============================================================================
