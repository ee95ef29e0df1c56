-------------------------- MODULE MCAttackPathsScan --------------------------
(* Instances of AttackPathsScan for TLC. *)
EXTENDS AttackPathsScan, TLC

Allow(some) == [k \in Kinds |-> IF k \in some THEN 1 ELSE 0]

\* One of every fault.
FaultBudget == Allow(Kinds)
\* A run that raises and a worker that dies.
BreakBudget == Allow({"crash", "error"})
CrashBudget == Allow({"crash"})
QuietBudget == Allow({})

Symmetry == Permutations(Workers) \cup Permutations(Rows)
=============================================================================
