--------------------------- MODULE MCScanDispatch ---------------------------
(* Instances of ScanDispatch for TLC. *)
EXTENDS ScanDispatch, TLC

Allow(some) == [k \in Kinds |-> IF k \in DOMAIN some THEN some[k] ELSE 0]

\* Ordinary operation.
QuietBudget == Allow([create |-> 2, beat |-> 1])
\* One of every fault.
FaultBudget == Allow([create |-> 1, beat |-> 2, crash |-> 1, revoke |-> 1,
                      publish |-> 1, db |-> 1])
\* Concurrent schedule edits and a message delivered twice.
EditBudget  == Allow([create |-> 1, beat |-> 1, edit |-> 1, redeliver |-> 1])
\* A crash and the next tick of Beat.
RefireBudget == Allow([beat |-> 2, crash |-> 1])
\* An edit beside a running scan.
OverlapBudget == Allow([create |-> 1, beat |-> 1, edit |-> 1])

Symmetry == Permutations(Workers)
=============================================================================
