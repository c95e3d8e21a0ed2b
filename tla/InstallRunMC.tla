------------------------------ MODULE InstallRunMC -----------------------------
(* Instances of InstallRun.                                                *)
EXTENDS InstallRun, TLC

CONSTANTS r1, r2

BothRuns == {r1, r2}
Symmetry == Permutations(BothRuns)

(* Bound: from the removal of a root on, what comes after both a fault and *)
(* an edit or commit is not followed any further.                          *)
RemovalBound == tree.torn # {} => faults + Meanwhile < 2
===============================================================================
