---------------------------- MODULE GuardedInstallMC ---------------------------
(* Instances of GuardedInstall for TLC: the runs are interchangeable.        *)
EXTENDS GuardedInstall, TLC

Symmetry == Permutations(Transactions)
===============================================================================
