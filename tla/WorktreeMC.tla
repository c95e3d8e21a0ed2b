------------------------------ MODULE WorktreeMC ------------------------------
(* Small instances of Worktree for TLC.                                    *)
EXTENDS Worktree, TLC

CONSTANTS a, b, v, w, absent

(* The profile manages a only: b is a new name, admitted when a terminal   *)
(* that did not have it publishes it.                                      *)
OneManaged == [base |-> a :> v @@ b :> absent, owned |-> {a}, pinned |-> {}]
(* Another that changes a and pins b as a stored secret.                   *)
OnePinned == [base |-> a :> absent @@ b :> v, owned |-> {a, b}, pinned |-> {b}]

(* It owns every identity and declares no value.                           *)
OneIdentity == {[base |-> [i \in Identities |-> absent], owned |-> Identities, pinned |-> {}]}
SyncProfiles == {OneManaged}
BothProfiles == {OneManaged, OnePinned}
OperationSymmetry == Permutations(Operations)
ShellSymmetry == Permutations(Shells)
===============================================================================
