----------------------------- MODULE ShellSyncMC ------------------------------
(* Small instances of ShellSync for TLC.                                   *)
EXTENDS ShellSync, TLC

CONSTANTS a, b, v, absent, s1

TwoManaged == {[base |-> a :> v @@ b :> v, owned |-> {a, b}, pinned |-> {}]}
EmptyTerminals == [s \in Shells |-> [i \in Identities |-> absent]]
(* The profile treats a and b alike: the first of them to be edited is a.  *)
TwoEdits == [s \in Shells |-> <<{a}, {a, b}>>]
NoEdits == [s \in Shells |-> <<>>]

(* What a terminal gets over by itself: every lost request and the lost    *)
(* replies to attach, prepare and resolve, and failed transitions.  A lost *)
(* reply to a publish or an acknowledge is not among them: either may      *)
(* block the terminal for good.                                            *)
TransientFailures ==
  ({"attach", "prepare", "resolve"} \X {"request", "reply"})
  \union ({"publish", "acknowledge"} \X {"request"})
  \union ({"apply"} \X {"compensated", "stuck"})

LostAcknowledge == {<<"acknowledge", "reply">>}
===============================================================================
