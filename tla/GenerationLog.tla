------------------------------ MODULE GenerationLog ----------------------------
(***************************************************************************)
(* What the state store promises its callers: one sequence of generations, *)
(* each written on top of the one before it.  A write is first only        *)
(* visible; once it is confirmed nothing takes it back.  A power loss      *)
(* takes back the unconfirmed end of the sequence, never a part of the     *)
(* middle, and never a part of one generation.                             *)
(***************************************************************************)
EXTENDS Naturals, Sequences

CONSTANT Writers

VARIABLES
  visible,   \* the writer of each generation a reader sees the effects of
  confirmed  \* how many of them a writer was told are there to stay

vars == <<visible, confirmed>>

Init == visible = <<>> /\ confirmed = 0

Write(w) == visible' = Append(visible, w) /\ UNCHANGED confirmed

Confirm == confirmed' = Len(visible) /\ UNCHANGED visible

Lose ==
  /\ \E kept \in confirmed .. Len(visible) : visible' = SubSeq(visible, 1, kept)
  /\ UNCHANGED confirmed

Next == Confirm \/ Lose \/ \E w \in Writers : Write(w)

Spec == Init /\ [][Next]_vars
===============================================================================
