------------------------------ MODULE SharedLog -------------------------------
(***************************************************************************)
(* What the shared worktree promises to the terminals, without receipts,   *)
(* pending transitions, compaction or git: one growing sequence of         *)
(* generations, and for every terminal the generation it has confirmed.    *)
(***************************************************************************)
EXTENDS Naturals, Sequences

CONSTANTS Clients, Identities, Snapshots

VARIABLES
  log,      \* the shared generations, in order
  author,   \* the client whose publication is the last one, if any
  view,     \* client -> the revision it confirmed, 0 when it has to reconcile
  held      \* client -> the generation it confirmed

vars == <<log, author, view, held>>

Unchanged(i, from) == \A r \in from .. Len(log) - 1 : log[r + 1][i] = log[r][i]

Init ==
  /\ log = <<>>
  /\ author = {}
  /\ view = [c \in Clients |-> 0]
  /\ held \in [Clients -> Snapshots]

(* A client adds a generation; it may differ from the last one only where  *)
(* nothing was done since the revision the client confirmed.               *)
Publish(c) ==
  /\ view[c] # 0
  /\ \E next \in Snapshots :
       /\ \A i \in Identities : next[i] = log[Len(log)][i] \/ Unchanged(i, view[c])
       /\ log' = Append(log, next)
  /\ author' = {c}
  /\ UNCHANGED <<view, held>>

(* Materialize, checkout and reset replace the generation as a whole.      *)
Replace ==
  /\ \E next \in Snapshots : log' = Append(log, next)
  /\ author' = {}
  /\ UNCHANGED <<view, held>>

(* A client confirms a generation at or after the one it had confirmed...  *)
Confirm(c) ==
  /\ \E r \in view[c] .. Len(log) :
       /\ r # 0
       /\ view' = [view EXCEPT ![c] = r]
       /\ held' = [held EXCEPT ![c] = log[r]]
  /\ UNCHANGED <<log, author>>

(* ... or loses its place.                                                 *)
Lose(c) ==
  /\ view' = [view EXCEPT ![c] = 0]
  /\ \E any \in Snapshots : held' = [held EXCEPT ![c] = any]
  /\ UNCHANGED <<log, author>>

Next == Replace \/ \E c \in Clients : Publish(c) \/ Confirm(c) \/ Lose(c)

Spec == Init /\ [][Next]_vars
===============================================================================
