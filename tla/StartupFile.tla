------------------------------ MODULE StartupFile ------------------------------
(***************************************************************************)
(* What the guarded replacement of ~/.zshrc promises its user.  The user   *)
(* edits the file at any moment and by any means.  The tool keeps entries  *)
(* aside, in a private directory of the same file system, and moves them   *)
(* only by exchanging one with the file or by giving a missing file one.   *)
(* Of the entries that carry the user's newest save it never discards the  *)
(* last.                                                                   *)
(***************************************************************************)
EXTENDS Naturals

CONSTANTS
  Entries, \* what the file and the directory may hold, each with its save
  Nothing  \* the target of a missing file, with save 0

VARIABLES
  file,      \* target, entries aside, and the number of the user's newest save
  survivors  \* the files a power loss may leave

vars == <<file, survivors>>

Init ==
  /\ \E target \in Entries : file = [target |-> target, aside |-> {}, newest |-> target.save]
  /\ survivors = {file}

Becomes(f) == file' = f /\ survivors' = survivors \union {f}

(* The user saves, or removes, the file.                                   *)
Edit(e) == Becomes([file EXCEPT !.target = e, !.newest = e.save])

Stage(e) == Becomes([file EXCEPT !.aside = @ \union {e}])

Exchange(e) ==
  /\ e \in file.aside
  /\ file.target # Nothing
  /\ Becomes([file EXCEPT !.target = e, !.aside = (@ \ {e}) \union {file.target}])

Create(e) ==
  /\ e \in file.aside
  /\ file.target = Nothing
  /\ Becomes([file EXCEPT !.target = e, !.aside = @ \ {e}])

Discard(e) ==
  /\ e \in file.aside
  /\ e.save = file.newest /\ e.save # 0 =>
       \E other \in (file.aside \ {e}) \union {file.target} : other.save = e.save
  /\ Becomes([file EXCEPT !.aside = @ \ {e}])

Settle == survivors' = {file} /\ UNCHANGED file

Lose == 
  /\ file' \in survivors
  /\ survivors' = {file'}

Next ==
  \/ Settle
  \/ Lose
  \/ \E e \in Entries : Edit(e) \/ Stage(e) \/ Exchange(e) \/ Create(e) \/ Discard(e)

Spec == Init /\ [][Next]_vars
===============================================================================
