--------------------------- MODULE ProfileSwitchMC ----------------------------
(* Small instances of ProfileSwitch for TLC.                               *)
EXTENDS ProfileSwitch, TLC

CONSTANTS scalar, dynamic, path, fpath, alias, option, refused, u, p, g, h, A, B

Delta(before, after) == [before |-> before, after |-> after]

(* One identity of each kind, which the profiles share in part.            *)
Terminal ==
  [x \in Ids |-> CASE x \in Lists -> <<u>>
                   [] x \in Options -> "off"
                   [] x = scalar -> u
                   [] OTHER -> Absent]

ContentsOfA ==
  {scalar :> p @@ path :> Delta(<<g>>, <<>>) @@ alias :> p @@ option :> "on"}
ContentsOfB ==
  {dynamic :> p @@ path :> Delta(<<>>, <<h>>) @@ fpath :> Delta(<<h>>, <<>>) @@ alias :> u,
   scalar :> p @@ dynamic :> u @@ refused :> "on"}
(* A run may leave out the second list.                                    *)
Within(contents) == {[x \in DOMAIN m \intersect Ids |-> m[x]] : m \in contents}
TwoProfiles == A :> Within(ContentsOfA) @@ B :> Within(ContentsOfB)
===============================================================================
