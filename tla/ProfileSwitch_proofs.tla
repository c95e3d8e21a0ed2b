-------------------------- MODULE ProfileSwitch_proofs -------------------------
(***************************************************************************)
(* For every environment, every set of profiles and every plan of them, a  *)
(* terminal that switches whole profiles keeps its types, never orphans    *)
(* what it saved, and leaves nothing behind once a reverse is done,        *)
(* wherever the user edits, makes things readonly or interrupts.           *)
(***************************************************************************)
EXTENDS ProfileSwitch, TLAPS

(* Where a switch is, and what that says of the reverse function.          *)
Reachable ==
  /\ \A x \in Ids : Saved(x) => Runnable /\ x \in DOMAIN reverse
  /\ Runnable => active \/ recovery
  /\ pc \in {"unpoint", "forget", "clear", "prepare", "define"} => ~Runnable
  /\ pc \in {"preflight", "restore", "commit", "apply", "settle"} => Runnable
  /\ pc = "settle" => active
  /\ pc = "apply" => recovery /\ \A x \in todo : x \in DOMAIN reverse /\ ~Saved(x)
  /\ pc = "commit" => \A x \in Ids : Saved(x) => x \in todo
  /\ pc = "restore" =>
       /\ todo \subseteq DOMAIN reverse
       /\ \A x \in Scalars \intersect DOMAIN reverse : ScalarPreflightOK(x)

(* What has been restored, of the operations of a running reverse.         *)
Done(x) ==
  \/ pc = "commit"
  \/ pc = "restore" /\ x \in DOMAIN reverse /\ x \notin todo

(* What is saved is what the terminal would hold without the profile.      *)
ScalarRecovers(x) == Saved(x) => RestoredScalar(x) = own[x]
NamedRecovers(x) == Saved(x) => slot[x] = own[x]
ListRecovers(l) ==
  /\ base[l] \in {None, own[l]}
  /\ base[l] = None => env[l] = own[l]
  /\ (Runnable => l \notin DOMAIN reverse) => env[l] = own[l]

Recovers(x) ==
  /\ x \in Scalars => ScalarRecovers(x)
  /\ x \in Aliases \union Options => NamedRecovers(x)
  /\ x \in Refused => env[x] = own[x]
  /\ x \in Lists => ListRecovers(x)
  /\ x \notin Lists /\ ~Saved(x) => env[x] = own[x]
  /\ Done(x) => env[x] = own[x]

Inv ==
  /\ TypeOK
  /\ Reachable
  /\ \A x \in Ids \ excused : Recovers(x)

-------------------------------------------------------------------------------
(* Types                                                                   *)

LEMMA ManifestType ==
  ASSUME TypeOK, Runnable
  PROVE  /\ DOMAIN reverse \subseteq Ids
         /\ \A x \in DOMAIN reverse :
              /\ x \in Lists => /\ reverse[x].before \in Seq(Words \union Given)
                                /\ reverse[x].after \in Seq(Words \union Given)
              /\ x \notin Lists => reverse[x] \in Words \union Switches
<1>1. reverse \in Manifests
  BY DEF TypeOK, ControlTypeOK, Runnable
<1>2. DOMAIN reverse \subseteq Ids
  BY <1>1, ManifestAssumption
<1>3. ASSUME NEW x \in DOMAIN reverse, x \in Lists
      PROVE  /\ reverse[x].before \in Seq(Words \union Given)
             /\ reverse[x].after \in Seq(Words \union Given)
  <2>1. reverse[x] \in [before : Seq(Given), after : Seq(Given)]
    BY <1>1, <1>3, ManifestAssumption
  <2>2. Seq(Given) \subseteq Seq(Words \union Given)
    OBVIOUS
  <2> QED
    BY <2>1, <2>2
<1>4. ASSUME NEW x \in DOMAIN reverse, x \notin Lists
      PROVE  reverse[x] \in Words \union Switches
  BY <1>1, <1>2, <1>4, ManifestAssumption DEF Ids
<1> QED
  BY <1>2, <1>3, <1>4

LEMMA InitInv == Init => Inv
<1> SUFFICES ASSUME Init PROVE Inv
  OBVIOUS
<1>1. TypeOK
  <2>1. Seq(Words) \subseteq Seq(Words \union Given)
    OBVIOUS
  <2>2. EnvironmentTypeOK
    <3>1. Lists \subseteq Ids /\ \A x \in Lists : Start[x] \in Seq(Words \union Given)
      BY <2>1, StartAssumption DEF Ids
    <3>2. DOMAIN env = Ids /\ DOMAIN own = Ids /\ DOMAIN slot = Ids /\ DOMAIN appliedSlot = Ids
          /\ DOMAIN base = Lists
      BY StartAssumption DEF Init
    <3>3. \A x \in Lists :
            /\ env[x] \in Seq(Words \union Given) /\ own[x] \in Seq(Words) /\ slot[x] = None
            /\ base[x] \in Seq(Words \union Given) \union {None}
      BY <3>1, StartAssumption DEF Init
    <3>4. \A x \in Ids \ Lists :
            /\ env[x] \in Words \union Switches \union {Absent}
            /\ own[x] \in Words \union Switches \union {Absent}
            /\ slot[x] \in Words \union Switches \union {Absent, None}
      BY StartAssumption DEF Init
    <3>5. \A x \in Ids : appliedSlot[x] \in Words \union {None}
      BY DEF Init
    <3>6. locked \subseteq Scalars \union Lists /\ excused \subseteq Ids
      BY DEF Init
    <3> QED
      BY <3>2, <3>3, <3>4, <3>5, <3>6 DEF EnvironmentTypeOK
  <2>3. ControlTypeOK
    BY DEF Init, ControlTypeOK
  <2> QED
    BY <2>2, <2>3 DEF TypeOK
<1>2. Reachable
  BY DEF Init, Reachable, Saved, Runnable
<1>3. \A x \in Ids : Recovers(x)
  BY IdsAssumption, StartAssumption DEF Init, Recovers, ScalarRecovers, NamedRecovers, ListRecovers, Done, Saved, Runnable, Ids
<1> QED
  BY <1>1, <1>2, <1>3 DEF Inv
-------------------------------------------------------------------------------
(* Steps that leave the environment and what is saved of it alone          *)

LEMMA KeptTypes ==
  ASSUME TypeOK, UNCHANGED <<shellVars, locked, own, excused>>
  PROVE  EnvironmentTypeOK'
BY DEF TypeOK, EnvironmentTypeOK, shellVars

LEMMA KeptRecovers ==
  ASSUME Inv, UNCHANGED <<shellVars, own, excused, reverse>>,
         \A x \in Ids : Done(x)' => Done(x)
  PROVE  \A x \in Ids \ excused' : Recovers(x)'
<1>1. ASSUME NEW x \in Ids \ excused' PROVE Recovers(x)'
  <2>1. Recovers(x) /\ (Done(x)' => Done(x))
    BY <1>1 DEF Inv
  <2>2. Saved(x)' = Saved(x) /\ Runnable' = Runnable /\ RestoredScalar(x)' = RestoredScalar(x)
    BY DEF shellVars, Saved, Runnable, RestoredScalar, Expected
  <2> QED
    BY <2>1, <2>2 DEF Recovers, ScalarRecovers, NamedRecovers, ListRecovers, shellVars
<1> QED
  BY <1>1

LEMMA StartSwitchInv == Inv /\ StartSwitch => Inv'
<1> SUFFICES ASSUME Inv, StartSwitch PROVE Inv'
  OBVIOUS
<1>1. TypeOK'
  <2>1. EnvironmentTypeOK'
    BY KeptTypes DEF history, Inv, StartSwitch
  <2>2. target' \in [name : Profiles, manifest : Manifests]
    BY DEF StartSwitch, Manifests
  <2>3. target' # None
    BY <2>2, NoneAssumption
  <2>4. ControlTypeOK'
    BY <2>2, <2>3 DEF Inv, TypeOK, ControlTypeOK, StartSwitch, markers, ReversedFirst
  <2> QED
    BY <2>1, <2>4 DEF TypeOK
<1>2. Reachable'
  BY ManifestType DEF Inv, TypeOK, ControlTypeOK, Reachable, StartSwitch, shellVars, markers, Idle, Go, ReversedFirst, Runnable, Saved, PreflightOK, ScalarPreflightOK, Expected
<1>3. \A x \in Ids \ excused' : Recovers(x)'
  BY KeptRecovers DEF history, StartSwitch, markers, Idle, Go, Done
<1> QED
  BY <1>1, <1>2, <1>3 DEF Inv

LEMMA StartDeactivateInv == Inv /\ StartDeactivate => Inv'
<1> SUFFICES ASSUME Inv, StartDeactivate PROVE Inv'
  OBVIOUS
<1>1. TypeOK'
  <2>1. EnvironmentTypeOK'
    BY KeptTypes DEF history, Inv, StartDeactivate
  <2>2. ControlTypeOK'
    BY NoneAssumption, ManifestType DEF Inv, TypeOK, ControlTypeOK, Reachable, StartDeactivate, markers, Idle, Go, ReversedFirst, Runnable
  <2> QED
    BY <2>1, <2>2 DEF TypeOK
<1>2. Reachable'
  BY ManifestType DEF Inv, TypeOK, ControlTypeOK, Reachable, StartDeactivate, shellVars, markers, Idle, Go, ReversedFirst, Runnable, Saved, PreflightOK, ScalarPreflightOK, Expected
<1>3. \A x \in Ids \ excused' : Recovers(x)'
  BY KeptRecovers DEF history, StartDeactivate, markers, Idle, Go, Done
<1> QED
  BY <1>1, <1>2, <1>3 DEF Inv

LEMMA PreflightInv == Inv /\ Preflight => Inv'
<1> SUFFICES ASSUME Inv, Preflight PROVE Inv'
  OBVIOUS
<1>1. TypeOK'
  <2>1. EnvironmentTypeOK'
    BY KeptTypes DEF history, Inv, Preflight
  <2>2. ControlTypeOK'
    BY NoneAssumption, ManifestType DEF Inv, TypeOK, ControlTypeOK, Reachable, Preflight, markers, Idle, Go, ReversedFirst, Runnable
  <2> QED
    BY <2>1, <2>2 DEF TypeOK
<1>2. Reachable'
  BY ManifestType DEF Inv, TypeOK, ControlTypeOK, Reachable, Preflight, shellVars, markers, Idle, Go, ReversedFirst, Runnable, Saved, PreflightOK, ScalarPreflightOK, Expected
<1>3. \A x \in Ids \ excused' : Recovers(x)'
  BY KeptRecovers DEF history, Preflight, markers, Idle, Go, Done
<1> QED
  BY <1>1, <1>2, <1>3 DEF Inv

LEMMA RestoreFailsInv == Inv /\ RestoreFails => Inv'
<1> SUFFICES ASSUME Inv, RestoreFails PROVE Inv'
  OBVIOUS
<1>1. TypeOK'
  <2>1. EnvironmentTypeOK'
    BY KeptTypes DEF history, Inv, RestoreFails
  <2>2. ControlTypeOK'
    BY NoneAssumption, ManifestType DEF Inv, TypeOK, ControlTypeOK, Reachable, RestoreFails, markers, Idle, Go, ReversedFirst, Runnable
  <2> QED
    BY <2>1, <2>2 DEF TypeOK
<1>2. Reachable'
  BY ManifestType DEF Inv, TypeOK, ControlTypeOK, Reachable, RestoreFails, shellVars, markers, Idle, Go, ReversedFirst, Runnable, Saved, PreflightOK, ScalarPreflightOK, Expected
<1>3. \A x \in Ids \ excused' : Recovers(x)'
  BY KeptRecovers DEF history, RestoreFails, markers, Idle, Go, Done
<1> QED
  BY <1>1, <1>2, <1>3 DEF Inv

LEMMA UnpointInv == Inv /\ Unpoint => Inv'
<1> SUFFICES ASSUME Inv, Unpoint PROVE Inv'
  OBVIOUS
<1>1. TypeOK'
  <2>1. EnvironmentTypeOK'
    BY KeptTypes DEF history, Inv, Unpoint
  <2>2. ControlTypeOK'
    BY NoneAssumption, ManifestType DEF Inv, TypeOK, ControlTypeOK, Reachable, Unpoint, markers, Idle, Go, ReversedFirst, Runnable
  <2> QED
    BY <2>1, <2>2 DEF TypeOK
<1>2. Reachable'
  BY ManifestType DEF Inv, TypeOK, ControlTypeOK, Reachable, Unpoint, shellVars, markers, Idle, Go, ReversedFirst, Runnable, Saved, PreflightOK, ScalarPreflightOK, Expected
<1>3. \A x \in Ids \ excused' : Recovers(x)'
  BY KeptRecovers DEF history, Unpoint, markers, Idle, Go, Done
<1> QED
  BY <1>1, <1>2, <1>3 DEF Inv

LEMMA ForgetInv == Inv /\ Forget => Inv'
<1> SUFFICES ASSUME Inv, Forget PROVE Inv'
  OBVIOUS
<1>1. TypeOK'
  <2>1. EnvironmentTypeOK'
    BY KeptTypes DEF history, Inv, Forget
  <2>2. ControlTypeOK'
    BY NoneAssumption, ManifestType DEF Inv, TypeOK, ControlTypeOK, Reachable, Forget, markers, Idle, Go, ReversedFirst, Runnable
  <2> QED
    BY <2>1, <2>2 DEF TypeOK
<1>2. Reachable'
  BY ManifestType DEF Inv, TypeOK, ControlTypeOK, Reachable, Forget, shellVars, markers, Idle, Go, ReversedFirst, Runnable, Saved, PreflightOK, ScalarPreflightOK, Expected
<1>3. \A x \in Ids \ excused' : Recovers(x)'
  BY KeptRecovers DEF history, Forget, markers, Idle, Go, Done
<1> QED
  BY <1>1, <1>2, <1>3 DEF Inv

LEMMA ClearInv == Inv /\ Clear => Inv'
<1> SUFFICES ASSUME Inv, Clear PROVE Inv'
  OBVIOUS
<1>1. TypeOK'
  <2>1. EnvironmentTypeOK'
    BY KeptTypes DEF history, Inv, Clear
  <2>2. ControlTypeOK'
    BY NoneAssumption, ManifestType DEF Inv, TypeOK, ControlTypeOK, Reachable, Clear, markers, Idle, Go, ReversedFirst, Runnable
  <2> QED
    BY <2>1, <2>2 DEF TypeOK
<1>2. Reachable'
  BY ManifestType DEF Inv, TypeOK, ControlTypeOK, Reachable, Clear, shellVars, markers, Idle, Go, ReversedFirst, Runnable, Saved, PreflightOK, ScalarPreflightOK, Expected
<1>3. \A x \in Ids \ excused' : Recovers(x)'
  BY KeptRecovers DEF history, Clear, markers, Idle, Go, Done
<1> QED
  BY <1>1, <1>2, <1>3 DEF Inv

LEMMA PromoteInv == Inv /\ Promote => Inv'
<1> SUFFICES ASSUME Inv, Promote PROVE Inv'
  OBVIOUS
<1>1. TypeOK'
  <2>1. EnvironmentTypeOK'
    BY KeptTypes DEF history, Inv, Promote
  <2>2. ControlTypeOK'
    BY NoneAssumption, ManifestType DEF Inv, TypeOK, ControlTypeOK, Reachable, Promote, markers, Idle, Go, ReversedFirst, Runnable
  <2> QED
    BY <2>1, <2>2 DEF TypeOK
<1>2. Reachable'
  BY ManifestType DEF Inv, TypeOK, ControlTypeOK, Reachable, Promote, shellVars, markers, Idle, Go, ReversedFirst, Runnable, Saved, PreflightOK, ScalarPreflightOK, Expected
<1>3. \A x \in Ids \ excused' : Recovers(x)'
  BY KeptRecovers DEF history, Promote, markers, Idle, Go, Done
<1> QED
  BY <1>1, <1>2, <1>3 DEF Inv

LEMMA CompensateInv == Inv /\ Compensate => Inv'
<1> SUFFICES ASSUME Inv, Compensate PROVE Inv'
  OBVIOUS
<1>1. TypeOK'
  <2>1. EnvironmentTypeOK'
    BY KeptTypes DEF history, Inv, Compensate
  <2>2. ControlTypeOK'
    BY NoneAssumption, ManifestType DEF Inv, TypeOK, ControlTypeOK, Reachable, Compensate, markers, Idle, Go, ReversedFirst, Runnable
  <2> QED
    BY <2>1, <2>2 DEF TypeOK
<1>2. Reachable'
  BY ManifestType DEF Inv, TypeOK, ControlTypeOK, Reachable, Compensate, shellVars, markers, Idle, Go, ReversedFirst, Runnable, Saved, PreflightOK, ScalarPreflightOK, Expected
<1>3. \A x \in Ids \ excused' : Recovers(x)'
  BY KeptRecovers DEF history, Compensate, markers, Idle, Go, Done
<1> QED
  BY <1>1, <1>2, <1>3 DEF Inv

LEMMA SettleInv == Inv /\ Settle => Inv'
<1> SUFFICES ASSUME Inv, Settle PROVE Inv'
  OBVIOUS
<1>1. TypeOK'
  <2>1. EnvironmentTypeOK'
    BY KeptTypes DEF history, Inv, Settle
  <2>2. ControlTypeOK'
    BY NoneAssumption, ManifestType DEF Inv, TypeOK, ControlTypeOK, Reachable, Settle, markers, Idle, Go, ReversedFirst, Runnable
  <2> QED
    BY <2>1, <2>2 DEF TypeOK
<1>2. Reachable'
  BY ManifestType DEF Inv, TypeOK, ControlTypeOK, Reachable, Settle, shellVars, markers, Idle, Go, ReversedFirst, Runnable, Saved, PreflightOK, ScalarPreflightOK, Expected
<1>3. \A x \in Ids \ excused' : Recovers(x)'
  BY KeptRecovers DEF history, Settle, markers, Idle, Go, Done
<1> QED
  BY <1>1, <1>2, <1>3 DEF Inv

LEMMA MarkInv == Inv /\ Mark => Inv'
<1> SUFFICES ASSUME Inv, Mark PROVE Inv'
  OBVIOUS
<1>1. TypeOK'
  <2>1. EnvironmentTypeOK'
    BY KeptTypes DEF history, Inv, Mark
  <2>2. ControlTypeOK'
    BY NoneAssumption, ManifestType DEF Inv, TypeOK, ControlTypeOK, Reachable, Mark, markers, Idle, Go, ReversedFirst, Runnable
  <2> QED
    BY <2>1, <2>2 DEF TypeOK
<1>2. Reachable'
  BY ManifestType DEF Inv, TypeOK, ControlTypeOK, Reachable, Mark, shellVars, markers, Idle, Go, ReversedFirst, Runnable, Saved, PreflightOK, ScalarPreflightOK, Expected
<1>3. \A x \in Ids \ excused' : Recovers(x)'
  BY KeptRecovers DEF history, Mark, markers, Idle, Go, Done
<1> QED
  BY <1>1, <1>2, <1>3 DEF Inv

LEMMA ExportInv == Inv /\ Export => Inv'
<1> SUFFICES ASSUME Inv, Export PROVE Inv'
  OBVIOUS
<1>1. TypeOK'
  <2>1. EnvironmentTypeOK'
    BY KeptTypes DEF history, Inv, Export
  <2>2. ControlTypeOK'
    BY NoneAssumption, ManifestType DEF Inv, TypeOK, ControlTypeOK, Reachable, Export, markers, Idle, Go, ReversedFirst, Runnable
  <2> QED
    BY <2>1, <2>2 DEF TypeOK
<1>2. Reachable'
  BY ManifestType DEF Inv, TypeOK, ControlTypeOK, Reachable, Export, shellVars, markers, Idle, Go, ReversedFirst, Runnable, Saved, PreflightOK, ScalarPreflightOK, Expected
<1>3. \A x \in Ids \ excused' : Recovers(x)'
  BY KeptRecovers DEF history, Export, markers, Idle, Go, Done
<1> QED
  BY <1>1, <1>2, <1>3 DEF Inv

LEMMA InterruptInv == Inv /\ Interrupt => Inv'
<1> SUFFICES ASSUME Inv, Interrupt PROVE Inv'
  OBVIOUS
<1>1. TypeOK'
  <2>1. EnvironmentTypeOK'
    BY KeptTypes DEF Inv, Interrupt
  <2>2. ControlTypeOK'
    BY NoneAssumption, ManifestType DEF Inv, TypeOK, ControlTypeOK, Reachable, Interrupt, markers, Idle, Go, ReversedFirst, Runnable
  <2> QED
    BY <2>1, <2>2 DEF TypeOK
<1>2. Reachable'
  BY ManifestType DEF Inv, TypeOK, ControlTypeOK, Reachable, Interrupt, shellVars, markers, Idle, Go, ReversedFirst, Runnable, Saved, PreflightOK, ScalarPreflightOK, Expected
<1>3. \A x \in Ids \ excused' : Recovers(x)'
  BY KeptRecovers DEF Interrupt, markers, Idle, Go, Done
<1> QED
  BY <1>1, <1>2, <1>3 DEF Inv

-------------------------------------------------------------------------------
(* The reverse function                                                    *)

LEMMA RestoredType ==
  ASSUME Inv, NEW x \in Ids, Saved(x) => x \notin Refused, x \in Scalars => ScalarPreflightOK(x)
  PROVE  /\ x \in Scalars => Restored(x) = RestoredScalar(x)
         /\ x \in Aliases => Restored(x) = RestoredAlias(x)
         /\ x \in Options => Restored(x) = RestoredOption(x)
         /\ x \in Lists => Restored(x) = RestoredList(x) /\ Restored(x) \in Seq(Words \union Given)
         /\ x \notin Lists => Restored(x) \in Words \union Switches \union {Absent}
<1>1. x \in Scalars => Restored(x) = RestoredScalar(x)
  BY IdsAssumption DEF Restored
<1>2. x \in Lists => Restored(x) = RestoredList(x)
  BY IdsAssumption DEF Restored
<1>3. x \in Aliases => Restored(x) = RestoredAlias(x)
  BY IdsAssumption DEF Restored
<1>4. x \in Options => Restored(x) = RestoredOption(x)
  BY IdsAssumption DEF Restored
<1>5. x \in Lists => Restored(x) \in Seq(Words \union Given)
  <2>1. <<>> \in Seq(Words \union Given)
    OBVIOUS
  <2> QED
    BY <1>2, <2>1 DEF RestoredList, Inv, TypeOK, EnvironmentTypeOK
<1>6. ASSUME x \notin Lists PROVE Restored(x) \in Words \union Switches \union {Absent}
  <2>1. /\ env[x] \in Words \union Switches \union {Absent}
        /\ Saved(x) => slot[x] \in Words \union Switches \union {Absent}
    BY <1>6 DEF Inv, TypeOK, EnvironmentTypeOK, Saved
  <2>2. CASE x \in Scalars
    BY <2>1, <2>2, <1>1 DEF RestoredScalar, ScalarPreflightOK
  <2>3. CASE x \in Aliases
    BY <2>1, <2>3, <1>3 DEF RestoredAlias
  <2>4. CASE x \in Options
    BY <2>1, <2>4, <1>4 DEF RestoredOption
  <2> QED
    BY <1>6, <2>2, <2>3, <2>4 DEF Ids
<1> QED
  BY <1>1, <1>2, <1>3, <1>4, <1>5, <1>6

LEMMA RestoreInv == Inv /\ Restore => Inv'
<1> SUFFICES ASSUME Inv, Restore PROVE Inv'
  OBVIOUS
<1> PICK x \in NextOperations :
      /\ pc = "restore" /\ (Saved(x) => x \notin Refused)
      /\ env' = [env EXCEPT ![x] = Restored(x)]
      /\ todo' = todo \ {x}
      /\ excused' = IF (x \in Aliases /\ ~Saved(x)) \/ (x \in Lists /\ base[x] = None)
                    THEN excused \union {x} ELSE excused
      /\ UNCHANGED <<slot, appliedSlot, base, locked, markers, pc, why, target, failed, own, edits>>
  BY DEF Restore
<1>1. x \in Ids /\ x \in todo /\ x \in DOMAIN reverse /\ Runnable /\ DOMAIN env = Ids
  BY DEF NextOperations, Inv, TypeOK, EnvironmentTypeOK, ControlTypeOK, Reachable
<1>2. x \in Scalars => ScalarPreflightOK(x)
  BY <1>1 DEF Inv, Reachable
<1>3. env'[x] = Restored(x) /\ \A y \in Ids \ {x} : env'[y] = env[y]
  BY <1>1
<1>4. \A y \in Ids : Saved(y)' = Saved(y) /\ Expected(y)' = Expected(y)
  BY DEF Saved, Expected, markers
<1>5. TypeOK'
  <2>1. EnvironmentTypeOK'
    BY <1>1, <1>2, <1>3, RestoredType DEF Inv, TypeOK, EnvironmentTypeOK, Ids
  <2>2. ControlTypeOK'
    BY DEF Inv, TypeOK, ControlTypeOK, markers
  <2> QED
    BY <2>1, <2>2 DEF TypeOK
<1>6. Reachable'
  <2>1. ASSUME NEW y \in Scalars \intersect DOMAIN reverse PROVE ScalarPreflightOK(y)'
    <3>1. y \in Ids /\ ScalarPreflightOK(y)
      BY DEF Inv, Reachable, Ids
    <3>2. CASE y = x
      BY <3>1, <3>2, <1>1, <1>3, <1>4, RestoredType DEF ScalarPreflightOK, RestoredScalar
    <3>3. CASE y # x
      BY <3>1, <3>3, <1>3, <1>4 DEF ScalarPreflightOK
    <3> QED
      BY <3>2, <3>3
  <2> QED
    BY <1>4, <2>1 DEF Inv, Reachable, Runnable, markers
<1>7. ASSUME NEW y \in Ids \ excused' PROVE Recovers(y)'
  <2>1. Recovers(y) /\ y \in Ids
    BY <1>7 DEF Inv
  <2>2. CASE y # x
    <3>1. env'[y] = env[y] /\ own'[y] = own[y] /\ slot'[y] = slot[y] /\ base'[y] = base[y]
          /\ RestoredScalar(y)' = RestoredScalar(y) /\ Saved(y)' = Saved(y) /\ Runnable' = Runnable
          /\ reverse' = reverse
      BY <2>1, <2>2, <1>3, <1>4 DEF RestoredScalar, Runnable, markers
    <3>2. Done(y)' => Done(y)
      BY <2>2, <3>1 DEF Done
    <3> QED
      BY <2>1, <3>1, <3>2 DEF Recovers, ScalarRecovers, NamedRecovers, ListRecovers
  <2>3. CASE y = x
    <3>1. env'[x] = own[x]
      BY <2>1, <2>3, <1>1, <1>2, <1>3, <1>7, RestoredType DEF Recovers, ScalarRecovers, NamedRecovers, ListRecovers, RestoredAlias, RestoredOption, RestoredList, RestoredScalar, Ids, Inv, ScalarPreflightOK
    <3>2. RestoredScalar(x)' = IF env'[x] = Expected(x) THEN slot[x] ELSE env'[x]
      BY <1>1, <1>4 DEF RestoredScalar
    <3>3. x \in Scalars => ScalarRecovers(x)'
      BY <3>1, <3>2, <1>1, <1>2, <1>3, <1>4, <2>1, <2>3, RestoredType DEF ScalarRecovers, Recovers, RestoredScalar, ScalarPreflightOK
    <3> QED
      BY <2>1, <2>3, <3>1, <3>3, <1>4 DEF Recovers, NamedRecovers, ListRecovers
  <2> QED
    BY <2>2, <2>3
<1> QED
  BY <1>5, <1>6, <1>7 DEF Inv

LEMMA BeginCommitInv == Inv /\ BeginCommit => Inv'
<1> SUFFICES ASSUME Inv, BeginCommit PROVE Inv'
  OBVIOUS
<1>1. TypeOK'
  <2>1. EnvironmentTypeOK'
    BY KeptTypes DEF history, Inv, BeginCommit
  <2>2. ControlTypeOK'
    BY ManifestType DEF Inv, TypeOK, ControlTypeOK, Reachable, BeginCommit, markers
  <2> QED
    BY <2>1, <2>2 DEF TypeOK
<1>2. Reachable'
  BY DEF Inv, TypeOK, EnvironmentTypeOK, Reachable, BeginCommit, shellVars, markers, Runnable, Saved
<1>3. ASSUME NEW x \in Ids \ excused' PROVE Recovers(x)'
  <2>1. Recovers(x) /\ env[x] = own[x]
    BY <1>3 DEF Inv, Reachable, BeginCommit, Recovers, ListRecovers, Done, history
  <2>2. Saved(x)' = Saved(x) /\ Runnable' = Runnable /\ RestoredScalar(x)' = RestoredScalar(x)
    BY DEF BeginCommit, markers, shellVars, Saved, Runnable, RestoredScalar, Expected
  <2> QED
    BY <2>1, <2>2 DEF BeginCommit, Recovers, ScalarRecovers, NamedRecovers, ListRecovers, shellVars, history, markers
<1> QED
  BY <1>1, <1>2, <1>3 DEF Inv

LEMMA CommitInv == Inv /\ Commit => Inv'
<1> SUFFICES ASSUME Inv, Commit PROVE Inv'
  OBVIOUS
<1> PICK x \in NextOperations :
      /\ pc = "commit"
      /\ slot' = [slot EXCEPT ![x] = None]
      /\ appliedSlot' = IF x \in Dynamic THEN [appliedSlot EXCEPT ![x] = None] ELSE appliedSlot
      /\ todo' = todo \ {x}
      /\ UNCHANGED <<env, base, locked, markers, pc, why, target, failed, history, edits>>
  BY DEF Commit
<1>1. x \in Ids /\ x \in todo /\ DOMAIN slot = Ids /\ DOMAIN appliedSlot = Ids
  BY DEF NextOperations, Inv, TypeOK, EnvironmentTypeOK, ControlTypeOK
<1>2. slot'[x] = None /\ \A y \in Ids \ {x} : slot'[y] = slot[y] /\ appliedSlot'[y] = appliedSlot[y]
  BY <1>1
<1>3. TypeOK'
  <2>1. EnvironmentTypeOK'
    BY <1>1, <1>2 DEF Inv, TypeOK, EnvironmentTypeOK, history
  <2>2. ControlTypeOK'
    BY DEF Inv, TypeOK, ControlTypeOK, markers
  <2> QED
    BY <2>1, <2>2 DEF TypeOK
<1>4. Reachable'
  BY <1>1, <1>2 DEF Inv, Reachable, Saved, Runnable, markers
<1>5. ASSUME NEW y \in Ids \ excused' PROVE Recovers(y)'
  <2>1. Recovers(y) /\ y \in Ids /\ env[y] = own[y]
    BY <1>5 DEF Inv, Recovers, Done, history
  <2>2. env' = env /\ own' = own /\ base' = base /\ reverse' = reverse /\ Runnable' = Runnable
    BY DEF markers, history, Runnable
  <2>3. CASE y = x
    BY <1>2, <2>1, <2>2, <2>3 DEF Recovers, ScalarRecovers, NamedRecovers, ListRecovers, Saved
  <2>4. CASE y # x
    <3>1. Saved(y)' = Saved(y) /\ RestoredScalar(y)' = RestoredScalar(y) /\ slot'[y] = slot[y]
      BY <1>2, <2>1, <2>2, <2>4 DEF Saved, RestoredScalar, Expected
    <3> QED
      BY <2>1, <2>2, <3>1 DEF Recovers, ScalarRecovers, NamedRecovers, ListRecovers
  <2> QED
    BY <2>3, <2>4
<1> QED
  BY <1>3, <1>4, <1>5 DEF Inv

LEMMA DropFunctionInv == Inv /\ DropFunction => Inv'
<1> SUFFICES ASSUME Inv, DropFunction PROVE Inv'
  OBVIOUS
<1>1. \A x \in Ids : ~Saved(x) /\ ~Saved(x)'
  BY DEF Inv, Reachable, DropFunction, shellVars, Saved
<1>2. TypeOK'
  <2>1. EnvironmentTypeOK'
    BY KeptTypes DEF history, Inv, DropFunction
  <2>2. ControlTypeOK'
    BY DEF Inv, TypeOK, ControlTypeOK, DropFunction, Go
  <2> QED
    BY <2>1, <2>2 DEF TypeOK
<1>3. Reachable'
  BY <1>1 DEF Reachable, DropFunction, Go, Runnable
<1>4. ASSUME NEW x \in Ids \ excused' PROVE Recovers(x)'
  <2>1. Recovers(x) /\ env[x] = own[x]
    BY <1>4 DEF Inv, DropFunction, Recovers, Done, history
  <2> QED
    BY <1>1, <2>1 DEF DropFunction, shellVars, history, Go, Recovers, ScalarRecovers, NamedRecovers, ListRecovers
<1> QED
  BY <1>2, <1>3, <1>4 DEF Inv

-------------------------------------------------------------------------------
(* The payload                                                             *)

LEMMA BaseType ==
  ASSUME Inv, NEW l \in Lists
  PROVE  /\ l \in Ids
         /\ Base(l) \in Seq(Words \union Given) /\ Base(l) # None
         /\ l \notin excused => Base(l) = own[l]
<1>1. l \in Ids
  BY DEF Ids
<1>2. Base(l) \in Seq(Words \union Given)
  BY DEF Base, Inv, TypeOK, EnvironmentTypeOK
<1>3. l \notin excused => Base(l) = own[l]
  BY <1>1 DEF Base, Inv, Recovers, ListRecovers
<1> QED
  BY <1>1, <1>2, <1>3, NoneAssumption

LEMMA PrepareInv == Inv /\ Prepare => Inv'
<1> SUFFICES ASSUME Inv, Prepare PROVE Inv'
  OBVIOUS
<1>1. Path \in Lists /\ DOMAIN base = Lists
  BY StartAssumption DEF Inv, TypeOK, EnvironmentTypeOK
<1>2. base'[Path] = Base(Path) /\ \A l \in Lists \ {Path} : base'[l] = base[l]
  BY <1>1 DEF Prepare
<1>3. TypeOK'
  <2>1. EnvironmentTypeOK'
    BY <1>1, <1>2, BaseType DEF Inv, TypeOK, EnvironmentTypeOK, Prepare, history
  <2>2. ControlTypeOK'
    BY DEF Inv, TypeOK, ControlTypeOK, Prepare, Go, markers
  <2> QED
    BY <2>1, <2>2 DEF TypeOK
<1>4. Reachable'
  BY DEF Inv, Reachable, Prepare, Go, markers, Runnable, Saved
<1>5. ASSUME NEW x \in Ids \ excused' PROVE Recovers(x)'
  <2>1. Recovers(x) /\ x \notin excused
    BY <1>5 DEF Inv, Prepare, history
  <2>2. x \in Lists => ListRecovers(x)'
    BY <1>1, <1>2, <2>1, BaseType DEF Recovers, ListRecovers, Prepare, markers, history, Runnable
  <2> QED
    BY <2>1, <2>2 DEF Prepare, Recovers, ScalarRecovers, NamedRecovers, RestoredScalar, Expected, Saved, Done, Go, markers, history
<1> QED
  BY <1>3, <1>4, <1>5 DEF Inv

LEMMA DefineInv == Inv /\ Define => Inv'
<1> SUFFICES ASSUME Inv, Define PROVE Inv'
  OBVIOUS
<1>1. target.manifest \in Manifests /\ reverse' \in Manifests /\ Runnable' /\ ~Runnable
  BY NoneAssumption DEF Inv, TypeOK, ControlTypeOK, Reachable, Define, Runnable
<1>2. \A x \in Ids : ~Saved(x) /\ ~Saved(x)'
  BY <1>1 DEF Inv, Reachable, Define, shellVars, Saved
<1>3. DOMAIN reverse' \subseteq Ids /\ DOMAIN reverse' = todo'
  BY <1>1, ManifestAssumption DEF Define
<1>4. TypeOK'
  <2>1. EnvironmentTypeOK'
    BY KeptTypes DEF history, Inv, Define
  <2>2. ControlTypeOK'
    BY <1>1, <1>3 DEF Inv, TypeOK, ControlTypeOK, Define
  <2> QED
    BY <2>1, <2>2 DEF TypeOK
<1>5. Reachable'
  BY <1>1, <1>2, <1>3 DEF Reachable, Define
<1>6. ASSUME NEW x \in Ids \ excused' PROVE Recovers(x)'
  <2>1. Recovers(x) /\ env[x] = own[x]
    BY <1>1, <1>2, <1>6 DEF Inv, Define, Recovers, ListRecovers, history
  <2> QED
    BY <1>2, <2>1 DEF Define, shellVars, history, Recovers, ScalarRecovers, NamedRecovers, ListRecovers
<1> QED
  BY <1>4, <1>5, <1>6 DEF Inv

(* What an operation of apply saves, whatever then becomes of it.          *)
LEMMA Captured ==
  ASSUME Inv, NEW x \in NextOperations, pc = "apply", Capture(x)
  PROVE  /\ x \in Ids /\ x \in todo /\ x \in DOMAIN reverse /\ Runnable /\ ~Saved(x)
         /\ DOMAIN slot' = Ids /\ DOMAIN base' = Lists
         /\ \A y \in Ids \ {x} : slot'[y] = slot[y]
         /\ \A l \in Lists \ {x} : base'[l] = base[l]
         /\ x \in Lists => slot'[x] = slot[x] /\ base'[x] = Base(x)
         /\ x \notin Lists => slot'[x] = env[x] /\ slot'[x] # None /\ base' = base
<1>1. x \in Ids /\ x \in todo /\ x \in DOMAIN reverse /\ Runnable /\ ~Saved(x)
  BY DEF NextOperations, Inv, TypeOK, ControlTypeOK, Reachable
<1>2. DOMAIN slot = Ids /\ DOMAIN base = Lists
  BY DEF Inv, TypeOK, EnvironmentTypeOK
<1>3. CASE x \in Lists
  BY <1>1, <1>2, <1>3 DEF Capture
<1>4. CASE x \notin Lists
  <2>1. env[x] # None
    BY <1>1, <1>4, NoneAssumption DEF Inv, TypeOK, EnvironmentTypeOK
  <2>2. slot' = [slot EXCEPT ![x] = env[x]] /\ base' = base
    BY <1>1, <1>4 DEF Capture
  <2> QED
    BY <1>1, <1>2, <1>4, <2>1, <2>2
<1> QED
  BY <1>3, <1>4

(* An operation that saved its identity, and did no more.                  *)
LEMMA CapturedInv ==
  ASSUME Inv, NEW x \in NextOperations, pc = "apply", Capture(x),
         UNCHANGED <<env, appliedSlot, own, locked, markers>>,
         excused' = excused, ControlTypeOK',
         pc' \in {"apply", "idle"}, todo' \subseteq todo \ {x}
  PROVE  Inv'
<1>1. EnvironmentTypeOK'
  BY Captured, BaseType DEF Inv, TypeOK, EnvironmentTypeOK
<1>2. Reachable'
  <2>1. \A y \in Ids \ {x} : Saved(y)' = Saved(y)
    BY Captured DEF Saved
  <2>2. reverse' = reverse /\ Runnable /\ Runnable' /\ active' = active /\ recovery' = recovery
    BY Captured DEF markers, Runnable
  <2>3. \A y \in Ids : Saved(y)' => y \in DOMAIN reverse'
    BY <2>1, <2>2, Captured DEF Inv, Reachable
  <2>4. \A y \in todo' : y \in DOMAIN reverse' /\ ~Saved(y)'
    BY <2>1, <2>2, Captured DEF Inv, TypeOK, ControlTypeOK, Reachable
  <2> QED
    BY <2>2, <2>3, <2>4 DEF Inv, Reachable
<1>3. ASSUME NEW y \in Ids \ excused' PROVE Recovers(y)'
  <2>1. Recovers(y) /\ y \in Ids /\ y \notin excused
    BY <1>3 DEF Inv
  <2>2. env' = env /\ own' = own /\ reverse' = reverse /\ Runnable' = Runnable /\ ~Done(y)'
        /\ Expected(y)' = Expected(y)
    BY DEF markers, Runnable, Done, Expected
  <2>3. CASE y # x
    <3>1. Saved(y)' = Saved(y) /\ slot'[y] = slot[y] /\ (y \in Lists => base'[y] = base[y])
      BY <2>1, <2>3, Captured DEF Saved
    <3> QED
      BY <2>1, <2>2, <3>1 DEF Recovers, ScalarRecovers, NamedRecovers, ListRecovers, RestoredScalar
  <2>4. CASE y = x /\ x \in Lists
    BY <2>1, <2>2, <2>4, Captured, BaseType, IdsAssumption DEF Recovers, ListRecovers, Ids, Saved
  <2>5. CASE y = x /\ x \notin Lists
    BY <2>1, <2>2, <2>5, Captured DEF Recovers, ScalarRecovers, NamedRecovers, RestoredScalar, Saved
  <2> QED
    BY <2>3, <2>4, <2>5
<1> QED
  BY <1>1, <1>2, <1>3 DEF Inv, TypeOK

LEMMA ApplyRefusedInv == Inv /\ ApplyRefused => Inv'
<1> SUFFICES ASSUME Inv, ApplyRefused PROVE Inv'
  OBVIOUS
<1> PICK x \in NextOperations \intersect Refused :
      /\ pc = "apply"
      /\ Capture(x)
      /\ todo' = todo \ {x} /\ failed' = TRUE
      /\ UNCHANGED <<env, appliedSlot, locked, markers, pc, why, target, history, edits>>
  BY DEF ApplyRefused
<1>1. ControlTypeOK'
  BY DEF Inv, TypeOK, ControlTypeOK, markers
<1> QED
  BY <1>1, CapturedInv DEF history

LEMMA AppliedType ==
  ASSUME Inv, NEW x \in Ids, Runnable, x \in DOMAIN reverse, NEW value \in Applied(x, reverse[x])
  PROVE  /\ x \in Lists => value \in Seq(Words \union Given)
         /\ x \notin Lists => value \in Words \union Switches
         /\ x \in Dynamic => value \in Words
         /\ x \notin Lists \union Dynamic => value = reverse[x]
<1>1. CASE x \in Lists
  <2>1. reverse[x].before \in Seq(Words \union Given) /\ reverse[x].after \in Seq(Words \union Given)
    BY <1>1, ManifestType DEF Inv
  <2>2. Spliced(x, reverse[x]) \in Seq(Words \union Given)
    BY <1>1, <2>1, BaseType DEF Spliced
  <2> QED
    BY <1>1, <2>2, IdsAssumption DEF Applied
<1>2. CASE x \notin Lists
  BY <1>2, ManifestType DEF Inv, Applied
<1> QED
  BY <1>1, <1>2

LEMMA ApplyInv == Inv /\ Apply => Inv'
<1> SUFFICES ASSUME Inv, Apply PROVE Inv'
  OBVIOUS
<1> PICK x \in NextOperations : \E value \in Applied(x, reverse[x]) :
      /\ pc = "apply" /\ x \notin locked \union Refused
      /\ Capture(x)
      /\ env' = [env EXCEPT ![x] = value]
      /\ appliedSlot' = IF x \in Dynamic THEN [appliedSlot EXCEPT ![x] = value] ELSE appliedSlot
      /\ todo' = todo \ {x} /\ failed' = FALSE
      /\ UNCHANGED <<locked, markers, pc, why, target, history, edits>>
  BY DEF Apply
<1> PICK value \in Applied(x, reverse[x]) :
      /\ pc = "apply" /\ x \notin locked \union Refused
      /\ Capture(x)
      /\ env' = [env EXCEPT ![x] = value]
      /\ appliedSlot' = IF x \in Dynamic THEN [appliedSlot EXCEPT ![x] = value] ELSE appliedSlot
      /\ todo' = todo \ {x} /\ failed' = FALSE
      /\ UNCHANGED <<locked, markers, pc, why, target, history, edits>>
  OBVIOUS
<1>1. x \in Ids /\ x \in DOMAIN reverse /\ Runnable /\ DOMAIN env = Ids /\ DOMAIN appliedSlot = Ids
  BY Captured DEF Inv, TypeOK, EnvironmentTypeOK
<1>2. /\ env'[x] = value /\ (x \in Dynamic => appliedSlot'[x] = value)
      /\ \A y \in Ids \ {x} : env'[y] = env[y] /\ appliedSlot'[y] = appliedSlot[y]
  BY <1>1
<1>3. TypeOK'
  <2>1. EnvironmentTypeOK'
    BY <1>1, <1>2, Captured, BaseType, AppliedType DEF Inv, TypeOK, EnvironmentTypeOK, history
  <2>2. ControlTypeOK'
    BY DEF Inv, TypeOK, ControlTypeOK, markers
  <2> QED
    BY <2>1, <2>2 DEF TypeOK
<1>4. Reachable'
  <2>1. \A y \in Ids \ {x} : Saved(y)' = Saved(y)
    BY Captured DEF Saved
  <2>2. reverse' = reverse /\ Runnable' /\ active' = active /\ recovery' = recovery
    BY <1>1 DEF markers, Runnable
  <2>3. \A y \in Ids : Saved(y)' => y \in DOMAIN reverse'
    BY <1>1, <2>1, <2>2 DEF Inv, Reachable
  <2>4. \A y \in todo' : y \in DOMAIN reverse' /\ ~Saved(y)'
    BY <2>1, <2>2 DEF Inv, TypeOK, ControlTypeOK, Reachable
  <2> QED
    BY <2>2, <2>3, <2>4 DEF Inv, Reachable
<1>5. ASSUME NEW y \in Ids \ excused' PROVE Recovers(y)'
  <2>1. Recovers(y) /\ y \in Ids /\ y \notin excused
    BY <1>5 DEF Inv, history
  <2>2. own' = own /\ reverse' = reverse /\ Runnable' = Runnable /\ ~Done(y)'
    BY DEF markers, history, Runnable, Done
  <2>3. CASE y # x
    <3>1. /\ Saved(y)' = Saved(y) /\ slot'[y] = slot[y] /\ (y \in Lists => base'[y] = base[y])
          /\ env'[y] = env[y] /\ Expected(y)' = Expected(y)
      BY <1>2, <2>1, <2>2, <2>3, Captured DEF Saved, Expected
    <3> QED
      BY <2>1, <2>2, <3>1 DEF Recovers, ScalarRecovers, NamedRecovers, ListRecovers, RestoredScalar
  <2>4. CASE y = x /\ x \in Lists
    BY <1>1, <2>1, <2>2, <2>4, Captured, BaseType, IdsAssumption DEF Recovers, ListRecovers, Ids, Saved
  <2>5. CASE y = x /\ x \notin Lists
    <3>1. slot'[x] = own[x] /\ Saved(x)'
      BY <2>1, <2>5, Captured DEF Recovers, Saved
    <3>2. x \in Scalars => Expected(x)' = env'[x]
      BY <1>1, <1>2, <2>2, <2>5, NoneAssumption, AppliedType DEF Expected
    <3> QED
      BY <2>2, <2>5, <3>1, <3>2 DEF Recovers, ScalarRecovers, NamedRecovers, RestoredScalar
  <2> QED
    BY <2>3, <2>4, <2>5
<1> QED
  BY <1>3, <1>4, <1>5 DEF Inv

LEMMA ApplyUnwindsInv == Inv /\ ApplyUnwinds => Inv'
<1> SUFFICES ASSUME Inv, ApplyUnwinds PROVE Inv'
  OBVIOUS
<1> PICK x \in NextOperations :
      /\ pc = "apply"
      /\ Capture(x)
      /\ \/ UNCHANGED <<env, excused>>
         \/ /\ x \in Dynamic \ locked
            /\ \E value \in Words : env' = [env EXCEPT ![x] = value]
            /\ excused' = excused \union {x}
      /\ Idle
      /\ UNCHANGED <<appliedSlot, locked, markers, own, edits>>
  BY DEF ApplyUnwinds
<1>1. ControlTypeOK'
  BY DEF Inv, TypeOK, ControlTypeOK, markers, Idle
<1>2. CASE UNCHANGED <<env, excused>>
  BY <1>1, <1>2, CapturedInv DEF Idle
<1>3. CASE /\ x \in Dynamic
           /\ \E value \in Words : env' = [env EXCEPT ![x] = value]
           /\ excused' = excused \union {x}
  <2>1. /\ x \in Ids /\ x \notin Lists /\ DOMAIN env' = Ids /\ env'[x] \in Words
        /\ \A y \in Ids \ {x} : env'[y] = env[y]
    BY <1>3, Captured, IdsAssumption DEF Inv, TypeOK, EnvironmentTypeOK
  <2>2. EnvironmentTypeOK'
    <3>1. DOMAIN slot' = Ids /\ base' = base /\ slot'[x] \in Words \union Switches \union {Absent, None}
          /\ \A y \in Ids \ {x} : slot'[y] = slot[y]
      BY <2>1, Captured DEF Inv, TypeOK, EnvironmentTypeOK
    <3>2. \A l \in Lists : l \in Ids /\ env'[l] = env[l] /\ slot'[l] = slot[l]
      BY <2>1, <3>1 DEF Ids
    <3>3. \A y \in Ids \ Lists :
            /\ env'[y] \in Words \union Switches \union {Absent}
            /\ slot'[y] \in Words \union Switches \union {Absent, None}
      BY <2>1, <3>1 DEF Inv, TypeOK, EnvironmentTypeOK
    <3>4. excused' \subseteq Ids
      BY <1>3, <2>1 DEF Inv, TypeOK, EnvironmentTypeOK
    <3> QED
      BY <2>1, <3>1, <3>2, <3>3, <3>4 DEF Inv, TypeOK, EnvironmentTypeOK
  <2>3. Reachable'
    BY Captured DEF Inv, Reachable, Saved, Runnable, markers, Idle
  <2>4. ASSUME NEW y \in Ids \ excused' PROVE Recovers(y)'
    <3>1. Recovers(y) /\ y \in Ids /\ y # x
      BY <1>3, <2>4 DEF Inv
    <3>2. /\ own' = own /\ reverse' = reverse /\ Runnable' = Runnable /\ ~Done(y)'
          /\ env'[y] = env[y] /\ slot'[y] = slot[y] /\ (y \in Lists => base'[y] = base[y])
          /\ Saved(y)' = Saved(y) /\ Expected(y)' = Expected(y)
      BY <2>1, <3>1, Captured DEF markers, Runnable, Done, Saved, Expected, Idle
    <3> QED
      BY <3>1, <3>2 DEF Recovers, ScalarRecovers, NamedRecovers, ListRecovers, RestoredScalar
  <2> QED
    BY <1>1, <2>2, <2>3, <2>4 DEF Inv, TypeOK
<1> QED
  BY <1>2, <1>3

-------------------------------------------------------------------------------
(* The user                                                                *)

(* An edit of x that is the terminal's own from now on.                    *)
LEMMA EditedInv ==
  ASSUME Inv, pc = "idle", NEW x \in Ids, NEW value,
         IF x \in Lists THEN value \in Seq(Words \union Given)
         ELSE value \in Words \union Switches \union {Absent},
         env' = [env EXCEPT ![x] = value],
         DOMAIN own' = Ids, \A y \in Ids \ {x} : own'[y] = own[y],
         x \in Lists => own'[x] \in Seq(Words),
         x \notin Lists => own'[x] = value,
         excused' \in {excused, excused \union {x}, excused \ {x}},
         UNCHANGED <<slot, appliedSlot, base, markers, control>>,
         locked' = locked,
         x \notin excused' => Recovers(x)'
  PROVE  Inv'
<1>1. DOMAIN env = Ids /\ DOMAIN env' = Ids /\ env'[x] = value /\ \A y \in Ids \ {x} : env'[y] = env[y]
  BY DEF Inv, TypeOK, EnvironmentTypeOK
<1>2. EnvironmentTypeOK'
  <2>1. \A l \in Lists : l \in Ids /\ env'[l] \in Seq(Words \union Given) /\ own'[l] \in Seq(Words)
    BY <1>1 DEF Inv, TypeOK, EnvironmentTypeOK, Ids
  <2>2. \A y \in Ids \ Lists :
          /\ env'[y] \in Words \union Switches \union {Absent}
          /\ own'[y] \in Words \union Switches \union {Absent}
    BY <1>1 DEF Inv, TypeOK, EnvironmentTypeOK
  <2>3. excused' \subseteq Ids
    BY DEF Inv, TypeOK, EnvironmentTypeOK
  <2> QED
    BY <1>1, <2>1, <2>2, <2>3 DEF Inv, TypeOK, EnvironmentTypeOK
<1>3. ControlTypeOK'
  BY DEF Inv, TypeOK, ControlTypeOK, markers, control
<1>4. Reachable'
  BY DEF Inv, Reachable, Saved, Runnable, markers, control
<1>5. ASSUME NEW y \in Ids \ excused', y # x PROVE Recovers(y)'
  <2>1. Recovers(y) /\ env'[y] = env[y] /\ own'[y] = own[y]
    BY <1>1, <1>5 DEF Inv
  <2> QED
    BY <2>1 DEF Recovers, ScalarRecovers, NamedRecovers, ListRecovers, RestoredScalar, Expected, Saved, Runnable, Done, markers, control
<1> QED
  BY <1>2, <1>3, <1>4, <1>5 DEF Inv, TypeOK

LEMMA UserInv == Inv /\ User => Inv'
<1> SUFFICES ASSUME Inv, User PROVE Inv'
  OBVIOUS
<1> USE DEF User
<1>1. ASSUME NEW x \in Ids \ (Lists \union Refused), NEW value \in Words \union Switches \union {Absent},
             Sets(x, value)
      PROVE  Inv'
  <2>1. DOMAIN own = Ids /\ DOMAIN env = Ids
    BY DEF Inv, TypeOK, EnvironmentTypeOK
  <2>2. env'[x] = value /\ own'[x] = value /\ DOMAIN own' = Ids /\ \A y \in Ids \ {x} : own'[y] = own[y]
    BY <1>1, <2>1 DEF Sets
  <2>3. excused' \in {excused, excused \union {x}, excused \ {x}}
    BY <1>1 DEF Sets
  <2>4. ASSUME x \notin excused' PROVE Recovers(x)'
    <3>1. Saved(x) => x \in Scalars /\ value # Expected(x)
      BY <1>1, <2>4 DEF Sets
    <3>2. Saved(x)' = Saved(x) /\ Expected(x)' = Expected(x) /\ ~Done(x)'
      BY <1>1 DEF Sets, Saved, Expected, Done, markers, control
    <3> QED
      BY <1>1, <2>2, <3>1, <3>2, IdsAssumption DEF Recovers, ScalarRecovers, NamedRecovers, RestoredScalar
  <2> QED
    BY <1>1, <2>2, <2>3, <2>4, EditedInv DEF Sets
<1>2. CASE UserSets
  BY <1>1, <1>2, IdsAssumption DEF UserSets, Ids
<1>3. CASE UserExtendsList
  <2> PICK l \in Lists, word \in Words :
        /\ l \notin locked
        /\ env' = [env EXCEPT ![l] = Append(@, word)]
        /\ own' = [own EXCEPT ![l] = Append(@, word)]
        /\ excused' = IF base[l] = None THEN excused ELSE excused \union {l}
        /\ UNCHANGED <<slot, appliedSlot, base, locked, markers>>
    BY <1>3 DEF UserExtendsList
  <2>1. l \in Ids /\ DOMAIN own = Ids /\ DOMAIN env = Ids
    BY DEF Inv, TypeOK, EnvironmentTypeOK, Ids
  <2>2. env' = [env EXCEPT ![l] = Append(env[l], word)] /\ Append(env[l], word) \in Seq(Words \union Given)
    BY DEF Inv, TypeOK, EnvironmentTypeOK
  <2>3. own'[l] = Append(own[l], word) /\ own'[l] \in Seq(Words)
    BY <2>1 DEF Inv, TypeOK, EnvironmentTypeOK
  <2>4. DOMAIN own' = Ids /\ \A y \in Ids \ {l} : own'[y] = own[y]
    BY <2>1
  <2>5. ASSUME l \notin excused' PROVE Recovers(l)'
    <3>1. base[l] = None /\ l \notin excused /\ base'[l] = None
      BY <2>5
    <3>2. Recovers(l) /\ env'[l] = own'[l]
      BY <2>1, <2>2, <2>3, <3>1 DEF Inv, Recovers, ListRecovers
    <3>3. ~Saved(l) /\ ~Saved(l)' /\ l \notin Scalars \union Aliases \union Options \union Refused
      BY IdsAssumption DEF Inv, TypeOK, EnvironmentTypeOK, Saved
    <3> QED
      BY <3>1, <3>2, <3>3 DEF Recovers, ListRecovers, ScalarRecovers, NamedRecovers
  <2> QED
    BY <2>1, <2>2, <2>3, <2>4, <2>5, EditedInv
<1>4. CASE UserLocks
  <2>1. TypeOK'
    BY <1>4 DEF UserLocks, Inv, TypeOK, EnvironmentTypeOK, ControlTypeOK, shellVars, markers, control, history
  <2>2. Reachable'
    BY <1>4 DEF UserLocks, Inv, Reachable, Saved, Runnable, shellVars, markers, control
  <2>3. \A x \in Ids \ excused' : Recovers(x)'
    BY <1>4, KeptRecovers DEF UserLocks, Done, markers, control, history
  <2> QED
    BY <2>1, <2>2, <2>3 DEF Inv
<1> QED
  BY <1>2, <1>3, <1>4

-------------------------------------------------------------------------------
(* Lists: what a profile put into one is there once, and goes as a whole.  *)

(* The captured base is the terminal's own, and a list holds nothing else  *)
(* unless the reverse that is defined still has to restore it.             *)
Tidy(l) ==
  /\ base[l] = None => env[l] \in Seq(Words)
  /\ base[l] \in Seq(Words) \union {None}
  /\ (Runnable => l \notin DOMAIN reverse) => env[l] \in Seq(Words)
  /\ pc = "commit" => env[l] \in Seq(Words)
  /\ pc = "restore" /\ l \notin todo => env[l] \in Seq(Words)
  /\ env[l] \in Seq(Words) \/ (Runnable /\ l \in DOMAIN reverse /\ SplicedOnce(env[l], reverse[l]))
ListInv == \A l \in Lists : Tidy(l)

(* A list that is spliced has the plan's words around the base.            *)
LEMMA SplicedIsOnce ==
  ASSUME NEW before \in Seq(Given), NEW mine \in Seq(Words), NEW after \in Seq(Given)
  PROVE  SplicedOnce(before \o mine \o after, [before |-> before, after |-> after])
<1> DEFINE list == before \o mine \o after
           delta == [before |-> before, after |-> after]
           n == Len(before) + Len(mine)
<1>1. /\ Len(list) = n + Len(after) /\ Len(before) \in Nat /\ Len(mine) \in Nat /\ Len(after) \in Nat
      /\ DOMAIN list = 1 .. Len(list)
  OBVIOUS
<1>2. n \in Len(delta.before) .. Len(list) - Len(delta.after)
  BY <1>1
<1>3. ASSUME NEW k \in DOMAIN list
      PROVE  IF k <= Len(delta.before) THEN list[k] = delta.before[k]
             ELSE IF k \in n + 1 .. n + Len(delta.after) THEN list[k] = delta.after[k - n]
             ELSE list[k] \in Words
  OBVIOUS
<1> QED
  BY <1>2, <1>3 DEF SplicedOnce

(* A word the user appends comes after what was spliced.                   *)
LEMMA SplicedExtends ==
  ASSUME NEW list \in Seq(Words \union Given), NEW word \in Words,
         NEW delta \in [before : Seq(Given), after : Seq(Given)], SplicedOnce(list, delta)
  PROVE  SplicedOnce(Append(list, word), delta)
<1> PICK n \in Len(delta.before) .. Len(list) - Len(delta.after) : \A k \in DOMAIN list :
      IF k <= Len(delta.before) THEN list[k] = delta.before[k]
      ELSE IF k \in n + 1 .. n + Len(delta.after) THEN list[k] = delta.after[k - n]
      ELSE list[k] \in Words
  BY DEF SplicedOnce
<1> DEFINE more == Append(list, word)
<1>1. /\ Len(delta.before) \in Nat /\ Len(delta.after) \in Nat /\ Len(list) \in Nat
      /\ Len(more) = Len(list) + 1 /\ DOMAIN list = 1 .. Len(list) /\ DOMAIN more = 1 .. Len(list) + 1
      /\ more[Len(list) + 1] = word /\ \A k \in DOMAIN list : more[k] = list[k]
  OBVIOUS
<1>2. n \in Len(delta.before) .. Len(more) - Len(delta.after)
  BY <1>1
<1>3. ASSUME NEW k \in DOMAIN more
      PROVE  IF k <= Len(delta.before) THEN more[k] = delta.before[k]
             ELSE IF k \in n + 1 .. n + Len(delta.after) THEN more[k] = delta.after[k - n]
             ELSE more[k] \in Words
  BY <1>1
<1> QED
  BY <1>2, <1>3 DEF SplicedOnce

LEMMA DeltaType ==
  ASSUME TypeOK, Runnable, NEW l \in Lists, l \in DOMAIN reverse
  PROVE  reverse[l] \in [before : Seq(Given), after : Seq(Given)]
<1>1. reverse \in Manifests
  BY DEF TypeOK, ControlTypeOK, Runnable
<1> QED
  BY <1>1, ManifestAssumption

(* A step that leaves the lists alone and is not where one is restored.    *)
LEMMA KeptLists ==
  ASSUME ListInv, UNCHANGED <<reverse, base>>, \A l \in Lists : env'[l] = env[l],
         pc' = "commit" => pc = "commit",
         pc' = "restore" => pc = "restore" /\ todo' = todo
  PROVE  ListInv'
BY DEF ListInv, Tidy, Runnable

LEMMA InitLists == Init => ListInv
BY StartAssumption DEF Init, ListInv, Tidy, Runnable, Ids

LEMMA ReverseLists == Inv /\ ListInv /\ ReverseStep => ListInv'
<1> SUFFICES ASSUME Inv, ListInv, ReverseStep PROVE ListInv'
  OBVIOUS
<1>1. CASE Preflight
  <2>1. ASSUME NEW l \in Lists PROVE Tidy(l)'
    BY <1>1 DEF Preflight, Idle, shellVars, markers, ListInv, Tidy, Runnable
  <2> QED
    BY <2>1 DEF ListInv
<1>2. CASE Restore
  <2> PICK x \in NextOperations :
        /\ pc = "restore"
        /\ env' = [env EXCEPT ![x] = Restored(x)]
        /\ todo' = todo \ {x}
        /\ UNCHANGED <<base, markers, pc>>
    BY <1>2 DEF Restore
  <2>1. x \in Ids /\ DOMAIN env = Ids /\ Runnable /\ DOMAIN reverse \subseteq Ids
    BY ManifestType DEF Inv, TypeOK, EnvironmentTypeOK, ControlTypeOK, Reachable, NextOperations
  <2>2. ASSUME NEW l \in Lists, l # x PROVE Tidy(l)'
    BY <2>1, <2>2 DEF ListInv, Tidy, Runnable, markers, Ids
  <2>3. ASSUME x \in Lists PROVE Tidy(x)'
    <3>1. env'[x] = RestoredList(x)
      BY <2>1, <2>3, IdsAssumption DEF Restored
    <3>2. <<>> \in Seq(Words) /\ base[x] \in Seq(Words) \union {None}
      BY <2>3 DEF ListInv, Tidy
    <3>3. env'[x] \in Seq(Words)
      BY <3>1, <3>2 DEF RestoredList
    <3> QED
      BY <2>3, <3>3 DEF ListInv, Tidy
  <2> QED
    BY <2>2, <2>3 DEF ListInv
<1>3. CASE RestoreFails
  BY <1>3, KeptLists DEF RestoreFails, Idle, shellVars, markers
<1>4. CASE BeginCommit
  <2>1. ASSUME NEW l \in Lists PROVE Tidy(l)'
    BY <1>4 DEF BeginCommit, shellVars, markers, ListInv, Tidy, Runnable
  <2> QED
    BY <2>1 DEF ListInv
<1>5. CASE Commit
  BY <1>5, KeptLists DEF Commit, markers, Inv, TypeOK, ControlTypeOK
<1>6. CASE DropFunction
  <2>1. ASSUME NEW l \in Lists PROVE Tidy(l)'
    BY <1>6 DEF DropFunction, Go, shellVars, ListInv, Tidy, Runnable
  <2> QED
    BY <2>1 DEF ListInv
<1>7. CASE Unpoint
  BY <1>7, KeptLists DEF Unpoint, Go, shellVars
<1>8. CASE Forget
  BY <1>8, KeptLists DEF Forget, Idle, shellVars
<1>9. CASE Clear
  BY <1>9, KeptLists DEF Clear, Go, Idle, shellVars
<1> QED
  BY <1>1, <1>2, <1>3, <1>4, <1>5, <1>6, <1>7, <1>8, <1>9 DEF ReverseStep

(* Capture keeps the terminal's own list, once.                            *)
LEMMA CapturedLists ==
  ASSUME Inv, ListInv, NEW x \in NextOperations, Capture(x), UNCHANGED markers, pc = "apply",
         pc' \in {"apply", "idle"}, \A l \in Lists : env'[l] = env[l]
  PROVE  ListInv'
<1>1. ASSUME NEW l \in Lists PROVE Tidy(l)'
  <2>1. base'[l] \in {base[l], Base(l)} /\ DOMAIN base = Lists
    BY DEF Capture, Inv, TypeOK, EnvironmentTypeOK
  <2>2. base'[l] = None => base[l] = None
    BY <2>1 DEF Base
  <2>3. base'[l] \in Seq(Words) \union {None}
    BY <2>1 DEF Base, ListInv, Tidy
  <2> QED
    BY <2>2, <2>3 DEF ListInv, Tidy, Runnable, markers
<1> QED
  BY <1>1 DEF ListInv

LEMMA PayloadLists == Inv /\ ListInv /\ PayloadStep => ListInv'
<1> SUFFICES ASSUME Inv, ListInv, PayloadStep PROVE ListInv'
  OBVIOUS
<1>1. CASE Prepare
  <2>1. base' = [base EXCEPT ![Path] = Base(Path)] /\ UNCHANGED <<env, markers>> /\ pc' = "define"
        /\ DOMAIN base = Lists
    BY <1>1 DEF Prepare, Go, Inv, TypeOK, EnvironmentTypeOK
  <2>2. ASSUME NEW l \in Lists PROVE Tidy(l)'
    BY <2>1 DEF Base, ListInv, Tidy, Runnable, markers
  <2> QED
    BY <2>2 DEF ListInv
<1>2. CASE Define
  <2>1. ~Runnable
    BY <1>2 DEF Define, Inv, Reachable
  <2>2. ASSUME NEW l \in Lists PROVE Tidy(l)'
    BY <1>2, <2>1 DEF Define, shellVars, ListInv, Tidy, Runnable
  <2> QED
    BY <2>2 DEF ListInv
<1>3. CASE Apply
  <2> PICK x \in NextOperations : \E value \in Applied(x, reverse[x]) :
        /\ pc = "apply"
        /\ Capture(x)
        /\ env' = [env EXCEPT ![x] = value]
        /\ UNCHANGED <<markers, pc>>
    BY <1>3 DEF Apply
  <2> PICK value \in Applied(x, reverse[x]) :
        /\ pc = "apply"
        /\ Capture(x)
        /\ env' = [env EXCEPT ![x] = value]
        /\ UNCHANGED <<markers, pc>>
    OBVIOUS
  <2>1. x \in Ids /\ DOMAIN env = Ids /\ Runnable /\ x \in DOMAIN reverse /\ DOMAIN base = Lists
    BY DEF Inv, TypeOK, EnvironmentTypeOK, ControlTypeOK, Reachable, NextOperations
  <2>2. ASSUME NEW l \in Lists, l # x PROVE Tidy(l)'
    <3>1. base'[l] = base[l] /\ env'[l] = env[l]
      BY <2>1, <2>2 DEF Capture, Ids
    <3> QED
      BY <3>1 DEF ListInv, Tidy, Runnable, markers
  <2>3. ASSUME x \in Lists PROVE Tidy(x)'
    <3>1. reverse[x] \in [before : Seq(Given), after : Seq(Given)]
      BY <2>1, <2>3, DeltaType DEF Inv
    <3>2. Base(x) \in Seq(Words) /\ base'[x] = Base(x)
      BY <2>1, <2>3 DEF Base, ListInv, Tidy, Capture
    <3>3. env'[x] = reverse[x].before \o Base(x) \o reverse[x].after
      BY <2>1, <2>3 DEF Applied, Spliced
    <3>4. /\ reverse[x] = [before |-> reverse[x].before, after |-> reverse[x].after]
          /\ reverse[x].before \in Seq(Given) /\ reverse[x].after \in Seq(Given)
      BY <3>1
    <3>6. SplicedOnce(env'[x], reverse[x])
      BY <3>2, <3>3, <3>4, SplicedIsOnce
    <3>5. Base(x) # None
      BY <3>2, NoneAssumption
    <3> QED
      BY <2>1, <3>2, <3>5, <3>6 DEF Tidy, Runnable, markers
  <2> QED
    BY <2>2, <2>3 DEF ListInv
<1>4. CASE ApplyRefused
  BY <1>4, CapturedLists DEF ApplyRefused
<1>5. CASE ApplyUnwinds
  <2> PICK x \in NextOperations :
        /\ pc = "apply" /\ Capture(x) /\ pc' = "idle" /\ UNCHANGED markers
        /\ \/ UNCHANGED env
           \/ x \in Dynamic /\ \E value \in Words : env' = [env EXCEPT ![x] = value]
    BY <1>5 DEF ApplyUnwinds, Idle
  <2>1. (x \in Dynamic => x \notin Lists) /\ DOMAIN env = Ids /\ Lists \subseteq Ids
    BY IdsAssumption DEF Inv, TypeOK, EnvironmentTypeOK, Ids
  <2>2. \A l \in Lists : env'[l] = env[l]
    BY <2>1
  <2> QED
    BY <2>2, CapturedLists
<1>6. CASE Promote
  BY <1>6, KeptLists DEF Promote, Go, shellVars
<1>7. CASE Compensate
  BY <1>7, KeptLists DEF Compensate, shellVars, markers
<1>8. CASE Settle
  BY <1>8, KeptLists DEF Settle, Go, shellVars
<1>9. CASE Mark
  BY <1>9, KeptLists DEF Mark, Go, shellVars
<1>10. CASE Export
  BY <1>10, KeptLists DEF Export, Idle, shellVars
<1> QED
  BY <1>1, <1>2, <1>3, <1>4, <1>5, <1>6, <1>7, <1>8, <1>9, <1>10 DEF PayloadStep

LEMMA UserLists == Inv /\ ListInv /\ User => ListInv'
<1> SUFFICES ASSUME Inv, ListInv, User PROVE ListInv'
  OBVIOUS
<1>0. pc = "idle" /\ UNCHANGED control
  BY DEF User
<1>1. CASE UserSets
  <2>1. PICK x \in Ids \ Lists : \E value : Sets(x, value)
    BY <1>1, IdsAssumption DEF UserSets, Ids
  <2>2. (\A l \in Lists : env'[l] = env[l]) /\ UNCHANGED <<reverse, base>>
    BY <2>1 DEF Sets, markers
  <2> QED
    BY <1>0, <2>2, KeptLists DEF control
<1>2. CASE UserExtendsList
  <2> PICK l \in Lists, word \in Words :
        env' = [env EXCEPT ![l] = Append(@, word)] /\ UNCHANGED <<base, markers>>
    BY <1>2 DEF UserExtendsList
  <2>1. DOMAIN env = Ids /\ l \in Ids /\ env[l] \in Seq(Words \union Given)
    BY DEF Inv, TypeOK, EnvironmentTypeOK, Ids
  <2>2. ASSUME NEW m \in Lists, m # l PROVE Tidy(m)'
    BY <1>0, <2>1, <2>2 DEF ListInv, Tidy, Runnable, markers, control
  <2>3. Tidy(l)'
    <3>1. env'[l] = Append(env[l], word)
      BY <2>1
    <3>2. env[l] \in Seq(Words) => env'[l] \in Seq(Words)
      BY <3>1
    <3>3. Runnable /\ l \in DOMAIN reverse /\ SplicedOnce(env[l], reverse[l]) =>
            SplicedOnce(env'[l], reverse[l])
      BY <2>1, <3>1, SplicedExtends, DeltaType DEF Inv
    <3> QED
      BY <1>0, <3>2, <3>3 DEF ListInv, Tidy, Runnable, markers, control
  <2> QED
    BY <2>2, <2>3 DEF ListInv
<1>3. CASE UserLocks
  BY <1>0, <1>3, KeptLists DEF UserLocks, shellVars, markers, control
<1> QED
  BY <1>1, <1>2, <1>3 DEF User

LEMMA NextLists == Inv /\ ListInv /\ [Next]_vars => ListInv'
<1> SUFFICES ASSUME Inv, ListInv, [Next]_vars PROVE ListInv'
  OBVIOUS
<1>1. CASE StartSwitch
  BY <1>1, KeptLists DEF StartSwitch, shellVars, markers, ReversedFirst
<1>2. CASE StartDeactivate
  BY <1>2, KeptLists DEF StartDeactivate, shellVars, markers
<1>3. CASE Interrupt
  BY <1>3, KeptLists DEF Interrupt, Idle, shellVars, markers
<1>4. CASE UNCHANGED vars
  BY <1>4, KeptLists DEF vars, shellVars, markers, control
<1> QED
  BY <1>1, <1>2, <1>3, <1>4, ReverseLists, PayloadLists, UserLists DEF Next

-------------------------------------------------------------------------------
(* Pointers: the way to the reverse function of a terminal that was never  *)
(* interrupted.                                                            *)

Pointers ==
  /\ recovery => activeProfile = None
  /\ pc \in {"preflight", "restore", "commit", "unpoint"} =>
       IF why \in {"recover", "compensate"} THEN recovery
       ELSE why \in {"switch", "deactivate"} /\ active /\ ~recovery /\ activeProfile # None
  /\ pc = "forget" => ~active /\ recovery
  /\ pc = "clear" => ~active /\ ~recovery /\ why \in {"switch", "deactivate"}
  /\ pc \in {"prepare", "define"} => ~active /\ ~recovery /\ activeProfile = None
  /\ pc = "settle" => recovery
  /\ pc \in {"mark", "export"} => Runnable /\ active /\ ~recovery
  /\ pc = "export" => activeProfile # None
PointerInv == ~interrupted => Pointers /\ NeverStranded

LEMMA InitPointers == Init => PointerInv
BY DEF Init, PointerInv, Pointers, NeverStranded, Runnable

LEMMA NextPointers == Inv /\ PointerInv /\ [Next]_vars => PointerInv'
<1> SUFFICES ASSUME Inv, PointerInv, [Next]_vars, ~interrupted' PROVE Pointers' /\ NeverStranded'
  BY DEF PointerInv
<1> USE DEF PointerInv, Pointers, NeverStranded, Runnable, Idle, Go, markers, control, history
<1>1. CASE User
  BY <1>1 DEF User, UserSets, UserExtendsList, UserLocks, Sets
<1>2. CASE StartSwitch
  BY <1>2 DEF StartSwitch, ReversedFirst
<1>3. CASE StartDeactivate
  BY <1>3 DEF StartDeactivate
<1>4. CASE Preflight
  BY <1>4 DEF Preflight, Inv, Reachable
<1>5. CASE Restore
  BY <1>5 DEF Restore
<1>6. CASE RestoreFails
  BY <1>6 DEF RestoreFails, Inv, Reachable
<1>7. CASE BeginCommit
  BY <1>7 DEF BeginCommit
<1>8. CASE Commit
  BY <1>8 DEF Commit
<1>9. CASE DropFunction
  BY <1>9 DEF DropFunction
<1>10. CASE Unpoint
  BY <1>10 DEF Unpoint, Inv, Reachable
<1>11. CASE Forget
  BY <1>11 DEF Forget, Inv, Reachable
<1>12. CASE Clear
  BY <1>12 DEF Clear, Inv, Reachable
<1>13. CASE Prepare
  BY <1>13 DEF Prepare
<1>14. CASE Define
  BY <1>14 DEF Define
<1>15. CASE Apply
  BY <1>15 DEF Apply
<1>16. CASE ApplyRefused
  BY <1>16 DEF ApplyRefused
<1>17. CASE ApplyUnwinds
  BY <1>17 DEF ApplyUnwinds, Inv, Reachable
<1>18. CASE Promote
  BY <1>18 DEF Promote, Inv, Reachable
<1>19. CASE Compensate
  BY <1>19 DEF Compensate, Inv, Reachable
<1>20. CASE Settle
  BY <1>20 DEF Settle, Inv, Reachable
<1>21. CASE Mark
  <2>1. target'.name \in Profiles /\ target'.name # None
    BY <1>21, NoneAssumption DEF Mark, Inv, TypeOK, ControlTypeOK
  <2> QED
    BY <1>21, <2>1 DEF Mark, Inv, Reachable
<1>22. CASE Export
  BY <1>22 DEF Export
<1>23. CASE Interrupt
  BY <1>23 DEF Interrupt
<1>24. CASE UNCHANGED vars
  BY <1>24 DEF vars
<1> QED
  BY <1>1, <1>2, <1>3, <1>4, <1>5, <1>6, <1>7, <1>8, <1>9, <1>10, <1>11, <1>12, <1>13, <1>14, <1>15,
     <1>16, <1>17, <1>18, <1>19, <1>20, <1>21, <1>22, <1>23, <1>24 DEF Next, ReverseStep, PayloadStep

-------------------------------------------------------------------------------
(* The theorems                                                            *)

LEMMA StutterInv == Inv /\ UNCHANGED vars => Inv'
<1> SUFFICES ASSUME Inv, UNCHANGED vars PROVE Inv'
  OBVIOUS
<1>1. TypeOK'
  BY KeptTypes DEF vars, history, control, markers, Inv, TypeOK, ControlTypeOK
<1>2. Reachable'
  BY DEF vars, shellVars, markers, control, Inv, Reachable, Saved, Runnable, ScalarPreflightOK, Expected
<1>3. \A x \in Ids \ excused' : Recovers(x)'
  BY KeptRecovers DEF vars, history, markers, control, Done
<1> QED
  BY <1>1, <1>2, <1>3 DEF Inv

LEMMA NextInv == Inv /\ [Next]_vars => Inv'
<1>1. Inv /\ ReverseStep => Inv'
  BY PreflightInv, RestoreInv, RestoreFailsInv, BeginCommitInv, CommitInv, DropFunctionInv,
     UnpointInv, ForgetInv, ClearInv DEF ReverseStep
<1>2. Inv /\ PayloadStep => Inv'
  BY PrepareInv, DefineInv, ApplyInv, ApplyRefusedInv, ApplyUnwindsInv, PromoteInv,
     CompensateInv, SettleInv, MarkInv, ExportInv DEF PayloadStep
<1> QED
  BY <1>1, <1>2, UserInv, StartSwitchInv, StartDeactivateInv, InterruptInv, StutterInv DEF Next

LEMMA SpecInv == Spec => []Inv
BY InitInv, NextInv, PTL DEF Spec

(* Every variable keeps its type, and a switch its payload, whatever the   *)
(* loader of hook.go is doing.                                             *)
THEOREM SwitchTypes == Spec => []TypeOK
<1>1. Inv => TypeOK
  BY DEF Inv
<1> QED
  BY SpecInv, <1>1, PTL

(* What a reverse function of emit.go has left to restore is never         *)
(* orphaned: whatever fails or is interrupted, a pointer leads to it.      *)
THEOREM SavedIsReachable == Spec => []ReverseReachable
<1>1. Inv => ReverseReachable
  BY DEF Inv, Reachable, ReverseReachable
<1> QED
  BY SpecInv, <1>1, PTL

(* Once the reverse function is gone, an identity is what it would be had  *)
(* no profile ever been active, for every plan, unless it is excused: the  *)
(* cases NothingLeftBehind lists, in which the code may leave a residue.   *)
THEOREM ZeroResidue == Spec => []NothingLeftBehind
<1>1. Inv => NothingLeftBehind
  BY DEF Inv, Reachable, Recovers, ListRecovers, NothingLeftBehind
<1> QED
  BY SpecInv, <1>1, PTL

(* A list never holds the words of a profile twice, of two profiles, or of *)
(* one whose reverse (emit.go) is gone, whatever failed in between.        *)
THEOREM ListsNeverAccumulate == Spec => []NoAccumulation
<1>1. Inv /\ ListInv /\ [Next]_vars => ListInv'
  BY NextLists
<1>2. ListInv => NoAccumulation
  BY DEF ListInv, Tidy, NoAccumulation
<1> QED
  BY SpecInv, InitLists, <1>1, <1>2, PTL DEF Spec

(* In a terminal whose loader was never interrupted, a command always ends *)
(* with markers and pointers that lead deactivate to the reverse function  *)
(* that is defined, or with none of them (_zp_switch, _zp_run_payload).    *)
THEOREM NobodyIsStranded == Spec => []NeverStranded
<1>1. Inv /\ PointerInv /\ [Next]_vars => PointerInv'
  BY NextPointers
<1>2. PointerInv => NeverStranded
  BY DEF PointerInv, NeverStranded
<1> QED
  BY SpecInv, InitPointers, <1>1, <1>2, PTL DEF Spec

===============================================================================
