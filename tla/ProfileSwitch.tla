---------------------------- MODULE ProfileSwitch ----------------------------
(***************************************************************************)
(* One terminal that switches whole profiles: _zp_switch and deactivate in *)
(* core/shell/zsh/hook.go, and the apply and reverse functions that        *)
(* core/shell/zsh/emit.go renders from a plan of core/activate/diff.go.    *)
(* activate and checkout take this path in a terminal whose dispatcher is  *)
(* missing, whose helper has no worktree protocol, or that has switched    *)
(* this way before.                                                        *)
(*                                                                         *)
(* An emitted payload defines an apply and a reverse function under fresh  *)
(* names.  apply saves what each identity was in a slot before it changes  *)
(* it; reverse checks, restores, and only then clears the slots.  A step   *)
(* here is one operation of such a function or one command of the loader.  *)
(* Between any two of them the user may interrupt the loader.              *)
(*                                                                         *)
(* A scalar stands for its value and its export attribute, an alias also   *)
(* for a function.  The user leaves the variables of the loader alone.     *)
(* What is reported, and the state of the store after the checkout that    *)
(* emits, are left out.                                                    *)
(***************************************************************************)
EXTENDS Naturals, Sequences

CONSTANTS
  Scalars, Lists, Aliases, Options,
  Dynamic,            \* scalars whose value the shell expands
  Refused,            \* options that zsh will not change
  Path,               \* the list whose base every activation captures
  Words,              \* what a user or a profile may set a scalar or alias to
  Given,              \* words that only a profile puts into a list
  Profiles,
  Contents,           \* [Profiles -> SUBSET manifests]: what each may be built to
  Start,              \* [Ids -> value]: the terminal's environment at first
  Absent,             \* an identity that is not set
  None,
  MaxEdits            \* bound of the exploration: how often the user does anything

Ids == Scalars \union Lists \union Aliases \union Options
Switches == {"on", "off"}
Manifests == UNION {Contents[p] : p \in Profiles}

ASSUME IdsAssumption ==
  /\ Scalars \intersect (Lists \union Aliases \union Options) = {}
  /\ Lists \intersect (Aliases \union Options) = {} /\ Aliases \intersect Options = {}
  /\ Dynamic \subseteq Scalars /\ Refused \subseteq Options
ASSUME NoneAssumption ==
  /\ None \notin Words \union Switches \union {Absent} \union Profiles
  /\ None \notin Manifests /\ None \notin [name : Profiles, manifest : Manifests]
  /\ None \notin Seq(Words \union Given)
(* What the analysis of a profile may yield: activate.Build.               *)
ASSUME ManifestAssumption ==
  \A m \in Manifests :
    /\ DOMAIN m \subseteq Ids
    /\ \A x \in DOMAIN m :
         /\ x \in Lists => m[x] \in [before : Seq(Given), after : Seq(Given)]
         /\ x \in Options => m[x] \in Switches
         /\ x \in Scalars \union Aliases => m[x] \in Words
ASSUME StartAssumption ==
  /\ DOMAIN Start = Ids /\ Path \in Lists
  /\ \A x \in Ids :
       IF x \in Lists THEN Start[x] \in Seq(Words)
       ELSE Start[x] \in Words \union Switches \union {Absent}

VARIABLES
  env,                \* the live environment
  slot,               \* ZP_ORIGINAL_, ZP_PRESENT_ and ZP_WAS_ON_: what an identity was
  appliedSlot,        \* ZP_APPLIED_SCALAR_: what a dynamic scalar was expanded to
  base,               \* ZP_BASE_PATH and ZP_BASE_FPATH
  locked,             \* what the user made readonly
  reverse,            \* the reverse function that is defined, by its manifest
  active, recovery,   \* whether ZP_ACTIVE_REVERSE_FN, ZP_RECOVERY_REVERSE_FN are set
  activeProfile,      \* ZP_ACTIVE_PROFILE
  exported,           \* ZSHPRO_PROFILE
  pc, why,            \* where the loader is, and what it reverses for
  target,             \* the payload in hand
  todo,               \* the operations that the running function has left
  failed,             \* whether its last operation failed
  own,                \* history: what the environment is without any profile
  excused,            \* history: what the terminal need not get back
  interrupted,        \* history: whether the loader was ever interrupted
  edits               \* how often the user did anything

shellVars == <<env, slot, appliedSlot, base>>
markers == <<reverse, active, recovery, activeProfile, exported>>
control == <<pc, why, target, todo, failed>>
history == <<own, excused, interrupted>>
vars == <<shellVars, locked, markers, control, history, edits>>

(* A command of the user is over.                                          *)
Idle ==
  /\ pc' = "idle" /\ why' = "none" /\ target' = None /\ todo' = {} /\ failed' = FALSE

Go(step) == pc' = step /\ UNCHANGED <<why, target, todo, failed>>

-------------------------------------------------------------------------------
(* The operations of a plan                                                *)

Rank(x) == CASE x \in Scalars -> 0 [] x \in Lists -> 1 [] x \in Aliases -> 2 [] OTHER -> 3
(* activate, deactivate: a plan orders its operations by kind; the order   *)
(* within a kind is the manifest's.                                        *)
NextOperations == {x \in todo : \A y \in todo : Rank(x) <= Rank(y)}

Saved(x) == slot[x] # None

(* What a reverse takes for the profile's value.                           *)
Expected(x) ==
  IF x \in Dynamic /\ appliedSlot[x] # None THEN appliedSlot[x] ELSE reverse[x]

Base(l) == IF base[l] = None THEN env[l] ELSE base[l]
(* renderListDelta                                                         *)
Spliced(l, delta) == delta.before \o Base(l) \o delta.after

(* The values an operation may leave in x: an expansion may give any word. *)
Applied(x, value) ==
  IF x \in Lists THEN {Spliced(x, value)}
  ELSE IF x \in Dynamic THEN Words ELSE {value}

(* emitActivate, _zp_capture_scalar: nothing saved before is overwritten.  *)
Capture(x) ==
  IF x \in Lists
  THEN base' = [base EXCEPT ![x] = Base(x)] /\ UNCHANGED slot
  ELSE slot' = [slot EXCEPT ![x] = IF Saved(x) THEN @ ELSE env[x]] /\ UNCHANGED base

(* _zp_preflight_restore_scalar: a value the user changed is left alone.   *)
ScalarPreflightOK(x) == env[x] = Expected(x) => x \notin locked /\ Saved(x)
PreflightOK ==
  /\ \A x \in DOMAIN reverse \intersect Scalars : ScalarPreflightOK(x)
  /\ \A x \in DOMAIN reverse \intersect Lists : x \notin locked

(* Mutation: the value is restored whatever the user did to it.            *)
RestoredAlways(x) == IF Saved(x) THEN slot[x] ELSE env[x]
(* _zp_restore_scalar                                                      *)
RestoredScalar(x) == IF env[x] = Expected(x) THEN slot[x] ELSE env[x]
(* Mutation: a reverse leaves the lists to the next activation.            *)
RestoredLater(l) == env[l]
(* An unset base expands to nothing.                                       *)
RestoredList(l) == IF base[l] = None THEN <<>> ELSE base[l]
(* Unalias, then RestoreShadowedAlias.                                     *)
RestoredAlias(x) == IF Saved(x) THEN slot[x] ELSE Absent
(* RestoreOption                                                           *)
RestoredOption(x) == IF Saved(x) /\ x \notin Refused THEN slot[x] ELSE env[x]

Restored(x) ==
  CASE x \in Scalars -> RestoredScalar(x)
    [] x \in Lists -> RestoredList(x)
    [] x \in Aliases -> RestoredAlias(x)
    [] OTHER -> RestoredOption(x)

-------------------------------------------------------------------------------
(* The user, between commands                                              *)

(* The code promises an edit of a scalar a profile manages to survive,     *)
(* unless it is the profile's own value.                                   *)
Sets(x, value) ==
  /\ x \notin locked /\ env[x] # value
  /\ env' = [env EXCEPT ![x] = value]
  /\ own' = [own EXCEPT ![x] = value]
  /\ excused' =
       IF Saved(x) /\ (x \in Scalars => value = Expected(x))
       THEN excused \union {x} ELSE excused \ {x}
  /\ UNCHANGED <<slot, appliedSlot, base, locked, markers, interrupted>>

UserSets ==
  \/ \E x \in Scalars \union Aliases, value \in Words \union {Absent} : Sets(x, value)
  \/ \E x \in Options \ Refused, value \in Switches : Sets(x, value)
UserExtendsList ==
  \E l \in Lists, word \in Words :
    /\ l \notin locked
    /\ env' = [env EXCEPT ![l] = Append(@, word)]
    /\ own' = [own EXCEPT ![l] = Append(@, word)]
    /\ excused' = IF base[l] = None THEN excused ELSE excused \union {l}
    /\ UNCHANGED <<slot, appliedSlot, base, locked, markers, interrupted>>
UserLocks ==
  \E x \in Scalars \union Lists :
    /\ locked' = IF x \in locked THEN locked \ {x} ELSE locked \union {x}
    /\ UNCHANGED <<shellVars, markers, history>>
User ==
  /\ pc = "idle" /\ edits < MaxEdits
  /\ edits' = edits + 1
  /\ UserSets \/ UserExtendsList \/ UserLocks
  /\ UNCHANGED control

-------------------------------------------------------------------------------
(* activate, checkout and deactivate                                       *)

Runnable == reverse # None
KnownActive(p) == activeProfile = p /\ exported = p /\ active /\ Runnable

(* Mutation: only a profile that is marked active is.                      *)
ReversedMarked == IF activeProfile # None THEN "switch" ELSE "none"
(* What must be reversed before a payload is run: _zp_switch.              *)
ReversedFirst ==
  IF activeProfile # None THEN "switch" ELSE IF active THEN "stale" ELSE "none"

(* A payload that cannot be emitted or does not parse changes nothing.     *)
StartSwitch ==
  \E p \in Profiles : \E m \in Contents[p] :
    /\ pc = "idle"
    /\ ~recovery /\ ~KnownActive(p)
    /\ activeProfile # None => base[Path] # None
    /\ ReversedFirst # "none" => active /\ Runnable
    /\ target' = [name |-> p, manifest |-> m]
    /\ why' = ReversedFirst
    /\ pc' = IF ReversedFirst = "none" THEN "prepare" ELSE "preflight"
    /\ UNCHANGED <<shellVars, locked, markers, todo, failed, history, edits>>

StartDeactivate ==
  /\ pc = "idle" /\ Runnable
  /\ \/ recovery /\ why' = "recover"
     \/ ~recovery /\ activeProfile # None /\ active /\ why' = "deactivate"
  /\ pc' = "preflight"
  /\ UNCHANGED <<shellVars, locked, markers, target, todo, failed, history, edits>>

(* The reverse function                                                    *)

Preflight ==
  /\ pc = "preflight"
  /\ IF PreflightOK
     THEN pc' = "restore" /\ todo' = DOMAIN reverse /\ UNCHANGED <<why, target, failed>>
     ELSE Idle
  /\ UNCHANGED <<shellVars, locked, markers, history, edits>>

(* An alias that apply never reached is removed all the same.              *)
Restore ==
  \E x \in NextOperations :
    /\ pc = "restore" /\ (Saved(x) => x \notin Refused)
    /\ env' = [env EXCEPT ![x] = Restored(x)]
    /\ todo' = todo \ {x}
    /\ excused' = IF (x \in Aliases /\ ~Saved(x)) \/ (x \in Lists /\ base[x] = None)
                  THEN excused \union {x} ELSE excused
    /\ UNCHANGED <<slot, appliedSlot, base, locked, markers, pc, why, target, failed>>
    /\ UNCHANGED <<own, interrupted, edits>>
RestoreFails ==
  /\ pc = "restore" /\ \E x \in NextOperations \intersect Refused : Saved(x)
  /\ Idle
  /\ UNCHANGED <<shellVars, locked, markers, history, edits>>

BeginCommit ==
  /\ pc = "restore" /\ todo = {}
  /\ pc' = "commit" /\ todo' = {x \in DOMAIN reverse \ Lists : Saved(x)}
  /\ UNCHANGED <<shellVars, locked, markers, why, target, failed, history, edits>>
Commit ==
  \E x \in NextOperations :
    /\ pc = "commit"
    /\ slot' = [slot EXCEPT ![x] = None]
    /\ appliedSlot' = IF x \in Dynamic THEN [appliedSlot EXCEPT ![x] = None] ELSE appliedSlot
    /\ todo' = todo \ {x}
    /\ UNCHANGED <<env, base, locked, markers, pc, why, target, failed, history, edits>>

(* _zp_run_transient_reverse_payload                                       *)
DropFunction ==
  /\ pc = "commit" /\ todo = {}
  /\ reverse' = None
  /\ Go("unpoint")
  /\ UNCHANGED <<shellVars, locked, active, recovery, activeProfile, exported, history, edits>>
(* _zp_run_retained_reverse                                                *)
Unpoint ==
  /\ pc = "unpoint"
  /\ active' = FALSE
  /\ Go(CASE why \in {"recover", "compensate"} -> "forget"
          [] why = "stale" -> "prepare"
          [] OTHER -> "clear")
  /\ UNCHANGED <<shellVars, locked, reverse, recovery, activeProfile, exported, history, edits>>
(* Mutation: the recovery pointer outlives the function it names.          *)
ForgetNothing ==
  /\ pc = "forget"
  /\ Idle
  /\ UNCHANGED <<shellVars, locked, markers, history, edits>>
(* _zp_recover_failed_target                                               *)
Forget ==
  /\ pc = "forget"
  /\ recovery' = FALSE
  /\ Idle
  /\ UNCHANGED <<shellVars, locked, reverse, active, activeProfile, exported, history, edits>>
(* _zp_reverse_active_profile                                              *)
Clear ==
  /\ pc = "clear"
  /\ activeProfile' = None /\ exported' = None
  /\ IF why = "switch" THEN Go("prepare") ELSE Idle
  /\ UNCHANGED <<shellVars, locked, reverse, active, recovery, history, edits>>

(* The payload                                                             *)

(* _zp_prepare_eval_state: the base is captured once in a terminal's life. *)
Prepare ==
  /\ pc = "prepare"
  /\ base' = [base EXCEPT ![Path] = Base(Path)]
  /\ Go("define")
  /\ UNCHANGED <<env, slot, appliedSlot, locked, markers, history, edits>>
(* The two functions, and the recovery pointer before apply is called.     *)
Define ==
  /\ pc = "define"
  /\ reverse' = target.manifest /\ recovery' = TRUE
  /\ pc' = "apply" /\ todo' = DOMAIN target.manifest /\ failed' = FALSE
  /\ UNCHANGED <<shellVars, locked, active, activeProfile, exported, why, target, history, edits>>

Apply ==
  \E x \in NextOperations : \E value \in Applied(x, reverse[x]) :
    /\ pc = "apply" /\ x \notin locked \union Refused
    /\ Capture(x)
    /\ env' = [env EXCEPT ![x] = value]
    /\ appliedSlot' = IF x \in Dynamic THEN [appliedSlot EXCEPT ![x] = value] ELSE appliedSlot
    /\ todo' = todo \ {x} /\ failed' = FALSE
    /\ UNCHANGED <<locked, markers, pc, why, target, history, edits>>
(* setopt fails and apply goes on: its status is that of its last command. *)
ApplyRefused ==
  \E x \in NextOperations \intersect Refused :
    /\ pc = "apply"
    /\ Capture(x)
    /\ todo' = todo \ {x} /\ failed' = TRUE
    /\ UNCHANGED <<env, appliedSlot, locked, markers, pc, why, target, history, edits>>
(* An assignment to what is readonly unwinds to the eval; so does an       *)
(* interrupt, which may hit after a dynamic scalar was expanded.           *)
ApplyUnwinds ==
  \E x \in NextOperations :
    /\ pc = "apply"
    /\ Capture(x)
    /\ \/ x \in locked /\ UNCHANGED <<env, excused, interrupted>>
       \/ interrupted' = TRUE /\ UNCHANGED <<env, excused>>
       \/ /\ interrupted' = TRUE /\ x \in Dynamic \ locked
          /\ \E value \in Words : env' = [env EXCEPT ![x] = value]
          /\ excused' = excused \union {x}
    /\ Idle
    /\ UNCHANGED <<appliedSlot, locked, markers, own, edits>>

(* _zp_run_payload, after apply: the reverse is retained or run at once.   *)
Promote ==
  /\ pc = "apply" /\ todo = {} /\ ~failed
  /\ active' = TRUE
  /\ Go("settle")
  /\ UNCHANGED <<shellVars, locked, reverse, recovery, activeProfile, exported, history, edits>>
Compensate ==
  /\ pc = "apply" /\ todo = {} /\ failed
  /\ pc' = "preflight" /\ why' = "compensate"
  /\ UNCHANGED <<shellVars, locked, markers, target, todo, failed, history, edits>>
Settle ==
  /\ pc = "settle"
  /\ recovery' = FALSE
  /\ Go("mark")
  /\ UNCHANGED <<shellVars, locked, reverse, active, activeProfile, exported, history, edits>>
Mark ==
  /\ pc = "mark"
  /\ activeProfile' = target.name
  /\ Go("export")
  /\ UNCHANGED <<shellVars, locked, reverse, active, recovery, exported, history, edits>>
Export ==
  /\ pc = "export"
  /\ exported' = target.name
  /\ Idle
  /\ UNCHANGED <<shellVars, locked, reverse, active, recovery, activeProfile, history, edits>>

Interrupt ==
  /\ pc # "idle"
  /\ Idle
  /\ interrupted' = TRUE
  /\ UNCHANGED <<shellVars, locked, markers, own, excused, edits>>

-------------------------------------------------------------------------------
Init ==
  /\ env = Start /\ own = Start
  /\ slot = [x \in Ids |-> None] /\ appliedSlot = slot
  /\ base = [l \in Lists |-> None]
  /\ locked = {} /\ excused = {} /\ interrupted = FALSE /\ edits = 0
  /\ reverse = None /\ active = FALSE /\ recovery = FALSE
  /\ activeProfile = None /\ exported = None
  /\ pc = "idle" /\ why = "none" /\ target = None /\ todo = {} /\ failed = FALSE

ReverseStep ==
  Preflight \/ Restore \/ RestoreFails \/ BeginCommit \/ Commit
  \/ DropFunction \/ Unpoint \/ Forget \/ Clear
PayloadStep ==
  Prepare \/ Define \/ Apply \/ ApplyRefused \/ ApplyUnwinds
  \/ Promote \/ Compensate \/ Settle \/ Mark \/ Export
Next ==
  \/ User
  \/ StartSwitch \/ StartDeactivate
  \/ ReverseStep \/ PayloadStep \/ Interrupt

Spec == Init /\ [][Next]_vars

-------------------------------------------------------------------------------
(* Properties                                                              *)

EnvironmentTypeOK ==
  /\ DOMAIN env = Ids /\ DOMAIN own = Ids /\ DOMAIN slot = Ids /\ DOMAIN appliedSlot = Ids
  /\ DOMAIN base = Lists
  /\ \A x \in Lists :
       /\ env[x] \in Seq(Words \union Given) /\ own[x] \in Seq(Words) /\ slot[x] = None
       /\ base[x] \in Seq(Words \union Given) \union {None}
  /\ \A x \in Ids \ Lists :
       /\ env[x] \in Words \union Switches \union {Absent}
       /\ own[x] \in Words \union Switches \union {Absent}
       /\ slot[x] \in Words \union Switches \union {Absent, None}
  /\ \A x \in Ids : appliedSlot[x] \in Words \union {None}
  /\ locked \subseteq Scalars \union Lists /\ excused \subseteq Ids
ControlTypeOK ==
  /\ reverse \in Manifests \union {None}
  /\ activeProfile \in Profiles \union {None} /\ exported \in Profiles \union {None}
  /\ active \in BOOLEAN /\ recovery \in BOOLEAN /\ failed \in BOOLEAN
  /\ why \in {"none", "switch", "stale", "deactivate", "recover", "compensate"}
  /\ target \in [name : Profiles, manifest : Manifests] \union {None}
  /\ todo \subseteq Ids
  /\ pc = "idle" => why = "none" /\ target = None /\ todo = {}
  /\ pc \in {"prepare", "define", "apply", "settle", "mark", "export"} => target # None
  /\ why \in {"switch", "stale"} => target # None
(* The variables hold what their declarations say, a switch in progress    *)
(* has its payload in hand, and a terminal between commands has none.      *)
TypeOK == EnvironmentTypeOK /\ ControlTypeOK

(* Zero residue, but for what is excused: once the reverse function is     *)
(* gone, an identity is what the terminal would hold had no profile ever   *)
(* been active, a scalar the user changed meanwhile included, through      *)
(* failed assignments, refused options, interrupts anywhere and retried    *)
(* reversals.  Excused, though D-04 asks for some of it ("never clobber a  *)
(* value the user changed by hand"): a list the user edited after its base *)
(* was captured; an alias or option he edited, and a scalar he set to the  *)
(* profile's own value, while a profile manages it; an alias never saved,  *)
(* which the reverse removes; a list whose base was never captured, which  *)
(* it empties; a dynamic scalar interrupted before its expansion was       *)
(* recorded.  In all of these the code may leave something else behind.    *)
NothingLeftBehind ==
  ~Runnable => \A x \in Ids \ excused : env[x] = own[x]

(* However switches fail and are retried, a list holds what the user put   *)
(* there and the words of at most the one profile whose reverse is         *)
(* defined, once, before and after the base that was captured.             *)
SplicedOnce(list, delta) ==
  \E n \in Len(delta.before) .. Len(list) - Len(delta.after) : \A k \in DOMAIN list :
    IF k <= Len(delta.before) THEN list[k] = delta.before[k]
    ELSE IF k \in n + 1 .. n + Len(delta.after) THEN list[k] = delta.after[k - n]
    ELSE list[k] \in Words
NoAccumulation ==
  \A l \in Lists :
    \/ env[l] \in Seq(Words)
    \/ Runnable /\ l \in DOMAIN reverse /\ SplicedOnce(env[l], reverse[l])

(* Nothing saved is orphaned: the slots of an identity are filled only     *)
(* while a reverse function that restores and clears them is defined and   *)
(* one of the two pointers names it, or the loader is still at work.       *)
ReverseReachable ==
  \A x \in Ids : Saved(x) => Runnable /\ x \in DOMAIN reverse /\ (active \/ recovery)

(* In a terminal whose loader was never interrupted, deactivate always has *)
(* its way to a reverse: no marker or pointer outlives the function it     *)
(* stands for, and no function is left that nothing leads to.              *)
NeverStranded ==
  pc = "idle" /\ ~interrupted =>
    IF Runnable THEN recovery \/ (active /\ activeProfile # None)
    ELSE ~recovery /\ ~active /\ activeProfile = None
===============================================================================
