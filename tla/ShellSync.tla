------------------------------ MODULE ShellSync ------------------------------
(***************************************************************************)
(* Terminals that synchronize through the worktree service: the zsh hook   *)
(* (core/shell/zsh/hook.go), the helper process it asks and the adapter    *)
(* behind that (core/cli/runtime.go, emitter.go), over module Worktree.    *)
(*                                                                         *)
(* A terminal alternates between a foreground command, in which its user   *)
(* may edit the live environment, and a prompt.  precmd publishes what the *)
(* command changed; line-finish pulls, when auto-apply is effective.       *)
(* "zsh-pro sync" is a publish directly followed by a pull, so the two     *)
(* cover it.  A pull asks for a transition, evaluates it in the live       *)
(* shell, captures the shell afresh and asks to acknowledge.  Every        *)
(* request is one helper call under one budget of 250 ms: the helper is    *)
(* killed when the budget ends, so a request may be served and its reply   *)
(* lost, or not be served at all; the hook cannot tell.                    *)
(*                                                                         *)
(* A terminal that deactivated forgets its credential; what it attaches as *)
(* next is another member of Shells.  The credential itself, the allocation*)
(* of it (it changes no state: its loss is that of the attach request),    *)
(* and readonly loader variables are left out.                             *)
(***************************************************************************)
EXTENDS Worktree

CONSTANTS
  Environments,       \* [Shells -> Snapshot]: what each terminal starts with
  NoOp, NoBaseline, NoReply, NoReverse,
  Failures,           \* <<what fails, how>>: the failures to explore
  MaxFailures,        \* bound of the exploration: failures in a behaviour
  Edits               \* bound of the exploration: what each edit of a user may touch

(* The special values are none of the others; the service keeps a receipt; *)
(* there is always an operation id that is not in use: it is made of the   *)
(* process, a counter and the time.                                        *)
ASSUME ShellSyncAssumption ==
  /\ Environments \in [Shells -> Snapshot]
  /\ NoOp \notin Operations /\ NoOp \notin Token
  /\ NoBaseline \notin Snapshot
  /\ NoReverse \notin Changes
  /\ NoReply \notin [revision : Nat, token : Token, patch : Changes, reverse : Changes]
  /\ MaxReceipts > 0 /\ MaxFailures \in Nat
  /\ IsFiniteSet(Operations) => Cardinality(Operations) > MaxReceipts + 7

VARIABLES
  terminals,          \* the hook's variables, by terminal
  env,                \* the live environment
  edits,              \* how often its user edited it
  failures            \* how many failures happened

hookVars == <<terminals, env, edits, failures>>
allVars == <<vars, hookVars>>

NoConflictKnown == [identity |-> NoOp, token |-> NoOp]

NewTerminal ==
  [pc |-> "command", attached |-> FALSE, baseline |-> NoBaseline,
   applied |-> 0, reconcile |-> FALSE, conflict |-> NoConflictKnown,
   attachOp |-> NoOp, prepareOp |-> NoOp, resolveOp |-> NoOp, ackOp |-> NoOp,
   reply |-> NoReply, active |-> NoReverse, recovery |-> NoReverse]

(* _zp_worktree_disable: everything the hook knows is unset.               *)
Disabled == [NewTerminal EXCEPT !.pc = "off"]

-------------------------------------------------------------------------------
(* One helper call                                                         *)

(* _zp_worktree_next_operation: an operation id no request used before.    *)
(* An id that nothing refers to any more stands for a new one.             *)
Used(s) ==
  {receipts[s][k].op : k \in DOMAIN receipts[s]}
  \union {terminals[s].attachOp, terminals[s].prepareOp, terminals[s].resolveOp, terminals[s].ackOp}
  \union (IF s \notin Attached THEN {}
          ELSE {r.token.op : r \in {shells[s].pending, shells[s].conflict} \ {NoPending}})
  \union (IF terminals[s].conflict = NoConflictKnown THEN {} ELSE {terminals[s].conflict.token.op})
NewOperation(s) == CHOOSE op \in Operations : op \notin Used(s)
(* Mutation: a retry is a new request.                                     *)
RetainedNever(op, s) == NewOperation(s)
(* The id of a request that was not answered is kept for its retry.        *)
Retained(op, s) == IF op = NoOp THEN NewOperation(s) ELSE op

ResultOf(log, op) == log[CHOOSE k \in DOMAIN log : log[k].op = op].result

Fail(failure) ==
  /\ failure \in Failures
  /\ failures < MaxFailures
  /\ failures' = failures + 1

Becomes(s, terminal) == terminals' = [terminals EXCEPT ![s] = terminal]

(* The helper: the service serves the request and the reply arrives; or    *)
(* the budget ends after it was served, or before; or the service refuses. *)
runRuntimeWorktree(operation, Serve, answered) ==
  \/ answered /\ Serve /\ UNCHANGED failures
  \/ ~answered /\ Fail(<<operation, "reply">>) /\ Serve
  \/ ~answered /\ Fail(<<operation, "request">>) /\ UNCHANGED vars
  \/ ~answered /\ ~ENABLED Serve /\ UNCHANGED <<vars, failures>>

(* _zp_worktree_invoke: all that the hook learns is whether it is answered.*)
Invoke(s, operation, Serve, answered, unanswered) ==
  \E isAnswered \in BOOLEAN :
    /\ runRuntimeWorktree(operation, Serve, isAnswered)
    /\ Becomes(s, IF isAnswered THEN answered ELSE unanswered)

-------------------------------------------------------------------------------
(* What the adapter asks of the service for a request: emitter.go.  A      *)
(* request that was served before is answered from its receipt.            *)

AdapterAttach(s, op, initial) ==
  \/ Attach(s, op, initial)
  \/ ReceiptMatches(s, op, "attach", initial) /\ UNCHANGED vars

(* The delta is computed from the two snapshots the hook sent.             *)
AdapterPublish(s, op) ==
  Publish(s, op, terminals[s].applied, DiffSnapshot(terminals[s].baseline, env[s]))

AdapterPrepare(s, op) ==
  \/ PreparePull(s, op, terminals[s].applied)
  \/ ReceiptMatches(s, op, "prepare", terminals[s].applied) /\ UNCHANGED vars

AdapterResolve(s, op) ==
  ResolveShared(s, op, terminals[s].conflict.identity, terminals[s].conflict.token, env[s])

(* resolveRuntimeToken: the 64-bit handle of a token can be turned back    *)
(* only while the service holds that token as pending.                     *)
HandleResolves(s, reply) ==
  /\ s \in Attached
  /\ shells[s].pending # NoPending
  /\ shells[s].pending.revision = reply.revision
  /\ shells[s].pending.token = reply.token

AdapterAcknowledge(s, op, reply) ==
  /\ HandleResolves(s, reply)
  /\ Acknowledge(s, op, reply.revision, reply.token, env[s])

-------------------------------------------------------------------------------
(* The user and the prompt                                                 *)

EditEnvironment(s) ==
  /\ terminals[s].pc = "command"
  /\ edits[s] < Len(Edits[s])
  /\ edits' = [edits EXCEPT ![s] = @ + 1]
  /\ \E i \in Edits[s][edits[s] + 1], value \in Values \union {Absent} :
       /\ value # env[s][i]
       /\ env' = [env EXCEPT ![s][i] = value]
  /\ UNCHANGED <<vars, terminals, failures>>

(* _zp_worktree_ensure_attached: the first capture is the baseline of every *)
(* attempt, and the operation id is retained until one is answered.        *)
AttachTerminal(s) ==
  LET t == terminals[s]
      initial == IF t.baseline = NoBaseline THEN env[s] ELSE t.baseline
      op == Retained(t.attachOp, s)
      asked == [t EXCEPT !.pc = IF t.pc = "command" THEN "prompt" ELSE "command",
                         !.baseline = initial, !.attachOp = op]
      reconcile == shells'[s].attachState = "clean-reconcile"
      joined == [asked EXCEPT !.attached = TRUE, !.attachOp = NoOp,
                              !.pc = IF t.pc = "prompt" /\ reconcile THEN "prompt" ELSE @,
                              !.reconcile = reconcile,
                              !.applied = shells'[s].appliedRevision]
  IN  /\ t.pc \in {"command", "prompt"}
      /\ ~t.attached
      /\ Invoke(s, "attach", AdapterAttach(s, op, initial), joined, asked)
      /\ UNCHANGED <<env, edits>>

(* _zp_worktree_publish: a new operation id every time; the local baseline *)
(* moves when a reply is parsed, whether or not it reports a conflict.     *)
PublishTerminal(s) ==
  LET t == terminals[s]
      op == NewOperation(s)
      asked == [t EXCEPT !.pc = "prompt"]
      conflict == ResultOf(receipts'[s], op).conflict
      parsed == [asked EXCEPT !.baseline = env[s],
                              !.conflict = IF conflict = NoConflict THEN NoConflictKnown
                                           ELSE [identity |-> conflict.identity, token |-> conflict.token]]
  IN  /\ t.pc = "command"
      /\ t.attached
      /\ Invoke(s, "publish", AdapterPublish(s, op), parsed, asked)
      /\ UNCHANGED <<env, edits>>

(* line-finish while auto-apply is off.                                    *)
DeferPull(s) ==
  /\ terminals[s].pc = "prompt"
  /\ Becomes(s, [terminals[s] EXCEPT !.pc = "command"])
  /\ UNCHANGED <<vars, env, edits, failures>>

-------------------------------------------------------------------------------
(* Transitions                                                             *)

(* The adapter lays the change list over the capture of this very request, *)
(* and derives from the two a forward patch and the reverse of it.         *)
buildTransition(s, result) ==
  LET target == ApplyChanges(env[s], result.changes)
  IN  [revision |-> result.pending.revision, token |-> result.pending.token,
       patch |-> DiffSnapshot(env[s], target),
       reverse |-> DiffSnapshot(target, env[s])]

(* Mutation: the revision counts as applied once it is received.           *)
ReceivedEarly(s, asked, result) ==
  IF result = NoPending
  THEN [asked EXCEPT !.prepareOp = NoOp, !.resolveOp = NoOp]
  ELSE [asked EXCEPT !.pc = "apply", !.applied = result.pending.revision,
                     !.reply = buildTransition(s, result)]

(* An empty reply is the head; any other has to be reconciled from now on. *)
Received(s, asked, result) ==
  IF result = NoPending
  THEN [asked EXCEPT !.prepareOp = NoOp, !.resolveOp = NoOp]
  ELSE [asked EXCEPT !.pc = "apply", !.reconcile = TRUE, !.reply = buildTransition(s, result)]

PullTerminal(s) ==
  LET t == terminals[s]
      op == Retained(t.prepareOp, s)
      asked == [t EXCEPT !.pc = "command", !.prepareOp = op]
  IN  /\ t.pc = "prompt"
      /\ t.attached
      /\ t.recovery = NoReverse
      /\ Invoke(s, "prepare", AdapterPrepare(s, op),
                Received(s, asked, ResultOf(receipts'[s], op)), asked)
      /\ UNCHANGED <<env, edits>>

(* zsh-pro sync --resolve shared                                           *)
ResolveTerminal(s) ==
  LET t == terminals[s]
      op == Retained(t.resolveOp, s)
      asked == [t EXCEPT !.resolveOp = op]
  IN  /\ t.pc = "command"
      /\ t.attached
      /\ t.recovery = NoReverse
      /\ t.conflict # NoConflictKnown
      /\ Invoke(s, "resolve", AdapterResolve(s, op),
                Received(s, asked, ResultOf(receipts'[s], op)), asked)
      /\ UNCHANGED <<env, edits>>

(* Mutation: the reverse is dropped when the apply function failed.        *)
AbandonedUnowned(t, undone) ==
  [t EXCEPT !.pc = "command", !.reply = NoReply, !.recovery = NoReverse]

(* The hook after an apply function that failed: when its compensation     *)
(* failed too, the reverse stays reachable, and blocks later transitions.  *)
Abandoned(t, undone) ==
  [t EXCEPT !.pc = "command", !.reply = NoReply,
            !.recovery = IF undone THEN NoReverse ELSE t.reply.reverse]

(* _zp_worktree_install_transition: the new reverse takes the place of the *)
(* old one once the apply function returned; a failing one stops at an     *)
(* operation, and is compensated at once if the reverse succeeds.          *)
ApplyTransition(s) ==
  LET t == terminals[s]
      reply == t.reply
      Changed(done) == ApplyChanges(env[s], Only(reply.patch, done))
  IN  /\ t.pc = "apply"
      /\ \/ /\ env' = [env EXCEPT ![s] = ApplyChanges(@, reply.patch)]
            /\ Becomes(s, [t EXCEPT !.pc = "verify",
                                    !.active = IF reply.patch = NoChanges THEN @ ELSE reply.reverse])
            /\ UNCHANGED failures
         \/ /\ Fail(<<"apply", "compensated">>)
            /\ reply.patch # NoChanges
            /\ Becomes(s, Abandoned(t, TRUE))
            /\ UNCHANGED env
         \/ /\ Fail(<<"apply", "stuck">>)
            /\ \E done \in (SUBSET DOMAIN reply.patch) \ {DOMAIN reply.patch} :
                 env' = [env EXCEPT ![s] = Changed(done)]
            /\ Becomes(s, Abandoned(t, FALSE))
      /\ UNCHANGED <<vars, edits>>

(* The shell is captured again and the capture has to be the target.       *)
AcknowledgeTerminal(s) ==
  LET t == terminals[s]
      reply == t.reply
      op == Retained(t.ackOp, s)
      asked == [t EXCEPT !.pc = "command", !.reply = NoReply, !.ackOp = op]
      confirmed == [asked EXCEPT !.applied = reply.revision, !.reconcile = FALSE,
                                 !.baseline = env[s], !.conflict = NoConflictKnown,
                                 !.ackOp = NoOp, !.prepareOp = NoOp, !.resolveOp = NoOp]
  IN  /\ t.pc = "verify"
      /\ Invoke(s, "acknowledge", AdapterAcknowledge(s, op, reply), confirmed, asked)
      /\ UNCHANGED <<env, edits>>

-------------------------------------------------------------------------------
(* deactivate                                                              *)

Undone(snap, reverse) == IF reverse = NoReverse THEN snap ELSE ApplyChanges(snap, reverse)

(* A retained recovery first, then the active reverse; a terminal with     *)
(* neither stays attached.                                                 *)
Deactivate(s) ==
  LET t == terminals[s]
  IN  /\ t.pc = "command"
      /\ t.active # NoReverse \/ t.recovery # NoReverse
      /\ env' = [env EXCEPT ![s] = Undone(Undone(@, t.recovery), t.active)]
      /\ Becomes(s, Disabled)
      /\ UNCHANGED <<vars, edits, failures>>

-------------------------------------------------------------------------------
ShellInit ==
  /\ Init
  /\ terminals = [s \in Shells |-> NewTerminal]
  /\ env = Environments
  /\ edits = [s \in Shells |-> 0]
  /\ failures = 0

(* install or the first request makes the first generation.                *)
FirstGeneration ==
  /\ \/ \E profile \in Profiles : Ingest(profile)
     \/ \E oid \in 1 .. MaxObjects : Materialize(oid)
  /\ UNCHANGED hookVars

(* A reset discards what was published and not committed.                  *)
ResetElsewhere == ResetHard /\ UNCHANGED hookVars

Precmd(s) == (terminals[s].pc = "command" /\ AttachTerminal(s)) \/ PublishTerminal(s)
LineFinish(s) == (terminals[s].pc = "prompt" /\ AttachTerminal(s)) \/ PullTerminal(s)

ShellNext ==
  \/ FirstGeneration
  \/ ResetElsewhere
  \/ \E s \in Shells :
       \/ EditEnvironment(s)
       \/ Precmd(s)
       \/ LineFinish(s)
       \/ DeferPull(s)
       \/ ResolveTerminal(s)
       \/ ApplyTransition(s)
       \/ AcknowledgeTerminal(s)
       \/ Deactivate(s)

(* Commands end and prompts are used; auto-apply is not off for ever.      *)
ShellSpec ==
  /\ ShellInit
  /\ [][ShellNext]_allVars
  /\ WF_allVars(FirstGeneration)
  /\ \A s \in Shells :
       /\ WF_allVars(Precmd(s) \/ ApplyTransition(s) \/ AcknowledgeTerminal(s))
       /\ SF_allVars(LineFinish(s))

-------------------------------------------------------------------------------
(* Properties                                                              *)

Reverses == {NoReverse} \union Changes
OperationIds == {NoOp} \union Operations

(* Every variable of the hook keeps its shape; a reply is held exactly     *)
(* while its transition is evaluated and confirmed, and only by a terminal *)
(* that knows it has to be reconciled.                                     *)
ShellTypeOK ==
  /\ \A s \in Shells :
       LET t == terminals[s]
       IN  /\ t.pc \in {"command", "prompt", "apply", "verify", "off"}
           /\ {t.attached, t.reconcile} \subseteq BOOLEAN
           /\ t.baseline = NoBaseline \/ t.baseline \in Snapshot
           /\ t.applied \in 0 .. head
           /\ {t.attachOp, t.prepareOp, t.resolveOp, t.ackOp} \subseteq OperationIds
           /\ {t.active, t.recovery} \subseteq Reverses
           /\ t.attached => s \in Attached /\ t.baseline # NoBaseline
           /\ t.reply # NoReply <=> t.pc \in {"apply", "verify"}
           /\ t.reply # NoReply => t.attached /\ t.reconcile
  /\ env \in [Shells -> Snapshot]
  /\ edits \in [Shells -> Nat]
  /\ failures \in 0 .. MaxFailures

(* The names a terminal shares: those the profile declares and those it    *)
(* did not inherit, of what the registry does not exclude.                 *)
SharedNames(s) ==
  {i \in Identities \ Excluded(committed.source) :
     i \in committed.source.owned \/ i \notin shells[s].presentAtAttach}

(* A terminal that counts itself synchronized at a revision holds values   *)
(* of that generation or of later ones it published into, but for what it  *)
(* has yet to publish and what the service keeps as its side of a conflict:*)
(* the hook's applied revision and reconcile flag are true of the live     *)
(* shell after every lost reply and every failed transition.               *)
NoFalseConvergence ==
  \A s \in Shells :
    LET t == terminals[s]
    IN  t.attached /\ ~t.reconcile /\ t.pc \in {"command", "prompt"} =>
          /\ t.applied # 0
          /\ \A i \in SharedNames(s) :
               \/ \E r \in t.applied .. head : env[s][i] = generations[r][i]
               \/ env[s][i] # t.baseline[i]
               \/ i \in DOMAIN shells[s].unpublished

(* While nothing failed, a pull brings in what others changed and nothing  *)
(* else: an identity that the transition of install_transition changes was *)
(* last changed by another terminal or a reset, after the revision the     *)
(* terminal holds, as far as the history retained still tells.  A          *)
(* resolution does give up the terminal's own side.                        *)
ChangedElsewhere(s, i) ==
  LET touching == {k \in DOMAIN events : i \in DOMAIN events[k].changes}
  IN  \E k \in touching :
        /\ \A j \in touching : j <= k
        /\ events[k].revision > terminals[s].applied
        /\ \A op \in Operations : <<s, op>> \notin events[k].by
PullKeepsEdits ==
  [][\A s \in Shells :
       /\ terminals[s].pc = "apply" /\ terminals'[s].pc = "verify"
       /\ terminals[s].applied # 0 /\ terminals[s].conflict = NoConflictKnown
       /\ failures = 0 /\ floor <= terminals[s].applied
       => \A i \in DOMAIN terminals[s].reply.patch : ChangedElsewhere(s, i)
    ]_allVars

(* Whatever became of a transition, the shell is as it was or owns a       *)
(* reverse function that makes it so: no operation of a failed apply is    *)
(* left behind without an owner.                                           *)
ReverseOwnsTransition ==
  [][\A s \in Shells :
       terminals[s].pc = "apply" /\ terminals'[s].pc # "apply" =>
         LET t == terminals'[s]
             owned == IF t.pc = "verify" THEN t.active ELSE t.recovery
         IN  env'[s] = env[s] \/ Undone(env'[s], owned) = env[s]
    ]_allVars

(* Settled for good: the terminal is off, or needs its user to resolve, or *)
(* to recover from a transition that failed half way, or holds the head.   *)
Settled(s) ==
  LET t == terminals[s]
  IN  \/ t.pc = "off"
      \/ t.conflict # NoConflictKnown
      \/ t.recovery # NoReverse
      \/ /\ t.attached /\ ~t.reconcile
         /\ t.applied = head
         /\ \A i \in Identities : AllowsLiveValue(i) => env[s][i] = shared[i]

(* An edit the publish of which is refused: it is neither what the hook    *)
(* takes as published nor what the terminal is asked to hold.              *)
Stray(s) ==
  LET t == terminals[s]
      target == IF s \in Attached /\ shells[s].pending # NoPending
                THEN shells[s].pending.fingerprint ELSE shared
  IN  /\ t.attached
      /\ \E i \in Identities : env[s][i] \notin {t.baseline[i], target[i]}
      /\ s \in Attached => shells[s].conflict = NoConflict

(* A request that does not reach the service, a lost reply to an attach, a *)
(* prepare or a resolve, a transition that fails and resets elsewhere only *)
(* delay synchronization: unless an edit stays unpublished, every terminal *)
(* ends at the head, in a conflict it knows, or with a recovery to run.    *)
(* Not so the lost reply to a publish or an acknowledge: the hook has no   *)
(* way back from some of those.  A run of this property leaves them out of *)
(* Failures (LostReplyReplays is about the second).                        *)
Converges ==
  (\A s \in Shells : <>[]~Stray(s)) => (\A s \in Shells : <>[]Settled(s))

(* The code's requirement that a lost reply be answered again: what the    *)
(* service would replay from the receipt of a served acknowledge gets as   *)
(* far as the service.                                                     *)
LostReplyReplays ==
  \A s \in Shells :
    LET t == terminals[s]
    IN  /\ t.pc = "verify" /\ t.ackOp # NoOp
        /\ ReceiptMatches(s, t.ackOp, "acknowledge",
             [revision |-> t.reply.revision, token |-> t.reply.token,
              observed |-> AdmittedSnapshot(s, env[s])])
        => HandleResolves(s, t.reply)

===============================================================================
