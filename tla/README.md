# zsh-pro in TLA+

zsh-pro keeps the environment of several zsh terminals (variables, aliases,
functions, `PATH`, options) in one *shared worktree*: a terminal publishes what
its user changed, the others pull it, and `commit`, `branch`, `checkout` and
`reset` move the shared state through a git repository. This directory models
that machinery, model-checks it with TLC on small instances and proves its safety
properties with TLAPS for every instance, one of them (`NoDuplicateRevision`, section 5)
up to the first receipt that is evicted.

## 1. The system

| Component | State it keeps | Operations | Talks to |
|---|---|---|---|
| Worktree service, `core/worktree/service.go` | none of its own: every method is one `StateStore.WithTransaction` | `Materialize`, `Attach`, `Publish`, `PreparePull`, `ResolveShared`, `Acknowledge`, `Commit`, `Branch`, `Checkout`, `ResetHard`, `SetAutoApplyDefault`, repair | state store, registry, profile store |
| State document, `state.go`, `model/worktree.go` | the canonical state: head, shared snapshot, events with a compaction floor, shells, receipts, base commit | validation, compaction, replay | service |
| Registry and diff, `registry.go`, `diff.go` | managed, pinned and admitted identities, rebuilt in every transaction | `Seed`, `RestoreAdmitted`, `Admit`, `AllowsLiveValue`, `DiffSnapshot` | service |
| State store, `atomic_unix.go` | `worktree.json`, an advisory lock, a forensic log, a recovery marker | read, lock, replace by rename, directory sync | file system |
| Profile store, `core/store` | a bare git repository, a keychain, quarantine directories | `CommitWorktree`, `CreateFrom`; `InitForInstall`, `BeginIngest`, `CommitIngest`, `AbortIngest` and their rollback | git, keychain |
| Install and ingest, `core/cli/install.go`, `ingest.go`, `cache.go` | one process each: promoted loader, target transaction, store transaction | preflight, loader, target, commit, materialize, and the compensation of each | guarded install, cache, profile store, service |
| Activation, `core/activate` | none | `BuildEffective`, `Build`, plan, diff, live patch | service, adapter, payload emission |
| Composition, `cmd/zsh-pro/main.go` | none | materialize and repair before a workflow command | everything |
| Adapter and CLI, `core/cli` | none (transition handles derived from pending tokens) | `emit`, `worktree …`, reply framing | hook, service |
| Guarded install, `core/cli/install_transaction.go` | journal, candidate and rollback files next to the target | prepare, promote, rollback, retain, recover | file system |
| Hook and loader, `core/shell/zsh/hook.go` | shell variables: applied revision, baseline, operation ids, active and recovery reverse functions | publish, pull, resolve, acknowledge, switch | adapter, the user's shell |
| Payload emission, `core/shell/zsh/emit.go` | slots in the shell for what each identity was | renders the apply and reverse functions of a profile | loader, the user's shell |
| Parsing, analysis, IR, rendering | none | text to blocks, blocks to reports | CLI |

How they interact. Every prompt runs the hook; the hook calls the binary, which
opens one transaction on the state store and answers with shell code; the hook
evaluates it and acknowledges. Several terminals do this concurrently, ordered
only by the state store's file lock. The workflow commands take the same lock
and, while they hold it, move git refs by compare-and-swap; `ingest` moves the
`main` ref *without* that lock. No transaction spans the two stores: the ref
moves first, the state file is written afterwards.

What is hard:

* two terminals publish the same identity, with compaction dropping the events
  that show it;
* a pull takes two transactions (prepare, acknowledge), and anything may happen
  between them;
* a publish can half lose: some changes become a revision, the others a conflict;
* requests are delivered again after a lost reply, and identified by receipts;
* a commit or a `checkout -b` can move a ref and then fail to write the state;
* ingest can move the branch under a running worktree;
* the user's editor writes the startup file between any two system calls of an
  install, and a crash may come between the exchange of two files and the record
  of it;
* an install changes four resources (loader, startup file, store, secrets) that
  no lock covers together, and must take them back in the right order;
* the prompt's budget kills a request before or after it was served, and the
  hook cannot tell which;
* a transition may fail half way through the live shell;
* so may the apply function of a whole profile, whose reverse then meets
  identities that were never saved, that the user changed meanwhile, or that zsh
  refuses to restore, and may be interrupted and retried;
* the set of names that may be shared depends on the committed source, which
  checkout, commit and repair change while admissions persist.

`PROJECT.json` lists these hazards at their lines, each with the properties
that would catch it going wrong, or the reason why none does yet.

What makes each component correct: *service*: no terminal's change is silently
overwritten or forgotten, and what a terminal confirms is a generation that
existed; *state document*: replay of the retained events over the compaction
baseline is the shared snapshot, after every operation; *registry*: a secret
never enters a snapshot, and stored admissions can always be restored;
*profile store*: no branch head loses a commit; *state store*: a transaction is
atomic and durable, or reported; *guarded install*: the user's file is never
lost at any crash point; *hook*: a transition is applied once and eventually
acknowledged or undone; *profile switch*: zero residue, and what was saved never
lacks a way back.

## 2. Modules

| Module | Models |
|---|---|
| `Worktree.tla` | the service, its state and validator, the registry, and the refs and commits of the profile store |
| `SharedLog.tla` | what the service promises the terminals: an abstract shared log |
| `StateStore.tla` | one transaction of the state store, a system call at a time |
| `GenerationLog.tla` | what the state store promises the service: an abstract log of generations |
| `ShellSync.tla` | the zsh hook, its helper and the adapter, over `Worktree` |
| `GuardedInstall.tla` | the guarded replacement of the startup file, a system call at a time |
| `StartupFile.tla` | what that replacement promises the user: an abstract file and entries aside |
| `ProfileSwitch.tla` | the loader's switch between whole profiles, an operation at a time |
| `IngestStore.tla` | initialization of the profile store and one ingest transaction |
| `InstallRun.tla` | the install and ingest commands over `IngestStore`: loader, startup file, commit, compensation |
| `WorktreeMC.tla`, `ShellSyncMC.tla`, `ProfileSwitchMC.tla`, `GuardedInstallMC.tla`, `InstallRunMC.tla`, `*.cfg` | the small instances |
| `Worktree_proofs.tla` | types, applied revisions, stale overwrites and that `Worktree` implements `SharedLog`, proved |
| `WorktreeState_proofs.tla` | the validator's demands, captured changes and status, proved |
| `WorktreeWorkflow_proofs.tla` | the git workflow and the registry's promises, proved |
| `StateStore_proofs.tla` | the state store's safety and that it implements `GenerationLog`, proved |
| `GuardedInstall_proofs.tla` | the guarded replacement's safety and that it implements `StartupFile`, proved |
| `InstallRun_proofs.tla` | the safety of the install and ingest commands, proved |
| `ProfileSwitch_proofs.tla` | the safety of the profile switch, proved |
| `ShellSync_proofs.tla` | what the hook believes, what a pull overwrites and what it can undo, proved |

`Worktree` and `StateStore` are two levels of one system: an action of
`Worktree` is the callback of one transaction of `StateStore`. `Worktree` takes
it as one step; `GenerationLog` is what makes that right (transactions are
serialised, each is whole or absent). `CommitSplit` and `BranchSplit` are the
transactions of `Worktree` that `StateStore` may fail after the callback.

`ShellSync` extends `Worktree`: each of its requests is a conjunction of a step
of the hook and a handler of the service. `InstallRun` extends `IngestStore` in
the same way. `GuardedInstall` is the fine grain of what `InstallRun` takes in
three steps (stage, promote, finalize or roll back): the outcomes `InstallRun`
allows a promotion are those `GuardedInstall` ends in. A save between the last check
and a rename is among them: the rename displaces it (`Displaces`, `Reverses`), a
promotion notices and reverses, a rollback keeps it aside and asks for recovery, and
a death may leave either rename done.

### Worktree

State: `State` of `state.go` field by field (`head`, `shared`, `floor`,
`baseline`, `events`, `shells`, `receipts`, `admitted`, `branch`, `baseOID`,
`committed`, `autoApply`), plus `refs` and `objects` for the repository, plus
the history variable `generations` (the shared snapshot of every revision ever
issued, including those compaction dropped).

One action per handler. Since a handler runs in one transaction and an error
returns before the state is written, a request that is refused, or whose
receipt is found, is a stuttering step. The two retry paths that do change
state, the ones that admit names before they look for the receipt
(`ResolveShared`, `Acknowledge`), are disjuncts of those actions. What is left
out of the step: the bearer capability check, and fields nothing reads back.

Requests come with an operation id. Which requests are enumerated: any
snapshot for `Attach`, any change list and any revision for `Publish`, any
revision for `PreparePull`, and for `ResolveShared` and `Acknowledge` the
conflict or transition the shell holds, and those of earlier requests whose
receipts are held; any other token is refused by a guard.

Terminals do not follow the hook's protocol in this model: they may send any
request at any time with any snapshot. So the safety properties do not depend
on a well-behaved hook.

Crashes. `Commit` and `CommitSplit` are the two outcomes of a commit: both
stores written, or the ref moved and the state not. Likewise `Branch` and
`BranchSplit` (also the left-over branch of a `checkout -b` that fails later).
`Repair` is `repairPublishedState` as run by `status`, `diff` and `branches`;
`Branch` and `Checkout` run it first themselves. `Ingest` is the ref move at
the end of `CommitIngest`; the journal, secrets and object publication before
it change nothing the worktree reads.

Data. A snapshot is a function from identities to a value or `Absent`; a change
list is a function on the identities it changes; a fingerprint is the snapshot
it digests (SHA-256 collisions are excluded); a commit's OID is its index in
`objects`, and content addressing is kept: a commit with the same parent and
document is the same object (`StoreCommit`). A source profile is what
`Registry.Seed` and `BuildEffective` read of it: the values it declares, the
names it owns, and the names pinned as secrets.

### SharedLog

Four variables: the log of generations, the author of the last one, and for
each client the revision it confirmed and what it held there. A client may
publish only a generation that differs from the last one on identities nothing
changed since its view; a whole generation may be replaced; a client may move
its view forward to any generation, or lose it. `Log` in `Worktree.tla` maps
the service onto it: `generations` is the log, the applied revision is the
view, receipts, pendings, conflicts, compaction and git disappear.

### StateStore

State: `directory` is the state root as system calls show it (which generation
`worktree.json` is, what its bytes are, the recovery marker); `survivors` are
the roots a power loss may leave; `lock` is the holder of the flock; `txn` is
each process's transaction, one stage per system call. `acked`, `owed` and the
field `shown` are history: the last generation reported as written, the last
one reported with its forensic append failed, the last one that showed that
condition in every shell.

One action per system call, in the order of `WithTransaction`:
`acquireStateLock`, `Mutate` (read, project pending evidence, run the callback,
project again), `replaceCanonical` in four calls, the removal of the marker in
two, the forensic append, the creation of the marker in four. `Fail` is an error
return at any of them, with the deferred unlock; `FailMarker` is the error
return that also tries to remove the marker; `Kill` is a process death between
any two calls; `PowerLoss` leaves one of the survivors.

What a power loss leaves is the model's one assumption about the file system:
operations on one directory reach the disk in the order they were made, so a
survivor is a directory as it was at some moment since the last successful
directory sync; the bytes of a file that was never synced may be gone. Without
the order the evidence could be lost (see the remark on clearing in section 4).

A generation is the list of the transactions that wrote it and its
predecessors, so that an overwritten transaction shows as a missing element,
plus whether it has shells and whether all of them carry
`LastRecoveredError`. A callback may change anything else, may attach shells
(which start without the error) and never removes one: nothing calls
`CanGarbageCollectShell`. Left out: the checks that nobody replaced root or
lock file under the program, opening and closing a store, and the bytes of the
forensic log, which nothing reads.

`GenerationLog` has two variables: the writers of the generations a reader sees
the effects of, and how many of them were reported as written. A write appends,
a report confirms, a crash takes back an unconfirmed end.

### ShellSync

State: `terminals`, the hook's variables field by field (`attached`, the
baseline, applied revision, reconcile flag, known conflict, the retained
operation ids, the reply being installed, the active and the recovery reverse
function), with `pc` for where the terminal is: in a `command`, at a `prompt`,
about to `apply` a transition, to `verify` it, or `off`; `env`, the live
environment; `edits` and `failures` count what the exploration bounds.

Actions: `EditEnvironment` is the user's command. `AttachTerminal`,
`PublishTerminal`, `PullTerminal`, `ResolveTerminal` and `AcknowledgeTerminal`
are the hook's five requests. Each is `Invoke`: the service serves the request
and the reply arrives; or the budget ends after it was served; or before; or
the service refuses (`~ENABLED` of the handler). The hook's step is the same in
the last three. The `Adapter...` operators are `emitter.go`: what a request
asks of the service, the replay from a receipt, the delta taken from the two
snapshots the hook sent, and the 64-bit handle that only a *pending* token can
be turned back from. `ApplyTransition` evaluates a transition: whole, failed
and compensated, or failed with some operations left and a reverse function
retained. `Deactivate` runs the retained reverse functions. `DeferPull` is a
line-finish with auto-apply off. `ResetElsewhere` is the rest of the world.

The runs follow one terminal to its hook; the others appear as resets, which to it
are a generation it did not author. The proofs are for any number of terminals with
their hooks. Left out: the credential and its
allocation, frames, the coprocess, capture of the shell, readonly loader
variables. The switch of a whole profile is the next module.

### ProfileSwitch

`activate` and `checkout` run `_zp_switch` in a terminal whose dispatcher is
missing, whose helper has no worktree protocol, or that has switched this way
before (`_zp_worktree_needs_legacy_switch`). The module is such a terminal. Its
state: `env`, the live environment; `slot`, `appliedSlot` and `base`, the
`ZP_ORIGINAL_`, `ZP_PRESENT_`, `ZP_WAS_ON_`, `ZP_APPLIED_SCALAR_` and `ZP_BASE_`
parameters; `locked`, what the user made readonly; the markers (`reverse` is the
defined reverse function, by its manifest; `active`, `recovery`, `activeProfile`,
`exported`); and `pc`, `why`, `target`, `todo`, `failed` for where the loader is.
`own`, `excused` and `interrupted` are history: what the terminal would hold had no
profile ever been active, the identities the code may not give back, and
whether the loader was ever interrupted.

`StartSwitch` and `StartDeactivate` are the guards of the two commands.
`Preflight`, `Restore`, `BeginCommit`, `Commit` are the three phases of an emitted
reverse function, `DropFunction` .. `Clear` what the loader forgets after it, in
order; `Prepare`, `Define`, `Apply`, `Promote`, `Settle`, `Mark`, `Export` are the
payload. `Apply` and `Restore` do one operation of the plan each, in the order of
kinds; the order within a kind is the manifest's and is left free. An operation
may be refused by zsh (`ApplyRefused`, `RestoreFails`: `setopt` fails, and apply
goes on while reverse stops), may assign to a readonly parameter and unwind to
the prompt (`ApplyUnwinds`), and `Interrupt` is the user's Ctrl-C between any two
steps. Between commands `User` sets, extends and locks what he likes.

`excused` grows where the code does not give an identity back, whether D-04 asks for
it or not: a list edited after its base was captured, an alias, function or option
edited while a profile manages it (no drift guard), a scalar set to the profile's own
value, what a recovery restores without having saved it, a dynamic scalar interrupted
before its expansion was recorded. Section 4 describes these.

What is folded: the export attribute into a scalar's value, functions into
aliases, `Unalias` with `RestoreShadowedAlias` into one step, the definition of
the two functions with the recovery pointer. Left out: readonly loader variables
(the code checks them before each phase), status reports, the store checkout and
the secrets of `Emit`, and the branch of `deactivate` for a worktree transition,
which is `Deactivate` of `ShellSync`. A payload that cannot be emitted or does not
parse changes nothing.

### GuardedInstall and StartupFile

State: `files` is the startup file and, for each run, its private directory and
the entry that lies there (`peer`); `survivors` are the states of it a power
loss may leave; `candidate` and `slots` are the bytes of the candidates and of
the two journal slots (torn, unsynced, whole); `base` is what a run captured;
`run` is each process; `lock` the flock.

One action per system call, in the code's order: `captureInstallSnapshot`
(before the lock), `openTargetTransactionGuard`, `StageCandidate`,
`SyncCandidate`, `SyncArtifacts`, `createPreparedJournal`; `SyncJournal` and
`SyncJournalDirectory` after every record; `CheckTarget`, `Promote` (exchange,
or the rename that refuses to replace), `RecordPromotion`, `SyncForward`; the
way back `reverseLateSubstitution`, `rollback`, `Reverse`, `RecordReversal`,
`SyncBackward`; `finalize`, `RemovePeer`, `RemoveArtifacts`, `RemoveDirectory`;
and `Reopen` with `recoverGuardedInstallTransaction`, which trusts only what it
finds. `UserEdit` happens at any moment without the lock; `Stop` is an error
return that keeps the directory, or a death, at any point; `PowerLoss` leaves a
survivor and tears unsynced bytes.

An entry is its maker and the number of the user's save it carries; the
evidence the code compares (device, inode, digest, mode, owner) is equality of
entries. The file-system assumption is that of `StateStore`.

`StartupFile` has two variables, the file and what may survive. Entries move
only by exchange or into a missing place, and the last entry that carries the
user's newest save is never discarded.

### IngestStore and InstallRun

`IngestStore` is the profile store as one process uses it. State: the root
directory (`tree`, with `inode` for its identity), the secrets in the keychain,
quarantine directories, the lock of the root and the lock of `main`, and per
process its `InstallInitialization`, its ingest transaction and the call it is
at. `tree.line` are the runs whose candidate is in the history of `main`; of the
commits a shell makes one in the life of a root is modelled (`moved`).
`tree.torn` are the runs that began to remove this root. The removal is
`os.RemoveAll` under no lock (`install_transaction.go:1086`; the comparison before it
is over by then, `06-PATTERNS.md:55` notes that rollback "re-snapshots a pathname and
calls `os.RemoveAll`"), so it is no step: `RemoveEntry` takes one entry after another
in any order (an object, `main`, the lock file of `main`, or something not told
apart), while every other process goes on writing to the root; `RemoveRoot` is the end
and `RemoveFails` an entry that stays. A death or an error in between leaves what is
left. Which files make a directory a repository is not told apart: once a removal has
begun, a git command of anybody may fail by that alone (`Broken`), and may also still
succeed. The walk over the root and a `git cat-file` see only what is there
(`Contents`, `Readable`), not who removes it.
`InitForInstall` is `Inspect` .. `Seal`, its rollback `RollbackRefused`,
`RestoreMode`, `CompareTree`, `RemoveTree`; `BeginIngest` is
`reserveIngestTransaction`, `createIngestQuarantine`; `CommitIngest` is
`claimIngestCommit` .. `CleanQuarantine`, with `Decide` for the end of its body.
`InstallRun` adds what the two commands hold: the startup file with its lock,
the cache directory with the loader and temporaries, and the worktree they
materialize at the end. `Forward` and `Backward` are the steps of a run;
`StoreStep` is one of the store's. A fault is a call that fails, a reply that is
lost or a process that dies, at any step. Meanwhile the user edits the startup
file (`UserEdits`) and a shell commits the worktree (`ShellCommits`).

A commit, a secret or a loader is named for the run that wrote it. At first there
is no store and the user has a startup file, or a store whose user has none and a
cache directory others may read, or a store with block and loader of an earlier
install. A restore of the loader or the cache that reports an error may have taken
effect before the directory sync failed (`RestoredLoader`, `RestoredCache`). Left out:
recognition of secrets, the keychain's drivers, argument parsing, `zsh -n`, the
rendered report, and authentication of directory entries, which is a call that
may fail.

## 3. Runs

| Run | Instance | Asks |
|---|---|---|
| `sync` | 2 terminals, 2 names (one managed, one admitted on first use), 1 value, 1 retained event, 3 revisions, 1 commit | the terminal protocol: types, validity, applied revisions, forgotten changes, status, stale overwrites, refinement of `SharedLog` |
| `workflow` | 1 terminal, 2 branches, 2 profiles (one pins a name as secret and drops the other's value), 2 retained events, 3 revisions, 3 commits | git: registry and secrets, base, commits, repairs, refs, checkouts |
| `replay` | 1 terminal, 6 operation ids whose receipts are all kept, 2 values, 4 revisions | repeated requests |
| `commit_twice` | 1 terminal, 1 branch, 3 revisions, 3 commits | finding 1 (violated) |
| `split_repair` | 1 terminal, 1 branch, 3 revisions, 2 commits | finding 2 (violated) |
| `store` | 2 processes, one with a deadline, 3 generations | the state store: torn files, lost evidence, serialisation and durability, termination |
| `torn_marker` | the same | finding 3 (violated) |
| `guarded` | 2 runs, 2 saves by the user, 1 stop, death or power loss | the startup file: newest save, complete candidates, journal, durability, no trace of a run that did not install, refinement of `StartupFile` |
| `ingest` | 2 runs (each an install or an ingest), 1 fault, 1 edit or shell commit | the two commands: published objects, secrets, compensation, truth of the report, order of loader and block |
| `shell` | 1 terminal with its hook, 2 names, 2 edits, resets, 1 failure, 5 revisions | the hook: what it believes, what a pull overwrites, reverse functions, convergence |
| `switch` | 1 terminal, 2 profiles (one with 2 builds) over 6 identities of all kinds, 2 commands of the user, interrupts | the profile switch: residue, accumulation, a way back to what was saved |
| `lost_acknowledge` | as `shell` without edits, the lost reply to an acknowledge | finding 4 (violated) |

What the bounds reach. `sync` keeps one event of three, so compaction folds
twice and both kinds of conflict occur, but its last revision is spent when a
terminal falls below the floor: that a publication below the floor overwrites
nothing is proved (`StaleOverwriteImpossible`) rather than explored. Three revisions are the materialization, a
publication and a competing one (or a checkout or reset), the shortest
history in which a change can be lost. Two terminals are enough to compete and
the properties speak of one terminal against the shared state. Three commits
are a base, a commit of the worktree and one by ingest, in either order. One
value suffices in `sync` because `Absent` is a second one; a larger instance
(`MaxRevision = 4`, `MaxStateEvents = 2`, 1.2 million states) was checked once
and gave the same result.

In `store` two processes are enough to overlap, wait and time out; three
generations are one whose append fails, one that may show it, and one more
after or between them. The number of failures, kills and power losses is not
bounded.

`MaxReceipts = 0` in `sync` and `workflow` is a bound of the exploration: with no receipt held
every request is new, so one operation id serves all requests and the state
space keeps no record of past ones. It is sound for safety: it only adds
behaviours (repeated requests execute again). Receipts are the subject of
`replay`, where every operation id is used once as a new request and may then
be repeated for ever. The source keeps 64 per terminal.

In `guarded` two runs overlap at the lock and around it, the second save is one
that races with a promotion of the first, and one stop puts recovery at every
point (254 thousand states). The invariants of the proofs were also checked once
with two stops, so that recovery itself dies (1.5 million states). `ingest` has
one fault at any of some fifty calls of either run, and one edit or shell commit:
enough for a compensation to meet another run or an edit, not for a compensation
that itself fails *and* meets an edit (1.6 million states).
A compensation may also start without a fault, after an edit or a race with the other
run: then the fault may be a death or an error in the middle of the removal of a root.
The constraint `RemovalBound` ends the exploration, once a root is being removed, at
states that have spent both the fault and the edit: they are checked, but what follows
them is left to the proofs. Its deadlock check is
on: every run ends, whatever fails (`Over` is the state in which all have).

In `shell` five revisions are the first generation, two publications and two
resets; `MaxReceipts = 2` is the least that never evicts the receipt of a
request the hook still repeats. Ten operation ids are one more than the receipts, a
retained request of each kind and the tokens can hold (`ShellSyncAssumption`): a
new request always finds a new one, as in the code, where it is made of the process,
a counter and the time. Two edits of two names reach a conflict and an
edit made while a transition is prepared. One failure is explored, at any call of the
kinds in the constant `Failures`. In `shell` these are: the lost request of each of the
five calls; the lost reply to an attach, a prepare or a resolve; and the apply function
of a transition that fails, compensated or stuck. The lost replies to an acknowledge
(finding 4) and to a publish (section 4) are *not* among them, whatever the reply said,
because the present code does not get over all of those, and the run shows nothing of
behaviours with them; the safety properties are proved for them too (section 5, any
`Failures`). The first edit is made to `a`: the profile treats both names alike.

In `switch` there is an identity of each kind: a static and a dynamic scalar, a
list, an alias, an option and an option zsh refuses. Two profiles share some of
them, so that a switch finds in a slot what the other left, and the second has
two builds, as after a new ingest. Two commands of the user are a lock and an
unlock, or a lock and an edit: enough for an apply that unwinds, a repair and a
retry (2.1 million states). The number of activations and interrupts is not
bounded. `MaxEdits` bounds only `User`. The same instance with a second list, whose
base no `Prepare` captures, and one without interrupts, with that list and three
commands, were checked once and gave the same result; the invariant of the proofs
was checked on `switch` and on the last of these.

`CHECK_DEADLOCK FALSE` is set in the other runs because terminals may stop asking and because
the bounds on revisions and commits end the exploration. `NextRevision` really
does fail at its last value, so `MaxRevision` is a limit of the code, set small.
`MaxObjects` is not.

Symmetry is used on terminals (`sync`), operation ids (`replay`) and runs of the
tool (`guarded`, `ingest`), in runs with safety properties only;
that `StartupFile` is implemented is one.

What the properties say, and the code they are about:

* `ValidState`: every state a handler produces passes `ValidateState`. The
  validator runs at each write, so a handler that produced an invalid state
  could never complete.
* `AppliedIsHistory`, `UpToDateHoldsShared`, `NoCapturedChangeForgotten`:
  what the service believes of a terminal is true, what it tells the user is
  true, and what it has seen of a terminal is either in some generation since
  or in its unpublished delta.
* `NoStaleOverwrite`: a publication changes an identity only if no generation
  since its author's applied revision changed it. It is stated over
  `generations`, so it also covers the events compaction dropped.
* `ImplementsSharedLog`: every step of the service is a step of `SharedLog`.
* `NoDuplicateRevision`: a delivered-again publish makes no second revision.
* `PinnedNeverShared`, `AdmittedNeverExcluded`: the registry's two promises.
* `BaseIsCommitted`, `CommitRecordsShared`, `NoCommitOverwritten`,
  `CheckoutKeepsWork`: state and repository agree, a commit or repair records
  exactly the shared snapshot, branch heads only fast-forward, and a checkout
  leaves nothing behind that is in no commit.

* `OldOrCompleteNew`: `worktree.json` is whole now and after a power loss.
* `EvidenceKept`: a reported transaction whose forensic append failed is
  remembered by a whole marker or by a generation that showed it, after any
  crash.
* `ImplementsGenerationLog`: no transaction overwrites another's, a reported
  one is never taken back, a crash loses an unreported end only.
* `EveryTransactionEnds`: a transaction with a deadline ends even if it never
  gets the lock, and one that has the lock ends.
* `NewestSaveKept`: in whatever a power loss may leave, the user's newest save
  is the startup file or lies in a transaction directory that is still there.
* `CandidateWhole`: a shell that starts never reads a candidate whose bytes are
  not on the disk.
* `DisplacedIsJournaled`: while a directory holds an entry of the user's, its
  journal is there and decodes after any power loss that tears one slot.
* `InstalledIsDurable`: "installed" is said of a run that displaced what it
  captured, and no power loss takes that back.
* `NoTraceLeft`: a run that does not install has its candidate out of the startup
  file when it settles, and out of every survivor of a power loss once it is closed.
  The commands take the loader back after it, which that candidate would source.
* `ImplementsStartupFile`: every system call is a step of `StartupFile`.
* `PublishedIsReadable`: `main` never points to a commit whose objects are gone, in a
  root nobody has begun to remove. In one somebody has (a failed first install), it may,
  until the root is gone: that is not excluded by the code.
* `SecretsMatchMain`: the secrets in the keychain are those of the profile that
  `main` points to, unless a run is in its commit, died, or asks for recovery.
* `CleanFailureRestores`, `ReportTruthful`: what a command says of its outcome is
  true of the file, the ref, the secrets and the quarantine; and a failure that asks
  for no recovery has not left the root half removed, unless `InitForInstall` itself
  failed, which reports no error of its rollback.
* `LoaderOutlivesBlock`: forward, a startup file gets its block after the loader is
  there (`LoaderBeforeBlock`); backward, a run takes its loader away only once the
  file is not its own (`FilesystemFirst`). It is not the claim of `install.go:30-32`
  that startup never points at an unavailable loader, which the code does not keep
  (section 4): `LoaderBeforeBlock` says nothing of executions in which a run that
  promoted its loader is taking back, failed, or died doing so.
* `NoFalseConvergence`: a terminal that takes itself for synchronized holds, of each
  name it shares, what some generation since its revision held, but for its own
  unpublished edits. A name it shares (`SharedNames`) is one the profile declares or
  one it did not inherit.
* `PullKeepsEdits`: while nothing failed, a pull changes only what others changed, as
  far as the retained history tells: compaction has not dropped an event after the
  revision the terminal holds.
* `ReverseOwnsTransition`: after a transition that failed half way, some reverse
  function the hook keeps restores the shell.
* `Converges`: a terminal ends at the head, or off, or in a conflict it knows, or
  with a recovery for its user to run, in spite of a failure of the kinds listed above,
  which leave out the lost replies to publish and acknowledge. Its hypothesis is that no
  edit stays *stray*: an edit that neither the service nor the hook takes as published.
* `NothingLeftBehind`: once no reverse function is left, every identity that is
  not excused is what the terminal would hold without any profile, a scalar the
  user changed meanwhile included. What is excused (`ProfileSwitch` above) is not all
  outside what D-04 promises: of hand-edited lists, aliases, functions and options, and
  of what a reverse does to identities that were never saved, the property says nothing.
* `NoAccumulation`: a list holds words of the user's, or those of the one profile
  whose reverse is defined around them, once before and once after.
* `ReverseReachable`: what was saved can be restored: a pointer names a reverse
  function that does it.
* `NeverStranded`: in a terminal that was never interrupted, `deactivate` always has a way to a reverse
  that is left, and no marker outlives its function.

Each property of a passing run has a mutant of the code that breaks it: see
`PROJECT.json`, and the operators marked "Mutation" in the modules.

Fairness. `Worktree` assumes none: the service acts only when a terminal or a
user asks. What makes terminals ask is the hook: `ShellSpec` assumes that commands
end and the hook's code runs on (weak fairness of `Precmd`, `ApplyTransition` and
`AcknowledgeTerminal`), that prompts are used and auto-apply is not off for ever
(strong fairness of `LineFinish`, which a deferred pull disables again and again),
and that the first generation is made. Nothing is assumed of edits, resets,
resolutions or `deactivate`, which are the user's. `FairSpec`
of `StateStore` assumes weak fairness of each process's own next call
(`Advance`): a process that is not killed is scheduled, a system call returns,
and a deadline passes. The hook's requests have one (`context.WithTimeout`,
`core/cli/runtime.go:152`) and are the clients in `Timed`; a user's command has
none (`core/cli/worktree.go:70`), waits in no queue, and may starve. Nothing is
assumed of `Begin`, `Kill` or `PowerLoss`.

## 4. Findings

1. `commit_twice` violates `DirtyIsCommittable`. `Commit` lays the *dirty*
   changes (shared against the last projection) over the *source* of the last
   commit. A commit keeps that source and records the removal of a declared
   name only in its projection. So: commit the removal of `a`, publish `b`;
   now the document is the source (which has `a`) plus `b`, its projection is
   not the shared snapshot, and `Commit` answers "recovery required" although
   nothing is to be recovered. `service.go:81` says a commit publishes every
   effective dirty identity.
2. `split_repair` violates `SplitStaysRepairable`. After a commit that moved
   the ref and lost its state write, a repair needs the commit's projection to
   equal the shared snapshot. `Publish` neither repairs nor looks at the ref;
   one publication later, repair, checkout and branch refuse, and commit fails
   its compare-and-swap. `07-06-PLAN.md:126` asks that the split stay
   "repairable from an exact committed object".

3. `torn_marker` violates `AlwaysReadable`. `writeRecoveredPersistenceMarker`
   creates the marker under its final name and then fills it
   (`atomic_unix.go:493`); a kill in between leaves a short marker, which every
   later transaction refuses as corrupt and nothing removes. `07-03-PLAN.md:205`
   asks that every crash point recover the old or the complete new generation.
4. `lost_acknowledge` violates `LostReplyReplays`. The service answers a repeated
   acknowledge from its receipt, and the hook keeps the operation id to repeat
   it. But an acknowledge clears the pending transition, and the adapter turns
   the hook's 64-bit handle back into a token by looking at the pending
   transition (`emitter.go:327`). So after a lost reply the hook's prepare is
   answered from its receipt with the same transition, the acknowledge is
   refused, and so is every later publish and pull. `07-10-PLAN.md:27` asks that
   "valid lost-response replay stays idempotent".

What was seen while modelling and is not a run, because no document speaks of it,
because the property of a run already excepts it, or because it needs more
failures than a small instance holds:

* *Store.* A process killed between the rename of the generation that shows a
  pending condition and the directory sync; the next transaction changes nothing,
  skips the sync with `replaceCanonical` (`atomic_unix.go:232`) and clears the
  marker early. Where directory operations keep their order nothing is lost
  (`EvidenceKept`). A request whose directory sync failed and that is sent again
  finds its receipt and reports success for a generation that is not yet durable.
* *Guarded install.* A process killed between writing a journal slot and syncing
  it; a recovery that takes the written record for the newest and writes the other
  slot; a power loss: two torn slots and a directory that is retained for ever,
  against the comment at `install_transaction.go:339`. `DisplacedIsJournaled`
  excepts exactly that. A crash in a rollback that started from `parent_synced`
  leaves a topology recovery does not list, and so does a crash after `finalized`.
  A run whose candidate was displaced late leaves that candidate for the next run
  to capture. `recoverGuardedInstallTransaction` has no caller outside tests.
* *Install and ingest.* A run rolls its startup file back, gives up the lock, and
  then restores the loader whoever wrote it last (`cache_directory_unix.go:383`): a second run
  that promoted its loader and its block in between is left with a block and no
  loader, against `install.go:30-32`. `LoaderBeforeBlock` excepts runs that take
  their loader back. The root of a failed first install is removed entry by entry
  under no lock (`install_transaction.go:1086`): an ingest whose calls fall in between may
  succeed and lose what it published, and an error or a death in between leaves a root
  that may have `main` without its objects. `PublishedIsReadable` excepts such a root. An
  `InitForInstall` that fails early seals the tree as it is
  *then* and removes it, with what another run put there. A second ingest after
  the worktree was materialized reports that recovery is required. The mode of a
  root that was not private is restored under another run that succeeded.
  `InitForInstall` drops the error of its own rollback. `Init` tests that `main` is
  absent and runs `update-ref` without an expected value (`store.go:521`): a second
  first install that finds the bare repository between the two may have published an
  ingest by then, and the first moves `main` back to the empty profile, although
  nothing failed (`store.go:490` calls it "a safe no-op that never clobbers the repo").
  With a third run this reaches further: an ingest whose commit landed and whose reply
  was lost looks at `main`, finds the baseline that the late `update-ref` put back, and
  reports that nothing was committed. It takes back its block, its loader and its
  secrets, and a shell may have committed on top of its profile in between. The
  attempt to prove `CleanFailureRestores` for any number of runs found that execution:
  the property now speaks of `tree.line`, of what is in the history of `main`, and not
  of what once landed.
* *Service.* `Checkout` waits for ever for a terminal that exited with a conflict
  or a pending transition (`service.go:208`): nothing removes shell records.
* *Hook.* `deactivate` after two pulls undoes only the last one, because each
  transition's reverse replaces the one before: what the first pull brought stays
  in the shell (`REQUIREMENTS.md:5` and `:29` ask for zero residue). With
  auto-apply off, two edits of one name conflict with each other. A publish that
  was not served, followed by a pull, overwrites the edit (`REQUIREMENTS.md:43`),
  which is why `PullKeepsEdits` speaks of behaviours without failures; on another
  name the pull's acknowledge fails until the edit is undone by hand. The lost
  reply to a publish that reported a conflict leaves a hook without the token that
  resolves it: publish, pull and resolve are all refused from then on. One that
  reported none is no better if the user then undoes the edit: the hook's baseline never
  moved (`hook.go:1184`), so it sees nothing to publish, while the service takes the
  edit for the terminal's; a pull brings no change for it and its acknowledge is
  refused every time. An edit
  made while a conflict is outstanding makes the resolution refuse
  (`service.go:664-671`). A name that one terminal inherited and another admitted
  is overwritten in the first by its next pull; one that was added and removed
  before a pull makes that pull's acknowledge fail (`service.go:1129-1151`).
* *Profile switch.* Decision D-04 (`01-CONTEXT.md:21`) says of the reverse: "reverse
  only what the profile applied; never clobber a value the user changed by hand
  mid-session". Only scalars are compared before they are restored: a list is set to
  its captured base (`emit.go:672`; `research/ARCHITECTURE.md:305` asks for its deltas
  to be taken back, `04-ACCEPTANCE-TESTS.md:334` accepts the rebuild), an alias,
  function or option to its slot. And when apply unwinds at a readonly variable, later
  operations have saved nothing, yet the recovery runs `unalias` on the user's alias
  (`emit.go:677`) and sets `FPATH` from a base that was never captured. A scalar that
  apply never reached and that already held the profile's value makes the preflight
  refuse (`hook.go:104`): every `deactivate` fails, also after the repair that
  `05-UAT.md:797` asks for, and every `activate` too. Each of the three is reachable
  within a command or two of the user. An interrupt between the removal of a function
  and that of the pointers and markers to it (`hook.go:309-322`, `:340-347`, `:491`)
  leaves a terminal in which every `activate` refuses; only a new terminal helps. One between
  the retained reverse and the marker (`hook.go:548`) leaves a profile that
  `deactivate` reports as none; another `activate` consumes it. One inside a reverse
  leaves all markers, and activating the same profile again is a reported success
  (`hook.go:468`) over a half restored environment. One between the expansion of a
  dynamic scalar and its record (`emit.go:556`) leaves the value for good. No
  document speaks of interrupts; `NeverStranded` excepts terminals that had one. What the
  user adds to `PATH` between two activations is dropped by the second, because the
  base is captured once (`hook.go:140`). An option zsh refuses makes apply fail only
  if it is the last operation; if not, the profile counts as active and cannot be
  left (`emit.go:702`).

## 5. Proofs

The theorems hold for all values of the constants that satisfy
`ConstantsAssumption` (`Absent` is no value, the profiles are profiles whose
pinned names are owned, at least one event is retained, the bounds are
naturals). In `Worktree_proofs.tla`:

* `TypeCorrect == Spec => []TypeOK`. `TypeOK` is not inductive: an action that
  reads `objects[refs[b]]` needs the ref to exist, and a shell record is
  updated field by field. `TypeInv` splits it into named parts and adds
  `BaseExists`: a materialized state's base is an existing commit. One lemma
  per action, combined in `TypeNext`.
* `AppliedCorrect == Spec => []AppliedIsHistory`. Needs more than itself:
  the snapshot an acknowledgement stores is the *pending* fingerprint, so the
  invariant `HistoryInv` says of every pending transition that its fingerprint
  is the generation of its revision, and that the head's generation is
  `shared`.
* `StaleOverwriteImpossible == Spec => NoStaleOverwrite`. `HistoryInv` also
  says that the retained events are numbered `floor + 1 .. head` and that an
  event between two generations names every identity on which they differ.
  Then an identity that no retained event after the acknowledged revision
  names is unchanged since (`UnnamedIsUnchanged`), unless that revision is
  below the floor, where the code lets every change lose. The proof shows that
  a step whose new event is authored by a terminal is that terminal's
  `Publish` (`StepAuthor`).
* `ServiceImplementsLog == Spec => ImplementsSharedLog`: each action of the
  service is matched by one of `SharedLog` or by a stutter. A client's view is
  its applied revision and what it holds is its baseline; `HistoryInv` supplies
  that the baseline is the generation of that revision.

In `WorktreeState_proofs.tla`, on top of both (`ValidInv`):

* `StateStaysValid == Spec => []ValidState`. The hard conjunct is that the retained
  log replays to the shared generation (`LogDescribes`): `ReplayAppend` says that one
  more event is laid over the generation, `ReplayTail` that folding the oldest event
  into the baseline changes nothing, however often that is done. `Replay` asks for the
  last event that touches an identity; that there is one (`LastExists`) comes from the
  well-ordering of the naturals (`LeastNatural`). `Fits` is what the fields of a shell
  record say of one another, `ReceiptsInv` that receipts are unique and bounded.
* `NothingForgotten == Spec => []NoCapturedChangeForgotten` and
  `UpToDateIsShared == Spec => []UpToDateHoldsShared`, by `Remembers`: a captured value
  that differs from the applied generation is in some generation since, or in the
  unpublished delta. A terminal that is not behind has neither generation nor delta.
* `NoDuplicateRevision` is false for arbitrary constants: a terminal keeps 64 receipts
  and the state 128 events (`MaxReceipts`, `MaxStateEvents`), so a request delivered
  again after 64 others of its terminal may be executed a second time. What is true is
  proved in three theorems. `RequestDeliveredOnce`: a request makes no second revision
  for as long as *its own* receipt is kept, whatever becomes of others. `DeliveredOnce`:
  until some receipt is evicted the property holds, so eviction is the only way to break
  it. Both rest on `Once`: the events of one request are one event, and while there is
  one its receipt is held. `OnlyTheOldestForgotten == Spec => [][EvictsOldest]_vars`: what
  is evicted is the oldest receipt of a terminal that holds `MaxReceipts` of them. So a
  request is safe from its own retry until as many others of its terminal were answered.
  In `replay` no receipt is ever evicted: the run says nothing of what eviction does.

In `WorktreeWorkflow_proofs.tla`, on top of `TypeInv`:

* `BaseCorrect == Spec => []BaseIsCommitted`, by the invariant `BaseInv`
  (`TypeInv` and the property itself, which is inductive once types are known).
* `HeadsFastForward == Spec => NoCommitOverwritten` and
  `CommitsRecord == Spec => CommitRecordsShared`: both are properties of one
  step; the argument is which actions move a ref, and that the commit they
  move it to has the old head as its parent and the shared snapshot as its
  projection.
* `CheckoutsKeep == Spec => CheckoutKeepsWork`, from `BaseInv`: checkout asks
  for a clean worktree, and clean against the base means committed.
* `AdmissionsRestorable == Spec => []AdmittedNeverExcluded`: `SafeInv` adds to
  the property that a materialized state's registry is one `Seed` builds.
* `SecretsStayOut == Spec => []PinnedNeverShared`: `SecretInv` adds
  `CommitsClean`, that no commit's projection has a value for a name its source
  pins; without it a checkout could bring one in.

In `StateStore_proofs.tla`, from `StoreAssumption` (the lock's "nobody" is no
client, the timed clients are clients, the bound is a natural), for any number
of processes:

* `StoreTypeCorrect == Spec => []TypeOK`. Being proved, it is not in the run, and
  neither are `TypeOK` of `ProfileSwitch` and of `GuardedInstall` and, for `workflow`,
  `ImplementsSharedLog`.
* `GenerationsComplete == Spec => []OldOrCompleteNew`,
  `EvidenceSurvives == Spec => []EvidenceKept` and
  `StoreImplementsLog == Spec => ImplementsGenerationLog`, from one invariant,
  `StoreInv`. It says of each process (`Knows`) that past the wait it holds the
  lock and that what it read, and after the rename what it wrote, is still
  there; a process about to clear the marker has evidence to show. It says of
  every survivor (`Files`) that its generation is whole, is a prefix of the
  visible lineage and no shorter than what was reported, and that it has a
  whole marker or has shown the last owed condition. The proof goes through one
  lemma per group of calls and one (`HolderStep`) that what one process does
  while it holds the lock leaves what the others know.

In `GuardedInstall_proofs.tla`, from `InstallAssumption` (the makers and the
lock's "free" are distinct from the runs, at least one save, naturals), for any
number of runs, saves, stops and power losses:

* `InstallTypeCorrect == Spec => []TypeOK`. Types include that a journal never
  needs a sixth record. That is not inductive by itself: `TypeInv` gives each
  journal state a rank on the longest way through `prepared`, `exchanged`,
  `parent_synced`, `reversed`, `finalized`, and bounds a record's generation by
  the rank of its state (`TransitionRanks`: a valid transition raises it).
* `NewestSaveSurvives == Spec => []NewestSaveKept`, by `KeptInv`. The two renames
  keep the newest save for a reason that needs two cases (`ExchangeIsSound`).
  While the newest save is the one a candidate was rendered from, *both* entries
  of the exchange carry it (`Paired`), so it does not matter which is discarded.
  Otherwise the entry put aside carries it (`Held`), and it is not what `finalize`
  disposes of, because an installed run displaced its own base (`Derived`) and
  any other run disposes of its candidate only.
* `CandidateStaysWhole == Spec => []CandidateWhole` and
  `InstalledStaysDurable == Spec => []InstalledIsDurable`, by `PlaceInv`: an
  entry is in one place (`Distinct`), a candidate that is anywhere but in its own
  directory is whole (`Whole`), and from the sync on the displaced entry is aside
  in every survivor (`Durable`).
* `ForeignIsJournaled == Spec => []DisplacedIsJournaled`, by `JournalInv`. Records
  alternate between the slots and each follows the one before (`Chained`), so that
  writing one leaves the other alone. What a run knows of its journal once a record is
  synced, and what holds of every survivor with a foreign entry, is `Legible`: both
  slots were written, or one is whole. `LegibleDecodes` is why that is enough: the
  only way to lose a legible journal is to tear both slots, which is what
  `BothUnsynced` excepts.
* `RefusedLeavesNoTrace == Spec => []NoTraceLeft`, by `TraceInv`. A candidate is in one
  place (`Once`), so a run whose candidate is in its own directory has it nowhere else
  (`AtHome`): that covers every exit before the exchange and every case in which
  recovery closes a run. The way back is harder, because the user may overwrite the
  candidate between the check and the rename, which then puts *his* entry into the
  directory. What carries the proof is that no directory holds the candidate from the
  check on (`OutOfPeers`, which needs the lock: another run's rename could move it
  there), so that what the rename puts back is not the candidate either way. From there
  (`TakenBack`) no other run can bring it back, and the directory sync of the finalized
  record leaves no survivor with it.
* `InstallImplementsStartupFile == Spec => ImplementsStartupFile`. The rename is
  `Exchange` or `Create` because an entry is in one place (`RenameStep`); the
  removal of a peer is `Discard` because of `Held` after the step
  (`DiscardingStep`); a power loss is `Lose`; what remains is a sync or unseen.

In `InstallRun_proofs.tla`, from `StoreAssumption` and `InstallRunAssumption` (the set
of runs is finite, the names of special values are no runs, the bounds are naturals),
for any number of overlapping installs and ingests, faults, edits and shell commits, one
invariant, `IInv`:

* `InstallTypesHold == Spec => []TypeOK`. A directory is made at most once by every run,
  which bounds the inode counters (`Counted`).
* `MainIsAlwaysReadable == Spec => []PublishedIsReadable` (of roots nobody began to
  remove),
  `ReportsAreTruthful == Spec => []ReportTruthful` and
  `FailureIsClean == Spec => []CleanFailureRestores`. `LocalInv` says for each call what
  the run remembers there. `RootInv` relates it to the root: who holds which lock, that
  `main` is the baseline of a run in its commit, and (`LineInv`) that a candidate is in
  the history of `main` only if its run reports it, asks for recovery, died, or is about
  to look. The last case is the lost reply: what the run sees when it looks is then
  neither its baseline nor something it could take for it. `TornInv` says who began to
  remove the root: a run that is at it, or died, or reports it, or failed before its
  initialization was complete. `TargetInv` adds that the
  startup file is the work of a run that answers for it, and so is every copy of it
  that a rollback may put back.
* `KeychainFollowsMain == Spec => []SecretsMatchMain`, by `SecretInv`: while a run has
  its secrets applied, the prior ones it would restore are those of the profile `main`
  points to.
* `LoaderOutlivesItsBlock == Spec => []LoaderOutlivesBlock`, with the exception of
  section 3, by `LoaderInv`, which says of every copy of the startup file that may come
  back what the property says of the file.

  A rename that displaces a late save is one case with those that do not
  (`RenameKeepsTarget`, `KillKeepsTarget`): what it leaves is the candidate of the run that
  holds the lock, or the capture that `TargetInv` already speaks of.

In `ProfileSwitch_proofs.tla`, for any identities, profiles, manifests, words and
starting environment, from the four assumptions of `ProfileSwitch` (kinds are
disjoint, `None` is no value, a manifest and the environment have values of each
identity's kind), with or without interrupts and for any number of edits:

* `SwitchTypes == Spec => []TypeOK`,
  `SavedIsReachable == Spec => []ReverseReachable` and
  `ZeroResidue == Spec => []NothingLeftBehind` (of what is not excused), from one
  invariant, `Inv`.
  `NothingLeftBehind` speaks of the end of a reverse only. `Recovers` is what must
  hold all the way to get there: a saved scalar, *as a restore would leave it now*,
  is the user's value, which is true whether he changed it or not; a slot holds the
  user's value; a base, if captured, is the user's list; what is not saved is
  already the user's; and so is what a running reverse is done with. `Reachable`
  ties that to where the loader is: while an apply runs, nothing it has left to do is
  saved; after a preflight every scalar still passes it; in a commit only what is
  left to do is saved. The lemma for each action has one case per identity, since
  only the one an operation touches changes.

* `ListsNeverAccumulate == Spec => []NoAccumulation`, by `ListInv`: the base that was
  captured is the user's own words, a list that no defined reverse has to restore holds
  nothing else, and what `Spliced` makes of a base is the words of one profile around it
  (`SplicedIsOnce`).
* `NobodyIsStranded == Spec => []NeverStranded`, by `PointerInv`: which of the two
  pointers and which markers are set at each step of a switch that is not interrupted.

In `ShellSync_proofs.tla`, from `ConstantsAssumption` and `ShellSyncAssumption` (the
special values are none of the others, the service keeps a receipt, there are enough
operation ids), for any number of terminals with their hooks, any edits and any
failures. A step of the hook is a conjunction with a handler of the service, so the
proofs stand on the invariants of the service (`Service`, from the modules above):

* `HookTypesHold == ShellSpec => []ShellTypeOK`, by `ShellInv`: `HookLocal` ties a
  terminal's variables to each other and to the service, and `AnswersInv` says what
  is in the receipts that a repeated request is answered from. `FreshOperation`
  counts the ids in use, so that a new request has a new one.
* `TransitionsAreOwned == ShellSpec => ReverseOwnsTransition`, by `RepliesInv`: a
  transition that is being evaluated was computed from the environment as it still
  is, its two patches lead to one target and back.
* `NeverFalselyConverged == ShellSpec => []NoFalseConvergence`, by `FaithInv`, for each
  terminal `JoinInv` (a terminal whose attach was served and not answered is as it
  was then, so that the repetition brings the capture the record was made of) and
  `SyncInv` (what a terminal that counts itself synchronized takes as its baseline
  it holds of a generation since the one it applied, or the service keeps).
* `PullsKeepEdits == ShellSpec => PullKeepsEdits`. `OwnsInv` is about the service:
  where a terminal was the last to change an identity, the generation has what the
  terminal was seen to hold or the service keeps the rest; and no event of the
  terminal's is newer than the target it is asked to reach. `AgreementInv` is about
  both, while nothing failed: they agree on the revision the terminal holds, and a
  transition that is evaluated or may be answered again from a receipt changes what
  others changed (`News`).

* `HookUsesService == ShellSpec => Spec`: every step of the hook, whatever is lost or
  fails, is a step of `Worktree` or leaves the service alone. So everything proved of the
  service, for terminals that may send anything, is proved of terminals with their hooks;
  `TerminalsShareLog == ShellSpec => ImplementsSharedLog /\ []ValidState /\
  NoStaleOverwrite` draws the three conclusions that matter most to them.

Two of these properties first said more, held in every run, and were false: the
attempts at a proof led to executions with two terminals, which TLC then confirmed.
`NoFalseConvergence` spoke of every name that may be shared; a name that one terminal
inherited and another admitted is shared and not among the first one's
(`SharedNames`). `PullKeepsEdits` did not except a terminal that compaction has
overtaken; the code then transfers the whole generation (`floor`).

What is only model-checked: `EveryTransactionEnds` and `Converges`, which are liveness.
The properties of the runs that expect a violation are refuted, not proved.

`ShellSync` says with `ENABLED` that a request is refused. The proofs take it as an
unknown condition, which safety allows: they hold whether or not the service could
have served the request.

## 6. Not modelled, and the plan

Text processing (parsing, printing of shell code, analysis, rendering), path and ownership
authentication, DTO codecs and test tooling are not modelled: they are single
calls whose correctness is a matter of strings or of one file-system call
sequence, with no protocol state. What could still be added:

1. The reconciler's shadowing rules as an algorithm.
2. Several terminals with their hooks at once. `ShellSync` has the parameter; two
   hooks are out of TLC's reach within the time the other runs take.
3. Proofs about the two steps by which levels are composed, below.

`ShellSync` is composed with `Worktree` by a proof (`HookUsesService`). The other levels
are composed by argument: that `GenerationLog` is the atomic step of `Worktree`, and that
`GuardedInstall`'s outcomes are those of `PromoteTarget` and `UndoTarget` in `InstallRun`.
What that argument needs of `GuardedInstall` is proved: an installed run displaced its
capture (`InstalledIsDurable`), one that did not install left no candidate
(`NoTraceLeft`), and a late save is displaced and never destroyed (`NewestSaveKept`).

Left to TLC: liveness, which needs `ENABLED`, and what a recursive definition
computes for every input. Recursion over data is avoided where it can be: `Replay` is
defined by choice of the last event that touches an identity, and where an argument
needs induction (`LeastNatural`) it takes the least counterexample instead.
