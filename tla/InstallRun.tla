------------------------------- MODULE InstallRun ------------------------------
(***************************************************************************)
(* `zsh-pro install` and `zsh-pro ingest` from start to end (core/cli/     *)
(* install.go, ingest.go, cache_directory_unix.go): one run changes the    *)
(* profile store, the cached loader and the startup file, ingest also      *)
(* publishes the profile, and every error takes back what came before it.  *)
(* Runs of several processes overlap; only the startup file is guarded by  *)
(* a lock for the whole of its change.  The user edits the startup file    *)
(* and a shell commits its worktree meanwhile.                             *)
(*                                                                         *)
(* GuardedInstall gives the steps of a target transaction; here a promote, *)
(* a rollback or a finalize is one step with the outcomes found there.     *)
(* Left out: parsing the source, and the two processes `zsh -n` and `git`  *)
(* as processes of their own.                                              *)
(***************************************************************************)
EXTENDS IngestStore

CONSTANTS
  User,     \* who edits the startup file
  MaxEdits  \* bound of the exploration: edits by the user and commits by shells

ASSUME InstallRunAssumption == User \notin Runs /\ Nobody # User /\ MaxEdits \in Nat

VARIABLES
  target,     \* the startup file: by whom, after which edit, with our block?
  targetLock, \* holder of the lock of the startup file
  cache,      \* the directory of the cached loader
  temps,      \* runs with a temporary file in that directory
  worktree,   \* the commit the worktree is materialized from
  run         \* run -> what its process remembers

callerVars == <<target, targetLock, cache, temps, worktree, run>>
vars == <<storeVars, callerVars>>

Kinds == {"install", "ingest"}
Loaders == {"none", "old"} \union Runs
Target == [by : Runs \union {User, Nobody}, edit : 0 .. MaxEdits, block : BOOLEAN]
MissingTarget == [by |-> Nobody, edit |-> 0, block |-> FALSE]
Candidate(r) == [by |-> r, edit |-> run[r].base.edit, block |-> TRUE]

(* promotion: what the target transaction is good for.                     *)
Promotions == {"none", "staged", "installed", "kept", "closed"}
Run == [kind : Kinds, base : Target, promotion : Promotions, startup : BOOLEAN,
        inode : 0 .. Cardinality(Runs) + 1, created : BOOLEAN, changed : BOOLEAN,
        saved : Loaders \union {"unsaved"}, promoted : BOOLEAN]
NewRun == [kind |-> "install", base |-> MissingTarget, promotion |-> "none", startup |-> FALSE,
           inode |-> 0, created |-> FALSE, changed |-> FALSE, saved |-> "unsaved",
           promoted |-> FALSE]

NoCache == [inode |-> 0, exists |-> FALSE, private |-> TRUE, loader |-> "none"]

(* A first install; a store whose user has no startup file, and a cache    *)
(* directory others may read; a later install.                             *)
Init ==
  /\ StoreInit
  /\ \/ ~tree.exists /\ target = [by |-> User, edit |-> 0, block |-> FALSE] /\ cache = NoCache
     \/ tree.exists /\ target = MissingTarget
        /\ cache = [inode |-> 1, exists |-> TRUE, private |-> FALSE, loader |-> "none"]
     \/ tree.exists /\ target = [by |-> User, edit |-> 0, block |-> TRUE]
        /\ cache = [inode |-> 1, exists |-> TRUE, private |-> TRUE, loader |-> "old"]
  /\ targetLock = Nobody /\ temps = {} /\ worktree = "none"
  /\ run = [r \in Runs |-> NewRun]

InStore == <<disk, locks, initialization, transaction>>
Caller(r, stage) == At(r, stage) /\ UNCHANGED InStore
Unlock(r) == targetLock' = IF targetLock = r THEN Nobody ELSE targetLock
Report(r, failed) == recovery' = [recovery EXCEPT ![r] = @ \/ failed]

--------------------------------------------------------------------------------
(* The way forward.                                                        *)

(* preflightAtomicRenameTarget tries the two renames in a directory of its *)
(* own, under the lock of the target.  Install reads the target first.     *)
Start(r) ==
  /\ Caller(r, "idle")
  /\ targetLock = Nobody
  /\ \E kind \in Kinds :
       run' = [run EXCEPT ![r].kind = kind,
                 ![r].base = IF kind = "install" THEN target ELSE @]
  /\ \/ Works /\ Goto(r, "inspect") /\ UNCHANGED recovery
     \/ Fault /\ Goto(r, "failed") /\ \E failed \in BOOLEAN : Report(r, failed)
  /\ UNCHANGED <<target, targetLock, cache, temps, worktree>>

(* validateInstallRootRelationship refuses roots that contain each other.  *)
RootsOverlap(r) ==
  /\ Caller(r, "begin")
  /\ Fault /\ Goto(r, "undo_store")
  /\ UNCHANGED <<callerVars, recovery>>

(* Ingest reads the target inside its transaction.                         *)
prepareIngestInstallAt(r) ==
  /\ Caller(r, "prepare")
  /\ \/ Works /\ run' = [run EXCEPT ![r].base = target] /\ Goto(r, "lock")
     \/ Fault /\ UNCHANGED run /\ Goto(r, "undo_target")
  /\ UNCHANGED <<target, targetLock, cache, temps, worktree, recovery>>

(* An error after the transaction directory was made needs recovery.       *)
prepareGuardedInstallTransaction(r) ==
  /\ Caller(r, IF run[r].kind = "ingest" THEN "lock" ELSE "begin")
  /\ UNCHANGED <<target, cache, temps, worktree>>
  /\ \/ /\ targetLock = Nobody /\ targetLock' = r
        /\ run' = [run EXCEPT ![r].promotion = "staged"]
        /\ Works /\ Goto(r, "cache") /\ UNCHANGED recovery
     \/ /\ Fault /\ UNCHANGED <<run, targetLock>>
        /\ \/ Goto(r, IF run[r].kind = "ingest" THEN "undo_target" ELSE "undo_store")
              /\ UNCHANGED recovery
           \/ FailUncertain(r)

Cached(r, stage) == Caller(r, stage) /\ UNCHANGED <<target, targetLock, worktree>>
Holds(r) == cache.exists /\ cache.inode = run[r].inode

secureCacheDirectory(r) ==
  /\ Cached(r, "cache")
  /\ \/ /\ cache' = IF cache.exists THEN cache
                    ELSE [cache EXCEPT !.exists = TRUE, !.private = TRUE, !.inode = @ + 1]
        /\ run' = [run EXCEPT ![r].inode = cache'.inode, ![r].created = ~cache.exists]
        /\ Works /\ Goto(r, "save")
     \/ Fault /\ UNCHANGED <<cache, run>> /\ Goto(r, "undo_target")
  /\ UNCHANGED <<temps, recovery>>

(* secureForWrite: the mode changes only when others have access.          *)
Secured(r) ==
  /\ cache' = IF Holds(r) THEN [cache EXCEPT !.private = TRUE] ELSE cache
  /\ run' = [run EXCEPT ![r].changed = Holds(r) /\ ~cache.private]

(* prepareLoaderRollback and prepareValidatedLoader: the present loader is *)
(* copied, and the new one written and tried beside it.                    *)
StageLoader(r) ==
  /\ Cached(r, "save")
  /\ \/ /\ Holds(r) /\ Works
        /\ cache' = [cache EXCEPT !.private = TRUE]
        /\ run' = [run EXCEPT ![r].changed = ~cache.private, ![r].saved = cache.loader]
        /\ temps' = temps \union {r} /\ Goto(r, "loader")
     \/ /\ Fails(~Holds(r)) /\ UNCHANGED temps /\ Goto(r, "undo_target")
        /\ \/ UNCHANGED <<cache, run>>
           \/ Secured(r)
  /\ UNCHANGED recovery

LoaderIgnored(r) == Goto(r, "target")
LoaderFailed(r) == Goto(r, "undo_target")

(* The sync after the rename may fail: the loader is then promoted.        *)
PromoteLoader(r) ==
  /\ Cached(r, "loader")
  /\ \/ /\ Holds(r) /\ cache' = [cache EXCEPT !.loader = r]
        /\ run' = [run EXCEPT ![r].promoted = TRUE]
        /\ temps' = IF run[r].saved = "none" THEN temps \ {r} ELSE temps
        /\ \/ Works /\ Goto(r, "target")
           \/ Fault /\ LoaderFailed(r)
     \/ Fails(~Holds(r)) /\ UNCHANGED <<cache, run, temps>> /\ LoaderFailed(r)
  /\ UNCHANGED recovery

Targeted(r, stage) == Caller(r, stage) /\ UNCHANGED <<cache, temps, worktree>>

UncertainUnreported(r) == run' = [run EXCEPT ![r].promotion = "kept"]
Uncertain(r) == run' = [run EXCEPT ![r].promotion = "kept", ![r].startup = TRUE]

(* The rename of promote: an exchange displaces whatever is there by then, *)
(* also a save made since the target was compared with the snapshot.       *)
Displaces(r) ==
  /\ At(r, "target")
  /\ target = run[r].base \/ run[r].base # MissingTarget
  /\ target' = Candidate(r)

(* promote: installed, refused (or reversed) because the target changed,   *)
(* uncertain before the rename, or after it: then the candidate stays, or  *)
(* the displaced save is back and the run does not know that it is.        *)
PromoteTarget(r) ==
  /\ Targeted(r, "target")
  /\ \/ /\ target = run[r].base /\ Works /\ target' = Candidate(r)
        /\ run' = [run EXCEPT ![r].promotion = "installed",
                              ![r].startup = run[r].kind = "ingest"]
        /\ Goto(r, IF run[r].kind = "ingest" THEN "validate" ELSE "finalize_store")
        /\ UNCHANGED <<targetLock, recovery>>
     \/ /\ Fails(target # run[r].base)
        /\ Goto(r, "undo_target") /\ UNCHANGED <<target, run, targetLock, recovery>>
     \/ /\ Fault /\ UNCHANGED target
        /\ run' = [run EXCEPT ![r].promotion = "kept"]
        /\ Report(r, TRUE)
        /\ \/ run[r].kind = "ingest" /\ Unlock(r) /\ Goto(r, "failed")
           \/ run[r].kind = "install" /\ UNCHANGED targetLock /\ Goto(r, "undo_loader")
     \/ /\ Fault
        /\ Displaces(r) \/ (run[r].base \notin {target, MissingTarget} /\ UNCHANGED target)
        /\ Uncertain(r) /\ Unlock(r) /\ FailUncertain(r)

ValidateTarget(r) ==
  /\ Targeted(r, "validate")
  /\ \/ target = Candidate(r) /\ Works /\ Goto(r, "claim")
     \/ Fails(target # Candidate(r)) /\ Goto(r, "undo_target")
  /\ UNCHANGED <<target, targetLock, run, recovery>>

(* What ingest makes of the outcome of CommitIngest: the target is kept    *)
(* when nobody knows whether the commit is published.                      *)
Committed(r) == At(r, "decided") /\ transaction[r].status = "committed"
Rejected(r) == At(r, "decided") /\ transaction[r].status # "committed"
retainTarget(r) == Rejected(r) /\ (transaction[r].status = "recovery" \/ transaction[r].recovery)

FinalizeTarget(r) ==
  /\ At(r, "finalize_target") \/ Committed(r)
  /\ UNCHANGED <<InStore, target, cache, worktree>>
  /\ Unlock(r)
  /\ \/ /\ Works /\ run' = [run EXCEPT ![r].promotion = "closed"]
        /\ \/ /\ run[r].kind = "ingest" /\ Goto(r, "finalize_store")
              /\ temps' = temps \ {r}
           \/ /\ run[r].kind = "install" /\ Goto(r, "ok")
              /\ temps' = temps \ {r}
        /\ UNCHANGED recovery
     \/ /\ Fault /\ run' = [run EXCEPT ![r].promotion = "kept"]
        /\ Report(r, TRUE)
        /\ \/ run[r].kind = "ingest" /\ Goto(r, "finalize_store") /\ temps' = temps \ {r}
           \/ run[r].kind = "install" /\ Goto(r, "failed") /\ UNCHANGED temps

(* finalizeInstallInitialization refuses a root that is another directory. *)
FinalizeStore(r) ==
  /\ Targeted(r, "finalize_store")
  /\ UNCHANGED <<target, targetLock, run>>
  /\ LET failed == ~validInstallInitialization(r) IN
     \/ /\ run[r].kind = "install"
        /\ Goto(r, IF failed THEN "undo_target" ELSE "finalize_target") /\ UNCHANGED recovery
     \/ /\ run[r].kind = "ingest"
        /\ Report(r, failed \/ transaction[r].recovery)
        /\ Goto(r, IF recovery'[r] THEN "failed" ELSE "materialize")
  /\ Works

(* Materialize, and the repair of a split when the worktree was already    *)
(* materialized: it needs main where ingest left it, and equal content.    *)
MaterializeCommittedWorktree(r) ==
  /\ Caller(r, "materialize")
  /\ UNCHANGED <<target, targetLock, cache, temps, run>>
  /\ \/ /\ worktree \in {"none", r} \/ tree.main = r
        /\ tree.exists /\ r \in tree.objects /\ Works /\ worktree' = r /\ Goto(r, "ok") /\ UNCHANGED recovery
     \/ /\ Fails(worktree # "none" \/ Broken \/ r \notin tree.objects)
        /\ UNCHANGED worktree /\ FailUncertain(r)

--------------------------------------------------------------------------------
(* The way back.                                                           *)

Stop(r) == FailUncertain(r)

(* The rename of rollback; a save made since the check is displaced too.   *)
Reverses(r) ==
  /\ At(r, "undo_target") \/ (Rejected(r) /\ ~retainTarget(r))
  /\ run[r].promotion = "installed" /\ run[r].base # MissingTarget
  /\ target' = run[r].base

(* rollback of the target transaction; any uncertainty, also one found     *)
(* after the rename, stops the way back.                                   *)
UndoTarget(r) ==
  /\ At(r, "undo_target") \/ Rejected(r)
  /\ UNCHANGED <<InStore, cache, temps, worktree>>
  /\ LET next == IF transaction[r].state = "active" THEN "abort" ELSE "undo_loader"
         promotion == IF retainTarget(r) THEN "kept" ELSE run[r].promotion
         undoable == run[r].base # MissingTarget /\ target = Candidate(r) IN
     \/ /\ promotion = "none" /\ Works
        /\ Goto(r, next) /\ UNCHANGED <<target, run, targetLock, recovery>>
     \/ /\ promotion = "staged" /\ Works
        /\ run' = [run EXCEPT ![r].promotion = "closed"]
        /\ Unlock(r) /\ Goto(r, next) /\ UNCHANGED <<target, recovery>>
     \/ /\ promotion = "installed" /\ undoable /\ Works
        /\ Reverses(r)
        /\ run' = [run EXCEPT ![r].promotion = "closed", ![r].startup = FALSE]
        /\ Unlock(r) /\ Goto(r, next) /\ UNCHANGED recovery
     \/ /\ promotion # "none"
        /\ Fails(promotion = "kept" \/ (promotion = "installed" /\ ~undoable))
        /\ UNCHANGED target /\ run' = [run EXCEPT ![r].promotion = "kept"]
        /\ Unlock(r) /\ Stop(r)
     \/ /\ Reverses(r) /\ Fault
        /\ run' = [run EXCEPT ![r].promotion = "kept"]
        /\ Unlock(r) /\ Stop(r)

(* rollbackPromotedCache: the loader is put back whoever wrote it last.    *)
(* Here and below the call may fail after its rename, unlink or chmod.     *)
RestoredLoader(r) == IF Holds(r) THEN [cache EXCEPT !.loader = run[r].saved] ELSE cache

UndoLoader(r) ==
  /\ Cached(r, "undo_loader")
  /\ UNCHANGED run
  /\ \/ /\ ~run[r].promoted /\ Works
        /\ temps' = temps \ {r} /\ Goto(r, "undo_cache") /\ UNCHANGED <<cache, recovery>>
     \/ /\ run[r].promoted /\ Works
        /\ cache' = RestoredLoader(r)
        /\ temps' = temps \ {r} /\ Goto(r, "undo_cache") /\ UNCHANGED recovery
     \/ /\ run[r].promoted /\ Fault /\ Report(r, TRUE)
        /\ Goto(r, IF run[r].kind = "ingest" THEN "failed" ELSE "undo_cache")
        /\ \/ cache' = RestoredLoader(r) /\ temps' = temps \ {r}
           \/ /\ UNCHANGED cache
              /\ temps' = IF run[r].kind = "ingest" THEN temps ELSE temps \ {r}

Removable == cache.loader = "none" /\ temps = {}
RestoredCache(r) ==
  \/ ~run[r].created /\ ~run[r].changed /\ UNCHANGED cache
  \/ /\ run[r].changed
     /\ cache' = IF Holds(r) THEN [cache EXCEPT !.private = FALSE] ELSE cache
  \/ /\ run[r].created /\ (~cache.exists \/ (Holds(r) /\ Removable))
     /\ cache' = [cache EXCEPT !.exists = FALSE]

UndoCache(r) ==
  /\ Cached(r, "undo_cache")
  /\ UNCHANGED <<run, temps>>
  /\ \/ Works /\ RestoredCache(r) /\ Goto(r, "undo_store") /\ UNCHANGED recovery
     \/ /\ run[r].created \/ run[r].changed
        /\ \/ Fault /\ RestoredCache(r)
           \/ /\ Fails(run[r].created /\ cache.exists /\ ~(Holds(r) /\ Removable))
              /\ UNCHANGED cache
        /\ Report(r, TRUE)
        /\ Goto(r, IF run[r].kind = "ingest" THEN "failed" ELSE "undo_store")

EndsRun(r) == pc'[r] \in {"ok", "failed"}

--------------------------------------------------------------------------------
(* A step of the store; a run that ends in it closes its target handles.   *)
StoreStep(r) ==
  /\ At(r, "begin") => run[r].kind = "ingest"
  /\ StoreCall(r)
  /\ IF EndsRun(r) THEN Unlock(r) ELSE UNCHANGED targetLock
  /\ UNCHANGED <<target, cache, temps, worktree, run>>

TakingBack == {"abort", "undo_loader", "undo_cache", "undo_store", "removing"}

(* What the process remembers is gone with it; whether it was taking its   *)
(* loader back is kept for LoaderBeforeBlock.  A rename it has just done   *)
(* stays.                                                                  *)
Kill(r) ==
  /\ KillStore(r) /\ Unlock(r)
  /\ run' = [run EXCEPT ![r] = [NewRun EXCEPT !.promoted = run[r].promoted /\ pc[r] \in TakingBack]]
  /\ UNCHANGED target \/ Displaces(r) \/ Reverses(r)
  /\ UNCHANGED <<cache, temps, worktree>>

Forward(r) ==
  Start(r) \/ RootsOverlap(r) \/ prepareIngestInstallAt(r)
  \/ prepareGuardedInstallTransaction(r) \/ secureCacheDirectory(r) \/ StageLoader(r)
  \/ PromoteLoader(r) \/ PromoteTarget(r) \/ ValidateTarget(r) \/ FinalizeTarget(r)
  \/ FinalizeStore(r) \/ MaterializeCommittedWorktree(r)
Backward(r) == UndoTarget(r) \/ UndoLoader(r) \/ UndoCache(r)

Meanwhile == target.edit + Cardinality(tree.objects \intersect {"moved"})

(* The saves the file or a run still has: the next one is none of them.    *)
Remembered == {target.edit} \union {run[r].base.edit : r \in Runs}

UserEdits ==
  /\ Meanwhile < MaxEdits
  /\ \E save \in (1 .. MaxEdits) \ Remembered :
       target' = [target EXCEPT !.by = User, !.edit = save]
  /\ UNCHANGED <<storeVars, targetLock, cache, temps, worktree, run>>

(* A shell materializes the worktree where main is, and commits it.        *)
ShellCommits ==
  /\ Meanwhile < MaxEdits
  /\ worktree \in {"none", tree.main}
  /\ CommitWorktree /\ worktree' = "moved"
  /\ UNCHANGED <<target, targetLock, cache, temps, run>>

Ended == {"ok", "failed", "dead"}
Over == (\A r \in Runs : pc[r] \in Ended) /\ UNCHANGED vars

Next ==
  \/ \E r \in Runs : Forward(r) \/ Backward(r) \/ StoreStep(r) \/ Kill(r)
  \/ UserEdits \/ ShellCommits \/ Over

Spec == Init /\ [][Next]_vars

--------------------------------------------------------------------------------
TypeOK ==
  /\ StoreTypeOK
  /\ target \in Target /\ targetLock \in Runs \union {Nobody}
  /\ cache \in [inode : 0 .. Cardinality(Runs) + 1, exists : BOOLEAN, private : BOOLEAN,
                loader : Loaders]
  /\ temps \subseteq Runs /\ worktree \in Commits
  /\ run \in [Runs -> Run]

(* A run that fails and asks for no recovery has left no trace where the   *)
(* user would meet it: its startup file, its commit (from the history of   *)
(* main), its secrets and its quarantine are all gone, whatever the other  *)
(* runs, the user and the shells did between its steps                     *)
(* (compensatePreCommitFilesystemFirst).  Nor has it left the store root   *)
(* half removed, unless it failed so early that the error of its rollback  *)
(* is no more than a part of its message (installInitializationError).     *)
CleanFailureRestores ==
  \A r \in Runs : pc[r] = "failed" /\ ~recovery[r] =>
    /\ target.by # r /\ r \notin tree.line /\ secrets # r /\ r \notin quarantines
    /\ run[r].promotion \in {"none", "closed"}
    /\ r \in tree.torn => initialization[r].state = "none"

(* Ingest tells the truth: when it asks for no recovery, it reports        *)
(* success only when main pointed to its commit, and failure only when     *)
(* main does not have it in its history; and when it denies having         *)
(* installed the startup file, that file is not the one it wrote.          *)
ReportTruthful ==
  \A r \in Runs :
    /\ ~recovery[r] /\ run[r].kind = "ingest" =>
         /\ pc[r] = "ok" => r \in landed
         /\ pc[r] = "failed" => r \notin tree.line
    /\ pc[r] = "failed" /\ run[r].kind = "ingest" /\ ~run[r].startup => target.by # r

(* A run takes back its loader, its cache or its store only when the       *)
(* startup file that would source the loader is not its own.               *)
FilesystemFirst == \A r \in Runs : pc[r] \in TakingBack => target.by # r

(* On the way forward: a startup file gets its block only after the loader *)
(* is there ("Loader promotion precedes .zshrc promotion").  Executions in *)
(* which a run that promoted its loader is taking back, has failed or died *)
(* so are excepted, because in them the present code does leave a block    *)
(* without a loader: it takes the loader back after the lock of the target *)
(* was given up, under the feet of a run that has it by then.              *)
Kept(r) == run[r].promoted => pc[r] \notin TakingBack \union {"failed", "dead"}
LoaderBeforeBlock ==
  (\A r \in Runs : Kept(r)) /\ target.block => cache.exists /\ cache.loader # "none"

(* Of one run's own file and loader: forward, the file is promoted after   *)
(* the loader; backward ("Filesystem first"), the loader goes only once the *)
(* file is not its own (install.go, ingest.go).  It does not say that a    *)
(* startup file never points at an unavailable loader: a run that takes    *)
(* back may remove the loader another run's file sources.                  *)
LoaderOutlivesBlock == FilesystemFirst /\ LoaderBeforeBlock
===============================================================================
