---------------------------- MODULE InstallRun_proofs --------------------------
(***************************************************************************)
(* What install and ingest promise for any number of overlapping runs,     *)
(* faults, edits of the user and commits of the shells.                    *)
(***************************************************************************)
EXTENDS InstallRun, FiniteSetTheorems, TLAPS

--------------------------------------------------------------------------------
(* The invariant: types, and four relations between the runs and what they *)
(* share.                                                                  *)

Inodes == 0 .. Cardinality(Runs) + 1
Stages ==
  {"idle", "inspect", "create", "git_init", "seed", "seed_ref", "seal", "begin",
   "quarantine", "prepare", "lock", "cache", "save", "loader", "target", "validate", "claim",
   "authority", "root_lock", "candidate", "session", "secrets", "publish", "commit", "observe",
   "guard", "guarded", "cleanup", "decided", "finalize_target", "finalize_store", "materialize",
   "undo_target", "abort", "undo_loader", "undo_cache", "undo_store", "removing",
   "ok", "failed", "dead"}

Initialization ==
  [state : {"none", "open"}, created : BOOLEAN, restore : BOOLEAN,
   inode : Inodes, seal : Trees]
Transaction ==
  [state : Lifecycles, baseline : Commits, prior : {"none"} \union Runs, status : Statuses,
   recovery : BOOLEAN]
Caches == [inode : Inodes, exists : BOOLEAN, private : BOOLEAN, loader : Loaders]

RootTypes ==
  /\ tree \in Trees
  /\ secrets \in {"none"} \union Runs
  /\ quarantines \in SUBSET Runs /\ landed \in SUBSET Runs
  /\ rootLock \in Runs \union {Nobody} /\ refLock \in Runs \union {Nobody}
ProcessTypes ==
  /\ initialization \in [Runs -> Initialization]
  /\ transaction \in [Runs -> Transaction]
  /\ pc \in [Runs -> Stages]
  /\ recovery \in [Runs -> BOOLEAN]
  /\ faults \in 0 .. MaxFaults
CallerTypes ==
  /\ target \in Target /\ targetLock \in Runs \union {Nobody}
  /\ cache \in Caches
  /\ temps \in SUBSET Runs /\ worktree \in Commits
  /\ run \in [Runs -> Run]

(* A directory is made at most once by every run: the counters of the root *)
(* and of the cache directory are bounded by the runs that are past the    *)
(* call that makes it.                                                     *)
NotYetRooted == {"idle", "inspect", "create", "git_init"}
NotYetCached == NotYetRooted \union
  {"seed", "seed_ref", "seal", "begin", "quarantine", "prepare", "lock", "cache"}
Past(stages) == {r \in Runs : pc[r] \notin stages}
Counted ==
  /\ inode \in Nat /\ inode <= 1 + Cardinality(Past(NotYetRooted))
  /\ cache.inode <= 1 + Cardinality(Past(NotYetCached))

(* What a run remembers at each of its calls: the state and the outcome of *)
(* its ingest transaction (t), whether its quarantine is there (q), and    *)
(* what it asks of the user (rec).                                         *)
Early == {"idle", "inspect", "create", "git_init", "seed", "seed_ref", "seal", "begin"}
Staged == {"cache", "save", "loader", "target"}
Preparing ==
  {"quarantine", "prepare", "lock"} \union Staged \union {"validate", "claim", "undo_target", "abort"}
Trying == {"authority", "root_lock"} \union InCommit
Undoings == {"undo_loader", "undo_cache", "undo_store", "removing"}

Fresh(t) == t.status # "committed" /\ ~t.recovery
LocalTransaction(p, k, t, q, rec) ==
  /\ p \in Early => t = NewTransaction /\ ~q
  /\ p = "quarantine" => t.state = "provisional" /\ ~q
  /\ p \in {"prepare", "lock", "validate", "claim", "abort"} => t.state = "active" /\ k = "ingest"
  /\ p \in Staged \union {"undo_target"} => t.state = IF k = "ingest" THEN "active" ELSE "none"
  /\ p \in Trying \union {"cleanup"} => t.state = "committing" /\ k = "ingest" /\ ~t.recovery
  /\ p = "decided" => t.state = "terminal" /\ k = "ingest"
  /\ p \in Preparing => t.status = "none" /\ ~t.recovery
  /\ p \in Trying => t.status = "none"
  /\ p \in Undoings => Fresh(t) /\ ~q
  /\ p = "finalize_store" => IF k = "ingest" THEN t.status = "committed" ELSE t.state = "none"
  /\ p = "finalize_target" => k = "install"
  /\ k = "install" /\ p # "dead" => t = NewTransaction /\ ~q
  /\ p = "materialize" => k = "ingest" /\ t.status = "committed"
  /\ p = "ok" /\ k = "ingest" => t.status = "committed"
  /\ p = "failed" /\ ~rec => Fresh(t) /\ ~q
  /\ p = "decided" /\ ~t.recovery => ~q
  /\ p = "dead" => t = NewTransaction
  /\ p \in {"cleanup", "decided"} => t.status # "none"
  /\ q => t.state \in {"active", "committing"} \/ t.recovery \/ p = "dead" \/ rec

(* The same for its transaction on the startup file and for the loader.    *)
LocalTarget(p, x, rec) ==
  /\ p \in Early \union {"quarantine", "prepare", "lock", "dead"} => x.promotion = "none"
  /\ p \in Staged => x.promotion = "staged"
  /\ p \in {"validate", "claim", "cleanup", "decided", "finalize_target"} \union Trying =>
       x.promotion = "installed"
  /\ p = "undo_target" => x.promotion \in {"none", "staged", "installed"}
  /\ p = "finalize_store" =>
       x.promotion \in (IF x.kind = "ingest" THEN {"closed", "kept"} ELSE {"installed"})
  /\ p \in {"materialize", "ok"} => x.promotion \in {"closed", "kept"}
  /\ p \in Undoings \union {"abort", "failed"} =>
       x.promotion \in {"none", "closed"} \/ (rec /\ x.promotion = "kept")
  /\ x.promotion = "installed" /\ x.kind = "ingest" => x.startup
  /\ p = "target" => x.promoted
  /\ p = "loader" => x.saved # "unsaved"
  /\ x.promoted /\ p # "dead" => x.saved # "unsaved"

Local(r) ==
  /\ LocalTransaction(pc[r], run[r].kind, transaction[r], r \in quarantines, recovery[r])
  /\ LocalTarget(pc[r], run[r], recovery[r])
LocalInv == \A r \in Runs : Local(r)

(* The locks and main.  The candidate of a run is in the history of main   *)
(* only if somebody knows: the run reports it, was told to recover or is   *)
(* dead, or it is about to look.  The last disjunct of LineInv is why a    *)
(* run whose reply was lost cannot deny a commit: main, once it left the   *)
(* candidate, went to a worktree commit that was not the baseline.  Main   *)
(* and its objects part only in a root some run began to remove; TornInv   *)
(* says what becomes of such a run.                                        *)
Sessions == {"secrets", "publish", "commit"}
Applied == {"publish", "commit", "observe", "guard", "guarded"}
Known(r) == pc[r] = "dead" \/ transaction[r].status = "committed" \/ transaction[r].recovery

LockInv ==
  /\ \A r \in Runs : (rootLock = r) <=> (pc[r] \in InCommit)
  /\ \A r \in Runs : refLock = r => pc[r] \in Sessions \union {"guarded"}
  /\ refLock # Nobody => tree.exists
TreeInv ==
  /\ ~tree.exists => tree.main = "none" /\ tree.objects = {} /\ tree.line = {} /\ tree.torn = {}
  /\ tree.main # "none" => tree.main \in tree.objects \/ tree.torn # {}
  /\ tree.main \in Runs => tree.main \in tree.line
  /\ tree.line \subseteq landed
SessionInv == \A r \in Runs :
  refLock = r /\ pc[r] = "commit" => r \in tree.objects \/ tree.torn # {}
LineInv == \A r \in Runs :
  /\ r \in tree.line =>
       Known(r) \/ (/\ pc[r] = "observe"
                    /\ tree.main = r \/ (tree.main = "moved" /\ transaction[r].baseline # "moved"))
  /\ transaction[r].status = "committed" => r \in landed
  /\ transaction[r].baseline # r
RootInv == LockInv /\ TreeInv /\ SessionInv /\ LineInv
TornInv == \A r \in tree.torn :
  \/ pc[r] \in {"removing", "dead"}
  \/ pc[r] = "failed" /\ (recovery[r] \/ initialization[r].state = "none")

(* The keychain.  While a run has its secrets applied they are there, and  *)
(* the prior it would restore is that of a profile somebody knows; as long *)
(* as nobody was told to recover or died, they follow main.                *)
Told == \E r \in Runs : pc[r] = "dead" \/ transaction[r].recovery
SecretInv ==
  /\ \A r \in Runs : pc[r] \in Applied => secrets = r
  /\ \A r \in Runs : secrets = r => Known(r) \/ pc[r] \in Applied
  /\ \A u, r \in Runs : pc[u] \in Applied /\ transaction[u].prior = r => Known(r)
  /\ ~Told /\ tree.main \in Runs =>
       /\ \A u \in Runs : pc[u] \in Applied => tree.main = u \/ transaction[u].prior = tree.main
       /\ (\A u \in Runs : pc[u] \notin Applied) => secrets = tree.main

(* The startup file is the work of a run that has it installed or answers  *)
(* for it, and so is the copy another run would put back.                  *)
Settled(r) ==
  \/ pc[r] = "dead"
  \/ /\ run[r].kind = "ingest" => run[r].startup
     /\ \/ pc[r] = "failed" /\ recovery[r]
        \/ pc[r] \in {"finalize_store", "materialize", "ok"} /\ run[r].promotion # "installed"
TargetInv ==
  /\ \A r \in Runs : run[r].promotion \in {"staged", "installed"} => targetLock = r
  /\ \A r \in Runs : target.by = r => run[r].promotion = "installed" \/ Settled(r)
  /\ \A u, r \in Runs : run[u].promotion = "installed" /\ run[u].base.by = r => Settled(r)

(* While every run keeps its loader, the startup file and every copy of it *)
(* that may come back find one.                                            *)
LoaderInv ==
  /\ cache.loader # "none" => cache.exists
  /\ (\A r \in Runs : Kept(r)) =>
       /\ target.block => cache.loader # "none"
       /\ \A r \in Runs : run[r].base.block \/ run[r].promoted => cache.loader # "none"

IInv ==
  /\ RootTypes /\ ProcessTypes /\ CallerTypes /\ Counted
  /\ LocalInv /\ RootInv /\ TornInv /\ SecretInv /\ TargetInv /\ LoaderInv

--------------------------------------------------------------------------------
(* Types                                                                   *)

(* The named values are distinct and the set of runs is finite.            *)
LEMMA Distinct ==
  /\ Nobody \notin Runs /\ User \notin Runs /\ User # Nobody
  /\ "none" \notin Runs /\ "init" \notin Runs /\ "moved" \notin Runs /\ "old" \notin Runs
  /\ "unsaved" \notin Runs
  /\ MaxFaults \in Nat /\ MaxEdits \in Nat /\ IsFiniteSet(Runs)
  /\ Cardinality(Runs) \in Nat
  BY FS_CardinalityType, StoreAssumption, InstallRunAssumption

(* The values the store starts with have the types of its records.         *)
LEMMA RecordTypes ==
  /\ Absent \in Trees /\ Bare \in Trees /\ Seeded(TRUE) \in Trees /\ Seeded(FALSE) \in Trees
  /\ NewTransaction \in Transaction
  /\ tree \in Trees => Contents \in Trees
  BY DEF Contents, Absent, Bare, Seeded, Trees, Commits, NewTransaction, Transaction, Lifecycles, Statuses

(* The calls of the store preserve the types of what is on disk and of what*)
(* the processes remember; first InitForInstall.                           *)
LEMMA InitForInstallTypes ==
  ASSUME RootTypes, ProcessTypes, inode \in Inodes, NEW r \in Runs, InitForInstall(r)
  PROVE  RootTypes' /\ ProcessTypes'
  <1>. USE DEF Opening, At, Goto, Works, disk, locks
  <1>1. CASE Inspect(r)
    <2>1. RootTypes'
      BY <1>1 DEF Inspect, RootTypes
    <2>. DEFINE new == [initialization[r] EXCEPT !.created = ~tree.exists, !.inode = inode,
                          !.restore = tree.exists /\ ~tree.private]
    <2>2. new \in Initialization
      <3>1. (~tree.exists) \in BOOLEAN /\ (tree.exists /\ ~tree.private) \in BOOLEAN
        OBVIOUS
      <3>2. \A created, restore \in BOOLEAN :
              [initialization[r] EXCEPT !.created = created, !.inode = inode, !.restore = restore]
                \in Initialization
        BY DEF ProcessTypes, Initialization
      <3>3. QED
        BY <3>1, <3>2
    <2>3. initialization' = [initialization EXCEPT ![r] = new]
      BY <1>1 DEF Inspect
    <2>. HIDE DEF new
    <2>4. ProcessTypes'
      BY <1>1, <2>2, <2>3 DEF Inspect, ProcessTypes, Stages
    <2>5. QED
      BY <2>1, <2>4
  <1>2. CASE Create(r)
    <2>1. tree' \in Trees
      BY <1>2 DEF Create, RootTypes, Trees
    <2>2. pc' \in [Runs -> Stages]
      BY <1>2 DEF Create, ProcessTypes, Stages
    <2>3. QED
      BY <1>2, <2>1, <2>2 DEF Create, RootTypes, ProcessTypes
  <1>3. CASE GitInit(r)
    BY <1>3, RecordTypes DEF GitInit, RootTypes, ProcessTypes, Trees, Stages
  <1>4. CASE Seed(r)
    BY <1>4 DEF Seed, RootTypes, ProcessTypes, Trees, Stages
  <1>5. CASE SeedRef(r)
    BY <1>5 DEF SeedRef, RootTypes, ProcessTypes, Trees, Stages, Commits
  <1>6. CASE Seal(r)
    <2>. DEFINE new == [initialization[r] EXCEPT !.state = "open", !.inode = inode,
                          !.seal = IF initialization[r].created THEN Contents ELSE Absent]
    <2>1. new \in Initialization
      BY RecordTypes DEF ProcessTypes, Initialization, RootTypes
    <2>2. initialization' = [initialization EXCEPT ![r] = new]
      BY <1>6 DEF Seal
    <2>. HIDE DEF new
    <2>3. QED
      BY <1>6, <2>1, <2>2 DEF Seal, RootTypes, ProcessTypes, Stages
  <1>7. CASE InspectFails(r)
    BY <1>7, Distinct DEF InspectFails, RootTypes, ProcessTypes, Stages, Fails, Fault
  <1>8. CASE InitFails(r)
    BY <1>8, Distinct DEF InitFails, RootTypes, ProcessTypes, Stages, Fails, Fault
  <1>9. QED
    BY <1>1, <1>2, <1>3, <1>4, <1>5, <1>6, <1>7, <1>8 DEF InitForInstall

(* A fault is counted up to its bound.                                     *)
LEMMA FaultTypes ==
  ASSUME faults \in 0 .. MaxFaults
  PROVE  /\ Fault => faults' \in 0 .. MaxFaults
         /\ \A forced : Fails(forced) => faults' \in 0 .. MaxFaults
         /\ Works => faults' \in 0 .. MaxFaults
  BY Distinct DEF Fault, Fails, Works

(* Rollback of an initialization preserves the types.                      *)
LEMMA RollbackTypes ==
  ASSUME RootTypes, ProcessTypes, NEW r \in Runs, RollbackInitialization(r)
  PROVE  RootTypes' /\ ProcessTypes'
  <1>. USE DEF Undoing, Own, At, Goto
  <1>f. faults' \in 0 .. MaxFaults
    BY FaultTypes DEF RollbackInitialization, RollbackRefused, RestoreMode, CompareTree,
       RemoveTree, RemoveEntry, RemoveRoot, RemoveFails, ProcessTypes
  <1>e. ASSUME NEW failed \in BOOLEAN, EndUndo(r, failed)
        PROVE  recovery' \in [Runs -> BOOLEAN] /\ pc' \in [Runs -> Stages]
    <2>1. (recovery[r] \/ (failed /\ initialization[r].state = "open")) \in BOOLEAN
      OBVIOUS
    <2>2. QED
      BY <1>e, <2>1 DEF EndUndo, ProcessTypes, Stages
  <1>1. CASE RollbackRefused(r)
    BY <1>1, <1>e, <1>f DEF RollbackRefused, RootTypes, ProcessTypes
  <1>2. CASE RestoreMode(r)
    BY <1>2, <1>e, <1>f DEF RestoreMode, RootTypes, ProcessTypes, Trees
  <1>3. CASE CompareTree(r)
    BY <1>3, <1>e, <1>f DEF CompareTree, RootTypes, ProcessTypes, Stages
  <1>4. CASE RemoveEntry(r)
    <2>1. tree' \in Trees
      <3>1. ASSUME NEW objects \in SUBSET Commits, NEW main \in Commits, NEW line \in SUBSET Runs,
                   NEW torn \in SUBSET Runs
            PROVE  /\ [tree EXCEPT !.torn = torn, !.objects = objects] \in Trees
                   /\ [tree EXCEPT !.torn = torn, !.main = main, !.line = line] \in Trees
                   /\ [tree EXCEPT !.torn = torn] \in Trees
        BY DEF RootTypes, Trees
      <3>. DEFINE torn == tree.torn \union {r}
      <3>2. /\ torn \in SUBSET Runs /\ "none" \in Commits /\ {} \in SUBSET Runs
            /\ tree.line \in SUBSET Runs
            /\ \A commit : tree.objects \ {commit} \in SUBSET Commits
        BY DEF RootTypes, Trees, Commits
      <3>3. \/ \E commit \in tree.objects :
                 tree' = [tree EXCEPT !.torn = torn, !.objects = tree.objects \ {commit}]
            \/ tree' = [tree EXCEPT !.torn = torn, !.main = "none", !.line = {}]
            \/ tree' = [tree EXCEPT !.torn = torn, !.main = "none", !.line = tree.line]
            \/ tree' = [tree EXCEPT !.torn = torn]
        BY <1>4 DEF RemoveEntry, RootTypes, Trees
      <3>. HIDE DEF torn
      <3>4. \A objects \in SUBSET Commits : [tree EXCEPT !.torn = torn, !.objects = objects] \in Trees
        BY <3>1, <3>2
      <3>5. \A line \in SUBSET Runs : [tree EXCEPT !.torn = torn, !.main = "none", !.line = line] \in Trees
        BY <3>1, <3>2
      <3>6. [tree EXCEPT !.torn = torn] \in Trees
        BY <3>1, <3>2
      <3>7. QED
        BY <3>2, <3>3, <3>4, <3>5, <3>6
    <2>2. refLock' \in Runs \union {Nobody} /\ pc' \in [Runs -> Stages]
      BY <1>4 DEF RemoveEntry, RootTypes, ProcessTypes, Stages
    <2>3. QED
      BY <1>4, <1>f, <2>1, <2>2 DEF RemoveEntry, RootTypes, ProcessTypes
  <1>5. CASE RemoveRoot(r) \/ RemoveFails(r)
    BY <1>5, <1>e, <1>f, RecordTypes DEF RemoveRoot, RemoveFails, RootTypes, ProcessTypes
  <1>6. QED
    BY <1>1, <1>2, <1>3, <1>4, <1>5 DEF RollbackInitialization, RemoveTree

(* BeginIngest and AbortIngest preserve the types.                         *)
LEMMA BeginTypes ==
  ASSUME RootTypes, ProcessTypes, NEW r \in Runs, BeginIngest(r) \/ AbortIngest(r) \/ AbortFails(r)
  PROVE  RootTypes' /\ ProcessTypes'
  <1>. USE DEF Calling, Own, At, Goto, SetTransaction, Fail, FailUncertain
  <1>f. faults' \in 0 .. MaxFaults
    BY FaultTypes DEF BeginIngest, reserveIngestTransaction, BeginFails, BeginUncertain,
       createIngestQuarantine, AbortIngest, AbortFails, ProcessTypes
  <1>1. CASE reserveIngestTransaction(r)
    <2>1. [NewTransaction EXCEPT !.state = "provisional", !.baseline = tree.main] \in Transaction
      BY RecordTypes DEF RootTypes, Trees, Transaction, Lifecycles
    <2>2. QED
      BY <1>1, <1>f, <2>1 DEF reserveIngestTransaction, RootTypes, ProcessTypes, Stages
  <1>t. ASSUME NEW state \in Lifecycles, NEW status \in Statuses, NEW unclean \in BOOLEAN
        PROVE  /\ [transaction[r] EXCEPT !.state = state] \in Transaction
               /\ [transaction[r] EXCEPT !.state = state, !.status = status] \in Transaction
               /\ [transaction[r] EXCEPT !.state = state, !.status = status, !.recovery = unclean] \in Transaction
    <2>1. transaction[r] \in Transaction
      BY DEF ProcessTypes
    <2>2. [transaction[r] EXCEPT !.state = state] \in Transaction
      BY <2>1 DEF Transaction
    <2>3. [transaction[r] EXCEPT !.state = state, !.status = status] \in Transaction
      BY <2>1 DEF Transaction
    <2>4. [transaction[r] EXCEPT !.state = state, !.status = status, !.recovery = unclean] \in Transaction
      BY <2>1 DEF Transaction
    <2>5. QED
      BY <2>2, <2>3, <2>4
  <1>l. "terminal" \in Lifecycles /\ "active" \in Lifecycles /\ "not_committed" \in Statuses
    BY DEF Lifecycles, Statuses
  <1>2. CASE BeginFails(r)
    BY <1>2, <1>f, <1>t, <1>l DEF BeginFails, terminalizeBeginFailure, RootTypes, ProcessTypes,
       Stages
  <1>3. CASE BeginUncertain(r)
    BY <1>3, <1>f, <1>t, <1>l DEF BeginUncertain, terminalizeBeginFailure, RootTypes,
       ProcessTypes, Stages
  <1>4. CASE createIngestQuarantine(r)
    BY <1>4, <1>f, <1>t, <1>l DEF createIngestQuarantine, RootTypes, ProcessTypes, Stages
  <1>5. CASE AbortIngest(r)
    BY <1>5, <1>f, <1>t, <1>l DEF AbortIngest, RootTypes, ProcessTypes, Stages
  <1>6. CASE AbortFails(r)
    <2>1. [transaction[r] EXCEPT !.state = "terminal", !.status = "not_committed", !.recovery = TRUE]
            \in Transaction
      BY <1>t, <1>l
    <2>2. QED
      BY <1>6, <1>f, <2>1 DEF AbortFails, RootTypes, ProcessTypes, Stages
  <1>7. QED
    BY <1>1, <1>2, <1>3, <1>4, <1>5, <1>6 DEF BeginIngest

(* However CommitIngest decides, the process goes to its end.              *)
LEMMA DecideTypes ==
  ASSUME RootTypes, ProcessTypes, NEW r \in Runs, NEW status \in Statuses, NEW uncertain \in BOOLEAN,
         Decide(r, status, uncertain)
  PROVE  /\ transaction' \in [Runs -> Transaction] /\ pc' \in [Runs -> Stages]
         /\ rootLock' \in Runs \union {Nobody} /\ refLock' \in Runs \union {Nobody}
  <1>. DEFINE t == [transaction[r] EXCEPT !.status = status, !.recovery = @ \/ uncertain,
                      !.state = IF uncertain THEN "terminal" ELSE @]
  <1>1. t \in Transaction
    <2>1. transaction[r] \in Transaction /\ (transaction[r].recovery \/ uncertain) \in BOOLEAN
      BY DEF ProcessTypes
    <2>2. \A state \in Lifecycles, unclean \in BOOLEAN :
            [transaction[r] EXCEPT !.status = status, !.recovery = unclean, !.state = state] \in Transaction
      BY <2>1 DEF Transaction
    <2>3. (IF uncertain THEN "terminal" ELSE transaction[r].state) \in Lifecycles
      BY <2>1 DEF Transaction, Lifecycles
    <2>4. QED
      BY <2>1, <2>2, <2>3
  <1>2. transaction' = [transaction EXCEPT ![r] = t]
    BY DEF Decide, Outcome, SetTransaction
  <1>. HIDE DEF t
  <1>3. QED
    BY <1>1, <1>2 DEF Decide, Goto, RootTypes, ProcessTypes, Stages

Ends(r) == \E status \in Statuses : Decide(r, status, TRUE) \/ Decide(r, status, FALSE)

(* The same for every outcome.                                             *)
LEMMA EndsTypes ==
  ASSUME RootTypes, ProcessTypes, NEW r \in Runs, Ends(r)
  PROVE  /\ transaction' \in [Runs -> Transaction] /\ pc' \in [Runs -> Stages]
         /\ rootLock' \in Runs \union {Nobody} /\ refLock' \in Runs \union {Nobody}
  <1>1. PICK status \in Statuses : Decide(r, status, TRUE) \/ Decide(r, status, FALSE)
    BY DEF Ends
  <1>2. CASE Decide(r, status, TRUE)
    BY <1>2, DecideTypes
  <1>3. CASE Decide(r, status, FALSE)
    BY <1>3, DecideTypes
  <1>4. QED
    BY <1>1, <1>2, <1>3

(* A call that goes on changes no type.                                    *)
LEMMA ProceedTypes ==
  ASSUME RootTypes, ProcessTypes, NEW r \in Runs, NEW stage \in Stages, Proceed(r, stage)
  PROVE  /\ transaction' \in [Runs -> Transaction] /\ pc' \in [Runs -> Stages]
         /\ rootLock' \in Runs \union {Nobody} /\ refLock' \in Runs \union {Nobody}
  BY DEF Proceed, Goto, locks, RootTypes, ProcessTypes

(* Every step of CommitIngest preserves the types.                         *)
LEMMA CommitIngestTypes ==
  ASSUME RootTypes, ProcessTypes, NEW r \in Runs, CommitIngest(r)
  PROVE  RootTypes' /\ ProcessTypes'
  <1>. USE DEF Committing, Own, At
  <1>s. {"committed", "conflict", "not_committed", "recovery"} \subseteq Statuses
    BY DEF Statuses
  <1>g. {"root_lock", "session", "guard"} \subseteq Stages
    BY DEF Stages
  <1>f. faults' \in 0 .. MaxFaults /\ initialization' = initialization /\ recovery' = recovery
    BY FaultTypes DEF CommitIngest, claimIngestCommit, CheckAuthority, AcquireRootLock,
       prepareIngestCandidate, PrepareSession, applyPreparedSecrets, publishCandidateObjects,
       CommitSession, observeDirectRef, GuardRef, RestoreGuarded, cleanupCommittedTransaction,
       ProcessTypes
  <1>e. ASSUME Ends(r) \/ (\E stage \in Stages : Proceed(r, stage)),
               tree' \in Trees, secrets' \in {"none"} \union Runs, landed' = landed,
               quarantines' = quarantines
        PROVE  RootTypes' /\ ProcessTypes'
    BY <1>e, <1>f, EndsTypes, ProceedTypes DEF RootTypes, ProcessTypes
  <1>1. CASE claimIngestCommit(r)
    <2>1. [transaction[r] EXCEPT !.state = "committing"] \in Transaction
      BY DEF ProcessTypes, Transaction, Lifecycles
    <2>2. QED
      BY <1>1, <1>f, <2>1 DEF claimIngestCommit, SetTransaction, Goto, disk, locks, RootTypes,
         ProcessTypes, Stages
  <1>2. CASE CheckAuthority(r)
    <2>1. Ends(r) \/ Proceed(r, "root_lock")
      BY <1>2, <1>s DEF CheckAuthority, Ends
    <2>2. QED
      BY <1>2, <1>e, <1>g, <2>1 DEF CheckAuthority, RootTypes
  <1>3. CASE AcquireRootLock(r)
    BY <1>3, <1>f, <1>s, DecideTypes DEF AcquireRootLock, Goto, RootTypes, ProcessTypes, Stages
  <1>4. CASE prepareIngestCandidate(r)
    <2>1. Ends(r) \/ Proceed(r, "session")
      BY <1>4, <1>s DEF prepareIngestCandidate, Ends
    <2>2. QED
      BY <1>4, <1>e, <1>g, <2>1 DEF prepareIngestCandidate, RootTypes
  <1>5. CASE PrepareSession(r)
    <2>1. CASE Ends(r)
      BY <1>5, <1>e, <2>1 DEF PrepareSession, RootTypes
    <2>2. CASE ~Ends(r)
      BY <1>5, <1>f, <1>s, <2>2 DEF PrepareSession, Goto, Ends, RootTypes, ProcessTypes, Stages
    <2>3. QED
      BY <2>1, <2>2
  <1>p. transaction[r].prior \in {"none"} \union Runs
    BY DEF ProcessTypes, Transaction
  <1>6. CASE applyPreparedSecrets(r)
    <2>1. CASE Ends(r)
      <3>1. secrets' \in {"none"} \union Runs
        BY <1>6 DEF applyPreparedSecrets, RootTypes
      <3>2. QED
        BY <1>6, <1>e, <2>1, <3>1 DEF applyPreparedSecrets, RootTypes
    <2>2. CASE ~Ends(r)
      <3>1. [transaction[r] EXCEPT !.prior = secrets] \in Transaction
        BY DEF RootTypes, ProcessTypes, Transaction
      <3>2. /\ secrets' = r /\ UNCHANGED <<tree, landed, quarantines, locks>> /\ Goto(r, "publish")
            /\ transaction' = [transaction EXCEPT ![r] = [transaction[r] EXCEPT !.prior = secrets]]
        BY <1>6, <1>s, <2>2 DEF applyPreparedSecrets, SetTransaction, Ends
      <3>. DEFINE t == [transaction[r] EXCEPT !.prior = secrets]
      <3>3. t \in Transaction /\ transaction' = [transaction EXCEPT ![r] = t]
        BY <3>1, <3>2
      <3>. HIDE DEF t
      <3>4. QED
        BY <1>f, <3>2, <3>3 DEF Goto, locks, RootTypes, ProcessTypes, Stages
    <2>3. QED
      BY <2>1, <2>2
  <1>7. CASE publishCandidateObjects(r)
    <2>1. CASE Ends(r)
      <3>1. tree' \in Trees /\ secrets' \in {"none"} \union Runs
        BY <1>7, <1>p DEF publishCandidateObjects, Published, Restored, Unrestored, RootTypes,
           Trees, Commits
      <3>2. QED
        BY <1>7, <1>e, <2>1, <3>1 DEF publishCandidateObjects
    <2>2. CASE ~Ends(r)
      <3>1. Published(r) /\ Goto(r, "commit") /\ UNCHANGED <<secrets, landed, quarantines, transaction, locks>>
        BY <1>7, <1>s, <2>2 DEF publishCandidateObjects, Ends
      <3>2. tree' \in Trees
        BY <3>1 DEF Published, RootTypes, Trees, Commits
      <3>3. QED
        BY <1>f, <3>1, <3>2 DEF Goto, locks, RootTypes, ProcessTypes, Stages
    <2>3. QED
      BY <2>1, <2>2
  <1>8. CASE CommitSession(r)
    <2>1. [tree EXCEPT !.main = r, !.line = @ \union {r}] \in Trees
      BY DEF RootTypes, Trees, Commits
    <2>2. tree' \in Trees /\ landed' \in SUBSET Runs /\ secrets' = secrets /\ quarantines' = quarantines
      BY <1>8, <2>1 DEF CommitSession, Land, RootTypes
    <2>3. CASE Decide(r, "committed", FALSE)
      BY <1>f, <1>s, <2>2, <2>3, DecideTypes DEF RootTypes, ProcessTypes
    <2>4. CASE refLock' = (IF refLock = r THEN Nobody ELSE refLock) /\ Goto(r, "observe")
               /\ UNCHANGED <<rootLock, transaction>>
      BY <1>f, <2>2, <2>4 DEF Goto, RootTypes, ProcessTypes, Stages
    <2>5. QED
      BY <1>8, <2>3, <2>4 DEF CommitSession
  <1>9. CASE observeDirectRef(r)
    <2>1. Ends(r) \/ Proceed(r, "guard")
      BY <1>9, <1>s DEF observeDirectRef, Ends
    <2>2. QED
      BY <1>9, <1>e, <1>g, <2>1 DEF observeDirectRef, RootTypes
  <1>10. CASE GuardRef(r)
    <2>1. CASE Ends(r)
      BY <1>10, <1>e, <2>1 DEF GuardRef, RootTypes
    <2>2. CASE ~Ends(r)
      BY <1>10, <1>f, <1>s, <2>2 DEF GuardRef, Goto, Ends, RootTypes, ProcessTypes, Stages
    <2>3. QED
      BY <2>1, <2>2
  <1>11. CASE RestoreGuarded(r)
    <2>1. Ends(r)
      BY <1>11, <1>s DEF RestoreGuarded, Ends
    <2>2. secrets' \in {"none"} \union Runs
      BY <1>11, <1>p DEF RestoreGuarded, Restored, Unrestored
    <2>3. QED
      BY <1>11, <1>e, <2>1, <2>2 DEF RestoreGuarded, RootTypes
  <1>12. CASE cleanupCommittedTransaction(r)
    <2>1. ASSUME NEW unclean \in BOOLEAN
          PROVE  [transaction[r] EXCEPT !.state = "terminal", !.recovery = unclean] \in Transaction
      <3>1. transaction[r] \in Transaction
        BY DEF ProcessTypes
      <3>2. QED
        BY <3>1 DEF Transaction, Lifecycles
    <2>2. transaction' \in [Runs -> Transaction] /\ pc' \in [Runs -> Stages]
      <3>1. CASE Terminal(r, FALSE)
        BY <2>1, <3>1 DEF Terminal, SetTransaction, Goto, ProcessTypes, Stages
      <3>2. CASE Terminal(r, TRUE)
        BY <2>1, <3>2 DEF Terminal, SetTransaction, Goto, ProcessTypes, Stages
      <3>3. QED
        BY <1>12, <3>1, <3>2 DEF cleanupCommittedTransaction
    <2>3. QED
      BY <1>12, <1>f, <2>2 DEF cleanupCommittedTransaction, locks, RootTypes, ProcessTypes
  <1>13. QED
    BY <1>1, <1>2, <1>3, <1>4, <1>5, <1>6, <1>7, <1>8, <1>9, <1>10, <1>11, <1>12 DEF CommitIngest

(* A dead process remembers what a new one does.                           *)
LEMMA KillStoreTypes ==
  ASSUME RootTypes, ProcessTypes, NEW r \in Runs, KillStore(r)
  PROVE  RootTypes' /\ ProcessTypes'
  <1>1. NewInitialization \in Initialization
    BY Distinct, RecordTypes DEF NewInitialization, Initialization, Inodes
  <1>2. faults' \in 0 .. MaxFaults
    BY FaultTypes DEF KillStore, ProcessTypes
  <1>3. QED
    BY <1>1, <1>2, RecordTypes DEF KillStore, disk, Goto, RootTypes, ProcessTypes, Stages

(* All calls of the store preserve the types.                              *)
LEMMA StoreCallTypes ==
  ASSUME RootTypes, ProcessTypes, inode \in Inodes, NEW r \in Runs, StoreCall(r) \/ KillStore(r)
  PROVE  RootTypes' /\ ProcessTypes'
  BY InitForInstallTypes, RollbackTypes, BeginTypes, CommitIngestTypes, KillStoreTypes DEF StoreCall

InstallOrIngest(r) == Forward(r) \/ Backward(r)

(* The callers leave the store and what the run knows of it alone.         *)
LEMMA CallersKeepStore ==
  ASSUME NEW r \in Runs, InstallOrIngest(r), ProcessTypes
  PROVE  /\ UNCHANGED InStore /\ (UNCHANGED worktree \/ MaterializeCommittedWorktree(r))
         /\ faults' \in 0 .. MaxFaults
         /\ recovery' \in [Runs -> BOOLEAN] /\ pc' \in [Runs -> Stages]
         /\ \A u \in Runs \ {r} : recovery'[u] = recovery[u] /\ pc'[u] = pc[u]
  <1>. USE DEF Caller, Targeted, Cached, At, Goto
  <1>1. UNCHANGED InStore
    BY DEF InstallOrIngest, Forward, Backward, Start, RootsOverlap, prepareIngestInstallAt,
       prepareGuardedInstallTransaction, secureCacheDirectory, StageLoader, PromoteLoader, PromoteTarget,
       ValidateTarget, FinalizeTarget, FinalizeStore, UndoTarget, UndoLoader, UndoCache,
       MaterializeCommittedWorktree
  <1>6. UNCHANGED worktree \/ MaterializeCommittedWorktree(r)
    BY DEF InstallOrIngest, Forward, Backward, Start, RootsOverlap, prepareIngestInstallAt,
       prepareGuardedInstallTransaction, secureCacheDirectory, StageLoader, PromoteLoader, PromoteTarget,
       ValidateTarget, FinalizeTarget, FinalizeStore, UndoTarget, UndoLoader, UndoCache, callerVars
  <1>2. faults' \in 0 .. MaxFaults
    BY FaultTypes DEF InstallOrIngest, Forward, Backward, Start, RootsOverlap,
       prepareIngestInstallAt,
       prepareGuardedInstallTransaction, secureCacheDirectory, StageLoader, PromoteLoader, PromoteTarget,
       ValidateTarget, FinalizeTarget, FinalizeStore, UndoTarget, UndoLoader, UndoCache, callerVars,
       MaterializeCommittedWorktree, ProcessTypes
  <1>3. \E stage \in Stages : pc' = [pc EXCEPT ![r] = stage]
    BY DEF Stages, InstallOrIngest, Forward, Backward, Start, RootsOverlap, prepareIngestInstallAt,
       prepareGuardedInstallTransaction, secureCacheDirectory, StageLoader, PromoteLoader, PromoteTarget,
       ValidateTarget, FinalizeTarget, FinalizeStore, UndoTarget, UndoLoader, UndoCache,
       MaterializeCommittedWorktree, FailUncertain, LoaderFailed, Stop
  <1>4. \/ UNCHANGED recovery
        \/ \E said \in BOOLEAN : recovery' = [recovery EXCEPT ![r] = said]
    <2>1. \A failed : Report(r, failed) => \E said \in BOOLEAN : recovery' = [recovery EXCEPT ![r] = said]
      <3>1. SUFFICES ASSUME NEW failed, Report(r, failed)
                     PROVE  \E said \in BOOLEAN : recovery' = [recovery EXCEPT ![r] = said]
        OBVIOUS
      <3>2. (recovery[r] \/ failed) \in BOOLEAN
        OBVIOUS
      <3>3. QED
        BY <3>1, <3>2 DEF Report
    <2>2. FailUncertain(r) => recovery' = [recovery EXCEPT ![r] = TRUE]
      BY DEF FailUncertain
    <2>3. UNCHANGED recovery \/ FailUncertain(r) \/ (\E failed \in BOOLEAN : Report(r, failed))
           \/ FinalizeStore(r)
      BY DEF InstallOrIngest, Forward, Backward, Start, RootsOverlap, prepareIngestInstallAt,
       prepareGuardedInstallTransaction, secureCacheDirectory, StageLoader, PromoteLoader, PromoteTarget,
       ValidateTarget, FinalizeTarget, UndoTarget, UndoLoader, UndoCache,
       MaterializeCommittedWorktree, Stop
    <2>4. FinalizeStore(r) =>
            UNCHANGED recovery \/ Report(r, ~validInstallInitialization(r) \/ transaction[r].recovery)
      BY DEF FinalizeStore
    <2>5. QED
      BY <2>1, <2>2, <2>3, <2>4
  <1>5. QED
    BY <1>1, <1>2, <1>3, <1>4, <1>6 DEF ProcessTypes

(* The values the callers start with, and the startup file a run would     *)
(* write, have the types of their records.                                 *)
LEMMA CallerRecords ==
  /\ NewRun \in Run /\ MissingTarget \in Target /\ NoCache \in Caches
  /\ \A r \in Runs : CallerTypes => Candidate(r) \in Target
  <1>1. Cardinality(Runs) \in Nat
    BY Distinct, FS_CardinalityType
  <1>2. MissingTarget \in Target
    BY Distinct DEF MissingTarget, Target
  <1>3. NewRun \in Run
    BY <1>1, <1>2, Distinct DEF NewRun, Run, Kinds, Promotions, Loaders
  <1>4. NoCache \in Caches
    BY <1>1 DEF NoCache, Caches, Inodes, Loaders
  <1>5. \A r \in Runs : CallerTypes => Candidate(r) \in Target
    BY DEF CallerTypes, Candidate, Run, Target
  <1>6. QED
    BY <1>2, <1>3, <1>4, <1>5

(* Updates of what a run remembers keep its type.                          *)
LEMMA RunUpdates ==
  ASSUME CallerTypes, NEW r \in Runs
  PROVE  /\ \A kind \in Kinds, base \in Target :
              [run EXCEPT ![r].kind = kind, ![r].base = base] \in [Runs -> Run]
         /\ \A base \in Target : [run EXCEPT ![r].base = base] \in [Runs -> Run]
         /\ \A promotion \in Promotions : [run EXCEPT ![r].promotion = promotion] \in [Runs -> Run]
         /\ \A promotion \in Promotions, said \in BOOLEAN :
              [run EXCEPT ![r].promotion = promotion, ![r].startup = said] \in [Runs -> Run]
         /\ \A dir \in Inodes, said \in BOOLEAN :
              [run EXCEPT ![r].inode = dir, ![r].created = said] \in [Runs -> Run]
         /\ \A said \in BOOLEAN : [run EXCEPT ![r].changed = said] \in [Runs -> Run]
         /\ \A said \in BOOLEAN, saved \in Loaders :
              [run EXCEPT ![r].changed = said, ![r].saved = saved] \in [Runs -> Run]
         /\ \A said \in BOOLEAN : [run EXCEPT ![r].promoted = said] \in [Runs -> Run]
  <1>1. run \in [Runs -> Run] /\ run[r] \in Run
    BY DEF CallerTypes
  <1>2. \A kind \in Kinds, base \in Target :
        [run EXCEPT ![r].kind = kind, ![r].base = base] \in [Runs -> Run]
    BY <1>1 DEF Run, Inodes
  <1>3. \A base \in Target : [run EXCEPT ![r].base = base] \in [Runs -> Run]
    BY <1>1 DEF Run, Inodes
  <1>4. \A promotion \in Promotions : [run EXCEPT ![r].promotion = promotion] \in [Runs -> Run]
    BY <1>1 DEF Run, Inodes
  <1>5. \A promotion \in Promotions, said \in BOOLEAN :
        [run EXCEPT ![r].promotion = promotion, ![r].startup = said] \in [Runs -> Run]
    BY <1>1 DEF Run, Inodes
  <1>6. \A dir \in Inodes, said \in BOOLEAN :
        [run EXCEPT ![r].inode = dir, ![r].created = said] \in [Runs -> Run]
    BY <1>1 DEF Run, Inodes
  <1>7. \A said \in BOOLEAN : [run EXCEPT ![r].changed = said] \in [Runs -> Run]
    BY <1>1 DEF Run, Inodes
  <1>8. \A said \in BOOLEAN, saved \in Loaders :
        [run EXCEPT ![r].changed = said, ![r].saved = saved] \in [Runs -> Run]
    BY <1>1 DEF Run, Inodes
  <1>9. \A said \in BOOLEAN : [run EXCEPT ![r].promoted = said] \in [Runs -> Run]
    BY <1>1 DEF Run, Inodes
  <1>10. QED
    BY <1>2, <1>3, <1>4, <1>5, <1>6, <1>7, <1>8, <1>9

(* A run touches what itself remembers, and nothing that others remember.  *)
LEMMA CallerStepTypes ==
  ASSUME CallerTypes, NEW r \in Runs, run[r].promoted => run[r].saved \in Loaders, At(r, "cache") => cache.inode + 1 \in Inodes, InstallOrIngest(r)
  PROVE  /\ CallerTypes'
         /\ \A u \in Runs \ {r} : run'[u] = run[u]
  <1>. USE DEF Caller, Targeted, Cached, At, Inodes
  <1>l. Unlock(r) => targetLock' \in Runs \union {Nobody}
    BY DEF Unlock, CallerTypes
  <1>t. run \in [Runs -> Run] /\ run[r] \in Run
    BY DEF CallerTypes
  <1>p. {"staged", "installed", "kept", "closed"} \subseteq Promotions /\ Promotions # {}
    BY DEF Promotions
  <1>o. (run' \in [Runs -> Run] /\ \A u \in Runs \ {r} : run'[u] = run[u]) \/ UNCHANGED run =>
          run' \in [Runs -> Run] /\ \A u \in Runs \ {r} : run'[u] = run[u]
    BY <1>t
  <1>1. CASE Start(r)
    <2>1. PICK kind \in Kinds :
            run' = [run EXCEPT ![r].kind = kind, ![r].base = IF kind = "install" THEN target ELSE @]
      BY <1>1 DEF Start
    <2>2. (IF kind = "install" THEN target ELSE run[r].base) \in Target
      BY <1>t DEF CallerTypes, Run
    <2>3. \A base \in Target : [run EXCEPT ![r].kind = kind, ![r].base = base] \in [Runs -> Run]
      BY RunUpdates
    <2>4. run' = [run EXCEPT ![r].kind = kind, ![r].base = IF kind = "install" THEN target ELSE run[r].base]
      BY <1>t, <2>1
    <2>5. run' \in [Runs -> Run]
      BY <2>2, <2>3, <2>4
    <2>6. \A u \in Runs \ {r} : run'[u] = run[u]
      BY <1>t, <2>1
    <2>7. QED
      BY <1>1, <2>5, <2>6 DEF Start, CallerTypes
  <1>2. CASE RootsOverlap(r)
    BY <1>2 DEF RootsOverlap, callerVars, CallerTypes
  <1>3. CASE prepareIngestInstallAt(r)
    BY <1>3 DEF prepareIngestInstallAt, CallerTypes, Run
  <1>4. CASE prepareGuardedInstallTransaction(r)
    BY <1>4 DEF prepareGuardedInstallTransaction, CallerTypes, Run, Promotions
  <1>5. CASE secureCacheDirectory(r)
    <2>1. CASE UNCHANGED <<cache, run>>
      BY <1>5, <2>1 DEF secureCacheDirectory, CallerTypes
    <2>2. CASE ~UNCHANGED <<cache, run>>
      <3>1. /\ cache' = IF cache.exists THEN cache
                        ELSE [cache EXCEPT !.exists = TRUE, !.private = TRUE, !.inode = @ + 1]
            /\ run' = [run EXCEPT ![r].inode = cache'.inode, ![r].created = ~cache.exists]
        BY <1>5, <2>2 DEF secureCacheDirectory
      <3>2. cache' \in Caches
        BY <1>5, <3>1 DEF secureCacheDirectory, CallerTypes, Caches
      <3>3. cache'.inode \in Inodes /\ (~cache.exists) \in BOOLEAN
        BY <3>2 DEF Caches
      <3>4. \A dir \in Inodes, said \in BOOLEAN :
              [run EXCEPT ![r].inode = dir, ![r].created = said] \in [Runs -> Run]
        BY RunUpdates
      <3>5. run' \in [Runs -> Run]
        BY <3>1, <3>3, <3>4
      <3>6. \A u \in Runs \ {r} : run'[u] = run[u]
        BY <1>t, <3>1
      <3>7. QED
        BY <1>5, <3>2, <3>5, <3>6 DEF secureCacheDirectory, CallerTypes
    <2>3. QED
      BY <2>1, <2>2
  <1>6. CASE StageLoader(r)
    <2>1. cache' \in Caches
      BY <1>6 DEF StageLoader, Secured, CallerTypes, Caches
    <2>2. run' \in [Runs -> Run] /\ \A u \in Runs \ {r} : run'[u] = run[u]
      <3>1. CASE UNCHANGED run
        BY <3>1, <1>t
      <3>2. CASE Secured(r)
        <4>1. (Holds(r) /\ ~cache.private) \in BOOLEAN
          OBVIOUS
        <4>2. \A said \in BOOLEAN : [run EXCEPT ![r].changed = said] \in [Runs -> Run]
          BY RunUpdates
        <4>3. run' = [run EXCEPT ![r].changed = Holds(r) /\ ~cache.private]
          BY <3>2 DEF Secured
        <4>4. run' \in [Runs -> Run]
          BY <4>1, <4>2, <4>3
        <4>5. QED
          BY <1>t, <4>3, <4>4
      <3>3. CASE run' = [run EXCEPT ![r].changed = ~cache.private, ![r].saved = cache.loader]
        <4>1. (~cache.private) \in BOOLEAN /\ cache.loader \in Loaders
          BY DEF CallerTypes, Caches
        <4>2. \A said \in BOOLEAN, saved \in Loaders :
                [run EXCEPT ![r].changed = said, ![r].saved = saved] \in [Runs -> Run]
          BY RunUpdates
        <4>3. run' \in [Runs -> Run]
          BY <3>3, <4>1, <4>2
        <4>4. QED
          BY <1>t, <3>3, <4>3
      <3>4. QED
        BY <1>6, <3>1, <3>2, <3>3 DEF StageLoader
    <2>3. QED
      BY <1>6, <2>1, <2>2 DEF StageLoader, CallerTypes
  <1>7. CASE PromoteLoader(r)
    <2>1. cache' \in Caches
      BY <1>7 DEF PromoteLoader, CallerTypes, Caches, Loaders
    <2>2. run' \in [Runs -> Run] /\ \A u \in Runs \ {r} : run'[u] = run[u]
      <3>1. UNCHANGED run \/ run' = [run EXCEPT ![r].promoted = TRUE]
        BY <1>7 DEF PromoteLoader
      <3>2. [run EXCEPT ![r].promoted = TRUE] \in [Runs -> Run]
        BY RunUpdates
      <3>3. QED
        BY <1>t, <3>1, <3>2
    <2>3. temps' \in SUBSET Runs
      BY <1>7 DEF PromoteLoader, CallerTypes
    <2>4. QED
      BY <1>7, <2>1, <2>2, <2>3 DEF PromoteLoader, CallerTypes
  <1>8. CASE PromoteTarget(r)
    <2>1. target' \in Target
      BY <1>8, CallerRecords DEF PromoteTarget, Displaces, CallerTypes
    <2>2. targetLock' \in Runs \union {Nobody}
      BY <1>8, <1>l DEF PromoteTarget, CallerTypes
    <2>3. run' \in [Runs -> Run] /\ \A u \in Runs \ {r} : run'[u] = run[u]
      <3>1. \A promotion \in Promotions, said \in BOOLEAN :
              [run EXCEPT ![r].promotion = promotion, ![r].startup = said] \in [Runs -> Run]
        BY RunUpdates
      <3>2. \A promotion \in Promotions : [run EXCEPT ![r].promotion = promotion] \in [Runs -> Run]
        BY RunUpdates
      <3>3. (run[r].kind = "ingest") \in BOOLEAN
        OBVIOUS
      <3>4. CASE run' = [run EXCEPT ![r].promotion = "installed", ![r].startup = run[r].kind = "ingest"]
        <4>1. run' \in [Runs -> Run]
          BY <1>p, <3>1, <3>3, <3>4
        <4>2. QED
          BY <1>t, <3>4, <4>1
      <3>5. CASE run' = [run EXCEPT ![r].promotion = "kept"]
        BY <1>t, <1>p, <3>2, <3>5
      <3>6. CASE Uncertain(r)
        BY <1>t, <1>p, <3>1, <3>6 DEF Uncertain
      <3>7. QED
        BY <1>8, <1>t, <3>4, <3>5, <3>6 DEF PromoteTarget
    <2>4. QED
      BY <1>8, <2>1, <2>2, <2>3 DEF PromoteTarget, CallerTypes
  <1>9. CASE ValidateTarget(r)
    BY <1>9 DEF ValidateTarget, CallerTypes
  <1>10. CASE FinalizeTarget(r)
    <2>1. run' \in [Runs -> Run] /\ \A u \in Runs \ {r} : run'[u] = run[u]
      <3>1. run' = [run EXCEPT ![r].promotion = "closed"] \/ run' = [run EXCEPT ![r].promotion = "kept"]
        BY <1>10 DEF FinalizeTarget
      <3>2. \A promotion \in Promotions : [run EXCEPT ![r].promotion = promotion] \in [Runs -> Run]
        BY RunUpdates
      <3>3. QED
        BY <1>t, <1>p, <3>1, <3>2
    <2>2. temps' \in SUBSET Runs
      BY <1>10 DEF FinalizeTarget, CallerTypes
    <2>3. QED
      BY <1>10, <1>l, <2>1, <2>2 DEF FinalizeTarget, CallerTypes
  <1>11. CASE FinalizeStore(r)
    BY <1>11 DEF FinalizeStore, CallerTypes
  <1>12. CASE MaterializeCommittedWorktree(r)
    BY <1>12 DEF MaterializeCommittedWorktree, CallerTypes, Commits
  <1>13. CASE UndoTarget(r)
    <2>1. \A promotion \in Promotions, said \in BOOLEAN :
            [run EXCEPT ![r].promotion = promotion, ![r].startup = said] \in [Runs -> Run]
      BY RunUpdates
    <2>2. \A promotion \in Promotions : [run EXCEPT ![r].promotion = promotion] \in [Runs -> Run]
      BY RunUpdates
    <2>3. run' \in [Runs -> Run] /\ \A u \in Runs \ {r} : run'[u] = run[u]
      <3>1. \/ UNCHANGED run \/ run' = [run EXCEPT ![r].promotion = "closed"]
            \/ run' = [run EXCEPT ![r].promotion = "kept"]
            \/ run' = [run EXCEPT ![r].promotion = "closed", ![r].startup = FALSE]
        BY <1>13 DEF UndoTarget
      <3>2. [run EXCEPT ![r].promotion = "closed", ![r].startup = FALSE] \in [Runs -> Run]
        BY <1>p, <2>1
      <3>3. CASE run' = [run EXCEPT ![r].promotion = "closed", ![r].startup = FALSE]
        BY <1>t, <3>2, <3>3
      <3>4. QED
        BY <1>t, <1>p, <2>2, <3>1, <3>3
    <2>4. target' \in Target
      BY <1>13, <1>t DEF UndoTarget, Reverses, CallerTypes, Run
    <2>5. QED
      BY <1>13, <1>l, <2>3, <2>4 DEF UndoTarget, CallerTypes
  <1>14. CASE UndoLoader(r)
    BY <1>14 DEF UndoLoader, RestoredLoader, CallerTypes, Caches
  <1>15. CASE UndoCache(r)
    BY <1>15 DEF UndoCache, RestoredCache, CallerTypes, Run, Caches
  <1>16. QED
    BY <1>1, <1>2, <1>3, <1>4, <1>5, <1>6, <1>7, <1>8, <1>9, <1>10, <1>11, <1>12, <1>13, <1>14,
       <1>15 DEF InstallOrIngest, Forward, Backward

--------------------------------------------------------------------------------
(* What a run knows of itself                                              *)

(* A run that nobody touches still knows what it knew.                     *)
LEMMA OthersRemember ==
  ASSUME LocalInv, NEW r \in Runs, Local(r)',
         \A u \in Runs \ {r} :
           /\ pc'[u] = pc[u] /\ run'[u] = run[u] /\ transaction'[u] = transaction[u]
           /\ recovery'[u] = recovery[u] /\ (u \in quarantines' <=> u \in quarantines)
  PROVE  LocalInv'
  BY DEF LocalInv, Local

(* The calls of the store keep what a run knows of itself; first           *)
(* InitForInstall.                                                         *)
LEMMA InitForInstallLocal ==
  ASSUME RootTypes, ProcessTypes, CallerTypes, NEW r \in Runs, Local(r), UNCHANGED run, InitForInstall(r)
  PROVE  Local(r)'
  <1>t. /\ pc \in [Runs -> Stages] /\ transaction \in [Runs -> Transaction] /\ recovery \in [Runs -> BOOLEAN]
        /\ run \in [Runs -> Run] /\ run[r] \in Run /\ transaction[r] \in Transaction
    BY DEF ProcessTypes, CallerTypes
  <1>1. CASE Inspect(r)
    BY <1>1, <1>t DEF Inspect, Opening, At, Goto, disk,
       Local, LocalTransaction, LocalTarget, Fresh, Early, Staged, Preparing, Trying,
       Undoings, InCommit, NewTransaction
  <1>2. CASE Create(r)
    BY <1>2, <1>t DEF Create, Opening, At, Goto, disk,
       Local, LocalTransaction, LocalTarget, Fresh, Early, Staged, Preparing, Trying,
       Undoings, InCommit, NewTransaction
  <1>3. CASE GitInit(r)
    BY <1>3, <1>t DEF GitInit, Opening, At, Goto, disk,
       Local, LocalTransaction, LocalTarget, Fresh, Early, Staged, Preparing, Trying,
       Undoings, InCommit, NewTransaction
  <1>4. CASE Seed(r)
    BY <1>4, <1>t DEF Seed, Opening, At, Goto, disk,
       Local, LocalTransaction, LocalTarget, Fresh, Early, Staged, Preparing, Trying,
       Undoings, InCommit, NewTransaction
  <1>5. CASE SeedRef(r)
    BY <1>5, <1>t DEF SeedRef, Opening, At, Goto, disk,
       Local, LocalTransaction, LocalTarget, Fresh, Early, Staged, Preparing, Trying,
       Undoings, InCommit, NewTransaction
  <1>6. CASE Seal(r)
    BY <1>6, <1>t DEF Seal, Opening, At, Goto, disk,
       Local, LocalTransaction, LocalTarget, Fresh, Early, Staged, Preparing, Trying,
       Undoings, InCommit, NewTransaction
  <1>7. CASE InspectFails(r)
    BY <1>7, <1>t DEF InspectFails, Opening, At, Goto, disk,
       Local, LocalTransaction, LocalTarget, Fresh, Early, Staged, Preparing, Trying,
       Undoings, InCommit, NewTransaction
  <1>8. CASE InitFails(r)
    BY <1>8, <1>t DEF InitFails, Opening, At, Goto, disk,
       Local, LocalTransaction, LocalTarget, Fresh, Early, Staged, Preparing, Trying,
       Undoings, InCommit, NewTransaction
  <1>9. QED
    BY <1>1, <1>2, <1>3, <1>4, <1>5, <1>6, <1>7, <1>8 DEF InitForInstall

(* Rollback keeps what a run knows of itself.                              *)
LEMMA RollbackLocal ==
  ASSUME RootTypes, ProcessTypes, CallerTypes, NEW r \in Runs, Local(r), UNCHANGED run, RollbackInitialization(r)
  PROVE  Local(r)'
  <1>t. /\ pc \in [Runs -> Stages] /\ transaction \in [Runs -> Transaction] /\ recovery \in [Runs -> BOOLEAN]
        /\ run \in [Runs -> Run] /\ run[r] \in Run /\ transaction[r] \in Transaction
    BY DEF ProcessTypes, CallerTypes
  <1>1. CASE RollbackRefused(r)
    BY <1>1, <1>t DEF RollbackRefused, Undoing, EndUndo, Own, At, Goto, MayRollBack,
       initializerRollbackSafe,
       Local, LocalTransaction, LocalTarget, Fresh, Early, Staged, Preparing, Trying,
       Undoings, InCommit, NewTransaction
  <1>2. CASE RestoreMode(r)
    BY <1>2, <1>t DEF RestoreMode, Undoing, EndUndo, Own, At, Goto, MayRollBack,
       initializerRollbackSafe,
       Local, LocalTransaction, LocalTarget, Fresh, Early, Staged, Preparing, Trying,
       Undoings, InCommit, NewTransaction
  <1>3. CASE CompareTree(r)
    BY <1>3, <1>t DEF CompareTree, Undoing, EndUndo, Own, At, Goto, MayRollBack,
       initializerRollbackSafe,
       Local, LocalTransaction, LocalTarget, Fresh, Early, Staged, Preparing, Trying,
       Undoings, InCommit, NewTransaction
  <1>4. CASE RemoveTree(r)
    BY <1>4, <1>t DEF RemoveTree, RemoveEntry, RemoveRoot, RemoveFails,
       Undoing, EndUndo, Own, At, Goto, MayRollBack,
       initializerRollbackSafe,
       Local, LocalTransaction, LocalTarget, Fresh, Early, Staged, Preparing, Trying,
       Undoings, InCommit, NewTransaction
  <1>5. QED
    BY <1>1, <1>2, <1>3, <1>4 DEF RollbackInitialization

(* BeginIngest and AbortIngest keep what a run knows of itself.            *)
LEMMA BeginLocal ==
  ASSUME RootTypes, ProcessTypes, CallerTypes, NEW r \in Runs, Local(r), UNCHANGED run,
         At(r, "begin") => run[r].kind = "ingest", BeginIngest(r) \/ AbortIngest(r) \/ AbortFails(r)
  PROVE  Local(r)'
  <1>t. /\ pc \in [Runs -> Stages] /\ transaction \in [Runs -> Transaction] /\ recovery \in [Runs -> BOOLEAN]
        /\ run \in [Runs -> Run] /\ run[r] \in Run /\ transaction[r] \in Transaction
    BY DEF ProcessTypes, CallerTypes
  <1>1. CASE reserveIngestTransaction(r)
    <2>1. pc[r] = "begin" /\ run[r].kind = "ingest" /\ UNCHANGED quarantines
      BY <1>1 DEF reserveIngestTransaction, Calling, Own, At
    <2>2. CASE Fail(r) /\ UNCHANGED transaction
      <3>1. pc'[r] = "failed" /\ UNCHANGED recovery
        BY <1>t, <2>2 DEF Fail, Goto
      <3>2. QED
        BY <2>1, <2>2, <3>1 DEF Local, LocalTransaction, LocalTarget, Fresh, Early, Staged,
           Preparing, Trying,
       Undoings, InCommit, NewTransaction
    <2>3. CASE /\ SetTransaction(r, [NewTransaction EXCEPT !.state = "provisional", !.baseline = tree.main])
               /\ Goto(r, "quarantine") /\ UNCHANGED recovery
      <3>1. /\ pc'[r] = "quarantine" /\ transaction'[r].state = "provisional"
            /\ transaction'[r].status = "none" /\ ~transaction'[r].recovery
        BY <1>t, <2>3 DEF Goto, SetTransaction, NewTransaction
      <3>2. QED
        BY <2>1, <2>3, <3>1 DEF Local, LocalTransaction, LocalTarget, Fresh, Early, Staged,
           Preparing, Trying,
       Undoings, InCommit, NewTransaction
    <2>4. QED
      BY <1>1, <2>2, <2>3 DEF reserveIngestTransaction
  <1>2. CASE BeginFails(r)
    BY <1>2, <1>t DEF BeginFails, Calling, terminalizeBeginFailure, SetTransaction, Fail,
       FailUncertain, Own, At, Goto,
       Local, LocalTransaction, LocalTarget, Fresh, Early, Staged, Preparing, Trying,
       Undoings, InCommit, NewTransaction
  <1>3. CASE BeginUncertain(r)
    BY <1>3, <1>t DEF BeginUncertain, Calling, terminalizeBeginFailure, SetTransaction, Fail,
       FailUncertain, Own, At, Goto,
       Local, LocalTransaction, LocalTarget, Fresh, Early, Staged, Preparing, Trying,
       Undoings, InCommit, NewTransaction
  <1>4. CASE createIngestQuarantine(r)
    <2>1. pc[r] = "quarantine" /\ UNCHANGED recovery /\ r \in quarantines'
      BY <1>4 DEF createIngestQuarantine, Calling, Own, At
    <2>2. /\ pc'[r] = "prepare" /\ transaction'[r].state = "active"
          /\ transaction'[r].status = transaction[r].status
          /\ transaction'[r].recovery = transaction[r].recovery
      BY <1>t, <1>4 DEF createIngestQuarantine, Goto, SetTransaction, Transaction
    <2>3. run[r].kind = "ingest"
      BY <1>t, <2>1 DEF Local, LocalTransaction, NewTransaction, Run, Kinds
    <2>4. QED
      BY <2>1, <2>2, <2>3 DEF Local, LocalTransaction, LocalTarget, Fresh, Early, Staged,
         Preparing, Trying,
       Undoings, InCommit, NewTransaction
  <1>5. CASE AbortIngest(r)
    BY <1>5, <1>t DEF AbortIngest, Calling, terminalizeBeginFailure, SetTransaction, Fail,
       FailUncertain, Own, At, Goto,
       Local, LocalTransaction, LocalTarget, Fresh, Early, Staged, Preparing, Trying,
       Undoings, InCommit, NewTransaction
  <1>6. CASE AbortFails(r)
    BY <1>6, <1>t DEF AbortFails, Calling, terminalizeBeginFailure, SetTransaction, Fail,
       FailUncertain, Own, At, Goto,
       Local, LocalTransaction, LocalTarget, Fresh, Early, Staged, Preparing, Trying,
       Undoings, InCommit, NewTransaction
  <1>7. QED
    BY <1>1, <1>2, <1>3, <1>4, <1>5, <1>6 DEF BeginIngest

(* What a decision of CommitIngest leaves in the transaction.              *)
LEMMA DecideEffect ==
  ASSUME ProcessTypes, NEW r \in Runs, NEW status, NEW uncertain \in BOOLEAN, Decide(r, status, uncertain)
  PROVE  /\ transaction'[r].status = status
         /\ transaction'[r].recovery <=> (transaction[r].recovery \/ uncertain)
         /\ transaction'[r].state = IF uncertain THEN "terminal" ELSE transaction[r].state
         /\ transaction'[r].prior = transaction[r].prior
         /\ transaction'[r].baseline = transaction[r].baseline
         /\ pc'[r] = IF uncertain THEN "decided" ELSE "cleanup"
         /\ \A u \in Runs \ {r} : pc'[u] = pc[u] /\ transaction'[u] = transaction[u]
  <1>1. transaction \in [Runs -> Transaction] /\ transaction[r] \in Transaction /\ pc \in [Runs -> Stages]
    BY DEF ProcessTypes
  <1>. DEFINE t == [transaction[r] EXCEPT !.status = status, !.recovery = @ \/ uncertain,
                      !.state = IF uncertain THEN "terminal" ELSE @]
  <1>2. /\ t.status = status /\ t.prior = transaction[r].prior /\ t.baseline = transaction[r].baseline
        /\ t.state = IF uncertain THEN "terminal" ELSE transaction[r].state
        /\ t.recovery <=> (transaction[r].recovery \/ uncertain)
    BY <1>1 DEF Transaction
  <1>3. transaction' = [transaction EXCEPT ![r] = t]
    BY DEF Decide, Outcome, SetTransaction
  <1>. HIDE DEF t
  <1>4. QED
    BY <1>1, <1>2, <1>3 DEF Decide, Goto

(* A decision keeps what a run knows of itself.                            *)
LEMMA DecideLocal ==
  ASSUME ProcessTypes, CallerTypes, NEW r \in Runs, Local(r), pc[r] \in Trying,
         NEW status \in Statuses \ {"none"}, NEW uncertain \in BOOLEAN, Decide(r, status, uncertain),
         UNCHANGED <<run, recovery, quarantines>>
  PROVE  Local(r)'
  <1>1. /\ transaction'[r].status = status
        /\ transaction'[r].recovery <=> (transaction[r].recovery \/ uncertain)
        /\ transaction'[r].state = IF uncertain THEN "terminal" ELSE transaction[r].state
        /\ pc'[r] = IF uncertain THEN "decided" ELSE "cleanup"
    BY DecideEffect
  <1>2. CASE uncertain
    BY <1>1, <1>2 DEF Local, LocalTransaction, LocalTarget, Fresh, Early, Staged, Preparing, Trying,
       Undoings, InCommit, NewTransaction
  <1>3. CASE ~uncertain
    BY <1>1, <1>3 DEF Local, LocalTransaction, LocalTarget, Fresh, Early, Staged, Preparing, Trying,
       Undoings, InCommit, NewTransaction
  <1>4. QED
    BY <1>2, <1>3

(* The call is over, for some reason and with some doubt or none.          *)
LEMMA EndsLocal ==
  ASSUME ProcessTypes, CallerTypes, NEW r \in Runs, Local(r), pc[r] \in Trying,
         UNCHANGED <<run, recovery, quarantines>>,
         \E status \in Statuses \ {"none"} : Decide(r, status, TRUE) \/ Decide(r, status, FALSE)
  PROVE  Local(r)'
  <1>1. PICK status \in Statuses \ {"none"} : Decide(r, status, TRUE) \/ Decide(r, status, FALSE)
    OBVIOUS
  <1>2. CASE Decide(r, status, TRUE)
    BY <1>2, DecideLocal
  <1>3. CASE Decide(r, status, FALSE)
    BY <1>3, DecideLocal
  <1>4. QED
    BY <1>1, <1>2, <1>3

(* The call goes on.                                                       *)
LEMMA GoesOnLocal ==
  ASSUME ProcessTypes, CallerTypes, NEW r \in Runs, Local(r), pc[r] \in Trying,
         NEW stage \in Trying, Goto(r, stage), UNCHANGED <<run, recovery, quarantines, transaction>>
  PROVE  Local(r)'
  <1>1. pc'[r] = stage
    BY DEF Goto, ProcessTypes
  <1>2. QED
    BY <1>1 DEF Local, LocalTransaction, LocalTarget, Fresh, Early, Staged, Preparing, Trying,
       Undoings, InCommit, NewTransaction

(* Every step of CommitIngest keeps what a run knows of itself.            *)
LEMMA CommitLocal ==
  ASSUME ProcessTypes, CallerTypes, NEW r \in Runs, Local(r), UNCHANGED run, CommitIngest(r)
  PROVE  Local(r)'
  <1>. USE DEF Committing, Own, At
  <1>t. /\ pc \in [Runs -> Stages] /\ transaction \in [Runs -> Transaction]
        /\ run \in [Runs -> Run] /\ run[r] \in Run /\ transaction[r] \in Transaction
    BY DEF ProcessTypes, CallerTypes
  <1>s. {"committed", "conflict", "not_committed", "recovery"} \subseteq Statuses \ {"none"}
    BY DEF Statuses
  <1>g. {"authority", "root_lock"} \union InCommit \subseteq Trying
    BY DEF Trying
  <1>. DEFINE Ending == \E status \in Statuses \ {"none"} : Decide(r, status, TRUE) \/ Decide(r, status, FALSE)
  <1>1. CASE claimIngestCommit(r)
    <2>1. pc[r] = "claim" /\ UNCHANGED <<recovery, quarantines>>
      BY <1>1 DEF claimIngestCommit, disk
    <2>2. CASE Goto(r, "undo_target") /\ UNCHANGED transaction
      <3>1. pc'[r] = "undo_target"
        BY <1>t, <2>2 DEF Goto
      <3>2. QED
        BY <2>1, <2>2, <3>1 DEF Local, LocalTransaction, LocalTarget, Fresh, Early, Staged,
           Preparing, Trying,
       Undoings, InCommit, NewTransaction
    <2>3. CASE SetTransaction(r, [transaction[r] EXCEPT !.state = "committing"]) /\ Goto(r, "authority")
      <3>1. /\ pc'[r] = "authority" /\ transaction'[r].state = "committing"
            /\ transaction'[r].status = transaction[r].status
            /\ transaction'[r].recovery = transaction[r].recovery
        BY <1>t, <2>3 DEF Goto, SetTransaction, Transaction
      <3>2. QED
        BY <2>1, <3>1 DEF Local, LocalTransaction, LocalTarget, Fresh, Early, Staged, Preparing,
           Trying,
       Undoings, InCommit, NewTransaction
    <2>4. QED
      BY <1>1, <2>2, <2>3 DEF claimIngestCommit
  <1>2. CASE CheckAuthority(r)
    <2>1. Ending \/ (UNCHANGED transaction /\ \E stage \in Trying : Goto(r, stage))
      BY <1>2, <1>s DEF CheckAuthority, Proceed, Trying, InCommit
    <2>2. pc[r] \in Trying /\ UNCHANGED <<recovery, quarantines>>
      BY <1>2 DEF CheckAuthority, Trying, InCommit
    <2>3. QED
      BY <2>1, <2>2, EndsLocal, GoesOnLocal
  <1>3. CASE AcquireRootLock(r)
    <2>1. Ending \/ (UNCHANGED transaction /\ \E stage \in Trying : Goto(r, stage))
      BY <1>3, <1>s DEF AcquireRootLock, Proceed, Trying, InCommit
    <2>2. pc[r] \in Trying /\ UNCHANGED <<recovery, quarantines>>
      BY <1>3 DEF AcquireRootLock, Trying, InCommit
    <2>3. QED
      BY <2>1, <2>2, EndsLocal, GoesOnLocal
  <1>4. CASE prepareIngestCandidate(r)
    <2>1. Ending \/ (UNCHANGED transaction /\ \E stage \in Trying : Goto(r, stage))
      BY <1>4, <1>s DEF prepareIngestCandidate, Proceed, Trying, InCommit
    <2>2. pc[r] \in Trying /\ UNCHANGED <<recovery, quarantines>>
      BY <1>4 DEF prepareIngestCandidate, Trying, InCommit
    <2>3. QED
      BY <2>1, <2>2, EndsLocal, GoesOnLocal
  <1>5. CASE PrepareSession(r)
    <2>1. Ending \/ (UNCHANGED transaction /\ \E stage \in Trying : Goto(r, stage))
      BY <1>5, <1>s DEF PrepareSession, Proceed, Trying, InCommit
    <2>2. pc[r] \in Trying /\ UNCHANGED <<recovery, quarantines>>
      BY <1>5 DEF PrepareSession, Trying, InCommit
    <2>3. QED
      BY <2>1, <2>2, EndsLocal, GoesOnLocal
  <1>6. CASE applyPreparedSecrets(r)
    <2>1. pc[r] = "secrets" /\ UNCHANGED <<recovery, quarantines>>
      BY <1>6 DEF applyPreparedSecrets
    <2>2. CASE Ending
      BY <2>1, <2>2, EndsLocal DEF Trying, InCommit
    <2>3. CASE ~Ending
      <3>1. /\ transaction' = [transaction EXCEPT ![r] = [transaction[r] EXCEPT !.prior = secrets]]
            /\ Goto(r, "publish")
        BY <1>6, <1>s, <2>3 DEF applyPreparedSecrets, SetTransaction
      <3>2. /\ pc'[r] = "publish" /\ transaction'[r].state = transaction[r].state
            /\ transaction'[r].status = transaction[r].status
            /\ transaction'[r].recovery = transaction[r].recovery
        BY <1>t, <3>1 DEF Goto, Transaction
      <3>3. QED
        BY <2>1, <3>2 DEF Local, LocalTransaction, LocalTarget, Fresh, Early, Staged, Preparing,
           Trying,
       Undoings, InCommit, NewTransaction
    <2>4. QED
      BY <2>2, <2>3
  <1>7. CASE publishCandidateObjects(r)
    <2>1. Ending \/ (UNCHANGED transaction /\ \E stage \in Trying : Goto(r, stage))
      BY <1>7, <1>s DEF publishCandidateObjects, Proceed, Trying, InCommit
    <2>2. pc[r] \in Trying /\ UNCHANGED <<recovery, quarantines>>
      BY <1>7 DEF publishCandidateObjects, Trying, InCommit
    <2>3. QED
      BY <2>1, <2>2, EndsLocal, GoesOnLocal
  <1>8. CASE CommitSession(r)
    <2>1. Ending \/ (UNCHANGED transaction /\ \E stage \in Trying : Goto(r, stage))
      BY <1>8, <1>s DEF CommitSession, Proceed, Trying, InCommit
    <2>2. pc[r] \in Trying /\ UNCHANGED <<recovery, quarantines>>
      BY <1>8 DEF CommitSession, Trying, InCommit
    <2>3. QED
      BY <2>1, <2>2, EndsLocal, GoesOnLocal
  <1>9. CASE observeDirectRef(r)
    <2>1. Ending \/ (UNCHANGED transaction /\ \E stage \in Trying : Goto(r, stage))
      BY <1>9, <1>s DEF observeDirectRef, Proceed, Trying, InCommit
    <2>2. pc[r] \in Trying /\ UNCHANGED <<recovery, quarantines>>
      BY <1>9 DEF observeDirectRef, Trying, InCommit
    <2>3. QED
      BY <2>1, <2>2, EndsLocal, GoesOnLocal
  <1>10. CASE GuardRef(r)
    <2>1. Ending \/ (UNCHANGED transaction /\ \E stage \in Trying : Goto(r, stage))
      BY <1>10, <1>s DEF GuardRef, Proceed, Trying, InCommit
    <2>2. pc[r] \in Trying /\ UNCHANGED <<recovery, quarantines>>
      BY <1>10 DEF GuardRef, Trying, InCommit
    <2>3. QED
      BY <2>1, <2>2, EndsLocal, GoesOnLocal
  <1>11. CASE RestoreGuarded(r)
    <2>1. Ending \/ (UNCHANGED transaction /\ \E stage \in Trying : Goto(r, stage))
      BY <1>11, <1>s DEF RestoreGuarded, Proceed, Trying, InCommit
    <2>2. pc[r] \in Trying /\ UNCHANGED <<recovery, quarantines>>
      BY <1>11 DEF RestoreGuarded, Trying, InCommit
    <2>3. QED
      BY <2>1, <2>2, EndsLocal, GoesOnLocal
  <1>12. CASE cleanupCommittedTransaction(r)
    <2>1. pc[r] = "cleanup" /\ UNCHANGED recovery
      BY <1>12 DEF cleanupCommittedTransaction
    <2>2. ASSUME NEW unclean \in BOOLEAN, Terminal(r, unclean)
          PROVE  /\ pc'[r] = "decided" /\ transaction'[r].state = "terminal"
                 /\ transaction'[r].status = transaction[r].status
                 /\ transaction'[r].recovery <=> unclean
      BY <1>t, <2>2 DEF Terminal, SetTransaction, Goto, Transaction
    <2>3. CASE r \notin quarantines' /\ Terminal(r, FALSE)
      BY <2>1, <2>2, <2>3 DEF Local, LocalTransaction, LocalTarget, Fresh, Early, Staged,
         Preparing, Trying,
       Undoings, InCommit, NewTransaction
    <2>4. CASE Terminal(r, TRUE)
      BY <2>1, <2>2, <2>4 DEF Local, LocalTransaction, LocalTarget, Fresh, Early, Staged,
         Preparing, Trying,
       Undoings, InCommit, NewTransaction
    <2>5. QED
      BY <1>12, <2>3, <2>4 DEF cleanupCommittedTransaction
  <1>13. QED
    BY <1>1, <1>2, <1>3, <1>4, <1>5, <1>6, <1>7, <1>8, <1>9, <1>10, <1>11, <1>12 DEF CommitIngest

(* So does every step of install and ingest outside the store.             *)
LEMMA CallerLocal ==
  ASSUME ProcessTypes, CallerTypes, NEW r \in Runs, Local(r), InstallOrIngest(r)
  PROVE  Local(r)'
  <1>. USE DEF Caller, Targeted, Cached, InStore, disk, At, Goto
  <1>t. /\ pc \in [Runs -> Stages] /\ recovery \in [Runs -> BOOLEAN]
        /\ run \in [Runs -> Run] /\ run[r] \in Run /\ transaction[r] \in Transaction
    BY DEF ProcessTypes, CallerTypes
  <1>1. CASE Start(r)
    BY <1>1, <1>t DEF Start, Report, Kinds, Run, Loaders, Local, LocalTransaction, LocalTarget,
       Fresh, Early, Staged, Preparing,
       Trying, Undoings, InCommit, NewTransaction
  <1>2. CASE RootsOverlap(r)
    BY <1>2, <1>t DEF RootsOverlap, callerVars, Run, Loaders, Local, LocalTransaction,
       LocalTarget, Fresh, Early, Staged, Preparing,
       Trying, Undoings, InCommit, NewTransaction
  <1>3. CASE prepareIngestInstallAt(r)
    BY <1>3, <1>t DEF prepareIngestInstallAt, Run, Loaders, Local, LocalTransaction, LocalTarget,
       Fresh, Early, Staged, Preparing,
       Trying, Undoings, InCommit, NewTransaction
  <1>4. CASE prepareGuardedInstallTransaction(r)
    BY <1>4, <1>t DEF prepareGuardedInstallTransaction, FailUncertain, Run, Loaders, Local,
       LocalTransaction, LocalTarget, Fresh, Early, Staged, Preparing,
       Trying, Undoings, InCommit, NewTransaction
  <1>5. CASE secureCacheDirectory(r)
    BY <1>5, <1>t DEF secureCacheDirectory, Run, Loaders, Local, LocalTransaction, LocalTarget,
       Fresh, Early, Staged, Preparing,
       Trying, Undoings, InCommit, NewTransaction
  <1>6. CASE StageLoader(r)
    <2>1. cache.loader # "unsaved"
      BY Distinct DEF CallerTypes, Caches, Loaders
    <2>2. /\ pc[r] = "save" /\ UNCHANGED <<quarantines, transaction, recovery>>
          /\ run'[r].kind = run[r].kind /\ run'[r].promotion = run[r].promotion
          /\ run'[r].startup = run[r].startup /\ run'[r].promoted = run[r].promoted
      BY <1>6, <1>t DEF StageLoader, Secured, Run
    <2>3. \/ pc'[r] = "loader" /\ run'[r].saved # "unsaved"
          \/ pc'[r] = "undo_target" /\ run'[r].saved = run[r].saved
      BY <1>6, <1>t, <2>1 DEF StageLoader, Secured, Run
    <2>4. QED
      BY <2>2, <2>3 DEF Local, LocalTransaction, LocalTarget, Fresh, Early, Staged, Preparing,
       Trying, Undoings, InCommit, NewTransaction
  <1>7. CASE PromoteLoader(r)
    <2>1. /\ pc[r] = "loader" /\ UNCHANGED <<recovery, quarantines, transaction>>
          /\ run'[r].promotion = run[r].promotion /\ run'[r].kind = run[r].kind
          /\ run'[r].startup = run[r].startup /\ run'[r].saved = run[r].saved
      BY <1>7, <1>t DEF PromoteLoader, Run
    <2>2. (pc'[r] = "target" /\ run'[r].promoted) \/ pc'[r] = "undo_target"
      BY <1>7, <1>t DEF PromoteLoader, LoaderFailed, Run
    <2>3. QED
      BY <2>1, <2>2 DEF Local, LocalTransaction, LocalTarget, Fresh, Early, Staged, Preparing,
       Trying, Undoings, InCommit, NewTransaction
  <1>8. CASE PromoteTarget(r)
    BY <1>8, <1>t DEF PromoteTarget, Uncertain, FailUncertain, Report, Run, Loaders, Local,
       LocalTransaction, LocalTarget, Fresh, Early, Staged, Preparing,
       Trying, Undoings, InCommit, NewTransaction
  <1>9. CASE ValidateTarget(r)
    BY <1>9, <1>t DEF ValidateTarget, Run, Loaders, Local, LocalTransaction, LocalTarget, Fresh,
       Early, Staged, Preparing,
       Trying, Undoings, InCommit, NewTransaction
  <1>10. CASE FinalizeTarget(r)
    <2>1. /\ UNCHANGED <<quarantines, transaction>>
          /\ run'[r].kind = run[r].kind
          /\ run'[r].startup = run[r].startup /\ run'[r].saved = run[r].saved
          /\ run'[r].promoted = run[r].promoted
      <3>1. run' = [run EXCEPT ![r].promotion = "closed"] \/ run' = [run EXCEPT ![r].promotion = "kept"]
        BY <1>10 DEF FinalizeTarget
      <3>2. UNCHANGED <<quarantines, transaction>>
        BY <1>10 DEF FinalizeTarget
      <3>3. QED
        BY <1>t, <3>1, <3>2 DEF Run
    <2>2. \/ UNCHANGED recovery /\ run'[r].promotion = "closed"
          \/ recovery'[r] /\ run'[r].promotion = "kept"
      <3>1. \/ UNCHANGED recovery /\ run' = [run EXCEPT ![r].promotion = "closed"]
            \/ Report(r, TRUE) /\ run' = [run EXCEPT ![r].promotion = "kept"]
        BY <1>10 DEF FinalizeTarget
      <3>2. QED
        BY <1>t, <3>1 DEF Report, Run
    <2>3. \/ pc[r] = "finalize_target"
          \/ pc[r] = "decided" /\ transaction[r].status = "committed"
      BY <1>10 DEF FinalizeTarget, Committed
    <2>4. \/ run[r].kind = "ingest" /\ pc'[r] = "finalize_store"
          \/ run[r].kind = "install" /\ pc'[r] = "ok"
          \/ run[r].kind = "install" /\ pc'[r] = "failed" /\ recovery'[r]
      BY <1>10, <1>t DEF FinalizeTarget, Report
    <2>5. CASE pc[r] = "finalize_target"
      BY <2>1, <2>2, <2>4, <2>5 DEF Local, LocalTransaction, LocalTarget, Fresh, Early, Staged,
         Preparing,
       Trying, Undoings, InCommit, NewTransaction
    <2>6. CASE pc[r] = "decided" /\ transaction[r].status = "committed"
      BY <2>1, <2>2, <2>4, <2>6 DEF Local, LocalTransaction, LocalTarget, Fresh, Early, Staged,
         Preparing,
       Trying, Undoings, InCommit, NewTransaction
    <2>7. QED
      BY <2>3, <2>5, <2>6
  <1>11. CASE FinalizeStore(r)
    BY <1>11, <1>t DEF FinalizeStore, Report, Run, Loaders, Local, LocalTransaction, LocalTarget,
       Fresh, Early, Staged, Preparing,
       Trying, Undoings, InCommit, NewTransaction
  <1>12. CASE MaterializeCommittedWorktree(r)
    BY <1>12, <1>t DEF MaterializeCommittedWorktree, FailUncertain, Run, Loaders, Local,
       LocalTransaction, LocalTarget, Fresh, Early, Staged, Preparing,
       Trying, Undoings, InCommit, NewTransaction
  <1>13. CASE UndoTarget(r)
    <2>1. /\ UNCHANGED <<quarantines, transaction>>
          /\ run'[r].kind = run[r].kind /\ run'[r].saved = run[r].saved
          /\ run'[r].promoted = run[r].promoted
      BY <1>13, <1>t DEF UndoTarget, Run
    <2>2. \/ pc[r] = "undo_target"
          \/ pc[r] = "decided" /\ transaction[r].status # "committed"
      BY <1>13 DEF UndoTarget, Rejected
    <2>3. CASE pc'[r] = "failed" /\ recovery'[r] /\ run'[r].promotion = "kept"
      BY <2>1, <2>2, <2>3 DEF Local, LocalTransaction, LocalTarget, Fresh, Early, Staged, Preparing,
       Trying, Undoings, InCommit, NewTransaction
    <2>4. CASE /\ pc'[r] = (IF transaction[r].state = "active" THEN "abort" ELSE "undo_loader")
               /\ run'[r].promotion \in {"none", "closed"} /\ UNCHANGED recovery
               /\ pc[r] = "decided" => transaction[r].status # "recovery" /\ ~transaction[r].recovery
      <3>1. CASE transaction[r].state = "active"
        BY <1>t, <2>1, <2>2, <2>4, <3>1 DEF Run, Kinds, Local, LocalTransaction, LocalTarget,
           Fresh, Early, Staged, Preparing,
       Trying, Undoings, InCommit, NewTransaction
      <3>2. CASE transaction[r].state # "active"
        BY <1>t, <2>1, <2>2, <2>4, <3>2 DEF Run, Kinds, Local, LocalTransaction, LocalTarget,
           Fresh, Early, Staged, Preparing,
       Trying, Undoings, InCommit, NewTransaction
      <3>3. QED
        BY <3>1, <3>2
    <2>5. QED
      <3>1. retainTarget(r) => pc'[r] = "failed" /\ recovery'[r] /\ run'[r].promotion = "kept"
        <4>1. SUFFICES ASSUME retainTarget(r)
                       PROVE  pc'[r] = "failed" /\ recovery'[r] /\ run'[r].promotion = "kept"
          OBVIOUS
        <4>2. run' = [run EXCEPT ![r].promotion = "kept"] /\ Stop(r)
          BY <1>13, <4>1 DEF UndoTarget
        <4>3. QED
          BY <1>t, <4>2 DEF Stop, FailUncertain, Run
      <3>2. pc[r] = "decided" /\ ~retainTarget(r) =>
              transaction[r].status # "recovery" /\ ~transaction[r].recovery
        BY <2>2 DEF retainTarget, Rejected
      <3>3. \/ pc'[r] = "failed" /\ recovery'[r] /\ run'[r].promotion = "kept"
            \/ /\ pc'[r] = (IF transaction[r].state = "active" THEN "abort" ELSE "undo_loader")
               /\ run'[r].promotion \in {"none", "closed"} /\ UNCHANGED recovery
        BY <1>13, <1>t DEF UndoTarget, Stop, FailUncertain, Run
      <3>4. QED
        BY <2>2, <2>3, <2>4, <3>1, <3>2, <3>3
  <1>14. CASE UndoLoader(r)
    BY <1>14, <1>t DEF UndoLoader, RestoredLoader, Report, Run, Loaders, Local, LocalTransaction, LocalTarget,
       Fresh, Early, Staged, Preparing,
       Trying, Undoings, InCommit, NewTransaction
  <1>15. CASE UndoCache(r)
    BY <1>15, <1>t DEF UndoCache, RestoredCache, Report, Run, Loaders, Local, LocalTransaction, LocalTarget,
       Fresh, Early, Staged, Preparing,
       Trying, Undoings, InCommit, NewTransaction
  <1>16. QED
    BY <1>1, <1>2, <1>3, <1>4, <1>5, <1>6, <1>7, <1>8, <1>9, <1>10, <1>11, <1>12, <1>13, <1>14,
       <1>15
       DEF InstallOrIngest, Forward, Backward

(* A dead run knows nothing.                                               *)
LEMMA KillLocal ==
  ASSUME ProcessTypes, CallerTypes, NEW r \in Runs, Local(r), Kill(r)
  PROVE  Local(r)'
  <1>1. /\ pc \in [Runs -> Stages] /\ run \in [Runs -> Run] /\ transaction \in [Runs -> Transaction]
    BY DEF ProcessTypes, CallerTypes
  <1>2. pc'[r] = "dead" /\ transaction'[r] = NewTransaction
    BY <1>1 DEF Kill, KillStore, Goto
  <1>3. run'[r].promotion = "none" /\ run'[r].kind = "install"
    BY <1>1 DEF Kill, NewRun
  <1>4. QED
    BY <1>2, <1>3 DEF Local, LocalTransaction, LocalTarget, Fresh, Early, Staged, Preparing,
       Trying, Undoings, InCommit, NewTransaction

--------------------------------------------------------------------------------
(* Whose step it is                                                        *)

(* A step moves one run, and never back to before it had a root or a cache. *)
Moves(r, stage) ==
  /\ Goto(r, stage)
  /\ stage \in NotYetRooted => pc[r] \in NotYetRooted
  /\ stage \in NotYetCached => pc[r] \in NotYetCached
Mine(r) ==
  /\ \E stage \in Stages : Moves(r, stage)
  /\ UNCHANGED transaction \/ \E t : SetTransaction(r, t)
  /\ UNCHANGED recovery \/ \E said : recovery' = [recovery EXCEPT ![r] = said]
  /\ quarantines' \in {quarantines, quarantines \union {r}, quarantines \ {r}}

(* A step that is r's own leaves the other runs alone.                     *)
LEMMA OthersUntouched ==
  ASSUME ProcessTypes, NEW r \in Runs, Mine(r)
  PROVE  /\ \A u \in Runs \ {r} :
              /\ pc'[u] = pc[u] /\ transaction'[u] = transaction[u] /\ recovery'[u] = recovery[u]
              /\ u \in quarantines' <=> u \in quarantines
         /\ \A u \in Runs : pc[u] \notin NotYetRooted => pc'[u] \notin NotYetRooted
         /\ \A u \in Runs : pc[u] \notin NotYetCached => pc'[u] \notin NotYetCached
  <1>1. \A u \in Runs \ {r} : pc'[u] = pc[u]
    BY DEF Mine, Moves, Goto, ProcessTypes
  <1>2. \A u \in Runs \ {r} : transaction'[u] = transaction[u]
    BY DEF Mine, SetTransaction, ProcessTypes
  <1>3. \A u \in Runs \ {r} : recovery'[u] = recovery[u]
    BY DEF Mine, ProcessTypes
  <1>4. \A u \in Runs \ {r} : u \in quarantines' <=> u \in quarantines
    BY DEF Mine
  <1>5. /\ pc[r] \notin NotYetRooted => pc'[r] \notin NotYetRooted
        /\ pc[r] \notin NotYetCached => pc'[r] \notin NotYetCached
    BY DEF Mine, Moves, Goto, ProcessTypes
  <1>6. QED
    BY <1>1, <1>2, <1>3, <1>4, <1>5

(* Every step is the own step of its run; first InitForInstall.            *)
LEMMA InitForInstallMine ==
  ASSUME ProcessTypes, NEW r \in Runs, InitForInstall(r)
  PROVE  Mine(r)
  <1>1. CASE Inspect(r)
    BY <1>1 DEF Inspect, Opening, At, disk,
       Stages, Mine, Moves, NotYetRooted, NotYetCached
  <1>2. CASE Create(r)
    BY <1>2 DEF Create, Opening, At, disk,
       Stages, Mine, Moves, NotYetRooted, NotYetCached
  <1>3. CASE GitInit(r)
    BY <1>3 DEF GitInit, Opening, At, disk,
       Stages, Mine, Moves, NotYetRooted, NotYetCached
  <1>4. CASE Seed(r)
    BY <1>4 DEF Seed, Opening, At, disk,
       Stages, Mine, Moves, NotYetRooted, NotYetCached
  <1>5. CASE SeedRef(r)
    BY <1>5 DEF SeedRef, Opening, At, disk,
       Stages, Mine, Moves, NotYetRooted, NotYetCached
  <1>6. CASE Seal(r)
    BY <1>6 DEF Seal, Opening, At, disk,
       Stages, Mine, Moves, NotYetRooted, NotYetCached
  <1>7. CASE InspectFails(r)
    BY <1>7 DEF InspectFails, Opening, At, disk,
       Stages, Mine, Moves, NotYetRooted, NotYetCached
  <1>8. CASE InitFails(r)
    BY <1>8 DEF InitFails, Opening, At, disk,
       Stages, Mine, Moves, NotYetRooted, NotYetCached
  <1>9. QED
    BY <1>1, <1>2, <1>3, <1>4, <1>5, <1>6, <1>7, <1>8 DEF InitForInstall

(* Rollback is the run's own.                                              *)
LEMMA RollbackMine ==
  ASSUME ProcessTypes, NEW r \in Runs, RollbackInitialization(r)
  PROVE  Mine(r)
  <1>1. CASE RollbackRefused(r)
    BY <1>1 DEF RollbackRefused, Undoing, EndUndo, Own, At,
       Stages, Mine, Moves, NotYetRooted, NotYetCached
  <1>2. CASE RestoreMode(r)
    BY <1>2 DEF RestoreMode, Undoing, EndUndo, Own, At,
       Stages, Mine, Moves, NotYetRooted, NotYetCached
  <1>3. CASE CompareTree(r)
    BY <1>3 DEF CompareTree, Undoing, EndUndo, Own, At,
       Stages, Mine, Moves, NotYetRooted, NotYetCached
  <1>4. CASE RemoveTree(r)
    BY <1>4 DEF RemoveTree, RemoveEntry, RemoveRoot, RemoveFails,
       Undoing, EndUndo, Own, At,
       Stages, Mine, Moves, NotYetRooted, NotYetCached
  <1>5. QED
    BY <1>1, <1>2, <1>3, <1>4 DEF RollbackInitialization

(* BeginIngest and AbortIngest are the run's own.                          *)
LEMMA BeginMine ==
  ASSUME ProcessTypes, NEW r \in Runs, BeginIngest(r) \/ AbortIngest(r) \/ AbortFails(r)
  PROVE  Mine(r)
  <1>1. CASE reserveIngestTransaction(r)
    BY <1>1 DEF reserveIngestTransaction, Calling, terminalizeBeginFailure, Fail, FailUncertain,
       Own, At,
       Stages, Mine, Moves, NotYetRooted, NotYetCached
  <1>2. CASE BeginFails(r)
    BY <1>2 DEF BeginFails, Calling, terminalizeBeginFailure, Fail, FailUncertain, Own, At,
       Stages, Mine, Moves, NotYetRooted, NotYetCached
  <1>3. CASE BeginUncertain(r)
    BY <1>3 DEF BeginUncertain, Calling, terminalizeBeginFailure, Fail, FailUncertain, Own, At,
       Stages, Mine, Moves, NotYetRooted, NotYetCached
  <1>4. CASE createIngestQuarantine(r)
    BY <1>4 DEF createIngestQuarantine, Calling, terminalizeBeginFailure, Fail, FailUncertain,
       Own, At,
       Stages, Mine, Moves, NotYetRooted, NotYetCached
  <1>5. CASE AbortIngest(r)
    BY <1>5 DEF AbortIngest, Calling, terminalizeBeginFailure, Fail, FailUncertain, Own, At,
       Stages, Mine, Moves, NotYetRooted, NotYetCached
  <1>6. CASE AbortFails(r)
    BY <1>6 DEF AbortFails, Calling, terminalizeBeginFailure, Fail, FailUncertain, Own, At,
       Stages, Mine, Moves, NotYetRooted, NotYetCached
  <1>7. QED
    BY <1>1, <1>2, <1>3, <1>4, <1>5, <1>6 DEF BeginIngest

(* A decision gives back no lock but the run's own.                        *)
LEMMA DecideMine ==
  ASSUME NEW r \in Runs, NEW status, NEW uncertain \in BOOLEAN, Decide(r, status, uncertain)
  PROVE  /\ \E t : SetTransaction(r, t)
         /\ \E stage \in {"decided", "cleanup"} : Goto(r, stage)
  BY DEF Decide, Outcome

(* CommitIngest is the run's own.                                          *)
LEMMA CommitMine ==
  ASSUME ProcessTypes, NEW r \in Runs, CommitIngest(r)
  PROVE  Mine(r)
  <1>. DEFINE Late == {"authority", "undo_target", "root_lock", "candidate", "session", "secrets", "publish",
                       "commit", "observe", "guard", "guarded", "cleanup", "decided"}
  <1>e. /\ \A status : Decide(r, status, TRUE) => \E t : SetTransaction(r, t)
        /\ \A status : Decide(r, status, FALSE) => \E t : SetTransaction(r, t)
        /\ \A status : Decide(r, status, TRUE) => \E stage \in Late : Goto(r, stage)
        /\ \A status : Decide(r, status, FALSE) => \E stage \in Late : Goto(r, stage)
    BY DecideMine
  <1>s. ASSUME UNCHANGED transaction \/ \E t : SetTransaction(r, t), \E stage \in Late : Goto(r, stage),
               UNCHANGED recovery, quarantines' \in {quarantines, quarantines \union {r}, quarantines \ {r}}
        PROVE  Mine(r)
    BY <1>s DEF Mine, Moves, Stages, NotYetRooted, NotYetCached
  <1>. HIDE DEF Late
  <1>1. CASE claimIngestCommit(r)
    <2>1. UNCHANGED transaction \/ \E t : SetTransaction(r, t)
      BY <1>1, <1>e DEF claimIngestCommit, Proceed, Terminal
    <2>2. \E stage \in Late : Goto(r, stage)
      BY <1>1, <1>e DEF claimIngestCommit, Proceed, Terminal, Late
    <2>3. UNCHANGED recovery /\ quarantines' \in {quarantines, quarantines \union {r}, quarantines \ {r}}
      BY <1>1 DEF claimIngestCommit, Committing, disk
    <2>4. QED
      BY <1>s, <2>1, <2>2, <2>3
  <1>2. CASE CheckAuthority(r)
    <2>1. UNCHANGED transaction \/ \E t : SetTransaction(r, t)
      BY <1>2, <1>e DEF CheckAuthority, Proceed, Terminal
    <2>2. \E stage \in Late : Goto(r, stage)
      BY <1>2, <1>e DEF CheckAuthority, Proceed, Terminal, Late
    <2>3. UNCHANGED recovery /\ quarantines' \in {quarantines, quarantines \union {r}, quarantines \ {r}}
      BY <1>2 DEF CheckAuthority, Committing, disk
    <2>4. QED
      BY <1>s, <2>1, <2>2, <2>3
  <1>3. CASE AcquireRootLock(r)
    <2>1. UNCHANGED transaction \/ \E t : SetTransaction(r, t)
      BY <1>3, <1>e DEF AcquireRootLock, Proceed, Terminal
    <2>2. \E stage \in Late : Goto(r, stage)
      BY <1>3, <1>e DEF AcquireRootLock, Proceed, Terminal, Late
    <2>3. UNCHANGED recovery /\ quarantines' \in {quarantines, quarantines \union {r}, quarantines \ {r}}
      BY <1>3 DEF AcquireRootLock, Committing, disk
    <2>4. QED
      BY <1>s, <2>1, <2>2, <2>3
  <1>4. CASE prepareIngestCandidate(r)
    <2>1. UNCHANGED transaction \/ \E t : SetTransaction(r, t)
      BY <1>4, <1>e DEF prepareIngestCandidate, Proceed, Terminal
    <2>2. \E stage \in Late : Goto(r, stage)
      BY <1>4, <1>e DEF prepareIngestCandidate, Proceed, Terminal, Late
    <2>3. UNCHANGED recovery /\ quarantines' \in {quarantines, quarantines \union {r}, quarantines \ {r}}
      BY <1>4 DEF prepareIngestCandidate, Committing, disk
    <2>4. QED
      BY <1>s, <2>1, <2>2, <2>3
  <1>5. CASE PrepareSession(r)
    <2>1. UNCHANGED transaction \/ \E t : SetTransaction(r, t)
      BY <1>5, <1>e DEF PrepareSession, Proceed, Terminal
    <2>2. \E stage \in Late : Goto(r, stage)
      BY <1>5, <1>e DEF PrepareSession, Proceed, Terminal, Late
    <2>3. UNCHANGED recovery /\ quarantines' \in {quarantines, quarantines \union {r}, quarantines \ {r}}
      BY <1>5 DEF PrepareSession, Committing, disk
    <2>4. QED
      BY <1>s, <2>1, <2>2, <2>3
  <1>6. CASE applyPreparedSecrets(r)
    <2>1. UNCHANGED transaction \/ \E t : SetTransaction(r, t)
      BY <1>6, <1>e DEF applyPreparedSecrets, Proceed, Terminal
    <2>2. \E stage \in Late : Goto(r, stage)
      BY <1>6, <1>e DEF applyPreparedSecrets, Proceed, Terminal, Late
    <2>3. UNCHANGED recovery /\ quarantines' \in {quarantines, quarantines \union {r}, quarantines \ {r}}
      BY <1>6 DEF applyPreparedSecrets, Committing, disk
    <2>4. QED
      BY <1>s, <2>1, <2>2, <2>3
  <1>7. CASE publishCandidateObjects(r)
    <2>1. UNCHANGED transaction \/ \E t : SetTransaction(r, t)
      BY <1>7, <1>e DEF publishCandidateObjects, Proceed, Terminal
    <2>2. \E stage \in Late : Goto(r, stage)
      BY <1>7, <1>e DEF publishCandidateObjects, Proceed, Terminal, Late
    <2>3. UNCHANGED recovery /\ quarantines' \in {quarantines, quarantines \union {r}, quarantines \ {r}}
      BY <1>7 DEF publishCandidateObjects, Committing, disk
    <2>4. QED
      BY <1>s, <2>1, <2>2, <2>3
  <1>8. CASE CommitSession(r)
    <2>1. UNCHANGED transaction \/ \E t : SetTransaction(r, t)
      BY <1>8, <1>e DEF CommitSession, Proceed, Terminal
    <2>2. \E stage \in Late : Goto(r, stage)
      BY <1>8, <1>e DEF CommitSession, Proceed, Terminal, Late
    <2>3. UNCHANGED recovery /\ quarantines' \in {quarantines, quarantines \union {r}, quarantines \ {r}}
      BY <1>8 DEF CommitSession, Committing, disk
    <2>4. QED
      BY <1>s, <2>1, <2>2, <2>3
  <1>9. CASE observeDirectRef(r)
    <2>1. UNCHANGED transaction \/ \E t : SetTransaction(r, t)
      BY <1>9, <1>e DEF observeDirectRef, Proceed, Terminal
    <2>2. \E stage \in Late : Goto(r, stage)
      BY <1>9, <1>e DEF observeDirectRef, Proceed, Terminal, Late
    <2>3. UNCHANGED recovery /\ quarantines' \in {quarantines, quarantines \union {r}, quarantines \ {r}}
      BY <1>9 DEF observeDirectRef, Committing, disk
    <2>4. QED
      BY <1>s, <2>1, <2>2, <2>3
  <1>10. CASE GuardRef(r)
    <2>1. UNCHANGED transaction \/ \E t : SetTransaction(r, t)
      BY <1>10, <1>e DEF GuardRef, Proceed, Terminal
    <2>2. \E stage \in Late : Goto(r, stage)
      BY <1>10, <1>e DEF GuardRef, Proceed, Terminal, Late
    <2>3. UNCHANGED recovery /\ quarantines' \in {quarantines, quarantines \union {r}, quarantines \ {r}}
      BY <1>10 DEF GuardRef, Committing, disk
    <2>4. QED
      BY <1>s, <2>1, <2>2, <2>3
  <1>11. CASE RestoreGuarded(r)
    <2>1. UNCHANGED transaction \/ \E t : SetTransaction(r, t)
      BY <1>11, <1>e DEF RestoreGuarded, Proceed, Terminal
    <2>2. \E stage \in Late : Goto(r, stage)
      BY <1>11, <1>e DEF RestoreGuarded, Proceed, Terminal, Late
    <2>3. UNCHANGED recovery /\ quarantines' \in {quarantines, quarantines \union {r}, quarantines \ {r}}
      BY <1>11 DEF RestoreGuarded, Committing, disk
    <2>4. QED
      BY <1>s, <2>1, <2>2, <2>3
  <1>12. CASE cleanupCommittedTransaction(r)
    <2>1. UNCHANGED transaction \/ \E t : SetTransaction(r, t)
      BY <1>12, <1>e DEF cleanupCommittedTransaction, Proceed, Terminal
    <2>2. \E stage \in Late : Goto(r, stage)
      BY <1>12, <1>e DEF cleanupCommittedTransaction, Proceed, Terminal, Late
    <2>3. UNCHANGED recovery /\ quarantines' \in {quarantines, quarantines \union {r}, quarantines \ {r}}
      BY <1>12 DEF cleanupCommittedTransaction, Committing, disk
    <2>4. QED
      BY <1>s, <2>1, <2>2, <2>3
  <1>13. QED
    BY <1>1, <1>2, <1>3, <1>4, <1>5, <1>6, <1>7, <1>8, <1>9, <1>10, <1>11, <1>12 DEF CommitIngest

(* So are the steps of install and ingest outside the store.               *)
LEMMA CallerMine ==
  ASSUME ProcessTypes, NEW r \in Runs, InstallOrIngest(r)
  PROVE  Mine(r)
  <1>. USE DEF Caller, Targeted, Cached, InStore, disk, At
  <1>1. UNCHANGED <<transaction, quarantines>>
    BY CallersKeepStore
  <1>2. UNCHANGED recovery \/ \E said : recovery' = [recovery EXCEPT ![r] = said]
    BY DEF InstallOrIngest, Forward, Backward, Start, RootsOverlap, prepareIngestInstallAt,
       prepareGuardedInstallTransaction, secureCacheDirectory, StageLoader, PromoteLoader, PromoteTarget,
       ValidateTarget, FinalizeTarget, FinalizeStore, UndoTarget, UndoLoader, UndoCache,
       MaterializeCommittedWorktree, FailUncertain, Stop, Report
  <1>m. SUFFICES \E stage \in Stages : Moves(r, stage)
    BY <1>1, <1>2 DEF Mine
  <1>3. CASE Start(r)
    BY <1>3 DEF Start, FailUncertain, Stop, LoaderFailed, Committed, Rejected, Moves, Stages,
       NotYetRooted, NotYetCached
  <1>4. CASE RootsOverlap(r)
    BY <1>4 DEF RootsOverlap, FailUncertain, Stop, LoaderFailed, Committed, Rejected, Moves, Stages,
       NotYetRooted, NotYetCached
  <1>5. CASE prepareIngestInstallAt(r)
    BY <1>5 DEF prepareIngestInstallAt, FailUncertain, Stop, LoaderFailed, Committed, Rejected,
       Moves, Stages,
       NotYetRooted, NotYetCached
  <1>6. CASE prepareGuardedInstallTransaction(r)
    BY <1>6 DEF prepareGuardedInstallTransaction, FailUncertain, Stop, LoaderFailed, Committed,
       Rejected, Moves, Stages,
       NotYetRooted, NotYetCached
  <1>7. CASE secureCacheDirectory(r)
    BY <1>7 DEF secureCacheDirectory, FailUncertain, Stop, LoaderFailed, Committed, Rejected,
       Moves, Stages,
       NotYetRooted, NotYetCached
  <1>8. CASE StageLoader(r)
    BY <1>8 DEF StageLoader, FailUncertain, Stop, LoaderFailed, Committed, Rejected, Moves, Stages,
       NotYetRooted, NotYetCached
  <1>9. CASE PromoteLoader(r)
    BY <1>9 DEF PromoteLoader, FailUncertain, Stop, LoaderFailed, Committed, Rejected, Moves,
       Stages,
       NotYetRooted, NotYetCached
  <1>10. CASE PromoteTarget(r)
    BY <1>10 DEF PromoteTarget, FailUncertain, Stop, LoaderFailed, Committed, Rejected, Moves,
       Stages,
       NotYetRooted, NotYetCached
  <1>11. CASE ValidateTarget(r)
    BY <1>11 DEF ValidateTarget, FailUncertain, Stop, LoaderFailed, Committed, Rejected, Moves,
       Stages,
       NotYetRooted, NotYetCached
  <1>12. CASE FinalizeTarget(r)
    BY <1>12 DEF FinalizeTarget, FailUncertain, Stop, LoaderFailed, Committed, Rejected, Moves,
       Stages,
       NotYetRooted, NotYetCached
  <1>13. CASE FinalizeStore(r)
    BY <1>13 DEF FinalizeStore, FailUncertain, Stop, LoaderFailed, Committed, Rejected, Moves,
       Stages,
       NotYetRooted, NotYetCached
  <1>14. CASE MaterializeCommittedWorktree(r)
    BY <1>14 DEF MaterializeCommittedWorktree, FailUncertain, Stop, LoaderFailed, Committed,
       Rejected, Moves, Stages,
       NotYetRooted, NotYetCached
  <1>15. CASE UndoTarget(r)
    BY <1>15 DEF UndoTarget, FailUncertain, Stop, LoaderFailed, Committed, Rejected, Moves, Stages,
       NotYetRooted, NotYetCached
  <1>16. CASE UndoLoader(r)
    BY <1>16 DEF UndoLoader, RestoredLoader, FailUncertain, Stop, LoaderFailed, Committed, Rejected, Moves, Stages,
       NotYetRooted, NotYetCached
  <1>17. CASE UndoCache(r)
    BY <1>17 DEF UndoCache, RestoredCache, FailUncertain, Stop, LoaderFailed, Committed, Rejected, Moves, Stages,
       NotYetRooted, NotYetCached
  <1>18. QED
    BY <1>3, <1>4, <1>5, <1>6, <1>7, <1>8, <1>9, <1>10, <1>11, <1>12, <1>13, <1>14, <1>15, <1>16,
       <1>17
       DEF InstallOrIngest, Forward, Backward

(* And so is every call of the store, and a death.                         *)
LEMMA StoreMine ==
  ASSUME ProcessTypes, NEW r \in Runs, StoreCall(r) \/ KillStore(r)
  PROVE  Mine(r)
  <1>1. CASE KillStore(r)
    BY <1>1 DEF KillStore, SetTransaction, disk, Mine, Moves, Stages, NotYetRooted, NotYetCached
  <1>2. QED
    BY <1>1, InitForInstallMine, RollbackMine, BeginMine, CommitMine DEF StoreCall

--------------------------------------------------------------------------------
(* How often a directory was made                                          *)

(* A run passes a call once, so the runs past it grow by one.              *)
LEMMA PastGrows ==
  ASSUME NEW CONSTANT stages, \A u \in Runs : pc[u] \notin stages => pc'[u] \notin stages
  PROVE  /\ Cardinality(Past(stages)) \in Nat /\ Cardinality(Past(stages)') \in Nat
         /\ Cardinality(Past(stages)) <= Cardinality(Past(stages)')
         /\ \A r \in Runs : pc[r] \in stages /\ pc'[r] \notin stages =>
              Cardinality(Past(stages)) + 1 <= Cardinality(Past(stages)')
  <1>1. Past(stages) \subseteq Past(stages)' /\ Past(stages)' \subseteq Runs
    BY DEF Past
  <1>2. IsFiniteSet(Past(stages)) /\ IsFiniteSet(Past(stages)')
    BY <1>1, Distinct, FS_Subset
  <1>3. Cardinality(Past(stages)) \in Nat /\ Cardinality(Past(stages)') \in Nat
    BY <1>2, FS_CardinalityType
  <1>4. Cardinality(Past(stages)) <= Cardinality(Past(stages)')
    BY <1>1, <1>2, FS_Subset
  <1>5. ASSUME NEW r \in Runs, pc[r] \in stages, pc'[r] \notin stages
        PROVE  Cardinality(Past(stages)) + 1 <= Cardinality(Past(stages)')
    <2>1. r \notin Past(stages) /\ r \in Past(stages)'
      BY <1>5 DEF Past
    <2>2. Past(stages) \union {r} \subseteq Past(stages)'
      BY <1>1, <2>1
    <2>3. Cardinality(Past(stages) \union {r}) = Cardinality(Past(stages)) + 1
      BY <1>2, <2>1, FS_AddElement
    <2>4. Cardinality(Past(stages) \union {r}) <= Cardinality(Past(stages)')
      BY <1>2, <2>2, FS_Subset
    <2>5. QED
      BY <2>3, <2>4
  <1>6. QED
    BY <1>3, <1>4, <1>5

(* There are no more runs past a call than runs, and fewer while one is    *)
(* still before it.                                                        *)
LEMMA PastBound ==
  ASSUME NEW CONSTANT stages
  PROVE  /\ Cardinality(Past(stages)) \in Nat /\ Cardinality(Past(stages)) <= Cardinality(Runs)
         /\ \A r \in Runs : pc[r] \in stages => Cardinality(Past(stages)) + 1 <= Cardinality(Runs)
  <1>1. Past(stages) \subseteq Runs /\ IsFiniteSet(Past(stages)) /\ IsFiniteSet(Runs)
    BY Distinct, FS_Subset DEF Past
  <1>2. Cardinality(Past(stages)) \in Nat /\ Cardinality(Past(stages)) <= Cardinality(Runs)
    BY <1>1, FS_Subset, FS_CardinalityType
  <1>3. ASSUME NEW r \in Runs, pc[r] \in stages
        PROVE  Cardinality(Past(stages)) + 1 <= Cardinality(Runs)
    <2>1. r \notin Past(stages) /\ Past(stages) \union {r} \subseteq Runs
      BY <1>1, <1>3 DEF Past
    <2>2. Cardinality(Past(stages) \union {r}) = Cardinality(Past(stages)) + 1
      BY <1>1, <2>1, FS_AddElement
    <2>3. QED
      BY <1>1, <2>1, <2>2, FS_Subset
  <1>4. QED
    BY <1>2, <1>3

(* The numbers are those of directories the runs can have seen.            *)
LEMMA CountsAreInodes ==
  ASSUME Counted, CallerTypes
  PROVE  /\ inode \in Inodes
         /\ \A r \in Runs : pc[r] \in NotYetCached => cache.inode + 1 \in Inodes
  <1>1. cache.inode \in Nat /\ Cardinality(Runs) \in Nat
    BY Distinct DEF CallerTypes, Caches, Inodes
  <1>2. inode \in Inodes
    BY <1>1, PastBound DEF Counted, Inodes
  <1>3. ASSUME NEW r \in Runs, pc[r] \in NotYetCached
        PROVE  cache.inode + 1 \in Inodes
    BY <1>1, <1>3, PastBound DEF Counted, Inodes
  <1>4. QED
    BY <1>2, <1>3

(* The store makes at most one root, by a run that was before the call that*)
(* makes it.                                                               *)
LEMMA StoreMakesOne ==
  ASSUME ProcessTypes, NEW r \in Runs, StoreCall(r) \/ KillStore(r)
  PROVE  \/ inode' = inode
         \/ inode' = inode + 1 /\ pc[r] = "git_init" /\ pc'[r] = "seed"
  <1>1. CASE GitInit(r)
    BY <1>1 DEF GitInit, Opening, At, Goto, ProcessTypes
  <1>2. CASE ~GitInit(r) /\ InitForInstall(r)
    BY <1>2 DEF InitForInstall, Inspect, Create, Seed, SeedRef, Seal, InspectFails, InitFails, disk
  <1>3. CASE RollbackInitialization(r)
    BY <1>3 DEF RollbackInitialization, RollbackRefused, RestoreMode, CompareTree, RemoveTree,
       RemoveEntry, RemoveRoot, RemoveFails, Undoing
  <1>4. CASE BeginIngest(r) \/ AbortIngest(r) \/ AbortFails(r)
    BY <1>4 DEF BeginIngest, reserveIngestTransaction, BeginFails, BeginUncertain,
       createIngestQuarantine,
       AbortIngest, AbortFails, Calling
  <1>5. CASE CommitIngest(r)
    BY <1>5 DEF CommitIngest, claimIngestCommit, CheckAuthority, AcquireRootLock,
       prepareIngestCandidate,
       PrepareSession, applyPreparedSecrets, publishCandidateObjects, CommitSession,
       observeDirectRef,
       GuardRef, RestoreGuarded, cleanupCommittedTransaction, Committing
  <1>6. CASE KillStore(r)
    BY <1>6 DEF KillStore, disk
  <1>7. QED
    BY <1>1, <1>2, <1>3, <1>4, <1>5, <1>6 DEF StoreCall

(* A run makes the cache directory at most once.                           *)
LEMMA CallerMakesOne ==
  ASSUME ProcessTypes, CallerTypes, NEW r \in Runs, InstallOrIngest(r)
  PROVE  \/ cache'.inode = cache.inode
         \/ cache'.inode = cache.inode + 1 /\ pc[r] = "cache" /\ pc'[r] = "save"
  <1>1. CASE secureCacheDirectory(r)
    BY <1>1 DEF secureCacheDirectory, Cached, Caller, At, Goto, ProcessTypes, CallerTypes, Caches
  <1>2. CASE StageLoader(r) \/ PromoteLoader(r) \/ UndoLoader(r) \/ UndoCache(r)
    BY <1>2 DEF StageLoader, Secured, PromoteLoader, UndoLoader, RestoredLoader, UndoCache, RestoredCache,
       CallerTypes, Caches
  <1>3. QED
    BY <1>1, <1>2 DEF InstallOrIngest, Forward, Backward, Start, RootsOverlap,
       prepareIngestInstallAt,
       prepareGuardedInstallTransaction, PromoteTarget, ValidateTarget, FinalizeTarget, FinalizeStore,
       MaterializeCommittedWorktree, UndoTarget, Targeted, callerVars

(* The counters stay bounded by the runs past the call.                    *)
LEMMA CountedPreserved ==
  ASSUME Counted, ProcessTypes, CallerTypes, NEW r \in Runs, Mine(r),
         \/ inode' = inode
         \/ inode' = inode + 1 /\ pc[r] = "git_init" /\ pc'[r] = "seed",
         \/ cache'.inode = cache.inode
         \/ cache'.inode = cache.inode + 1 /\ pc[r] = "cache" /\ pc'[r] = "save"
  PROVE  Counted'
  <1>1. /\ \A u \in Runs : pc[u] \notin NotYetRooted => pc'[u] \notin NotYetRooted
        /\ \A u \in Runs : pc[u] \notin NotYetCached => pc'[u] \notin NotYetCached
    BY OthersUntouched
  <1>2. inode \in Nat /\ cache.inode \in Nat
    BY Distinct DEF Counted, CallerTypes, Caches, Inodes
  <1>3. inode' \in Nat /\ inode' <= 1 + Cardinality(Past(NotYetRooted)')
    <2>1. /\ Cardinality(Past(NotYetRooted)) \in Nat /\ Cardinality(Past(NotYetRooted)') \in Nat
          /\ Cardinality(Past(NotYetRooted)) <= Cardinality(Past(NotYetRooted)')
          /\ pc[r] \in NotYetRooted /\ pc'[r] \notin NotYetRooted =>
               Cardinality(Past(NotYetRooted)) + 1 <= Cardinality(Past(NotYetRooted)')
      BY <1>1, PastGrows
    <2>2. "git_init" \in NotYetRooted /\ "seed" \notin NotYetRooted
      BY DEF NotYetRooted
    <2>3. QED
      BY <1>2, <2>1, <2>2 DEF Counted
  <1>4. cache'.inode <= 1 + Cardinality(Past(NotYetCached)')
    <2>1. /\ Cardinality(Past(NotYetCached)) \in Nat /\ Cardinality(Past(NotYetCached)') \in Nat
          /\ Cardinality(Past(NotYetCached)) <= Cardinality(Past(NotYetCached)')
          /\ pc[r] \in NotYetCached /\ pc'[r] \notin NotYetCached =>
               Cardinality(Past(NotYetCached)) + 1 <= Cardinality(Past(NotYetCached)')
      BY <1>1, PastGrows
    <2>2. "cache" \in NotYetCached /\ "save" \notin NotYetCached
      BY DEF NotYetCached, NotYetRooted
    <2>3. QED
      BY <1>2, <2>1, <2>2 DEF Counted
  <1>5. QED
    BY <1>3, <1>4 DEF Counted

--------------------------------------------------------------------------------
(* The root of the store                                                   *)

(* What a step must leave of a run's transaction, in the eyes of others.   *)
Keeps(r) ==
  /\ Known(r) => Known(r)'
  /\ transaction[r].recovery => transaction'[r].recovery \/ pc'[r] = "dead"
  /\ pc[r] = "dead" => pc'[r] = "dead"

(* A step outside CommitIngest: of the tree it leaves main alone, or there *)
(* is no session and no history in what it leaves.  A removal that has     *)
(* begun may take main from under a session, and any object.               *)
LeavesTree ==
  \/ /\ tree'.exists = tree.exists /\ tree'.line = tree.line /\ refLock' \in {refLock, Nobody}
     /\ tree'.main = tree.main \/ (tree'.main = "none" /\ refLock # Nobody)
     /\ \/ tree'.torn # {} /\ tree.exists
        \/ tree'.objects = tree.objects /\ tree'.torn = tree.torn
  \/ TreeInv' /\ tree'.line = {} /\ refLock' = Nobody

(* A step that moves main to no candidate, and no run into or out of       *)
(* CommitIngest, keeps the relations of the root.                          *)
LEMMA QuietRoot ==
  ASSUME RootInv, RootTypes, ProcessTypes, NEW r \in Runs, Mine(r),
         pc[r] \notin InCommit, pc'[r] \notin InCommit, UNCHANGED <<rootLock, landed>>,
         LeavesTree, Keeps(r), transaction'[r].baseline # r,
         transaction'[r].status = "committed" => transaction[r].status = "committed"
  PROVE  RootInv'
  <1>1. \A u \in Runs \ {r} : pc'[u] = pc[u] /\ transaction'[u] = transaction[u]
    BY OthersUntouched
  <1>2. refLock # r
    BY DEF RootInv, LockInv, Sessions, InCommit
  <1>3. LockInv'
    BY <1>1, <1>2, Distinct DEF RootInv, LockInv, LeavesTree, Sessions, InCommit
  <1>4. TreeInv'
    BY Distinct DEF RootInv, TreeInv, LeavesTree
  <1>5. SessionInv'
    BY <1>1, <1>2, Distinct DEF RootInv, SessionInv, LeavesTree
  <1>6. LineInv'
    <2>1. \A u \in Runs \ {r} : Known(u)' <=> Known(u)
      BY <1>1 DEF Known
    <2>2. r \in tree.line => Known(r)'
      BY DEF RootInv, LineInv, Keeps, InCommit
    <2>3. \A u \in Runs : u \in tree'.line =>
            u \in tree.line /\ (tree'.main = tree.main \/ refLock # Nobody)
      BY DEF LeavesTree
    <2>4. \A u \in Runs : pc[u] = "observe" => refLock = Nobody
      BY DEF RootInv, RootTypes, LockInv, Sessions, InCommit
    <2>5. QED
      BY <1>1, <2>1, <2>2, <2>3, <2>4 DEF RootInv, LineInv
  <1>7. QED
    BY <1>3, <1>4, <1>5, <1>6 DEF RootInv

QuietStep(r) ==
  /\ pc[r] \notin InCommit \union {"dead"} /\ pc'[r] \notin InCommit \union {"dead"}
  /\ UNCHANGED <<rootLock, landed, secrets>>
  /\ LeavesTree /\ Keeps(r) /\ transaction'[r].baseline # r
  /\ transaction'[r].status = "committed" => transaction[r].status = "committed"

(* A run whose transaction stays is known to as many as before.            *)
LEMMA TransactionKept ==
  ASSUME RootInv, NEW r \in Runs, UNCHANGED transaction, pc[r] # "dead"
  PROVE  /\ Keeps(r) /\ transaction'[r].baseline # r
         /\ transaction'[r].status = "committed" => transaction[r].status = "committed"
  BY DEF Keeps, Known, RootInv, LineInv

(* Which steps are of that kind: InitForInstall, where SeedRef may throw a *)
(* history away and none of its runs is forgotten,                         *)
LEMMA InitForInstallQuiet ==
  ASSUME RootInv, RootTypes, ProcessTypes, NEW r \in Runs, InitForInstall(r)
  PROVE  QuietStep(r)
  <1>1. pc[r] \in {"inspect", "create", "git_init", "seed", "seed_ref", "seal"}
        /\ UNCHANGED <<rootLock, landed, secrets, transaction>>
    BY DEF InitForInstall, Inspect, Create, GitInit, Seed, SeedRef, Seal, InspectFails, InitFails,
       Opening, At, disk, locks
  <1>2. pc'[r] \in {"create", "git_init", "seed", "seed_ref", "seal", "begin", "undo_store", "failed"}
    BY DEF InitForInstall, Inspect, Create, GitInit, Seed, SeedRef, Seal, InspectFails, InitFails,
       Goto, ProcessTypes
  <1>3. LeavesTree
    <2>1. CASE UNCHANGED <<tree, refLock>>
      BY <2>1 DEF LeavesTree
    <2>2. CASE Create(r)
      BY <2>2 DEF Create, Opening, locks, LeavesTree, RootTypes, Trees
    <2>3. CASE GitInit(r) /\ tree' = Bare /\ ~tree.exists
      BY <2>3, Distinct DEF GitInit, Opening, locks, LeavesTree, Bare, Absent, RootInv, LockInv,
         TreeInv, RootTypes
    <2>4. CASE SeedRef(r)
      BY <2>4, Distinct DEF SeedRef, Opening, locks, LeavesTree, RootInv, TreeInv, RootTypes, Trees
    <2>5. QED
      BY <2>1, <2>2, <2>3, <2>4 DEF InitForInstall, Inspect, GitInit, Seed, Seal, InspectFails,
         InitFails,
         Opening, disk, locks
  <1>4. QED
    BY <1>1, <1>2, <1>3, TransactionKept DEF QuietStep, InCommit

(* the rollback, which may take the root away,                             *)
LEMMA RollbackQuiet ==
  ASSUME RootInv, RootTypes, ProcessTypes, NEW r \in Runs, RollbackInitialization(r)
  PROVE  QuietStep(r)
  <1>1. pc[r] \in {"undo_store", "removing"} /\ UNCHANGED <<rootLock, landed, secrets, transaction>>
    BY DEF RollbackInitialization, RollbackRefused, RestoreMode, CompareTree, RemoveTree, RemoveEntry,
       RemoveRoot, RemoveFails, Undoing, Own, At
  <1>2. pc'[r] \in {"removing", "failed"}
    BY DEF RollbackInitialization, RollbackRefused, RestoreMode, CompareTree, RemoveTree, RemoveEntry,
       RemoveRoot, RemoveFails, EndUndo, Undoing, Own, At, Goto, ProcessTypes
  <1>3. LeavesTree
    <2>1. CASE UNCHANGED <<tree, refLock>>
      BY <2>1 DEF LeavesTree
    <2>2. CASE RestoreMode(r)
      BY <2>2 DEF RestoreMode, LeavesTree, RootTypes, Trees
    <2>3. CASE tree' = Absent /\ refLock' = Nobody
      BY <2>3, <1>1, Distinct DEF LeavesTree, Absent, TreeInv
    <2>4. CASE RemoveEntry(r)
      <3>1. /\ tree.exists /\ tree'.exists /\ r \in tree'.torn
            /\ refLock' \in {refLock, Nobody}
            /\ \/ tree'.main = tree.main /\ tree'.line = tree.line
               \/ tree'.main = "none" /\ tree'.line = tree.line /\ refLock # Nobody
               \/ tree'.main = "none" /\ tree'.line = {} /\ refLock' = Nobody
        BY <2>4 DEF RemoveEntry, RootTypes, Trees
      <3>2. QED
        BY <3>1, Distinct DEF LeavesTree, TreeInv
    <2>5. QED
      BY <2>1, <2>2, <2>3, <2>4 DEF RollbackInitialization, RollbackRefused, CompareTree, RemoveTree,
         RemoveRoot, RemoveFails
  <1>4. QED
    BY <1>1, <1>2, <1>3, TransactionKept DEF QuietStep, InCommit

(* BeginIngest and AbortIngest,                                            *)
LEMMA BeginQuiet ==
  ASSUME RootInv, RootTypes, ProcessTypes, NEW r \in Runs, Local(r),
         At(r, "begin") => run[r].kind = "ingest", BeginIngest(r) \/ AbortIngest(r) \/ AbortFails(r)
  PROVE  QuietStep(r)
  <1>. USE DEF Calling, Own, At
  <1>t. transaction \in [Runs -> Transaction] /\ transaction[r] \in Transaction /\ pc \in [Runs -> Stages]
    BY DEF ProcessTypes
  <1>1. pc[r] \in {"begin", "quarantine", "abort"} /\ UNCHANGED <<rootLock, landed, secrets, tree, refLock>>
    BY DEF BeginIngest, reserveIngestTransaction, BeginFails, BeginUncertain,
       createIngestQuarantine,
       AbortIngest, AbortFails
  <1>2. pc'[r] \in {"quarantine", "failed", "undo_store", "prepare", "undo_loader"}
    BY <1>t DEF BeginIngest, reserveIngestTransaction, BeginFails, BeginUncertain,
       createIngestQuarantine,
       AbortIngest, AbortFails, Goto, Fail, FailUncertain
  <1>3. LeavesTree
    BY <1>1 DEF LeavesTree
  <1>4. transaction[r].status = "none" /\ ~transaction[r].recovery
    BY <1>1 DEF Local, LocalTransaction, Early, Preparing, NewTransaction
  <1>5. transaction'[r].status # "committed" /\ transaction'[r].baseline # r
    <2>1. r \notin tree.line
      BY <1>1, <1>4 DEF RootInv, LineInv, Known
    <2>2. transaction[r].baseline # r
      BY DEF RootInv, LineInv
    <2>3. CASE reserveIngestTransaction(r)
      <3>1. CASE UNCHANGED transaction
        BY <1>4, <2>2, <3>1
      <3>2. CASE SetTransaction(r, [NewTransaction EXCEPT !.state = "provisional", !.baseline = tree.main])
        <4>1. tree.main # r
          BY <2>1, <2>3 DEF reserveIngestTransaction, RootInv, TreeInv
        <4>2. QED
          BY <1>t, <3>2, <4>1 DEF SetTransaction, NewTransaction
      <3>3. QED
        BY <2>3, <3>1, <3>2 DEF reserveIngestTransaction
    <2>4. ASSUME NEW t, transaction' = [transaction EXCEPT ![r] = t],
                 t.baseline = transaction[r].baseline, t.status \in {"none", "not_committed"}
          PROVE  transaction'[r].status # "committed" /\ transaction'[r].baseline # r
      BY <1>t, <2>2, <2>4
    <2>5. ASSUME NEW unclean, terminalizeBeginFailure(r, unclean)
          PROVE  transaction'[r].status # "committed" /\ transaction'[r].baseline # r
      <3>. DEFINE t == [transaction[r] EXCEPT !.state = "terminal", !.status = "not_committed", !.recovery = unclean]
      <3>1. t.baseline = transaction[r].baseline /\ t.status = "not_committed"
        BY <1>t DEF Transaction
      <3>2. transaction' = [transaction EXCEPT ![r] = t]
        BY <2>5 DEF terminalizeBeginFailure, SetTransaction
      <3>. HIDE DEF t
      <3>3. QED
        BY <2>4, <3>1, <3>2
    <2>6. CASE BeginFails(r) \/ BeginUncertain(r)
      BY <2>5, <2>6 DEF BeginFails, BeginUncertain
    <2>8. CASE createIngestQuarantine(r)
      <3>. DEFINE t == [transaction[r] EXCEPT !.state = "active"]
      <3>1. t.baseline = transaction[r].baseline /\ t.status = transaction[r].status
        BY <1>t DEF Transaction
      <3>2. transaction' = [transaction EXCEPT ![r] = t]
        BY <2>8 DEF createIngestQuarantine, SetTransaction
      <3>. HIDE DEF t
      <3>3. QED
        BY <1>4, <2>4, <3>1, <3>2
    <2>9. CASE AbortIngest(r)
      <3>. DEFINE t == [transaction[r] EXCEPT !.state = "terminal", !.status = "not_committed"]
      <3>1. t.baseline = transaction[r].baseline /\ t.status = "not_committed"
        BY <1>t DEF Transaction
      <3>2. transaction' = [transaction EXCEPT ![r] = t]
        BY <2>9 DEF AbortIngest, SetTransaction
      <3>. HIDE DEF t
      <3>3. QED
        BY <2>4, <3>1, <3>2
    <2>10. CASE AbortFails(r)
      <3>1. CASE UNCHANGED transaction
        BY <1>4, <2>2, <3>1
      <3>2. CASE terminalizeBeginFailure(r, TRUE)
        BY <2>5, <3>2
      <3>3. QED
        BY <2>10, <3>1, <3>2 DEF AbortFails, terminalizeBeginFailure
    <2>11. QED
      BY <2>3, <2>6, <2>8, <2>9, <2>10 DEF BeginIngest
  <1>6. Keeps(r)
    BY <1>1, <1>4 DEF Keeps, Known
  <1>7. QED
    BY <1>1, <1>2, <1>3, <1>5, <1>6 DEF QuietStep, InCommit

(* and everything outside the store.                                       *)
LEMMA CallerQuiet ==
  ASSUME RootInv, ProcessTypes, NEW r \in Runs, InstallOrIngest(r)
  PROVE  QuietStep(r)
  <1>1. UNCHANGED InStore
    BY CallersKeepStore
  <1>2. pc[r] \in {"idle", "begin", "prepare", "lock", "cache", "save", "loader", "target", "validate",
                   "finalize_target", "decided", "finalize_store", "materialize", "undo_target", "undo_loader",
                   "undo_cache"}
    BY DEF InstallOrIngest, Forward, Backward, Start, RootsOverlap, prepareIngestInstallAt,
       prepareGuardedInstallTransaction, secureCacheDirectory, StageLoader, PromoteLoader, PromoteTarget,
       ValidateTarget, FinalizeTarget, FinalizeStore, UndoTarget, UndoLoader, UndoCache,
       MaterializeCommittedWorktree, Caller, Targeted, Cached, Committed, Rejected, At
  <1>3. pc'[r] \in {"inspect", "failed", "undo_store", "lock", "undo_target", "cache", "save", "loader", "target",
                    "validate", "finalize_store", "undo_loader", "claim", "ok", "finalize_target", "materialize",
                    "abort", "undo_cache"}
    <2>1. \A stage : Goto(r, stage) => pc'[r] = stage
      BY DEF Goto, ProcessTypes
    <2>2. QED
      BY <2>1 DEF InstallOrIngest, Forward, Backward, Start, RootsOverlap, prepareIngestInstallAt,
         prepareGuardedInstallTransaction, secureCacheDirectory, StageLoader, PromoteLoader, PromoteTarget,
         ValidateTarget, FinalizeTarget, FinalizeStore, UndoTarget, UndoLoader, UndoCache,
         MaterializeCommittedWorktree, FailUncertain, LoaderFailed, Stop
  <1>4. LeavesTree /\ UNCHANGED <<rootLock, landed, secrets, transaction>>
    BY <1>1 DEF LeavesTree, InStore, disk, locks
  <1>5. QED
    BY <1>2, <1>3, <1>4, TransactionKept DEF QuietStep, InCommit

(* They leave the keychain as it was.                                      *)
LEMMA QuietSecrets ==
  ASSUME SecretInv, RootInv, ProcessTypes, NEW r \in Runs, Mine(r), UNCHANGED secrets,
         pc[r] \notin Applied, pc'[r] \notin Applied, Keeps(r), tree'.main = tree.main \/ tree'.main \notin Runs
  PROVE  SecretInv'
  <1>1. \A u \in Runs \ {r} : pc'[u] = pc[u] /\ transaction'[u] = transaction[u]
    BY OthersUntouched
  <1>2. \A u \in Runs : Known(u) => Known(u)'
    BY <1>1 DEF Known, Keeps
  <1>3. Told => Told'
    BY <1>1 DEF Told, Keeps
  <1>4. QED
    BY <1>1, <1>2, <1>3 DEF SecretInv

(* Both relations are kept by such a step.                                 *)
LEMMA QuietPreserves ==
  ASSUME SecretInv, RootInv, RootTypes, ProcessTypes, NEW r \in Runs, Mine(r), QuietStep(r)
  PROVE  RootInv' /\ SecretInv'
  <1>1. RootInv'
    BY QuietRoot DEF QuietStep
  <1>2. tree'.main = tree.main \/ tree'.main \notin Runs
    BY Distinct DEF QuietStep, LeavesTree, TreeInv
  <1>3. SecretInv'
    BY <1>2, QuietSecrets DEF QuietStep, Applied, InCommit
  <1>4. QED
    BY <1>1, <1>3

(* A death gives back the locks and makes the run known.                   *)
LEMMA KillPreserves ==
  ASSUME SecretInv, RootInv, RootTypes, ProcessTypes, NEW r \in Runs, Mine(r), KillStore(r)
  PROVE  RootInv' /\ SecretInv'
  <1>1. \A u \in Runs \ {r} : pc'[u] = pc[u] /\ transaction'[u] = transaction[u]
    BY OthersUntouched
  <1>2. /\ pc'[r] = "dead" /\ transaction'[r] = NewTransaction /\ UNCHANGED <<tree, secrets, landed>>
        /\ rootLock' = (IF rootLock = r THEN Nobody ELSE rootLock)
        /\ refLock' = (IF refLock = r THEN Nobody ELSE refLock)
    BY DEF KillStore, Goto, disk, ProcessTypes
  <1>3. LockInv'
    BY <1>1, <1>2, Distinct DEF RootInv, LockInv, Sessions, InCommit
  <1>4. TreeInv'
    BY <1>2 DEF RootInv, TreeInv
  <1>5. SessionInv'
    BY <1>1, <1>2, Distinct DEF RootInv, SessionInv
  <1>6. LineInv'
    <2>1. Known(r)' /\ \A u \in Runs \ {r} : Known(u)' <=> Known(u)
      BY <1>1, <1>2 DEF Known
    <2>2. transaction'[r].status = "none" /\ transaction'[r].baseline = "none"
      BY <1>2 DEF NewTransaction
    <2>3. QED
      BY <1>1, <1>2, <2>1, <2>2, Distinct DEF RootInv, LineInv
  <1>7. Told' /\ Known(r)' /\ \A u \in Runs \ {r} : Known(u) => Known(u)'
    BY <1>1, <1>2 DEF Told, Known
  <1>8. SecretInv'
    BY <1>1, <1>2, <1>7 DEF SecretInv, Applied
  <1>9. QED
    BY <1>3, <1>4, <1>5, <1>6, <1>8 DEF RootInv

(* A worktree commit of a shell keeps the history of main, and moves main  *)
(* only while no session has it locked.                                    *)
LEMMA ShellPreserves ==
  ASSUME SecretInv, RootInv, RootTypes, ProcessTypes, CommitWorktree
  PROVE  RootInv' /\ SecretInv' /\ RootTypes' /\ ProcessTypes'
  <1>1. /\ tree'.exists = tree.exists /\ tree'.main = "moved" /\ tree'.objects = tree.objects \union {"moved"}
        /\ tree'.line = tree.line /\ tree' \in Trees
    BY DEF CommitWorktree, RootTypes, Trees, Commits
  <1>2. /\ tree.main \in tree.objects /\ refLock = Nobody
        /\ \A u \in Runs : transaction[u].baseline # "moved"
        /\ UNCHANGED <<inode, secrets, quarantines, landed, rootLock, refLock, initialization, transaction, pc,
                       recovery, faults>>
    BY DEF CommitWorktree, Readable, locks
  <1>3. RootTypes' /\ ProcessTypes'
    BY <1>1, <1>2 DEF RootTypes, ProcessTypes
  <1>4. LockInv' /\ TreeInv' /\ SessionInv'
    BY <1>1, <1>2, Distinct DEF RootInv, LockInv, TreeInv, SessionInv
  <1>5. \A u \in Runs : Known(u)' <=> Known(u)
    BY <1>2 DEF Known
  <1>6. LineInv'
    BY <1>1, <1>2, <1>5, Distinct DEF RootInv, LineInv
  <1>7. SecretInv'
    <2>1. Told' <=> Told
      BY <1>2 DEF Told
    <2>2. QED
      BY <1>1, <1>2, <1>5, <2>1, Distinct DEF SecretInv
  <1>8. QED
    BY <1>3, <1>4, <1>6, <1>7 DEF RootInv

--------------------------------------------------------------------------------
(* CommitIngest                                                            *)

(* What RootInv says of one run.                                           *)
OwnRoot(r) ==
  /\ refLock = r => pc[r] \in Sessions \union {"guarded"} /\ tree.exists
  /\ refLock = r /\ pc[r] = "commit" => r \in tree.objects \/ tree.torn # {}
  /\ r \in tree.line =>
       Known(r) \/ (/\ pc[r] = "observe"
                    /\ tree.main = r \/ (tree.main = "moved" /\ transaction[r].baseline # "moved"))
  /\ transaction[r].status = "committed" => r \in landed
  /\ transaction[r].baseline # r

(* Whoever is at the lock of the root, or has it, has it alone.            *)
Alone(r) == pc[r] \in InCommit \/ (pc[r] = "root_lock" /\ rootLock = Nobody)

(* Only one run is in CommitIngest.                                        *)
LEMMA OneInCommit ==
  ASSUME RootInv, RootTypes, NEW r \in Runs, Alone(r)
  PROVE  /\ \A u \in Runs \ {r} : pc[u] \notin InCommit
         /\ refLock \in {r, Nobody} /\ rootLock \in {r, Nobody}
         /\ pc[r] \in InCommit => rootLock = r
  <1>1. \A u \in Runs \ {r} : pc[u] \notin InCommit
    BY Distinct DEF Alone, RootInv, LockInv
  <1>2. \A u \in Runs \ {r} : refLock # u /\ rootLock # u
    BY <1>1 DEF RootInv, LockInv, Sessions, InCommit
  <1>3. pc[r] \in InCommit => rootLock = r
    BY DEF RootInv, LockInv
  <1>4. QED
    BY <1>1, <1>2, <1>3 DEF RootTypes

(* A step of CommitIngest keeps the relations of the root when it keeps    *)
(* those of its own run.                                                   *)
LEMMA CommitRoot ==
  ASSUME RootInv, RootTypes, ProcessTypes, NEW r \in Runs, Mine(r), Alone(r), OwnRoot(r)', TreeInv',
         pc'[r] # "dead", refLock' \in {refLock, r, Nobody},
         rootLock' = (IF pc'[r] \in InCommit THEN r ELSE Nobody),
         tree'.line \subseteq tree.line \union {r}, landed \subseteq landed'
  PROVE  RootInv'
  <1>1. \A u \in Runs \ {r} : pc'[u] = pc[u] /\ transaction'[u] = transaction[u]
    BY OthersUntouched
  <1>2. /\ \A u \in Runs \ {r} : pc[u] \notin InCommit
        /\ refLock' \in {r, Nobody}
    BY OneInCommit
  <1>3. LockInv'
    BY <1>1, <1>2, Distinct DEF LockInv, OwnRoot, Sessions, InCommit
  <1>4. SessionInv'
    BY <1>1, <1>2, Distinct DEF SessionInv, OwnRoot
  <1>5. LineInv'
    <2>1. ASSUME NEW u \in Runs \ {r}
          PROVE  /\ u \in tree'.line => Known(u)'
                 /\ transaction'[u].status = "committed" => u \in landed'
                 /\ transaction'[u].baseline # u
      <3>1. Known(u)' <=> Known(u)
        BY <1>1 DEF Known
      <3>2. pc[u] # "observe"
        BY <1>2 DEF InCommit
      <3>3. QED
        BY <1>1, <3>1, <3>2 DEF RootInv, LineInv
    <2>2. QED
      BY <2>1 DEF LineInv, OwnRoot
  <1>6. QED
    BY <1>3, <1>4, <1>5 DEF RootInv

(* A run that nobody knows and that is not about to look has no candidate  *)
(* in the history.                                                         *)
LEMMA NotInHistory ==
  ASSUME RootInv, NEW r \in Runs, Local(r), pc[r] \in Trying
  PROVE  /\ transaction[r].status = "none" /\ ~transaction[r].recovery /\ ~Known(r)
         /\ pc[r] # "observe" => r \notin tree.line /\ tree.main # r
         /\ transaction[r].baseline # r
  <1>1. transaction[r].status = "none" /\ ~transaction[r].recovery
    BY DEF Local, LocalTransaction
  <1>2. pc[r] # "dead"
    BY DEF Trying, InCommit
  <1>3. QED
    BY <1>1, <1>2 DEF Known, RootInv, LineInv, TreeInv

(* The call ends and gives back its locks.                                 *)
LEMMA DecideRoot ==
  ASSUME RootInv, RootTypes, ProcessTypes, NEW r \in Runs, Mine(r), Local(r), pc[r] \in InCommit,
         NEW status, NEW uncertain \in BOOLEAN, Decide(r, status, uncertain),
         TreeInv', tree'.line \subseteq tree.line \union {r}, landed \subseteq landed',
         r \in tree'.line => status = "committed" \/ uncertain,
         status = "committed" => r \in landed'
  PROVE  RootInv'
  <1>1. /\ transaction'[r].status = status
        /\ transaction'[r].recovery <=> (transaction[r].recovery \/ uncertain)
        /\ transaction'[r].baseline = transaction[r].baseline
        /\ pc'[r] = IF uncertain THEN "decided" ELSE "cleanup"
    BY DecideEffect
  <1>2. rootLock = r /\ refLock \in {r, Nobody} /\ Alone(r)
    BY OneInCommit DEF Alone
  <1>3. rootLock' = Nobody /\ refLock' = Nobody
    BY <1>2 DEF Decide
  <1>4. pc'[r] \notin InCommit /\ pc'[r] # "dead"
    BY <1>1 DEF InCommit
  <1>5. transaction[r].baseline # r
    BY DEF RootInv, LineInv
  <1>6. OwnRoot(r)'
    BY <1>1, <1>3, <1>5, Distinct DEF OwnRoot, Known
  <1>7. QED
    BY <1>2, <1>3, <1>4, <1>6, CommitRoot

(* The secrets, while the call has put its own there.                      *)
LEMMA SecretsWithin ==
  ASSUME SecretInv, RootInv, RootTypes, ProcessTypes, NEW r \in Runs, Mine(r), UNCHANGED secrets,
         pc[r] \in Applied, pc'[r] \in Applied, UNCHANGED transaction,
         tree'.main = tree.main \/ tree'.main = r
  PROVE  SecretInv'
  <1>1. \A u \in Runs \ {r} : pc'[u] = pc[u]
    BY OthersUntouched
  <1>2. \A u \in Runs \ {r} : pc[u] \notin Applied
    BY OneInCommit DEF Alone, Applied, InCommit
  <1>3. \A u \in Runs : Known(u)' <=> Known(u)
    BY <1>1 DEF Known, Applied
  <1>4. Told' <=> Told
    BY <1>1 DEF Told, Applied
  <1>5. QED
    BY <1>1, <1>2, <1>3, <1>4 DEF SecretInv

(* The call ends: its secrets stay with its commit, or those it found are  *)
(* back, or somebody is told.                                              *)
LEMMA SecretsLeave ==
  ASSUME SecretInv, RootInv, RootTypes, ProcessTypes, NEW r \in Runs, Mine(r),
         pc[r] \in Applied, pc'[r] \notin Applied, Keeps(r),
         \/ transaction'[r].recovery /\ secrets' \in {secrets, transaction[r].prior}
         \/ secrets' = transaction[r].prior /\ tree'.main = tree.main /\ tree.main # r
         \/ secrets' = secrets /\ transaction'[r].status = "committed" /\ tree'.main = r
  PROVE  SecretInv'
  <1>1. \A u \in Runs \ {r} : pc'[u] = pc[u] /\ transaction'[u] = transaction[u]
    BY OthersUntouched
  <1>2. \A u \in Runs \ {r} : pc[u] \notin Applied
    BY OneInCommit DEF Alone, Applied, InCommit
  <1>3. \A u \in Runs : pc'[u] \notin Applied
    BY <1>1, <1>2
  <1>4. \A u \in Runs : Known(u) => Known(u)'
    BY <1>1 DEF Known, Keeps
  <1>5. Told => Told'
    BY <1>1 DEF Told, Keeps
  <1>6. transaction'[r].recovery => Told'
    BY DEF Told
  <1>7. secrets = r /\ \A v \in Runs : transaction[r].prior = v => Known(v)
    BY DEF SecretInv
  <1>8. CASE transaction'[r].recovery /\ secrets' \in {secrets, transaction[r].prior}
    BY <1>3, <1>4, <1>6, <1>7, <1>8 DEF SecretInv, Known
  <1>9. CASE secrets' = transaction[r].prior /\ tree'.main = tree.main /\ tree.main # r
    <2>1. ~Told /\ tree.main \in Runs => transaction[r].prior = tree.main
      BY <1>9 DEF SecretInv
    <2>2. QED
      BY <1>3, <1>4, <1>5, <1>7, <1>9, <2>1 DEF SecretInv
  <1>10. CASE secrets' = secrets /\ transaction'[r].status = "committed" /\ tree'.main = r
    BY <1>3, <1>4, <1>7, <1>10 DEF SecretInv, Known
  <1>11. QED
    BY <1>8, <1>9, <1>10

Before == {"authority", "root_lock", "candidate", "session", "secrets"}

(* A decision before the secrets are written leaves them alone.            *)
LEMMA DecideBefore ==
  ASSUME RootInv, SecretInv, RootTypes, ProcessTypes, NEW r \in Runs, Mine(r), Local(r), pc[r] \in Before,
         NEW status, status # "committed", NEW uncertain \in BOOLEAN, Decide(r, status, uncertain),
         UNCHANGED <<tree, landed, secrets>>
  PROVE  RootInv' /\ SecretInv'
  <1>1. /\ transaction'[r].status = status /\ transaction'[r].baseline = transaction[r].baseline
        /\ pc'[r] = IF uncertain THEN "decided" ELSE "cleanup"
    BY DecideEffect
  <1>2. pc[r] \in Trying /\ pc[r] # "observe" /\ pc[r] \notin Applied
    BY DEF Before, Trying, InCommit, Applied
  <1>3. ~transaction[r].recovery /\ ~Known(r) /\ r \notin tree.line /\ transaction[r].baseline # r
    BY <1>2, NotInHistory
  <1>4. Keeps(r)
    BY <1>3 DEF Keeps, Known
  <1>5. pc'[r] \notin InCommit \union {"dead"} \union Applied
    BY <1>1 DEF InCommit, Applied
  <1>6. CASE pc[r] \in InCommit
    <2>1. RootInv'
      <3>1. TreeInv'
        BY DEF RootInv, TreeInv
      <3>2. QED
        BY <1>3, <1>6, <3>1, DecideRoot
    <2>2. SecretInv'
      BY <1>2, <1>4, <1>5, QuietSecrets
    <2>3. QED
      BY <2>1, <2>2
  <1>7. CASE pc[r] \notin InCommit
    <2>1. rootLock # r /\ refLock # r
      BY <1>7 DEF RootInv, LockInv, Sessions, InCommit
    <2>2. UNCHANGED <<rootLock, refLock>>
      BY <2>1 DEF Decide
    <2>3. QuietStep(r)
      BY <1>1, <1>2, <1>3, <1>4, <1>5, <1>7, <2>2 DEF QuietStep, LeavesTree, Trying
    <2>4. QED
      BY <2>3, QuietPreserves
  <1>8. QED
    BY <1>6, <1>7

(* The call gives up, and takes its secrets back.                          *)
LEMMA DecideRestored ==
  ASSUME RootInv, SecretInv, RootTypes, ProcessTypes, NEW r \in Runs, Mine(r), Local(r),
         pc[r] \in Applied, pc[r] # "observe", UNCHANGED <<tree, landed>>,
         \/ Restored(r) /\ Decide(r, "not_committed", FALSE)
         \/ Unrestored(r) /\ \E status \in {"not_committed", "recovery"} : Decide(r, status, TRUE)
         \/ UNCHANGED secrets /\ Decide(r, "recovery", TRUE)
  PROVE  RootInv' /\ SecretInv'
  <1>1. pc[r] \in Trying /\ pc[r] \in InCommit
    BY DEF Applied, Trying, InCommit
  <1>2. ~transaction[r].recovery /\ ~Known(r) /\ r \notin tree.line /\ tree.main # r
    BY <1>1, NotInHistory
  <1>3. Keeps(r)
    BY <1>1, <1>2 DEF Keeps, Trying, InCommit
  <1>4. TreeInv'
    BY DEF RootInv, TreeInv
  <1>5. secrets = r
    BY DEF SecretInv
  <1>6. ASSUME NEW status, NEW uncertain \in BOOLEAN, Decide(r, status, uncertain), status # "committed"
        PROVE  /\ RootInv' /\ pc'[r] \notin Applied
               /\ transaction'[r].recovery <=> uncertain
    <2>1. RootInv'
      BY <1>1, <1>2, <1>4, <1>6, DecideRoot
    <2>2. /\ pc'[r] = IF uncertain THEN "decided" ELSE "cleanup"
          /\ transaction'[r].recovery <=> (transaction[r].recovery \/ uncertain)
      BY <1>6, DecideEffect
    <2>3. QED
      BY <1>2, <2>1, <2>2 DEF Applied
  <1>7. CASE Restored(r) /\ Decide(r, "not_committed", FALSE)
    <2>1. RootInv' /\ pc'[r] \notin Applied
      BY <1>6, <1>7
    <2>2. SecretInv'
      BY <1>2, <1>3, <1>7, <2>1, SecretsLeave DEF Restored
    <2>3. QED
      BY <2>1, <2>2
  <1>8. ASSUME NEW status, status # "committed", Decide(r, status, TRUE),
               secrets' \in {secrets, transaction[r].prior}
        PROVE  RootInv' /\ SecretInv'
    <2>1. RootInv' /\ pc'[r] \notin Applied /\ transaction'[r].recovery
      BY <1>6, <1>8
    <2>2. SecretInv'
      BY <1>3, <1>8, <2>1, SecretsLeave
    <2>3. QED
      BY <2>1, <2>2
  <1>9. CASE Unrestored(r) /\ \E status \in {"not_committed", "recovery"} : Decide(r, status, TRUE)
    BY <1>5, <1>8, <1>9 DEF Unrestored
  <1>10. CASE UNCHANGED secrets /\ Decide(r, "recovery", TRUE)
    BY <1>8, <1>10
  <1>11. QED
    BY <1>7, <1>9, <1>10

(* The steps of CommitIngest up to applyPreparedSecrets.                   *)
LEMMA CommitBeforeSecrets ==
  ASSUME RootInv, SecretInv, RootTypes, ProcessTypes, NEW r \in Runs, Mine(r), Local(r),
         \/ claimIngestCommit(r) \/ CheckAuthority(r) \/ AcquireRootLock(r) \/ prepareIngestCandidate(r)
         \/ PrepareSession(r) \/ cleanupCommittedTransaction(r)
  PROVE  RootInv' /\ SecretInv'
  <1>. USE DEF Committing, Own, At
  <1>t. /\ pc \in [Runs -> Stages] /\ transaction \in [Runs -> Transaction] /\ transaction[r] \in Transaction
        /\ \A stage : Goto(r, stage) => pc'[r] = stage
    BY DEF ProcessTypes, Goto
  <1>o. TreeInv /\ (UNCHANGED <<tree, landed>> => TreeInv')
    BY DEF RootInv, TreeInv
  <1>d. ASSUME pc[r] \in Before, UNCHANGED <<tree, landed, secrets>>,
               \E status \in {"recovery", "not_committed", "conflict"} :
                 Decide(r, status, TRUE) \/ Decide(r, status, FALSE)
        PROVE  RootInv' /\ SecretInv'
    <2>1. PICK status \in {"recovery", "not_committed", "conflict"} :
            Decide(r, status, TRUE) \/ Decide(r, status, FALSE)
      BY <1>d
    <2>2. CASE Decide(r, status, TRUE)
      BY <1>d, <2>2, DecideBefore
    <2>3. CASE Decide(r, status, FALSE)
      BY <1>d, <2>3, DecideBefore
    <2>4. QED
      BY <2>1, <2>2, <2>3
  <1>1. CASE claimIngestCommit(r)
    <2>1. pc[r] = "claim" /\ pc'[r] \in {"authority", "undo_target"} /\ UNCHANGED <<disk, locks>>
      BY <1>1, <1>t DEF claimIngestCommit
    <2>2. /\ transaction'[r].status = transaction[r].status /\ transaction'[r].baseline = transaction[r].baseline
          /\ transaction'[r].recovery = transaction[r].recovery
      BY <1>1, <1>t DEF claimIngestCommit, SetTransaction, Transaction
    <2>3. transaction[r].baseline # r
      BY DEF RootInv, LineInv
    <2>4. QuietStep(r)
      BY <2>1, <2>2, <2>3 DEF QuietStep, LeavesTree, Keeps, Known, InCommit, disk, locks
    <2>5. QED
      BY <2>4, QuietPreserves
  <1>2. CASE CheckAuthority(r)
    <2>1. pc[r] = "authority" /\ UNCHANGED <<tree, landed, secrets>>
      BY <1>2 DEF CheckAuthority
    <2>2. CASE Proceed(r, "root_lock")
      <3>1. pc'[r] = "root_lock" /\ UNCHANGED <<transaction, locks>>
        BY <1>t, <2>2 DEF Proceed
      <3>2. QuietStep(r)
        BY <2>1, <3>1, TransactionKept DEF QuietStep, LeavesTree, InCommit, locks
      <3>3. QED
        BY <3>2, QuietPreserves
    <2>3. CASE ~Proceed(r, "root_lock")
      BY <1>2, <1>d, <2>1, <2>3 DEF CheckAuthority, Before
    <2>4. QED
      BY <2>2, <2>3
  <1>3. CASE AcquireRootLock(r)
    <2>1. pc[r] = "root_lock" /\ UNCHANGED <<tree, landed, secrets>>
      BY <1>3 DEF AcquireRootLock
    <2>2. CASE rootLock = Nobody /\ rootLock' = r /\ UNCHANGED <<refLock, transaction>> /\ Goto(r, "candidate")
      <3>1. pc'[r] = "candidate" /\ pc[r] \in Trying /\ Alone(r)
        BY <1>t, <2>1, <2>2 DEF Trying, Alone
      <3>2. r \notin tree.line /\ transaction[r].baseline # r /\ transaction[r].status = "none"
        BY <2>1, <3>1, NotInHistory
      <3>3. refLock # r
        BY <2>1 DEF RootInv, LockInv, Sessions
      <3>4. OwnRoot(r)'
        BY <2>1, <2>2, <3>2, <3>3 DEF OwnRoot
      <3>5. RootInv'
        BY <1>o, <2>1, <2>2, <3>1, <3>4, CommitRoot DEF InCommit
      <3>6. SecretInv'
        BY <2>1, <2>2, <3>1, QuietSecrets, TransactionKept DEF Applied
      <3>7. QED
        BY <3>5, <3>6
    <2>3. CASE Decide(r, "recovery", TRUE)
      BY <1>d, <2>1, <2>3 DEF Before
    <2>4. QED
      BY <1>3, <2>2, <2>3 DEF AcquireRootLock
  <1>4. CASE prepareIngestCandidate(r)
    <2>1. pc[r] = "candidate" /\ UNCHANGED <<tree, landed, secrets>>
      BY <1>4 DEF prepareIngestCandidate
    <2>2. CASE Proceed(r, "session")
      <3>1. pc'[r] = "session" /\ UNCHANGED <<transaction, rootLock, refLock>> /\ pc[r] \in Trying /\ Alone(r)
        BY <1>t, <2>1, <2>2 DEF Proceed, locks, Trying, Alone, InCommit
      <3>2. r \notin tree.line /\ transaction[r].baseline # r /\ transaction[r].status = "none"
        BY <2>1, <3>1, NotInHistory
      <3>3. refLock # r /\ rootLock = r
        BY <2>1, OneInCommit, <3>1 DEF RootInv, LockInv, Sessions, InCommit
      <3>4. OwnRoot(r)'
        BY <2>1, <3>1, <3>2, <3>3 DEF OwnRoot
      <3>5. RootInv'
        BY <1>o, <2>1, <3>1, <3>3, <3>4, CommitRoot DEF InCommit
      <3>6. SecretInv'
        BY <2>1, <3>1, QuietSecrets, TransactionKept DEF Applied
      <3>7. QED
        BY <3>5, <3>6
    <2>3. CASE ~Proceed(r, "session")
      BY <1>4, <1>d, <2>1, <2>3 DEF prepareIngestCandidate, Before
    <2>4. QED
      BY <2>2, <2>3
  <1>5. CASE PrepareSession(r)
    <2>1. pc[r] = "session" /\ UNCHANGED <<tree, landed, secrets>>
      BY <1>5 DEF PrepareSession
    <2>2. CASE Decide(r, "conflict", FALSE)
      BY <1>d, <2>1, <2>2 DEF Before
    <2>3. CASE /\ tree.exists /\ tree.main = transaction[r].baseline
               /\ refLock' = r /\ Goto(r, "secrets") /\ UNCHANGED <<rootLock, transaction>>
      <3>1. pc'[r] = "secrets" /\ pc[r] \in Trying /\ Alone(r)
        BY <1>t, <2>1, <2>3 DEF Trying, Alone, InCommit
      <3>2. r \notin tree.line /\ transaction[r].baseline # r /\ transaction[r].status = "none"
        BY <2>1, <3>1, NotInHistory
      <3>3. rootLock = r
        BY <2>1, OneInCommit, <3>1 DEF InCommit
      <3>4. OwnRoot(r)'
        BY <2>1, <2>3, <3>1, <3>2 DEF OwnRoot, Sessions
      <3>5. RootInv'
        BY <1>o, <2>1, <2>3, <3>1, <3>3, <3>4, CommitRoot DEF InCommit
      <3>6. SecretInv'
        BY <2>1, <2>3, <3>1, QuietSecrets, TransactionKept DEF Applied
      <3>7. QED
        BY <3>5, <3>6
    <2>4. QED
      BY <1>5, <2>2, <2>3 DEF PrepareSession
  <1>6. CASE cleanupCommittedTransaction(r)
    <2>1. pc[r] = "cleanup" /\ pc'[r] = "decided" /\ UNCHANGED <<tree, secrets, landed, locks>>
      BY <1>6, <1>t DEF cleanupCommittedTransaction, Terminal
    <2>2. ~transaction[r].recovery
      BY <2>1 DEF Local, LocalTransaction
    <2>3. ASSUME NEW unclean, Terminal(r, unclean)
          PROVE  /\ transaction'[r].status = transaction[r].status
                 /\ transaction'[r].baseline = transaction[r].baseline
      BY <1>t, <2>3 DEF Terminal, SetTransaction, Transaction
    <2>4. /\ transaction'[r].status = transaction[r].status
          /\ transaction'[r].baseline = transaction[r].baseline
      BY <1>6, <2>3 DEF cleanupCommittedTransaction
    <2>5. transaction[r].baseline # r
      BY DEF RootInv, LineInv
    <2>6. QuietStep(r)
      BY <2>1, <2>2, <2>4, <2>5 DEF QuietStep, LeavesTree, Keeps, Known, InCommit, locks
    <2>7. QED
      BY <2>6, QuietPreserves
  <1>7. QED
    BY <1>1, <1>2, <1>3, <1>4, <1>5, <1>6

(* The steps of CommitIngest with the secrets in the keychain.             *)
LEMMA CommitWithSecrets ==
  ASSUME RootInv, SecretInv, RootTypes, ProcessTypes, NEW r \in Runs, Mine(r), Local(r),
         \/ applyPreparedSecrets(r) \/ publishCandidateObjects(r) \/ CommitSession(r)
         \/ observeDirectRef(r) \/ GuardRef(r) \/ RestoreGuarded(r)
  PROVE  RootInv' /\ SecretInv'
  <1>. USE DEF Committing, Own, At
  <1>t. /\ pc \in [Runs -> Stages] /\ transaction \in [Runs -> Transaction] /\ transaction[r] \in Transaction
        /\ \A stage : Goto(r, stage) => pc'[r] = stage
    BY DEF ProcessTypes, Goto
  <1>o. TreeInv /\ (UNCHANGED <<tree, landed>> => TreeInv')
    BY DEF RootInv, TreeInv
  <1>p. pc[r] \in {"secrets", "publish", "commit", "observe", "guard", "guarded"}
    BY DEF applyPreparedSecrets, publishCandidateObjects, CommitSession, observeDirectRef,
       GuardRef, RestoreGuarded
  <1>c. pc[r] \in InCommit /\ pc[r] \in Trying /\ Alone(r)
    BY <1>p DEF InCommit, Trying, Alone
  <1>n. /\ transaction[r].status = "none" /\ ~transaction[r].recovery /\ ~Known(r)
        /\ pc[r] # "observe" => r \notin tree.line /\ tree.main # r
        /\ transaction[r].baseline # r
    BY <1>c, NotInHistory
  <1>l. /\ \A u \in Runs \ {r} : pc[u] \notin InCommit
        /\ refLock \in {r, Nobody} /\ rootLock = r
    BY <1>c, OneInCommit
  <1>1. CASE applyPreparedSecrets(r)
    <2>1. pc[r] = "secrets" /\ UNCHANGED <<tree, landed>>
      BY <1>1 DEF applyPreparedSecrets
    <2>2. CASE /\ secrets' = r /\ Goto(r, "publish") /\ UNCHANGED locks
               /\ SetTransaction(r, [transaction[r] EXCEPT !.prior = secrets])
      <3>1. /\ pc'[r] = "publish" /\ UNCHANGED <<rootLock, refLock>>
            /\ transaction'[r].prior = secrets /\ transaction'[r].status = transaction[r].status
            /\ transaction'[r].baseline = transaction[r].baseline
            /\ transaction'[r].recovery = transaction[r].recovery
        BY <1>t, <2>2 DEF SetTransaction, Transaction, locks
      <3>2. \A u \in Runs \ {r} : pc'[u] = pc[u] /\ transaction'[u] = transaction[u]
        BY OthersUntouched
      <3>3. OwnRoot(r)'
        BY <1>n, <2>1, <3>1, Distinct DEF OwnRoot, RootInv, LockInv, SessionInv, Sessions
      <3>4. RootInv'
        BY <1>c, <1>l, <1>o, <2>1, <3>1, <3>3, CommitRoot DEF InCommit
      <3>5. \A u \in Runs : pc[u] \notin Applied
        BY <1>l, <2>1 DEF Applied, InCommit
      <3>6. \A u \in Runs : Known(u)' <=> Known(u)
        BY <2>1, <3>1, <3>2 DEF Known
      <3>7. Told' <=> Told
        BY <2>1, <3>1, <3>2 DEF Told
      <3>8. \A u \in Runs \ {r} : pc'[u] \notin Applied
        BY <3>2, <3>5
      <3>9. pc'[r] \in Applied
        BY <3>1 DEF Applied
      <3>10. SecretInv'
        BY <2>1, <2>2, <3>1, <3>5, <3>6, <3>7, <3>8, <3>9 DEF SecretInv
      <3>11. QED
        BY <3>4, <3>10
    <2>3. CASE UNCHANGED secrets /\ Decide(r, "not_committed", FALSE)
      BY <2>1, <2>3, DecideBefore DEF Before
    <2>4. CASE secrets' \in {secrets, r} /\ Decide(r, "not_committed", TRUE)
      <3>1. pc'[r] = "decided" /\ transaction'[r].recovery
        BY <2>4, DecideEffect
      <3>2. RootInv'
        BY <1>c, <1>n, <1>o, <2>1, <2>4, DecideRoot
      <3>3. \A u \in Runs \ {r} : pc'[u] = pc[u] /\ transaction'[u] = transaction[u]
        BY OthersUntouched
      <3>4. Told' /\ Known(r)' /\ \A u \in Runs : Known(u) => Known(u)'
        BY <3>1, <3>3 DEF Told, Known
      <3>5. \A u \in Runs : pc[u] \notin Applied /\ pc'[u] \notin Applied
        BY <1>l, <2>1, <3>1, <3>3 DEF Applied, InCommit
      <3>6. SecretInv'
        BY <2>4, <3>4, <3>5 DEF SecretInv
      <3>7. QED
        BY <3>2, <3>6
    <2>5. QED
      BY <1>1, <2>2, <2>3, <2>4 DEF applyPreparedSecrets
  <1>2. CASE publishCandidateObjects(r)
    <2>1. pc[r] = "publish" /\ UNCHANGED landed
      BY <1>2 DEF publishCandidateObjects
    <2>2. CASE tree.exists /\ Published(r) /\ Goto(r, "commit") /\ UNCHANGED <<secrets, transaction, locks>>
      <3>1. pc'[r] = "commit" /\ UNCHANGED <<rootLock, refLock, transaction>>
        BY <1>t, <2>2 DEF locks
      <3>2. /\ tree'.exists = tree.exists /\ tree'.main = tree.main /\ tree'.line = tree.line
            /\ tree'.objects = tree.objects \union {r} /\ tree'.torn = tree.torn
        BY <2>2 DEF Published, RootTypes, Trees
      <3>3. TreeInv'
        BY <1>o, <2>1, <2>2, <3>2 DEF TreeInv
      <3>4. OwnRoot(r)'
        BY <1>n, <2>1, <2>2, <3>1, <3>2, Distinct DEF OwnRoot, RootInv, SessionInv, Sessions
      <3>5. RootInv'
        BY <1>c, <1>l, <2>1, <3>1, <3>2, <3>3, <3>4, CommitRoot DEF InCommit
      <3>6. SecretInv'
        BY <2>1, <2>2, <3>1, <3>2, SecretsWithin DEF Applied
      <3>7. QED
        BY <3>5, <3>6
    <2>3. CASE UNCHANGED tree /\ Restored(r) /\ Decide(r, "not_committed", FALSE)
      BY <2>1, <2>3, DecideRestored DEF Applied
    <2>4. CASE UNCHANGED tree /\ Unrestored(r) /\ Decide(r, "not_committed", TRUE)
      BY <2>1, <2>4, DecideRestored DEF Applied
    <2>5. QED
      BY <1>2, <2>2, <2>3, <2>4 DEF publishCandidateObjects, Restored, Unrestored
  <1>3. CASE CommitSession(r)
    <2>1. pc[r] = "commit" /\ UNCHANGED secrets /\ secrets = r
      BY <1>3 DEF CommitSession, SecretInv, Applied
    <2>2. ASSUME refLock = r, Land(r)
          PROVE  /\ TreeInv' /\ tree'.exists = tree.exists /\ tree'.main = r /\ tree'.line = tree.line \union {r}
                 /\ tree'.objects = tree.objects /\ landed' = landed \union {r}
      <3>1. /\ tree'.exists = tree.exists /\ tree'.main = r /\ tree'.line = tree.line \union {r}
            /\ tree'.objects = tree.objects /\ tree'.torn = tree.torn /\ landed' = landed \union {r}
        BY <2>2 DEF Land, RootTypes, Trees
      <3>2. tree.exists /\ (r \in tree.objects \/ tree.torn # {})
        BY <2>1, <2>2, Distinct DEF RootInv, LockInv, SessionInv, Sessions
      <3>3. TreeInv'
        BY <1>o, <3>1, <3>2, Distinct DEF TreeInv
      <3>4. QED
        BY <1>o, <3>1, <3>2, <3>3 DEF TreeInv
    <2>3. CASE refLock = r /\ Land(r) /\ Decide(r, "committed", FALSE)
      <3>1. RootInv'
        BY <1>c, <2>2, <2>3, DecideRoot
      <3>2. pc'[r] = "cleanup" /\ transaction'[r].status = "committed"
        BY <2>3, DecideEffect
      <3>3. Keeps(r)
        BY <1>n, <2>1 DEF Keeps
      <3>4. SecretInv'
        BY <2>1, <2>2, <2>3, <3>2, <3>3, SecretsLeave DEF Applied
      <3>5. QED
        BY <3>1, <3>4
    <2>4. CASE /\ (refLock = r /\ Land(r)) \/ UNCHANGED <<tree, landed>>
               /\ refLock' = (IF refLock = r THEN Nobody ELSE refLock)
               /\ Goto(r, "observe") /\ UNCHANGED <<rootLock, transaction>>
      <3>1. pc'[r] = "observe" /\ refLock' = Nobody
        BY <1>t, <1>l, <2>4
      <3>2. OwnRoot(r)'
        BY <1>n, <2>1, <2>2, <2>4, <3>1, Distinct DEF OwnRoot
      <3>3. RootInv'
        BY <1>c, <1>l, <1>o, <2>2, <2>4, <3>1, <3>2, CommitRoot DEF InCommit
      <3>4. SecretInv'
        BY <2>1, <2>2, <2>4, <3>1, SecretsWithin DEF Applied
      <3>5. QED
        BY <3>3, <3>4
    <2>5. QED
      BY <1>3, <2>3, <2>4 DEF CommitSession
  <1>4. CASE observeDirectRef(r)
    <2>1. pc[r] = "observe" /\ UNCHANGED <<tree, landed, secrets>> /\ secrets = r
      BY <1>4 DEF observeDirectRef, SecretInv, Applied
    <2>2. ASSUME NEW status, NEW uncertain \in BOOLEAN, Decide(r, status, uncertain),
                 \/ tree.main = r /\ status = "committed"
                 \/ status = "recovery" /\ uncertain
          PROVE  RootInv' /\ SecretInv'
      <3>1. tree.main = r => r \in landed
        BY <1>o DEF TreeInv
      <3>2. RootInv'
        BY <1>c, <1>o, <2>1, <2>2, <3>1, DecideRoot
      <3>3. /\ pc'[r] \in {"cleanup", "decided"} /\ transaction'[r].status = status
            /\ transaction'[r].recovery <=> uncertain
        BY <1>n, <2>2, DecideEffect
      <3>4. Keeps(r)
        BY <1>n, <2>1 DEF Keeps
      <3>5. SecretInv'
        BY <2>1, <2>2, <3>3, <3>4, SecretsLeave DEF Applied
      <3>6. QED
        BY <3>2, <3>5
    <2>3. CASE tree.main = r /\ Decide(r, "committed", FALSE)
      BY <2>2, <2>3
    <2>4. CASE Decide(r, "recovery", TRUE)
      BY <2>2, <2>4
    <2>5. CASE tree.main = transaction[r].baseline /\ Proceed(r, "guard")
      <3>1. pc'[r] = "guard" /\ UNCHANGED <<rootLock, refLock, transaction>>
        BY <1>t, <2>5 DEF Proceed, locks
      <3>2. r \notin tree.line
        BY <1>n, <2>1, <2>5 DEF RootInv, LineInv
      <3>3. refLock # r
        BY <2>1 DEF RootInv, LockInv, Sessions
      <3>4. OwnRoot(r)'
        BY <1>n, <2>1, <3>1, <3>2, <3>3 DEF OwnRoot
      <3>5. RootInv'
        BY <1>c, <1>l, <1>o, <2>1, <3>1, <3>4, CommitRoot DEF InCommit
      <3>6. SecretInv'
        BY <2>1, <3>1, SecretsWithin DEF Applied
      <3>7. QED
        BY <3>5, <3>6
    <2>6. QED
      BY <1>4, <2>3, <2>4, <2>5 DEF observeDirectRef
  <1>5. CASE GuardRef(r)
    <2>1. pc[r] = "guard" /\ UNCHANGED <<tree, landed, secrets>>
      BY <1>5 DEF GuardRef
    <2>2. CASE tree.exists /\ refLock' = r /\ Goto(r, "guarded") /\ UNCHANGED <<rootLock, transaction>>
      <3>1. pc'[r] = "guarded"
        BY <1>t, <2>2
      <3>2. OwnRoot(r)'
        BY <1>n, <2>1, <2>2, <3>1 DEF OwnRoot, Sessions
      <3>3. RootInv'
        BY <1>c, <1>l, <1>o, <2>1, <2>2, <3>1, <3>2, CommitRoot DEF InCommit
      <3>4. SecretInv'
        BY <2>1, <2>2, <3>1, SecretsWithin DEF Applied
      <3>5. QED
        BY <3>3, <3>4
    <2>3. CASE Decide(r, "recovery", TRUE)
      BY <2>1, <2>3, DecideRestored DEF Applied
    <2>4. QED
      BY <1>5, <2>2, <2>3 DEF GuardRef
  <1>6. CASE RestoreGuarded(r)
    <2>1. pc[r] = "guarded" /\ UNCHANGED <<tree, landed>>
      BY <1>6 DEF RestoreGuarded
    <2>2. CASE Restored(r) /\ Decide(r, "not_committed", FALSE)
      BY <2>1, <2>2, DecideRestored DEF Applied
    <2>3. CASE Unrestored(r) /\ Decide(r, "recovery", TRUE)
      BY <2>1, <2>3, DecideRestored DEF Applied
    <2>4. QED
      BY <1>6, <2>2, <2>3 DEF RestoreGuarded
  <1>7. QED
    BY <1>1, <1>2, <1>3, <1>4, <1>5, <1>6

(* Every call of the store keeps the relations of the root and of the      *)
(* keychain.                                                               *)
LEMMA StoreCallPreserves ==
  ASSUME RootInv, SecretInv, RootTypes, ProcessTypes, NEW r \in Runs, Local(r),
         At(r, "begin") => run[r].kind = "ingest", StoreCall(r)
  PROVE  RootInv' /\ SecretInv'
  <1>1. Mine(r)
    BY StoreMine
  <1>2. CASE InitForInstall(r)
    BY <1>1, <1>2, InitForInstallQuiet, QuietPreserves
  <1>3. CASE RollbackInitialization(r)
    BY <1>1, <1>3, RollbackQuiet, QuietPreserves
  <1>4. CASE BeginIngest(r) \/ AbortIngest(r) \/ AbortFails(r)
    BY <1>1, <1>4, BeginQuiet, QuietPreserves
  <1>5. CASE CommitIngest(r)
    BY <1>1, <1>5, CommitBeforeSecrets, CommitWithSecrets DEF CommitIngest
  <1>6. QED
    BY <1>2, <1>3, <1>4, <1>5 DEF StoreCall

--------------------------------------------------------------------------------
(* The startup file                                                        *)

(* A step that leaves the file alone, and takes no claim on it.            *)
LeavesTarget(r) ==
  /\ UNCHANGED target
  /\ Settled(r) => Settled(r)'
  /\ \/ UNCHANGED targetLock
     \/ targetLock \in {r, Nobody} /\ targetLock' \in {r, Nobody}
  /\ run'[r].promotion \in {"staged", "installed"} => targetLock' = r
  /\ run[r].promotion = "installed" => run'[r].promotion = "installed" \/ Settled(r)'
  /\ run'[r].promotion = "installed" => run[r].promotion = "installed" /\ run'[r].base = run[r].base

OthersKeep(r) == \A u \in Runs \ {r} :
  pc'[u] = pc[u] /\ run'[u] = run[u] /\ recovery'[u] = recovery[u]

(* A run that is left alone stays settled.                                 *)
LEMMA OthersSettled ==
  ASSUME NEW r \in Runs, OthersKeep(r)
  PROVE  \A u \in Runs \ {r} : Settled(u)' <=> Settled(u)
  BY DEF OthersKeep, Settled

(* A step that leaves the startup file alone, and drops no hold of its run *)
(* on it, keeps its relation.                                              *)
LEMMA TargetFrame ==
  ASSUME TargetInv, NEW r \in Runs, OthersKeep(r), LeavesTarget(r)
  PROVE  TargetInv'
  <1>1. \A u \in Runs : Settled(u) => Settled(u)'
    BY OthersSettled DEF LeavesTarget
  <1>2. ASSUME NEW u \in Runs, run'[u].promotion \in {"staged", "installed"}
        PROVE  targetLock' = u
    BY <1>2, Distinct DEF LeavesTarget, OthersKeep, TargetInv
  <1>3. ASSUME NEW u \in Runs, target'.by = u
        PROVE  run'[u].promotion = "installed" \/ Settled(u)'
    BY <1>1, <1>3 DEF LeavesTarget, OthersKeep, TargetInv
  <1>4. ASSUME NEW u \in Runs, NEW v \in Runs, run'[u].promotion = "installed", run'[u].base.by = v
        PROVE  Settled(v)'
    BY <1>1, <1>4 DEF LeavesTarget, OthersKeep, TargetInv
  <1>5. QED
    BY <1>2, <1>3, <1>4 DEF TargetInv

(* The calls of the store are of that kind,                                *)
LEMMA StoreLeavesTarget ==
  ASSUME TargetInv, RootInv, ProcessTypes, CallerTypes, NEW r \in Runs, Mine(r), StoreStep(r), Local(r)'
  PROVE  OthersKeep(r) /\ LeavesTarget(r)
  <1>1. UNCHANGED <<target, run>> /\ StoreCall(r)
    BY DEF StoreStep
  <1>2. OthersKeep(r)
    BY <1>1, OthersUntouched DEF OthersKeep
  <1>3. pc[r] \notin {"dead", "failed", "finalize_store", "materialize", "ok"}
    BY <1>1 DEF StoreCall, InitForInstall, Inspect, Create, GitInit, Seed, SeedRef, Seal,
       InspectFails, InitFails,
       Opening, RollbackInitialization, RollbackRefused, RestoreMode, CompareTree, RemoveTree,
       RemoveEntry, RemoveRoot, RemoveFails, Undoing,
       BeginIngest, reserveIngestTransaction, BeginFails, BeginUncertain, createIngestQuarantine,
       AbortIngest,
       AbortFails, Calling, CommitIngest, claimIngestCommit, CheckAuthority, AcquireRootLock,
       prepareIngestCandidate,
       PrepareSession, applyPreparedSecrets, publishCandidateObjects, CommitSession,
       observeDirectRef,
       GuardRef, RestoreGuarded, cleanupCommittedTransaction, Committing, Own, At
  <1>4. ~Settled(r)
    BY <1>3 DEF Settled
  <1>5. EndsRun(r) => run[r].promotion \notin {"staged", "installed"}
    BY <1>1 DEF EndsRun, Local, LocalTarget, Staged, Early, Trying, InCommit, Undoings
  <1>9. run[r].promotion \in {"staged", "installed"} => targetLock = r
    BY DEF TargetInv
  <1>6. CASE EndsRun(r)
    <2>1. Unlock(r)
      BY <1>6 DEF StoreStep
    <2>2. UNCHANGED targetLock \/ (targetLock = r /\ targetLock' = Nobody)
      BY <2>1 DEF Unlock
    <2>3. QED
      BY <1>1, <1>2, <1>4, <1>5, <1>6, <2>2 DEF LeavesTarget
  <1>7. CASE ~EndsRun(r)
    <2>1. UNCHANGED targetLock
      BY <1>7 DEF StoreStep
    <2>2. QED
      BY <1>1, <1>2, <1>4, <1>9, <2>1 DEF LeavesTarget
  <1>8. QED
    BY <1>6, <1>7

(* and every step of a caller but promote and rollback.                    *)
LEMMA CallerLeavesTarget ==
  ASSUME TargetInv, ProcessTypes, CallerTypes, NEW r \in Runs, Local(r), Local(r)',
         InstallOrIngest(r), ~PromoteTarget(r), ~UndoTarget(r)
  PROVE  LeavesTarget(r)
  <1>. USE DEF Caller, Targeted, Cached, InStore, At, Goto
  <1>t. /\ pc \in [Runs -> Stages] /\ recovery \in [Runs -> BOOLEAN]
        /\ run \in [Runs -> Run] /\ run[r] \in Run
    BY DEF ProcessTypes, CallerTypes
  <1>1. CASE Start(r)
    BY <1>1, <1>t DEF Start, Early, Staged, Trying, InCommit, Local, LocalTarget,
       LocalTransaction, Settled,
       LeavesTarget, TargetInv, Unlock, Report, FailUncertain, Run
  <1>2. CASE RootsOverlap(r)
    BY <1>2, <1>t DEF RootsOverlap, callerVars, Early, Staged, Trying, InCommit, Local,
       LocalTarget, LocalTransaction, Settled,
       LeavesTarget, TargetInv, Unlock, Report, FailUncertain, Run
  <1>3. CASE prepareIngestInstallAt(r)
    BY <1>3, <1>t DEF prepareIngestInstallAt, Early, Staged, Trying, InCommit, Local, LocalTarget,
       LocalTransaction, Settled,
       LeavesTarget, TargetInv, Unlock, Report, FailUncertain, Run
  <1>4. CASE prepareGuardedInstallTransaction(r)
    BY <1>4, <1>t DEF prepareGuardedInstallTransaction, Early, Staged, Trying, InCommit, Local,
       LocalTarget, LocalTransaction, Settled,
       LeavesTarget, TargetInv, Unlock, Report, FailUncertain, Run
  <1>5. CASE secureCacheDirectory(r)
    BY <1>5, <1>t DEF secureCacheDirectory, Early, Staged, Trying, InCommit, Local, LocalTarget,
       LocalTransaction, Settled,
       LeavesTarget, TargetInv, Unlock, Report, FailUncertain, Run
  <1>6. CASE StageLoader(r)
    BY <1>6, <1>t DEF StageLoader, Secured, Early, Staged, Trying, InCommit, Local, LocalTarget,
       LocalTransaction, Settled,
       LeavesTarget, TargetInv, Unlock, Report, FailUncertain, Run
  <1>7. CASE PromoteLoader(r)
    BY <1>7, <1>t DEF PromoteLoader, LoaderFailed, Early, Staged, Trying, InCommit, Local,
       LocalTarget, LocalTransaction, Settled,
       LeavesTarget, TargetInv, Unlock, Report, FailUncertain, Run
  <1>8. CASE ValidateTarget(r)
    BY <1>8, <1>t DEF ValidateTarget, Early, Staged, Trying, InCommit, Local, LocalTarget,
       LocalTransaction, Settled,
       LeavesTarget, TargetInv, Unlock, Report, FailUncertain, Run
  <1>9. CASE FinalizeTarget(r)
    BY <1>9, <1>t DEF FinalizeTarget, Committed, Early, Staged, Trying, InCommit, Local,
       LocalTarget, LocalTransaction, Settled,
       LeavesTarget, TargetInv, Unlock, Report, FailUncertain, Run
  <1>10. CASE FinalizeStore(r)
    BY <1>10, <1>t DEF FinalizeStore, Early, Staged, Trying, InCommit, Local, LocalTarget,
       LocalTransaction, Settled,
       LeavesTarget, TargetInv, Unlock, Report, FailUncertain, Run
  <1>11. CASE MaterializeCommittedWorktree(r)
    BY <1>11, <1>t DEF MaterializeCommittedWorktree, Early, Staged, Trying, InCommit, Local,
       LocalTarget, LocalTransaction, Settled,
       LeavesTarget, TargetInv, Unlock, Report, FailUncertain, Run
  <1>12. CASE UndoLoader(r)
    BY <1>12, <1>t DEF UndoLoader, RestoredLoader, Early, Staged, Trying, InCommit, Local, LocalTarget,
       LocalTransaction, Settled,
       LeavesTarget, TargetInv, Unlock, Report, FailUncertain, Run
  <1>13. CASE UndoCache(r)
    BY <1>13, <1>t DEF UndoCache, RestoredCache, Early, Staged, Trying, InCommit, Local, LocalTarget,
       LocalTransaction, Settled,
       LeavesTarget, TargetInv, Unlock, Report, FailUncertain, Run
  <1>14. QED
    BY <1>1, <1>2, <1>3, <1>4, <1>5, <1>6, <1>7, <1>8, <1>9, <1>10, <1>11, <1>12, <1>13
       DEF InstallOrIngest, Forward, Backward

(* The callers leave the other runs alone.                                 *)
LEMMA CallerKeepsOthers ==
  ASSUME ProcessTypes, CallerTypes, Counted, NEW r \in Runs, Local(r), InstallOrIngest(r)
  PROVE  CallerTypes' /\ OthersKeep(r)
  <1>1. run[r].promoted => run[r].saved \in Loaders \/ pc[r] = "dead"
    BY DEF Local, LocalTarget, CallerTypes, Run
  <1>2. pc[r] # "dead"
    BY DEF InstallOrIngest, Forward, Backward, Start, RootsOverlap, prepareIngestInstallAt,
       prepareGuardedInstallTransaction, secureCacheDirectory, StageLoader, PromoteLoader, PromoteTarget,
       ValidateTarget, FinalizeTarget, FinalizeStore, UndoTarget, UndoLoader, UndoCache,
       MaterializeCommittedWorktree, Caller, Targeted, Cached, Committed, Rejected, At
  <1>3. At(r, "cache") => cache.inode + 1 \in Inodes
    BY CountsAreInodes DEF At, NotYetCached
  <1>4. CallerTypes' /\ \A u \in Runs \ {r} : run'[u] = run[u]
    BY <1>1, <1>2, <1>3, CallerStepTypes
  <1>5. QED
    BY <1>4, CallersKeepStore DEF OthersKeep

(* A rename writes the candidate of a run that answers for it, or puts     *)
(* back a copy whose author is settled.                                    *)
LEMMA RenameKeepsTarget ==
  ASSUME TargetInv, NEW r \in Runs, OthersKeep(r), Local(r),
         Displaces(r) \/ Reverses(r), Unlock(r) \/ UNCHANGED targetLock,
         Displaces(r) => run'[r].promotion = "installed" \/ Settled(r)',
         \/ run'[r].promotion \notin {"staged", "installed"}
         \/ /\ run'[r].promotion = "installed" /\ target = run[r].base
            /\ run'[r].base = run[r].base /\ UNCHANGED targetLock
  PROVE  TargetInv'
  <1>1. run[r].promotion \in {"staged", "installed"} /\ ~Settled(r)
    BY DEF Displaces, Reverses, Rejected, At, Local, LocalTarget, Staged, Settled
  <1>2. targetLock = r /\ \A u \in Runs \ {r} : run[u].promotion \notin {"staged", "installed"}
    BY <1>1 DEF TargetInv
  <1>3. \A u \in Runs \ {r} : Settled(u)' <=> Settled(u)
    BY OthersSettled
  <1>4. \A u \in Runs \ {r} : run'[u].promotion \notin {"staged", "installed"}
    BY <1>2 DEF OthersKeep
  <1>5. \A u \in Runs : target'.by = u => run'[u].promotion = "installed" \/ Settled(u)'
    <2>1. CASE Displaces(r)
      BY <2>1 DEF Displaces, Candidate
    <2>2. CASE Reverses(r)
      <3>1. \A u \in Runs : target'.by = u => Settled(u)
        BY <2>2 DEF Reverses, TargetInv
      <3>2. QED
        BY <1>1, <1>3, <3>1
    <2>3. QED
      BY <2>1, <2>2
  <1>6. ASSUME run'[r].promotion = "installed"
        PROVE  \A v \in Runs : run'[r].base.by = v => Settled(v)'
    <2>1. target = run[r].base /\ run'[r].base = target
      BY <1>6
    <2>2. run[r].promotion # "installed" => target.by # r
      BY <1>1 DEF TargetInv
    <2>3. \A v \in Runs : target.by = v => Settled(v) /\ v # r
      BY <1>1, <1>2, <2>1, <2>2 DEF TargetInv
    <2>4. QED
      BY <1>3, <2>1, <2>3
  <1>7. QED
    BY <1>2, <1>4, <1>5, <1>6 DEF TargetInv

(* A death leaves the file, or a rename it has just done.                  *)
LEMMA KillKeepsTarget ==
  ASSUME TargetInv, ProcessTypes, CallerTypes, NEW r \in Runs, Mine(r), Local(r), Kill(r)
  PROVE  OthersKeep(r) /\ TargetInv'
  <1>1. /\ pc'[r] = "dead" /\ run'[r].promotion = "none" /\ Unlock(r)
        /\ \A u \in Runs \ {r} : run'[u] = run[u]
    BY DEF Kill, KillStore, Goto, NewRun, ProcessTypes, CallerTypes
  <1>2. Settled(r)'
    BY <1>1 DEF Settled
  <1>3. OthersKeep(r)
    BY <1>1, OthersUntouched DEF OthersKeep
  <1>4. CASE UNCHANGED target
    <2>1. LeavesTarget(r)
      BY <1>1, <1>2, <1>4 DEF LeavesTarget, Unlock
    <2>2. QED
      BY <1>3, <2>1, TargetFrame
  <1>5. CASE Displaces(r) \/ Reverses(r)
    BY <1>1, <1>2, <1>3, <1>5, RenameKeepsTarget
  <1>6. QED
    BY <1>3, <1>4, <1>5 DEF Kill

(* Promote writes the startup file for a run that answers for it.          *)
LEMMA PromoteKeepsTarget ==
  ASSUME TargetInv, ProcessTypes, CallerTypes, NEW r \in Runs, OthersKeep(r), Local(r), PromoteTarget(r)
  PROVE  TargetInv'
  <1>t. /\ pc \in [Runs -> Stages] /\ recovery \in [Runs -> BOOLEAN]
        /\ run \in [Runs -> Run] /\ run[r] \in Run
    BY DEF ProcessTypes, CallerTypes
  <1>1. pc[r] = "target" /\ run[r].promotion = "staged"
    BY DEF PromoteTarget, Targeted, Caller, At, Local, LocalTarget, Staged
  <1>2. targetLock = r /\ ~Settled(r) /\ target.by # r
    BY <1>1 DEF TargetInv, Settled
  <1>3. CASE UNCHANGED <<target, run, targetLock>>
    <2>1. LeavesTarget(r)
      BY <1>1, <1>2, <1>3 DEF LeavesTarget
    <2>2. QED
      BY <2>1, TargetFrame
  <1>4. CASE /\ UNCHANGED target /\ run' = [run EXCEPT ![r].promotion = "kept"]
             /\ Unlock(r) \/ UNCHANGED targetLock
    <2>1. run'[r].promotion = "kept"
      BY <1>t, <1>4 DEF Run
    <2>2. LeavesTarget(r)
      BY <1>1, <1>2, <1>4, <2>1 DEF LeavesTarget, Unlock
    <2>3. QED
      BY <2>2, TargetFrame
  <1>5. CASE /\ target = run[r].base /\ target' = Candidate(r) /\ UNCHANGED targetLock
             /\ run' = [run EXCEPT ![r].promotion = "installed", ![r].startup = run[r].kind = "ingest"]
    <2>1. run'[r].promotion = "installed" /\ run'[r].base = run[r].base
      BY <1>t, <1>5 DEF Run
    <2>2. Displaces(r)
      BY <1>1, <1>5 DEF Displaces, At
    <2>3. QED
      BY <1>5, <2>1, <2>2, RenameKeepsTarget
  <1>6. CASE /\ Displaces(r) \/ UNCHANGED target
             /\ Uncertain(r) /\ Unlock(r) /\ FailUncertain(r)
    <2>1. run'[r].promotion = "kept" /\ run'[r].startup
      BY <1>t, <1>6 DEF Uncertain, Run
    <2>2. pc'[r] = "failed" /\ recovery'[r]
      BY <1>t, <1>6 DEF FailUncertain, Goto
    <2>3. Settled(r)'
      BY <2>1, <2>2 DEF Settled
    <2>4. CASE Displaces(r)
      BY <1>6, <2>1, <2>3, <2>4, RenameKeepsTarget
    <2>5. CASE UNCHANGED target
      <3>1. LeavesTarget(r)
        BY <1>1, <1>2, <1>6, <2>1, <2>5 DEF LeavesTarget, Unlock
      <3>2. QED
        BY <3>1, TargetFrame
    <2>6. QED
      BY <1>6, <2>4, <2>5
  <1>7. QED
    BY <1>3, <1>4, <1>5, <1>6 DEF PromoteTarget

(* Rollback puts back a copy whose author is settled.                      *)
LEMMA UndoKeepsTarget ==
  ASSUME TargetInv, ProcessTypes, CallerTypes, NEW r \in Runs, OthersKeep(r), Local(r), UndoTarget(r)
  PROVE  TargetInv'
  <1>t. /\ pc \in [Runs -> Stages] /\ recovery \in [Runs -> BOOLEAN]
        /\ run \in [Runs -> Run] /\ run[r] \in Run
    BY DEF ProcessTypes, CallerTypes
  <1>1. /\ pc[r] \in {"undo_target", "decided"}
        /\ run[r].promotion \in {"none", "staged", "installed"}
        /\ run[r].promotion = "installed" /\ run[r].kind = "ingest" => run[r].startup
    BY DEF UndoTarget, Rejected, At, Local, LocalTarget
  <1>2. ~Settled(r)
    BY <1>1 DEF Settled
  <1>3. /\ run[r].promotion \in {"staged", "installed"} => targetLock = r
        /\ target.by = r => run[r].promotion = "installed"
    BY <1>2 DEF TargetInv
  <1>4. CASE run' = [run EXCEPT ![r].promotion = "kept"] /\ UNCHANGED target /\ Unlock(r) /\ Stop(r)
    <2>1. /\ run'[r].promotion = "kept" /\ run'[r].kind = run[r].kind /\ run'[r].startup = run[r].startup
          /\ pc'[r] = "failed" /\ recovery'[r]
      BY <1>t, <1>4 DEF Stop, FailUncertain, Goto, Run
    <2>2. run[r].promotion = "installed" => Settled(r)'
      BY <1>1, <2>1 DEF Settled
    <2>3. LeavesTarget(r)
      BY <1>2, <1>4, <2>1, <2>2 DEF LeavesTarget, Unlock
    <2>4. QED
      BY <2>3, TargetFrame
  <1>5. CASE run[r].promotion = "none" /\ UNCHANGED <<target, run, targetLock>>
    <2>1. LeavesTarget(r)
      BY <1>2, <1>5 DEF LeavesTarget
    <2>2. QED
      BY <2>1, TargetFrame
  <1>6. CASE run[r].promotion = "staged" /\ run' = [run EXCEPT ![r].promotion = "closed"] /\ Unlock(r) /\ UNCHANGED target
    <2>1. run'[r].promotion = "closed"
      BY <1>t, <1>6 DEF Run
    <2>2. LeavesTarget(r)
      BY <1>2, <1>6, <2>1 DEF LeavesTarget, Unlock
    <2>3. QED
      BY <2>2, TargetFrame
  <1>7. CASE /\ Reverses(r) /\ Unlock(r)
             /\ \/ run' = [run EXCEPT ![r].promotion = "closed", ![r].startup = FALSE]
                \/ run' = [run EXCEPT ![r].promotion = "kept"]
    <2>1. run'[r].promotion \in {"closed", "kept"}
      BY <1>t, <1>7 DEF Run
    <2>2. ~Displaces(r)
      BY <1>1 DEF Displaces, At
    <2>3. QED
      BY <1>7, <2>1, <2>2, RenameKeepsTarget
  <1>8. QED
    BY <1>1, <1>4, <1>5, <1>6, <1>7 DEF UndoTarget

--------------------------------------------------------------------------------
(* The loader                                                              *)

(* A step of a run that leaves a loader where the startup file may source  *)
(* one, unless the run is taking its loader back.                          *)
LeavesLoader(r) ==
  /\ cache'.loader # "none" => cache'.exists
  /\ Kept(r)' =>
       /\ Kept(r)
       /\ cache.loader # "none" => cache'.loader # "none"
       /\ target'.block =>
            target.block \/ run[r].base.block \/ run[r].promoted \/ cache'.loader # "none"
       /\ run'[r].base.block \/ run'[r].promoted =>
            target.block \/ run[r].base.block \/ run[r].promoted \/ cache'.loader # "none"

(* Such a step keeps the relation of the loader.                           *)
LEMMA LoaderFrame ==
  ASSUME LoaderInv, NEW r \in Runs, OthersKeep(r), LeavesLoader(r)
  PROVE  LoaderInv'
  <1>1. SUFFICES ASSUME \A u \in Runs : Kept(u)'
                 PROVE  /\ target'.block => cache'.loader # "none"
                        /\ \A u \in Runs : run'[u].base.block \/ run'[u].promoted => cache'.loader # "none"
    BY DEF LoaderInv, LeavesLoader
  <1>2. \A u \in Runs : Kept(u)
    BY <1>1 DEF Kept, OthersKeep, LeavesLoader
  <1>3. Kept(r)'
    BY <1>1
  <1>4. /\ target.block => cache.loader # "none"
        /\ \A u \in Runs : run[u].base.block \/ run[u].promoted => cache.loader # "none"
    BY <1>2 DEF LoaderInv
  <1>5. QED
    BY <1>3, <1>4 DEF LeavesLoader, OthersKeep

(* The calls of the store leave the loader alone,                          *)
LEMMA StoreLeavesLoader ==
  ASSUME LoaderInv, ProcessTypes, NEW r \in Runs, StoreStep(r)
  PROVE  LeavesLoader(r)
  <1>1. UNCHANGED <<target, cache, run>> /\ StoreCall(r)
    BY DEF StoreStep
  <1>2. pc[r] \in TakingBack \union {"failed", "dead"} => pc'[r] \in TakingBack \union {"failed"}
    <2>. USE DEF TakingBack, Own, At, Goto, ProcessTypes
    <2>1. CASE InitForInstall(r)
      BY <2>1 DEF InitForInstall, Inspect, Create, GitInit, Seed, SeedRef, Seal, InspectFails,
         InitFails, Opening
    <2>2. CASE RollbackInitialization(r)
      BY <2>2 DEF RollbackInitialization, RollbackRefused, RestoreMode, CompareTree, RemoveTree,
         RemoveEntry, RemoveRoot, RemoveFails, Undoing, EndUndo
    <2>3. CASE BeginIngest(r) \/ AbortIngest(r) \/ AbortFails(r)
      BY <2>3 DEF BeginIngest, reserveIngestTransaction, BeginFails, BeginUncertain,
         createIngestQuarantine,
         AbortIngest, AbortFails, Calling, Fail, FailUncertain
    <2>4. CASE CommitIngest(r)
      BY <2>4 DEF CommitIngest, claimIngestCommit, CheckAuthority, AcquireRootLock,
         prepareIngestCandidate,
         PrepareSession, applyPreparedSecrets, publishCandidateObjects, CommitSession,
         observeDirectRef,
         GuardRef, RestoreGuarded, cleanupCommittedTransaction, Committing
    <2>5. QED
      BY <1>1, <2>1, <2>2, <2>3, <2>4 DEF StoreCall
  <1>3. Kept(r)' => Kept(r)
    BY <1>1, <1>2 DEF Kept
  <1>4. QED
    BY <1>1, <1>3 DEF LeavesLoader, LoaderInv

(* and so does a death, also one just after a rename,                      *)
LEMMA KillLeavesLoader ==
  ASSUME LoaderInv, ProcessTypes, CallerTypes, NEW r \in Runs, Local(r), Kill(r)
  PROVE  LeavesLoader(r)
  <1>1. /\ UNCHANGED cache /\ pc'[r] = "dead" /\ pc[r] \notin NotRunning
        /\ ~run'[r].base.block
        /\ run'[r].promoted <=> (run[r].promoted /\ pc[r] \in TakingBack)
    BY DEF Kill, KillStore, Goto, NewRun, MissingTarget, ProcessTypes, CallerTypes
  <1>2. Kept(r)' => Kept(r) /\ ~run'[r].promoted
    BY <1>1 DEF Kept, NotRunning
  <1>3. target'.block => target.block \/ run[r].base.block \/ run[r].promoted
    <2>1. CASE Displaces(r)
      BY <2>1 DEF Displaces, At, Local, LocalTarget
    <2>2. CASE Reverses(r)
      BY <2>2 DEF Reverses
    <2>3. QED
      BY <2>1, <2>2 DEF Kill
  <1>4. QED
    BY <1>1, <1>2, <1>3 DEF LeavesLoader, LoaderInv

(* and a caller takes a loader away only in the way back.                  *)
LEMMA CallerLeavesLoader ==
  ASSUME LoaderInv, ProcessTypes, CallerTypes, NEW r \in Runs, Local(r), InstallOrIngest(r)
  PROVE  LeavesLoader(r)
  <1>. USE DEF Caller, Targeted, Cached, At, Goto
  <1>t. /\ pc \in [Runs -> Stages] /\ run \in [Runs -> Run] /\ run[r] \in Run /\ cache \in Caches
    BY DEF ProcessTypes, CallerTypes
  <1>i. cache.loader # "none" => cache.exists
    BY DEF LoaderInv
  <1>p. pc[r] = "target" => run[r].promoted
    BY DEF Local, LocalTarget
  <1>1. CASE Start(r)
    BY <1>1, <1>t, <1>i, <1>p, Distinct DEF Start, FailUncertain, Stop, TakingBack, Kept,
       LeavesLoader, Run, Caches
  <1>2. CASE RootsOverlap(r)
    BY <1>2, <1>t, <1>i, <1>p, Distinct DEF RootsOverlap, callerVars, FailUncertain, Stop,
       TakingBack, Kept,
       LeavesLoader, Run, Caches
  <1>3. CASE prepareIngestInstallAt(r)
    BY <1>3, <1>t, <1>i, <1>p, Distinct DEF prepareIngestInstallAt, FailUncertain, Stop,
       TakingBack, Kept,
       LeavesLoader, Run, Caches
  <1>4. CASE prepareGuardedInstallTransaction(r)
    BY <1>4, <1>t, <1>i, <1>p, Distinct DEF prepareGuardedInstallTransaction, FailUncertain, Stop,
       TakingBack, Kept,
       LeavesLoader, Run, Caches
  <1>5. CASE secureCacheDirectory(r)
    <2>1. /\ pc[r] = "cache" /\ UNCHANGED target
          /\ cache'.loader = cache.loader
          /\ cache.exists => cache'.exists
      BY <1>5, <1>t DEF secureCacheDirectory, Caches
    <2>2. run'[r].base = run[r].base /\ run'[r].promoted = run[r].promoted
      BY <1>5, <1>t DEF secureCacheDirectory, Run
    <2>3. QED
      BY <1>i, <2>1, <2>2 DEF LeavesLoader, Kept, TakingBack
  <1>6. CASE StageLoader(r)
    BY <1>6, <1>t, <1>i, <1>p, Distinct DEF StageLoader, Secured, FailUncertain, Stop, TakingBack,
       Kept,
       LeavesLoader, Run, Caches
  <1>7. CASE PromoteLoader(r)
    BY <1>7, <1>t, <1>i, <1>p, Distinct DEF PromoteLoader, LoaderFailed, Holds, FailUncertain,
       Stop, TakingBack, Kept,
       LeavesLoader, Run, Caches
  <1>8. CASE PromoteTarget(r)
    BY <1>8, <1>t, <1>i, <1>p, Distinct DEF PromoteTarget, Displaces, Uncertain, Candidate, Staged,
       FailUncertain, Stop, TakingBack, Kept,
       LeavesLoader, Run, Caches
  <1>9. CASE ValidateTarget(r)
    BY <1>9, <1>t, <1>i, <1>p, Distinct DEF ValidateTarget, FailUncertain, Stop, TakingBack, Kept,
       LeavesLoader, Run, Caches
  <1>10. CASE FinalizeTarget(r)
    <2>1. pc[r] \in {"finalize_target", "decided"} /\ UNCHANGED <<target, cache>>
      BY <1>10 DEF FinalizeTarget, Committed
    <2>2. run' = [run EXCEPT ![r].promotion = "closed"] \/ run' = [run EXCEPT ![r].promotion = "kept"]
      BY <1>10 DEF FinalizeTarget
    <2>3. run'[r].base = run[r].base /\ run'[r].promoted = run[r].promoted
      BY <1>t, <2>2 DEF Run
    <2>4. QED
      BY <1>i, <2>1, <2>3 DEF LeavesLoader, Kept, TakingBack
  <1>11. CASE FinalizeStore(r)
    BY <1>11, <1>t, <1>i, <1>p, Distinct DEF FinalizeStore, FailUncertain, Stop, TakingBack, Kept,
       LeavesLoader, Run, Caches
  <1>12. CASE MaterializeCommittedWorktree(r)
    BY <1>12, <1>t, <1>i, <1>p, Distinct DEF MaterializeCommittedWorktree, FailUncertain, Stop,
       TakingBack, Kept,
       LeavesLoader, Run, Caches
  <1>13. CASE UndoTarget(r)
    BY <1>13, <1>t, <1>i, <1>p, Distinct DEF UndoTarget, Reverses, Rejected, FailUncertain, Stop,
       TakingBack, Kept,
       LeavesLoader, Run, Caches
  <1>14. CASE UndoLoader(r)
    BY <1>14, <1>t, <1>i, <1>p, Distinct DEF UndoLoader, RestoredLoader, Holds, FailUncertain,
       Stop, TakingBack, Kept,
       LeavesLoader, Run, Caches
  <1>15. CASE UndoCache(r)
    BY <1>15, <1>t, <1>i, <1>p, Distinct DEF UndoCache, RestoredCache, Removable, FailUncertain, Stop,
       TakingBack, Kept,
       LeavesLoader, Run, Caches
  <1>16. QED
    BY <1>1, <1>2, <1>3, <1>4, <1>5, <1>6, <1>7, <1>8, <1>9, <1>10, <1>11, <1>12, <1>13, <1>14,
       <1>15
       DEF InstallOrIngest, Forward, Backward

--------------------------------------------------------------------------------
(* Roots that are being removed                                            *)

(* A step of a run that is not removing its root leaves the runs that      *)
(* began to remove theirs as they are.                                     *)
LEMMA TornFrame ==
  ASSUME TornInv, RootTypes, ProcessTypes, NEW r \in Runs, Mine(r),
         pc[r] \notin {"removing", "failed", "dead"}, tree'.torn \subseteq tree.torn,
         \A u \in Runs \ {r} : initialization'[u] = initialization[u]
  PROVE  TornInv'
  <1>1. r \notin tree.torn
    BY DEF TornInv
  <1>2. tree.torn \subseteq Runs
    BY DEF RootTypes, Trees
  <1>3. QED
    BY <1>1, <1>2, OthersUntouched DEF TornInv

(* So do the calls of the store but the rollback of an initialization,     *)
LEMMA StoreKeepsTorn ==
  ASSUME TornInv, RootTypes, ProcessTypes, NEW r \in Runs, Mine(r), StoreCall(r)
  PROVE  TornInv'
  <1>. USE DEF Own, At
  <1>o. \A u \in Runs \ {r} : pc'[u] = pc[u] /\ recovery'[u] = recovery[u]
    BY OthersUntouched
  <1>1. CASE InitForInstall(r)
    <2>. USE DEF Opening
    <2>1. pc[r] \in {"inspect", "create", "git_init", "seed", "seed_ref", "seal"}
      BY <1>1 DEF InitForInstall, Inspect, Create, GitInit, Seed, SeedRef, Seal, InspectFails, InitFails
    <2>2. \A u \in Runs \ {r} : initialization'[u] = initialization[u]
      BY <1>1 DEF InitForInstall, Inspect, Create, GitInit, Seed, SeedRef, Seal, InspectFails, InitFails,
         ProcessTypes
    <2>3. tree'.torn \subseteq tree.torn
      <3>1. CASE Create(r) \/ SeedRef(r)
        BY <3>1 DEF Create, SeedRef, RootTypes, Trees
      <3>2. CASE GitInit(r)
        BY <3>2 DEF GitInit, Bare, Absent
      <3>3. CASE UNCHANGED tree
        BY <3>3
      <3>4. QED
        BY <1>1, <3>1, <3>2, <3>3 DEF InitForInstall, Inspect, Seed, Seal, InspectFails, InitFails, disk
    <2>4. QED
      BY <2>1, <2>2, <2>3, TornFrame
  <1>2. CASE BeginIngest(r) \/ AbortIngest(r) \/ AbortFails(r)
    <2>1. pc[r] \in {"begin", "quarantine", "abort"} /\ UNCHANGED <<tree, initialization>>
      BY <1>2 DEF BeginIngest, reserveIngestTransaction, BeginFails, BeginUncertain,
         createIngestQuarantine, AbortIngest, AbortFails, Calling
    <2>2. QED
      BY <2>1, TornFrame
  <1>3. CASE CommitIngest(r)
    <2>1. pc[r] \in {"claim", "authority", "root_lock", "cleanup"} \union InCommit /\ UNCHANGED initialization
      BY <1>3 DEF CommitIngest, claimIngestCommit, CheckAuthority, AcquireRootLock,
         prepareIngestCandidate, PrepareSession, applyPreparedSecrets, publishCandidateObjects,
         CommitSession, observeDirectRef, GuardRef, RestoreGuarded, cleanupCommittedTransaction,
         Committing, InCommit
    <2>2. tree'.torn = tree.torn
      <3>1. CASE Published(r) \/ Land(r)
        BY <3>1 DEF Published, Land, RootTypes, Trees
      <3>2. CASE UNCHANGED tree
        BY <3>2
      <3>3. QED
        BY <1>3, <3>1, <3>2 DEF CommitIngest, claimIngestCommit, CheckAuthority, AcquireRootLock,
           prepareIngestCandidate, PrepareSession, applyPreparedSecrets, publishCandidateObjects,
           CommitSession, observeDirectRef, GuardRef, RestoreGuarded, cleanupCommittedTransaction,
           disk
    <2>3. QED
      BY <2>1, <2>2, TornFrame DEF InCommit
  <1>4. CASE RollbackInitialization(r)
    <2>. USE DEF Undoing
    <2>1. CASE RollbackRefused(r) \/ RestoreMode(r) \/ CompareTree(r)
      <3>1. pc[r] = "undo_store" /\ UNCHANGED initialization
        BY <2>1 DEF RollbackRefused, RestoreMode, CompareTree
      <3>2. tree'.torn = tree.torn
        BY <2>1 DEF RollbackRefused, RestoreMode, CompareTree, RootTypes, Trees
      <3>3. QED
        BY <3>1, <3>2, TornFrame
    <2>2. CASE RemoveEntry(r)
      <3>1. tree'.torn = tree.torn \union {r} /\ pc'[r] = "removing" /\ UNCHANGED initialization
        BY <2>2 DEF RemoveEntry, RootTypes, Trees, ProcessTypes, Goto
      <3>2. tree.torn \subseteq Runs
        BY DEF RootTypes, Trees
      <3>3. QED
        BY <3>1, <3>2, <1>o DEF TornInv
    <2>3. CASE RemoveRoot(r)
      BY <2>3 DEF RemoveRoot, Absent, TornInv
    <2>4. CASE RemoveFails(r)
      <3>1. /\ pc'[r] = "failed" /\ UNCHANGED <<tree, initialization>>
            /\ recovery'[r] = (recovery[r] \/ initialization[r].state = "open")
        BY <2>4 DEF RemoveFails, EndUndo, Goto, ProcessTypes
      <3>2. initialization[r].state \in {"none", "open"}
        BY DEF ProcessTypes, Initialization
      <3>3. tree.torn \subseteq Runs
        BY DEF RootTypes, Trees
      <3>4. ASSUME NEW u \in tree.torn
            PROVE  \/ pc'[u] \in {"removing", "dead"}
                   \/ pc'[u] = "failed" /\ (recovery'[u] \/ initialization'[u].state = "none")
        <4>1. CASE u = r
          BY <3>1, <3>2, <4>1
        <4>2. CASE u # r
          BY <3>1, <3>3, <4>2, <1>o DEF TornInv
        <4>3. QED
          BY <4>1, <4>2
      <3>5. QED
        BY <3>1, <3>4 DEF TornInv
    <2>5. QED
      BY <1>4, <2>1, <2>2, <2>3, <2>4 DEF RollbackInitialization, RemoveTree
  <1>5. QED
    BY <1>1, <1>2, <1>3, <1>4 DEF StoreCall

(* and the steps of a caller; a death may leave a root half removed.       *)
LEMMA OthersKeepTorn ==
  ASSUME TornInv, RootTypes, ProcessTypes, NEW r \in Runs, Mine(r), InstallOrIngest(r) \/ KillStore(r)
  PROVE  TornInv'
  <1>1. CASE InstallOrIngest(r)
    <2>1. UNCHANGED InStore
      BY <1>1, CallersKeepStore
    <2>2. pc[r] \notin {"removing", "failed", "dead"}
      BY <1>1 DEF InstallOrIngest, Forward, Backward, Start, RootsOverlap, prepareIngestInstallAt,
         prepareGuardedInstallTransaction, secureCacheDirectory, StageLoader, PromoteLoader, PromoteTarget,
         ValidateTarget, FinalizeTarget, FinalizeStore, UndoTarget, UndoLoader, UndoCache,
         MaterializeCommittedWorktree, Caller, Targeted, Cached, Committed, Rejected, At
    <2>3. QED
      BY <2>1, <2>2, TornFrame DEF InStore, disk
  <1>2. CASE KillStore(r)
    <2>1. /\ pc'[r] = "dead" /\ UNCHANGED tree
          /\ \A u \in Runs \ {r} : initialization'[u] = initialization[u]
      BY <1>2 DEF KillStore, Goto, disk, ProcessTypes
    <2>2. tree.torn \subseteq Runs
      BY DEF RootTypes, Trees
    <2>3. QED
      BY <2>1, <2>2, OthersUntouched DEF TornInv
  <1>3. QED
    BY <1>1, <1>2

--------------------------------------------------------------------------------
(* The invariant is inductive                                              *)

(* The initial states satisfy the invariant.                               *)
LEMMA InitInv ==
  ASSUME Init
  PROVE  IInv
  <1>1. \E t \in {Absent, Seeded(TRUE), Seeded(FALSE)} :
           tree = t /\ inode = (IF t.exists THEN 1 ELSE 0)
    BY DEF Init, StoreInit
  <1>2. /\ tree \in Trees /\ tree.line = {} /\ inode \in {0, 1}
        /\ ~tree.exists => tree.main = "none" /\ tree.objects = {}
        /\ tree.exists => tree.main = "init" /\ tree.objects = {"init"}
        /\ tree.torn = {}
    <2>1. CASE tree = Absent
      BY <1>1, <2>1, RecordTypes DEF Absent
    <2>2. ASSUME NEW private \in BOOLEAN, tree = Seeded(private)
          PROVE  /\ tree.line = {} /\ tree.exists /\ tree.main = "init" /\ tree.objects = {"init"}
                 /\ tree.torn = {}
      BY <2>2 DEF Seeded, Bare, Absent
    <2>3. QED
      BY <1>1, <2>1, <2>2, RecordTypes
  <1>3. /\ secrets = "none" /\ quarantines = {} /\ landed = {}
        /\ rootLock = Nobody /\ refLock = Nobody
        /\ initialization = [r \in Runs |-> NewInitialization]
        /\ transaction = [r \in Runs |-> NewTransaction]
        /\ pc = [r \in Runs |-> "idle"]
        /\ recovery = [r \in Runs |-> FALSE]
        /\ faults = 0 /\ targetLock = Nobody /\ temps = {} /\ worktree = "none"
        /\ run = [r \in Runs |-> NewRun]
    BY DEF Init, StoreInit
  <1>4. RootTypes
    BY <1>2, <1>3 DEF RootTypes
  <1>5. ProcessTypes
    <2>1. NewInitialization \in Initialization
      BY Distinct, RecordTypes DEF NewInitialization, Initialization, Inodes
    <2>2. "idle" \in Stages
      BY DEF Stages
    <2>3. QED
      BY <1>3, <2>1, <2>2, Distinct, RecordTypes DEF ProcessTypes
  <1>6. /\ target \in Target /\ target.by \notin Runs
        /\ cache \in Caches /\ cache.inode \in {0, 1}
        /\ cache.loader # "none" => cache.exists
        /\ target.block => cache.loader # "none"
    <2>1. CASE target = [by |-> User, edit |-> 0, block |-> FALSE] /\ cache = NoCache
      BY <2>1, CallerRecords, Distinct DEF Target, NoCache
    <2>2. CASE /\ target = MissingTarget
               /\ cache = [inode |-> 1, exists |-> TRUE, private |-> FALSE, loader |-> "none"]
      BY <2>2, CallerRecords, Distinct DEF MissingTarget, Caches, Inodes, Loaders
    <2>3. CASE /\ target = [by |-> User, edit |-> 0, block |-> TRUE]
               /\ cache = [inode |-> 1, exists |-> TRUE, private |-> TRUE, loader |-> "old"]
      BY <2>3, Distinct DEF Target, Caches, Inodes, Loaders
    <2>4. QED
      BY <2>1, <2>2, <2>3 DEF Init
  <1>7. CallerTypes
    BY <1>3, <1>6, CallerRecords DEF CallerTypes, Commits
  <1>8. Counted
    BY <1>2, <1>6, PastBound DEF Counted
  <1>9. \A r \in Runs : /\ pc[r] = "idle" /\ transaction[r] = NewTransaction /\ ~recovery[r]
                        /\ run[r] = NewRun
    BY <1>3
  <1>10. LocalInv
    BY <1>3, <1>9 DEF LocalInv, Local, LocalTransaction, LocalTarget, NewRun, NewTransaction, Fresh,
       Early, Staged, Preparing, Trying, Undoings, InCommit
  <1>11. RootInv
    <2>1. LockInv
      BY <1>3, <1>9, Distinct DEF LockInv, InCommit
    <2>2. TreeInv
      BY <1>2, Distinct DEF TreeInv
    <2>3. SessionInv
      BY <1>3, Distinct DEF SessionInv
    <2>4. LineInv
      BY <1>2, <1>9, Distinct DEF LineInv, NewTransaction
    <2>5. QED
      BY <2>1, <2>2, <2>3, <2>4 DEF RootInv
  <1>16. TornInv
    BY <1>2 DEF TornInv
  <1>12. SecretInv
    BY <1>2, <1>3, <1>9, Distinct DEF SecretInv, Applied
  <1>13. TargetInv
    BY <1>3, <1>6, <1>9 DEF TargetInv, NewRun
  <1>14. LoaderInv
    BY <1>6, <1>9 DEF LoaderInv, NewRun, MissingTarget
  <1>15. QED
    BY <1>4, <1>5, <1>7, <1>8, <1>10, <1>11, <1>12, <1>13, <1>14, <1>16
       DEF IInv

(* A step of install or ingest outside the store preserves it,             *)
LEMMA CallerStepInv ==
  ASSUME IInv, NEW r \in Runs, InstallOrIngest(r)
  PROVE  IInv'
  <1>1. Local(r) /\ Mine(r)
    BY CallerMine DEF IInv, LocalInv
  <1>2. CallerTypes' /\ OthersKeep(r)
    BY <1>1, CallerKeepsOthers DEF IInv
  <1>3. RootTypes' /\ ProcessTypes'
    BY CallersKeepStore DEF IInv, InStore, disk, locks, RootTypes, ProcessTypes
  <1>4. Counted'
    <2>1. inode' = inode
      BY CallersKeepStore DEF IInv, InStore, disk
    <2>2. QED
      BY <1>1, <2>1, CallerMakesOne, CountedPreserved DEF IInv
  <1>5. Local(r)'
    BY <1>1, CallerLocal DEF IInv
  <1>6. LocalInv'
    BY <1>1, <1>2, <1>5, OthersUntouched, OthersRemember DEF IInv, OthersKeep
  <1>7. RootInv' /\ SecretInv'
    BY <1>1, CallerQuiet, QuietPreserves DEF IInv
  <1>8. TargetInv'
    <2>1. CASE PromoteTarget(r)
      BY <1>1, <1>2, <2>1, PromoteKeepsTarget DEF IInv
    <2>2. CASE UndoTarget(r)
      BY <1>1, <1>2, <2>2, UndoKeepsTarget DEF IInv
    <2>3. CASE ~PromoteTarget(r) /\ ~UndoTarget(r)
      BY <1>1, <1>2, <1>5, <2>3, CallerLeavesTarget, TargetFrame DEF IInv
    <2>4. QED
      BY <2>1, <2>2, <2>3
  <1>9. LoaderInv'
    BY <1>1, <1>2, CallerLeavesLoader, LoaderFrame DEF IInv
  <1>10. TornInv'
    BY <1>1, OthersKeepTorn DEF IInv
  <1>11. QED
    BY <1>2, <1>3, <1>4, <1>6, <1>7, <1>8, <1>9, <1>10 DEF IInv

(* a call of the store,                                                    *)
LEMMA StoreStepInv ==
  ASSUME IInv, NEW r \in Runs, StoreStep(r)
  PROVE  IInv'
  <1>1. /\ StoreCall(r) /\ UNCHANGED <<target, cache, temps, worktree, run>>
        /\ At(r, "begin") => run[r].kind = "ingest"
        /\ Unlock(r) \/ UNCHANGED targetLock
    BY DEF StoreStep
  <1>2. Local(r) /\ Mine(r)
    BY <1>1, StoreMine DEF IInv, LocalInv
  <1>3. RootTypes' /\ ProcessTypes'
    BY <1>1, StoreCallTypes, CountsAreInodes DEF IInv
  <1>4. CallerTypes'
    BY <1>1 DEF IInv, CallerTypes, Unlock
  <1>5. Counted'
    BY <1>1, <1>2, StoreMakesOne, CountedPreserved DEF IInv
  <1>6. Local(r)'
    <2>1. CASE InitForInstall(r)
      BY <1>1, <1>2, <2>1, InitForInstallLocal DEF IInv
    <2>2. CASE RollbackInitialization(r)
      BY <1>1, <1>2, <2>2, RollbackLocal DEF IInv
    <2>3. CASE BeginIngest(r) \/ AbortIngest(r) \/ AbortFails(r)
      BY <1>1, <1>2, <2>3, BeginLocal DEF IInv
    <2>4. CASE CommitIngest(r)
      BY <1>1, <1>2, <2>4, CommitLocal DEF IInv
    <2>5. QED
      BY <1>1, <2>1, <2>2, <2>3, <2>4 DEF StoreCall
  <1>7. LocalInv'
    BY <1>1, <1>2, <1>6, OthersUntouched, OthersRemember DEF IInv
  <1>8. RootInv' /\ SecretInv'
    BY <1>1, <1>2, StoreCallPreserves DEF IInv
  <1>9. OthersKeep(r) /\ LeavesTarget(r)
    BY <1>2, <1>6, StoreLeavesTarget DEF IInv
  <1>10. TargetInv'
    BY <1>9, TargetFrame DEF IInv
  <1>11. LoaderInv'
    BY <1>9, StoreLeavesLoader, LoaderFrame DEF IInv
  <1>12. TornInv'
    BY <1>1, <1>2, StoreKeepsTorn DEF IInv
  <1>13. QED
    BY <1>3, <1>4, <1>5, <1>7, <1>8, <1>10, <1>11, <1>12 DEF IInv

(* a death,                                                                *)
LEMMA KillInv ==
  ASSUME IInv, NEW r \in Runs, Kill(r)
  PROVE  IInv'
  <1>1. /\ KillStore(r) /\ Unlock(r) /\ UNCHANGED <<cache, temps, worktree>>
        /\ run' = [run EXCEPT ![r] = [NewRun EXCEPT !.promoted = run[r].promoted /\ pc[r] \in TakingBack]]
    BY DEF Kill
  <1>2. Local(r) /\ Mine(r)
    BY <1>1, StoreMine DEF IInv, LocalInv
  <1>3. RootTypes' /\ ProcessTypes'
    BY <1>1, StoreCallTypes, CountsAreInodes DEF IInv
  <1>4. CallerTypes'
    <2>1. \A promoted \in BOOLEAN : [NewRun EXCEPT !.promoted = promoted] \in Run
      BY CallerRecords DEF Run
    <2>2. (run[r].promoted /\ pc[r] \in TakingBack) \in BOOLEAN
      OBVIOUS
    <2>3. [NewRun EXCEPT !.promoted = run[r].promoted /\ pc[r] \in TakingBack] \in Run
      BY <2>1, <2>2
    <2>4. run' \in [Runs -> Run]
      BY <1>1, <2>3 DEF IInv, CallerTypes
    <2>5. target' \in Target
      BY CallerRecords DEF Kill, Displaces, Reverses, IInv, CallerTypes, Run
    <2>6. QED
      BY <1>1, <2>4, <2>5 DEF IInv, CallerTypes, Unlock
  <1>5. Counted'
    BY <1>1, <1>2, StoreMakesOne, CountedPreserved DEF IInv
  <1>6. Local(r)'
    BY <1>2, KillLocal DEF IInv
  <1>7. OthersKeep(r) /\ TargetInv'
    BY <1>2, KillKeepsTarget DEF IInv
  <1>8. LocalInv'
    BY <1>2, <1>6, <1>7, OthersUntouched, OthersRemember DEF IInv, OthersKeep
  <1>9. RootInv' /\ SecretInv'
    BY <1>1, <1>2, KillPreserves DEF IInv
  <1>10. LoaderInv'
    BY <1>2, <1>7, KillLeavesLoader, LoaderFrame DEF IInv
  <1>11. TornInv'
    BY <1>1, <1>2, OthersKeepTorn DEF IInv
  <1>12. QED
    BY <1>3, <1>4, <1>5, <1>7, <1>8, <1>9, <1>10, <1>11 DEF IInv

(* (while the runs stay as they are, so does what they know of themselves) *)
LEMMA SameRuns ==
  ASSUME LocalInv, Counted, UNCHANGED <<pc, run, transaction, recovery, quarantines, inode, cache>>
  PROVE  LocalInv' /\ Counted'
  <1>1. LocalInv'
    BY DEF LocalInv, Local
  <1>2. Past(NotYetRooted)' = Past(NotYetRooted) /\ Past(NotYetCached)' = Past(NotYetCached)
    BY DEF Past
  <1>3. QED
    BY <1>1, <1>2 DEF Counted

(* an edit of the startup file by the user,                                *)
LEMMA UserEditsInv ==
  ASSUME IInv, UserEdits
  PROVE  IInv'
  <1>1. /\ UNCHANGED <<tree, inode, secrets, quarantines, landed, rootLock, refLock, initialization,
                       transaction, pc, recovery, faults>>
        /\ UNCHANGED <<targetLock, cache, temps, worktree, run>>
    BY DEF UserEdits, storeVars, disk, locks
  <1>2. PICK save \in (1 .. MaxEdits) \ Remembered :
          target' = [target EXCEPT !.by = User, !.edit = save]
    BY DEF UserEdits
  <1>3. save \in 0 .. MaxEdits
    BY <1>2, Distinct
  <1>4. target' \in Target /\ target'.by = User /\ target'.block = target.block
    BY <1>2, <1>3 DEF IInv, CallerTypes, Target
  <1>5. RootTypes' /\ ProcessTypes' /\ CallerTypes'
    BY <1>1, <1>4 DEF IInv, RootTypes, ProcessTypes, CallerTypes
  <1>6. LocalInv' /\ Counted'
    BY <1>1, SameRuns DEF IInv
  <1>7. RootInv' /\ TornInv' /\ SecretInv'
    BY <1>1 DEF IInv, RootInv, LockInv, TreeInv, SessionInv, LineInv, TornInv, SecretInv, Known, Told
  <1>8. TargetInv'
    BY <1>1, <1>4, Distinct DEF IInv, TargetInv, Settled
  <1>9. LoaderInv'
    BY <1>1, <1>4 DEF IInv, LoaderInv, Kept
  <1>10. QED
    BY <1>5, <1>6, <1>7, <1>8, <1>9 DEF IInv

(* a worktree commit of a shell,                                           *)
LEMMA ShellCommitsInv ==
  ASSUME IInv, ShellCommits
  PROVE  IInv'
  <1>1. CommitWorktree /\ worktree' = "moved" /\ UNCHANGED <<target, targetLock, cache, temps, run>>
    BY DEF ShellCommits
  <1>2. UNCHANGED <<inode, quarantines, transaction, pc, recovery>>
    BY <1>1 DEF CommitWorktree
  <1>3. RootInv' /\ SecretInv' /\ RootTypes' /\ ProcessTypes'
    BY <1>1, ShellPreserves DEF IInv
  <1>4. CallerTypes'
    BY <1>1 DEF IInv, CallerTypes, Commits
  <1>5. LocalInv' /\ Counted'
    BY <1>1, <1>2, SameRuns DEF IInv
  <1>6. TargetInv' /\ LoaderInv'
    BY <1>1, <1>2 DEF IInv, TargetInv, Settled, LoaderInv, Kept
  <1>7. TornInv'
    <2>1. UNCHANGED initialization /\ tree'.torn = tree.torn
      BY <1>1 DEF CommitWorktree, IInv, RootTypes, Trees
    <2>2. QED
      BY <1>2, <2>1 DEF IInv, TornInv
  <1>8. QED
    BY <1>3, <1>4, <1>5, <1>6, <1>7 DEF IInv

(* and a step in which nothing happens.                                    *)
LEMMA StutterInv ==
  ASSUME IInv, UNCHANGED vars
  PROVE  IInv'
  <1>1. /\ UNCHANGED <<tree, inode, secrets, quarantines, landed, rootLock, refLock, initialization,
                       transaction, pc, recovery, faults>>
        /\ UNCHANGED <<target, targetLock, cache, temps, worktree, run>>
    BY DEF vars, callerVars, storeVars, disk, locks
  <1>2. RootTypes' /\ ProcessTypes' /\ CallerTypes'
    BY <1>1 DEF IInv, RootTypes, ProcessTypes, CallerTypes
  <1>3. LocalInv' /\ Counted'
    BY <1>1, SameRuns DEF IInv
  <1>4. RootInv' /\ TornInv' /\ SecretInv'
    BY <1>1 DEF IInv, RootInv, LockInv, TreeInv, SessionInv, LineInv, TornInv, SecretInv, Known, Told
  <1>5. TargetInv' /\ LoaderInv'
    BY <1>1 DEF IInv, TargetInv, Settled, LoaderInv, Kept
  <1>6. QED
    BY <1>2, <1>3, <1>4, <1>5 DEF IInv

(* The invariant holds in every state that is reached.                     *)
LEMMA InvariantHolds == Spec => []IInv
  <1>1. Init => IInv
    BY InitInv
  <1>2. IInv /\ [Next]_vars => IInv'
    <2>1. SUFFICES ASSUME IInv, [Next]_vars
                   PROVE  IInv'
      OBVIOUS
    <2>2. ASSUME NEW r \in Runs, Forward(r) \/ Backward(r)
          PROVE  IInv'
      BY <2>1, <2>2, CallerStepInv DEF InstallOrIngest
    <2>3. ASSUME NEW r \in Runs, StoreStep(r)
          PROVE  IInv'
      BY <2>1, <2>3, StoreStepInv
    <2>4. ASSUME NEW r \in Runs, Kill(r)
          PROVE  IInv'
      BY <2>1, <2>4, KillInv
    <2>5. CASE UserEdits
      BY <2>1, <2>5, UserEditsInv
    <2>6. CASE ShellCommits
      BY <2>1, <2>6, ShellCommitsInv
    <2>7. CASE UNCHANGED vars
      BY <2>1, <2>7, StutterInv
    <2>8. QED
      BY <2>1, <2>2, <2>3, <2>4, <2>5, <2>6, <2>7 DEF Next, Over
  <1>3. QED
    BY <1>1, <1>2, PTL DEF Spec

--------------------------------------------------------------------------------
(* What install and ingest promise                                         *)

(* The type invariant the runs check is part of it.                        *)
LEMMA TypesHold ==
  ASSUME IInv
  PROVE  TypeOK
  <1>1. inode \in 0 .. Cardinality(Runs) + 1
    BY CountsAreInodes DEF IInv, Inodes
  <1>2. ASSUME NEW r \in Runs
        PROVE  /\ rootLock = r <=> pc[r] \in InCommit
               /\ refLock = r => pc[r] \in InCommit
               /\ transaction[r].state \in Lifecycles /\ transaction[r].status \in Statuses
               /\ recovery[r] \in BOOLEAN
    <2>1. (rootLock = r <=> pc[r] \in InCommit) /\ (refLock = r => pc[r] \in InCommit)
      BY DEF IInv, RootInv, LockInv, Sessions, InCommit
    <2>2. QED
      BY <2>1 DEF IInv, ProcessTypes, Transaction
  <1>3. StoreTypeOK
    BY <1>1, <1>2 DEF StoreTypeOK, IInv, RootTypes, ProcessTypes
  <1>4. QED
    BY <1>3 DEF TypeOK, IInv, CallerTypes, Caches, Inodes

(* Every variable keeps its type; a run holds the lock of the root exactly *)
(* while it is between acquireLock and the end of CommitIngest, and main   *)
(* is locked only by a session of such a run.                              *)
THEOREM InstallTypesHold == Spec => []TypeOK
  BY InvariantHolds, TypesHold, PTL

(* However many runs overlap, fail or die: main never names a commit whose *)
(* objects the store does not have (CommitIngest publishes the objects     *)
(* before it moves main), and only the removal of a root, which goes entry *)
(* by entry under no lock, can part them, in the root it began to remove   *)
(* and in no later one.                                                    *)
THEOREM MainIsAlwaysReadable == Spec => []PublishedIsReadable
  <1>1. IInv => PublishedIsReadable
    BY DEF IInv, RootInv, TreeInv, PublishedIsReadable
  <1>2. QED
    BY <1>1, InvariantHolds, PTL

(* The keychain holds the secrets of the profile main publishes whenever   *)
(* no run is between applyPreparedSecrets and the end of CommitIngest,     *)
(* none has died and none was told to recover.                             *)
THEOREM KeychainFollowsMain == Spec => []SecretsMatchMain
  <1>1. ASSUME IInv, Quiet
        PROVE  /\ \A r \in Runs : secrets = r => r \in landed
               /\ tree.main \in Runs => secrets = tree.main
    <2>1. ~Told /\ \A r \in Runs : pc[r] \notin Applied
      BY <1>1 DEF Quiet, Told, Applied, InCommit
    <2>2. \A r \in Runs : secrets = r => r \in landed
      BY <1>1, <2>1 DEF IInv, SecretInv, Known, Told, RootInv, LineInv
    <2>3. tree.main \in Runs => secrets = tree.main
      BY <1>1, <2>1 DEF IInv, SecretInv
    <2>4. QED
      BY <2>2, <2>3
  <1>2. IInv => SecretsMatchMain
    BY <1>1 DEF SecretsMatchMain
  <1>3. QED
    BY <1>2, InvariantHolds, PTL

(* A run that has failed and asks for no recovery is known to have left no *)
(* candidate behind.                                                       *)
LEMMA FailedUnknown ==
  ASSUME IInv, NEW r \in Runs, pc[r] = "failed", ~recovery[r]
  PROVE  ~Known(r) /\ r \notin tree.line /\ secrets # r /\ r \notin quarantines
  <1>1. Fresh(transaction[r]) /\ r \notin quarantines
    BY DEF IInv, LocalInv, Local, LocalTransaction
  <1>2. ~Known(r)
    BY <1>1 DEF Known, Fresh
  <1>3. r \notin tree.line
    BY <1>2 DEF IInv, RootInv, LineInv
  <1>4. secrets # r
    BY <1>2 DEF IInv, SecretInv, Applied
  <1>5. QED
    BY <1>1, <1>2, <1>3, <1>4

(* A run that fails without asking for recovery leaves no startup file, no *)
(* commit in the history of main, no secret, no quarantine and, once its   *)
(* initialization was complete, no half removed root of its own            *)
(* (compensatePreCommitFilesystemFirst, rollbackInitialInstallPromotion).  *)
THEOREM FailureIsClean == Spec => []CleanFailureRestores
  <1>1. ASSUME IInv, NEW r \in Runs, pc[r] = "failed", ~recovery[r]
        PROVE  target.by # r /\ run[r].promotion \in {"none", "closed"}
    <2>1. run[r].promotion \in {"none", "closed"}
      BY <1>1 DEF IInv, LocalInv, Local, LocalTarget
    <2>2. ~Settled(r)
      BY <1>1 DEF Settled
    <2>3. QED
      BY <1>1, <2>1, <2>2 DEF IInv, TargetInv
  <1>2. ASSUME IInv, NEW r \in Runs, pc[r] = "failed", ~recovery[r], r \in tree.torn
        PROVE  initialization[r].state = "none"
    BY <1>2 DEF IInv, TornInv
  <1>3. IInv => CleanFailureRestores
    BY <1>1, <1>2, FailedUnknown DEF CleanFailureRestores
  <1>4. QED
    BY <1>3, InvariantHolds, PTL

(* Ingest tells the truth without asking for recovery: success only when   *)
(* main pointed to its commit, failure only when main does not have it in  *)
(* its history, and it never denies a startup file it did install.         *)
THEOREM ReportsAreTruthful == Spec => []ReportTruthful
  <1>1. ASSUME IInv, NEW r \in Runs, run[r].kind = "ingest", pc[r] = "ok"
        PROVE  r \in landed
    <2>1. transaction[r].status = "committed"
      BY <1>1 DEF IInv, LocalInv, Local, LocalTransaction
    <2>2. QED
      BY <1>1, <2>1 DEF IInv, RootInv, LineInv
  <1>2. ASSUME IInv, NEW r \in Runs, run[r].kind = "ingest", pc[r] = "failed", ~run[r].startup
        PROVE  target.by # r
    <2>1. run[r].promotion # "installed"
      BY <1>1, <1>2 DEF IInv, LocalInv, Local, LocalTarget
    <2>2. ~Settled(r)
      BY <1>2 DEF Settled
    <2>3. QED
      BY <1>2, <2>1, <2>2 DEF IInv, TargetInv
  <1>3. IInv => ReportTruthful
    BY <1>1, <1>2, FailedUnknown DEF ReportTruthful
  <1>4. QED
    BY <1>3, InvariantHolds, PTL

(* "Filesystem first": a run takes its loader, its cache and its store     *)
(* back only after the startup file is no longer its own; and forward, a   *)
(* file gets its block after the loader is there, in executions in which   *)
(* no run that promoted a loader takes back, fails or dies taking back.    *)
THEOREM LoaderOutlivesItsBlock == Spec => []LoaderOutlivesBlock
  <1>1. ASSUME IInv, NEW r \in Runs, pc[r] \in TakingBack
        PROVE  target.by # r
    <2>1. run[r].promotion # "installed"
      BY <1>1 DEF IInv, LocalInv, Local, LocalTarget, TakingBack, Undoings
    <2>2. ~Settled(r)
      BY <1>1 DEF Settled, TakingBack
    <2>3. QED
      BY <1>1, <2>1, <2>2 DEF IInv, TargetInv
  <1>2. IInv => LoaderBeforeBlock
    BY DEF IInv, LoaderInv, LoaderBeforeBlock
  <1>3. IInv => LoaderOutlivesBlock
    BY <1>1, <1>2 DEF LoaderOutlivesBlock, FilesystemFirst
  <1>4. QED
    BY <1>3, InvariantHolds, PTL
================================================================================
