------------------------------ MODULE IngestStore ------------------------------
(***************************************************************************)
(* The profile store as an install or an ingest uses it (core/store/       *)
(* install_transaction.go, store.go, git.go): initialization that can be   *)
(* taken back, one ingest transaction with its quarantine directory, and   *)
(* CommitIngest, which writes secrets, publishes objects and moves main.   *)
(* Every run is a process with a Store of its own; what they share is on   *)
(* disk.  InstallRun gives the callers.                                    *)
(*                                                                         *)
(* Data.  A commit is named for who made it, and its objects likewise; the *)
(* secrets of a profile are one value, that of the run that wrote it.      *)
(* Inode stands for the evidence that the root is the directory the        *)
(* initialization saw.  A fault is a call that fails, a reply that is lost *)
(* or a process that dies.  Removing the root is no step: its entries go   *)
(* one by one, in any order, while the other processes write to it.        *)
(***************************************************************************)
EXTENDS Naturals, FiniteSets

CONSTANTS
  Runs,      \* processes of the tool
  Nobody,    \* holder of a lock when nobody holds it
  MaxFaults  \* bound of the exploration: faults

(* A run is named by no string: those stand for what no run has made.      *)
ASSUME StoreAssumption ==
  /\ IsFiniteSet(Runs) /\ Nobody \notin Runs /\ MaxFaults \in Nat
  /\ Runs \intersect {"none", "init", "moved", "old", "unsaved"} = {}

VARIABLES
  tree,            \* the store root: is it there, is it private, main, objects;
                   \* the runs whose candidates main may have in its history,
                   \* and those that began to remove this root
  inode,           \* how often the root was created
  secrets,         \* who wrote the secrets in the keychain
  quarantines,     \* runs with a quarantine directory beside the root
  rootLock,        \* holder of the lock of the root's transactions
  refLock,         \* run whose update-ref session has main locked
  landed,          \* runs whose candidate main has pointed to
  initialization,  \* run -> its InstallInitialization
  transaction,     \* run -> its ingest transaction
  pc,              \* run -> the call it is at
  recovery,        \* run -> whether it reports that recovery is required
  faults

disk == <<tree, inode, secrets, quarantines, landed>>
locks == <<rootLock, refLock>>
storeVars == <<disk, locks, initialization, transaction, pc, recovery, faults>>

Commits == {"none", "init", "moved"} \union Runs
Trees == [exists : BOOLEAN, private : BOOLEAN, main : Commits, objects : SUBSET Commits,
          line : SUBSET Runs, torn : SUBSET Runs]
Absent == [exists |-> FALSE, private |-> TRUE, main |-> "none", objects |-> {}, line |-> {},
           torn |-> {}]
Bare == [Absent EXCEPT !.exists = TRUE]
Seeded(private) == [Bare EXCEPT !.private = private, !.main = "init", !.objects = {"init"}]
(* What the walk over the root finds of it: not who began to remove it.    *)
Contents == [tree EXCEPT !.torn = {}]
(* git cat-file -e refs/heads/main                                         *)
Readable == tree.main \in tree.objects
(* A removal that has begun may have taken what makes the root a           *)
(* repository to git: then its commands fail.                              *)
Broken == ~tree.exists \/ tree.torn # {}

NewInitialization ==
  [state |-> "none", created |-> FALSE, restore |-> FALSE, inode |-> 0, seal |-> Absent]
NewTransaction ==
  [state |-> "none", baseline |-> "none", prior |-> "none", status |-> "none", recovery |-> FALSE]

StoreInit ==
  /\ \E t \in {Absent, Seeded(TRUE), Seeded(FALSE)} :
        tree = t /\ inode = (IF t.exists THEN 1 ELSE 0)
  /\ secrets = "none" /\ quarantines = {} /\ landed = {}
  /\ rootLock = Nobody /\ refLock = Nobody
  /\ initialization = [r \in Runs |-> NewInitialization]
  /\ transaction = [r \in Runs |-> NewTransaction]
  /\ pc = [r \in Runs |-> "idle"]
  /\ recovery = [r \in Runs |-> FALSE]
  /\ faults = 0

At(r, stage) == pc[r] = stage
Goto(r, stage) == pc' = [pc EXCEPT ![r] = stage]
Works == UNCHANGED faults
Fault == faults < MaxFaults /\ faults' = faults + 1
(* A call fails by itself, or because what it needs is not there.          *)
Fails(forced) == IF forced THEN UNCHANGED faults ELSE Fault

SetTransaction(r, t) == transaction' = [transaction EXCEPT ![r] = t]
Own(r, stage) == At(r, stage) /\ UNCHANGED initialization

--------------------------------------------------------------------------------
(* InitForInstall.                                                         *)

Opening(r, stage) ==
  At(r, stage) /\ UNCHANGED <<secrets, quarantines, landed, locks, transaction, recovery>>

(* newInstallInitializationState, and the test of an existing root.        *)
Inspect(r) ==
  /\ Opening(r, "inspect")
  /\ tree.exists => Readable
  /\ initialization' = [initialization EXCEPT ![r] =
       [@ EXCEPT !.created = ~tree.exists, !.inode = inode,
                 !.restore = tree.exists /\ ~tree.private]]
  /\ Goto(r, "create")
  /\ Works /\ UNCHANGED <<tree, inode>>

(* ensurePrivateStoreDir, and the test that makes Init idempotent.         *)
Create(r) ==
  /\ Opening(r, "create")
  /\ tree' = IF tree.exists THEN [tree EXCEPT !.private = TRUE] ELSE tree
  /\ \/ tree.exists /\ Goto(r, "seal")
     \/ Broken /\ Goto(r, "git_init")
  /\ Works /\ UNCHANGED <<inode, initialization>>

GitInit(r) ==
  /\ Opening(r, "git_init")
  /\ IF tree.exists THEN UNCHANGED <<tree, inode>> ELSE tree' = Bare /\ inode' = inode + 1
  /\ Goto(r, "seed")
  /\ Works /\ UNCHANGED initialization

Seed(r) ==
  /\ Opening(r, "seed")
  /\ tree.exists
  /\ Goto(r, IF Readable THEN "seal" ELSE "seed_ref")
  /\ Works /\ UNCHANGED <<tree, inode, initialization>>

(* update-ref without an expected value: a history that another run began  *)
(* since the test is left behind.                                          *)
SeedRef(r) ==
  /\ Opening(r, "seed_ref")
  /\ tree.exists /\ refLock = Nobody
  /\ tree' = [tree EXCEPT !.main = "init", !.objects = @ \union {"init"}, !.line = {}]
  /\ Goto(r, "seal")
  /\ Works /\ UNCHANGED <<inode, initialization>>

Seal(r) ==
  /\ Opening(r, "seal")
  /\ tree.exists
  /\ initialization' = [initialization EXCEPT ![r] =
       [@ EXCEPT !.state = "open", !.inode = inode,
                 !.seal = IF initialization[r].created THEN Contents ELSE Absent]]
  /\ Goto(r, "begin")
  /\ Works /\ UNCHANGED <<tree, inode>>

(* Before anything was changed, there is nothing to take back.             *)
InspectFails(r) ==
  /\ Opening(r, "inspect")
  /\ Goto(r, "failed")
  /\ Fails(tree.exists /\ (Broken \/ ~Readable))
  /\ UNCHANGED <<tree, inode, initialization>>

CanInitialize(r) ==
  /\ pc[r] \in {"seed", "seed_ref", "seal"} => ~Broken
  /\ pc[r] = "seed_ref" => refLock = Nobody

InitFails(r) ==
  /\ pc[r] \in {"create", "git_init", "seed", "seed_ref", "seal"}
  /\ UNCHANGED <<disk, locks, initialization, transaction, recovery>>
  /\ Goto(r, "undo_store")
  /\ Fails(~CanInitialize(r))

--------------------------------------------------------------------------------
(* Taking an initialization back.                                          *)

validInstallInitialization(r) ==
  initialization[r].state = "open" /\ tree.exists /\ inode = initialization[r].inode

initializerRollbackSafe(r) ==
  \/ transaction[r].state = "none"
  \/ /\ transaction[r].state = "terminal" /\ transaction[r].status # "committed"
     /\ ~transaction[r].recovery

MayRollBack(r) ==
  initialization[r].state = "none" \/ (validInstallInitialization(r) /\ initializerRollbackSafe(r))

(* A call that ends the run: the error of the rollback is part of the      *)
(* report, unless it is InitForInstall that fails (it returns one error).  *)
EndUndo(r, failed) ==
  /\ Goto(r, "failed")
  /\ recovery' = [recovery EXCEPT ![r] = @ \/ (failed /\ initialization[r].state = "open")]

(* The tree an initialization that failed early compares is the present one. *)
Expected(r) == IF initialization[r].seal.exists THEN initialization[r].seal ELSE Contents

Undoing(r, stage) ==
  /\ Own(r, stage)
  /\ UNCHANGED <<inode, secrets, quarantines, landed, rootLock, transaction>>

(* rollbackInstallInitialization: refused, also for the lock file that a   *)
(* session on main has in the tree.                                        *)
RollbackRefused(r) ==
  /\ Undoing(r, "undo_store")
  /\ \/ ~MayRollBack(r)
     \/ /\ initialization[r].created /\ tree.exists
        /\ Contents # Expected(r) \/ refLock # Nobody
  /\ EndUndo(r, TRUE)
  /\ Works /\ UNCHANGED <<tree, refLock>>

RestoreMode(r) ==
  /\ Undoing(r, "undo_store")
  /\ MayRollBack(r) /\ ~initialization[r].created
  /\ tree' = IF initialization[r].restore /\ tree.exists
             THEN [tree EXCEPT !.private = FALSE] ELSE tree
  /\ EndUndo(r, FALSE)
  /\ Works /\ UNCHANGED refLock

(* state.rollback: the comparison, which is over before the removal begins. *)
CompareTree(r) ==
  /\ Undoing(r, "undo_store")
  /\ MayRollBack(r) /\ initialization[r].created
  /\ \/ ~tree.exists /\ EndUndo(r, FALSE)
     \/ tree.exists /\ Contents = Expected(r) /\ Goto(r, "removing") /\ UNCHANGED recovery
  /\ Works /\ UNCHANGED <<tree, refLock>>

(* os.RemoveAll, under no lock, takes one entry after the other, whoever   *)
(* wrote it: an object; main, whose history a session that has it locked   *)
(* still writes on; the lock file; what is not told apart here.            *)
RemoveEntry(r) ==
  /\ Undoing(r, "removing")
  /\ tree.exists
  /\ LET left == [tree EXCEPT !.torn = @ \union {r}] IN
     \/ /\ \E commit \in tree.objects : tree' = [left EXCEPT !.objects = @ \ {commit}]
        /\ UNCHANGED refLock
     \/ /\ tree.main # "none"
        /\ tree' = [left EXCEPT !.main = "none", !.line = IF refLock = Nobody THEN {} ELSE @]
        /\ UNCHANGED refLock
     \/ tree' = left /\ refLock' \in {refLock, Nobody}
  /\ Works /\ Goto(r, "removing") /\ UNCHANGED recovery

(* The root itself goes last, when it is empty or another removed it; then *)
(* its parents do, which may fail.                                         *)
RemoveRoot(r) ==
  /\ Undoing(r, "removing")
  /\ tree.main = "none" /\ tree.objects = {} /\ refLock = Nobody
  /\ tree' = Absent /\ UNCHANGED refLock
  /\ \/ Works /\ EndUndo(r, FALSE)
     \/ Fault /\ EndUndo(r, TRUE)

(* An entry cannot be removed, or the root is not empty in the end because *)
(* somebody wrote to it meanwhile; either is counted as a fault.           *)
RemoveFails(r) ==
  /\ Undoing(r, "removing")
  /\ Fault /\ EndUndo(r, TRUE)
  /\ UNCHANGED <<tree, refLock>>

RemoveTree(r) == RemoveEntry(r) \/ RemoveRoot(r) \/ RemoveFails(r)

--------------------------------------------------------------------------------
(* BeginIngest and AbortIngest.                                            *)

Calling(r, stage) == Own(r, stage) /\ UNCHANGED <<tree, inode, landed, refLock>>

(* A run that fails before it has anything to undo.                        *)
Fail(r) == Goto(r, "failed") /\ UNCHANGED recovery
FailUncertain(r) == Goto(r, "failed") /\ recovery' = [recovery EXCEPT ![r] = TRUE]

(* The reservation, and with it the observation of main.                   *)
reserveIngestTransaction(r) ==
  /\ Calling(r, "begin")
  /\ IF validInstallInitialization(r)
     THEN /\ SetTransaction(r, [NewTransaction EXCEPT !.state = "provisional", !.baseline = tree.main])
          /\ Goto(r, "quarantine") /\ UNCHANGED recovery
     ELSE Fail(r) /\ UNCHANGED transaction
  /\ Works /\ UNCHANGED <<secrets, quarantines, rootLock>>

terminalizeBeginFailure(r, unclean) ==
  SetTransaction(r, [transaction[r] EXCEPT !.state = "terminal", !.status = "not_committed",
                                           !.recovery = unclean])

(* The profile of the baseline, and a candidate on top of it, need it.     *)
HasBaseline(r) == tree.exists /\ transaction[r].baseline \in tree.objects \union {"none"}

(* The observation of main fails, or the quarantine does and is cleaned.   *)
BeginFails(r) ==
  /\ Calling(r, "quarantine")
  /\ terminalizeBeginFailure(r, FALSE)
  /\ Goto(r, "undo_store") /\ UNCHANGED recovery
  /\ Fails(Broken \/ ~HasBaseline(r))
  /\ UNCHANGED <<secrets, quarantines, rootLock>>

(* The lock cannot be had in time, or the cleaning fails as well.          *)
BeginUncertain(r) ==
  /\ Calling(r, "quarantine")
  /\ terminalizeBeginFailure(r, TRUE)
  /\ FailUncertain(r)
  /\ \E left \in SUBSET {r} : quarantines' = quarantines \union left
  /\ Fault /\ UNCHANGED <<secrets, rootLock>>

createIngestQuarantine(r) ==
  /\ Calling(r, "quarantine")
  /\ rootLock = Nobody /\ HasBaseline(r)
  /\ quarantines' = quarantines \union {r}
  /\ SetTransaction(r, [transaction[r] EXCEPT !.state = "active"])
  /\ Goto(r, "prepare") /\ UNCHANGED recovery
  /\ Works /\ UNCHANGED <<secrets, rootLock>>

AbortIngest(r) ==
  /\ Calling(r, "abort")
  /\ rootLock = Nobody /\ validInstallInitialization(r)
  /\ quarantines' = quarantines \ {r}
  /\ SetTransaction(r, [transaction[r] EXCEPT !.state = "terminal", !.status = "not_committed"])
  /\ Goto(r, "undo_loader") /\ UNCHANGED recovery
  /\ Works /\ UNCHANGED <<secrets, rootLock>>

AbortFails(r) ==
  /\ Calling(r, "abort")
  /\ FailUncertain(r)
  /\ \/ validInstallInitialization(r) /\ Fault
        /\ SetTransaction(r, [transaction[r] EXCEPT !.state = "terminal",
                                 !.status = "not_committed", !.recovery = TRUE])
     \/ ~validInstallInitialization(r) /\ Works /\ UNCHANGED transaction
  /\ UNCHANGED <<secrets, quarantines, rootLock>>

--------------------------------------------------------------------------------
(* CommitIngest.  From root_lock to its end the call holds the lock of the *)
(* root, from session to its end the lock of main.                         *)

InCommit == {"candidate", "session", "secrets", "publish", "commit", "observe", "guard", "guarded"}

Committing(r, stage) == Own(r, stage) /\ UNCHANGED <<inode, recovery>>
(* The call goes on and changes nothing on disk.                           *)
Proceed(r, stage) == Goto(r, stage) /\ UNCHANGED <<tree, secrets, landed, transaction, locks>>

Outcome(r, status, uncertain) ==
  SetTransaction(r, [transaction[r] EXCEPT !.status = status, !.recovery = @ \/ uncertain,
                       !.state = IF uncertain THEN "terminal" ELSE @])
DecideLocked(r, status, uncertain) ==
  /\ Outcome(r, status, uncertain)
  /\ rootLock' = IF rootLock = r THEN Nobody ELSE rootLock
  /\ UNCHANGED refLock
  /\ Goto(r, IF uncertain THEN "decided" ELSE "cleanup")
(* The body of the call is over: both locks are given back, and unless     *)
(* something is uncertain the quarantine is cleaned.                       *)
Decide(r, status, uncertain) ==
  /\ Outcome(r, status, uncertain)
  /\ rootLock' = IF rootLock = r THEN Nobody ELSE rootLock
  /\ refLock' = IF refLock = r THEN Nobody ELSE refLock
  /\ Goto(r, IF uncertain THEN "decided" ELSE "cleanup")

claimIngestCommit(r) ==
  /\ Committing(r, "claim")
  /\ Works /\ UNCHANGED <<disk, locks>>
  /\ IF validInstallInitialization(r)
     THEN /\ SetTransaction(r, [transaction[r] EXCEPT !.state = "committing"])
          /\ Goto(r, "authority")
     ELSE Goto(r, "undo_target") /\ UNCHANGED transaction

(* validateDirectRef, and prepareSecrets, which only reads.                *)
CheckAuthority(r) ==
  /\ Committing(r, "authority")
  /\ UNCHANGED <<tree, secrets, landed, quarantines>>
  /\ \/ tree.exists /\ Works /\ Proceed(r, "root_lock")
     \/ Fails(~tree.exists) /\ Decide(r, "recovery", TRUE)
     \/ Fault /\ Decide(r, "not_committed", FALSE)

AcquireRootLock(r) ==
  /\ Committing(r, "root_lock")
  /\ UNCHANGED <<tree, secrets, landed, quarantines>>
  /\ \/ /\ rootLock = Nobody /\ r \in quarantines
        /\ rootLock' = r /\ UNCHANGED <<refLock, transaction>>
        /\ Goto(r, "candidate") /\ Works
     \/ Fault /\ Decide(r, "recovery", TRUE)

prepareIngestCandidate(r) ==
  /\ Committing(r, "candidate")
  /\ UNCHANGED <<tree, secrets, landed, quarantines>>
  /\ \/ HasBaseline(r) /\ Works /\ Proceed(r, "session")
     \/ Fails(Broken \/ ~HasBaseline(r)) /\ Decide(r, "not_committed", FALSE)
     \/ Fails(Broken \/ ~HasBaseline(r)) /\ Decide(r, "recovery", TRUE)

(* The session locks main and finds the value BeginIngest saw.             *)
PrepareSession(r) ==
  /\ Committing(r, "session")
  /\ UNCHANGED <<tree, secrets, landed, quarantines>>
  /\ LET ready == tree.exists /\ refLock = Nobody /\ tree.main = transaction[r].baseline IN
     \/ /\ ready /\ Works
        /\ refLock' = r /\ Goto(r, "secrets") /\ UNCHANGED <<rootLock, transaction>>
     \/ Fails(Broken \/ ~ready) /\ Decide(r, "conflict", FALSE)

(* restoreSecretPriors: it may leave any of them.                          *)
RestoredNothing(r) == secrets' = secrets
Restored(r) == secrets' = transaction[r].prior
Unrestored(r) == secrets' \in {transaction[r].prior, r}

applyPreparedSecrets(r) ==
  /\ Committing(r, "secrets")
  /\ UNCHANGED <<tree, landed, quarantines>>
  /\ \/ /\ secrets' = r /\ Works
        /\ SetTransaction(r, [transaction[r] EXCEPT !.prior = secrets])
        /\ Goto(r, "publish") /\ UNCHANGED locks
     \/ Fault /\ UNCHANGED secrets /\ Decide(r, "not_committed", FALSE)
     \/ Fault /\ secrets' \in {secrets, r} /\ Decide(r, "not_committed", TRUE)

PublishedNothing(r) == UNCHANGED tree
Published(r) == tree' = [tree EXCEPT !.objects = @ \union {r}]

publishCandidateObjects(r) ==
  /\ Committing(r, "publish")
  /\ UNCHANGED <<landed, quarantines>>
  /\ \/ /\ tree.exists /\ Works /\ Published(r)
        /\ Goto(r, "commit") /\ UNCHANGED <<secrets, transaction, locks>>
     \/ /\ Fails(Broken) /\ UNCHANGED tree
        /\ Restored(r) /\ \E some \in BOOLEAN : Decide(r, "not_committed", some)
     \/ /\ Fault /\ UNCHANGED tree
        /\ Unrestored(r) /\ Decide(r, "not_committed", TRUE)

Land(r) ==
  /\ tree' = [tree EXCEPT !.main = r, !.line = @ \union {r}]
  /\ landed' = landed \union {r}

(* The reply to the commit may be lost on the way out or on the way back.  *)
CommitSession(r) ==
  /\ Committing(r, "commit")
  /\ UNCHANGED <<secrets, quarantines>>
  /\ \/ refLock = r /\ Works /\ Land(r) /\ Decide(r, "committed", FALSE)
     \/ /\ Fails(Broken \/ refLock # r)
        /\ \/ refLock = r /\ Land(r)
           \/ UNCHANGED <<tree, landed>>
        /\ refLock' = (IF refLock = r THEN Nobody ELSE refLock)
        /\ Goto(r, "observe") /\ UNCHANGED <<rootLock, transaction>>

observeCandidateOnly(r) ==
  /\ Committing(r, "observe") /\ Works
  /\ UNCHANGED <<tree, secrets, landed, quarantines>>
  /\ \/ tree.main = r /\ Decide(r, "committed", FALSE)
     \/ tree.main # r /\ Decide(r, "not_committed", FALSE)
observeDirectRef(r) ==
  /\ Committing(r, "observe")
  /\ UNCHANGED <<tree, secrets, landed, quarantines>>
  /\ \/ tree.exists /\ tree.main = r /\ Works /\ Decide(r, "committed", FALSE)
     \/ tree.exists /\ tree.main = transaction[r].baseline /\ Works /\ Proceed(r, "guard")
     \/ Fails(Broken \/ tree.main \notin {r, transaction[r].baseline})
        /\ Decide(r, "recovery", TRUE)

GuardRef(r) ==
  /\ Committing(r, "guard")
  /\ UNCHANGED <<tree, secrets, landed, quarantines>>
  /\ LET ready == tree.exists /\ refLock = Nobody /\ tree.main = transaction[r].baseline IN
     \/ /\ ready /\ Works
        /\ refLock' = r /\ Goto(r, "guarded") /\ UNCHANGED <<rootLock, transaction>>
     \/ Fails(Broken \/ ~ready) /\ Decide(r, "recovery", TRUE)

(* A second failure here is not counted: one has brought the call so far.  *)
RestoreGuarded(r) ==
  /\ Committing(r, "guarded")
  /\ UNCHANGED <<tree, landed, quarantines>>
  /\ \/ Works /\ Restored(r) /\ Decide(r, "not_committed", FALSE)
     \/ Works /\ Unrestored(r) /\ Decide(r, "recovery", TRUE)

Terminal(r, unclean) ==
  /\ SetTransaction(r, [transaction[r] EXCEPT !.state = "terminal", !.recovery = unclean])
  /\ Goto(r, "decided")

cleanupCommittedTransaction(r) ==
  /\ Committing(r, "cleanup")
  /\ UNCHANGED <<tree, secrets, landed, locks>>
  /\ \/ rootLock = Nobody /\ quarantines' = quarantines \ {r} /\ Works /\ Terminal(r, FALSE)
     \/ UNCHANGED quarantines /\ Fault /\ Terminal(r, TRUE)

CommitIngest(r) ==
  claimIngestCommit(r) \/ CheckAuthority(r) \/ AcquireRootLock(r) \/ prepareIngestCandidate(r)
  \/ PrepareSession(r) \/ applyPreparedSecrets(r) \/ publishCandidateObjects(r)
  \/ CommitSession(r) \/ observeDirectRef(r) \/ GuardRef(r) \/ RestoreGuarded(r)
  \/ cleanupCommittedTransaction(r)

InitForInstall(r) ==
  Inspect(r) \/ Create(r) \/ GitInit(r) \/ Seed(r) \/ SeedRef(r) \/ Seal(r)
  \/ InspectFails(r) \/ InitFails(r)

RollbackInitialization(r) ==
  RollbackRefused(r) \/ RestoreMode(r) \/ CompareTree(r) \/ RemoveTree(r)

BeginIngest(r) ==
  reserveIngestTransaction(r) \/ BeginFails(r) \/ BeginUncertain(r) \/ createIngestQuarantine(r)

StoreCall(r) ==
  \/ InitForInstall(r) \/ RollbackInitialization(r)
  \/ BeginIngest(r) \/ AbortIngest(r) \/ AbortFails(r) \/ CommitIngest(r)

(* A worktree commit of a shell moves main, by compare and swap.  One that *)
(* the root and the runs remember is enough, and keeps commits distinct.   *)
CommitWorktree ==
  /\ Readable /\ refLock = Nobody
  /\ "moved" \notin tree.objects \union {transaction[r].baseline : r \in Runs}
  /\ tree' = [tree EXCEPT !.main = "moved", !.objects = @ \union {"moved"}]
  /\ UNCHANGED <<inode, secrets, quarantines, landed, locks, initialization, transaction, pc,
                 recovery, faults>>

NotRunning == {"idle", "ok", "failed", "dead"}
KillStore(r) ==
  /\ pc[r] \notin NotRunning
  /\ Fault /\ Goto(r, "dead")
  /\ rootLock' = IF rootLock = r THEN Nobody ELSE rootLock
  /\ refLock' = IF refLock = r THEN Nobody ELSE refLock
  /\ initialization' = [initialization EXCEPT ![r] = NewInitialization]
  /\ transaction' = [transaction EXCEPT ![r] = NewTransaction]
  /\ UNCHANGED <<disk, recovery>>

--------------------------------------------------------------------------------
(* What the store owes every caller.                                       *)

Lifecycles == {"none", "provisional", "active", "committing", "terminal"}
Statuses == {"none", "committed", "conflict", "not_committed", "recovery"}
StoreTypeOK ==
  /\ tree \in Trees /\ inode \in 0 .. Cardinality(Runs) + 1
  /\ secrets \in {"none"} \union Runs
  /\ quarantines \subseteq Runs /\ landed \subseteq Runs
  /\ rootLock \in Runs \union {Nobody} /\ refLock \in Runs \union {Nobody}
  /\ \A r \in Runs :
       /\ rootLock = r <=> pc[r] \in InCommit
       /\ refLock = r => pc[r] \in InCommit
       /\ transaction[r].state \in Lifecycles /\ transaction[r].status \in Statuses
       /\ recovery[r] \in BOOLEAN
  /\ faults \in 0 .. MaxFaults

(* Main never names a commit whose objects are not in the store, whichever *)
(* call failed and whoever died: CommitIngest publishes before it commits, *)
(* and nothing but a removal takes objects away.  A root some run began to *)
(* remove is excepted until it is gone: os.RemoveAll has no order and no   *)
(* lock, so what it leaves when it is cut short, or a commit that lands    *)
(* meanwhile, may be main without its objects.                             *)
PublishedIsReadable == tree.torn = {} /\ tree.main # "none" => tree.main \in tree.objects

(* The keychain belongs to the profile that main publishes: no step may    *)
(* leave the secrets of a candidate that lost, nor take back the secrets   *)
(* of one that won, unless somebody is told to recover or died.            *)
Quiet == \A r \in Runs :
  pc[r] \notin InCommit \union {"dead"} /\ ~transaction[r].recovery
SecretsMatchMain ==
  Quiet => /\ \A r \in Runs : secrets = r => r \in landed
           /\ tree.main \in Runs => secrets = tree.main
===============================================================================
