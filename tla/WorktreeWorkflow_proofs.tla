------------------------ MODULE WorktreeWorkflow_proofs ------------------------
(***************************************************************************)
(* Theorems about the git side of Worktree: the base and its document stay *)
(* one commit, commits and repairs record the shared generation, branch    *)
(* heads fast-forward and a checkout leaves no uncommitted work behind.    *)
(***************************************************************************)
EXTENDS Worktree_proofs

BaseInv == TypeInv /\ BaseIsCommitted

-------------------------------------------------------------------------------
(* What each action does to the commits and to the base                    *)

(* The requests of the terminals touch neither.                            *)
LEMMA SyncKeepsBase ==
  ASSUME TypeInv, NEW s \in Shells, Sync(s)
  PROVE  UNCHANGED <<materialized, branch, baseOID, committed, refs, objects>>
  <1>1. syncUnchanged
    <2>1. ASSUME NEW op, NEW initial, Attach(s, op, initial) PROVE syncUnchanged
      BY <2>1 DEF Attach
    <2>2. ASSUME NEW op, NEW delta, NEW ack, Publish(s, op, ack, delta) PROVE syncUnchanged
      BY <2>2 DEF Publish
    <2>3. ASSUME NEW op, NEW applied, PreparePull(s, op, applied) PROVE syncUnchanged
      BY <2>3 DEF PreparePull
    <2>4. ASSUME NEW op, NEW identity, NEW token, NEW snap, ResolveShared(s, op, identity, token, snap)
          PROVE  syncUnchanged
      BY <2>4 DEF ResolveShared
    <2>5. ASSUME NEW op, NEW revision, NEW token, NEW snap, Acknowledge(s, op, revision, token, snap)
          PROVE  syncUnchanged
      BY <2>5 DEF Acknowledge
    <2>6. QED
      BY SyncCases, <2>1, <2>2, <2>3, <2>4, <2>5
  <1>2. QED
    BY <1>1 DEF syncUnchanged

(* A repaired base carries the document of the commit it moved to.         *)
LEMMA RepairedStateBase ==
  ASSUME BaseInv, materialized, RepairPossible, RepairedState
  PROVE  /\ baseOID' = refs[branch] /\ refs[branch] \in DOMAIN objects
         /\ committed' = objects[refs[branch]].document
         /\ refs[branch] # baseOID => committed'.projection = shared
  <1>1. refs[branch] \in DOMAIN objects /\ baseOID' = refs[branch]
    BY RepairedStateType DEF BaseInv
  <1>2. QED
    BY <1>1 DEF BaseInv, BaseIsCommitted, RepairedState, RepairPossible

(* An ingested commit has the head of Main as its parent.                  *)
LEMMA IngestRepository ==
  ASSUME TypeInv, NEW profile \in Profiles, Ingest(profile)
  PROVE  /\ \A o \in DOMAIN objects : objects'[o] = objects[o]
         /\ \E oid \in DOMAIN objects' :
              /\ refs' = [refs EXCEPT ![Main] = oid]
              /\ objects'[oid].parent = refs[Main]
         /\ UNCHANGED state
  <1>. DEFINE commit == [parent |-> refs[Main], document |-> IngestDocument(profile)]
  <1>1. PICK oid \in 1 .. MaxObjects : StoreCommit(Main, oid, commit)
    BY DEF Ingest
  <1>2. refs[Main] \in Nat /\ Main \in Branches /\ RepositoryTypes /\ oid \in Nat
    BY ConstantsAssumption DEF TypeInv, RepositoryTypes
  <1>3. commit \in Commits
    BY <1>2, IngestDocumentType DEF Commits
  <1>4. /\ oid \in DOMAIN objects' /\ objects'[oid] = commit
        /\ refs' = [refs EXCEPT ![Main] = oid]
        /\ \A o \in DOMAIN objects : objects'[o] = objects[o]
    BY <1>1, <1>2, <1>3, StoreCommitType
  <1>5. objects'[oid].parent = refs[Main]
    BY <1>4
  <1>6. UNCHANGED state
    BY DEF Ingest
  <1>7. QED
    BY <1>4, <1>5, <1>6

(* Checkout takes the head of the branch it leads to as its base.          *)
LEMMA CheckoutBase ==
  ASSUME TypeInv, NEW b \in Branches, NEW create \in BOOLEAN, Checkout(b, create)
  PROVE  /\ objects' = objects /\ refs'[b] \in DOMAIN objects
         /\ branch' = b /\ baseOID' = refs'[b]
         /\ committed' = objects[refs'[b]].document
         /\ UNCHANGED materialized
  <1>1. RepositoryTypes' /\ objects' = objects
    BY CreateFromType DEF TypeInv, Checkout, RepositoryTypes
  <1>2. refs'[b] \in DOMAIN objects
    BY <1>1 DEF Checkout, NoOID, RepositoryTypes
  <1>3. QED
    BY <1>1, <1>2 DEF Checkout, ReplaceGeneration

-------------------------------------------------------------------------------
(* The base and its document                                               *)

(* Every workflow step keeps the base and its document together.           *)
LEMMA BaseWorkflow ==
  ASSUME BaseInv, Workflow, TypeInv'
  PROVE  BaseIsCommitted'
  <1>. USE DEF BaseInv, BaseIsCommitted
  <1>1. ASSUME NEW oid, Materialize(oid) PROVE BaseIsCommitted'
    BY <1>1 DEF Materialize
  <1>2. CASE Repair
    <2>1. baseOID' = refs[branch] /\ committed' = objects[refs[branch]].document
      BY <1>2, RepairedStateBase DEF Repair
    <2>2. QED
      BY <1>2, <2>1 DEF Repair
  <1>3. CASE Commit
    <2>1. PICK oid \in 1 .. MaxObjects : CommitRef(oid) /\ baseOID' = oid
      BY <1>3 DEF Commit
    <2>2. objects'[oid].document = CommitDocument
      BY <2>1, CommitRefType
    <2>3. QED
      BY <1>3, <2>1, <2>2 DEF Commit
  <1>4. CASE CommitSplit
    <2>1. PICK oid \in 1 .. MaxObjects : CommitRef(oid)
      BY <1>4 DEF CommitSplit
    <2>2. \A o \in DOMAIN objects : objects'[o] = objects[o]
      BY <2>1, CommitRefType
    <2>3. QED
      BY <1>4, <2>2 DEF CommitSplit, state, TypeInv, BaseExists
  <1>5. ASSUME NEW b \in Branches, Branch(b) PROVE BaseIsCommitted'
    <2>1. baseOID' = refs[branch] /\ committed' = objects[refs[branch]].document
      BY <1>5, RepairedStateBase DEF Branch
    <2>2. QED
      BY <1>5, <2>1 DEF Branch, CreateFrom
  <1>6. ASSUME NEW b \in Branches, BranchSplit(b) PROVE BaseIsCommitted'
    BY <1>6 DEF BranchSplit, CreateFrom, state
  <1>7. ASSUME NEW b \in Branches, NEW create \in BOOLEAN, Checkout(b, create)
        PROVE  BaseIsCommitted'
    BY <1>7, CheckoutBase
  <1>8. CASE ResetHard
    BY <1>8 DEF ResetHard, ReplaceGeneration
  <1>9. ASSUME NEW enabled \in AutoApplySettings, SetAutoApplyDefault(enabled)
        PROVE  BaseIsCommitted'
    BY <1>9 DEF SetAutoApplyDefault
  <1>10. QED
    BY <1>1, <1>2, <1>3, <1>4, <1>5, <1>6, <1>7, <1>8, <1>9 DEF Workflow

(* The inductive step.                                                     *)
LEMMA BaseNext == BaseInv /\ [Next]_vars => BaseInv'
  <1>. SUFFICES ASSUME BaseInv, [Next]_vars PROVE BaseIsCommitted' /\ TypeInv'
    BY DEF BaseInv
  <1>. USE DEF BaseInv
  <1>1. TypeInv'
    BY TypeNext
  <1>2. CASE UNCHANGED vars
    BY <1>1, <1>2 DEF vars, state, BaseIsCommitted
  <1>3. ASSUME NEW s \in Shells, Sync(s) PROVE BaseIsCommitted'
    BY <1>3, SyncKeepsBase DEF BaseIsCommitted
  <1>4. CASE Workflow
    BY <1>1, <1>4, BaseWorkflow
  <1>5. ASSUME NEW profile \in Profiles, Ingest(profile) PROVE BaseIsCommitted'
    BY <1>5, IngestRepository DEF state, TypeInv, BaseExists, BaseIsCommitted
  <1>6. QED
    BY <1>1, <1>2, <1>3, <1>4, <1>5 DEF Next

(* The invariant of the git side.                                          *)
LEMMA BaseInvariant == Spec => []BaseInv
  <1>1. Init => BaseInv
    BY TypeInit DEF Init, BaseInv, BaseIsCommitted
  <1>2. QED
    BY <1>1, BaseNext, PTL DEF Spec

(* State.Committed is the document of BaseOID after every handler, whether *)
(* the base moved by commit, repair, checkout or reset.                    *)
THEOREM BaseCorrect == Spec => []BaseIsCommitted
  <1>1. BaseInv => BaseIsCommitted
    BY DEF BaseInv
  <1>2. QED
    BY <1>1, BaseInvariant, PTL

-------------------------------------------------------------------------------
(* What a step may do to the branch heads                                  *)

(* One ref moves, to a commit whose parent is where it was.                *)
FastForwards ==
  \A b \in Branches : refs'[b] # refs[b] => refs[b] = NoOID \/ objects'[refs'[b]].parent = refs[b]

(* The compare-and-swap of a commit makes its parent the old head.         *)
LEMMA CommitRefForwards ==
  ASSUME TypeInv, NEW oid \in Nat, CommitRef(oid)
  PROVE  FastForwards
  <1>1. /\ objects'[oid].parent = baseOID
        /\ refs' = [refs EXCEPT ![branch] = oid]
    BY CommitRefType
  <1>2. refs[branch] = baseOID
    BY DEF CommitRef
  <1>3. QED
    BY <1>1, <1>2 DEF FastForwards, TypeInv, RepositoryTypes, BaseTypes

(* Every step only adds branches or fast-forwards one.                     *)
LEMMA StepForwards ==
  ASSUME TypeInv, [Next]_vars
  PROVE  FastForwards
  <1>1. CASE refs' = refs
    BY <1>1 DEF FastForwards
  <1>2. ASSUME NEW b \in Branches, CreateFrom(b) PROVE FastForwards
    BY <1>2 DEF CreateFrom, FastForwards, TypeInv, RepositoryTypes
  <1>3. ASSUME NEW profile \in Profiles, Ingest(profile) PROVE FastForwards
    <2>1. PICK oid \in DOMAIN objects' :
            refs' = [refs EXCEPT ![Main] = oid] /\ objects'[oid].parent = refs[Main]
      BY <1>3, IngestRepository
    <2>2. QED
      BY <2>1 DEF FastForwards, TypeInv, RepositoryTypes
  <1>4. CASE Commit \/ CommitSplit
    BY <1>4, CommitRefForwards DEF Commit, CommitSplit
  <1>5. ASSUME NEW b \in Branches, Branch(b) \/ BranchSplit(b) PROVE FastForwards
    BY <1>2, <1>5 DEF Branch, BranchSplit
  <1>6. ASSUME NEW b \in Branches, NEW create \in BOOLEAN, Checkout(b, create) PROVE FastForwards
    BY <1>1, <1>2, <1>6 DEF Checkout
  <1>7. CASE Workflow
    BY <1>1, <1>4, <1>5, <1>6, <1>7
       DEF Workflow, Materialize, Repair, ResetHard, SetAutoApplyDefault
  <1>8. ASSUME NEW s \in Shells, Sync(s) PROVE FastForwards
    BY <1>1, <1>8, SyncKeepsBase
  <1>9. CASE UNCHANGED vars
    BY <1>1, <1>9 DEF vars
  <1>10. QED
    BY <1>3, <1>7, <1>8, <1>9 DEF Next

(* No commit of another process is dropped from its branch, whichever way  *)
(* worktree commits, splits and ingests interleave.                        *)
THEOREM HeadsFastForward == Spec => NoCommitOverwritten
  <1>1. Spec => []TypeInv
    BY TypeInit, TypeNext, PTL DEF Spec
  <1>2. TypeInv /\ [Next]_vars =>
          [\A b \in Branches : refs'[b] # refs[b] =>
             refs[b] = NoOID \/ objects'[refs'[b]].parent = refs[b]]_vars
    BY StepForwards DEF FastForwards
  <1>3. QED
    BY <1>1, <1>2, PTL DEF Spec, NoCommitOverwritten

-------------------------------------------------------------------------------
(* What a step that moves the base records                                 *)

Recorded ==
  materialized /\ baseOID' # baseOID /\ branch' = branch =>
    committed'.projection = shared /\ shared' = shared

(* A repair that moves the base adopts a commit of the shared generation.  *)
LEMMA RepairRecords ==
  ASSUME BaseInv, materialized, RepairPossible, RepairedState, SameRevision
  PROVE  Recorded
  BY RepairedStateBase DEF Recorded, SameRevision

(* A checkout that stays on its branch and moves the base is a repair.     *)
LEMMA CheckoutRecords ==
  ASSUME BaseInv, NEW b \in Branches, NEW create \in BOOLEAN, Checkout(b, create)
  PROVE  Recorded
  <1>. SUFFICES ASSUME materialized, baseOID' # baseOID, branch' = branch
                PROVE  committed'.projection = shared /\ shared' = shared
    BY DEF Recorded
  <1>1. branch = b /\ baseOID' = refs'[b] /\ committed' = objects[refs'[b]].document
    BY CheckoutBase DEF BaseInv
  <1>2. RepairPossible /\ refs[branch] # NoOID
    BY DEF Checkout, CheckoutAllowed, RepairPossible
  <1>3. refs' = refs /\ objects' = objects
    BY <1>1, <1>2 DEF Checkout, CreateFrom
  <1>4. committed'.projection = shared
    BY <1>1, <1>2, <1>3 DEF RepairPossible
  <1>5. ReplaceGeneration(b, refs'[b], objects[refs'[b]].document)
    BY <1>3 DEF Checkout
  <1>6. SameRevision
    BY <1>1, <1>4, <1>5 DEF ReplaceGeneration
  <1>7. QED
    BY <1>4, <1>6 DEF SameRevision

(* Every step that moves the base on its branch records the generation.    *)
LEMMA StepRecords ==
  ASSUME BaseInv, [Next]_vars
  PROVE  Recorded
  <1>1. CASE baseOID' = baseOID
    BY <1>1 DEF Recorded
  <1>2. ASSUME NEW oid, Materialize(oid) PROVE Recorded
    BY <1>2 DEF Materialize, Recorded
  <1>3. CASE Repair
    BY <1>3, RepairRecords DEF Repair
  <1>4. CASE Commit
    <2>1. CommitDocument.projection = shared
      BY <1>4 DEF Commit, CommitRef
    <2>2. QED
      BY <1>4, <2>1 DEF Commit, Recorded, SameRevision
  <1>5. ASSUME NEW b \in Branches, Branch(b) PROVE Recorded
    BY <1>5, RepairRecords DEF Branch
  <1>6. ASSUME NEW b \in Branches, NEW create \in BOOLEAN, Checkout(b, create) PROVE Recorded
    BY <1>6, CheckoutRecords
  <1>7. CASE Workflow
    BY <1>1, <1>2, <1>3, <1>4, <1>5, <1>6, <1>7
       DEF Workflow, CommitSplit, BranchSplit, state, ResetHard, ReplaceGeneration,
           SetAutoApplyDefault
  <1>8. ASSUME NEW s \in Shells, Sync(s) PROVE Recorded
    BY <1>1, <1>8, SyncKeepsBase DEF BaseInv
  <1>9. ASSUME NEW profile \in Profiles, Ingest(profile) PROVE Recorded
    BY <1>1, <1>9 DEF Ingest, state
  <1>10. CASE UNCHANGED vars
    BY <1>1, <1>10 DEF vars, state
  <1>11. QED
    BY <1>7, <1>8, <1>9, <1>10 DEF Next

(* Commit, and the repair of a commit whose state write was lost, record   *)
(* exactly the shared generation, which they leave as it is.               *)
THEOREM CommitsRecord == Spec => CommitRecordsShared
  <1>1. BaseInv /\ [Next]_vars =>
          [materialized /\ baseOID' # baseOID /\ branch' = branch =>
             committed'.projection = shared /\ shared' = shared]_vars
    BY StepRecords DEF Recorded
  <1>2. QED
    BY <1>1, BaseInvariant, PTL DEF Spec, CommitRecordsShared

-------------------------------------------------------------------------------
(* What a checkout leaves behind                                           *)

Kept ==
  branch' # branch =>
    ~materialized \/ \E oid \in DOMAIN objects : objects[oid].document.projection = shared

(* Checkout refuses a dirty worktree: the base is a commit of what it      *)
(* leaves.                                                                 *)
LEMMA StepKeeps ==
  ASSUME BaseInv, [Next]_vars
  PROVE  Kept
  <1>1. CASE branch' = branch
    BY <1>1 DEF Kept
  <1>2. ASSUME NEW oid, Materialize(oid) PROVE Kept
    BY <1>2 DEF Materialize, Kept
  <1>3. ASSUME NEW b \in Branches, NEW create \in BOOLEAN, Checkout(b, create) PROVE Kept
    <2>1. materialized /\ shared = committed.projection
      BY <1>3 DEF Checkout, CheckoutAllowed
    <2>2. baseOID \in DOMAIN objects /\ objects[baseOID].document.projection = shared
      BY <2>1 DEF BaseInv, BaseIsCommitted, TypeInv, BaseExists
    <2>3. QED
      BY <2>2 DEF Kept
  <1>4. CASE Workflow
    BY <1>1, <1>2, <1>3, <1>4
       DEF Workflow, Repair, Commit, CommitSplit, Branch, BranchSplit, state, ResetHard,
           ReplaceGeneration, SetAutoApplyDefault
  <1>5. ASSUME NEW s \in Shells, Sync(s) PROVE Kept
    BY <1>1, <1>5, SyncKeepsBase DEF BaseInv
  <1>6. ASSUME NEW profile \in Profiles, Ingest(profile) PROVE Kept
    BY <1>1, <1>6 DEF Ingest, state
  <1>7. CASE UNCHANGED vars
    BY <1>1, <1>7 DEF vars, state
  <1>8. QED
    BY <1>4, <1>5, <1>6, <1>7 DEF Next

(* What Checkout takes away from the terminals is committed somewhere.     *)
THEOREM CheckoutsKeep == Spec => CheckoutKeepsWork
  <1>1. BaseInv /\ [Next]_vars =>
          [branch' # branch =>
             \/ ~materialized
             \/ \E oid \in DOMAIN objects : objects[oid].document.projection = shared]_vars
    BY StepKeeps DEF Kept
  <1>2. QED
    BY <1>1, BaseInvariant, PTL DEF Spec, CheckoutKeepsWork

-------------------------------------------------------------------------------
(* Names that the registry must keep out                                   *)

SafeInv == TypeInv /\ Seeded

(* What a request admits is not excluded.                                  *)
LEMMA AdmissionsSafe ==
  ASSUME Seeded, NEW s, NEW ids,
         admitted' = admitted \union Admissions(s, ids) \/ admitted' = admitted,
         committed' = committed
  PROVE  Seeded'
  BY DEF Seeded, SeedSafe, Admissions, Admit, Excluded

(* The requests of the terminals admit only what may be admitted.          *)
LEMMA SyncSafe ==
  ASSUME SafeInv, NEW s \in Shells, Sync(s)
  PROVE  Seeded'
  <1>1. committed' = committed
    BY SyncKeepsBase DEF SafeInv
  <1>2. ASSUME NEW op, NEW initial, Attach(s, op, initial) PROVE admitted' = admitted
    BY <1>2 DEF Attach
  <1>3. ASSUME NEW op, NEW delta, NEW ack, Publish(s, op, ack, delta)
        PROVE  admitted' = admitted \union Admissions(s, DOMAIN delta)
    BY <1>3 DEF Publish
  <1>4. ASSUME NEW op, NEW applied, PreparePull(s, op, applied) PROVE admitted' = admitted
    BY <1>4 DEF PreparePull
  <1>5. ASSUME NEW op, NEW identity, NEW token, NEW snap, ResolveShared(s, op, identity, token, snap)
        PROVE  admitted' = admitted \union Admissions(s, Present(snap))
    BY <1>5 DEF ResolveShared
  <1>6. ASSUME NEW op, NEW revision, NEW token, NEW snap, Acknowledge(s, op, revision, token, snap)
        PROVE  admitted' = admitted \union Admissions(s, Present(snap))
    BY <1>6 DEF Acknowledge
  <1>7. admitted' = admitted \/ \E ids : admitted' = admitted \union Admissions(s, ids)
    BY <1>2, <1>3, <1>4, <1>5, <1>6, SyncCases DEF SafeInv
  <1>8. QED
    BY <1>1, <1>7, AdmissionsSafe DEF SafeInv

(* A document that becomes the committed one is checked against what is    *)
(* admitted, or keeps the source it was checked with.                      *)
LEMMA WorkflowSafe ==
  ASSUME SafeInv, Workflow
  PROVE  Seeded'
  <1>. USE DEF SafeInv, Seeded
  <1>1. ASSUME NEW oid, Materialize(oid) PROVE Seeded'
    BY <1>1 DEF Materialize, SeedSafe
  <1>2. ASSUME RepairPossible, RepairedState, admitted' = admitted PROVE Seeded'
    BY <1>2 DEF RepairPossible, RepairedState
  <1>3. CASE Commit
    <2>1. committed'.source = committed.source /\ admitted' = admitted
      BY <1>3 DEF Commit, CommitDocument, BuildEffective
    <2>2. QED
      BY <2>1
  <1>4. ASSUME NEW b, NEW oid, NEW document, ReplaceGeneration(b, oid, document) PROVE Seeded'
    BY <1>4 DEF ReplaceGeneration
  <1>5. QED
    BY <1>1, <1>2, <1>3, <1>4
       DEF Workflow, Repair, CommitSplit, Branch, BranchSplit, state, Checkout, ResetHard,
           SetAutoApplyDefault

(* The inductive step.                                                     *)
LEMMA SafeNext == SafeInv /\ [Next]_vars => SafeInv'
  <1>. SUFFICES ASSUME SafeInv, [Next]_vars PROVE Seeded'
    BY TypeNext DEF SafeInv
  <1>1. CASE UNCHANGED state
    BY <1>1 DEF state, SafeInv, Seeded
  <1>2. ASSUME NEW s \in Shells, Sync(s) PROVE Seeded'
    BY <1>2, SyncSafe
  <1>3. CASE Workflow
    BY <1>3, WorkflowSafe
  <1>4. QED
    BY <1>1, <1>2, <1>3 DEF Next, Ingest, vars

(* The admissions survive every handler, so that seeding the registry with *)
(* them cannot fail: were it to fail once, every later operation would.    *)
THEOREM AdmissionsRestorable == Spec => []AdmittedNeverExcluded
  <1>1. Init => SafeInv
    BY TypeInit DEF Init, SafeInv, Seeded, SeedSafe
  <1>2. Spec => []SafeInv
    BY <1>1, SafeNext, PTL DEF Spec
  <1>3. SafeInv => AdmittedNeverExcluded
    BY DEF SafeInv, AdmittedNeverExcluded
  <1>4. QED
    BY <1>2, <1>3, PTL

-------------------------------------------------------------------------------
(* Secrets stay out of the generations and of the commits                  *)

Clean(document) == Present(document.projection) \intersect document.source.pinned = {}
CommitsClean == \A o \in DOMAIN objects : Clean(objects[o].document)
SecretInv == TypeInv /\ PinnedNeverShared /\ CommitsClean

(* A publication changes live identities only, and a pinned one is not.    *)
LEMMA PublishClean ==
  ASSUME SecretInv, NEW s \in Shells, NEW op, NEW ack, NEW delta, Publish(s, op, ack, delta)
  PROVE  PinnedNeverShared'
  <1>. DEFINE observed == Observed(s, delta)
              accepted == Wanted(s, observed) \ Losing(ack, Wanted(s, observed))
              changes == Only(observed, accepted)
  <1>1. committed' = committed
    BY DEF Publish, syncUnchanged
  <1>2. CASE accepted = {}
    BY <1>1, <1>2 DEF Publish, SameRevision, SecretInv, PinnedNeverShared, Present
  <1>3. CASE accepted # {}
    <2>1. shared' = ApplyChanges(shared, changes)
      BY <1>3 DEF Publish, AppendRevision
    <2>2. ASSUME NEW i \in committed.source.pinned, i \in Identities PROVE shared'[i] = shared[i]
      <3>1. ~Live(s, i)
        BY <2>2 DEF Live, AllowsLiveValue, Admit, Excluded
      <3>2. observed[i] = shells[s].captureBaseline[i]
        BY <2>2, <3>1 DEF Observed, ApplyChanges, Only
      <3>3. i \notin accepted
        BY <3>2 DEF Wanted, DiffSnapshot
      <3>4. i \notin DOMAIN changes
        BY <3>3 DEF Only
      <3>. HIDE DEF changes
      <3>5. QED
        BY <2>1, <2>2, <3>4 DEF ApplyChanges
    <2>3. QED
      BY <1>1, <2>2 DEF SecretInv, PinnedNeverShared, Present
  <1>4. QED
    BY <1>2, <1>3

(* The other requests change no generation.                                *)
LEMMA SyncClean ==
  ASSUME SecretInv, NEW s \in Shells, Sync(s)
  PROVE  PinnedNeverShared' /\ CommitsClean'
  <1>1. committed' = committed /\ objects' = objects
    BY SyncKeepsBase DEF SecretInv
  <1>2. ASSUME NEW op, NEW initial, Attach(s, op, initial) PROVE shared' = shared
    BY <1>2 DEF Attach, SameRevision
  <1>3. ASSUME NEW op, NEW applied, PreparePull(s, op, applied) PROVE shared' = shared
    BY <1>3 DEF PreparePull, SameRevision
  <1>4. ASSUME NEW op, NEW identity, NEW token, NEW snap, ResolveShared(s, op, identity, token, snap)
        PROVE  shared' = shared
    BY <1>4 DEF ResolveShared, SameRevision
  <1>5. ASSUME NEW op, NEW revision, NEW token, NEW snap, Acknowledge(s, op, revision, token, snap)
        PROVE  shared' = shared
    BY <1>5 DEF Acknowledge, SameRevision
  <1>6. shared' = shared \/ \E op, delta, ack : Publish(s, op, ack, delta)
    BY <1>2, <1>3, <1>4, <1>5, SyncCases DEF SecretInv
  <1>7. PinnedNeverShared'
    BY <1>1, <1>6, PublishClean DEF SecretInv, PinnedNeverShared, Present
  <1>8. QED
    BY <1>1, <1>7 DEF SecretInv, CommitsClean

(* A document of a commit is clean: the worktree's has its committed       *)
(* source, ingest's keeps no value of a secret.                            *)
LEMMA DocumentsClean ==
  ASSUME SecretInv
  PROVE  /\ CommitDocument.projection = shared => Clean(CommitDocument)
         /\ \A profile \in Profiles : Clean(IngestDocument(profile))
  <1>1. CommitDocument.source = committed.source
    BY DEF CommitDocument, BuildEffective
  <1>2. ASSUME NEW profile \in Profiles PROVE Clean(IngestDocument(profile))
    BY DEF IngestDocument, BuildEffective, Clean, Present
  <1>3. QED
    BY <1>1, <1>2 DEF Clean, SecretInv, PinnedNeverShared

(* Ingest adds its document to the repository.                             *)
LEMMA IngestClean ==
  ASSUME SecretInv, NEW profile \in Profiles, Ingest(profile)
  PROVE  PinnedNeverShared' /\ CommitsClean'
  <1>. DEFINE commit(p) == [parent |-> refs[Main], document |-> IngestDocument(p)]
  <1>1. PICK oid \in 1 .. MaxObjects : StoreCommit(Main, oid, commit(profile))
    BY DEF Ingest
  <1>2. Clean(commit(profile).document)
    BY DocumentsClean
  <1>. HIDE DEF commit
  <1>3. objects' = objects \/ objects' = Append(objects, commit(profile))
    BY <1>1 DEF StoreCommit
  <1>4. CommitsClean'
    BY <1>2, <1>3 DEF CommitsClean, Clean, Present, SecretInv, TypeInv, RepositoryTypes
  <1>5. PinnedNeverShared'
    BY DEF Ingest, state, SecretInv, PinnedNeverShared, Present
  <1>6. QED
    BY <1>4, <1>5

(* So does a commit of the worktree, whose state may not follow.           *)
LEMMA CommitRefClean ==
  ASSUME SecretInv, NEW oid, CommitRef(oid)
  PROVE  CommitsClean'
  <1>. DEFINE commit == [parent |-> baseOID, document |-> CommitDocument]
  <1>1. StoreCommit(branch, oid, commit) /\ CommitDocument.projection = shared
    BY DEF CommitRef
  <1>2. Clean(commit.document)
    BY <1>1, DocumentsClean
  <1>. HIDE DEF commit
  <1>3. objects' = objects \/ objects' = Append(objects, commit)
    BY <1>1 DEF StoreCommit
  <1>4. QED
    BY <1>2, <1>3 DEF CommitsClean, Clean, Present, SecretInv, TypeInv, RepositoryTypes

(* Every generation a workflow step installs is that of a clean commit.    *)
LEMMA WorkflowClean ==
  ASSUME SecretInv, Workflow
  PROVE  PinnedNeverShared' /\ CommitsClean'
  <1>. USE DEF SecretInv
  <1>1. ASSUME NEW oid, Materialize(oid) PROVE PinnedNeverShared' /\ CommitsClean'
    BY <1>1 DEF Materialize, PinnedNeverShared, CommitsClean, Clean, Present
  <1>2. ASSUME materialized, RepairPossible, RepairedState, shared' = shared
        PROVE  PinnedNeverShared'
    <2>1. CASE refs[branch] = baseOID
      BY <1>2, <2>1 DEF RepairedState, PinnedNeverShared, Present
    <2>2. CASE refs[branch] # baseOID
      <3>1. refs[branch] \in DOMAIN objects
        BY <1>2, RepairedStateType
      <3>2. committed' = objects[refs[branch]].document /\ committed'.projection = shared
        BY <1>2, <2>2 DEF RepairedState, RepairPossible
      <3>3. Clean(objects[refs[branch]].document)
        BY <3>1 DEF CommitsClean
      <3>4. QED
        BY <1>2, <3>2, <3>3 DEF PinnedNeverShared, Clean, Present
    <2>3. QED
      BY <2>1, <2>2
  <1>3. CASE Commit
    <2>1. CommitsClean'
      BY <1>3, CommitRefClean DEF Commit
    <2>2. committed'.source = committed.source /\ shared' = shared
      BY <1>3 DEF Commit, SameRevision, CommitDocument, BuildEffective
    <2>3. QED
      BY <2>1, <2>2 DEF PinnedNeverShared, Present
  <1>4. CASE CommitSplit
    BY <1>4, CommitRefClean DEF CommitSplit, state, PinnedNeverShared, Present
  <1>5. ASSUME NEW b, NEW oid \in DOMAIN objects, objects' = objects,
               ReplaceGeneration(b, oid, objects[oid].document)
        PROVE  PinnedNeverShared' /\ CommitsClean'
    <2>1. committed' = objects[oid].document
      BY <1>5 DEF ReplaceGeneration
    <2>2. shared' = objects[oid].document.projection
      BY <1>5 DEF ReplaceGeneration, SameRevision, AppendRevision
    <2>3. Clean(objects[oid].document)
      BY <1>5 DEF CommitsClean
    <2>4. PinnedNeverShared'
      BY <2>1, <2>2, <2>3 DEF PinnedNeverShared, Clean, Present
    <2>5. QED
      BY <1>5, <2>4 DEF CommitsClean, Clean, Present
  <1>6. ASSUME NEW b \in Branches, NEW create \in BOOLEAN, Checkout(b, create)
        PROVE  PinnedNeverShared' /\ CommitsClean'
    <2>1. objects' = objects /\ refs'[b] \in DOMAIN objects
      BY <1>6, CheckoutBase
    <2>2. QED
      BY <1>5, <1>6, <2>1 DEF Checkout
  <1>7. CASE ResetHard
    BY <1>5, <1>7 DEF ResetHard, TypeInv, BaseExists
  <1>8. CASE Repair
    BY <1>2, <1>8 DEF Repair, SameRevision, CommitsClean, Clean, Present
  <1>9. ASSUME NEW b \in Branches, Branch(b) PROVE PinnedNeverShared' /\ CommitsClean'
    BY <1>2, <1>9 DEF Branch, CreateFrom, SameRevision, CommitsClean, Clean, Present
  <1>10. ASSUME NEW b \in Branches, BranchSplit(b) PROVE PinnedNeverShared' /\ CommitsClean'
    BY <1>10 DEF BranchSplit, CreateFrom, state, PinnedNeverShared, CommitsClean, Clean, Present
  <1>11. ASSUME NEW enabled, SetAutoApplyDefault(enabled) PROVE PinnedNeverShared' /\ CommitsClean'
    BY <1>11 DEF SetAutoApplyDefault, SameRevision, PinnedNeverShared, CommitsClean, Clean, Present
  <1>12. QED
    BY <1>1, <1>3, <1>4, <1>6, <1>7, <1>8, <1>9, <1>10, <1>11 DEF Workflow

(* The inductive step.                                                     *)
LEMMA SecretNext == SecretInv /\ [Next]_vars => SecretInv'
  <1>. SUFFICES ASSUME SecretInv, [Next]_vars PROVE PinnedNeverShared' /\ CommitsClean'
    BY TypeNext DEF SecretInv
  <1>1. CASE UNCHANGED vars
    BY <1>1 DEF vars, state, SecretInv, PinnedNeverShared, CommitsClean, Clean, Present
  <1>2. ASSUME NEW s \in Shells, Sync(s) PROVE PinnedNeverShared' /\ CommitsClean'
    BY <1>2, SyncClean
  <1>3. CASE Workflow
    BY <1>3, WorkflowClean
  <1>4. ASSUME NEW profile \in Profiles, Ingest(profile) PROVE PinnedNeverShared' /\ CommitsClean'
    BY <1>4, IngestClean
  <1>5. QED
    BY <1>1, <1>2, <1>3, <1>4 DEF Next

(* No generation carries a value of a name that its committed source pins  *)
(* as a secret, and neither does any commit, whatever a terminal publishes.*)
THEOREM SecretsStayOut == Spec => []PinnedNeverShared
  <1>1. Init => SecretInv
    BY TypeInit DEF Init, SecretInv, PinnedNeverShared, CommitsClean
  <1>2. Spec => []SecretInv
    BY <1>1, SecretNext, PTL DEF Spec
  <1>3. SecretInv => PinnedNeverShared
    BY DEF SecretInv
  <1>4. QED
    BY <1>2, <1>3, PTL

===============================================================================
