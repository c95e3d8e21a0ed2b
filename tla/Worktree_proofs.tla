--------------------------- MODULE Worktree_proofs ---------------------------
(***************************************************************************)
(* What holds of the shared worktree for every number of terminals,        *)
(* identities, values, branches and profiles and every bound: the types,   *)
(* what a terminal is said to have applied, that no publication overwrites *)
(* what its author did not know of, and the refinement of SharedLog.       *)
(***************************************************************************)
EXTENDS Worktree, TLAPS

-------------------------------------------------------------------------------
(* Snapshots and changes                                                   *)

(* The empty snapshot, and the empty list of changes, are ones.            *)
LEMMA EmptyType == EmptySnapshot \in Snapshot /\ NoChanges \in Changes
  <1>1. EmptySnapshot \in Snapshot
    BY DEF EmptySnapshot, Snapshot
  <1>2. NoChanges \in [{} -> Values \union {Absent}]
    BY DEF NoChanges
  <1>3. QED
    BY <1>1, <1>2 DEF Changes

(* Laying changes over a snapshot (applyStateChanges) makes a snapshot.    *)
LEMMA ApplyChangesType ==
  ASSUME NEW snap \in Snapshot, NEW changes \in Changes
  PROVE  ApplyChanges(snap, changes) \in Snapshot
  <1>1. PICK ids \in SUBSET Identities : changes \in [ids -> Values \union {Absent}]
    BY DEF Changes
  <1>2. QED
    BY <1>1 DEF ApplyChanges, Snapshot

(* A restriction of a snapshot or of changes is a list of changes.         *)
LEMMA OnlyType ==
  ASSUME NEW ids, NEW f \in Snapshot \union Changes
  PROVE  Only(f, ids) \in Changes
  <1>1. PICK dom \in SUBSET Identities : f \in [dom -> Values \union {Absent}]
    BY DEF Changes, Snapshot
  <1>2. Only(f, ids) \in [dom \intersect ids -> Values \union {Absent}]
    BY <1>1 DEF Only
  <1>3. dom \intersect ids \in SUBSET Identities
    OBVIOUS
  <1>4. QED
    BY <1>2, <1>3 DEF Changes

(* The difference of two snapshots (DiffSnapshot) is a list of changes.    *)
LEMMA DiffSnapshotType ==
  ASSUME NEW before \in Snapshot, NEW after \in Snapshot
  PROVE  /\ DiffSnapshot(before, after) \in Changes
         /\ DOMAIN DiffSnapshot(before, after) = {j \in Identities : before[j] # after[j]}
  <1>. DEFINE dom == {j \in Identities : before[j] # after[j]}
  <1>1. DiffSnapshot(before, after) \in [dom -> Values \union {Absent}]
    BY DEF DiffSnapshot, Snapshot
  <1>2. dom \in SUBSET Identities
    OBVIOUS
  <1>3. QED
    BY <1>1, <1>2 DEF Changes

(* Changes between two generations lead from the one to the other.         *)
LEMMA ApplyDiff ==
  ASSUME NEW before \in Snapshot, NEW after \in Snapshot
  PROVE  ApplyChanges(before, DiffSnapshot(before, after)) = after
  BY DEF ApplyChanges, DiffSnapshot, Snapshot

(* BuildEffective over a profile with any changes is a document.           *)
LEMMA BuildEffectiveType ==
  ASSUME NEW source \in Profile, NEW overlay \in Changes
  PROVE  BuildEffective(source, overlay) \in Document
  <1>1. source.base \in Snapshot
    BY DEF Profile
  <1>2. QED
    BY <1>1, ApplyChangesType DEF BuildEffective, Document

(* The document that ingest commits is one.                                *)
LEMMA IngestDocumentType ==
  ASSUME NEW profile \in Profiles
  PROVE  IngestDocument(profile) \in Document
  <1>1. profile \in Profile
    BY ConstantsAssumption
  <1>. DEFINE document == BuildEffective(profile, NoChanges)
  <1>2. document \in Document
    BY <1>1, EmptyType, BuildEffectiveType
  <1>3. document.projection \in Snapshot
    BY <1>2 DEF Document
  <1>. DEFINE projection == [i \in Identities |-> IF i \in profile.pinned THEN Absent ELSE document.projection[i]]
  <1>4. projection \in Snapshot
    BY <1>3 DEF Snapshot
  <1>5. IngestDocument(profile) = [document EXCEPT !.projection = projection]
    BY DEF IngestDocument
  <1>6. QED
    BY <1>2, <1>4, <1>5 DEF Document

-------------------------------------------------------------------------------
(* Types.  The type invariant in four parts, and with them that the base a *)
(* materialized state names is a commit of the repository.                 *)

HistoryTypes ==
  /\ head \in Nat
  /\ shared \in Snapshot
  /\ floor \in Nat
  /\ baseline \in Snapshot
  /\ events \in Seq(Event)
  /\ generations \in Seq(Snapshot)

ShellTypes ==
  /\ admitted \in SUBSET Identities
  /\ shells \in [Shells -> {NotAttached} \union ShellState]
  /\ receipts \in [Shells -> Seq(Receipt)]

BaseTypes ==
  /\ materialized \in BOOLEAN
  /\ branch \in Branches
  /\ baseOID \in Nat
  /\ committed \in Document
  /\ autoApply \in BOOLEAN

RepositoryTypes ==
  /\ refs \in [Branches -> 0 .. Len(objects)]
  /\ objects \in Seq(Commits)

BaseExists == materialized => baseOID \in DOMAIN objects

TypeInv == HistoryTypes /\ ShellTypes /\ BaseTypes /\ RepositoryTypes /\ BaseExists

(* The parts make up the type invariant.                                   *)
LEMMA TypeInvImpliesTypeOK == TypeInv => TypeOK
  BY DEF TypeInv, HistoryTypes, ShellTypes, BaseTypes, RepositoryTypes, TypeOK

(* AppendRevision, with CompactStateHistory, keeps a well-typed history.   *)
LEMMA AppendRevisionType ==
  ASSUME HistoryTypes,
         NEW by \in SUBSET (Shells \X Operations), NEW changes \in Changes,
         NEW next \in Snapshot,
         AppendRevision(by, changes, next)
  PROVE  HistoryTypes'
  <1>. DEFINE event == [revision |-> head + 1, by |-> by, changes |-> changes]
              log == Append(events, event)
  <1>1. event \in Event
    BY DEF HistoryTypes, Event
  <1>2. log \in Seq(Event) /\ log # <<>>
    BY <1>1 DEF HistoryTypes
  <1>3. Tail(log) \in Seq(Event) /\ Head(log) \in Event
    BY <1>2
  <1>4. ApplyChanges(baseline, Head(log).changes) \in Snapshot /\ Head(log).revision \in Nat
    BY <1>3, ApplyChangesType DEF HistoryTypes, Event
  <1>5. events' \in Seq(Event) /\ baseline' \in Snapshot /\ floor' \in Nat
    BY <1>2, <1>3, <1>4 DEF AppendRevision, HistoryTypes
  <1>6. head' \in Nat /\ shared' \in Snapshot /\ generations' \in Seq(Snapshot)
    BY DEF AppendRevision, HistoryTypes
  <1>7. QED
    BY <1>5, <1>6 DEF HistoryTypes

(* A handler that makes no revision keeps the history as it is.            *)
LEMMA SameRevisionType ==
  ASSUME HistoryTypes, SameRevision
  PROVE  HistoryTypes' /\ head' = head
  BY DEF HistoryTypes, SameRevision

(* Receipts of the kinds the service writes keep the receipt types.        *)
LEMMA AppendReceiptType ==
  ASSUME NEW s \in Shells, NEW op \in Operations,
         receipts \in [Shells -> Seq(Receipt)],
         NEW kind \in {"attach", "publish", "prepare", "resolve", "acknowledge"},
         NEW request \in Request, NEW result \in Result,
         AppendReceipt(s, op, kind, request, result)
  PROVE  receipts' \in [Shells -> Seq(Receipt)]
  <1>. DEFINE receipt == [op |-> op, kind |-> kind, request |-> request, result |-> result]
              log == Append(receipts[s], receipt)
  <1>1. receipt \in Receipt
    BY DEF Receipt
  <1>2. log \in Seq(Receipt) /\ log # <<>>
    BY <1>1
  <1>3. Tail(log) \in Seq(Receipt)
    BY <1>2
  <1>4. QED
    BY <1>2, <1>3 DEF AppendReceipt

(* A store commit adds at most the named commit, and changes no other.     *)
LEMMA StoreCommitType ==
  ASSUME RepositoryTypes, NEW b \in Branches, NEW oid \in Nat, NEW commit \in Commits,
         StoreCommit(b, oid, commit)
  PROVE  /\ RepositoryTypes'
         /\ oid \in DOMAIN objects' /\ objects'[oid] = commit
         /\ refs' = [refs EXCEPT ![b] = oid]
         /\ \A o \in DOMAIN objects : o \in DOMAIN objects' /\ objects'[o] = objects[o]
  <1>1. CASE oid \in DOMAIN objects /\ objects[oid] = commit /\ UNCHANGED objects
    BY <1>1 DEF StoreCommit, RepositoryTypes
  <1>2. CASE oid = Len(objects) + 1 /\ oid <= MaxObjects /\ objects' = Append(objects, commit)
    <2>1. objects' \in Seq(Commits) /\ Len(objects') = Len(objects) + 1 /\ objects'[oid] = commit
      BY <1>2 DEF RepositoryTypes
    <2>2. \A o \in DOMAIN objects : o \in DOMAIN objects' /\ objects'[o] = objects[o]
      BY <1>2 DEF RepositoryTypes
    <2>3. oid \in DOMAIN objects'
      BY <1>2, <2>1
    <2>4. refs' = [refs EXCEPT ![b] = oid]
      BY DEF StoreCommit
    <2>5. refs' \in [Branches -> 0 .. Len(objects')]
      BY <1>2, <2>1, <2>4 DEF RepositoryTypes
    <2>6. QED
      BY <2>1, <2>2, <2>3, <2>4, <2>5 DEF RepositoryTypes
  <1>3. QED
    BY <1>1, <1>2 DEF StoreCommit

-------------------------------------------------------------------------------
(* The requests of the terminals preserve the types                        *)

(* They leave the workflow's state and the repository alone.               *)
LEMMA SyncType ==
  ASSUME TypeInv, syncUnchanged, HistoryTypes', ShellTypes'
  PROVE  TypeInv'
  BY DEF TypeInv, syncUnchanged, BaseTypes, RepositoryTypes, BaseExists

(* What the service may see of a snapshot is a snapshot.                   *)
LEMMA AdmittedSnapshotType ==
  ASSUME NEW s, NEW snap \in Snapshot
  PROVE  AdmittedSnapshot(s, snap) \in Snapshot
  BY DEF AdmittedSnapshot, Snapshot

(* A token of this service has the type of one.                            *)
LEMMA NewTokenType ==
  ASSUME NEW op \in Operations, NEW revision \in Nat,
         NEW prefix \in {"pull", "conflict"}
  PROVE  NewToken(prefix, op, revision) \in Token
  BY DEF NewToken, Token

(* An attaching terminal gets a record of the right type.                  *)
LEMMA AttachType ==
  ASSUME TypeInv, NEW s \in Shells, NEW op \in Operations, NEW initial \in Snapshot,
         Attach(s, op, initial)
  PROVE  TypeInv'
  <1>. USE DEF TypeInv
  <1>. DEFINE capture == [i \in Identities |-> IF AllowsLiveValue(i) THEN initial[i] ELSE Absent]
              record == [attachState |-> IF capture = shared THEN "at-head" ELSE "clean-reconcile",
                         appliedRevision |-> IF capture = shared THEN head ELSE 0,
                         appliedBaseline |-> IF capture = shared THEN shared ELSE EmptySnapshot,
                         captureBaseline |-> capture,
                         presentAtAttach |-> Present(initial),
                         transition |-> "attach",
                         pending |-> NoPending,
                         conflict |-> NoConflict,
                         unpublished |-> NoChanges,
                         behind |-> ~(capture = shared)]
  <1>1. capture \in Snapshot
    BY DEF Snapshot
  <1>2. NoPending \in Pending /\ NoConflict \in Conflict /\ Present(initial) \in SUBSET Identities
    BY DEF Pending, Conflict, Present
  <1>3. record \in ShellState
    BY <1>1, <1>2, EmptyType DEF ShellState, HistoryTypes
  <1>4. shells' = [shells EXCEPT ![s] = record]
    BY DEF Attach
  <1>5. shells' \in [Shells -> {NotAttached} \union ShellState]
    BY <1>3, <1>4 DEF ShellTypes
  <1>6. initial \in Request /\ head \in Result
    BY DEF Request, Result, HistoryTypes
  <1>7. receipts' \in [Shells -> Seq(Receipt)]
    BY <1>6, AppendReceiptType DEF Attach, ShellTypes
  <1>8. HistoryTypes' /\ ShellTypes'
    BY <1>5, <1>7, SameRevisionType DEF Attach, ShellTypes
  <1>9. QED
    BY <1>8, SyncType DEF Attach

(* A publication leaves a losing delta and a conflict of the right types.  *)
LEMMA PublishType ==
  ASSUME TypeInv, NEW s \in Shells, NEW op \in Operations, NEW ack \in Nat, NEW delta \in Changes,
         Publish(s, op, ack, delta)
  PROVE  TypeInv'
  <1>. USE DEF TypeInv
  <1>. DEFINE shell == shells[s]
              observed == Observed(s, delta)
              wanted == Wanted(s, observed)
              losing == Losing(ack, wanted)
              accepted == wanted \ losing
              conflict == IF losing = {} THEN NoConflict
                          ELSE [kind |-> IF ack < floor THEN "history-gap" ELSE "overlap",
                                identity |-> CHOOSE i \in losing : TRUE,
                                baseRevision |-> ack,
                                sharedRevision |-> head',
                                token |-> NewToken("conflict", op, head')]
              record == [shell EXCEPT !.conflict = conflict,
                           !.unpublished = Only(observed, losing),
                           !.transition = IF losing = {} THEN "publish" ELSE "unpublished",
                           !.captureBaseline = observed,
                           !.behind = ack < head' \/ losing # {}]
              result == [revision |-> head', accepted |-> accepted, conflict |-> conflict]
  <1>1. shell \in ShellState
    BY DEF ShellTypes, Publish, Attached
  <1>2. observed \in Snapshot
    BY <1>1, OnlyType, ApplyChangesType DEF Observed, ShellState
  <1>3. wanted \in SUBSET Identities /\ losing \in SUBSET wanted
    BY <1>1, <1>2, DiffSnapshotType DEF Wanted, Losing, ShellState
  <1>4. Only(observed, accepted) \in Changes /\ Only(observed, losing) \in Changes
    BY <1>2, OnlyType
  <1>5. HistoryTypes'
    <2>1. CASE accepted = {}
      BY <2>1, SameRevisionType DEF Publish
    <2>2. CASE accepted # {}
      <3>1. AppendRevision({<<s, op>>}, Only(observed, accepted),
                           ApplyChanges(shared, Only(observed, accepted)))
        BY <2>2 DEF Publish
      <3>2. ApplyChanges(shared, Only(observed, accepted)) \in Snapshot
        BY <1>4, ApplyChangesType DEF HistoryTypes
      <3>3. QED
        BY <1>4, <3>1, <3>2, AppendRevisionType
    <2>3. QED
      BY <2>1, <2>2
  <1>6. head' \in Nat
    BY <1>5 DEF HistoryTypes
  <1>7. conflict \in Conflict
    BY <1>3, <1>6, NewTokenType DEF Conflict
  <1>8. record \in ShellState
    BY <1>1, <1>2, <1>4, <1>6, <1>7 DEF ShellState
  <1>9. shells' = [shells EXCEPT ![s] = record]
    BY DEF Publish
  <1>10. shells' \in [Shells -> {NotAttached} \union ShellState]
    BY <1>8, <1>9 DEF ShellTypes
  <1>11. [ack |-> ack, delta |-> delta] \in Request /\ result \in Result
    BY <1>3, <1>6, <1>7 DEF Request, Result
  <1>12. receipts' \in [Shells -> Seq(Receipt)]
    BY <1>11, AppendReceiptType DEF Publish, ShellTypes
  <1>13. admitted' \in SUBSET Identities
    <2>1. DOMAIN delta \in SUBSET Identities
      BY DEF Changes
    <2>2. QED
      BY <2>1 DEF Publish, Admissions, ShellTypes
  <1>14. QED
    BY <1>5, <1>10, <1>12, <1>13, SyncType DEF Publish, ShellTypes

(* A prepared pull is a pending transition to the head.                    *)
LEMMA PreparePullType ==
  ASSUME TypeInv, NEW s \in Shells, NEW op \in Operations, NEW applied \in Nat,
         PreparePull(s, op, applied)
  PROVE  TypeInv'
  <1>. USE DEF TypeInv
  <1>. DEFINE lost == applied # shells[s].appliedRevision
              shell == IF lost
                       THEN [shells[s] EXCEPT !.attachState = "clean-reconcile",
                                              !.appliedRevision = 0,
                                              !.appliedBaseline = EmptySnapshot]
                       ELSE shells[s]
              changes == DiffSnapshot(shell.captureBaseline, shared)
              atHead == changes = NoChanges /\ applied = head /\ shell.appliedRevision = head
              pending == [kind |-> "pull", revision |-> head, fingerprint |-> shared,
                          token |-> NewToken("pull", op, head)]
              record == IF atHead THEN shell
                        ELSE [shell EXCEPT !.pending = pending, !.transition = "prepare", !.behind = TRUE]
              result == IF atHead THEN NoPending ELSE [pending |-> pending, changes |-> changes]
  <1>1. shells[s] \in ShellState
    BY DEF ShellTypes, PreparePull, Attached
  <1>2. shell \in ShellState
    BY <1>1, EmptyType DEF ShellState
  <1>3. pending \in Pending /\ changes \in Changes
    BY <1>2, NewTokenType, DiffSnapshotType DEF Pending, HistoryTypes, ShellState
  <1>4. record \in ShellState
    BY <1>2, <1>3 DEF ShellState
  <1>5. shells' = [shells EXCEPT ![s] = record]
    BY DEF PreparePull
  <1>6. shells' \in [Shells -> {NotAttached} \union ShellState]
    BY <1>4, <1>5 DEF ShellTypes
  <1>7. applied \in Request /\ result \in Result
    BY <1>3 DEF Request, Result
  <1>8. AppendReceipt(s, op, "prepare", applied, result)
    BY DEF PreparePull
  <1>9. receipts' \in [Shells -> Seq(Receipt)]
    BY <1>7, <1>8, AppendReceiptType DEF ShellTypes
  <1>10. QED
    BY <1>6, <1>9, SameRevisionType, SyncType DEF PreparePull, ShellTypes

(* A resolution is a pending transition to the head; a repeated request    *)
(* finds its receipt and at most admits identities.                        *)
LEMMA ResolveSharedType ==
  ASSUME TypeInv, NEW s \in Shells, NEW op \in Operations, NEW identity, NEW token,
         NEW snap \in Snapshot,
         ResolveShared(s, op, identity, token, snap)
  PROVE  TypeInv'
  <1>. USE DEF TypeInv
  <1>. DEFINE shell == shells[s]
              observed == AdmittedSnapshot(s, snap)
              request == [identity |-> identity, token |-> token, observed |-> observed]
              pending == [kind |-> "resolution", revision |-> head, fingerprint |-> shared, token |-> token]
              record == [shell EXCEPT !.pending = pending, !.transition = "resolve", !.behind = TRUE]
              result == [pending |-> pending, changes |-> DiffSnapshot(observed, shared)]
  <1>1. shell \in ShellState
    BY DEF ShellTypes, ResolveShared, Attached
  <1>2. observed \in Snapshot
    BY AdmittedSnapshotType
  <1>3. admitted' \in SUBSET Identities
    BY DEF ResolveShared, Admissions, Present, ShellTypes
  <1>4. shells' \in [Shells -> {NotAttached} \union ShellState] /\ receipts' \in [Shells -> Seq(Receipt)]
    <2>1. CASE UNCHANGED <<shells, receipts>>
      BY <2>1 DEF ShellTypes
    <2>2. CASE /\ shell.conflict # NoConflict
               /\ shell.conflict.identity = identity /\ shell.conflict.token = token
               /\ shells' = [shells EXCEPT ![s] = record]
               /\ AppendReceipt(s, op, "resolve", request, result)
      <3>1. identity \in Identities /\ token \in Token
        BY <1>1, <2>2 DEF ShellState, Conflict
      <3>2. pending \in Pending
        BY <3>1 DEF Pending, HistoryTypes
      <3>3. record \in ShellState
        BY <1>1, <3>2 DEF ShellState
      <3>4. shells' \in [Shells -> {NotAttached} \union ShellState]
        BY <2>2, <3>3 DEF ShellTypes
      <3>5. request \in Request
        BY <1>2, <3>1 DEF Request
      <3>6. DiffSnapshot(observed, shared) \in Changes
        BY <1>2, DiffSnapshotType DEF HistoryTypes
      <3>7. result \in Result
        BY <3>2, <3>6 DEF Result
      <3>8. receipts' \in [Shells -> Seq(Receipt)]
        BY <2>2, <3>5, <3>7, AppendReceiptType DEF ShellTypes
      <3>9. QED
        BY <3>4, <3>8
    <2>3. QED
      BY <2>1, <2>2 DEF ResolveShared
  <1>5. QED
    BY <1>3, <1>4, SameRevisionType, SyncType DEF ResolveShared, ShellTypes

(* The record of a shell whose target is confirmed.                        *)
LEMMA AcknowledgedType ==
  ASSUME NEW shell \in ShellState, shell.pending # NoPending, NEW observed \in Snapshot, head \in Nat
  PROVE  Acknowledged(shell, observed) \in ShellState
  <1>1. shell.pending.revision \in Nat
    BY DEF ShellState, Pending
  <1>2. NoPending \in Pending /\ NoConflict \in Conflict
    BY DEF Pending, Conflict
  <1>3. QED
    BY <1>1, <1>2, EmptyType DEF Acknowledged, ShellState

(* An acknowledgement, first or repeated, preserves the types.             *)
LEMMA AcknowledgeType ==
  ASSUME TypeInv, NEW s \in Shells, NEW op \in Operations, NEW revision, NEW token,
         NEW snap \in Snapshot,
         Acknowledge(s, op, revision, token, snap)
  PROVE  TypeInv'
  <1>. USE DEF TypeInv
  <1>. DEFINE shell == shells[s]
              observed == AdmittedSnapshot(s, snap)
              request == [revision |-> revision, token |-> token, observed |-> observed]
  <1>1. shell \in ShellState
    BY DEF ShellTypes, Acknowledge, Attached
  <1>2. observed \in Snapshot
    BY AdmittedSnapshotType
  <1>3. admitted' \in SUBSET Identities
    BY DEF Acknowledge, Admissions, Present, ShellTypes
  <1>4. shells' \in [Shells -> {NotAttached} \union ShellState] /\ receipts' \in [Shells -> Seq(Receipt)]
    <2>1. CASE UNCHANGED <<shells, receipts>>
      BY <2>1 DEF ShellTypes
    <2>2. CASE /\ shell.pending # NoPending
               /\ shell.pending.revision = revision /\ shell.pending.token = token
               /\ shells' = [shells EXCEPT ![s] = Acknowledged(shell, observed)]
               /\ AppendReceipt(s, op, "acknowledge", request, revision)
      <3>1. revision \in Nat /\ token \in Token
        BY <1>1, <2>2 DEF ShellState, Pending
      <3>2. Acknowledged(shell, observed) \in ShellState
        BY <1>1, <1>2, <2>2, AcknowledgedType DEF HistoryTypes
      <3>3. shells' \in [Shells -> {NotAttached} \union ShellState]
        BY <2>2, <3>2 DEF ShellTypes
      <3>4. request \in Request /\ revision \in Result
        BY <1>2, <3>1 DEF Request, Result
      <3>5. receipts' \in [Shells -> Seq(Receipt)]
        BY <2>2, <3>4, AppendReceiptType DEF ShellTypes
      <3>6. QED
        BY <3>3, <3>5
    <2>3. QED
      BY <2>1, <2>2 DEF Acknowledge
  <1>5. QED
    BY <1>3, <1>4, SameRevisionType, SyncType DEF Acknowledge, ShellTypes

-------------------------------------------------------------------------------
(* The workflow and ingest preserve the types                              *)

(* The head of a branch is a commit, with a parent and a document.         *)
LEMMA ObjectType ==
  ASSUME RepositoryTypes, NEW oid \in DOMAIN objects
  PROVE  /\ oid \in Nat
         /\ objects[oid] \in Commits
         /\ objects[oid].document \in Document
         /\ objects[oid].document.projection \in Snapshot
  <1>1. oid \in Nat /\ objects[oid] \in Commits
    BY DEF RepositoryTypes
  <1>2. objects[oid].document \in Document
    BY <1>1 DEF Commits
  <1>3. QED
    BY <1>1, <1>2 DEF Document

(* Ingest publishes a well-typed commit and touches no worktree state.     *)
LEMMA IngestType ==
  ASSUME TypeInv, NEW profile \in Profiles, Ingest(profile)
  PROVE  TypeInv'
  <1>. USE DEF TypeInv
  <1>. DEFINE commit == [parent |-> refs[Main], document |-> IngestDocument(profile)]
  <1>1. PICK oid \in 1 .. MaxObjects : StoreCommit(Main, oid, commit)
    BY DEF Ingest
  <1>2. refs[Main] \in Nat /\ Main \in Branches
    BY ConstantsAssumption DEF RepositoryTypes
  <1>3. commit \in Commits
    BY <1>2, IngestDocumentType DEF Commits
  <1>4. RepositoryTypes' /\ (\A o \in DOMAIN objects : o \in DOMAIN objects')
    BY <1>1, <1>2, <1>3, StoreCommitType
  <1>5. UNCHANGED state
    BY DEF Ingest
  <1>6. HistoryTypes' /\ ShellTypes' /\ BaseTypes'
    BY <1>5 DEF state, HistoryTypes, ShellTypes, BaseTypes
  <1>7. BaseExists'
    BY <1>4, <1>5 DEF state, BaseExists
  <1>8. QED
    BY <1>4, <1>6, <1>7

(* The first generation is the projection of an existing commit.           *)
LEMMA MaterializeType ==
  ASSUME TypeInv, NEW oid, Materialize(oid)
  PROVE  TypeInv'
  <1>. USE DEF TypeInv
  <1>. DEFINE document == objects[oid].document
              event == [revision |-> 1, by |-> {},
                        changes |-> DiffSnapshot(EmptySnapshot, document.projection)]
  <1>1. oid \in DOMAIN objects
    BY DEF Materialize
  <1>2. document \in Document /\ document.projection \in Snapshot /\ oid \in Nat
    BY <1>1, ObjectType
  <1>3. event \in Event
    BY <1>2, EmptyType, DiffSnapshotType DEF Event
  <1>4. events' = <<event>> /\ generations' = <<document.projection>>
    BY DEF Materialize
  <1>5. HistoryTypes'
    BY <1>2, <1>3, <1>4, EmptyType DEF Materialize, HistoryTypes
  <1>6. ShellTypes'
    BY DEF Materialize, ShellTypes
  <1>7. BaseTypes'
    BY <1>2, ConstantsAssumption DEF Materialize, BaseTypes
  <1>8. RepositoryTypes' /\ BaseExists'
    BY <1>1 DEF Materialize, RepositoryTypes, BaseExists
  <1>9. QED
    BY <1>5, <1>6, <1>7, <1>8

(* A repaired base is the head of the branch: an existing commit.          *)
LEMMA RepairedStateType ==
  ASSUME TypeInv, RepairPossible, RepairedState
  PROVE  /\ refs[branch] \in DOMAIN objects
         /\ baseOID' = refs[branch]
         /\ committed' \in Document
  <1>. USE DEF TypeInv
  <1>1. refs[branch] \in DOMAIN objects
    BY DEF RepairPossible, NoOID, RepositoryTypes, BaseTypes
  <1>2. QED
    BY <1>1, ObjectType DEF RepairedState, BaseTypes

(* Repair changes the base and its document only.                          *)
LEMMA RepairType ==
  ASSUME TypeInv, Repair
  PROVE  TypeInv'
  <1>. USE DEF TypeInv
  <1>1. refs[branch] \in DOMAIN objects /\ baseOID' = refs[branch] /\ committed' \in Document
    BY RepairedStateType DEF Repair
  <1>2. HistoryTypes' /\ ShellTypes'
    BY SameRevisionType DEF Repair, ShellTypes
  <1>3. BaseTypes' /\ RepositoryTypes' /\ BaseExists'
    BY <1>1, ObjectType DEF Repair, BaseTypes, RepositoryTypes, BaseExists
  <1>4. QED
    BY <1>2, <1>3

(* What a commit of the dirty worktree writes, whether or not the state    *)
(* follows it.                                                             *)
LEMMA CommitRefType ==
  ASSUME TypeInv, NEW oid \in Nat, CommitRef(oid)
  PROVE  /\ RepositoryTypes' /\ CommitDocument \in Document
         /\ oid \in DOMAIN objects'
         /\ objects'[oid] = [parent |-> baseOID, document |-> CommitDocument]
         /\ refs' = [refs EXCEPT ![branch] = oid]
         /\ \A o \in DOMAIN objects : o \in DOMAIN objects' /\ objects'[o] = objects[o]
  <1>. USE DEF TypeInv
  <1>1. committed.source \in Profile /\ committed.projection \in Snapshot
    BY DEF BaseTypes, Document
  <1>2. DiffSnapshot(committed.projection, shared) \in Changes
    BY <1>1, DiffSnapshotType DEF HistoryTypes
  <1>3. CommitDocument \in Document
    BY <1>1, <1>2, BuildEffectiveType DEF CommitDocument
  <1>. DEFINE commit == [parent |-> baseOID, document |-> CommitDocument]
  <1>4. commit \in Commits /\ branch \in Branches
    BY <1>3 DEF Commits, BaseTypes
  <1>5. StoreCommit(branch, oid, commit)
    BY DEF CommitRef
  <1>6. QED
    BY <1>3, <1>4, <1>5, StoreCommitType

(* Commit moves the base to the commit it wrote.                           *)
LEMMA CommitType ==
  ASSUME TypeInv, Commit
  PROVE  TypeInv'
  <1>. USE DEF TypeInv
  <1>1. PICK oid \in 1 .. MaxObjects : CommitRef(oid) /\ baseOID' = oid
    BY DEF Commit
  <1>2. RepositoryTypes' /\ CommitDocument \in Document /\ oid \in DOMAIN objects' /\ oid \in Nat
    BY <1>1, CommitRefType
  <1>3. HistoryTypes' /\ ShellTypes'
    BY SameRevisionType DEF Commit, ShellTypes
  <1>4. BaseTypes' /\ BaseExists'
    BY <1>1, <1>2 DEF Commit, BaseTypes, BaseExists
  <1>5. QED
    BY <1>2, <1>3, <1>4

(* A commit whose state was not written changes the repository only.       *)
LEMMA CommitSplitType ==
  ASSUME TypeInv, CommitSplit
  PROVE  TypeInv'
  <1>. USE DEF TypeInv
  <1>1. PICK oid \in 1 .. MaxObjects : CommitRef(oid)
    BY DEF CommitSplit
  <1>2. RepositoryTypes' /\ \A o \in DOMAIN objects : o \in DOMAIN objects'
    BY <1>1, CommitRefType
  <1>3. UNCHANGED state
    BY DEF CommitSplit
  <1>4. HistoryTypes' /\ ShellTypes' /\ BaseTypes' /\ BaseExists'
    BY <1>2, <1>3 DEF state, HistoryTypes, ShellTypes, BaseTypes, BaseExists
  <1>5. QED
    BY <1>2, <1>4

(* A created branch starts at the head of the current one.                 *)
LEMMA CreateFromType ==
  ASSUME TypeInv, NEW b \in Branches, CreateFrom(b)
  PROVE  RepositoryTypes' /\ objects' = objects
  BY DEF TypeInv, CreateFrom, RepositoryTypes, BaseTypes

(* Branch repairs and creates, whether or not the state is written.        *)
LEMMA BranchType ==
  ASSUME TypeInv, NEW b \in Branches, Branch(b) \/ BranchSplit(b)
  PROVE  TypeInv'
  <1>. USE DEF TypeInv
  <1>1. RepositoryTypes' /\ objects' = objects
    BY CreateFromType DEF Branch, BranchSplit
  <1>2. CASE Branch(b)
    <2>1. refs[branch] \in DOMAIN objects /\ baseOID' = refs[branch] /\ committed' \in Document
      BY <1>2, RepairedStateType DEF Branch
    <2>2. HistoryTypes' /\ ShellTypes'
      BY <1>2, SameRevisionType DEF Branch, ShellTypes
    <2>3. BaseTypes' /\ BaseExists'
      BY <1>1, <1>2, <2>1, ObjectType DEF Branch, BaseTypes, BaseExists
    <2>4. QED
      BY <1>1, <2>2, <2>3
  <1>3. CASE BranchSplit(b)
    BY <1>1, <1>3 DEF BranchSplit, state, HistoryTypes, ShellTypes, BaseTypes, BaseExists
  <1>4. QED
    BY <1>2, <1>3

(* A replaced generation leaves every shell its record but for the flag.   *)
LEMMA ReplaceGenerationType ==
  ASSUME TypeInv, NEW b \in Branches, NEW oid \in Nat, NEW document \in Document,
         ReplaceGeneration(b, oid, document)
  PROVE  /\ HistoryTypes' /\ ShellTypes' /\ BaseTypes'
         /\ baseOID' = oid /\ branch' = b
  <1>. USE DEF TypeInv
  <1>1. document.projection \in Snapshot
    BY DEF Document
  <1>2. HistoryTypes'
    <2>1. CASE document.projection = shared
      BY <2>1, SameRevisionType DEF ReplaceGeneration
    <2>2. CASE document.projection # shared
      <3>1. AppendRevision({}, DiffSnapshot(shared, document.projection), document.projection)
        BY <2>2 DEF ReplaceGeneration
      <3>2. DiffSnapshot(shared, document.projection) \in Changes
        BY <1>1, DiffSnapshotType DEF HistoryTypes
      <3>3. QED
        BY <1>1, <3>1, <3>2, AppendRevisionType
    <2>3. QED
      BY <2>1, <2>2
  <1>3. ShellTypes'
    <2>. DEFINE flag(s) == \/ shells[s].appliedRevision < head'
                           \/ shells[s].appliedBaseline # document.projection
                           \/ shells[s].conflict # NoConflict
                record(s) == IF s \notin Attached THEN shells[s]
                             ELSE [shells[s] EXCEPT !.behind = flag(s)]
    <2>1. ASSUME NEW s \in Shells PROVE record(s) \in {NotAttached} \union ShellState
      <3>1. flag(s) \in BOOLEAN
        OBVIOUS
      <3>2. CASE s \in Attached
        <4>1. shells[s] \in ShellState
          BY <3>2 DEF Attached, ShellTypes
        <4>2. [shells[s] EXCEPT !.behind = flag(s)] \in ShellState
          BY <3>1, <4>1 DEF ShellState
        <4>3. QED
          BY <3>2, <4>2
      <3>3. CASE s \notin Attached
        BY <3>3 DEF ShellTypes
      <3>4. QED
        BY <3>2, <3>3
    <2>2. shells' = [s \in Shells |-> record(s)]
      BY DEF ReplaceGeneration
    <2>3. shells' \in [Shells -> {NotAttached} \union ShellState]
      BY <2>1, <2>2
    <2>4. QED
      BY <2>3 DEF ReplaceGeneration, ShellTypes
  <1>4. BaseTypes' /\ baseOID' = oid /\ branch' = b
    BY DEF ReplaceGeneration, BaseTypes
  <1>5. QED
    BY <1>2, <1>3, <1>4

(* Checkout and reset replace the generation by that of a commit.          *)
LEMMA CheckoutType ==
  ASSUME TypeInv, NEW b \in Branches, NEW create \in BOOLEAN, Checkout(b, create)
  PROVE  TypeInv'
  <1>. USE DEF TypeInv
  <1>1. RepositoryTypes' /\ objects' = objects
    BY CreateFromType DEF Checkout, RepositoryTypes
  <1>2. refs'[b] \in DOMAIN objects
    BY <1>1 DEF Checkout, NoOID, RepositoryTypes
  <1>3. refs'[b] \in Nat /\ objects[refs'[b]].document \in Document
    BY <1>2, ObjectType
  <1>4. HistoryTypes' /\ ShellTypes' /\ BaseTypes' /\ baseOID' = refs'[b]
    BY <1>3, ReplaceGenerationType DEF Checkout
  <1>5. QED
    BY <1>1, <1>2, <1>4 DEF BaseExists

(* Reset reads the base by its OID.                                        *)
LEMMA ResetHardType ==
  ASSUME TypeInv, ResetHard
  PROVE  TypeInv'
  <1>. USE DEF TypeInv
  <1>1. baseOID \in DOMAIN objects /\ branch \in Branches
    BY DEF ResetHard, BaseExists, BaseTypes
  <1>2. baseOID \in Nat /\ objects[baseOID].document \in Document
    BY <1>1, ObjectType
  <1>3. HistoryTypes' /\ ShellTypes' /\ BaseTypes' /\ baseOID' = baseOID
    BY <1>1, <1>2, ReplaceGenerationType DEF ResetHard
  <1>4. QED
    BY <1>1, <1>3 DEF ResetHard, RepositoryTypes, BaseExists

(* The auto-apply default is a Boolean.                                    *)
LEMMA SetAutoApplyDefaultType ==
  ASSUME TypeInv, NEW enabled \in AutoApplySettings, SetAutoApplyDefault(enabled)
  PROVE  TypeInv'
  <1>. USE DEF TypeInv
  <1>1. HistoryTypes' /\ ShellTypes'
    BY SameRevisionType DEF SetAutoApplyDefault, ShellTypes
  <1>2. BaseTypes' /\ RepositoryTypes' /\ BaseExists'
    BY ConstantsAssumption DEF SetAutoApplyDefault, BaseTypes, RepositoryTypes, BaseExists
  <1>3. QED
    BY <1>1, <1>2

(* A step of a terminal is one of its five requests.                       *)
LEMMA SyncCases ==
  ASSUME TypeInv, NEW s \in Shells, Sync(s)
  PROVE  \E op \in Operations :
           \/ \E initial \in Snapshot : Attach(s, op, initial)
           \/ \E delta \in Changes, ack \in Nat : Publish(s, op, ack, delta)
           \/ \E applied \in Nat : PreparePull(s, op, applied)
           \/ \E identity, token : \E snap \in Snapshot : ResolveShared(s, op, identity, token, snap)
           \/ \E revision, token : \E snap \in Snapshot : Acknowledge(s, op, revision, token, snap)
  BY DEF Sync, TypeInv, HistoryTypes

(* The initial state is well typed.                                        *)
LEMMA TypeInit == Init => TypeInv
  <1>. SUFFICES ASSUME Init PROVE TypeInv
    OBVIOUS
  <1>. USE DEF Init
  <1>1. HistoryTypes
    BY EmptyType DEF HistoryTypes
  <1>2. ShellTypes
    BY DEF ShellTypes
  <1>3. committed \in Document
    BY EmptyType DEF Document, Profile
  <1>4. BaseTypes
    BY <1>3, ConstantsAssumption DEF BaseTypes, NoOID
  <1>5. RepositoryTypes /\ BaseExists
    BY DEF RepositoryTypes, BaseExists, NoOID
  <1>6. QED
    BY <1>1, <1>2, <1>4, <1>5 DEF TypeInv

(* Every step preserves the types.                                         *)
LEMMA TypeNext == TypeInv /\ [Next]_vars => TypeInv'
  <1>. SUFFICES ASSUME TypeInv, [Next]_vars PROVE TypeInv'
    OBVIOUS
  <1>1. CASE UNCHANGED vars
    BY <1>1 DEF vars, state, TypeInv, HistoryTypes, ShellTypes, BaseTypes, RepositoryTypes, BaseExists
  <1>2. ASSUME NEW s \in Shells, Sync(s) PROVE TypeInv'
    BY <1>2, SyncCases, AttachType, PublishType, PreparePullType, ResolveSharedType, AcknowledgeType
  <1>3. CASE Workflow
    BY <1>3, MaterializeType, RepairType, CommitType, CommitSplitType, BranchType, CheckoutType,
       ResetHardType, SetAutoApplyDefaultType
       DEF Workflow
  <1>4. ASSUME NEW profile \in Profiles, Ingest(profile) PROVE TypeInv'
    BY <1>4, IngestType
  <1>5. QED
    BY <1>1, <1>2, <1>3, <1>4 DEF Next

(* The type invariant holds of every reachable state.                      *)
THEOREM TypeCorrect == Spec => []TypeOK
  <1>1. Spec => []TypeInv
    BY TypeInit, TypeNext, PTL DEF Spec
  <1>2. QED
    BY <1>1, TypeInvImpliesTypeOK, PTL

-------------------------------------------------------------------------------
(* History.  The events of the log are the last revisions, in order, and   *)
(* each names every identity that its revision changed; what a shell has   *)
(* applied, and what it is asked to apply, are generations of the history. *)

EventsNumbered ==
  /\ floor + Len(events) = head
  /\ \A k \in DOMAIN events : events[k].revision = floor + k

EventsExplain ==
  \A k \in DOMAIN events : floor + k > 1 =>
    \A i \in Identities \ DOMAIN events[k].changes :
      generations[floor + k][i] = generations[floor + k - 1][i]

LogInv ==
  /\ Len(generations) = head
  /\ head # 0 => shared = generations[head]
  /\ EventsNumbered
  /\ EventsExplain

Started ==
  /\ materialized <=> head # 0
  /\ ~materialized => Attached = {}

ShellHistory(shell, last, gens) ==
  /\ shell.appliedRevision <= last
  /\ shell.appliedRevision # 0 => shell.appliedBaseline = gens[shell.appliedRevision]
  /\ shell.pending # NoPending =>
       /\ shell.pending.revision \in 1 .. last
       /\ shell.appliedRevision <= shell.pending.revision
       /\ shell.pending.fingerprint = gens[shell.pending.revision]

ShellsInv == \A s \in Attached : ShellHistory(shells[s], head, generations)

HistoryInv == LogInv /\ Started /\ ShellsInv

(* No revision is ever rewritten.                                          *)
Grows ==
  /\ head <= head'
  /\ \A r \in 1 .. head : generations'[r] = generations[r]

(* A new revision whose event names everything it changes extends the      *)
(* history, with or without compaction.                                    *)
LEMMA AppendRevisionHistory ==
  ASSUME TypeInv, LogInv,
         NEW by \in SUBSET (Shells \X Operations), NEW changes \in Changes,
         NEW next \in Snapshot,
         head # 0 => \A i \in Identities \ DOMAIN changes : next[i] = shared[i],
         AppendRevision(by, changes, next)
  PROVE  /\ LogInv' /\ Grows
         /\ head' = head + 1 /\ shared' = next
         /\ events' # <<>> /\ events'[Len(events')].by = by
  <1>. DEFINE event == [revision |-> head + 1, by |-> by, changes |-> changes]
              log == Append(events, event)
              full == Len(log) > MaxStateEvents
              drop == IF full THEN 1 ELSE 0
  <1>1. HistoryTypes /\ HistoryTypes' /\ MaxStateEvents \in Nat \ {0}
    BY AppendRevisionType, ConstantsAssumption DEF TypeInv
  <1>. USE DEF HistoryTypes
  <1>2. event \in Event
    BY <1>1 DEF Event
  <1>3. /\ log \in Seq(Event) /\ Len(log) = Len(events) + 1 /\ Len(events) \in Nat
        /\ log[Len(events) + 1] = event
        /\ \A k \in 1 .. Len(events) : log[k] = events[k]
    BY <1>1, <1>2
  <1>a. head \in Nat /\ floor \in Nat /\ floor + Len(events) = head /\ event.revision = head + 1
    BY <1>1 DEF LogInv, EventsNumbered
  <1>b. \A k \in 1 .. Len(events) : events[k].revision = floor + k
    BY <1>1 DEF LogInv, EventsNumbered
  <1>4. \A k \in 1 .. Len(log) : log[k].revision = floor + k
    <2>. HIDE DEF log, event
    <2>1. ASSUME NEW k \in 1 .. Len(log) PROVE log[k].revision = floor + k
      <3>1. CASE k = Len(events) + 1
        BY <1>3, <1>a, <3>1
      <3>2. CASE k \in 1 .. Len(events)
        BY <1>3, <1>b, <3>2
      <3>3. QED
        BY <1>3, <3>1, <3>2
    <2>2. QED
      BY <2>1
  <1>5. head' = head + 1 /\ shared' = next /\ generations' = Append(generations, next)
    BY DEF AppendRevision
  <1>6. /\ Len(generations') = head' /\ generations'[head'] = next
        /\ \A r \in 1 .. head : generations'[r] = generations[r]
    BY <1>1, <1>5 DEF LogInv
  <1>7. /\ floor' = floor + drop
        /\ Len(events') = Len(log) - drop
        /\ \A k \in 1 .. Len(events') : events'[k] = log[k + drop]
    <2>1. CASE full
      <3>1. events' = Tail(log) /\ floor' = Head(log).revision
        BY <2>1 DEF AppendRevision
      <3>2. Len(log) >= 1 /\ Head(log) = log[1] /\ log # <<>>
        BY <1>3
      <3>3. Len(Tail(log)) = Len(log) - 1 /\ \A k \in 1 .. Len(Tail(log)) : Tail(log)[k] = log[k + 1]
        BY <1>3, <3>2
      <3>4. QED
        BY <1>4, <2>1, <3>1, <3>2, <3>3
    <2>2. CASE ~full
      BY <1>1, <1>3, <2>2 DEF AppendRevision
    <2>3. QED
      BY <2>1, <2>2
  <1>8. drop \in {0, 1} /\ Len(events') \in Nat /\ Len(events') >= 1
    BY <1>1, <1>3, <1>7
  <1>9. EventsNumbered'
    <2>. HIDE DEF log, drop
    <2>1. floor' + Len(events') = head'
      BY <1>1, <1>3, <1>5, <1>7, <1>8 DEF LogInv, EventsNumbered
    <2>2. ASSUME NEW k \in DOMAIN events' PROVE events'[k].revision = floor' + k
      <3>1. k \in 1 .. Len(events') /\ k + drop \in 1 .. Len(log)
        BY <1>1, <1>3, <1>7, <1>8
      <3>2. events'[k].revision = floor + (k + drop)
        BY <1>4, <1>7, <3>1
      <3>3. QED
        BY <1>a, <1>7, <1>8, <3>1, <3>2
    <2>3. QED
      BY <2>1, <2>2 DEF EventsNumbered
  <1>10. \A k \in 1 .. Len(log) : floor + k > 1 =>
           \A i \in Identities \ DOMAIN log[k].changes :
             generations'[floor + k][i] = generations'[floor + k - 1][i]
    <2>. SUFFICES ASSUME NEW k \in 1 .. Len(log), floor + k > 1,
                         NEW i \in Identities \ DOMAIN log[k].changes
                  PROVE  generations'[floor + k][i] = generations'[floor + k - 1][i]
      OBVIOUS
    <2>1. CASE k = Len(events) + 1
      <3>1. floor + k = head + 1 /\ head # 0 /\ floor + k - 1 = head
        BY <1>1, <2>1 DEF LogInv, EventsNumbered
      <3>2. i \in Identities \ DOMAIN changes
        BY <1>3, <2>1
      <3>3. generations'[head + 1] = next /\ generations'[head] = shared
        BY <1>1, <1>5, <1>6, <3>1 DEF LogInv
      <3>4. QED
        BY <3>1, <3>2, <3>3
    <2>2. CASE k \in 1 .. Len(events)
      <3>1. k \in DOMAIN events /\ i \in Identities \ DOMAIN events[k].changes
        BY <1>1, <1>3, <2>2
      <3>2. floor + k \in 1 .. head /\ floor + k - 1 \in 1 .. head
        BY <1>1, <2>2 DEF LogInv, EventsNumbered
      <3>3. generations[floor + k][i] = generations[floor + k - 1][i]
        BY <3>1 DEF LogInv, EventsExplain
      <3>4. QED
        BY <1>6, <3>2, <3>3
    <2>3. QED
      BY <1>3, <2>1, <2>2
  <1>11. EventsExplain'
    <2>. HIDE DEF log, drop
    <2>1. ASSUME NEW k \in DOMAIN events', floor' + k > 1,
                 NEW i \in Identities \ DOMAIN events'[k].changes
          PROVE  generations'[floor' + k][i] = generations'[floor' + k - 1][i]
      <3>1. k \in 1 .. Len(events') /\ k + drop \in 1 .. Len(log)
        BY <1>1, <1>3, <1>7, <1>8
      <3>2. events'[k] = log[k + drop]
        BY <1>7, <3>1
      <3>3. floor' = floor + drop /\ drop \in Nat /\ k \in Nat
        BY <1>7, <1>8, <3>1
      <3>4. floor' + k = floor + (k + drop) /\ floor' + k - 1 = floor + (k + drop) - 1
        BY <1>a, <3>3
      <3>5. QED
        BY <1>10, <2>1, <3>1, <3>2, <3>4
    <2>2. QED
      BY <2>1 DEF EventsExplain
  <1>12. events' # <<>> /\ events'[Len(events')].by = by
    <2>1. Len(events') + drop = Len(events) + 1 /\ Len(events') \in 1 .. Len(events')
      BY <1>3, <1>7, <1>8
    <2>2. events'[Len(events')] = event
      BY <1>3, <1>7, <2>1
    <2>3. QED
      BY <1>1, <1>8, <2>2
  <1>13. LogInv' /\ Grows
    BY <1>1, <1>5, <1>6, <1>9, <1>11 DEF LogInv, Grows
  <1>14. QED
    BY <1>5, <1>12, <1>13

(* A handler that makes no revision keeps the history.                     *)
LEMMA SameRevisionHistory ==
  ASSUME HistoryTypes, LogInv, SameRevision
  PROVE  LogInv' /\ Grows /\ head' = head /\ generations' = generations
  BY DEF HistoryTypes, LogInv, EventsNumbered, EventsExplain, SameRevision, Grows

(* What a shell record says of the history stays true as it grows.         *)
LEMMA ShellHistoryGrows ==
  ASSUME HistoryTypes, HistoryTypes', Grows,
         NEW shell \in ShellState, ShellHistory(shell, head, generations)
  PROVE  ShellHistory(shell, head', generations')
  <1>1. shell.appliedRevision \in Nat /\ head \in Nat /\ head' \in Nat /\ head <= head'
    BY DEF ShellState, HistoryTypes, Grows
  <1>2. shell.appliedRevision # 0 => shell.appliedRevision \in 1 .. head
    BY <1>1 DEF ShellHistory
  <1>3. \A r \in 1 .. head : generations'[r] = generations[r] /\ r \in 1 .. head'
    BY <1>1 DEF Grows
  <1>4. QED
    BY <1>1, <1>2, <1>3 DEF ShellHistory

(* When one record changes, it is the only one to look at.                 *)
LEMMA OneShellChanges ==
  ASSUME TypeInv, HistoryTypes', Grows, ShellsInv,
         NEW s \in Shells, NEW record, shells' = [shells EXCEPT ![s] = record],
         ShellHistory(record, head', generations')
  PROVE  ShellsInv'
  <1>1. ASSUME NEW t \in Shells, t # s, shells'[t] # NotAttached
        PROVE  ShellHistory(shells'[t], head', generations')
    <2>1. shells'[t] = shells[t]
      BY <1>1 DEF TypeInv, ShellTypes
    <2>2. shells[t] \in ShellState /\ ShellHistory(shells[t], head, generations)
      BY <1>1, <2>1 DEF TypeInv, ShellTypes, ShellsInv, Attached
    <2>3. ShellHistory(shells[t], head', generations')
      BY <2>2, ShellHistoryGrows DEF TypeInv
    <2>4. QED
      BY <2>1, <2>3
  <1>2. shells'[s] = record
    BY DEF TypeInv, ShellTypes
  <1>3. QED
    BY <1>1, <1>2 DEF ShellsInv, Attached

(* When no record changes what it says of the history, it stays true.      *)
LEMMA ShellsKeepHistory ==
  ASSUME TypeInv, HistoryTypes', Grows, ShellsInv,
         \A s \in Shells : shells'[s] # NotAttached =>
           /\ shells[s] # NotAttached
           /\ shells'[s].appliedRevision = shells[s].appliedRevision
           /\ shells'[s].appliedBaseline = shells[s].appliedBaseline
           /\ shells'[s].pending = shells[s].pending
  PROVE  ShellsInv'
  <1>1. ASSUME NEW s \in Shells, shells'[s] # NotAttached
        PROVE  ShellHistory(shells'[s], head', generations')
    <2>1. shells[s] \in ShellState /\ ShellHistory(shells[s], head, generations)
      BY <1>1 DEF TypeInv, ShellTypes, ShellsInv, Attached
    <2>2. ShellHistory(shells[s], head', generations')
      BY <2>1, ShellHistoryGrows DEF TypeInv
    <2>3. QED
      BY <1>1, <2>2 DEF ShellHistory
  <1>2. QED
    BY <1>1 DEF ShellsInv, Attached

(* The worktree stays materialized, with a history, when only records of   *)
(* attached or attaching shells change.                                    *)
LEMMA StartedKept ==
  ASSUME TypeInv, HistoryTypes', LogInv, Started, Grows, materialized, materialized' = materialized
  PROVE  Started'
  BY DEF Started, Grows, TypeInv, HistoryTypes

(* A shell attaches at the head, or with nothing applied.                  *)
LEMMA AttachHistory ==
  ASSUME TypeInv, HistoryInv, NEW s \in Shells, NEW op \in Operations, NEW initial \in Snapshot,
         Attach(s, op, initial)
  PROVE  HistoryInv' /\ Grows
  <1>. USE DEF HistoryInv
  <1>1. HistoryTypes /\ HistoryTypes' /\ materialized /\ materialized' = materialized /\ SameRevision
    BY SameRevisionType DEF TypeInv, Attach, syncUnchanged
  <1>2. LogInv' /\ Grows /\ head' = head /\ generations' = generations
    BY <1>1, SameRevisionHistory
  <1>3. head \in Nat \ {0} /\ shared = generations[head]
    BY <1>1 DEF HistoryTypes, LogInv, Started
  <1>. DEFINE capture == [i \in Identities |-> IF AllowsLiveValue(i) THEN initial[i] ELSE Absent]
              record == [attachState |-> IF capture = shared THEN "at-head" ELSE "clean-reconcile",
                         appliedRevision |-> IF capture = shared THEN head ELSE 0,
                         appliedBaseline |-> IF capture = shared THEN shared ELSE EmptySnapshot,
                         captureBaseline |-> capture,
                         presentAtAttach |-> Present(initial),
                         transition |-> "attach",
                         pending |-> NoPending,
                         conflict |-> NoConflict,
                         unpublished |-> NoChanges,
                         behind |-> ~(capture = shared)]
  <1>4. /\ shells' = [shells EXCEPT ![s] = record]
        /\ record.pending = NoPending
        /\ \/ record.appliedRevision = 0
           \/ record.appliedRevision = head /\ record.appliedBaseline = shared
    BY DEF Attach
  <1>. HIDE DEF record
  <1>5. ShellHistory(record, head', generations')
    BY <1>2, <1>3, <1>4 DEF ShellHistory
  <1>6. ShellsInv'
    BY <1>1, <1>2, <1>4, <1>5, OneShellChanges
  <1>7. Started'
    BY <1>1, <1>2, StartedKept
  <1>8. QED
    BY <1>2, <1>6, <1>7

(* A publication lays changes over the shared generation that its event    *)
(* names; the shell's applied revision stays.                              *)
LEMMA PublishHistory ==
  ASSUME TypeInv, HistoryInv, NEW s \in Shells, NEW op \in Operations, NEW ack \in Nat,
         NEW delta \in Changes, Publish(s, op, ack, delta)
  PROVE  HistoryInv' /\ Grows
  <1>. USE DEF HistoryInv
  <1>. DEFINE observed == Observed(s, delta)
              accepted == Wanted(s, observed) \ Losing(ack, Wanted(s, observed))
              changes == Only(observed, accepted)
  <1>1. shells[s] \in ShellState /\ HistoryTypes /\ HistoryTypes'
    BY PublishType DEF TypeInv, ShellTypes, Publish, Attached
  <1>2. observed \in Snapshot /\ changes \in Changes
    BY <1>1, OnlyType, ApplyChangesType DEF Observed, ShellState
  <1>3. LogInv' /\ Grows
    <2>1. CASE accepted = {}
      BY <1>1, <2>1, SameRevisionHistory DEF Publish
    <2>2. CASE accepted # {}
      <3>1. AppendRevision({<<s, op>>}, changes, ApplyChanges(shared, changes))
        BY <2>2 DEF Publish
      <3>2. ApplyChanges(shared, changes) \in Snapshot
        BY <1>1, <1>2, ApplyChangesType DEF HistoryTypes
      <3>3. \A i \in Identities \ DOMAIN changes : ApplyChanges(shared, changes)[i] = shared[i]
        BY DEF ApplyChanges
      <3>4. {<<s, op>>} \in SUBSET (Shells \X Operations)
        OBVIOUS
      <3>. HIDE DEF changes
      <3>5. QED
        BY <1>2, <3>1, <3>2, <3>3, <3>4, AppendRevisionHistory
    <2>3. QED
      BY <2>1, <2>2
  <1>4. materialized /\ materialized' = materialized
    BY <1>1 DEF Publish, syncUnchanged, Started
  <1>5. \A t \in Shells : shells'[t] # NotAttached =>
           /\ shells[t] # NotAttached
           /\ shells'[t].appliedRevision = shells[t].appliedRevision
           /\ shells'[t].appliedBaseline = shells[t].appliedBaseline
           /\ shells'[t].pending = shells[t].pending
    <2>1. PICK conflict, unpublished, transition, capture, behind :
            shells' = [shells EXCEPT ![s] =
              [shells[s] EXCEPT !.conflict = conflict, !.unpublished = unpublished,
                                !.transition = transition, !.captureBaseline = capture,
                                !.behind = behind]]
      BY DEF Publish
    <2>2. shells[s] # NotAttached
      BY DEF Publish, Attached
    <2>3. QED
      BY <1>1, <2>1, <2>2 DEF TypeInv, ShellTypes, ShellState
  <1>6. ShellsInv' /\ Started'
    BY <1>1, <1>3, <1>4, <1>5, ShellsKeepHistory, StartedKept
  <1>7. QED
    BY <1>3, <1>6

(* A prepared pull targets the head, at or after the applied revision.     *)
LEMMA PreparePullHistory ==
  ASSUME TypeInv, HistoryInv, NEW s \in Shells, NEW op \in Operations, NEW applied \in Nat,
         PreparePull(s, op, applied)
  PROVE  HistoryInv' /\ Grows
  <1>. USE DEF HistoryInv
  <1>1. shells[s] \in ShellState /\ HistoryTypes /\ HistoryTypes' /\ SameRevision
    BY SameRevisionType DEF TypeInv, ShellTypes, PreparePull, Attached
  <1>2. LogInv' /\ Grows /\ head' = head /\ generations' = generations
    BY <1>1, SameRevisionHistory
  <1>3. materialized /\ materialized' = materialized
    BY DEF PreparePull, syncUnchanged, Started
  <1>4. head \in Nat \ {0} /\ shared = generations[head]
    BY <1>1, <1>3 DEF HistoryTypes, LogInv, Started
  <1>5. ShellHistory(shells[s], head, generations) /\ shells[s].pending = NoPending
    BY DEF PreparePull, ShellsInv
  <1>. DEFINE shell == IF applied # shells[s].appliedRevision
                       THEN [shells[s] EXCEPT !.attachState = "clean-reconcile",
                                              !.appliedRevision = 0,
                                              !.appliedBaseline = EmptySnapshot]
                       ELSE shells[s]
              prepared(token) ==
                [shell EXCEPT !.pending = [kind |-> "pull", revision |-> head,
                                           fingerprint |-> shared, token |-> token],
                              !.transition = "prepare", !.behind = TRUE]
  <1>6. \/ shells' = [shells EXCEPT ![s] = shell]
        \/ shells' = [shells EXCEPT ![s] = prepared(NewToken("pull", op, head))]
    BY DEF PreparePull
  <1>7. /\ shell \in ShellState /\ shell.pending = NoPending
        /\ ShellHistory(shell, head, generations)
    <2>1. CASE applied # shells[s].appliedRevision
      <3>1. /\ shell \in ShellState /\ shell.pending = shells[s].pending
            /\ shell.appliedRevision = 0
        BY <1>1, <2>1, EmptyType DEF ShellState
      <3>. HIDE DEF shell
      <3>2. QED
        BY <1>4, <1>5, <3>1 DEF ShellHistory
    <2>2. CASE applied = shells[s].appliedRevision
      BY <1>1, <1>5, <2>2
    <2>3. QED
      BY <2>1, <2>2
  <1>8. \A token : ShellHistory(prepared(token), head, generations)
    <2>1. ASSUME NEW token
          PROVE  ShellHistory(prepared(token), head, generations)
      <3>1. /\ prepared(token).appliedRevision = shell.appliedRevision
            /\ prepared(token).appliedBaseline = shell.appliedBaseline
            /\ prepared(token).pending.revision = head /\ prepared(token).pending.fingerprint = shared
        BY <1>7 DEF ShellState
      <3>. HIDE DEF prepared, shell
      <3>2. QED
        BY <1>4, <1>7, <3>1 DEF ShellHistory
    <2>2. QED
      BY <2>1
  <1>. HIDE DEF prepared, shell
  <1>9. ShellsInv' /\ Started'
    BY <1>1, <1>2, <1>3, <1>6, <1>7, <1>8, OneShellChanges, StartedKept
  <1>10. QED
    BY <1>2, <1>9

(* A resolution targets the head; the shell's applied revision stays.      *)
LEMMA ResolveSharedHistory ==
  ASSUME TypeInv, HistoryInv, NEW s \in Shells, NEW op \in Operations, NEW identity, NEW token,
         NEW snap \in Snapshot, ResolveShared(s, op, identity, token, snap)
  PROVE  HistoryInv' /\ Grows
  <1>. USE DEF HistoryInv
  <1>1. shells[s] \in ShellState /\ HistoryTypes /\ HistoryTypes' /\ SameRevision
    BY SameRevisionType DEF TypeInv, ShellTypes, ResolveShared, Attached
  <1>2. LogInv' /\ Grows /\ head' = head /\ generations' = generations
    BY <1>1, SameRevisionHistory
  <1>3. materialized /\ materialized' = materialized
    BY DEF ResolveShared, syncUnchanged, Started
  <1>4. head \in Nat \ {0} /\ shared = generations[head]
    BY <1>1, <1>3 DEF HistoryTypes, LogInv, Started
  <1>5. ShellHistory(shells[s], head, generations)
    BY DEF ResolveShared, ShellsInv
  <1>. DEFINE record == [shells[s] EXCEPT
                           !.pending = [kind |-> "resolution", revision |-> head,
                                        fingerprint |-> shared, token |-> token],
                           !.transition = "resolve", !.behind = TRUE]
  <1>6. shells' = shells \/ shells' = [shells EXCEPT ![s] = record]
    BY DEF ResolveShared
  <1>7. ShellHistory(record, head, generations)
    <2>1. /\ record.appliedRevision = shells[s].appliedRevision
          /\ record.appliedBaseline = shells[s].appliedBaseline
          /\ record.pending.revision = head /\ record.pending.fingerprint = shared
      BY <1>1 DEF ShellState
    <2>. HIDE DEF record
    <2>2. QED
      BY <1>4, <1>5, <2>1 DEF ShellHistory
  <1>. HIDE DEF record
  <1>8. ShellsInv'
    <2>1. CASE shells' = shells
      BY <1>1, <1>2, <2>1, ShellsKeepHistory
    <2>2. CASE shells' = [shells EXCEPT ![s] = record]
      BY <1>1, <1>2, <1>7, <2>2, OneShellChanges
    <2>3. QED
      BY <1>6, <2>1, <2>2
  <1>9. Started'
    BY <1>1, <1>2, <1>3, StartedKept
  <1>10. QED
    BY <1>2, <1>8, <1>9

(* An acknowledged shell has applied the revision it was asked to apply,   *)
(* with the generation the service gave it for that revision.              *)
LEMMA AcknowledgeHistory ==
  ASSUME TypeInv, HistoryInv, NEW s \in Shells, NEW op \in Operations, NEW revision, NEW token,
         NEW snap \in Snapshot, Acknowledge(s, op, revision, token, snap)
  PROVE  HistoryInv' /\ Grows
  <1>. USE DEF HistoryInv
  <1>1. shells[s] \in ShellState /\ HistoryTypes /\ HistoryTypes' /\ SameRevision
    BY SameRevisionType DEF TypeInv, ShellTypes, Acknowledge, Attached
  <1>2. LogInv' /\ Grows /\ head' = head /\ generations' = generations
    BY <1>1, SameRevisionHistory
  <1>3. materialized /\ materialized' = materialized
    BY DEF Acknowledge, syncUnchanged, Started
  <1>4. ShellHistory(shells[s], head, generations)
    BY DEF Acknowledge, ShellsInv
  <1>. DEFINE observed == AdmittedSnapshot(s, snap)
              record == Acknowledged(shells[s], observed)
  <1>5. \/ shells' = shells
        \/ /\ shells[s].pending # NoPending
           /\ observed = shells[s].pending.fingerprint
           /\ shells' = [shells EXCEPT ![s] = record]
    BY DEF Acknowledge
  <1>6. CASE shells' = shells
    BY <1>1, <1>2, <1>3, <1>6, ShellsKeepHistory, StartedKept
  <1>7. CASE /\ shells[s].pending # NoPending
             /\ observed = shells[s].pending.fingerprint
             /\ shells' = [shells EXCEPT ![s] = record]
    <2>1. /\ record.appliedRevision = shells[s].pending.revision
          /\ record.appliedBaseline = observed
          /\ record.pending = NoPending
      BY <1>1 DEF Acknowledged, ShellState
    <2>. HIDE DEF record
    <2>2. ShellHistory(record, head, generations)
      BY <1>1, <1>4, <1>7, <2>1 DEF ShellHistory, HistoryTypes
    <2>3. ShellsInv' /\ Started'
      BY <1>1, <1>2, <1>3, <1>7, <2>2, OneShellChanges, StartedKept
    <2>4. QED
      BY <1>2, <2>3
  <1>8. QED
    BY <1>5, <1>6, <1>7

(* The first generation is the history.                                    *)
LEMMA MaterializeHistory ==
  ASSUME TypeInv, HistoryInv, NEW oid, Materialize(oid)
  PROVE  HistoryInv' /\ Grows
  <1>. USE DEF HistoryInv
  <1>. DEFINE event == [revision |-> 1, by |-> {},
                        changes |-> DiffSnapshot(EmptySnapshot, shared')]
  <1>1. /\ events' = <<event>> /\ generations' = <<shared'>>
        /\ head' = 1 /\ floor' = 0 /\ materialized' /\ ~materialized /\ shells' = shells
    BY DEF Materialize
  <1>2. head = 0 /\ Attached = {}
    BY <1>1 DEF Started
  <1>. HIDE DEF event
  <1>3. Len(events') = 1 /\ DOMAIN events' = {1} /\ events'[1] = event /\ event.revision = 1
    BY <1>1 DEF event
  <1>4. EventsNumbered' /\ EventsExplain'
    BY <1>1, <1>3 DEF EventsNumbered, EventsExplain
  <1>5. LogInv'
    BY <1>1, <1>4 DEF LogInv
  <1>6. Grows /\ Started' /\ ShellsInv'
    BY <1>1, <1>2 DEF Grows, Started, ShellsInv, Attached
  <1>7. QED
    BY <1>5, <1>6

(* A step that leaves the history and the shell records alone.             *)
LEMMA SameHistory ==
  ASSUME TypeInv, HistoryInv, SameRevision, UNCHANGED <<materialized, shells>>
  PROVE  HistoryInv' /\ Grows
  <1>. USE DEF HistoryInv
  <1>1. HistoryTypes /\ HistoryTypes'
    BY SameRevisionType DEF TypeInv
  <1>2. LogInv' /\ Grows /\ head' = head
    BY <1>1, SameRevisionHistory
  <1>3. ShellsInv'
    BY <1>1, <1>2, ShellsKeepHistory
  <1>4. Started'
    BY <1>2 DEF Started, Attached
  <1>5. QED
    BY <1>2, <1>3, <1>4

(* A checkout or reset that moves the generation is one more revision,     *)
(* whose event is the whole difference; the shells keep what they applied. *)
LEMMA ReplaceGenerationHistory ==
  ASSUME TypeInv, HistoryInv, materialized,
         NEW b \in Branches, NEW oid \in Nat, NEW document \in Document,
         ReplaceGeneration(b, oid, document)
  PROVE  HistoryInv' /\ Grows
  <1>. USE DEF HistoryInv
  <1>1. HistoryTypes /\ HistoryTypes' /\ materialized' = materialized
    BY ReplaceGenerationType DEF TypeInv, ReplaceGeneration
  <1>2. LogInv' /\ Grows
    <2>1. CASE document.projection = shared
      BY <1>1, <2>1, SameRevisionHistory DEF ReplaceGeneration
    <2>2. CASE document.projection # shared
      <3>. DEFINE changes == DiffSnapshot(shared, document.projection)
      <3>1. AppendRevision({}, changes, document.projection)
        BY <2>2 DEF ReplaceGeneration
      <3>2. /\ document.projection \in Snapshot /\ changes \in Changes
            /\ DOMAIN changes = {i \in Identities : shared[i] # document.projection[i]}
        BY <1>1, DiffSnapshotType DEF HistoryTypes, Document
      <3>. HIDE DEF changes
      <3>3. QED
        BY <3>1, <3>2, AppendRevisionHistory
    <2>3. QED
      BY <2>1, <2>2
  <1>3. ASSUME NEW s \in Shells, shells'[s] # NotAttached
        PROVE  /\ shells[s] # NotAttached
               /\ shells'[s].appliedRevision = shells[s].appliedRevision
               /\ shells'[s].appliedBaseline = shells[s].appliedBaseline
               /\ shells'[s].pending = shells[s].pending
    <2>1. CASE s \notin Attached
      BY <1>3, <2>1 DEF ReplaceGeneration, Attached
    <2>2. CASE s \in Attached
      <3>1. shells[s] \in ShellState
        BY <2>2 DEF TypeInv, ShellTypes, Attached
      <3>2. PICK flag : shells'[s] = [shells[s] EXCEPT !.behind = flag]
        BY <2>2 DEF ReplaceGeneration
      <3>3. QED
        BY <2>2, <3>1, <3>2 DEF ShellState, Attached
    <2>3. QED
      BY <2>1, <2>2
  <1>4. ShellsInv' /\ Started'
    BY <1>1, <1>2, <1>3, ShellsKeepHistory, StartedKept
  <1>5. QED
    BY <1>2, <1>4

(* A commit or branch leaves the history alone; checkout and reset may     *)
(* replace the generation; ingest does not touch the worktree.             *)
LEMMA WorkflowHistory ==
  ASSUME TypeInv, HistoryInv, Workflow
  PROVE  HistoryInv' /\ Grows
  <1>1. CASE \E oid \in 1 .. MaxObjects : Materialize(oid)
    BY <1>1, MaterializeHistory
  <1>2. CASE \/ Repair \/ Commit \/ CommitSplit
             \/ \E b \in Branches : Branch(b) \/ BranchSplit(b)
             \/ \E enabled \in AutoApplySettings : SetAutoApplyDefault(enabled)
    <2>1. SameRevision /\ UNCHANGED <<materialized, shells>>
      BY <1>2 DEF Repair, Commit, CommitSplit, Branch, BranchSplit, SetAutoApplyDefault, state, SameRevision
    <2>2. QED
      BY <2>1, SameHistory
  <1>3. ASSUME NEW b \in Branches, NEW create \in BOOLEAN, Checkout(b, create)
        PROVE  HistoryInv' /\ Grows
    <2>1. RepositoryTypes' /\ objects' = objects
      BY <1>3, CreateFromType DEF Checkout, TypeInv, RepositoryTypes
    <2>2. refs'[b] \in DOMAIN objects
      BY <1>3, <2>1 DEF Checkout, NoOID, RepositoryTypes
    <2>3. refs'[b] \in Nat /\ objects[refs'[b]].document \in Document
      BY <2>2, ObjectType DEF TypeInv
    <2>4. QED
      BY <1>3, <2>1, <2>3, ReplaceGenerationHistory DEF Checkout, CheckoutAllowed
  <1>4. CASE ResetHard
    <2>1. baseOID \in DOMAIN objects /\ branch \in Branches
      BY <1>4 DEF ResetHard, TypeInv, BaseExists, BaseTypes
    <2>2. baseOID \in Nat /\ objects[baseOID].document \in Document
      BY <2>1, ObjectType DEF TypeInv
    <2>3. QED
      BY <1>4, <2>1, <2>2, ReplaceGenerationHistory DEF ResetHard
  <1>5. QED
    BY <1>1, <1>2, <1>3, <1>4 DEF Workflow

(* Before the first generation there is no history and no shell.           *)
LEMMA HistoryInit == Init => HistoryInv
  <1>. SUFFICES ASSUME Init PROVE HistoryInv
    OBVIOUS
  <1>1. Attached = {}
    BY DEF Init, Attached
  <1>2. LogInv
    BY DEF Init, LogInv, EventsNumbered, EventsExplain
  <1>3. QED
    BY <1>1, <1>2 DEF Init, HistoryInv, Started, ShellsInv

(* Every step preserves the history invariant and rewrites no revision.    *)
LEMMA HistoryNext == TypeInv /\ HistoryInv /\ [Next]_vars => HistoryInv' /\ Grows
  <1>. SUFFICES ASSUME TypeInv, HistoryInv, [Next]_vars PROVE HistoryInv' /\ Grows
    OBVIOUS
  <1>1. CASE UNCHANGED state
    <2>1. SameRevision /\ UNCHANGED <<materialized, shells>>
      BY <1>1 DEF state, SameRevision
    <2>2. QED
      BY <2>1, SameHistory
  <1>2. ASSUME NEW s \in Shells, Sync(s) PROVE HistoryInv' /\ Grows
    BY <1>2, SyncCases, AttachHistory, PublishHistory, PreparePullHistory, ResolveSharedHistory,
       AcknowledgeHistory
  <1>3. CASE Workflow
    BY <1>3, WorkflowHistory
  <1>4. QED
    BY <1>1, <1>2, <1>3 DEF Next, Ingest, vars

(* Both invariants, of every reachable state.                              *)
LEMMA Invariant == Spec => [](TypeInv /\ HistoryInv)
  <1>1. Init => TypeInv /\ HistoryInv
    BY TypeInit, HistoryInit
  <1>2. (TypeInv /\ HistoryInv) /\ [Next]_vars => (TypeInv /\ HistoryInv)'
    BY TypeNext, HistoryNext
  <1>3. QED
    BY <1>1, <1>2, PTL DEF Spec

(* What a shell is said to have applied is the generation it really held,  *)
(* whatever was published, checked out, reset or compacted meanwhile.      *)
THEOREM AppliedCorrect == Spec => []AppliedIsHistory
  <1>1. HistoryInv => AppliedIsHistory
    BY DEF HistoryInv, ShellsInv, ShellHistory, AppliedIsHistory
  <1>2. QED
    BY <1>1, Invariant, PTL

-------------------------------------------------------------------------------
(* No stale overwrite                                                      *)

(* An identity that no event after a retained revision names has had one   *)
(* value since: this is what Losing relies on, and why a compacted history *)
(* must count as a loss.                                                   *)
LEMMA UnnamedIsUnchanged ==
  ASSUME HistoryTypes, LogInv, NEW ack \in Nat \ {0}, floor <= ack,
         NEW i \in Identities, i \notin ChangedIdentitiesAfter(ack)
  PROVE  ~ChangedBetween(i, ack, head)
  <1>. SUFFICES ASSUME NEW r \in ack .. head - 1
                PROVE  generations[r][i] = generations[r + 1][i]
    BY DEF ChangedBetween
  <1>. DEFINE k == r + 1 - floor
  <1>1. head \in Nat /\ floor \in Nat /\ floor + Len(events) = head /\ Len(events) \in Nat
    BY DEF HistoryTypes, LogInv, EventsNumbered
  <1>2. k \in 1 .. Len(events) /\ floor + k = r + 1 /\ floor + k > 1 /\ floor + k - 1 = r /\ r + 1 > ack
    BY <1>1
  <1>. HIDE DEF k
  <1>3. k \in DOMAIN events /\ events[k].revision = r + 1
    <2>1. k \in DOMAIN events
      BY <1>2 DEF HistoryTypes
    <2>2. QED
      BY <1>2, <2>1 DEF LogInv, EventsNumbered
  <1>4. i \notin DOMAIN events[k].changes
    BY <1>2, <1>3 DEF ChangedIdentitiesAfter
  <1>5. QED
    BY <1>2, <1>3, <1>4 DEF LogInv, EventsExplain

Unauthored == head' # head => events'[Len(events')].by = {}

(* A checkout or reset makes no revision in the name of a shell.           *)
LEMMA ReplaceGenerationUnauthored ==
  ASSUME TypeInv, HistoryInv, NEW b \in Branches, NEW oid \in Nat, NEW document \in Document,
         ReplaceGeneration(b, oid, document)
  PROVE  Unauthored
  <1>1. CASE document.projection = shared
    BY <1>1 DEF ReplaceGeneration, SameRevision, Unauthored
  <1>2. CASE document.projection # shared
    <2>. DEFINE changes == DiffSnapshot(shared, document.projection)
    <2>1. AppendRevision({}, changes, document.projection)
      BY <1>2 DEF ReplaceGeneration
    <2>2. /\ document.projection \in Snapshot /\ changes \in Changes
          /\ DOMAIN changes = {i \in Identities : shared[i] # document.projection[i]}
      BY DiffSnapshotType DEF TypeInv, HistoryTypes, Document
    <2>. HIDE DEF changes
    <2>3. QED
      BY <2>1, <2>2, AppendRevisionHistory DEF HistoryInv, Unauthored
  <1>3. QED
    BY <1>1, <1>2

(* Only a publication makes a revision in the name of a shell.             *)
LEMMA StepAuthor ==
  ASSUME TypeInv, HistoryInv, [Next]_vars
  PROVE  \/ Unauthored
         \/ \E s \in Shells, op \in Operations, ack \in Nat, delta \in Changes :
              Publish(s, op, ack, delta)
  <1>1. CASE UNCHANGED state
    BY <1>1 DEF state, Unauthored
  <1>2. ASSUME NEW s \in Shells, NEW op \in Operations,
               \/ \E initial \in Snapshot : Attach(s, op, initial)
               \/ \E applied \in Nat : PreparePull(s, op, applied)
               \/ \E identity, token : \E snap \in Snapshot : ResolveShared(s, op, identity, token, snap)
               \/ \E revision, token : \E snap \in Snapshot : Acknowledge(s, op, revision, token, snap)
        PROVE  Unauthored
    <2>1. SameRevision
      BY <1>2 DEF Attach, PreparePull, ResolveShared, Acknowledge
    <2>2. QED
      BY <2>1 DEF SameRevision, Unauthored
  <1>3. CASE \E oid \in 1 .. MaxObjects : Materialize(oid)
    <2>1. PICK changes : events' = <<[revision |-> 1, by |-> {}, changes |-> changes]>>
      BY <1>3 DEF Materialize
    <2>2. QED
      BY <2>1 DEF Unauthored
  <1>4. CASE \/ Repair \/ Commit \/ CommitSplit
             \/ \E b \in Branches : Branch(b) \/ BranchSplit(b)
             \/ \E enabled \in AutoApplySettings : SetAutoApplyDefault(enabled)
    BY <1>4 DEF Repair, Commit, CommitSplit, Branch, BranchSplit, SetAutoApplyDefault, state,
                SameRevision, Unauthored
  <1>5. ASSUME NEW b \in Branches, NEW create \in BOOLEAN, Checkout(b, create)
        PROVE  Unauthored
    <2>1. RepositoryTypes' /\ objects' = objects
      BY <1>5, CreateFromType DEF Checkout, TypeInv, RepositoryTypes
    <2>2. refs'[b] \in DOMAIN objects
      BY <1>5, <2>1 DEF Checkout, NoOID, RepositoryTypes
    <2>3. refs'[b] \in Nat /\ objects[refs'[b]].document \in Document
      BY <2>2, ObjectType DEF TypeInv
    <2>4. QED
      BY <1>5, <2>1, <2>3, ReplaceGenerationUnauthored DEF Checkout
  <1>6. CASE ResetHard
    <2>1. baseOID \in DOMAIN objects /\ branch \in Branches
      BY <1>6 DEF ResetHard, TypeInv, BaseExists, BaseTypes
    <2>2. baseOID \in Nat /\ objects[baseOID].document \in Document
      BY <2>1, ObjectType DEF TypeInv
    <2>3. QED
      BY <1>6, <2>1, <2>2, ReplaceGenerationUnauthored DEF ResetHard
  <1>7. CASE Workflow
    BY <1>3, <1>4, <1>5, <1>6, <1>7 DEF Workflow
  <1>8. ASSUME NEW s \in Shells, Sync(s)
        PROVE  \/ Unauthored
               \/ \E op \in Operations, ack \in Nat, delta \in Changes : Publish(s, op, ack, delta)
    BY <1>2, <1>8, SyncCases
  <1>9. QED
    BY <1>1, <1>7, <1>8 DEF Next, Ingest, vars

(* What a publication changes in the shared generation, nothing changed    *)
(* since the revision that its shell applied.                              *)
LEMMA PublishNotStale ==
  ASSUME TypeInv, HistoryInv, NEW s \in Shells, NEW op \in Operations, NEW ack \in Nat,
         NEW delta \in Changes, Publish(s, op, ack, delta), head' # head
  PROVE  /\ events' # <<>> /\ events'[Len(events')].by = {<<s, op>>}
         /\ \A i \in DOMAIN DiffSnapshot(shared, shared') :
              ~ChangedBetween(i, shells[s].appliedRevision, head)
  <1>. DEFINE observed == Observed(s, delta)
              wanted == Wanted(s, observed)
              accepted == wanted \ Losing(ack, wanted)
              changes == Only(observed, accepted)
  <1>1. shells[s] \in ShellState /\ HistoryTypes /\ HistoryTypes' /\ LogInv
    BY PublishType DEF TypeInv, HistoryInv, ShellTypes, Publish, Attached
  <1>2. observed \in Snapshot /\ changes \in Changes
    BY <1>1, OnlyType, ApplyChangesType DEF Observed, ShellState
  <1>3. accepted # {} /\ AppendRevision({<<s, op>>}, changes, ApplyChanges(shared, changes))
    BY DEF Publish, SameRevision
  <1>4. /\ ApplyChanges(shared, changes) \in Snapshot
        /\ \A i \in Identities \ DOMAIN changes : ApplyChanges(shared, changes)[i] = shared[i]
        /\ {<<s, op>>} \in SUBSET (Shells \X Operations)
    <2>1. ApplyChanges(shared, changes) \in Snapshot
      BY <1>1, <1>2, ApplyChangesType DEF HistoryTypes
    <2>2. \A i \in Identities \ DOMAIN changes : ApplyChanges(shared, changes)[i] = shared[i]
      BY DEF ApplyChanges
    <2>3. {<<s, op>>} \in SUBSET (Shells \X Operations)
      OBVIOUS
    <2>. HIDE DEF changes
    <2>4. QED
      BY <2>1, <2>2, <2>3
  <1>5. DOMAIN changes \subseteq accepted
    BY DEF Only
  <1>6. /\ events' # <<>> /\ events'[Len(events')].by = {<<s, op>>}
        /\ shared' = ApplyChanges(shared, changes)
    <2>. HIDE DEF changes
    <2>1. QED
      BY <1>1, <1>2, <1>3, <1>4, AppendRevisionHistory
  <1>7. ASSUME NEW i \in DOMAIN DiffSnapshot(shared, shared')
        PROVE  ~ChangedBetween(i, shells[s].appliedRevision, head)
    <2>1. i \in Identities /\ i \in accepted
      <3>. HIDE DEF changes, accepted
      <3>1. i \in Identities /\ shared'[i] # shared[i]
        BY <1>1, <1>7, DiffSnapshotType DEF HistoryTypes
      <3>2. QED
        BY <1>4, <1>5, <1>6, <3>1
    <2>2. ~(ack < floor) /\ i \notin ChangedIdentitiesAfter(ack)
      BY <2>1 DEF Losing
    <2>3. ack \in Nat \ {0} /\ floor <= ack /\ ack = shells[s].appliedRevision
      BY <1>1, <2>2 DEF Publish, HistoryTypes
    <2>4. QED
      BY <1>1, <2>1, <2>2, <2>3, UnnamedIsUnchanged
  <1>8. QED
    BY <1>6, <1>7

(* A publication never overwrites what was done to the same identity after *)
(* the revision its shell applied, for any number of shells and any limit  *)
(* of the retained history.                                                *)
THEOREM StaleOverwriteImpossible == Spec => NoStaleOverwrite
  <1>. DEFINE Safe == \A s \in Shells : Publishes(s) =>
                        \A i \in DOMAIN DiffSnapshot(shared, shared') :
                          ~ChangedBetween(i, shells[s].appliedRevision, head)
  <1>1. TypeInv /\ HistoryInv /\ [Next]_vars => Safe
    <2>. SUFFICES ASSUME TypeInv, HistoryInv, [Next]_vars, NEW s \in Shells, Publishes(s)
                  PROVE  \A i \in DOMAIN DiffSnapshot(shared, shared') :
                           ~ChangedBetween(i, shells[s].appliedRevision, head)
      OBVIOUS
    <2>1. head' # head
      BY DEF Publishes, TypeInv, HistoryTypes
    <2>2. PICK own \in Operations : events'[Len(events')].by = {<<s, own>>}
      BY DEF Publishes
    <2>3. ~Unauthored
      BY <2>1, <2>2 DEF Unauthored
    <2>4. PICK t \in Shells, op \in Operations, ack \in Nat, delta \in Changes :
            Publish(t, op, ack, delta)
      BY <2>3, StepAuthor
    <2>5. events'[Len(events')].by = {<<t, op>>}
      BY <2>1, <2>4, PublishNotStale
    <2>6. t = s
      <3>1. <<t, op>> = <<s, own>>
        BY <2>2, <2>5, Zenon
      <3>2. QED
        BY <3>1
    <2>7. QED
      BY <2>1, <2>4, <2>6, PublishNotStale
  <1>2. TypeInv /\ HistoryInv /\ [Next]_vars => [Safe]_vars
    BY <1>1
  <1>3. QED
    BY <1>2, Invariant, PTL DEF Spec, NoStaleOverwrite

-------------------------------------------------------------------------------
(* Worktree implements SharedLog: every handler is one step of the shared  *)
(* log the terminals see, or a step it does not see.                       *)

Views == [s \in Shells |-> AppliedRevision(s)]
Helds == [s \in Shells |-> AppliedBaseline(s)]

(* What a step does to the abstract log and clients.                       *)
SameLog == generations' = generations /\ events' = events
SameApplied(s) ==
  AppliedRevision(s)' = AppliedRevision(s) /\ AppliedBaseline(s)' = AppliedBaseline(s)
SameViews == \A s \in Shells : SameApplied(s)

(* The part of the invariants a step of the log depends on.                *)
Refinable == TypeInv /\ HistoryInv

-------------------------------------------------------------------------------
(* The mapping                                                             *)

(* The mapped clients are well typed, and what one holds is a generation.  *)
LEMMA ClientTypes ==
  ASSUME Refinable, NEW s \in Shells
  PROVE  /\ AppliedRevision(s) \in 0 .. head
         /\ AppliedBaseline(s) \in Snapshot
         /\ AppliedRevision(s) # 0 => AppliedBaseline(s) = generations[AppliedRevision(s)]
         /\ Len(generations) = head
  <1>1. head \in Nat /\ Len(generations) = head
    BY DEF Refinable, TypeInv, HistoryTypes, HistoryInv, LogInv
  <1>2. CASE shells[s] = NotAttached
    BY <1>1, <1>2, EmptyType DEF AppliedRevision, AppliedBaseline
  <1>3. CASE shells[s] # NotAttached
    <2>1. shells[s] \in ShellState /\ ShellHistory(shells[s], head, generations)
      BY <1>3 DEF Refinable, TypeInv, ShellTypes, HistoryInv, ShellsInv, Attached
    <2>2. QED
      BY <1>1, <1>3, <2>1 DEF ShellHistory, ShellState, AppliedRevision, AppliedBaseline
  <1>4. QED
    BY <1>2, <1>3

(* The mapped clients after a step.                                        *)
LEMMA ClientTypesNext ==
  ASSUME Refinable', NEW s \in Shells
  PROVE  /\ AppliedRevision(s)' \in 0 .. head'
         /\ AppliedBaseline(s)' \in Snapshot
         /\ AppliedRevision(s)' # 0 => AppliedBaseline(s)' = generations'[AppliedRevision(s)']
         /\ Len(generations') = head'
  <1>1. head' \in Nat /\ Len(generations') = head'
    BY DEF Refinable, TypeInv, HistoryTypes, HistoryInv, LogInv
  <1>2. CASE shells'[s] = NotAttached
    BY <1>1, <1>2, EmptyType DEF AppliedRevision, AppliedBaseline
  <1>3. CASE shells'[s] # NotAttached
    <2>1. shells'[s] \in ShellState /\ ShellHistory(shells'[s], head', generations')
      BY <1>3 DEF Refinable, TypeInv, ShellTypes, HistoryInv, ShellsInv, Attached
    <2>2. QED
      BY <1>1, <1>3, <2>1 DEF ShellHistory, ShellState, AppliedRevision, AppliedBaseline
  <1>4. QED
    BY <1>2, <1>3

(* A step that changes neither log nor clients is not seen.                *)
LEMMA Unseen ==
  ASSUME SameLog, SameViews
  PROVE  UNCHANGED Log!vars
  <1>1. Views' = Views /\ Helds' = Helds
    BY DEF SameViews, SameApplied, Views, Helds
  <1>2. LastAuthor' = LastAuthor
    BY DEF SameLog, LastAuthor
  <1>3. QED
    BY <1>1, <1>2 DEF SameLog, Log!vars, Views, Helds

(* A step that moves one client, to nothing or forward, is that client's.  *)
LEMMA OneClientMoves ==
  ASSUME Refinable, Refinable', SameLog, NEW s \in Shells,
         \A t \in Shells \ {s} : SameApplied(t),
         AppliedRevision(s)' = 0 \/ AppliedRevision(s) <= AppliedRevision(s)'
  PROVE  Log!Next
  <1>. DEFINE r == AppliedRevision(s)'
              held == AppliedBaseline(s)'
  <1>1. /\ AppliedRevision(s) \in Nat
        /\ r \in 0 .. head' /\ held \in Snapshot
        /\ r # 0 => held = generations[r]
        /\ Len(generations) = head'
    BY ClientTypes, ClientTypesNext DEF SameLog
  <1>2. Views' = [Views EXCEPT ![s] = r] /\ Helds' = [Helds EXCEPT ![s] = held]
    BY DEF SameApplied, Views, Helds
  <1>3. LastAuthor' = LastAuthor
    BY DEF SameLog, LastAuthor
  <1>4. CASE r = 0
    <2>1. Log!Lose(s)
      BY <1>1, <1>2, <1>3, <1>4 DEF SameLog, Log!Lose, Views, Helds
    <2>2. QED
      BY <2>1 DEF Log!Next
  <1>5. CASE r # 0
    <2>1. r \in Views[s] .. Len(generations)
      BY <1>1, <1>5 DEF Views
    <2>2. Log!Confirm(s)
      BY <1>1, <1>2, <1>3, <1>5, <2>1 DEF SameLog, Log!Confirm, Views, Helds
    <2>3. QED
      BY <2>2 DEF Log!Next
  <1>6. QED
    BY <1>4, <1>5

(* A step that replaces the generation in nobody's name.                   *)
LEMMA LogReplaced ==
  ASSUME SameViews, NEW next \in Snapshot, generations' = Append(generations, next),
         LastAuthor' = {}
  PROVE  Log!Next
  <1>1. Views' = Views /\ Helds' = Helds
    BY DEF SameViews, SameApplied, Views, Helds
  <1>2. Log!Replace
    BY <1>1 DEF Log!Replace, Views, Helds
  <1>3. QED
    BY <1>2 DEF Log!Next

-------------------------------------------------------------------------------
(* The requests of the terminals                                           *)

(* A request writes the record of its own shell only.                      *)
LEMMA OthersKeep ==
  ASSUME TypeInv, NEW s \in Shells, NEW record, shells' = [shells EXCEPT ![s] = record]
  PROVE  /\ shells'[s] = record
         /\ \A t \in Shells \ {s} : SameApplied(t)
  BY DEF TypeInv, ShellTypes, SameApplied, AppliedRevision, AppliedBaseline

(* A terminal attaches at the head, or with nothing.                       *)
LEMMA AttachStep ==
  ASSUME Refinable, Refinable', NEW s \in Shells, NEW op, NEW initial, Attach(s, op, initial)
  PROVE  Log!Next
  <1>1. SameLog /\ shells[s] = NotAttached
    BY DEF Attach, SameRevision, SameLog
  <1>2. PICK record : shells' = [shells EXCEPT ![s] = record]
    BY DEF Attach
  <1>3. \A t \in Shells \ {s} : SameApplied(t)
    BY <1>2, OthersKeep DEF Refinable
  <1>4. AppliedRevision(s) = 0
    BY <1>1 DEF AppliedRevision
  <1>5. AppliedRevision(s)' \in Nat
    BY ClientTypesNext
  <1>6. QED
    BY <1>1, <1>3, <1>4, <1>5, OneClientMoves

(* A prepared pull leaves the client where it is, or without a place.      *)
LEMMA PreparePullStep ==
  ASSUME Refinable, Refinable', NEW s \in Shells, NEW op, NEW applied, PreparePull(s, op, applied)
  PROVE  Log!Next
  <1>1. SameLog /\ shells[s] # NotAttached /\ shells[s] \in ShellState
    BY DEF PreparePull, SameRevision, SameLog, Attached, Refinable, TypeInv, ShellTypes
  <1>. DEFINE shell == IF applied # shells[s].appliedRevision
                       THEN [shells[s] EXCEPT !.attachState = "clean-reconcile",
                                              !.appliedRevision = 0,
                                              !.appliedBaseline = EmptySnapshot]
                       ELSE shells[s]
              pulled(pending) == [shell EXCEPT !.pending = pending, !.transition = "prepare",
                                               !.behind = TRUE]
  <1>2. PICK record : /\ shells' = [shells EXCEPT ![s] = record]
                      /\ record = shell \/ \E pending : record = pulled(pending)
    BY DEF PreparePull
  <1>3. shell.appliedRevision \in {0, shells[s].appliedRevision}
    BY <1>1 DEF ShellState
  <1>4. record.appliedRevision = shell.appliedRevision
    BY <1>1, <1>2 DEF ShellState
  <1>5. shells'[s] = record /\ \A t \in Shells \ {s} : SameApplied(t)
    BY <1>2, OthersKeep DEF Refinable
  <1>6. AppliedRevision(s)' \in {0, AppliedRevision(s)}
    BY <1>1, <1>3, <1>4, <1>5 DEF AppliedRevision
  <1>7. AppliedRevision(s) \in Nat
    BY ClientTypes
  <1>8. QED
    BY <1>1, <1>5, <1>6, <1>7, OneClientMoves

(* A resolution leaves every client where it is.                           *)
LEMMA ResolveSharedStep ==
  ASSUME Refinable, NEW s \in Shells, NEW op, NEW identity, NEW token, NEW snap,
         ResolveShared(s, op, identity, token, snap)
  PROVE  UNCHANGED Log!vars
  <1>1. SameLog /\ shells[s] # NotAttached /\ shells[s] \in ShellState
    BY DEF ResolveShared, SameRevision, SameLog, Attached, Refinable, TypeInv, ShellTypes
  <1>2. CASE shells' = shells
    BY <1>1, <1>2, Unseen DEF SameViews, SameApplied, AppliedRevision, AppliedBaseline
  <1>3. CASE shells' # shells
    <2>1. PICK pending : shells' = [shells EXCEPT ![s] =
            [shells[s] EXCEPT !.pending = pending, !.transition = "resolve", !.behind = TRUE]]
      BY <1>3 DEF ResolveShared
    <2>2. \A t \in Shells \ {s} : SameApplied(t)
      BY <2>1, OthersKeep DEF Refinable
    <2>3. /\ shells'[s].appliedRevision = shells[s].appliedRevision
          /\ shells'[s].appliedBaseline = shells[s].appliedBaseline
          /\ shells'[s].behind = TRUE
      BY <1>1, <2>1 DEF Refinable, TypeInv, ShellTypes, ShellState
    <2>4. shells'[s] # NotAttached
      <3>1. shells'[s] = [shells[s] EXCEPT !.pending = pending, !.transition = "resolve", !.behind = TRUE]
        BY <2>1 DEF Refinable, TypeInv, ShellTypes
      <3>2. DOMAIN shells'[s] = DOMAIN shells[s]
        BY <1>1, <3>1 DEF ShellState
      <3>3. "behind" \in DOMAIN shells[s] /\ "behind" \notin DOMAIN NotAttached
        BY <1>1 DEF ShellState, NotAttached
      <3>4. QED
        BY <3>2, <3>3
    <2>5. SameApplied(s)
      BY <1>1, <2>3, <2>4 DEF SameApplied, AppliedRevision, AppliedBaseline
    <2>6. QED
      BY <1>1, <2>2, <2>5, Unseen DEF SameViews
  <1>4. QED
    BY <1>2, <1>3

(* An acknowledgement moves its client forward to the revision it pulled.  *)
LEMMA AcknowledgeStep ==
  ASSUME Refinable, Refinable', NEW s \in Shells, NEW op, NEW revision, NEW token, NEW snap,
         Acknowledge(s, op, revision, token, snap)
  PROVE  Log!Next \/ UNCHANGED Log!vars
  <1>1. SameLog /\ shells[s] # NotAttached /\ shells[s] \in ShellState
    BY DEF Acknowledge, SameRevision, SameLog, Attached, Refinable, TypeInv, ShellTypes
  <1>. DEFINE record == Acknowledged(shells[s], AdmittedSnapshot(s, snap))
  <1>2. \/ shells' = shells
        \/ /\ shells[s].pending # NoPending
           /\ shells' = [shells EXCEPT ![s] = record]
    BY DEF Acknowledge
  <1>3. CASE shells' = shells
    BY <1>1, <1>3, Unseen DEF SameViews, SameApplied, AppliedRevision, AppliedBaseline
  <1>4. CASE shells[s].pending # NoPending /\ shells' = [shells EXCEPT ![s] = record]
    <2>1. record.appliedRevision = shells[s].pending.revision
      BY <1>1 DEF Acknowledged, ShellState
    <2>. HIDE DEF record
    <2>2. shells'[s] = record /\ \A t \in Shells \ {s} : SameApplied(t)
      BY <1>4, OthersKeep DEF Refinable
    <2>3. AppliedRevision(s)' = 0 \/ AppliedRevision(s)' = shells[s].pending.revision
      BY <2>1, <2>2 DEF AppliedRevision
    <2>4. shells[s].appliedRevision <= shells[s].pending.revision
      BY <1>1, <1>4 DEF Refinable, HistoryInv, ShellsInv, ShellHistory, Attached
    <2>5. AppliedRevision(s) = shells[s].appliedRevision
      BY <1>1 DEF AppliedRevision
    <2>6. QED
      BY <1>1, <2>2, <2>3, <2>4, <2>5, OneClientMoves
  <1>5. QED
    BY <1>2, <1>3, <1>4

(* A publication that makes a revision is its client's publication.        *)
LEMMA PublishStep ==
  ASSUME Refinable, Refinable', NEW s \in Shells, NEW op \in Operations, NEW ack \in Nat,
         NEW delta \in Changes, Publish(s, op, ack, delta)
  PROVE  Log!Next \/ UNCHANGED Log!vars
  <1>1. shells[s] # NotAttached /\ shells[s] \in ShellState
    BY DEF Publish, Attached, Refinable, TypeInv, ShellTypes
  <1>2. SameViews
    <2>1. PICK conflict, unpublished, transition, capture, behind :
            shells' = [shells EXCEPT ![s] =
              [shells[s] EXCEPT !.conflict = conflict, !.unpublished = unpublished,
                                !.transition = transition, !.captureBaseline = capture,
                                !.behind = behind]]
      BY DEF Publish
    <2>2. \A t \in Shells \ {s} : SameApplied(t)
      BY <2>1, OthersKeep DEF Refinable
    <2>3. /\ shells'[s].appliedRevision = shells[s].appliedRevision
          /\ shells'[s].appliedBaseline = shells[s].appliedBaseline
          /\ DOMAIN shells'[s] = DOMAIN shells[s]
      BY <1>1, <2>1 DEF Refinable, TypeInv, ShellTypes, ShellState
    <2>4. shells'[s] # NotAttached
      <3>1. "behind" \in DOMAIN shells[s] /\ "behind" \notin DOMAIN NotAttached
        BY <1>1 DEF ShellState, NotAttached
      <3>2. QED
        BY <2>3, <3>1
    <2>5. SameApplied(s)
      BY <1>1, <2>3, <2>4 DEF SameApplied, AppliedRevision, AppliedBaseline
    <2>6. QED
      BY <2>2, <2>5 DEF SameViews
  <1>. DEFINE observed == Observed(s, delta)
              accepted == Wanted(s, observed) \ Losing(ack, Wanted(s, observed))
              next == ApplyChanges(shared, Only(observed, accepted))
  <1>3. CASE accepted = {}
    BY <1>2, <1>3, Unseen DEF Publish, SameRevision, SameLog
  <1>4. CASE accepted # {}
    <2>1. head' = head + 1 /\ shared' = next /\ generations' = Append(generations, next)
      BY <1>4 DEF Publish, AppendRevision
    <2>2. shared \in Snapshot /\ next \in Snapshot /\ head \in Nat
      <3>1. HistoryTypes /\ HistoryTypes'
        BY DEF Refinable, TypeInv
      <3>2. QED
        BY <2>1, <3>1 DEF HistoryTypes
    <2>. HIDE DEF next
    <2>3. /\ events' # <<>> /\ events'[Len(events')].by = {<<s, op>>}
          /\ \A i \in DOMAIN DiffSnapshot(shared, shared') :
               ~ChangedBetween(i, shells[s].appliedRevision, head)
      BY <2>1, <2>2, PublishNotStale DEF Refinable
    <2>4. LastAuthor' = {s}
      <3>1. {pair[1] : pair \in {<<s, op>>}} = {s}
        OBVIOUS
      <3>2. QED
        BY <2>3, <3>1 DEF LastAuthor
    <2>5. Views[s] = shells[s].appliedRevision /\ Views[s] # 0 /\ head # 0
      <3>1. shells[s].appliedRevision # 0 /\ ShellHistory(shells[s], head, generations)
        BY <1>1 DEF Publish, Refinable, HistoryInv, ShellsInv, Attached
      <3>2. QED
        BY <1>1, <2>2, <3>1 DEF Views, AppliedRevision, ShellHistory, ShellState
    <2>6. Len(generations) = head /\ shared = generations[head]
      BY <2>5 DEF Refinable, HistoryInv, LogInv
    <2>7. ASSUME NEW i \in Identities
          PROVE  next[i] = generations[Len(generations)][i] \/ Log!Unchanged(i, Views[s])
      <3>1. CASE next[i] = shared[i]
        BY <2>6, <3>1
      <3>2. CASE next[i] # shared[i]
        <4>1. i \in DOMAIN DiffSnapshot(shared, shared')
          BY <2>1, <2>2, <3>2, DiffSnapshotType
        <4>2. ~ChangedBetween(i, Views[s], head)
          BY <2>3, <2>5, <4>1
        <4>3. QED
          BY <2>6, <4>2 DEF ChangedBetween, Log!Unchanged
      <3>3. QED
        BY <3>1, <3>2
    <2>8. Views' = Views /\ Helds' = Helds
      BY <1>2 DEF SameViews, SameApplied, Views, Helds
    <2>9. Log!Publish(s)
      BY <2>1, <2>2, <2>4, <2>5, <2>7, <2>8 DEF Log!Publish, Views, Helds
    <2>10. QED
      BY <2>9 DEF Log!Next
  <1>5. QED
    BY <1>3, <1>4

-------------------------------------------------------------------------------
(* The workflow                                                            *)

(* A checkout or reset replaces the generation, or is not seen.            *)
LEMMA ReplaceGenerationStep ==
  ASSUME Refinable, Refinable', NEW b \in Branches, NEW oid \in Nat, NEW document \in Document,
         ReplaceGeneration(b, oid, document)
  PROVE  Log!Next \/ UNCHANGED Log!vars
  <1>1. SameViews
    <2>. SUFFICES ASSUME NEW s \in Shells PROVE SameApplied(s)
      BY DEF SameViews
    <2>1. CASE s \notin Attached
      BY <2>1 DEF ReplaceGeneration, SameApplied, AppliedRevision, AppliedBaseline
    <2>2. CASE s \in Attached
      <3>1. shells[s] \in ShellState /\ shells[s] # NotAttached
        BY <2>2 DEF Refinable, TypeInv, ShellTypes, Attached
      <3>2. PICK flag : shells'[s] = [shells[s] EXCEPT !.behind = flag]
        BY <2>2 DEF ReplaceGeneration
      <3>3. /\ shells'[s].appliedRevision = shells[s].appliedRevision
            /\ shells'[s].appliedBaseline = shells[s].appliedBaseline
            /\ DOMAIN shells'[s] = DOMAIN shells[s]
        BY <3>1, <3>2 DEF ShellState
      <3>4. "behind" \in DOMAIN shells[s] /\ "behind" \notin DOMAIN NotAttached
        BY <3>1 DEF ShellState, NotAttached
      <3>5. shells'[s] # NotAttached
        BY <3>3, <3>4
      <3>6. QED
        BY <3>1, <3>3, <3>5 DEF SameApplied, AppliedRevision, AppliedBaseline
    <2>3. QED
      BY <2>1, <2>2
  <1>2. CASE document.projection = shared
    BY <1>1, <1>2, Unseen DEF ReplaceGeneration, SameRevision, SameLog
  <1>3. CASE document.projection # shared
    <2>1. /\ generations' = Append(generations, document.projection)
          /\ head' = head + 1
      BY <1>3 DEF ReplaceGeneration, AppendRevision
    <2>2. document.projection \in Snapshot
      BY DEF Document
    <2>3. Unauthored
      BY ReplaceGenerationUnauthored DEF Refinable
    <2>4. head' # head
      BY <2>1 DEF Refinable, TypeInv, HistoryTypes
    <2>5. LastAuthor' = {}
      BY <2>3, <2>4 DEF Unauthored, LastAuthor
    <2>6. QED
      BY <1>1, <2>1, <2>2, <2>5, LogReplaced
  <1>4. QED
    BY <1>2, <1>3

(* The first generation is added to an empty log.                          *)
LEMMA MaterializeStep ==
  ASSUME Refinable, Refinable', NEW oid, Materialize(oid)
  PROVE  Log!Next
  <1>1. SameViews
    BY DEF Materialize, SameViews, SameApplied, AppliedRevision, AppliedBaseline
  <1>2. shared' \in Snapshot /\ generations' = <<shared'>>
    BY DEF Materialize, Refinable, TypeInv, HistoryTypes
  <1>3. generations = <<>>
    BY DEF Materialize, Refinable, TypeInv, HistoryTypes, HistoryInv, LogInv, Started
  <1>4. generations' = Append(generations, shared')
    BY <1>2, <1>3
  <1>5. LastAuthor' = {}
    <2>1. PICK changes : events' = <<[revision |-> 1, by |-> {}, changes |-> changes]>>
      BY DEF Materialize
    <2>2. QED
      BY <2>1 DEF LastAuthor
  <1>6. QED
    BY <1>1, <1>2, <1>4, <1>5, LogReplaced

(* Commits, branches and repairs are not seen.                             *)
LEMMA WorkflowStep ==
  ASSUME Refinable, Refinable', Workflow
  PROVE  Log!Next \/ UNCHANGED Log!vars
  <1>1. CASE \E oid \in 1 .. MaxObjects : Materialize(oid)
    BY <1>1, MaterializeStep
  <1>2. CASE \/ Repair \/ Commit \/ CommitSplit
             \/ \E b \in Branches : Branch(b) \/ BranchSplit(b)
             \/ \E enabled \in AutoApplySettings : SetAutoApplyDefault(enabled)
    <2>1. SameLog /\ shells' = shells
      BY <1>2 DEF Repair, Commit, CommitSplit, Branch, BranchSplit, SetAutoApplyDefault, state,
                  SameRevision, SameLog
    <2>2. QED
      BY <2>1, Unseen DEF SameViews, SameApplied, AppliedRevision, AppliedBaseline
  <1>3. ASSUME NEW b \in Branches, NEW create \in BOOLEAN, Checkout(b, create)
        PROVE  Log!Next \/ UNCHANGED Log!vars
    <2>1. RepositoryTypes' /\ objects' = objects
      BY <1>3, CreateFromType DEF Checkout, Refinable, TypeInv, RepositoryTypes
    <2>2. refs'[b] \in DOMAIN objects
      BY <1>3, <2>1 DEF Checkout, NoOID, RepositoryTypes
    <2>3. refs'[b] \in Nat /\ objects[refs'[b]].document \in Document
      BY <2>2, ObjectType DEF Refinable, TypeInv
    <2>4. QED
      BY <1>3, <2>1, <2>3, ReplaceGenerationStep DEF Checkout
  <1>4. CASE ResetHard
    <2>1. baseOID \in DOMAIN objects /\ branch \in Branches
      BY <1>4 DEF ResetHard, Refinable, TypeInv, BaseExists, BaseTypes
    <2>2. baseOID \in Nat /\ objects[baseOID].document \in Document
      BY <2>1, ObjectType DEF Refinable, TypeInv
    <2>3. QED
      BY <1>4, <2>1, <2>2, ReplaceGenerationStep DEF ResetHard
  <1>5. QED
    BY <1>1, <1>2, <1>3, <1>4 DEF Workflow

-------------------------------------------------------------------------------
(* Every step of the service is a step of the log or is not seen.          *)
LEMMA LogNext ==
  ASSUME Refinable, Refinable', [Next]_vars
  PROVE  Log!Next \/ UNCHANGED Log!vars
  <1>1. CASE UNCHANGED state
    <2>1. SameLog /\ shells' = shells
      BY <1>1 DEF state, SameLog
    <2>2. QED
      BY <2>1, Unseen DEF SameViews, SameApplied, AppliedRevision, AppliedBaseline
  <1>2. ASSUME NEW s \in Shells, Sync(s) PROVE Log!Next \/ UNCHANGED Log!vars
    BY <1>2, SyncCases, AttachStep, PublishStep, PreparePullStep, ResolveSharedStep,
       AcknowledgeStep DEF Refinable
  <1>3. CASE Workflow
    BY <1>3, WorkflowStep
  <1>4. QED
    BY <1>1, <1>2, <1>3 DEF Next, Ingest, vars

(* The service starts with an empty log and no client.                     *)
LEMMA LogInit == Init => Log!Init
  <1>. SUFFICES ASSUME Init PROVE Log!Init
    OBVIOUS
  <1>1. \A s \in Shells : AppliedRevision(s) = 0 /\ AppliedBaseline(s) = EmptySnapshot
    BY DEF Init, AppliedRevision, AppliedBaseline
  <1>2. LastAuthor = {} /\ generations = <<>>
    BY DEF Init, LastAuthor
  <1>3. Views = [s \in Shells |-> 0] /\ Helds \in [Shells -> Snapshot]
    BY <1>1, EmptyType DEF Views, Helds
  <1>4. QED
    BY <1>2, <1>3 DEF Log!Init, Views, Helds

(* The terminals see a shared log: receipts, prepared pulls, conflicts,    *)
(* compaction and git are not part of what they can tell apart.            *)
THEOREM ServiceImplementsLog == Spec => ImplementsSharedLog
  <1>1. Refinable /\ Refinable' /\ [Next]_vars => [Log!Next]_(Log!vars)
    BY LogNext
  <1>2. Spec => []Refinable
    BY Invariant DEF Refinable
  <1>3. QED
    BY <1>1, <1>2, LogInit, PTL DEF Spec, ImplementsSharedLog, Log!Spec

===============================================================================
