------------------------------- MODULE Worktree -------------------------------
(***************************************************************************)
(* The shared worktree service of core/worktree (service.go, state.go,     *)
(* registry.go, diff.go) together with the git profile store it commits to *)
(* (core/store/store.go).                                                  *)
(*                                                                         *)
(* Several terminals attach to one canonical generation, publish their     *)
(* local changes into it and pull it back by prepare / apply / acknowledge;*)
(* commit, branch, checkout and reset move that generation through git.    *)
(* Every handler runs inside StateStore.WithTransaction: under one lock,   *)
(* and an error leaves the canonical state as it was.  So each handler is  *)
(* ONE action; a request it answers with an error, or whose receipt it     *)
(* finds, changes nothing and is a stuttering step.  The exceptions are    *)
(* the handlers that move a git ref before the state is written: the       *)
(* write may fail, and the ...Split actions are those outcomes.            *)
(*                                                                         *)
(* Data.  A snapshot maps every identity to its value or to Absent; a list *)
(* of changes is a function on the identities it changes; a fingerprint is *)
(* the snapshot it digests.  Capability verifiers, the value-free lists of *)
(* exclusions and the fields nothing reads back (attached and last-active  *)
(* revisions, operation ids of events) are left out.                       *)
(***************************************************************************)
EXTENDS Naturals, Sequences, FiniteSets

CONSTANTS
  Shells,             \* shell ids that may attach
  Identities,         \* exact live identities (kind and name)
  Values,             \* live values
  Absent,             \* the value of an identity that is not present
  Unsafe,             \* identities the live-secret policy and the reserved names exclude
  Branches, Main,     \* local branches, and the one ingest publishes to
  Profiles,           \* source profiles that ingest may commit
  Operations,         \* operation ids
  AutoApplySettings,  \* auto-apply defaults the user sets (a subset of BOOLEAN)
  MaxStateEvents,     \* events retained before compaction (128)
  MaxReceipts,        \* receipts retained per shell (64)
  MaxShellRecords,    \* attached shells (128)
  MaxRevision,        \* last revision NextRevision can issue (2^64 - 2)
  MaxObjects          \* bound of the exploration: commits in the repository

NoOID == 0                                      \* a ref that does not exist
Snapshot == [Identities -> Values \union {Absent}]
EmptySnapshot == [i \in Identities |-> Absent]
Present(snap) == {i \in Identities : snap[i] # Absent}

(* What Registry.Seed and activate.Build make of a source profile: the     *)
(* values its manifest declares, the identities it owns, and those of them *)
(* that stand for a stored secret.                                         *)
Profile == [base : Snapshot, owned : SUBSET Identities, pinned : SUBSET Identities]

ASSUME ConstantsAssumption ==
  /\ Absent \notin Values
  /\ Unsafe \subseteq Identities
  /\ Main \in Branches
  /\ AutoApplySettings \subseteq BOOLEAN
  /\ \A p \in Profiles : p \in Profile /\ p.pinned \subseteq p.owned
  /\ MaxStateEvents \in Nat \ {0}
  /\ {MaxReceipts, MaxShellRecords, MaxRevision, MaxObjects} \subseteq Nat

VARIABLES
  materialized,       \* State.Materialized
  branch, baseOID,    \* State.Branch, State.BaseOID
  committed,          \* State.Committed: the document of baseOID
  head,               \* State.HeadRevision
  admitted,           \* State.AdmittedIdentities
  shared,             \* State.Shared: the effective shared generation
  floor, baseline,    \* State.CompactionFloor, State.CompactionBaseline
  events,             \* State.Events: revisions floor+1 .. head
  shells,             \* State.Shells
  receipts,           \* State.OperationReceipts, by shell
  autoApply,          \* State.AutoApplyDefault
  refs, objects,      \* the repository: branch heads, commits (an OID is an index)
  generations         \* history: the shared generation of every revision

state == <<materialized, branch, baseOID, committed, head, admitted, shared,
           floor, baseline, events, shells, receipts, autoApply, generations>>
vars == <<state, refs, objects>>

-------------------------------------------------------------------------------
(* Snapshots and changes: diff.go, state.go                                *)

DiffSnapshot(before, after) ==
  [i \in {j \in Identities : before[j] # after[j]} |-> after[i]]

ApplyChanges(snap, changes) ==
  [i \in Identities |-> IF i \in DOMAIN changes THEN changes[i] ELSE snap[i]]

Only(changes, ids) == [i \in DOMAIN changes \intersect ids |-> changes[i]]

NoChanges == [i \in {} |-> Absent]
Changes == UNION {[ids -> Values \union {Absent}] : ids \in SUBSET Identities}

(* activate.BuildEffective: the projection lays the overlay over the       *)
(* values of the SOURCE profile, which it keeps as it is.                  *)
BuildEffective(source, overlay) ==
  [source |-> source, projection |-> ApplyChanges(source.base, overlay)]

(* The document ingest commits: no overlay, no value of a pinned secret.   *)
IngestDocument(profile) ==
  LET document == BuildEffective(profile, NoChanges)
  IN  [document EXCEPT !.projection =
         [i \in Identities |-> IF i \in profile.pinned THEN Absent ELSE @[i]]]

-------------------------------------------------------------------------------
(* Records                                                                 *)

NotAttached == [attachState |-> "none"]
NoPending == [kind |-> "none"]
NoConflict == [kind |-> "none"]

Attached == {s \in Shells : shells[s] # NotAttached}

NewToken(prefix, op, revision) ==
  [prefix |-> prefix, op |-> op, revision |-> revision]

-------------------------------------------------------------------------------
(* The registry, reseeded from the committed source in every handler:      *)
(* registry.go                                                             *)

(* Mutation: pinned secrets are not excluded.                              *)
ExcludedUnpinned(source) == Unsafe
Excluded(source) == Unsafe \union source.pinned
SeedSafe(source, ids) == ids \intersect Excluded(source) = {}
AllowsLiveValue(i) ==
  i \in (committed.source.owned \union admitted) \ Excluded(committed.source)
Admit(s, i) ==
  /\ i \notin Excluded(committed.source)
  /\ i \notin shells[s].presentAtAttach
Live(s, i) == AllowsLiveValue(i) \/ Admit(s, i)
Admissions(s, ids) == {i \in ids : ~AllowsLiveValue(i) /\ Admit(s, i)}

(* admittedSnapshot: what of a terminal's snapshot the service may see.    *)
AdmittedSnapshot(s, snap) ==
  [i \in Identities |-> IF Live(s, i) THEN snap[i] ELSE Absent]

-------------------------------------------------------------------------------
(* History and receipts: state.go, service.go                              *)

(* The generation an event log describes, laid over its baseline.          *)
Replay(from, log) ==
  [i \in Identities |->
     LET touching == {k \in DOMAIN log : i \in DOMAIN log[k].changes}
     IN  IF touching = {} THEN from[i]
         ELSE LET last == CHOOSE k \in touching : \A j \in touching : j <= k
              IN  log[last].changes[i]]

(* Mutation: compaction drops the oldest event without folding it.         *)
AppendRevisionUnfolded(by, changes, next) ==
  LET log == Append(events, [revision |-> head + 1, by |-> by, changes |-> changes])
      full == Len(log) > MaxStateEvents
  IN  /\ head < MaxRevision
      /\ head' = head + 1
      /\ shared' = next
      /\ generations' = Append(generations, next)
      /\ events' = IF full THEN Tail(log) ELSE log
      /\ floor' = IF full THEN floor + 1 ELSE floor
      /\ UNCHANGED baseline

(* One new revision: the event is appended, then CompactStateHistory folds *)
(* the oldest event into the baseline when the log is too long.  "by" has  *)
(* the publishing shell and operation; checkout and reset leave it empty.  *)
AppendRevision(by, changes, next) ==
  LET log == Append(events, [revision |-> head + 1, by |-> by, changes |-> changes])
  IN  /\ head < MaxRevision
      /\ head' = head + 1
      /\ shared' = next
      /\ generations' = Append(generations, next)
      /\ IF Len(log) > MaxStateEvents
         THEN /\ events' = Tail(log)
              /\ baseline' = ApplyChanges(baseline, Head(log).changes)
              /\ floor' = Head(log).revision
         ELSE /\ events' = log
              /\ UNCHANGED <<baseline, floor>>

SameRevision == UNCHANGED <<head, shared, floor, baseline, events, generations>>

(* Mutation: off by one.                                                   *)
ChangedIdentitiesAfterNext(revision) ==
  UNION {DOMAIN events[k].changes : k \in {j \in DOMAIN events : events[j].revision > revision + 1}}

ChangedIdentitiesAfter(revision) ==
  UNION {DOMAIN events[k].changes : k \in {j \in DOMAIN events : events[j].revision > revision}}

(* Mutation: only the latest receipt is looked at.                         *)
ReceiptFoundLast(s, op) ==
  receipts[s] # <<>> /\ receipts[s][Len(receipts[s])].op = op
ReceiptFound(s, op) == \E k \in DOMAIN receipts[s] : receipts[s][k].op = op
ReceiptMatches(s, op, kind, request) ==
  \E k \in DOMAIN receipts[s] :
    /\ receipts[s][k].op = op
    /\ receipts[s][k].kind = kind
    /\ receipts[s][k].request = request

(* Mutation: the new receipt replaces the others.                          *)
AppendReceiptAlone(s, op, kind, request, result) ==
  receipts' = [receipts EXCEPT ![s] =
    <<[op |-> op, kind |-> kind, request |-> request, result |-> result]>>]
AppendReceipt(s, op, kind, request, result) ==
  LET log == Append(receipts[s], [op |-> op, kind |-> kind, request |-> request, result |-> result])
  IN  receipts' = [receipts EXCEPT ![s] = IF Len(log) > MaxReceipts THEN Tail(log) ELSE log]

-------------------------------------------------------------------------------
(* What the terminals ask: attach, publish, pull, resolve, acknowledge     *)

syncUnchanged == UNCHANGED <<materialized, branch, baseOID, committed, autoApply, refs, objects>>
Seeded == SeedSafe(committed.source, admitted)

(* A terminal whose owned values already are the shared ones starts at the *)
(* head; any other starts with nothing applied and has to reconcile.       *)
Attach(s, op, initial) ==
  LET capture == [i \in Identities |-> IF AllowsLiveValue(i) THEN initial[i] ELSE Absent]
      atHead == capture = shared
  IN  /\ materialized
      /\ shells[s] = NotAttached
      /\ Cardinality(Attached) < MaxShellRecords
      /\ Seeded
      /\ shells' = [shells EXCEPT ![s] =
           [attachState |-> IF atHead THEN "at-head" ELSE "clean-reconcile",
            appliedRevision |-> IF atHead THEN head ELSE 0,
            appliedBaseline |-> IF atHead THEN shared ELSE EmptySnapshot,
            captureBaseline |-> capture,
            presentAtAttach |-> Present(initial),
            transition |-> "attach",
            pending |-> NoPending,
            conflict |-> NoConflict,
            unpublished |-> NoChanges,
            behind |-> ~atHead]]
      /\ AppendReceipt(s, op, "attach", initial, head)
      /\ UNCHANGED admitted
      /\ SameRevision
      /\ syncUnchanged

(* What the shell holds once the identities of a delta that the registry   *)
(* admits are laid over its capture baseline; of that, what is a change    *)
(* the shared generation does not have; of that, what loses because        *)
(* another revision after the acknowledged one changed the identity, or    *)
(* because the history that would tell is compacted away.                  *)
Observed(s, delta) ==
  ApplyChanges(shells[s].captureBaseline, Only(delta, {i \in Identities : Live(s, i)}))
(* Mutation: a removal is not wanted.                                      *)
WantedPresent(s, observed) ==
  {i \in DOMAIN DiffSnapshot(shells[s].captureBaseline, observed) :
     observed[i] # shared[i] /\ observed[i] # Absent}
Wanted(s, observed) ==
  {i \in DOMAIN DiffSnapshot(shells[s].captureBaseline, observed) : observed[i] # shared[i]}
Losing(ack, wanted) ==
  IF ack < floor THEN wanted ELSE wanted \intersect ChangedIdentitiesAfter(ack)

(* The winning changes are one new revision; the losing ones stay with the *)
(* shell as its unpublished delta, in conflict.                            *)
Publish(s, op, ack, delta) ==
  LET shell == shells[s]
      observed == Observed(s, delta)
      wanted == Wanted(s, observed)
      losing == Losing(ack, wanted)
      accepted == wanted \ losing
      conflict == IF losing = {} THEN NoConflict
                  ELSE [kind |-> IF ack < floor THEN "history-gap" ELSE "overlap",
                        identity |-> CHOOSE i \in losing : TRUE,
                        baseRevision |-> ack,
                        sharedRevision |-> head',
                        token |-> NewToken("conflict", op, head')]
  IN  /\ s \in Attached
      /\ ~ReceiptFound(s, op)
      /\ shell.pending = NoPending /\ shell.appliedRevision = ack /\ ack # 0
      /\ shell.conflict = NoConflict /\ shell.unpublished = NoChanges
      /\ Seeded
      /\ admitted' = admitted \union Admissions(s, DOMAIN delta)
      /\ IF accepted = {} THEN SameRevision
         ELSE AppendRevision({<<s, op>>}, Only(observed, accepted),
                             ApplyChanges(shared, Only(observed, accepted)))
      /\ shells' = [shells EXCEPT ![s] =
           [shell EXCEPT !.conflict = conflict,
                         !.unpublished = Only(observed, losing),
                         !.transition = IF losing = {} THEN "publish" ELSE "unpublished",
                         !.captureBaseline = observed,
                         !.behind = ack < head' \/ losing # {}]]
      /\ AppendReceipt(s, op, "publish", [ack |-> ack, delta |-> delta],
                       [revision |-> head', accepted |-> accepted, conflict |-> conflict])
      /\ syncUnchanged

(* The shared generation becomes the target the terminal must reach, as a  *)
(* change list from what the service believes it holds.  A terminal that   *)
(* names another applied revision has lost its place and reconciles.       *)
PreparePull(s, op, applied) ==
  LET lost == applied # shells[s].appliedRevision
      shell == IF lost
               THEN [shells[s] EXCEPT !.attachState = "clean-reconcile",
                                      !.appliedRevision = 0,
                                      !.appliedBaseline = EmptySnapshot]
               ELSE shells[s]
      changes == DiffSnapshot(shell.captureBaseline, shared)
      atHead == changes = NoChanges /\ applied = head /\ shell.appliedRevision = head
      pending == [kind |-> "pull", revision |-> head, fingerprint |-> shared,
                  token |-> NewToken("pull", op, head)]
  IN  /\ s \in Attached
      /\ ~ReceiptFound(s, op)
      /\ shell.conflict = NoConflict /\ shell.unpublished = NoChanges
      /\ shell.pending = NoPending
      /\ shells' = [shells EXCEPT ![s] =
           IF atHead THEN shell
           ELSE [shell EXCEPT !.pending = pending, !.transition = "prepare", !.behind = TRUE]]
      /\ AppendReceipt(s, op, "prepare", applied,
                       IF atHead THEN NoPending ELSE [pending |-> pending, changes |-> changes])
      /\ UNCHANGED admitted
      /\ SameRevision
      /\ syncUnchanged

(* The terminal gives up its side of the conflict it names: the shared     *)
(* generation becomes its target, its delta is kept until acknowledged.    *)
ResolveShared(s, op, identity, token, snap) ==
  LET shell == shells[s]
      observed == AdmittedSnapshot(s, snap)
      request == [identity |-> identity, token |-> token, observed |-> observed]
      pending == [kind |-> "resolution", revision |-> head, fingerprint |-> shared, token |-> token]
  IN  /\ s \in Attached
      /\ Seeded
      /\ admitted' = admitted \union Admissions(s, Present(snap))
      /\ \/ /\ ReceiptMatches(s, op, "resolve", request)
            /\ UNCHANGED <<shells, receipts>>
         \/ /\ ~ReceiptFound(s, op)
            /\ shell.conflict # NoConflict
            /\ shell.conflict.identity = identity /\ shell.conflict.token = token
            /\ identity \in DOMAIN shell.unpublished
            /\ shell.pending = NoPending
            /\ observed = shell.captureBaseline
            /\ shells' = [shells EXCEPT ![s] =
                 [shell EXCEPT !.pending = pending, !.transition = "resolve", !.behind = TRUE]]
            /\ AppendReceipt(s, op, "resolve", request,
                             [pending |-> pending, changes |-> DiffSnapshot(observed, shared)])
      /\ SameRevision
      /\ syncUnchanged

(* Mutation: the shell is put at the head instead of its target.           *)
AcknowledgedHead(shell, observed) ==
  [shell EXCEPT !.attachState = "at-head",
                !.appliedRevision = head,
                !.appliedBaseline = observed,
                !.captureBaseline = observed,
                !.conflict = NoConflict,
                !.unpublished = NoChanges,
                !.pending = NoPending,
                !.transition = "acknowledge",
                !.behind = FALSE]

(* The shell once its target is confirmed: at the target's revision, which *)
(* need not be the head any more; a resolution ends the conflict.          *)
Acknowledged(shell, observed) ==
  LET resolves == shell.pending.kind = "resolution"
      conflict == IF resolves THEN NoConflict ELSE shell.conflict
  IN  [shell EXCEPT !.attachState = "at-head",
                    !.appliedRevision = shell.pending.revision,
                    !.appliedBaseline = observed,
                    !.captureBaseline = observed,
                    !.conflict = conflict,
                    !.unpublished = IF resolves THEN NoChanges ELSE shell.unpublished,
                    !.pending = NoPending,
                    !.transition = "acknowledge",
                    !.behind = shell.pending.revision < head \/ conflict # NoConflict]

(* The terminal applied the pending changes and captured itself afresh: it *)
(* is confirmed when the capture is exactly the target.                    *)
Acknowledge(s, op, revision, token, snap) ==
  LET shell == shells[s]
      pending == shell.pending
      observed == AdmittedSnapshot(s, snap)
      request == [revision |-> revision, token |-> token, observed |-> observed]
  IN  /\ s \in Attached
      /\ Seeded
      /\ admitted' = admitted \union Admissions(s, Present(snap))
      /\ \/ /\ ReceiptMatches(s, op, "acknowledge", request)
            /\ UNCHANGED <<shells, receipts>>
         \/ /\ ~ReceiptFound(s, op)
            /\ pending # NoPending
            /\ pending.revision = revision /\ pending.token = token
            /\ pending.kind = "resolution" =>
                 shell.conflict # NoConflict /\ shell.conflict.token = token
            /\ observed = pending.fingerprint
            /\ shells' = [shells EXCEPT ![s] = Acknowledged(shell, observed)]
            /\ AppendReceipt(s, op, "acknowledge", request, revision)
      /\ SameRevision
      /\ syncUnchanged

-------------------------------------------------------------------------------
(* The repository: store.go                                                *)

(* Mutation: the ref moves to a commit that was not written.               *)
StoreCommitUnwritten(b, oid, commit) ==
  /\ oid = Len(objects) + 1 /\ oid <= MaxObjects
  /\ refs' = [refs EXCEPT ![b] = oid]
  /\ UNCHANGED objects

(* A commit object is named by its content: one that exists with the same  *)
(* parent and document (and message) is found again, else it is new.       *)
StoreCommit(b, oid, commit) ==
  /\ \/ oid \in DOMAIN objects /\ objects[oid] = commit /\ UNCHANGED objects
     \/ oid = Len(objects) + 1 /\ oid <= MaxObjects /\ objects' = Append(objects, commit)
  /\ refs' = [refs EXCEPT ![b] = oid]

(* Ingest publishes a profile to Main by a CAS on the head it started from.*)
(* It does not hold the worktree lock and changes no worktree state.       *)
Ingest(profile) ==
  LET document == IngestDocument(profile)
  IN  /\ refs[Main] # NoOID => objects[refs[Main]].document # document
      /\ \E oid \in 1 .. MaxObjects :
           StoreCommit(Main, oid, [parent |-> refs[Main], document |-> document])
      /\ UNCHANGED state

-------------------------------------------------------------------------------
(* The git-like workflow                                                   *)

(* The first generation.  ensureMaterialized passes Main's head, install   *)
(* and ingest the commit they published, which Main may have left since.   *)
Materialize(oid) ==
  LET document == objects[oid].document
  IN  /\ ~materialized
      /\ oid \in DOMAIN objects
      /\ materialized' = TRUE
      /\ branch' = Main
      /\ baseOID' = oid
      /\ committed' = document
      /\ head' = 1
      /\ admitted' = {}
      /\ shared' = document.projection
      /\ floor' = 0
      /\ baseline' = EmptySnapshot
      /\ events' = <<[revision |-> 1, by |-> {},
                     changes |-> DiffSnapshot(EmptySnapshot, document.projection)]>>
      /\ autoApply' = TRUE
      /\ generations' = <<document.projection>>
      /\ UNCHANGED <<shells, receipts, refs, objects>>

(* Mutations: a moved ref is adopted without looking at its secrets;       *)
(* without looking at its projection.                                      *)
RepairUnseeded ==
  LET oid == refs[branch]
  IN  /\ oid # NoOID
      /\ oid # baseOID => objects[oid].document.projection = shared
RepairAny ==
  LET oid == refs[branch]
  IN  /\ oid # NoOID
      /\ oid # baseOID => SeedSafe(objects[oid].document.source, admitted)

(* repairPublishedState: a ref that moved away from the base is adopted    *)
(* only when its commit projects exactly the shared generation.            *)
RepairPossible ==
  LET oid == refs[branch]
  IN  /\ oid # NoOID
      /\ oid # baseOID =>
           /\ objects[oid].document.projection = shared
           /\ SeedSafe(objects[oid].document.source, admitted)

(* Mutation: the base moves, the committed document does not.              *)
RepairedBase ==
  /\ baseOID' = refs[branch]
  /\ UNCHANGED committed
RepairedState ==
  /\ baseOID' = refs[branch]
  /\ committed' = IF refs[branch] = baseOID THEN committed ELSE objects[refs[branch]].document

(* Status, diff and branches repair before they read.                      *)
Repair ==
  /\ materialized
  /\ RepairPossible
  /\ refs[branch] # baseOID
  /\ RepairedState
  /\ UNCHANGED <<materialized, branch, admitted, shells, receipts, autoApply, refs, objects>>
  /\ SameRevision

(* Everything dirty becomes one commit by CAS of the branch head against   *)
(* BaseOID; the state then follows the commit that was read back.          *)
CommitDocument ==
  BuildEffective(committed.source, DiffSnapshot(committed.projection, shared))

(* Mutation: no compare before the swap of the branch head.                *)
CommitRefUnguarded(oid) ==
  /\ materialized
  /\ shared # committed.projection
  /\ CommitDocument.projection = shared
  /\ StoreCommit(branch, oid, [parent |-> baseOID, document |-> CommitDocument])

CommitRef(oid) ==
  /\ materialized
  /\ shared # committed.projection
  /\ CommitDocument.projection = shared
  /\ refs[branch] = baseOID
  /\ StoreCommit(branch, oid, [parent |-> baseOID, document |-> CommitDocument])

Commit ==
  /\ \E oid \in 1 .. MaxObjects : CommitRef(oid) /\ baseOID' = oid
  /\ committed' = CommitDocument
  /\ UNCHANGED <<materialized, branch, admitted, shells, receipts, autoApply>>
  /\ SameRevision

CommitSplit ==
  /\ \E oid \in 1 .. MaxObjects : CommitRef(oid)
  /\ UNCHANGED state

(* store.CreateFrom the base; a branch that exists is an error.            *)
CreateFrom(b) ==
  /\ refs[b] = NoOID
  /\ refs' = [refs EXCEPT ![b] = refs[branch]]
  /\ UNCHANGED objects

Branch(b) ==
  /\ materialized
  /\ RepairPossible
  /\ CreateFrom(b)
  /\ RepairedState
  /\ UNCHANGED <<materialized, branch, admitted, shells, receipts, autoApply>>
  /\ SameRevision

(* branch, or checkout -b, whose state was not written after the ref was.  *)
BranchSplit(b) ==
  /\ materialized
  /\ RepairPossible
  /\ CreateFrom(b)
  /\ UNCHANGED state

(* replaceWorkflowGeneration: the document replaces the shared generation  *)
(* as one more revision; the shells keep what they hold and fall behind.   *)
ReplaceGeneration(b, oid, document) ==
  /\ SeedSafe(document.source, admitted)
  /\ branch' = b
  /\ baseOID' = oid
  /\ committed' = document
  /\ IF document.projection = shared THEN SameRevision
     ELSE AppendRevision({}, DiffSnapshot(shared, document.projection), document.projection)
  /\ shells' = [s \in Shells |->
       IF s \notin Attached THEN shells[s]
       ELSE [shells[s] EXCEPT !.behind = \/ shells[s].appliedRevision < head'
                                         \/ shells[s].appliedBaseline # document.projection
                                         \/ shells[s].conflict # NoConflict]]
  /\ UNCHANGED <<materialized, admitted, receipts, autoApply>>

(* Mutation: a dirty worktree may be left behind.                          *)
CheckoutDirty ==
  /\ materialized
  /\ \A s \in Attached : shells[s].conflict = NoConflict /\ shells[s].pending = NoPending
  /\ RepairPossible

(* Nothing uncommitted, unpublished or half pulled may be left behind.     *)
CheckoutAllowed ==
  /\ materialized
  /\ shared = committed.projection
  /\ \A s \in Attached :
       /\ shells[s].conflict = NoConflict
       /\ shells[s].unpublished = NoChanges
       /\ shells[s].pending = NoPending
  /\ RepairPossible

Checkout(b, create) ==
  /\ CheckoutAllowed
  /\ IF create THEN CreateFrom(b) ELSE UNCHANGED <<refs, objects>>
  /\ refs'[b] # NoOID
  /\ ReplaceGeneration(b, refs'[b], objects[refs'[b]].document)

(* The base is read by its OID: the branch head is not looked at.          *)
ResetHard ==
  /\ materialized
  /\ ReplaceGeneration(branch, baseOID, objects[baseOID].document)
  /\ UNCHANGED <<refs, objects>>

SetAutoApplyDefault(enabled) ==
  /\ materialized
  /\ autoApply' = enabled
  /\ UNCHANGED <<materialized, branch, baseOID, committed, admitted, shells, receipts, refs, objects>>
  /\ SameRevision

(* Mutation: the stored flag is reported.                                  *)
StatusBehindFlag(s) == shells[s].behind
(* What status reports of a terminal: more than the flag of its record.    *)
StatusBehind(s) ==
  \/ shells[s].behind
  \/ shells[s].conflict # NoConflict
  \/ shells[s].appliedRevision < head
  \/ shells[s].appliedBaseline # shared

-------------------------------------------------------------------------------
Init ==
  /\ materialized = FALSE
  /\ branch = Main
  /\ baseOID = NoOID
  /\ committed = [source |-> [base |-> EmptySnapshot, owned |-> {}, pinned |-> {}],
                  projection |-> EmptySnapshot]
  /\ head = 0
  /\ admitted = {}
  /\ shared = EmptySnapshot
  /\ floor = 0
  /\ baseline = EmptySnapshot
  /\ events = <<>>
  /\ shells = [s \in Shells |-> NotAttached]
  /\ receipts = [s \in Shells |-> <<>>]
  /\ autoApply = FALSE
  /\ refs = [b \in Branches |-> NoOID]
  /\ objects = <<>>
  /\ generations = <<>>

(* A request that names a revision, token or conflict other than the one   *)
(* the shell record holds is refused, unless its receipt is found: only    *)
(* requests for what is held now, and repeated ones, are enumerated.       *)
Repeated(s, kind) ==
  {receipts[s][k].request : k \in {j \in DOMAIN receipts[s] : receipts[s][j].kind = kind}}
ConflictsHeld(s) == ({shells[s].conflict} \ {NoConflict}) \union Repeated(s, "resolve")
PendingsHeld(s) == ({shells[s].pending} \ {NoPending}) \union Repeated(s, "acknowledge")

Sync(s) == \E op \in Operations :
  \/ \E initial \in Snapshot : Attach(s, op, initial)
  \/ \E delta \in Changes, ack \in 1 .. head : Publish(s, op, ack, delta)
  \/ \E applied \in 0 .. head : PreparePull(s, op, applied)
  \/ /\ s \in Attached
     /\ \E c \in ConflictsHeld(s), snap \in Snapshot :
          ResolveShared(s, op, c.identity, c.token, snap)
  \/ /\ s \in Attached
     /\ \E p \in PendingsHeld(s), snap \in Snapshot :
          Acknowledge(s, op, p.revision, p.token, snap)

Workflow ==
  \/ \E oid \in 1 .. MaxObjects : Materialize(oid)
  \/ Repair
  \/ Commit
  \/ CommitSplit
  \/ \E b \in Branches : Branch(b) \/ BranchSplit(b)
  \/ \E b \in Branches, create \in BOOLEAN : Checkout(b, create)
  \/ ResetHard
  \/ \E enabled \in AutoApplySettings : SetAutoApplyDefault(enabled)

Next ==
  \/ \E s \in Shells : Sync(s)
  \/ Workflow
  \/ \E profile \in Profiles : Ingest(profile)

Spec == Init /\ [][Next]_vars

-------------------------------------------------------------------------------
(* Properties                                                              *)

Token == [prefix : {"pull", "conflict"}, op : Operations, revision : Nat]
Document == [source : Profile, projection : Snapshot]
Commits == [parent : Nat, document : Document]
Event == [revision : Nat, by : SUBSET (Shells \X Operations), changes : Changes]
Pending ==
  {NoPending} \union
  [kind : {"pull", "resolution"}, revision : Nat, fingerprint : Snapshot, token : Token]
Conflict ==
  {NoConflict} \union
  [kind : {"overlap", "history-gap"}, identity : Identities, baseRevision : Nat,
   sharedRevision : Nat, token : Token]
(* A request and its result are of the kind the receipt names.             *)
Request ==
  Snapshot \union Nat \union [ack : Nat, delta : Changes]
  \union [identity : Identities, token : Token, observed : Snapshot]
  \union [revision : Nat, token : Token, observed : Snapshot]
Result ==
  Nat \union {NoPending} \union [pending : Pending, changes : Changes]
  \union [revision : Nat, accepted : SUBSET Identities, conflict : Conflict]
Receipt ==
  [op : Operations, kind : {"attach", "publish", "prepare", "resolve", "acknowledge"},
   request : Request, result : Result]
ShellState ==
  [attachState : {"at-head", "clean-reconcile"}, appliedRevision : Nat,
   appliedBaseline : Snapshot, captureBaseline : Snapshot,
   presentAtAttach : SUBSET Identities,
   transition : {"attach", "publish", "unpublished", "prepare", "resolve", "acknowledge"},
   pending : Pending, conflict : Conflict, unpublished : Changes, behind : BOOLEAN]

(* The types of the canonical state and of the repository (state.go's      *)
(* State and ShellState, the refs and commits of the store).               *)
TypeOK ==
  /\ materialized \in BOOLEAN
  /\ branch \in Branches
  /\ baseOID \in Nat
  /\ committed \in Document
  /\ head \in Nat
  /\ admitted \in SUBSET Identities
  /\ shared \in Snapshot
  /\ floor \in Nat
  /\ baseline \in Snapshot
  /\ events \in Seq(Event)
  /\ shells \in [Shells -> {NotAttached} \union ShellState]
  /\ receipts \in [Shells -> Seq(Receipt)]
  /\ autoApply \in BOOLEAN
  /\ refs \in [Branches -> 0 .. Len(objects)]
  /\ objects \in Seq(Commits)
  /\ generations \in Seq(Snapshot)

(* ValidateState refuses to read or write a state whose history, shell     *)
(* records, pendings and conflicts do not fit together; every handler's    *)
(* result must pass, or the operation that reached it can never complete.  *)
ValidHistory ==
  /\ Len(events) <= MaxStateEvents
  /\ floor + Len(events) = head
  /\ \A k \in DOMAIN events : events[k].revision = floor + k
  /\ Replay(baseline, events) = shared

ValidReceipts(log) ==
  /\ Len(log) <= MaxReceipts
  /\ \A j, k \in DOMAIN log : log[j].op = log[k].op => j = k

ValidShell(shell) ==
  /\ shell.appliedRevision <= head
  /\ shell.attachState = "clean-reconcile" =>
       shell.appliedRevision = 0 /\ shell.appliedBaseline = EmptySnapshot
  /\ shell.pending # NoPending =>
       shell.pending.revision \in (1 .. head) \ (0 .. shell.appliedRevision - 1)
  /\ (shell.conflict = NoConflict) <=> (shell.unpublished = NoChanges)
  /\ shell.conflict # NoConflict =>
       /\ shell.conflict.sharedRevision \in 1 .. head
       /\ shell.conflict.baseRevision <= shell.conflict.sharedRevision
  /\ shell.transition = "unpublished" => shell.conflict # NoConflict
  /\ shell.transition = "prepare" => shell.pending # NoPending /\ shell.pending.kind = "pull"
  /\ shell.transition = "resolve" \/ (shell.pending # NoPending /\ shell.pending.kind = "resolution") =>
       shell.conflict # NoConflict /\ shell.pending # NoPending /\ shell.pending.kind = "resolution"

ValidState ==
  materialized =>
    /\ ValidHistory
    /\ \A s \in Attached : ValidShell(shells[s]) /\ ValidReceipts(receipts[s])

(* The revision a shell says it has applied is one whose generation it     *)
(* really held: Publish judges staleness, and status "behind", by it.      *)
AppliedIsHistory ==
  \A s \in Attached : shells[s].appliedRevision # 0 =>
    shells[s].appliedBaseline = generations[shells[s].appliedRevision]

(* A change the service has seen in a terminal is not forgotten: since the *)
(* revision the shell applied, it is published, or kept in its delta.      *)
NoCapturedChangeForgotten ==
  \A s \in Attached : LET shell == shells[s] IN
    shell.appliedRevision # 0 =>
      \A i \in DOMAIN DiffSnapshot(shell.appliedBaseline, shell.captureBaseline) :
        \/ i \in DOMAIN shell.unpublished
        \/ \E r \in shell.appliedRevision + 1 .. head :
             generations[r][i] = shell.captureBaseline[i]

(* A terminal that workflowStatusFromState does not report as behind holds *)
(* the shared generation, as far as the service ever saw it.               *)
UpToDateHoldsShared ==
  \A s \in Attached : ~StatusBehind(s) => shells[s].captureBaseline = shared

(* A publication never overwrites what another publication, a checkout or  *)
(* a reset did to the same identity after the revision the publisher had   *)
(* applied, however much of the history was compacted meanwhile.           *)
Publishes(s) ==
  /\ head' = head + 1
  /\ events'[Len(events')].by \in {{<<s, op>>} : op \in Operations}
ChangedBetween(i, from, to) == \E r \in from .. to - 1 : generations[r][i] # generations[r + 1][i]
NoStaleOverwrite ==
  [][\A s \in Shells : Publishes(s) =>
       \A i \in DOMAIN DiffSnapshot(shared, shared') :
         ~ChangedBetween(i, shells[s].appliedRevision, head)]_vars

(* An operation id makes at most one revision, however often and however   *)
(* late its request is delivered, while its receipt is held.               *)
NoDuplicateRevision ==
  \A j, k \in DOMAIN events : events[j].by # {} /\ events[j].by = events[k].by => j = k

(* The terminals see a shared log: what they confirm are generations of    *)
(* it, in order, and a publication changes only what nothing changed since *)
(* the generation its publisher confirmed.                                 *)
AppliedRevision(s) == IF shells[s] = NotAttached THEN 0 ELSE shells[s].appliedRevision
AppliedBaseline(s) == IF shells[s] = NotAttached THEN EmptySnapshot ELSE shells[s].appliedBaseline
LastAuthor == IF events = <<>> THEN {} ELSE {pair[1] : pair \in events[Len(events)].by}
Log == INSTANCE SharedLog WITH
  Clients <- Shells, Snapshots <- Snapshot,
  log <- generations,
  author <- LastAuthor,
  view <- [s \in Shells |-> AppliedRevision(s)],
  held <- [s \in Shells |-> AppliedBaseline(s)]
ImplementsSharedLog == Log!Spec

(* A pinned secret or an excluded name never enters the shared generation  *)
(* through a terminal, and no generation carries a value of an identity    *)
(* that its committed source pins.                                         *)
PinnedNeverShared == Present(shared) \intersect committed.source.pinned = {}

(* The durable admissions always survive being restored into the registry: *)
(* seeding it fails every later operation otherwise.                       *)
AdmittedNeverExcluded == Seeded

(* State.Committed is the document of BaseOID.                             *)
BaseIsCommitted == materialized => objects[baseOID].document = committed

(* A commit, or a repair of one, records exactly the shared generation.    *)
CommitRecordsShared ==
  [][materialized /\ baseOID' # baseOID /\ branch' = branch =>
       committed'.projection = shared /\ shared' = shared]_vars

(* Branch heads only fast-forward: no commit of another process is lost.   *)
NoCommitOverwritten ==
  [][\A b \in Branches : refs'[b] # refs[b] =>
       refs[b] = NoOID \/ objects'[refs'[b]].parent = refs[b]]_vars

(* What a checkout takes away from the terminals is committed somewhere.   *)
CheckoutKeepsWork ==
  [][branch' # branch =>
       \/ ~materialized
       \/ \E oid \in DOMAIN objects : objects[oid].document.projection = shared]_vars

(* Commit publishes every dirty identity: a dirty worktree can be built    *)
(* into the document that commit needs.                                    *)
DirtyIsCommittable ==
  materialized /\ shared # committed.projection => CommitDocument.projection = shared

(* A commit whose state write failed stays repairable from its commit for  *)
(* as long as the branch head stays on it.                                 *)
SplitStaysRepairable ==
  LET split == objects[refs[branch]]
  IN  (/\ materialized
       /\ refs[branch] # baseOID
       /\ split.parent = baseOID
       /\ split.document.source = committed.source) => RepairPossible

===============================================================================
