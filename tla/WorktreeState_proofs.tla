-------------------------- MODULE WorktreeState_proofs -------------------------
(***************************************************************************)
(* What ValidateState demands of the document is kept by every handler:    *)
(* the retained log replays to the shared generation however often it was  *)
(* compacted, receipts stay unique and bounded, the parts of a shell       *)
(* record fit together, and no captured change is forgotten.               *)
(***************************************************************************)
EXTENDS Worktree_proofs, NaturalsInduction, WellFoundedInduction, FiniteSetTheorems

-------------------------------------------------------------------------------
(* Replay                                                                  *)

(* The naturals are well ordered.                                          *)
LEMMA LeastNatural ==
  ASSUME NEW T \in SUBSET Nat, T # {}
  PROVE  \E n \in T : \A m \in T : n <= m
  <1>. DEFINE R == OpToRel(<, Nat)
  <1>1. IsWellFoundedOn(R, Nat)
    BY NatLessThanWellFounded
  <1>. HIDE DEF R
  <1>2. PICK n \in T : \A m \in T : <<m, n>> \notin R
    BY <1>1, WFMin
  <1>3. \A m \in T : m < n => <<m, n>> \in R
    BY DEF R, OpToRel
  <1>4. ASSUME NEW m \in T PROVE n <= m
    <2>1. ~(m < n)
      BY <1>2, <1>3
    <2>2. m \in Nat /\ n \in Nat
      OBVIOUS
    <2>3. QED
      BY <2>1, <2>2
  <1>5. QED
    BY <1>4

(* Of the events that touch an identity, one is the last.                  *)
LEMMA LastExists ==
  ASSUME NEW n \in Nat, NEW T \in SUBSET (1 .. n), T # {}
  PROVE  \E k \in T : \A j \in T : j <= k
  <1>. DEFINE D == {n - k : k \in T}
  <1>1. D \in SUBSET Nat /\ D # {}
    <2>1. \A k \in T : n - k \in Nat
      OBVIOUS
    <2>2. QED
      BY <2>1
  <1>2. PICK d \in D : \A e \in D : d <= e
    BY <1>1, LeastNatural
  <1>3. PICK k \in T : d = n - k
    BY <1>2
  <1>4. ASSUME NEW j \in T PROVE j <= k
    <2>1. n - j \in D
      OBVIOUS
    <2>2. d <= n - j /\ j \in Nat /\ k \in Nat
      BY <1>2, <2>1
    <2>3. QED
      BY <1>3, <2>2
  <1>5. QED
    BY <1>4

Touching(log, i) == {k \in DOMAIN log : i \in DOMAIN log[k].changes}

(* An identity has the value of the last event that touches it, or else    *)
(* that of the baseline.                                                   *)
LEMMA ReplayValue ==
  ASSUME NEW from, NEW log, NEW i \in Identities
  PROVE  /\ Touching(log, i) = {} => Replay(from, log)[i] = from[i]
         /\ \A k \in Touching(log, i) :
              (\A j \in Touching(log, i) : j <= k) /\ DOMAIN log \subseteq Nat =>
                Replay(from, log)[i] = log[k].changes[i]
  <1>1. Touching(log, i) = {} => Replay(from, log)[i] = from[i]
    BY DEF Replay, Touching
  <1>2. ASSUME NEW k \in Touching(log, i), \A j \in Touching(log, i) : j <= k, DOMAIN log \subseteq Nat
        PROVE  Replay(from, log)[i] = log[k].changes[i]
    <2>. DEFINE T == Touching(log, i)
                last == CHOOSE m \in T : \A j \in T : j <= m
    <2>1. last \in T /\ \A j \in T : j <= last
      BY <1>2
    <2>2. last = k
      <3>1. last <= k /\ k <= last
        BY <1>2, <2>1
      <3>2. last \in Nat /\ k \in Nat
        BY <1>2, <2>1 DEF Touching
      <3>. HIDE DEF last
      <3>3. QED
        BY <3>1, <3>2
    <2>3. Replay(from, log)[i] = log[last].changes[i]
      <3>1. T # {}
        BY <1>2
      <3>2. Replay(from, log)[i] = IF T = {} THEN from[i] ELSE log[last].changes[i]
        BY DEF Replay, Touching
      <3>. HIDE DEF T, last
      <3>3. QED
        BY <3>1, <3>2
    <2>4. QED
      BY <2>2, <2>3
  <1>3. QED
    BY <1>1, <1>2

LEMMA ReplayType ==
  ASSUME NEW from, NEW log
  PROVE  DOMAIN Replay(from, log) = Identities
  BY DEF Replay

(* One more event is laid over the generation.                             *)
LEMMA ReplayAppend ==
  ASSUME NEW from \in Snapshot, NEW log \in Seq(Event), NEW event \in Event
  PROVE  Replay(from, Append(log, event)) = ApplyChanges(Replay(from, log), event.changes)
  <1>. DEFINE more == Append(log, event)
              n == Len(log) + 1
  <1>1. /\ Len(log) \in Nat /\ more[n] = event /\ DOMAIN log = 1 .. Len(log) /\ DOMAIN more = 1 .. n
        /\ \A k \in DOMAIN log : more[k] = log[k]
    OBVIOUS
  <1>. HIDE DEF more
  <1>2. ASSUME NEW i \in Identities
        PROVE  Replay(from, more)[i] = ApplyChanges(Replay(from, log), event.changes)[i]
    <2>1. CASE i \in DOMAIN event.changes
      <3>1. n \in Touching(more, i) /\ \A j \in Touching(more, i) : j <= n
        BY <1>1, <2>1 DEF Touching
      <3>2. Replay(from, more)[i] = more[n].changes[i]
        BY <1>1, <3>1, ReplayValue
      <3>3. QED
        BY <1>1, <2>1, <3>2 DEF ApplyChanges
    <2>2. CASE i \notin DOMAIN event.changes
      <3>1. Touching(more, i) = Touching(log, i)
        BY <1>1, <2>2 DEF Touching
      <3>2. Replay(from, more)[i] = Replay(from, log)[i]
        <4>1. CASE Touching(log, i) = {}
          BY <3>1, <4>1, ReplayValue
        <4>2. CASE Touching(log, i) # {}
          <5>1. Touching(log, i) \in SUBSET (1 .. Len(log))
            BY <1>1 DEF Touching
          <5>2. PICK k \in Touching(log, i) : \A j \in Touching(log, i) : j <= k
            BY <1>1, <4>2, <5>1, LastExists
          <5>3. k \in DOMAIN log /\ more[k] = log[k] /\ DOMAIN log \subseteq Nat /\ DOMAIN more \subseteq Nat
            BY <1>1, <5>1
          <5>4. QED
            BY <3>1, <5>2, <5>3, ReplayValue
        <4>3. QED
          BY <4>1, <4>2
      <3>3. QED
        BY <2>2, <3>2 DEF ApplyChanges
    <2>3. QED
      BY <2>1, <2>2
  <1>3. DOMAIN ApplyChanges(Replay(from, log), event.changes) = Identities
    BY DEF ApplyChanges
  <1>4. Replay(from, more) = ApplyChanges(Replay(from, log), event.changes)
    BY <1>2, <1>3 DEF Replay, ApplyChanges
  <1>5. QED
    BY <1>4 DEF more

(* Folding the oldest event into the baseline (CompactStateHistory)        *)
(* changes nothing of what the log describes.                              *)
LEMMA ReplayTail ==
  ASSUME NEW from \in Snapshot, NEW log \in Seq(Event), log # <<>>
  PROVE  Replay(ApplyChanges(from, Head(log).changes), Tail(log)) = Replay(from, log)
  <1>. DEFINE rest == Tail(log)
              base == ApplyChanges(from, Head(log).changes)
              n == Len(log)
  <1>1. /\ n \in Nat /\ n >= 1 /\ Head(log) = log[1] /\ DOMAIN log = 1 .. n /\ DOMAIN rest = 1 .. n - 1
        /\ \A k \in 1 .. n - 1 : rest[k] = log[k + 1]
    OBVIOUS
  <1>. HIDE DEF rest, base, n
  <1>2. ASSUME NEW i \in Identities
        PROVE  Replay(base, rest)[i] = Replay(from, log)[i]
    <2>1. \A k \in Touching(rest, i) : k + 1 \in Touching(log, i)
      BY <1>1 DEF Touching
    <2>2. \A k \in Touching(log, i) : k = 1 \/ k - 1 \in Touching(rest, i)
      BY <1>1 DEF Touching
    <2>3. /\ Touching(rest, i) \in SUBSET (1 .. n - 1) /\ Touching(log, i) \in SUBSET (1 .. n)
          /\ n - 1 \in Nat
      BY <1>1 DEF Touching
    <2>4. CASE Touching(rest, i) # {}
      <3>1. PICK k \in Touching(rest, i) : \A j \in Touching(rest, i) : j <= k
        BY <2>3, <2>4, LastExists
      <3>2. k + 1 \in Touching(log, i) /\ k \in 1 .. n - 1
        BY <2>1, <2>3, <3>1
      <3>3. \A j \in Touching(log, i) : j <= k + 1
        BY <2>2, <2>3, <3>1, <3>2
      <3>4. DOMAIN rest \subseteq Nat /\ DOMAIN log \subseteq Nat
        BY <1>1
      <3>5. Replay(base, rest)[i] = rest[k].changes[i] /\ Replay(from, log)[i] = log[k + 1].changes[i]
        BY <3>1, <3>2, <3>3, <3>4, ReplayValue
      <3>6. QED
        BY <1>1, <3>2, <3>5
    <2>5. CASE Touching(rest, i) = {}
      <3>1. Replay(base, rest)[i] = base[i]
        BY <2>5, ReplayValue
      <3>2. CASE i \in DOMAIN log[1].changes
        <4>1. 1 \in Touching(log, i)
          BY <1>1, <3>2 DEF Touching
        <4>2. \A j \in Touching(log, i) : j <= 1
          BY <2>2, <2>5
        <4>3. DOMAIN log \subseteq Nat
          BY <1>1
        <4>4. Replay(from, log)[i] = log[1].changes[i]
          BY <4>1, <4>2, <4>3, ReplayValue
        <4>5. QED
          BY <1>1, <3>1, <3>2, <4>4 DEF base, ApplyChanges
      <3>3. CASE i \notin DOMAIN log[1].changes
        <4>1. Touching(log, i) = {}
          BY <2>2, <2>5, <3>3 DEF Touching
        <4>2. Replay(from, log)[i] = from[i]
          BY <4>1, ReplayValue
        <4>3. QED
          BY <1>1, <3>1, <3>3, <4>2 DEF base, ApplyChanges
      <3>4. QED
        BY <3>2, <3>3
    <2>6. QED
      BY <2>4, <2>5
  <1>3. Replay(base, rest) = Replay(from, log)
    BY <1>2 DEF Replay
  <1>4. QED
    BY <1>3 DEF base, rest

-------------------------------------------------------------------------------
(* The invariant.  Beyond the types and the history: what the log          *)
(* describes, what a shell record's fields say of one another and of what  *)
(* the service captured in the terminal, and the receipts it keeps.        *)

LogDescribes ==
  /\ Len(events) <= MaxStateEvents
  /\ Replay(baseline, events) = shared

ReceiptsInv == \A s \in Shells :
  /\ ValidReceipts(receipts[s])
  /\ s \notin Attached => receipts[s] = <<>>

Fits(shell, last) ==
  /\ shell.attachState = "clean-reconcile" =>
       shell.appliedRevision = 0 /\ shell.appliedBaseline = EmptySnapshot
  /\ (shell.conflict = NoConflict) <=> (shell.unpublished = NoChanges)
  /\ shell.conflict # NoConflict =>
       /\ shell.conflict.sharedRevision \in 1 .. last
       /\ shell.conflict.baseRevision <= shell.conflict.sharedRevision
  /\ shell.transition = "unpublished" => shell.conflict # NoConflict
  /\ shell.transition = "prepare" => shell.pending # NoPending /\ shell.pending.kind = "pull"
  /\ shell.transition = "resolve" \/ (shell.pending # NoPending /\ shell.pending.kind = "resolution") =>
       shell.conflict # NoConflict /\ shell.pending # NoPending /\ shell.pending.kind = "resolution"

Remembers(shell, last, gens) ==
  shell.appliedRevision # 0 =>
    \A i \in DOMAIN DiffSnapshot(shell.appliedBaseline, shell.captureBaseline) :
      \/ i \in DOMAIN shell.unpublished
      \/ \E r \in shell.appliedRevision + 1 .. last : gens[r][i] = shell.captureBaseline[i]

RecordsInv == \A s \in Attached :
  Fits(shells[s], head) /\ Remembers(shells[s], head, generations)

ValidInv == LogDescribes /\ ReceiptsInv /\ RecordsInv

-------------------------------------------------------------------------------
(* The log                                                                 *)

(* A revision whose changes lead from the shared generation to the next is *)
(* described by the log, whether or not its oldest event is folded.        *)
LEMMA AppendRevisionDescribed ==
  ASSUME HistoryTypes, LogDescribes,
         NEW by \in SUBSET (Shells \X Operations), NEW changes \in Changes,
         NEW next \in Snapshot, next = ApplyChanges(shared, changes),
         AppendRevision(by, changes, next)
  PROVE  LogDescribes'
  <1>. DEFINE event == [revision |-> head + 1, by |-> by, changes |-> changes]
              log == Append(events, event)
  <1>1. event \in Event /\ event.changes = changes
    BY DEF HistoryTypes, Event
  <1>2. /\ events \in Seq(Event) /\ baseline \in Snapshot
        /\ log \in Seq(Event) /\ log # <<>> /\ Len(log) = Len(events) + 1 /\ Len(events) \in Nat
    BY <1>1 DEF HistoryTypes
  <1>3. Replay(baseline, log) = next
    <2>. HIDE DEF event
    <2>1. Replay(baseline, log) = ApplyChanges(Replay(baseline, events), event.changes)
      BY <1>1, <1>2, ReplayAppend
    <2>2. QED
      BY <1>1, <2>1 DEF LogDescribes
  <1>4. shared' = next /\ MaxStateEvents \in Nat \ {0}
    BY ConstantsAssumption DEF AppendRevision
  <1>5. CASE Len(log) > MaxStateEvents
    <2>1. events' = Tail(log) /\ baseline' = ApplyChanges(baseline, Head(log).changes)
      BY <1>5 DEF AppendRevision
    <2>. HIDE DEF log
    <2>2. Replay(baseline', events') = next
      BY <1>2, <1>3, <2>1, ReplayTail
    <2>3. Len(events') = Len(log) - 1
      BY <1>2, <2>1
    <2>4. Len(events) <= MaxStateEvents
      BY DEF LogDescribes
    <2>5. QED
      BY <1>2, <1>4, <2>2, <2>3, <2>4 DEF LogDescribes
  <1>6. CASE ~(Len(log) > MaxStateEvents)
    <2>1. events' = log /\ baseline' = baseline
      BY <1>6 DEF AppendRevision
    <2>. HIDE DEF log
    <2>2. QED
      BY <1>2, <1>3, <1>4, <1>6, <2>1 DEF LogDescribes
  <1>7. QED
    BY <1>5, <1>6

(* A handler that makes no revision leaves the log.                        *)
LEMMA SameRevisionDescribed ==
  ASSUME LogDescribes, SameRevision
  PROVE  LogDescribes'
  BY DEF LogDescribes, SameRevision, Replay

-------------------------------------------------------------------------------
(* The receipts                                                            *)

(* A receipt of an operation that has none keeps the receipts unique, and  *)
(* the limit drops the oldest one.                                         *)
LEMMA AppendReceiptValid ==
  ASSUME ShellTypes, NEW s \in Shells, NEW op, NEW kind, NEW request, NEW result,
         ValidReceipts(receipts[s]), ~ReceiptFound(s, op),
         AppendReceipt(s, op, kind, request, result)
  PROVE  /\ ValidReceipts(receipts'[s])
         /\ \A t \in Shells \ {s} : receipts'[t] = receipts[t]
  <1>. DEFINE receipt == [op |-> op, kind |-> kind, request |-> request, result |-> result]
              old == receipts[s]
              log == Append(old, receipt)
  <1>1. old \in Seq(Receipt) /\ Len(old) \in Nat /\ MaxReceipts \in Nat
    BY ConstantsAssumption DEF ShellTypes
  <1>2. /\ Len(log) = Len(old) + 1 /\ DOMAIN log = 1 .. Len(old) + 1 /\ DOMAIN old = 1 .. Len(old)
        /\ log[Len(old) + 1] = receipt /\ \A k \in 1 .. Len(old) : log[k] = old[k]
    BY <1>1
  <1>3. receipts' = [receipts EXCEPT ![s] = IF Len(log) > MaxReceipts THEN Tail(log) ELSE log]
    BY DEF AppendReceipt
  <1>4. /\ receipts'[s] = IF Len(log) > MaxReceipts THEN Tail(log) ELSE log
        /\ \A t \in Shells \ {s} : receipts'[t] = receipts[t]
    BY <1>3 DEF ShellTypes
  <1>5. /\ Len(old) <= MaxReceipts
        /\ \A j, k \in 1 .. Len(old) : old[j].op = old[k].op => j = k
        /\ \A k \in 1 .. Len(old) : old[k].op # op
    BY <1>2 DEF ValidReceipts, ReceiptFound
  <1>6. receipt.op = op
    OBVIOUS
  <1>. HIDE DEF receipt, log
  <1>7. \A j, k \in 1 .. Len(old) + 1 : log[j].op = log[k].op => j = k
    <2>1. \A k \in 1 .. Len(old) + 1 : k = Len(old) + 1 \/ k \in 1 .. Len(old)
      BY <1>1
    <2>. HIDE DEF old
    <2>2. QED
      BY <1>2, <1>5, <1>6, <2>1
  <1>8. CASE Len(log) > MaxReceipts
    <2>1. log \in Seq({log[k] : k \in DOMAIN log})
      <3>1. log = [k \in 1 .. Len(old) + 1 |-> log[k]]
        BY <1>1 DEF log
      <3>2. QED
        BY <1>1, <1>2, <3>1
    <2>2. /\ Len(Tail(log)) = Len(old) /\ DOMAIN Tail(log) = 1 .. Len(old)
          /\ \A k \in 1 .. Len(old) : Tail(log)[k] = log[k + 1]
      BY <1>1, <1>2, <2>1
    <2>3. \A k \in 1 .. Len(old) : k + 1 \in 1 .. Len(old) + 1
      BY <1>1
    <2>4. ValidReceipts(Tail(log))
      BY <1>1, <1>5, <1>7, <2>2, <2>3 DEF ValidReceipts
    <2>5. QED
      BY <1>4, <1>8, <2>4
  <1>9. CASE ~(Len(log) > MaxReceipts)
    <2>1. ValidReceipts(log)
      BY <1>1, <1>2, <1>7, <1>9 DEF ValidReceipts
    <2>2. QED
      BY <1>4, <1>9, <2>1
  <1>10. QED
    BY <1>4, <1>8, <1>9

(* The receipts once an attached, or attaching, shell got another.         *)
LEMMA ReceiptsKept ==
  ASSUME ShellTypes, ReceiptsInv, NEW s \in Shells, NEW op, NEW kind, NEW request, NEW result,
         NEW record, record # NotAttached, shells' = [shells EXCEPT ![s] = record],
         ~ReceiptFound(s, op), AppendReceipt(s, op, kind, request, result)
  PROVE  ReceiptsInv'
  <1>1. /\ ValidReceipts(receipts'[s])
        /\ \A t \in Shells \ {s} : receipts'[t] = receipts[t]
    BY AppendReceiptValid DEF ReceiptsInv
  <1>2. shells'[s] = record /\ \A t \in Shells \ {s} : shells'[t] = shells[t]
    BY DEF ShellTypes
  <1>3. QED
    BY <1>1, <1>2 DEF ReceiptsInv, Attached

-------------------------------------------------------------------------------
(* The shell records                                                       *)

(* What a record says stays true as the history grows.                     *)
LEMMA RecordGrows ==
  ASSUME HistoryTypes, HistoryTypes', Grows, NEW shell \in ShellState,
         Fits(shell, head), Remembers(shell, head, generations)
  PROVE  Fits(shell, head') /\ Remembers(shell, head', generations')
  <1>1. shell.appliedRevision \in Nat /\ head \in Nat /\ head' \in Nat /\ head <= head'
    BY DEF ShellState, HistoryTypes, Grows
  <1>2. \A r \in 1 .. head : r \in 1 .. head'
    BY <1>1
  <1>3. Fits(shell, head')
    BY <1>2 DEF Fits
  <1>4. \A r \in shell.appliedRevision + 1 .. head :
          r \in shell.appliedRevision + 1 .. head' /\ generations'[r] = generations[r]
    BY <1>1 DEF Grows
  <1>5. Remembers(shell, head', generations')
    BY <1>4 DEF Remembers
  <1>6. QED
    BY <1>3, <1>5

(* When one record changes, it is the only one to look at.                 *)
LEMMA OneRecordChanges ==
  ASSUME TypeInv, HistoryTypes', Grows, RecordsInv,
         NEW s \in Shells, NEW record, shells' = [shells EXCEPT ![s] = record],
         Fits(record, head'), Remembers(record, head', generations')
  PROVE  RecordsInv'
  <1>1. ASSUME NEW t \in Shells, t # s, shells'[t] # NotAttached
        PROVE  Fits(shells'[t], head') /\ Remembers(shells'[t], head', generations')
    <2>1. shells'[t] = shells[t]
      BY <1>1 DEF TypeInv, ShellTypes
    <2>2. shells[t] \in ShellState /\ Fits(shells[t], head) /\ Remembers(shells[t], head, generations)
      BY <1>1, <2>1 DEF TypeInv, ShellTypes, RecordsInv, Attached
    <2>3. Fits(shells[t], head') /\ Remembers(shells[t], head', generations')
      BY <2>2, RecordGrows DEF TypeInv
    <2>4. QED
      BY <2>1, <2>3
  <1>2. shells'[s] = record
    BY DEF TypeInv, ShellTypes
  <1>3. QED
    BY <1>1, <1>2 DEF RecordsInv, Attached

(* When no record changes but for its flag, they stay true.                *)
LEMMA RecordsKept ==
  ASSUME TypeInv, HistoryTypes', Grows, RecordsInv,
         \A s \in Shells : shells'[s] # NotAttached =>
           /\ shells[s] # NotAttached
           /\ \E flag : shells'[s] = [shells[s] EXCEPT !.behind = flag]
  PROVE  RecordsInv'
  <1>1. ASSUME NEW s \in Shells, shells'[s] # NotAttached
        PROVE  Fits(shells'[s], head') /\ Remembers(shells'[s], head', generations')
    <2>. DEFINE new == shells'[s]
                old == shells[s]
    <2>1. old \in ShellState /\ Fits(old, head) /\ Remembers(old, head, generations)
      BY <1>1 DEF TypeInv, ShellTypes, RecordsInv, Attached
    <2>2. Fits(old, head') /\ Remembers(old, head', generations')
      BY <2>1, RecordGrows DEF TypeInv
    <2>3. /\ new.attachState = old.attachState /\ new.appliedRevision = old.appliedRevision
          /\ new.appliedBaseline = old.appliedBaseline /\ new.captureBaseline = old.captureBaseline
          /\ new.transition = old.transition /\ new.pending = old.pending
          /\ new.conflict = old.conflict /\ new.unpublished = old.unpublished
      BY <1>1, <2>1 DEF ShellState
    <2>. HIDE DEF new, old
    <2>4. Fits(new, head') /\ Remembers(new, head', generations')
      BY <2>2, <2>3 DEF Fits, Remembers
    <2>5. QED
      BY <2>4 DEF new
  <1>2. QED
    BY <1>1 DEF RecordsInv, Attached

-------------------------------------------------------------------------------
(* The requests of the terminals                                           *)

(* A shell at the head holds what it has applied; any other has applied    *)
(* nothing.                                                                *)
LEMMA AttachValid ==
  ASSUME TypeInv, HistoryInv, ValidInv,
         NEW s \in Shells, NEW op \in Operations, NEW initial \in Snapshot, Attach(s, op, initial)
  PROVE  ValidInv'
  <1>. DEFINE capture == [i \in Identities |-> IF AllowsLiveValue(i) THEN initial[i] ELSE Absent]
              record == [attachState |-> IF capture = shared THEN "at-head" ELSE "clean-reconcile",
                         appliedRevision |-> IF capture = shared THEN head ELSE 0,
                         appliedBaseline |-> IF capture = shared THEN shared ELSE EmptySnapshot,
                         captureBaseline |-> capture,
                         presentAtAttach |-> Present(initial),
                         transition |-> "attach",
                         pending |-> NoPending,
                         conflict |-> NoConflict,
                         unpublished |-> NoChanges,
                         behind |-> ~(capture = shared)]
  <1>1. HistoryTypes /\ ShellTypes /\ HistoryTypes' /\ SameRevision /\ Grows
    BY AttachType, AttachHistory DEF TypeInv, Attach
  <1>2. /\ shells' = [shells EXCEPT ![s] = record]
        /\ AppendReceipt(s, op, "attach", initial, head)
        /\ shells[s] = NotAttached
    BY DEF Attach
  <1>3. /\ record.pending = NoPending /\ record.conflict = NoConflict /\ record.unpublished = NoChanges
        /\ record.transition = "attach"
        /\ record.attachState = "clean-reconcile" =>
             record.appliedRevision = 0 /\ record.appliedBaseline = EmptySnapshot
    OBVIOUS
  <1>4. record.appliedRevision # 0 => record.appliedBaseline = record.captureBaseline
    OBVIOUS
  <1>5. record # NotAttached
    BY DEF NotAttached
  <1>. HIDE DEF record
  <1>6. Fits(record, head')
    BY <1>3 DEF Fits
  <1>7. Remembers(record, head', generations')
    BY <1>4 DEF Remembers, DiffSnapshot
  <1>8. RecordsInv'
    BY <1>1, <1>2, <1>6, <1>7, OneRecordChanges DEF ValidInv
  <1>9. ~ReceiptFound(s, op)
    BY <1>2 DEF ReceiptFound, ValidInv, ReceiptsInv, Attached
  <1>10. ReceiptsInv'
    BY <1>1, <1>2, <1>5, <1>9, ReceiptsKept DEF ValidInv
  <1>11. QED
    BY <1>1, <1>8, <1>10, SameRevisionDescribed DEF ValidInv

(* A publication's changes go to the head or stay with the shell; what it  *)
(* had captured before is still where it was.                              *)
LEMMA PublishValid ==
  ASSUME TypeInv, HistoryInv, ValidInv,
         NEW s \in Shells, NEW op \in Operations, NEW ack \in Nat, NEW delta \in Changes,
         Publish(s, op, ack, delta)
  PROVE  ValidInv'
  <1>. DEFINE shell == shells[s]
              observed == Observed(s, delta)
              wanted == Wanted(s, observed)
              losing == Losing(ack, wanted)
              accepted == wanted \ losing
              changes == Only(observed, accepted)
              conflict == IF losing = {} THEN NoConflict
                          ELSE [kind |-> IF ack < floor THEN "history-gap" ELSE "overlap",
                                identity |-> CHOOSE i \in losing : TRUE,
                                baseRevision |-> ack,
                                sharedRevision |-> head',
                                token |-> NewToken("conflict", op, head')]
              record == [shell EXCEPT !.conflict = conflict,
                           !.unpublished = Only(observed, losing),
                           !.transition = IF losing = {} THEN "publish" ELSE "unpublished",
                           !.captureBaseline = observed,
                           !.behind = ack < head' \/ losing # {}]
              result == [revision |-> head', accepted |-> accepted, conflict |-> conflict]
  <1>1. /\ HistoryTypes /\ ShellTypes /\ HistoryTypes' /\ Grows /\ HistoryInv'
        /\ shell \in ShellState
    BY PublishType, PublishHistory DEF TypeInv, ShellTypes, Publish, Attached
  <1>2. /\ shells' = [shells EXCEPT ![s] = record]
        /\ AppendReceipt(s, op, "publish", [ack |-> ack, delta |-> delta], result)
        /\ ~ReceiptFound(s, op) /\ s \in Attached
        /\ shell.pending = NoPending /\ shell.appliedRevision = ack /\ ack # 0
        /\ shell.conflict = NoConflict /\ shell.unpublished = NoChanges
    BY DEF Publish
  <1>3. observed \in Snapshot /\ changes \in Changes /\ shared \in Snapshot
    BY <1>1, OnlyType, ApplyChangesType DEF Observed, ShellState, HistoryTypes
  <1>4. /\ ShellHistory(shell, head, generations)
        /\ Fits(shell, head) /\ Remembers(shell, head, generations)
    BY <1>2 DEF HistoryInv, ShellsInv, ValidInv, RecordsInv
  <1>5. /\ ack \in 1 .. head /\ head \in Nat /\ head' \in Nat /\ head <= head'
        /\ shared = generations[head] /\ shell.appliedBaseline = generations[ack]
        /\ \A r \in 1 .. head : generations'[r] = generations[r]
    BY <1>1, <1>2, <1>4 DEF ShellHistory, HistoryTypes, Grows, HistoryInv, LogInv
  <1>6. losing \subseteq wanted /\ wanted \subseteq Identities /\ DOMAIN observed = Identities
    BY <1>3 DEF Losing, Wanted, DiffSnapshot, Snapshot
  <1>7. /\ record.conflict = conflict /\ record.unpublished = Only(observed, losing)
        /\ record.transition = IF losing = {} THEN "publish" ELSE "unpublished"
        /\ record.captureBaseline = observed /\ record.pending = NoPending
        /\ record.attachState = shell.attachState
        /\ record.appliedRevision = ack /\ record.appliedBaseline = shell.appliedBaseline
    BY <1>1, <1>2 DEF ShellState
  <1>8. /\ losing = {} <=> conflict = NoConflict
        /\ losing # {} => conflict.sharedRevision = head' /\ conflict.baseRevision = ack
    BY DEF NoConflict
  <1>9. DOMAIN Only(observed, losing) = losing
    BY <1>6 DEF Only
  <1>10. losing = {} <=> Only(observed, losing) = NoChanges
    BY <1>9 DEF Only, NoChanges
  <1>11. record # NotAttached
    <2>1. "transition" \in DOMAIN record
      BY <1>1 DEF ShellState
    <2>2. QED
      BY <2>1 DEF NotAttached
  <1>12. LogDescribes' /\ \A i \in accepted : head' = head + 1 /\ generations'[head'][i] = observed[i]
    <2>1. CASE accepted = {}
      BY <2>1, SameRevisionDescribed DEF Publish, ValidInv
    <2>2. CASE accepted # {}
      <3>1. AppendRevision({<<s, op>>}, changes, ApplyChanges(shared, changes))
        BY <2>2 DEF Publish
      <3>2. ApplyChanges(shared, changes) \in Snapshot
        BY <1>3, ApplyChangesType
      <3>3. {<<s, op>>} \in SUBSET (Shells \X Operations)
        OBVIOUS
      <3>4. DOMAIN changes = accepted /\ \A i \in accepted : changes[i] = observed[i]
        BY <1>6 DEF Only
      <3>5. \A i \in accepted : ApplyChanges(shared, changes)[i] = observed[i]
        BY <1>6, <3>4 DEF ApplyChanges
      <3>. HIDE DEF changes, accepted
      <3>6. LogDescribes'
        BY <1>1, <1>3, <3>1, <3>2, <3>3, AppendRevisionDescribed DEF ValidInv
      <3>7. head' = head + 1 /\ shared' = ApplyChanges(shared, changes)
        BY <3>1 DEF AppendRevision
      <3>8. shared' = generations'[head']
        BY <1>5, <3>7, <1>1 DEF HistoryInv, LogInv
      <3>9. QED
        BY <3>5, <3>6, <3>7, <3>8
    <2>3. QED
      BY <2>1, <2>2
  <1>13. \A i \in Identities \ wanted :
           observed[i] = shell.captureBaseline[i] \/ observed[i] = shared[i]
    BY <1>6 DEF Wanted, DiffSnapshot
  <1>. HIDE DEF record, conflict, losing, accepted, wanted, observed, changes
  <1>14. Fits(record, head')
    <2>1. \/ record.transition = "publish" /\ record.conflict = NoConflict
          \/ record.transition = "unpublished" /\ record.conflict # NoConflict
      BY <1>7, <1>8
    <2>2. (record.conflict = NoConflict) <=> (record.unpublished = NoChanges)
      BY <1>7, <1>8, <1>10
    <2>3. record.conflict # NoConflict =>
            /\ record.conflict.sharedRevision \in 1 .. head'
            /\ record.conflict.baseRevision <= record.conflict.sharedRevision
      BY <1>5, <1>7, <1>8
    <2>4. record.attachState = "clean-reconcile" =>
            record.appliedRevision = 0 /\ record.appliedBaseline = EmptySnapshot
      BY <1>2, <1>4, <1>7 DEF Fits
    <2>5. QED
      BY <1>7, <2>1, <2>2, <2>3, <2>4 DEF Fits
  <1>15. ASSUME NEW i \in Identities, shell.appliedBaseline[i] # observed[i], i \notin losing
         PROVE  \E r \in ack + 1 .. head' : generations'[r][i] = observed[i]
    <2>1. CASE i \in accepted
      BY <1>5, <1>12, <2>1
    <2>2. CASE i \notin wanted /\ observed[i] = shared[i]
      <3>1. ack # head
        BY <1>5, <1>15, <2>2
      <3>2. head \in ack + 1 .. head' /\ head \in 1 .. head
        BY <1>5, <3>1
      <3>3. QED
        BY <1>5, <2>2, <3>2
    <2>3. CASE i \notin wanted /\ observed[i] = shell.captureBaseline[i]
      <3>1. i \in DOMAIN DiffSnapshot(shell.appliedBaseline, shell.captureBaseline)
        BY <1>15, <2>3 DEF DiffSnapshot
      <3>2. i \notin DOMAIN shell.unpublished
        BY <1>2 DEF NoChanges
      <3>3. PICK r \in ack + 1 .. head : generations[r][i] = shell.captureBaseline[i]
        BY <1>2, <1>4, <3>1, <3>2 DEF Remembers
      <3>4. r \in ack + 1 .. head' /\ r \in 1 .. head
        BY <1>5
      <3>5. QED
        BY <1>5, <2>3, <3>3, <3>4
    <2>4. i \in accepted \/ i \notin wanted
      BY <1>15 DEF accepted
    <2>5. QED
      BY <1>13, <2>1, <2>2, <2>3, <2>4
  <1>16. Remembers(record, head', generations')
    BY <1>7, <1>9, <1>15 DEF Remembers, DiffSnapshot
  <1>17. RecordsInv'
    BY <1>1, <1>2, <1>14, <1>16, OneRecordChanges DEF ValidInv
  <1>18. ReceiptsInv'
    BY <1>1, <1>2, <1>11, ReceiptsKept DEF ValidInv
  <1>19. QED
    BY <1>12, <1>17, <1>18 DEF ValidInv

(* A prepared pull is pending; a shell that lost its place has applied     *)
(* nothing.                                                                *)
LEMMA PreparePullValid ==
  ASSUME TypeInv, HistoryInv, ValidInv,
         NEW s \in Shells, NEW op \in Operations, NEW applied \in Nat, PreparePull(s, op, applied)
  PROVE  ValidInv'
  <1>. DEFINE old == shells[s]
              shell == IF applied # old.appliedRevision
                       THEN [old EXCEPT !.attachState = "clean-reconcile",
                                        !.appliedRevision = 0,
                                        !.appliedBaseline = EmptySnapshot]
                       ELSE old
              prepared(token) ==
                [shell EXCEPT !.pending = [kind |-> "pull", revision |-> head,
                                           fingerprint |-> shared, token |-> token],
                              !.transition = "prepare", !.behind = TRUE]
  <1>1. /\ HistoryTypes /\ ShellTypes /\ HistoryTypes' /\ SameRevision /\ Grows
        /\ old \in ShellState
    BY PreparePullType, PreparePullHistory DEF TypeInv, ShellTypes, PreparePull, Attached
  <1>2. PICK record, request, result :
          /\ \/ record = shell
             \/ \E token : record = prepared(token)
          /\ shells' = [shells EXCEPT ![s] = record]
          /\ AppendReceipt(s, op, "prepare", request, result)
    <2>1. CASE shells' = [shells EXCEPT ![s] = shell]
      BY <2>1 DEF PreparePull
    <2>2. CASE shells' = [shells EXCEPT ![s] = prepared(NewToken("pull", op, head))]
      BY <2>2 DEF PreparePull
    <2>3. QED
      BY <2>1, <2>2 DEF PreparePull
  <1>3. /\ ~ReceiptFound(s, op) /\ s \in Attached
        /\ old.conflict = NoConflict /\ old.unpublished = NoChanges /\ old.pending = NoPending
    BY DEF PreparePull
  <1>4. Fits(old, head') /\ Remembers(old, head', generations')
    BY <1>1, <1>3, RecordGrows DEF ValidInv, RecordsInv
  <1>5. /\ shell \in ShellState
        /\ shell.conflict = NoConflict /\ shell.unpublished = NoChanges /\ shell.pending = NoPending
        /\ shell.transition = old.transition
        /\ shell.attachState = "clean-reconcile" =>
             shell.appliedRevision = 0 /\ shell.appliedBaseline = EmptySnapshot
        /\ Remembers(shell, head', generations')
    <2>1. CASE applied # old.appliedRevision
      <3>1. /\ shell \in ShellState /\ shell.appliedRevision = 0 /\ shell.appliedBaseline = EmptySnapshot
            /\ shell.conflict = old.conflict /\ shell.unpublished = old.unpublished
            /\ shell.pending = old.pending /\ shell.transition = old.transition
        BY <1>1, <2>1, EmptyType DEF ShellState
      <3>. HIDE DEF shell
      <3>2. QED
        BY <1>3, <3>1 DEF Remembers
    <2>2. CASE applied = old.appliedRevision
      BY <1>1, <1>3, <1>4, <2>2 DEF Fits
    <2>3. QED
      BY <2>1, <2>2
  <1>. HIDE DEF shell
  <1>6. /\ Fits(record, head') /\ Remembers(record, head', generations')
        /\ record # NotAttached
    <2>1. CASE record = shell
      <3>1. Fits(shell, head')
        BY <1>3, <1>4, <1>5 DEF Fits
      <3>2. "transition" \in DOMAIN shell
        BY <1>5 DEF ShellState
      <3>3. QED
        BY <1>5, <2>1, <3>1, <3>2 DEF NotAttached
    <2>2. ASSUME NEW token, record = prepared(token)
          PROVE  /\ Fits(record, head') /\ Remembers(record, head', generations')
                 /\ record # NotAttached
      <3>1. /\ record.attachState = shell.attachState
            /\ record.appliedRevision = shell.appliedRevision
            /\ record.appliedBaseline = shell.appliedBaseline
            /\ record.captureBaseline = shell.captureBaseline
            /\ record.conflict = shell.conflict /\ record.unpublished = shell.unpublished
            /\ record.transition = "prepare" /\ record.pending.kind = "pull"
            /\ "transition" \in DOMAIN record
        BY <1>5, <2>2 DEF ShellState
      <3>2. record.pending # NoPending
        BY <3>1 DEF NoPending
      <3>3. Fits(record, head')
        BY <1>5, <3>1, <3>2 DEF Fits
      <3>4. Remembers(record, head', generations')
        BY <1>5, <3>1 DEF Remembers
      <3>5. QED
        BY <3>1, <3>3, <3>4 DEF NotAttached
    <2>3. QED
      BY <1>2, <2>1, <2>2
  <1>. HIDE DEF prepared
  <1>7. RecordsInv'
    BY <1>1, <1>2, <1>6, OneRecordChanges DEF ValidInv
  <1>8. ReceiptsInv'
    BY <1>1, <1>2, <1>3, <1>6, ReceiptsKept DEF ValidInv
  <1>9. QED
    BY <1>1, <1>7, <1>8, SameRevisionDescribed DEF ValidInv

(* A repeated resolve or acknowledge changes no record and no receipt.     *)
LEMMA RepeatedValid ==
  ASSUME TypeInv, ValidInv, HistoryTypes', Grows, SameRevision, UNCHANGED <<shells, receipts>>
  PROVE  ValidInv'
  <1>1. ASSUME NEW s \in Shells, shells'[s] # NotAttached
        PROVE  shells[s] # NotAttached /\ \E flag : shells'[s] = [shells[s] EXCEPT !.behind = flag]
    <2>1. shells[s] \in ShellState /\ shells'[s] = shells[s]
      BY <1>1 DEF TypeInv, ShellTypes
    <2>2. shells'[s] = [shells[s] EXCEPT !.behind = shells[s].behind]
      BY <2>1 DEF ShellState
    <2>3. QED
      BY <1>1, <2>1, <2>2
  <1>2. RecordsInv'
    BY <1>1, RecordsKept DEF ValidInv
  <1>3. ReceiptsInv'
    BY DEF ValidInv, ReceiptsInv, Attached
  <1>4. QED
    BY <1>2, <1>3, SameRevisionDescribed DEF ValidInv

(* A resolution is pending together with its conflict.                     *)
LEMMA ResolveSharedValid ==
  ASSUME TypeInv, HistoryInv, ValidInv,
         NEW s \in Shells, NEW op \in Operations, NEW identity, NEW token, NEW snap \in Snapshot,
         ResolveShared(s, op, identity, token, snap)
  PROVE  ValidInv'
  <1>. DEFINE shell == shells[s]
              record == [shell EXCEPT !.pending = [kind |-> "resolution", revision |-> head,
                                                   fingerprint |-> shared, token |-> token],
                                      !.transition = "resolve", !.behind = TRUE]
  <1>1. /\ HistoryTypes /\ ShellTypes /\ HistoryTypes' /\ SameRevision /\ Grows
        /\ shell \in ShellState /\ s \in Attached
    BY ResolveSharedType, ResolveSharedHistory DEF TypeInv, ShellTypes, ResolveShared, Attached
  <1>2. CASE UNCHANGED <<shells, receipts>>
    BY <1>1, <1>2, RepeatedValid
  <1>3. CASE /\ ~ReceiptFound(s, op) /\ shell.conflict # NoConflict
             /\ shells' = [shells EXCEPT ![s] = record]
             /\ \E request, result : AppendReceipt(s, op, "resolve", request, result)
    <2>1. PICK request, result : AppendReceipt(s, op, "resolve", request, result)
      BY <1>3
    <2>2. Fits(shell, head') /\ Remembers(shell, head', generations')
      BY <1>1, RecordGrows DEF ValidInv, RecordsInv
    <2>3. /\ record.attachState = shell.attachState
          /\ record.appliedRevision = shell.appliedRevision
          /\ record.appliedBaseline = shell.appliedBaseline
          /\ record.captureBaseline = shell.captureBaseline
          /\ record.conflict = shell.conflict /\ record.unpublished = shell.unpublished
          /\ record.transition = "resolve" /\ record.pending.kind = "resolution"
          /\ "transition" \in DOMAIN record
      BY <1>1 DEF ShellState
    <2>. HIDE DEF record
    <2>4. record.pending # NoPending
      BY <2>3 DEF NoPending
    <2>5. Fits(record, head') /\ Remembers(record, head', generations')
      BY <1>3, <2>2, <2>3, <2>4 DEF Fits, Remembers
    <2>6. RecordsInv'
      BY <1>1, <1>3, <2>5, OneRecordChanges DEF ValidInv
    <2>7. record # NotAttached
      BY <2>3 DEF NotAttached
    <2>8. ReceiptsInv'
      BY <1>1, <1>3, <2>1, <2>7, ReceiptsKept DEF ValidInv
    <2>9. QED
      BY <1>1, <2>6, <2>8, SameRevisionDescribed DEF ValidInv
  <1>4. QED
    BY <1>2, <1>3 DEF ResolveShared

(* A confirmed shell holds what it has applied; a resolution ends its      *)
(* conflict and gives up its delta together.                               *)
LEMMA AcknowledgeValid ==
  ASSUME TypeInv, HistoryInv, ValidInv,
         NEW s \in Shells, NEW op \in Operations, NEW revision, NEW token, NEW snap \in Snapshot,
         Acknowledge(s, op, revision, token, snap)
  PROVE  ValidInv'
  <1>. DEFINE shell == shells[s]
              observed == AdmittedSnapshot(s, snap)
              record == Acknowledged(shell, observed)
  <1>1. /\ HistoryTypes /\ ShellTypes /\ HistoryTypes' /\ SameRevision /\ Grows
        /\ shell \in ShellState /\ s \in Attached
    BY AcknowledgeType, AcknowledgeHistory DEF TypeInv, ShellTypes, Acknowledge, Attached
  <1>2. CASE UNCHANGED <<shells, receipts>>
    BY <1>1, <1>2, RepeatedValid
  <1>3. CASE /\ ~ReceiptFound(s, op)
             /\ shells' = [shells EXCEPT ![s] = record]
             /\ \E request, result : AppendReceipt(s, op, "acknowledge", request, result)
    <2>1. PICK request, result : AppendReceipt(s, op, "acknowledge", request, result)
      BY <1>3
    <2>2. Fits(shell, head')
      BY <1>1, RecordGrows DEF ValidInv, RecordsInv
    <2>3. /\ record.attachState = "at-head" /\ record.transition = "acknowledge"
          /\ record.pending = NoPending
          /\ record.appliedBaseline = observed /\ record.captureBaseline = observed
          /\ \/ record.conflict = NoConflict /\ record.unpublished = NoChanges
             \/ record.conflict = shell.conflict /\ record.unpublished = shell.unpublished
          /\ "transition" \in DOMAIN record
      BY <1>1 DEF Acknowledged, ShellState
    <2>. HIDE DEF record, observed
    <2>4. Fits(record, head')
      BY <2>2, <2>3 DEF Fits
    <2>5. Remembers(record, head', generations')
      BY <2>3 DEF Remembers, DiffSnapshot
    <2>6. RecordsInv'
      BY <1>1, <1>3, <2>4, <2>5, OneRecordChanges DEF ValidInv
    <2>7. record # NotAttached
      BY <2>3 DEF NotAttached
    <2>8. ReceiptsInv'
      BY <1>1, <1>3, <2>1, <2>7, ReceiptsKept DEF ValidInv
    <2>9. QED
      BY <1>1, <2>6, <2>8, SameRevisionDescribed DEF ValidInv
  <1>4. QED
    BY <1>2, <1>3 DEF Acknowledge

-------------------------------------------------------------------------------
(* The workflow                                                            *)

(* An empty log describes its baseline.                                    *)
LEMMA ReplayNothing ==
  ASSUME NEW from \in Snapshot
  PROVE  Replay(from, <<>>) = from
  <1>1. \A i \in Identities : Touching(<<>>, i) = {}
    BY DEF Touching
  <1>2. \A i \in Identities : Replay(from, <<>>)[i] = from[i]
    BY <1>1, ReplayValue
  <1>3. QED
    BY <1>2 DEF Replay, Snapshot

(* The first generation is one event over the empty baseline.              *)
LEMMA MaterializeValid ==
  ASSUME TypeInv, HistoryInv, ValidInv, NEW oid \in Nat, Materialize(oid)
  PROVE  ValidInv'
  <1>. DEFINE event == [revision |-> 1, by |-> {}, changes |-> DiffSnapshot(EmptySnapshot, shared')]
  <1>1. /\ events' = <<event>> /\ baseline' = EmptySnapshot
        /\ ~materialized /\ UNCHANGED <<shells, receipts>>
        /\ shared' = objects[oid].document.projection /\ oid \in DOMAIN objects
    BY DEF Materialize
  <1>2. shared' \in Snapshot /\ EmptySnapshot \in Snapshot
    BY <1>1, ObjectType, EmptyType DEF TypeInv
  <1>3. event \in Event /\ event.changes = DiffSnapshot(EmptySnapshot, shared')
    BY <1>2, DiffSnapshotType DEF Event
  <1>4. events' = Append(<<>>, event) /\ Len(events') = 1
    BY <1>1
  <1>. HIDE DEF event
  <1>5. Replay(EmptySnapshot, Append(<<>>, event)) = ApplyChanges(EmptySnapshot, event.changes)
    <2>1. Replay(EmptySnapshot, <<>>) = EmptySnapshot
      BY <1>2, ReplayNothing
    <2>2. <<>> \in Seq(Event)
      OBVIOUS
    <2>3. Replay(EmptySnapshot, Append(<<>>, event))
            = ApplyChanges(Replay(EmptySnapshot, <<>>), event.changes)
      BY <1>2, <1>3, <2>2, ReplayAppend
    <2>4. QED
      BY <2>1, <2>3
  <1>6. Replay(baseline', events') = shared'
    BY <1>1, <1>2, <1>3, <1>4, <1>5, ApplyDiff
  <1>7. LogDescribes'
    BY <1>4, <1>6, ConstantsAssumption DEF LogDescribes
  <1>8. Attached = {} /\ Attached' = {}
    BY <1>1 DEF HistoryInv, Started, Attached
  <1>9. RecordsInv' /\ ReceiptsInv'
    BY <1>1, <1>8 DEF ValidInv, RecordsInv, ReceiptsInv
  <1>10. QED
    BY <1>7, <1>9 DEF ValidInv

(* A step that leaves the history, the records and the receipts alone.     *)
LEMMA SameValid ==
  ASSUME TypeInv, HistoryInv, ValidInv, SameRevision, UNCHANGED <<materialized, shells, receipts>>
  PROVE  ValidInv'
  <1>1. HistoryTypes'
    BY SameRevisionType DEF TypeInv
  <1>2. Grows
    BY SameHistory
  <1>3. QED
    BY <1>1, <1>2, RepeatedValid

(* A checkout or reset appends the difference of the two generations; of   *)
(* a record it changes the flag only.                                      *)
LEMMA ReplaceGenerationValid ==
  ASSUME TypeInv, HistoryInv, ValidInv, materialized,
         NEW b \in Branches, NEW oid \in Nat, NEW document \in Document,
         ReplaceGeneration(b, oid, document)
  PROVE  ValidInv'
  <1>1. /\ HistoryTypes /\ HistoryTypes' /\ Grows /\ receipts' = receipts
        /\ document.projection \in Snapshot /\ shared \in Snapshot
    BY ReplaceGenerationType, ReplaceGenerationHistory
       DEF TypeInv, ReplaceGeneration, Document, HistoryTypes
  <1>2. LogDescribes'
    <2>1. CASE document.projection = shared
      BY <2>1, SameRevisionDescribed DEF ReplaceGeneration, ValidInv
    <2>2. CASE document.projection # shared
      <3>. DEFINE changes == DiffSnapshot(shared, document.projection)
      <3>1. AppendRevision({}, changes, document.projection)
        BY <2>2 DEF ReplaceGeneration
      <3>2. changes \in Changes /\ ApplyChanges(shared, changes) = document.projection
        BY <1>1, DiffSnapshotType, ApplyDiff
      <3>. HIDE DEF changes
      <3>3. QED
        BY <1>1, <3>1, <3>2, AppendRevisionDescribed DEF ValidInv
    <2>3. QED
      BY <2>1, <2>2
  <1>3. ASSUME NEW s \in Shells
        PROVE  /\ shells'[s] = NotAttached <=> shells[s] = NotAttached
               /\ shells'[s] # NotAttached => \E flag : shells'[s] = [shells[s] EXCEPT !.behind = flag]
    <2>1. CASE s \notin Attached
      BY <2>1 DEF ReplaceGeneration, Attached
    <2>2. CASE s \in Attached
      <3>1. shells[s] \in ShellState /\ shells[s] # NotAttached
        BY <2>2 DEF TypeInv, ShellTypes, Attached
      <3>2. PICK flag : shells'[s] = [shells[s] EXCEPT !.behind = flag]
        BY <2>2 DEF ReplaceGeneration
      <3>3. "transition" \in DOMAIN shells'[s]
        BY <3>1, <3>2 DEF ShellState
      <3>4. QED
        BY <3>1, <3>2, <3>3 DEF NotAttached
    <2>3. QED
      BY <2>1, <2>2
  <1>4. RecordsInv'
    BY <1>1, <1>3, RecordsKept DEF ValidInv
  <1>5. ReceiptsInv'
    BY <1>1, <1>3 DEF ValidInv, ReceiptsInv, Attached
  <1>6. QED
    BY <1>2, <1>4, <1>5 DEF ValidInv

(* A commit or branch leaves all of it alone; checkout and reset may       *)
(* replace the generation.                                                 *)
LEMMA WorkflowValid ==
  ASSUME TypeInv, HistoryInv, ValidInv, Workflow
  PROVE  ValidInv'
  <1>1. CASE \E oid \in 1 .. MaxObjects : Materialize(oid)
    BY <1>1, MaterializeValid
  <1>2. CASE \/ Repair \/ Commit \/ CommitSplit
             \/ \E b \in Branches : Branch(b) \/ BranchSplit(b)
             \/ \E enabled \in AutoApplySettings : SetAutoApplyDefault(enabled)
    <2>1. SameRevision /\ UNCHANGED <<materialized, shells, receipts>>
      BY <1>2 DEF Repair, Commit, CommitSplit, Branch, BranchSplit, SetAutoApplyDefault, state, SameRevision
    <2>2. QED
      BY <2>1, SameValid
  <1>3. ASSUME NEW b \in Branches, NEW create \in BOOLEAN, Checkout(b, create)
        PROVE  ValidInv'
    <2>1. RepositoryTypes' /\ objects' = objects
      BY <1>3, CreateFromType DEF Checkout, TypeInv, RepositoryTypes
    <2>2. refs'[b] \in DOMAIN objects
      BY <1>3, <2>1 DEF Checkout, NoOID, RepositoryTypes
    <2>3. refs'[b] \in Nat /\ objects[refs'[b]].document \in Document
      BY <2>2, ObjectType DEF TypeInv
    <2>4. QED
      BY <1>3, <2>1, <2>3, ReplaceGenerationValid DEF Checkout, CheckoutAllowed
  <1>4. CASE ResetHard
    <2>1. baseOID \in DOMAIN objects /\ branch \in Branches
      BY <1>4 DEF ResetHard, TypeInv, BaseExists, BaseTypes
    <2>2. baseOID \in Nat /\ objects[baseOID].document \in Document
      BY <2>1, ObjectType DEF TypeInv
    <2>3. QED
      BY <1>4, <2>1, <2>2, ReplaceGenerationValid DEF ResetHard
  <1>5. QED
    BY <1>1, <1>2, <1>3, <1>4 DEF Workflow

-------------------------------------------------------------------------------
(* The theorems                                                            *)

(* Before the first generation the log is empty and nobody is attached.    *)
LEMMA ValidInit == Init => ValidInv
  <1>. SUFFICES ASSUME Init PROVE ValidInv
    OBVIOUS
  <1>1. LogDescribes
    BY EmptyType, ReplayNothing, ConstantsAssumption DEF Init, LogDescribes
  <1>2. Attached = {} /\ \A s \in Shells : receipts[s] = <<>>
    BY DEF Init, Attached
  <1>3. ReceiptsInv /\ RecordsInv
    BY <1>2, ConstantsAssumption DEF ReceiptsInv, ValidReceipts, RecordsInv
  <1>4. QED
    BY <1>1, <1>3 DEF ValidInv

(* Every step preserves the invariant.                                     *)
LEMMA ValidNext == TypeInv /\ HistoryInv /\ ValidInv /\ [Next]_vars => ValidInv'
  <1>. SUFFICES ASSUME TypeInv, HistoryInv, ValidInv, [Next]_vars PROVE ValidInv'
    OBVIOUS
  <1>1. CASE UNCHANGED state
    <2>1. SameRevision /\ UNCHANGED <<materialized, shells, receipts>>
      BY <1>1 DEF state, SameRevision
    <2>2. QED
      BY <2>1, SameValid
  <1>2. ASSUME NEW s \in Shells, Sync(s) PROVE ValidInv'
    BY <1>2, SyncCases, AttachValid, PublishValid, PreparePullValid, ResolveSharedValid,
       AcknowledgeValid
  <1>3. CASE Workflow
    BY <1>3, WorkflowValid
  <1>4. QED
    BY <1>1, <1>2, <1>3 DEF Next, Ingest, vars

(* The three invariants, of every reachable state.                         *)
LEMMA ValidInvariant == Spec => [](TypeInv /\ HistoryInv /\ ValidInv)
  <1>1. Init => TypeInv /\ HistoryInv /\ ValidInv
    BY TypeInit, HistoryInit, ValidInit
  <1>2. TypeInv /\ HistoryInv /\ ValidInv /\ [Next]_vars => (TypeInv /\ HistoryInv /\ ValidInv)'
    BY TypeNext, HistoryNext, ValidNext
  <1>3. QED
    BY <1>1, <1>2, PTL DEF Spec

(* Whatever state a handler leaves passes ValidateState, so that no        *)
(* operation is answered forever with an invalid-state error: the log is   *)
(* bounded and replays to the shared generation through any compaction,    *)
(* the receipts are bounded and unique, every record fits together.        *)
THEOREM StateStaysValid == Spec => []ValidState
  <1>1. ASSUME TypeInv, HistoryInv, ValidInv PROVE ValidState
    <2>1. ValidHistory
      BY <1>1 DEF HistoryInv, LogInv, EventsNumbered, ValidInv, LogDescribes, ValidHistory
    <2>2. ASSUME NEW s \in Attached PROVE ValidShell(shells[s]) /\ ValidReceipts(receipts[s])
      <3>. DEFINE shell == shells[s]
      <3>1. shell \in ShellState /\ head \in Nat
        BY <1>1 DEF TypeInv, ShellTypes, HistoryTypes, Attached
      <3>2. ShellHistory(shell, head, generations) /\ Fits(shell, head)
        BY <1>1 DEF HistoryInv, ShellsInv, ValidInv, RecordsInv
      <3>3. ValidReceipts(receipts[s])
        BY <1>1 DEF ValidInv, ReceiptsInv, Attached
      <3>4. shell.appliedRevision \in Nat
        BY <3>1 DEF ShellState
      <3>. HIDE DEF shell
      <3>5. ASSUME shell.pending # NoPending
            PROVE  shell.pending.revision \in (1 .. head) \ (0 .. shell.appliedRevision - 1)
        BY <3>1, <3>2, <3>4, <3>5 DEF ShellHistory
      <3>6. ValidShell(shell)
        BY <3>2, <3>5 DEF ShellHistory, Fits, ValidShell
      <3>7. QED
        BY <3>3, <3>6 DEF shell
    <2>3. QED
      BY <2>1, <2>2 DEF ValidState
  <1>2. QED
    BY <1>1, ValidInvariant, PTL

(* A change that the service captured in a terminal since the generation   *)
(* it confirmed was published in some later revision or is still in the    *)
(* terminal's unpublished delta, whatever conflicts, pulls, checkouts and  *)
(* resets came between.                                                    *)
THEOREM NothingForgotten == Spec => []NoCapturedChangeForgotten
  <1>1. ValidInv => NoCapturedChangeForgotten
    BY DEF ValidInv, RecordsInv, Remembers, NoCapturedChangeForgotten
  <1>2. QED
    BY <1>1, ValidInvariant, PTL

(* A terminal that status does not report as behind holds the shared       *)
(* generation, as far as the service ever saw it.                          *)
THEOREM UpToDateIsShared == Spec => []UpToDateHoldsShared
  <1>1. ASSUME TypeInv, HistoryInv, ValidInv PROVE UpToDateHoldsShared
    <2>. SUFFICES ASSUME NEW s \in Attached, ~StatusBehind(s)
                  PROVE  shells[s].captureBaseline = shared
      BY DEF UpToDateHoldsShared
    <2>. DEFINE shell == shells[s]
    <2>1. shell \in ShellState /\ head \in Nat /\ shared \in Snapshot
      BY <1>1 DEF TypeInv, ShellTypes, HistoryTypes, Attached
    <2>2. ShellHistory(shell, head, generations) /\ Fits(shell, head) /\ Remembers(shell, head, generations)
      BY <1>1 DEF HistoryInv, ShellsInv, ValidInv, RecordsInv
    <2>3. shell.conflict = NoConflict /\ ~(shell.appliedRevision < head) /\ shell.appliedBaseline = shared
      BY DEF StatusBehind
    <2>4. head # 0
      BY <1>1 DEF HistoryInv, Started
    <2>5. shell.appliedRevision \in Nat /\ shell.captureBaseline \in Snapshot
      BY <2>1 DEF ShellState
    <2>. HIDE DEF shell
    <2>6. shell.appliedRevision = head
      BY <2>1, <2>2, <2>3, <2>5 DEF ShellHistory
    <2>7. shell.unpublished = NoChanges
      BY <2>2, <2>3 DEF Fits
    <2>8. DOMAIN DiffSnapshot(shared, shell.captureBaseline) = {}
      <3>1. head + 1 .. head = {} /\ DOMAIN NoChanges = {}
        BY <2>1 DEF NoChanges
      <3>2. QED
        BY <2>2, <2>3, <2>4, <2>6, <2>7, <3>1 DEF Remembers
    <2>9. \A i \in Identities : shared[i] = shell.captureBaseline[i]
      BY <2>8 DEF DiffSnapshot
    <2>10. shell.captureBaseline = shared
      BY <2>1, <2>5, <2>9 DEF Snapshot
    <2>11. QED
      BY <2>10 DEF shell
  <1>2. QED
    BY <1>1, ValidInvariant, PTL

-------------------------------------------------------------------------------
(* Requests that are delivered again                                       *)

(* The events of a step: those that were retained, the oldest of them      *)
(* possibly dropped, and at most one more, at the end, of one author.      *)
Follow(by) == \E d \in {0, 1} : \A k \in DOMAIN events' :
  \/ k + d \in DOMAIN events /\ events'[k].by = events[k + d].by
  \/ k = Len(events') /\ events'[k].by = by

LEMMA SameFollow ==
  ASSUME HistoryTypes, UNCHANGED events, NEW by
  PROVE  Follow(by)
  <1>1. \A k \in DOMAIN events' : k + 0 \in DOMAIN events /\ events'[k].by = events[k + 0].by
    BY DEF HistoryTypes
  <1>2. QED
    BY <1>1 DEF Follow

LEMMA AppendFollows ==
  ASSUME HistoryTypes, NEW by \in SUBSET (Shells \X Operations), NEW changes \in Changes, NEW next,
         AppendRevision(by, changes, next)
  PROVE  Follow(by)
  <1>. DEFINE event == [revision |-> head + 1, by |-> by, changes |-> changes]
              log == Append(events, event)
              n == Len(events)
  <1>1. event \in Event /\ event.by = by
    BY DEF HistoryTypes, Event
  <1>2. events \in Seq(Event) /\ n \in Nat /\ DOMAIN events = 1 .. n
    BY DEF HistoryTypes
  <1>3. events' = log \/ events' = Tail(log)
    BY DEF AppendRevision
  <1>. HIDE DEF event
  <1>4. /\ log \in Seq(Event) /\ Len(log) = n + 1 /\ DOMAIN log = 1 .. n + 1 /\ log[n + 1] = event
        /\ \A k \in 1 .. n : log[k] = events[k]
    BY <1>1, <1>2
  <1>5. /\ Len(Tail(log)) = n /\ DOMAIN Tail(log) = 1 .. n
        /\ \A k \in 1 .. n : Tail(log)[k] = log[k + 1]
    BY <1>4
  <1>. HIDE DEF log
  <1>6. CASE events' = log
    <2>1. ASSUME NEW k \in DOMAIN events'
          PROVE  \/ k + 0 \in DOMAIN events /\ events'[k].by = events[k + 0].by
                 \/ k = Len(events') /\ events'[k].by = by
      BY <1>1, <1>2, <1>4, <1>6
    <2>2. QED
      BY <2>1 DEF Follow
  <1>7. CASE events' = Tail(log)
    <2>1. ASSUME NEW k \in DOMAIN events'
          PROVE  \/ k + 1 \in DOMAIN events /\ events'[k].by = events[k + 1].by
                 \/ k = Len(events') /\ events'[k].by = by
      <3>1. CASE k = n
        BY <1>1, <1>2, <1>4, <1>5, <1>7, <3>1
      <3>2. CASE k # n
        BY <1>2, <1>4, <1>5, <1>7, <3>2
      <3>3. QED
        BY <3>1, <3>2
    <2>2. QED
      BY <2>1 DEF Follow
  <1>8. QED
    BY <1>3, <1>6, <1>7

LEMMA ReplaceGenerationFollows ==
  ASSUME TypeInv, NEW b, NEW oid, NEW document \in Document, ReplaceGeneration(b, oid, document)
  PROVE  Follow({})
  <1>1. HistoryTypes
    BY DEF TypeInv
  <1>2. CASE document.projection = shared
    BY <1>1, <1>2, SameFollow DEF ReplaceGeneration, SameRevision
  <1>3. CASE document.projection # shared
    <2>. DEFINE changes == DiffSnapshot(shared, document.projection)
    <2>1. AppendRevision({}, changes, document.projection)
      BY <1>3 DEF ReplaceGeneration
    <2>2. changes \in Changes
      BY <1>1, DiffSnapshotType DEF HistoryTypes, Document
    <2>. HIDE DEF changes
    <2>3. QED
      BY <1>1, <2>1, <2>2, AppendFollows
  <1>4. QED
    BY <1>2, <1>3

LEMMA PublishFollows ==
  ASSUME TypeInv, NEW s \in Shells, NEW op \in Operations, NEW ack \in Nat, NEW delta \in Changes,
         Publish(s, op, ack, delta)
  PROVE  Follow({<<s, op>>})
  <1>. DEFINE observed == Observed(s, delta)
              accepted == Wanted(s, observed) \ Losing(ack, Wanted(s, observed))
              changes == Only(observed, accepted)
  <1>1. HistoryTypes /\ shells[s] \in ShellState
    BY DEF TypeInv, ShellTypes, Publish, Attached
  <1>2. observed \in Snapshot
    BY <1>1, OnlyType, ApplyChangesType DEF Observed, ShellState
  <1>3. changes \in Changes
    BY <1>2, OnlyType
  <1>4. \/ SameRevision
        \/ AppendRevision({<<s, op>>}, changes, ApplyChanges(shared, changes))
    BY DEF Publish
  <1>5. {<<s, op>>} \in SUBSET (Shells \X Operations)
    OBVIOUS
  <1>. HIDE DEF changes
  <1>6. QED
    BY <1>1, <1>3, <1>4, <1>5, SameFollow, AppendFollows DEF SameRevision

(* A step appends an event without author, or it is a publication.         *)
LEMMA StepFollows ==
  ASSUME TypeInv, [Next]_vars
  PROVE  \/ Follow({})
         \/ \E s \in Shells, op \in Operations, ack \in Nat, delta \in Changes :
              Publish(s, op, ack, delta) /\ Follow({<<s, op>>})
  <1>1. HistoryTypes
    BY DEF TypeInv
  <1>2. ASSUME UNCHANGED events PROVE Follow({})
    BY <1>1, <1>2, SameFollow
  <1>3. ASSUME NEW s \in Shells, NEW op \in Operations,
               \/ \E initial \in Snapshot : Attach(s, op, initial)
               \/ \E applied \in Nat : PreparePull(s, op, applied)
               \/ \E identity, token : \E snap \in Snapshot : ResolveShared(s, op, identity, token, snap)
               \/ \E revision, token : \E snap \in Snapshot : Acknowledge(s, op, revision, token, snap)
        PROVE  Follow({})
    <2>1. \A initial : Attach(s, op, initial) => SameRevision
      BY DEF Attach
    <2>2. \A applied : PreparePull(s, op, applied) => SameRevision
      BY DEF PreparePull
    <2>3. \A identity, token, snap : ResolveShared(s, op, identity, token, snap) => SameRevision
      BY DEF ResolveShared
    <2>4. \A revision, token, snap : Acknowledge(s, op, revision, token, snap) => SameRevision
      BY DEF Acknowledge
    <2>5. SameRevision
      BY <1>3, <2>1, <2>2, <2>3, <2>4
    <2>6. QED
      BY <1>2, <2>5 DEF SameRevision
  <1>4. CASE \E oid \in 1 .. MaxObjects : Materialize(oid)
    <2>1. PICK changes : events' = <<[revision |-> 1, by |-> {}, changes |-> changes]>>
      BY <1>4 DEF Materialize
    <2>2. DOMAIN events' = {1} /\ Len(events') = 1 /\ events'[1].by = {}
      BY <2>1
    <2>3. QED
      BY <2>2 DEF Follow
  <1>5. CASE \/ Repair \/ Commit \/ CommitSplit
             \/ \E b \in Branches : Branch(b) \/ BranchSplit(b)
             \/ \E enabled \in AutoApplySettings : SetAutoApplyDefault(enabled)
    BY <1>2, <1>5 DEF Repair, Commit, CommitSplit, Branch, BranchSplit, SetAutoApplyDefault, state,
                      SameRevision
  <1>6. ASSUME NEW b \in Branches, NEW create \in BOOLEAN, Checkout(b, create)
        PROVE  Follow({})
    <2>1. RepositoryTypes' /\ objects' = objects
      BY <1>6, CreateFromType DEF Checkout, TypeInv, RepositoryTypes
    <2>2. refs'[b] \in DOMAIN objects
      BY <1>6, <2>1 DEF Checkout, NoOID, RepositoryTypes
    <2>3. objects[refs'[b]].document \in Document
      BY <2>2, ObjectType DEF TypeInv
    <2>4. QED
      BY <1>6, <2>1, <2>3, ReplaceGenerationFollows DEF Checkout
  <1>7. CASE ResetHard
    <2>1. objects[baseOID].document \in Document
      BY <1>7, ObjectType DEF ResetHard, TypeInv, BaseExists
    <2>2. QED
      BY <1>7, <2>1, ReplaceGenerationFollows DEF ResetHard
  <1>8. CASE Workflow
    BY <1>4, <1>5, <1>6, <1>7, <1>8 DEF Workflow
  <1>9. ASSUME NEW s \in Shells, Sync(s)
        PROVE  \/ Follow({})
               \/ \E op \in Operations, ack \in Nat, delta \in Changes :
                    Publish(s, op, ack, delta) /\ Follow({<<s, op>>})
    <2>1. ASSUME NEW op \in Operations, NEW ack \in Nat, NEW delta \in Changes,
                 Publish(s, op, ack, delta)
          PROVE  Follow({<<s, op>>})
      BY <2>1, PublishFollows
    <2>2. QED
      BY <1>3, <1>9, <2>1, SyncCases
  <1>10. QED
    BY <1>2, <1>8, <1>9 DEF Next, Ingest, vars, state

(* A publication leaves its receipt.                                       *)
LEMMA PublishReceipt ==
  ASSUME TypeInv, MaxReceipts > 0, NEW s \in Shells, NEW op, NEW ack, NEW delta, Publish(s, op, ack, delta)
  PROVE  ~ReceiptFound(s, op) /\ ReceiptFound(s, op)'
  <1>1. PICK request, result : AppendReceipt(s, op, "publish", request, result)
    BY DEF Publish
  <1>. DEFINE receipt == [op |-> op, kind |-> "publish", request |-> request, result |-> result]
              log == Append(receipts[s], receipt)
  <1>2. receipts \in [Shells -> Seq(Receipt)] /\ MaxReceipts \in Nat
    BY ConstantsAssumption DEF TypeInv, ShellTypes
  <1>3. receipt.op = op
    OBVIOUS
  <1>4. receipts'[s] = IF Len(log) > MaxReceipts THEN Tail(log) ELSE log
    BY <1>1, <1>2 DEF AppendReceipt
  <1>. DEFINE n == Len(receipts[s]) + 1
  <1>. HIDE DEF receipt
  <1>5. n \in Nat /\ n >= 1 /\ Len(log) = n /\ log[n] = receipt /\ n \in DOMAIN log
    BY <1>2
  <1>6. CASE Len(log) > MaxReceipts
    <2>1. n - 1 \in DOMAIN Tail(log) /\ Tail(log)[n - 1] = log[n]
      <3>1. n - 1 >= 1
        BY <1>2, <1>5, <1>6
      <3>2. Len(log) = n /\ log \in Seq(Receipt \union {receipt})
        BY <1>2, <1>5
      <3>. HIDE DEF log
      <3>3. QED
        BY <1>5, <3>1, <3>2
    <2>2. QED
      BY <1>3, <1>4, <1>5, <1>6, <2>1 DEF Publish, ReceiptFound
  <1>7. CASE ~(Len(log) > MaxReceipts)
    BY <1>3, <1>4, <1>5, <1>7 DEF Publish, ReceiptFound
  <1>8. QED
    BY <1>6, <1>7

(* One request made at most one of the retained revisions, and while it    *)
(* has its receipt it makes no other.                                      *)
Made(s, op, k) == k \in DOMAIN events /\ events[k].by = {<<s, op>>}
Once(s, op) ==
  /\ \A j, k \in DOMAIN events : Made(s, op, j) /\ Made(s, op, k) => j = k
  /\ (\E k \in DOMAIN events : Made(s, op, k)) => ReceiptFound(s, op)
ReceiptKept(s, op) == ReceiptFound(s, op) => ReceiptFound(s, op)'

LEMMA OnceNext ==
  ASSUME TypeInv, MaxReceipts > 0, NEW s \in Shells, NEW op \in Operations,
         Once(s, op), [Next]_vars, ReceiptKept(s, op)
  PROVE  Once(s, op)'
  <1>1. events \in Seq(Event) /\ events' \in Seq(Event)
    BY TypeNext DEF TypeInv, HistoryTypes
  <1>2. Len(events) \in Nat /\ DOMAIN events = 1 .. Len(events)
        /\ Len(events') \in Nat /\ DOMAIN events' = 1 .. Len(events')
    BY <1>1
  <1>3. ASSUME NEW by, by # {<<s, op>>}, Follow(by)
        PROVE  Once(s, op)'
    <2>1. PICK d \in {0, 1} : \A k \in DOMAIN events' :
            \/ k + d \in DOMAIN events /\ events'[k].by = events[k + d].by
            \/ k = Len(events') /\ events'[k].by = by
      BY <1>3 DEF Follow
    <2>2. ASSUME NEW k \in DOMAIN events', Made(s, op, k)'
          PROVE  k + d \in DOMAIN events /\ Made(s, op, k + d)
      BY <1>3, <2>1, <2>2 DEF Made
    <2>3. ASSUME NEW j \in DOMAIN events', NEW k \in DOMAIN events', Made(s, op, j)', Made(s, op, k)'
          PROVE  j = k
      <3>1. j + d = k + d
        BY <2>2, <2>3 DEF Once
      <3>2. QED
        BY <1>2, <3>1
    <2>4. (\E k \in DOMAIN events' : Made(s, op, k)') => ReceiptFound(s, op)'
      BY <2>2 DEF Once, ReceiptKept
    <2>5. QED
      BY <2>3, <2>4 DEF Once
  <1>4. ASSUME NEW ack, NEW delta, Publish(s, op, ack, delta), Follow({<<s, op>>})
        PROVE  Once(s, op)'
    <2>1. ~ReceiptFound(s, op) /\ ReceiptFound(s, op)'
      BY <1>4, PublishReceipt
    <2>2. \A k \in DOMAIN events : ~Made(s, op, k)
      BY <2>1 DEF Once
    <2>3. \A k \in DOMAIN events' : Made(s, op, k)' => k = Len(events')
      BY <1>4, <2>2 DEF Follow, Made
    <2>4. QED
      BY <2>1, <2>3 DEF Once
  <1>5. ASSUME NEW t \in Shells, NEW other \in Operations, NEW ack, NEW delta,
               Publish(t, other, ack, delta), Follow({<<t, other>>})
        PROVE  Once(s, op)'
    <2>1. CASE t = s /\ other = op
      BY <1>4, <1>5, <2>1
    <2>2. CASE ~(t = s /\ other = op)
      <3>1. <<t, other>> # <<s, op>>
        BY <2>2
      <3>2. {<<t, other>>} # {<<s, op>>}
        BY <3>1, Zenon
      <3>3. QED
        BY <1>3, <1>5, <3>2
    <2>3. QED
      BY <2>1, <2>2
  <1>6. {} # {<<s, op>>}
    OBVIOUS
  <1>7. QED
    BY <1>3, <1>5, <1>6, StepFollows

LEMMA OnceInit == \A s \in Shells, op \in Operations : Init => Once(s, op)
  BY DEF Init, Once, Made

(* Every author is nobody or one request of one terminal.                  *)
Authored == \A k \in DOMAIN events :
  events[k].by = {} \/ \E s \in Shells, op \in Operations : events[k].by = {<<s, op>>}

LEMMA AuthoredNext == TypeInv /\ Authored /\ [Next]_vars => Authored'
  <1>. SUFFICES ASSUME TypeInv, Authored, [Next]_vars PROVE Authored'
    OBVIOUS
  <1>1. PICK by : /\ by = {} \/ \E s \in Shells, op \in Operations : by = {<<s, op>>}
                  /\ Follow(by)
    BY StepFollows
  <1>2. PICK d \in {0, 1} : \A k \in DOMAIN events' :
          \/ k + d \in DOMAIN events /\ events'[k].by = events[k + d].by
          \/ k = Len(events') /\ events'[k].by = by
    BY <1>1 DEF Follow
  <1>3. QED
    BY <1>1, <1>2 DEF Authored

(* No terminal loses a receipt: none of them had MaxReceipts requests      *)
(* answered since.                                                         *)
NoReceiptEvicted == \A s \in Shells, op \in Operations : ReceiptKept(s, op)

(* A request is delivered once for as long as its own receipt is kept,     *)
(* whatever becomes of the others: a publish that the helper sends again,  *)
(* at any time and across any compaction of the log, makes no second       *)
(* revision.                                                               *)
THEOREM RequestDeliveredOnce ==
  ASSUME MaxReceipts > 0, NEW s \in Shells, NEW op \in Operations
  PROVE  Spec /\ [][ReceiptKept(s, op)]_vars => []Once(s, op)
  <1>1. TypeInv /\ Once(s, op) /\ [Next]_vars /\ [ReceiptKept(s, op)]_vars => Once(s, op)'
    <2>1. UNCHANGED vars => ReceiptKept(s, op)
      BY DEF vars, state, ReceiptKept, ReceiptFound
    <2>2. QED
      BY <2>1, OnceNext
  <1>2. Init => Once(s, op)
    BY OnceInit
  <1>3. QED
    BY <1>1, <1>2, Invariant, PTL DEF Spec

(* So no operation id makes two revisions until a terminal has had more    *)
(* requests answered than receipts are kept.                               *)
THEOREM DeliveredOnce ==
  ASSUME MaxReceipts > 0
  PROVE  Spec /\ [][NoReceiptEvicted]_vars => []NoDuplicateRevision
  <1>. DEFINE OnceInv == Authored /\ \A s \in Shells, op \in Operations : Once(s, op)
  <1>1. TypeInv /\ OnceInv /\ [Next]_vars /\ [NoReceiptEvicted]_vars => OnceInv'
    <2>1. UNCHANGED vars => NoReceiptEvicted
      BY DEF vars, state, NoReceiptEvicted, ReceiptKept, ReceiptFound
    <2>2. QED
      BY <2>1, OnceNext, AuthoredNext DEF NoReceiptEvicted
  <1>2. Init => OnceInv
    BY OnceInit DEF Init, Authored
  <1>3. OnceInv => NoDuplicateRevision
    BY DEF Authored, Once, Made, NoDuplicateRevision
  <1>. HIDE DEF OnceInv
  <1>4. QED
    BY <1>1, <1>2, <1>3, Invariant, PTL DEF Spec

(* A step that drops a receipt drops the oldest one, of a terminal that    *)
(* holds as many as it may, and leaves the other terminals alone.          *)
EvictsOldest == \A s \in Shells, op \in Operations : ~ReceiptKept(s, op) =>
  /\ Len(receipts[s]) = MaxReceipts /\ receipts[s][1].op = op
  /\ \A t \in Shells \ {s} : receipts'[t] = receipts[t]

(* A new receipt does that,                                                *)
LEMMA NewReceiptEvictsOldest ==
  ASSUME ShellTypes, ReceiptsInv, NEW s \in Shells, NEW op \in Operations, NEW kind, NEW request,
         NEW result, ~ReceiptFound(s, op), AppendReceipt(s, op, kind, request, result)
  PROVE  EvictsOldest
  <1>. DEFINE receipt == [op |-> op, kind |-> kind, request |-> request, result |-> result]
              old == receipts[s]
              log == Append(old, receipt)
              n == Len(old)
  <1>1. receipts \in [Shells -> Seq(Receipt)] /\ MaxReceipts \in Nat
    BY ConstantsAssumption DEF ShellTypes
  <1>2. old \in Seq(Receipt) /\ n \in Nat /\ DOMAIN old = 1 .. n /\ n <= MaxReceipts
    BY <1>1 DEF ReceiptsInv, ValidReceipts
  <1>3. /\ receipts'[s] = IF Len(log) > MaxReceipts THEN Tail(log) ELSE log
        /\ \A t \in Shells \ {s} : receipts'[t] = receipts[t]
    BY <1>1 DEF AppendReceipt
  <1>4. \A t \in Shells \ {s}, other \in Operations : ReceiptKept(t, other)
    BY <1>3 DEF ReceiptKept, ReceiptFound
  <1>5. Len(log) = n + 1 /\ DOMAIN log = 1 .. n + 1 /\ \A k \in 1 .. n : log[k] = old[k]
    BY <1>2
  <1>6. CASE ~(Len(log) > MaxReceipts)
    <2>1. \A k \in DOMAIN old : k \in DOMAIN receipts'[s] /\ receipts'[s][k] = old[k]
      BY <1>2, <1>3, <1>5, <1>6
    <2>2. \A other \in Operations : ReceiptKept(s, other)
      BY <2>1 DEF ReceiptKept, ReceiptFound
    <2>3. QED
      BY <1>4, <2>2 DEF EvictsOldest
  <1>7. CASE Len(log) > MaxReceipts
    <2>1. n = MaxReceipts
      <3>1. Len(log) = n + 1
        BY <1>5
      <3>. HIDE DEF log, n
      <3>2. QED
        BY <1>1, <1>2, <1>7, <3>1
    <2>2. log = [k \in 1 .. n + 1 |-> log[k]]
      BY <1>2
    <2>. HIDE DEF log
    <2>3. log \in Seq({log[k] : k \in DOMAIN log})
      BY <1>2, <1>5, <2>2
    <2>4. DOMAIN Tail(log) = 1 .. n /\ \A k \in 1 .. n : Tail(log)[k] = log[k + 1]
      BY <1>2, <1>5, <2>3
    <2>5. \A k \in 2 .. n : k - 1 \in DOMAIN receipts'[s] /\ receipts'[s][k - 1] = old[k]
      BY <1>2, <1>3, <1>5, <1>7, <2>4
    <2>6. ASSUME NEW other \in Operations, ~ReceiptKept(s, other)
          PROVE  receipts[s][1].op = other
      <3>1. PICK k \in DOMAIN old : old[k].op = other
        BY <2>6 DEF ReceiptKept, ReceiptFound
      <3>2. k \notin 2 .. n
        BY <2>5, <2>6, <3>1 DEF ReceiptKept, ReceiptFound
      <3>3. k = 1
        BY <1>2, <3>1, <3>2
      <3>4. QED
        BY <3>1, <3>3
    <2>7. QED
      BY <1>3, <1>4, <2>1, <2>6 DEF EvictsOldest
  <1>8. QED
    BY <1>6, <1>7

(* and so does every step.                                                 *)
LEMMA StepEvictsOldest ==
  ASSUME TypeInv, ReceiptsInv, [Next]_vars
  PROVE  EvictsOldest
  <1>1. ShellTypes
    BY DEF TypeInv
  <1>2. CASE UNCHANGED receipts
    BY <1>2 DEF EvictsOldest, ReceiptKept, ReceiptFound
  <1>3. ASSUME NEW s \in Shells, NEW op \in Operations, NEW initial, Attach(s, op, initial)
        PROVE  EvictsOldest
    <2>1. receipts[s] = <<>>
      BY <1>3 DEF Attach, ReceiptsInv, Attached
    <2>2. ~ReceiptFound(s, op)
      BY <2>1 DEF ReceiptFound
    <2>3. QED
      BY <1>1, <1>3, <2>2, NewReceiptEvictsOldest DEF Attach
  <1>4. ASSUME NEW s \in Shells, NEW op \in Operations, NEW ack, NEW delta, Publish(s, op, ack, delta)
        PROVE  EvictsOldest
    BY <1>1, <1>4, NewReceiptEvictsOldest DEF Publish
  <1>5. ASSUME NEW s \in Shells, NEW op \in Operations, NEW applied, PreparePull(s, op, applied)
        PROVE  EvictsOldest
    BY <1>1, <1>5, NewReceiptEvictsOldest DEF PreparePull
  <1>6. ASSUME NEW s \in Shells, NEW op \in Operations, NEW identity, NEW token, NEW snap,
               ResolveShared(s, op, identity, token, snap)
        PROVE  EvictsOldest
    BY <1>1, <1>2, <1>6, NewReceiptEvictsOldest DEF ResolveShared
  <1>7. ASSUME NEW s \in Shells, NEW op \in Operations, NEW revision, NEW token, NEW snap,
               Acknowledge(s, op, revision, token, snap)
        PROVE  EvictsOldest
    BY <1>1, <1>2, <1>7, NewReceiptEvictsOldest DEF Acknowledge
  <1>8. ASSUME NEW s \in Shells, Sync(s) PROVE EvictsOldest
    BY <1>3, <1>4, <1>5, <1>6, <1>7, <1>8 DEF Sync
  <1>9. CASE Workflow
    <2>1. UNCHANGED receipts
      BY <1>9 DEF Workflow, Materialize, Repair, Commit, CommitSplit, Branch, BranchSplit, Checkout,
                  ResetHard, ReplaceGeneration, SetAutoApplyDefault, state
    <2>2. QED
      BY <1>2, <2>1
  <1>10. QED
    BY <1>2, <1>8, <1>9 DEF Next, Ingest, vars, state

(* The only receipt a terminal ever loses is its oldest, when it holds the *)
(* most it may: so the one a publish needs outlives the next MaxReceipts-1 *)
(* requests of its own terminal and every request of the others            *)
(* (appendReceipt, service.go).                                            *)
THEOREM OnlyTheOldestForgotten == Spec => [][EvictsOldest]_vars
  <1>1. TypeInv /\ ValidInv /\ [Next]_vars => [EvictsOldest]_vars
    BY StepEvictsOldest DEF ValidInv
  <1>2. QED
    BY <1>1, ValidInvariant, PTL DEF Spec
===============================================================================
