---------------------------- MODULE ShellSync_proofs ---------------------------
(***************************************************************************)
(* What a terminal's hook believes is true of its live environment and of  *)
(* the service, whatever requests and replies are lost: its variables keep *)
(* their shape, it never counts itself synchronized at a generation it     *)
(* does not hold, a pull brings in only what others changed, and whatever  *)
(* becomes of a transition it can be undone.                               *)
(***************************************************************************)
EXTENDS ShellSync, WorktreeState_proofs, WorktreeWorkflow_proofs, FiniteSetTheorems

-------------------------------------------------------------------------------
(* A fresh operation id                                                    *)

LEMMA OneMore ==
  ASSUME NEW S, NEW x, NEW n \in Nat, IsFiniteSet(S), Cardinality(S) <= n
  PROVE  IsFiniteSet(S \union {x}) /\ Cardinality(S \union {x}) <= n + 1
  <1>1. Cardinality(S) \in Nat
    BY FS_CardinalityType
  <1>2. /\ IsFiniteSet(S \union {x})
        /\ Cardinality(S \union {x}) = IF x \in S THEN Cardinality(S) ELSE Cardinality(S) + 1
    BY FS_AddElement
  <1>3. QED
    BY <1>1, <1>2

(* A sequence has no more operation ids than elements.                     *)
LEMMA FewOperations ==
  ASSUME NEW log \in Seq(Receipt)
  PROVE  /\ IsFiniteSet({log[k].op : k \in DOMAIN log})
         /\ Cardinality({log[k].op : k \in DOMAIN log}) <= Len(log)
  <1>. DEFINE ids == {log[k].op : k \in DOMAIN log}
              f == [k \in 1 .. Len(log) |-> log[k].op]
  <1>1. Len(log) \in Nat /\ DOMAIN log = 1 .. Len(log)
    OBVIOUS
  <1>2. f \in Surjection(1 .. Len(log), ids)
    <2>1. f \in [1 .. Len(log) -> ids]
      BY <1>1
    <2>2. \A id \in ids : \E k \in 1 .. Len(log) : f[k] = id
      BY <1>1
    <2>. HIDE DEF f, ids
    <2>3. QED
      BY <2>1, <2>2 DEF Surjection
  <1>3. IsFiniteSet(1 .. Len(log)) /\ Cardinality(1 .. Len(log)) = Len(log)
    BY <1>1, FS_Interval
  <1>4. IsFiniteSet(ids) /\ Cardinality(ids) <= Cardinality(1 .. Len(log))
    BY <1>2, <1>3, FS_Surjection
  <1>5. QED
    BY <1>3, <1>4

(* _zp_worktree_next_operation: there is an id no request and no record    *)
(* refers to, whatever the receipts hold.                                  *)
LEMMA FreshOperation ==
  ASSUME ShellTypes, ReceiptsInv, NEW s \in Shells
  PROVE  NewOperation(s) \in Operations \ Used(s)
  <1>. DEFINE t == terminals[s]
              R0 == {receipts[s][k].op : k \in DOMAIN receipts[s]}
              R1 == R0 \union {t.attachOp}
              R2 == R1 \union {t.prepareOp}
              R3 == R2 \union {t.resolveOp}
              R4 == R3 \union {t.ackOp}
              R5 == R4 \union {shells[s].pending.token.op}
              R6 == R5 \union {shells[s].conflict.token.op}
              R7 == R6 \union {t.conflict.token.op}
  <1>1. Used(s) \subseteq R7
    BY DEF Used
  <1>2. receipts[s] \in Seq(Receipt) /\ Len(receipts[s]) <= MaxReceipts /\ MaxReceipts \in Nat
    BY ConstantsAssumption DEF ShellTypes, ReceiptsInv, ValidReceipts
  <1>3. IsFiniteSet(R0) /\ Cardinality(R0) <= MaxReceipts
    <2>1. IsFiniteSet(R0) /\ Cardinality(R0) <= Len(receipts[s])
      BY <1>2, FewOperations
    <2>2. Cardinality(R0) \in Nat /\ Len(receipts[s]) \in Nat
      BY <1>2, <2>1, FS_CardinalityType
    <2>3. QED
      BY <1>2, <2>1, <2>2
  <1>. HIDE DEF R0
  <1>4. IsFiniteSet(R1) /\ Cardinality(R1) <= MaxReceipts + 1
    BY <1>2, <1>3, OneMore
  <1>. HIDE DEF R1
  <1>5. IsFiniteSet(R2) /\ Cardinality(R2) <= MaxReceipts + 2
    BY <1>2, <1>4, OneMore, MaxReceipts + 1 \in Nat, MaxReceipts + 1 + 1 = MaxReceipts + 2
  <1>. HIDE DEF R2
  <1>6. IsFiniteSet(R3) /\ Cardinality(R3) <= MaxReceipts + 3
    BY <1>2, <1>5, OneMore, MaxReceipts + 2 \in Nat, MaxReceipts + 2 + 1 = MaxReceipts + 3
  <1>. HIDE DEF R3
  <1>7. IsFiniteSet(R4) /\ Cardinality(R4) <= MaxReceipts + 4
    BY <1>2, <1>6, OneMore, MaxReceipts + 3 \in Nat, MaxReceipts + 3 + 1 = MaxReceipts + 4
  <1>. HIDE DEF R4
  <1>8. IsFiniteSet(R5) /\ Cardinality(R5) <= MaxReceipts + 5
    BY <1>2, <1>7, OneMore, MaxReceipts + 4 \in Nat, MaxReceipts + 4 + 1 = MaxReceipts + 5
  <1>. HIDE DEF R5
  <1>9. IsFiniteSet(R6) /\ Cardinality(R6) <= MaxReceipts + 6
    BY <1>2, <1>8, OneMore, MaxReceipts + 5 \in Nat, MaxReceipts + 5 + 1 = MaxReceipts + 6
  <1>. HIDE DEF R6
  <1>10. IsFiniteSet(R7) /\ Cardinality(R7) <= MaxReceipts + 7
    BY <1>2, <1>9, OneMore, MaxReceipts + 6 \in Nat, MaxReceipts + 6 + 1 = MaxReceipts + 7
  <1>. HIDE DEF R7
  <1>11. \E op \in Operations : op \notin R7
    <2>. SUFFICES ASSUME Operations \in SUBSET R7 PROVE FALSE
      OBVIOUS
    <2>1. IsFiniteSet(Operations) /\ Cardinality(Operations) <= Cardinality(R7)
      BY <1>10, FS_Subset
    <2>2. Cardinality(Operations) > MaxReceipts + 7
      BY <2>1, ShellSyncAssumption
    <2>3. Cardinality(Operations) \in Nat /\ Cardinality(R7) \in Nat
      BY <1>10, <2>1, FS_CardinalityType
    <2>4. QED
      BY <1>2, <1>10, <2>1, <2>2, <2>3
  <1>12. \E op \in Operations : op \notin Used(s)
    BY <1>1, <1>11
  <1>13. QED
    BY <1>12 DEF NewOperation

-------------------------------------------------------------------------------
(* Receipts                                                                *)

LEMMA ReceiptAdded ==
  ASSUME ShellTypes, NEW s \in Shells, NEW op, NEW kind, NEW request, NEW result,
         AppendReceipt(s, op, kind, request, result)
  PROVE  /\ \A k \in DOMAIN receipts'[s] :
              \/ receipts'[s][k] = [op |-> op, kind |-> kind, request |-> request, result |-> result]
              \/ \E j \in DOMAIN receipts[s] : receipts'[s][k] = receipts[s][j]
         /\ \E k \in DOMAIN receipts'[s] :
              receipts'[s][k] = [op |-> op, kind |-> kind, request |-> request, result |-> result]
         /\ \A t \in Shells \ {s} : receipts'[t] = receipts[t]
  <1>. DEFINE receipt == [op |-> op, kind |-> kind, request |-> request, result |-> result]
              old == receipts[s]
              log == Append(old, receipt)
  <1>1. old \in Seq(Receipt) /\ Len(old) \in Nat /\ MaxReceipts \in Nat \ {0}
    BY ConstantsAssumption, ShellSyncAssumption DEF ShellTypes
  <1>2. /\ Len(log) = Len(old) + 1 /\ DOMAIN log = 1 .. Len(old) + 1 /\ DOMAIN old = 1 .. Len(old)
        /\ log[Len(old) + 1] = receipt /\ \A k \in 1 .. Len(old) : log[k] = old[k]
    BY <1>1
  <1>3. receipts' = [receipts EXCEPT ![s] = IF Len(log) > MaxReceipts THEN Tail(log) ELSE log]
    BY DEF AppendReceipt
  <1>4. /\ receipts'[s] = IF Len(log) > MaxReceipts THEN Tail(log) ELSE log
        /\ \A t \in Shells \ {s} : receipts'[t] = receipts[t]
    BY <1>3 DEF ShellTypes
  <1>. HIDE DEF receipt, log
  <1>5. CASE Len(log) > MaxReceipts
    <2>1. log \in Seq({log[k] : k \in DOMAIN log})
      <3>1. log = [k \in 1 .. Len(old) + 1 |-> log[k]]
        BY <1>1 DEF log
      <3>2. QED
        BY <1>1, <1>2, <3>1
    <2>2. /\ DOMAIN Tail(log) = 1 .. Len(old)
          /\ \A k \in 1 .. Len(old) : Tail(log)[k] = log[k + 1]
      BY <1>1, <1>2, <2>1
    <2>3. /\ Len(old) \in 1 .. Len(old)
          /\ \A k \in 1 .. Len(old) : k + 1 \in 1 .. Len(old) + 1 /\ (k + 1 \in 1 .. Len(old) \/ k + 1 = Len(old) + 1)
      BY <1>1, <1>2, <1>5
    <2>4. receipts'[s] = Tail(log)
      BY <1>4, <1>5
    <2>5. \A k \in DOMAIN receipts'[s] :
            receipts'[s][k] = receipt \/ \E j \in DOMAIN old : receipts'[s][k] = old[j]
      <3>1. ASSUME NEW k \in 1 .. Len(old)
            PROVE  Tail(log)[k] = receipt \/ \E j \in DOMAIN old : Tail(log)[k] = old[j]
        <4>1. Tail(log)[k] = log[k + 1]
          BY <2>2
        <4>2. QED
          BY <4>1, <1>2, <2>3
      <3>2. QED
        BY <2>2, <2>4, <3>1
    <2>6. receipts'[s][Len(old)] = receipt /\ Len(old) \in DOMAIN receipts'[s]
      BY <1>2, <2>2, <2>3, <2>4
    <2>7. QED
      BY <1>4, <2>5, <2>6 DEF receipt
  <1>6. CASE ~(Len(log) > MaxReceipts)
    <2>1. receipts'[s] = log
      BY <1>4, <1>6
    <2>2. \A k \in 1 .. Len(old) + 1 : k = Len(old) + 1 \/ k \in 1 .. Len(old)
      BY <1>1
    <2>3. Len(old) + 1 \in DOMAIN log
      BY <1>1, <1>2
    <2>4. QED
      BY <1>2, <1>4, <2>1, <2>2, <2>3 DEF receipt
  <1>7. QED
    BY <1>5, <1>6

(* An operation id names one receipt.                                      *)
LEMMA ResultFound ==
  ASSUME NEW log, ValidReceipts(log), NEW k \in DOMAIN log
  PROVE  ResultOf(log, log[k].op) = log[k].result
  BY DEF ResultOf, ValidReceipts

-------------------------------------------------------------------------------
(* The types of the hook's variables                                       *)

Replies == [revision : Nat, token : Token, patch : Changes, reverse : Changes]
Terminal ==
  [pc : {"command", "prompt", "apply", "verify", "off"}, attached : BOOLEAN,
   baseline : {NoBaseline} \union Snapshot, applied : Nat, reconcile : BOOLEAN,
   conflict : {NoConflictKnown} \union [identity : Identities, token : Token],
   attachOp : OperationIds, prepareOp : OperationIds, resolveOp : OperationIds,
   ackOp : OperationIds,
   reply : {NoReply} \union Replies, active : Reverses, recovery : Reverses]

HookTypes ==
  /\ terminals \in [Shells -> Terminal]
  /\ env \in [Shells -> Snapshot]
  /\ edits \in [Shells -> Nat]
  /\ failures \in 0 .. MaxFailures

(* What ties the variables of one terminal to each other and to the        *)
(* service.                                                                *)
HookLocal(s) ==
  LET t == terminals[s]
  IN  /\ t.applied <= head
      /\ t.attached => s \in Attached /\ t.baseline # NoBaseline
      /\ ~t.attached => /\ t.pc \in {"command", "prompt", "off"}
                        /\ t.prepareOp = NoOp /\ t.ackOp = NoOp /\ t.applied = 0
      /\ t.attached => t.pc # "off"
      /\ t.reply # NoReply <=> t.pc \in {"apply", "verify"}
      /\ t.reply # NoReply => t.reconcile /\ t.reply.revision \in 1 .. head

HookInv == HookTypes /\ \A s \in Shells : HookLocal(s)

(* A receipt holds a transition to a revision that exists, or confirms     *)
(* that a terminal held the generation of one.                             *)
Transition(result, last) ==
  /\ result \in [pending : Pending \ {NoPending}, changes : Changes]
  /\ result.pending.revision \in 1 .. last
Answer(receipt, last, gens) ==
  /\ receipt.kind = "prepare" => receipt.result = NoPending \/ Transition(receipt.result, last)
  /\ receipt.kind = "resolve" => Transition(receipt.result, last)
  /\ receipt.kind = "acknowledge" =>
       /\ receipt.request.revision \in 1 .. last
       /\ receipt.request.observed = gens[receipt.request.revision]
AnswersInv == \A s \in Shells : \A k \in DOMAIN receipts[s] :
  Answer(receipts[s][k], head, generations)

Service == TypeInv /\ HistoryInv /\ ValidInv /\ BaseIsCommitted /\ AnswersInv


-------------------------------------------------------------------------------
(* The invariants                                                          *)

(* A reply that is being evaluated was computed from the environment as it *)
(* is: its two patches lead to one target and back.                        *)
ReplyInv(s) ==
  terminals[s].pc = "apply" => \E target \in Snapshot :
    /\ terminals[s].reply.patch = DiffSnapshot(env[s], target)
    /\ terminals[s].reply.reverse = DiffSnapshot(target, env[s])

(* A terminal whose attach was served and not answered is as it was then:  *)
(* the retry has the capture that the record was made of.                  *)
JoinInv(s) ==
  ~terminals[s].attached /\ terminals[s].pc # "off" /\ s \in Attached =>
    /\ terminals[s].baseline # NoBaseline
    /\ shells[s].attachState = "at-head" =>
         /\ shells[s].appliedRevision \in 1 .. head
         /\ \A i \in SharedNames(s) :
              terminals[s].baseline[i] = generations[shells[s].appliedRevision][i]

(* What a terminal that counts itself synchronized takes as its baseline   *)
(* it holds of a generation since the one it applied, or the service keeps.*)
SyncInv(s) ==
  terminals[s].attached /\ ~terminals[s].reconcile =>
    /\ terminals[s].applied # 0
    /\ \A i \in SharedNames(s) :
         \/ \E r \in terminals[s].applied .. head : terminals[s].baseline[i] = generations[r][i]
         \/ i \in DOMAIN shells[s].unpublished

(* The service: where a terminal was the last to change an identity, the   *)
(* generation has what the terminal was seen to hold, or the rest is kept; *)
(* nothing of the terminal is newer than the target it is asked to reach.  *)
By(s, event) == \E op \in Operations : <<s, op>> \in event.by
LastIn(log, i, k) ==
  /\ k \in DOMAIN log /\ i \in DOMAIN log[k].changes
  /\ \A j \in DOMAIN log : i \in DOMAIN log[j].changes => j <= k
Owns(s, shell, log, now) ==
  /\ shell.pending # NoPending =>
       \A k \in DOMAIN log : By(s, log[k]) => log[k].revision <= shell.pending.revision
  /\ \A k \in DOMAIN log, i \in Identities : By(s, log[k]) /\ LastIn(log, i, k) =>
       shell.captureBaseline[i] = now[i] \/ i \in DOMAIN shell.unpublished
OwnInv(s) ==
  /\ s \notin Attached => \A k \in DOMAIN events : ~By(s, events[k])
  /\ s \in Attached => Owns(s, shells[s], events, shared)

(* While nothing failed, the hook and the service agree on where the       *)
(* terminal is, and a transition that is asked for again or evaluated      *)
(* brings in what others changed.                                          *)
News(s, ids) ==
  terminals[s].applied # 0 /\ floor <= terminals[s].applied => \A i \in ids : ChangedElsewhere(s, i)
Asked(s, receipt) ==
  /\ receipt.kind = "acknowledge" => receipt.op # terminals[s].ackOp
  /\ receipt.kind = "prepare" /\ receipt.op = terminals[s].prepareOp /\ receipt.result # NoPending =>
       shells[s].pending # NoPending /\ News(s, DOMAIN receipt.result.changes)
Faultless(s) ==
  /\ ~terminals[s].attached /\ terminals[s].pc # "off" => s \notin Attached
  /\ terminals[s].attached =>
       /\ terminals[s].applied = shells[s].appliedRevision
       /\ \A k \in DOMAIN receipts[s] : Asked(s, receipts[s][k])
       /\ terminals[s].pc = "apply" /\ terminals[s].conflict = NoConflictKnown =>
            News(s, DOMAIN terminals[s].reply.patch)
FaultlessInv(s) == failures = 0 => Faultless(s)

-------------------------------------------------------------------------------
(* What the service does for a terminal                                    *)

LEMMA AnswerGrows ==
  ASSUME HistoryTypes, HistoryTypes', Grows, NEW receipt, Answer(receipt, head, generations)
  PROVE  Answer(receipt, head', generations')
  <1>1. head \in Nat /\ head' \in Nat /\ head <= head' /\ \A r \in 1 .. head : generations'[r] = generations[r]
    BY DEF HistoryTypes, Grows
  <1>2. \A r \in 1 .. head : r \in 1 .. head'
    BY <1>1
  <1>3. QED
    BY <1>1, <1>2 DEF Answer, Transition

LEMMA AnswersSame ==
  ASSUME HistoryTypes, HistoryTypes', Grows, AnswersInv, UNCHANGED receipts
  PROVE  AnswersInv'
  BY AnswerGrows DEF AnswersInv

LEMMA AnswersAppended ==
  ASSUME ShellTypes, HistoryTypes, HistoryTypes', Grows, AnswersInv,
         NEW s \in Shells, NEW op, NEW kind, NEW request, NEW result,
         AppendReceipt(s, op, kind, request, result),
         Answer([op |-> op, kind |-> kind, request |-> request, result |-> result], head', generations')
  PROVE  AnswersInv'
  <1>1. ASSUME NEW t \in Shells, NEW k \in DOMAIN receipts'[t]
        PROVE  Answer(receipts'[t][k], head', generations')
    <2>1. CASE t # s
      <3>1. receipts'[t] = receipts[t]
        BY <2>1, ReceiptAdded
      <3>2. QED
        BY <1>1, <3>1, AnswerGrows DEF AnswersInv
    <2>2. CASE t = s
      <3>1. \/ receipts'[s][k] = [op |-> op, kind |-> kind, request |-> request, result |-> result]
            \/ \E j \in DOMAIN receipts[s] : receipts'[s][k] = receipts[s][j]
        BY <1>1, <2>2, ReceiptAdded
      <3>2. \A j \in DOMAIN receipts[s] : Answer(receipts[s][j], head', generations')
        BY AnswerGrows DEF AnswersInv
      <3>3. QED
        BY <2>2, <3>1, <3>2
    <2>3. QED
      BY <2>1, <2>2
  <1>2. QED
    BY <1>1 DEF AnswersInv

LEMMA SyncBase ==
  ASSUME BaseIsCommitted, syncUnchanged
  PROVE  BaseIsCommitted'
  BY DEF BaseIsCommitted, syncUnchanged

(* What every request leaves alone.                                        *)
OnlyShell(s) ==
  /\ committed' = committed
  /\ s \in Attached => s \in Attached'
  /\ \A t \in Shells \ {s} : shells'[t] = shells[t] /\ receipts'[t] = receipts[t]

(* A terminal that has a receipt is attached.                              *)
LEMMA ReceiptAttached ==
  ASSUME ShellTypes, ReceiptsInv', NEW s \in Shells, NEW op, NEW kind, NEW request, NEW result,
         AppendReceipt(s, op, kind, request, result)
  PROVE  s \in Attached'
  <1>1. \E k : k \in DOMAIN receipts'[s]
    BY ReceiptAdded
  <1>2. receipts'[s] # <<>>
    BY <1>1
  <1>3. QED
    BY <1>2 DEF ReceiptsInv

LEMMA AttachServed ==
  ASSUME Service, NEW s \in Shells, NEW op \in Operations, NEW initial \in Snapshot,
         Attach(s, op, initial)
  PROVE  Service' /\ Grows /\ OnlyShell(s)
  <1>1. TypeInv' /\ HistoryInv' /\ Grows /\ ValidInv'
    BY AttachType, AttachHistory, AttachValid DEF Service
  <1>2. BaseIsCommitted'
    BY SyncBase DEF Service, Attach
  <1>3. AppendReceipt(s, op, "attach", initial, head)
    BY DEF Attach
  <1>4. Answer([op |-> op, kind |-> "attach", request |-> initial, result |-> head], head', generations')
    BY DEF Answer
  <1>5. AnswersInv'
    BY <1>1, <1>3, <1>4, AnswersAppended DEF Service, TypeInv
  <1>6. \A t \in Shells \ {s} : receipts'[t] = receipts[t]
    BY <1>3, ReceiptAdded DEF Service, TypeInv
  <1>7. \A t \in Shells \ {s} : shells'[t] = shells[t]
    BY DEF Attach, Service, TypeInv, ShellTypes
  <1>8. committed' = committed
    BY DEF Attach, syncUnchanged
  <1>9. s \in Attached'
    BY <1>1, <1>3, ReceiptAttached DEF Service, TypeInv, ValidInv
  <1>10. QED
    BY <1>1, <1>2, <1>5, <1>6, <1>7, <1>8, <1>9 DEF Service, OnlyShell

LEMMA PublishServed ==
  ASSUME Service, NEW s \in Shells, NEW op \in Operations, NEW ack \in Nat, NEW delta \in Changes,
         Publish(s, op, ack, delta)
  PROVE  Service' /\ Grows /\ OnlyShell(s)
  <1>1. TypeInv' /\ HistoryInv' /\ Grows /\ ValidInv'
    BY PublishType, PublishHistory, PublishValid DEF Service
  <1>2. BaseIsCommitted'
    BY SyncBase DEF Service, Publish
  <1>3. PICK result : AppendReceipt(s, op, "publish", [ack |-> ack, delta |-> delta], result)
    BY DEF Publish
  <1>4. Answer([op |-> op, kind |-> "publish", request |-> [ack |-> ack, delta |-> delta], result |-> result],
               head', generations')
    BY DEF Answer
  <1>5. AnswersInv'
    BY <1>1, <1>3, <1>4, AnswersAppended DEF Service, TypeInv
  <1>6. \A t \in Shells \ {s} : receipts'[t] = receipts[t]
    BY <1>3, ReceiptAdded DEF Service, TypeInv
  <1>7. \A t \in Shells \ {s} : shells'[t] = shells[t]
    BY DEF Publish, Service, TypeInv, ShellTypes
  <1>8. committed' = committed
    BY DEF Publish, syncUnchanged
  <1>9. s \in Attached'
    BY <1>1, <1>3, ReceiptAttached DEF Service, TypeInv, ValidInv
  <1>10. QED
    BY <1>1, <1>2, <1>5, <1>6, <1>7, <1>8, <1>9 DEF Service, OnlyShell

(* A pending target of the service is a transition to a revision.          *)
LEMMA PreparePullServed ==
  ASSUME Service, NEW s \in Shells, NEW op \in Operations, NEW applied \in Nat,
         PreparePull(s, op, applied)
  PROVE  Service' /\ Grows /\ OnlyShell(s)
  <1>. DEFINE pending == [kind |-> "pull", revision |-> head, fingerprint |-> shared,
                          token |-> NewToken("pull", op, head)]
  <1>1. TypeInv' /\ HistoryInv' /\ Grows /\ ValidInv'
    BY PreparePullType, PreparePullHistory, PreparePullValid DEF Service
  <1>2. BaseIsCommitted'
    BY SyncBase DEF Service, PreparePull
  <1>3. head' = head /\ head \in 1 .. head /\ shared \in Snapshot
    <2>1. s \in Attached /\ SameRevision
      BY DEF PreparePull
    <2>2. head # 0 /\ head \in Nat /\ shared \in Snapshot
      BY <2>1 DEF Service, HistoryInv, Started, TypeInv, HistoryTypes
    <2>3. QED
      BY <2>1, <2>2 DEF SameRevision
  <1>4. PICK result :
          /\ AppendReceipt(s, op, "prepare", applied, result)
          /\ \/ result = NoPending
             \/ result = [pending |-> pending, changes |-> DiffSnapshot(shells[s].captureBaseline, shared)]
    BY DEF PreparePull
  <1>5. pending \in Pending \ {NoPending} /\ pending.revision = head
    <2>1. NewToken("pull", op, head) \in Token
      BY <1>3, NewTokenType DEF Service, TypeInv, HistoryTypes
    <2>2. QED
      BY <1>3, <2>1 DEF Pending, NoPending
  <1>6. DiffSnapshot(shells[s].captureBaseline, shared) \in Changes
    <2>1. shells[s] \in ShellState
      BY DEF PreparePull, Attached, Service, TypeInv, ShellTypes
    <2>2. QED
      BY <1>3, <2>1, DiffSnapshotType DEF ShellState
  <1>. HIDE DEF pending
  <1>7. Answer([op |-> op, kind |-> "prepare", request |-> applied, result |-> result], head', generations')
    BY <1>3, <1>4, <1>5, <1>6 DEF Answer, Transition
  <1>8. AnswersInv'
    BY <1>1, <1>4, <1>7, AnswersAppended DEF Service, TypeInv
  <1>9. \A t \in Shells \ {s} : receipts'[t] = receipts[t]
    BY <1>4, ReceiptAdded DEF Service, TypeInv
  <1>10. \A t \in Shells \ {s} : shells'[t] = shells[t]
    BY DEF PreparePull, Service, TypeInv, ShellTypes
  <1>11. committed' = committed
    BY DEF PreparePull, syncUnchanged
  <1>12. s \in Attached'
    BY <1>1, <1>4, ReceiptAttached DEF Service, TypeInv, ValidInv
  <1>13. QED
    BY <1>1, <1>2, <1>8, <1>9, <1>10, <1>11, <1>12 DEF Service, OnlyShell

LEMMA ResolveSharedServed ==
  ASSUME Service, NEW s \in Shells, NEW op \in Operations, NEW identity, NEW token,
         NEW snap \in Snapshot, ResolveShared(s, op, identity, token, snap)
  PROVE  Service' /\ Grows /\ OnlyShell(s)
  <1>. DEFINE observed == AdmittedSnapshot(s, snap)
              request == [identity |-> identity, token |-> token, observed |-> observed]
              pending == [kind |-> "resolution", revision |-> head, fingerprint |-> shared, token |-> token]
              result == [pending |-> pending, changes |-> DiffSnapshot(observed, shared)]
  <1>1. TypeInv' /\ HistoryInv' /\ Grows /\ ValidInv'
    BY ResolveSharedType, ResolveSharedHistory, ResolveSharedValid DEF Service
  <1>2. BaseIsCommitted' /\ committed' = committed
    BY SyncBase DEF Service, ResolveShared, syncUnchanged
  <1>3. CASE UNCHANGED <<shells, receipts>>
    BY <1>1, <1>2, <1>3, AnswersSame DEF Service, OnlyShell, TypeInv, Attached
  <1>4. CASE /\ shells[s].conflict # NoConflict /\ shells[s].conflict.token = token
             /\ AppendReceipt(s, op, "resolve", request, result)
             /\ \E record : shells' = [shells EXCEPT ![s] = record]
    <2>1. head' = head /\ head \in 1 .. head /\ shared \in Snapshot
      <3>1. s \in Attached /\ SameRevision
        BY DEF ResolveShared
      <3>2. head # 0 /\ head \in Nat /\ shared \in Snapshot
        BY <3>1 DEF Service, HistoryInv, Started, TypeInv, HistoryTypes
      <3>3. QED
        BY <3>1, <3>2 DEF SameRevision
    <2>2. shells[s] \in ShellState
      BY DEF ResolveShared, Attached, Service, TypeInv, ShellTypes
    <2>3. token \in Token
      BY <1>4, <2>2 DEF ShellState, Conflict, NoConflict
    <2>4. pending \in Pending \ {NoPending} /\ pending.revision = head
      BY <2>1, <2>3 DEF Pending, NoPending
    <2>5. DiffSnapshot(observed, shared) \in Changes
      BY <2>1, AdmittedSnapshotType, DiffSnapshotType
    <2>. HIDE DEF pending, request, observed
    <2>6. Answer([op |-> op, kind |-> "resolve", request |-> request, result |-> result], head', generations')
      BY <2>1, <2>4, <2>5 DEF Answer, Transition
    <2>7. AnswersInv'
      BY <1>1, <1>4, <2>6, AnswersAppended DEF Service, TypeInv
    <2>8. \A t \in Shells \ {s} : receipts'[t] = receipts[t]
      BY <1>4, ReceiptAdded DEF Service, TypeInv
    <2>9. \A t \in Shells \ {s} : shells'[t] = shells[t]
      BY <1>4 DEF Service, TypeInv, ShellTypes
    <2>10. s \in Attached'
      BY <1>1, <1>4, ReceiptAttached DEF Service, TypeInv, ValidInv
    <2>11. QED
      BY <1>1, <1>2, <2>7, <2>8, <2>9, <2>10 DEF Service, OnlyShell
  <1>5. QED
    BY <1>3, <1>4 DEF ResolveShared

LEMMA AcknowledgeServed ==
  ASSUME Service, NEW s \in Shells, NEW op \in Operations, NEW revision, NEW token,
         NEW snap \in Snapshot, Acknowledge(s, op, revision, token, snap)
  PROVE  Service' /\ Grows /\ OnlyShell(s)
  <1>. DEFINE observed == AdmittedSnapshot(s, snap)
              request == [revision |-> revision, token |-> token, observed |-> observed]
  <1>1. TypeInv' /\ HistoryInv' /\ Grows /\ ValidInv'
    BY AcknowledgeType, AcknowledgeHistory, AcknowledgeValid DEF Service
  <1>2. BaseIsCommitted' /\ committed' = committed
    BY SyncBase DEF Service, Acknowledge, syncUnchanged
  <1>3. CASE UNCHANGED <<shells, receipts>>
    BY <1>1, <1>2, <1>3, AnswersSame DEF Service, OnlyShell, TypeInv, Attached
  <1>4. CASE /\ shells[s].pending # NoPending /\ shells[s].pending.revision = revision
             /\ observed = shells[s].pending.fingerprint
             /\ AppendReceipt(s, op, "acknowledge", request, revision)
             /\ \E record : shells' = [shells EXCEPT ![s] = record]
    <2>1. s \in Attached /\ SameRevision
      BY DEF Acknowledge
    <2>2. revision \in 1 .. head /\ observed = generations[revision]
      BY <1>4, <2>1 DEF Service, HistoryInv, ShellsInv, ShellHistory
    <2>. HIDE DEF observed
    <2>3. Answer([op |-> op, kind |-> "acknowledge", request |-> request, result |-> revision],
                 head', generations')
      BY <2>1, <2>2 DEF Answer, SameRevision
    <2>. HIDE DEF request
    <2>4. AnswersInv'
      BY <1>1, <1>4, <2>3, AnswersAppended DEF Service, TypeInv
    <2>5. \A t \in Shells \ {s} : receipts'[t] = receipts[t]
      BY <1>4, ReceiptAdded DEF Service, TypeInv
    <2>6. \A t \in Shells \ {s} : shells'[t] = shells[t]
      BY <1>4 DEF Service, TypeInv, ShellTypes
    <2>7. s \in Attached'
      BY <1>1, <1>4, ReceiptAttached DEF Service, TypeInv, ValidInv
    <2>8. QED
      BY <1>1, <1>2, <2>4, <2>5, <2>6, <2>7 DEF Service, OnlyShell
  <1>5. QED
    BY <1>3, <1>4 DEF Acknowledge

(* The steps no terminal asks for: a commit, the first generation, a reset. *)
LEMMA ElsewhereServed ==
  ASSUME Service, FirstGeneration \/ ResetElsewhere
  PROVE  /\ Service' /\ Grows
         /\ UNCHANGED <<hookVars, receipts>>
         /\ Attached # {} => committed' = committed
         /\ \A s \in Shells : shells'[s] # NotAttached =>
              shells[s] # NotAttached /\ \E flag : shells'[s] = [shells[s] EXCEPT !.behind = flag]
         /\ \A s \in Shells : shells'[s] = NotAttached => shells[s] = NotAttached
  <1>1. [Next]_vars
    BY DEF FirstGeneration, ResetElsewhere, Next, Workflow
  <1>2. TypeInv' /\ HistoryInv' /\ Grows /\ ValidInv' /\ BaseIsCommitted'
    BY <1>1, TypeNext, HistoryNext, ValidNext, BaseNext DEF Service, BaseInv
  <1>3. CASE \E profile \in Profiles : Ingest(profile)
    <2>1. UNCHANGED state
      BY <1>3 DEF Ingest
    <2>2. UNCHANGED <<receipts, shells, committed>>
      BY <2>1 DEF state
    <2>3. \A s \in Shells : shells[s] # NotAttached => shells[s] = [shells[s] EXCEPT !.behind = shells[s].behind]
      BY DEF Service, TypeInv, ShellTypes, ShellState
    <2>4. QED
      BY <1>2, <2>2, <2>3, AnswersSame DEF Service, TypeInv, FirstGeneration, ResetElsewhere
  <1>4. CASE \E oid \in 1 .. MaxObjects : Materialize(oid)
    <2>1. UNCHANGED <<receipts, shells>> /\ ~materialized
      BY <1>4 DEF Materialize
    <2>2. Attached = {}
      BY <2>1 DEF Service, HistoryInv, Started
    <2>3. QED
      BY <1>2, <2>1, <2>2, AnswersSame DEF Service, TypeInv, FirstGeneration, ResetElsewhere, Attached
  <1>5. CASE ResetHard
    <2>1. materialized /\ committed' = objects[baseOID].document /\ UNCHANGED receipts
      BY <1>5 DEF ResetHard, ReplaceGeneration
    <2>2. committed' = committed
      BY <2>1 DEF Service, BaseIsCommitted
    <2>3. \A s \in Shells : \/ shells'[s] = shells[s] /\ s \notin Attached
                            \/ s \in Attached /\ \E flag : shells'[s] = [shells[s] EXCEPT !.behind = flag]
      BY <1>5 DEF ResetHard, ReplaceGeneration
    <2>4. \A s \in Attached : \A flag : [shells[s] EXCEPT !.behind = flag] # NotAttached
      BY DEF Service, TypeInv, ShellTypes, ShellState, NotAttached, Attached
    <2>5. Service'
      BY <1>2, <2>1, AnswersSame DEF Service, TypeInv
    <2>6. ASSUME NEW s \in Shells
          PROVE  /\ shells'[s] # NotAttached =>
                      shells[s] # NotAttached /\ \E flag : shells'[s] = [shells[s] EXCEPT !.behind = flag]
                 /\ shells'[s] = NotAttached => shells[s] = NotAttached
      <3>1. CASE s \in Attached
        BY <2>3, <2>4, <3>1 DEF Attached
      <3>2. CASE s \notin Attached
        BY <2>3, <3>2 DEF Attached
      <3>3. QED
        BY <3>1, <3>2
    <2>7. UNCHANGED hookVars
      BY DEF FirstGeneration, ResetElsewhere
    <2>8. QED
      BY <1>2, <2>1, <2>2, <2>5, <2>6, <2>7
  <1>6. QED
    BY <1>3, <1>4, <1>5 DEF FirstGeneration, ResetElsewhere

-------------------------------------------------------------------------------
(* What comes of a helper call                                             *)

Failed == failures < MaxFailures /\ failures' = failures + 1

(* Served and answered; served, and the reply lost; or not served.         *)
LEMMA InvokeOutcome ==
  ASSUME NEW s, NEW operation, NEW ACTION Serve, NEW ACTION answered, NEW ACTION unanswered,
         Invoke(s, operation, Serve, answered, unanswered)
  PROVE  \/ Serve /\ UNCHANGED failures /\ Becomes(s, answered)
         \/ Serve /\ Failed /\ Becomes(s, unanswered)
         \/ UNCHANGED vars /\ (UNCHANGED failures \/ Failed) /\ Becomes(s, unanswered)
  BY DEF Invoke, runRuntimeWorktree, Fail, Failed

LEMMA UnservedStep ==
  ASSUME Service, NEW s \in Shells, UNCHANGED vars
  PROVE  Service' /\ Grows /\ OnlyShell(s)
  <1>1. [Next]_vars
    OBVIOUS
  <1>2. TypeInv' /\ HistoryInv' /\ Grows /\ ValidInv' /\ BaseIsCommitted'
    BY <1>1, TypeNext, HistoryNext, ValidNext, BaseNext DEF Service, BaseInv
  <1>3. AnswersInv' /\ OnlyShell(s)
    BY DEF Service, AnswersInv, OnlyShell, Attached, vars, state
  <1>4. QED
    BY <1>2, <1>3 DEF Service

LEMMA RetainedOperation ==
  ASSUME Service, NEW s \in Shells, NEW op \in OperationIds
  PROVE  /\ Retained(op, s) \in Operations
         /\ op = NoOp => Retained(op, s) \notin Used(s)
         /\ op # NoOp => Retained(op, s) = op
  BY FreshOperation DEF Retained, OperationIds, Service, TypeInv, ValidInv

(* The adapter's requests are requests to the service.                     *)
LEMMA AdapterAttachServed ==
  ASSUME Service, NEW s \in Shells, NEW op \in Operations, NEW initial \in Snapshot,
         AdapterAttach(s, op, initial)
  PROVE  Service' /\ Grows /\ OnlyShell(s) /\ s \in Attached'
  <1>1. CASE Attach(s, op, initial)
    <2>1. AppendReceipt(s, op, "attach", initial, head)
      BY <1>1 DEF Attach
    <2>2. QED
      BY <1>1, <2>1, AttachServed, ReceiptAttached DEF Service, TypeInv, ValidInv
  <1>2. CASE ReceiptMatches(s, op, "attach", initial) /\ UNCHANGED vars
    <2>1. receipts[s] # <<>>
      BY <1>2 DEF ReceiptMatches
    <2>2. s \in Attached
      BY <2>1 DEF Service, ValidInv, ReceiptsInv
    <2>3. QED
      BY <1>2, <2>2, UnservedStep DEF OnlyShell
  <1>3. QED
    BY <1>1, <1>2 DEF AdapterAttach

LEMMA AdapterPublishServed ==
  ASSUME Service, HookTypes, NEW s \in Shells, terminals[s].baseline # NoBaseline,
         NEW op \in Operations, AdapterPublish(s, op)
  PROVE  /\ Service' /\ Grows /\ OnlyShell(s)
         /\ DiffSnapshot(terminals[s].baseline, env[s]) \in Changes
  <1>1. terminals[s].applied \in Nat /\ terminals[s].baseline \in Snapshot /\ env[s] \in Snapshot
    BY DEF HookTypes, Terminal
  <1>2. DiffSnapshot(terminals[s].baseline, env[s]) \in Changes
    BY <1>1, DiffSnapshotType
  <1>3. QED
    BY <1>1, <1>2, PublishServed DEF AdapterPublish

LEMMA AdapterPrepareServed ==
  ASSUME Service, HookTypes, NEW s \in Shells, NEW op \in Operations, AdapterPrepare(s, op)
  PROVE  Service' /\ Grows /\ OnlyShell(s)
  <1>1. terminals[s].applied \in Nat
    BY DEF HookTypes, Terminal
  <1>2. QED
    BY <1>1, PreparePullServed, UnservedStep DEF AdapterPrepare

LEMMA AdapterResolveServed ==
  ASSUME Service, HookTypes, NEW s \in Shells, NEW op \in Operations, AdapterResolve(s, op)
  PROVE  Service' /\ Grows /\ OnlyShell(s)
  <1>1. env[s] \in Snapshot
    BY DEF HookTypes
  <1>2. QED
    BY <1>1, ResolveSharedServed DEF AdapterResolve

LEMMA AdapterAcknowledgeServed ==
  ASSUME Service, HookTypes, NEW s \in Shells, NEW op \in Operations, NEW reply,
         AdapterAcknowledge(s, op, reply)
  PROVE  Service' /\ Grows /\ OnlyShell(s)
  <1>1. env[s] \in Snapshot
    BY DEF HookTypes
  <1>2. QED
    BY <1>1, AcknowledgeServed DEF AdapterAcknowledge

-------------------------------------------------------------------------------
(* The hook's variables keep their shape                                   *)

LEMMA FailuresTyped ==
  ASSUME HookTypes, UNCHANGED failures \/ Failed
  PROVE  failures' \in 0 .. MaxFailures
  BY ShellSyncAssumption DEF HookTypes, Failed

(* A step of one terminal is looked at in that terminal only.              *)
LEMMA OneTerminal ==
  ASSUME Service, Service', Grows, HookInv, NEW s \in Shells, OnlyShell(s),
         NEW terminal \in Terminal, Becomes(s, terminal),
         env' \in [Shells -> Snapshot], edits' \in [Shells -> Nat], failures' \in 0 .. MaxFailures,
         HookLocal(s)'
  PROVE  /\ HookInv' /\ terminals'[s] = terminal
         /\ \A u \in Shells \ {s} : terminals'[u] = terminals[u]
  <1>1. terminals' = [terminals EXCEPT ![s] = terminal]
    BY DEF Becomes
  <1>2. terminals' \in [Shells -> Terminal]
    BY <1>1 DEF HookInv, HookTypes
  <1>3. terminals'[s] = terminal /\ \A u \in Shells \ {s} : terminals'[u] = terminals[u]
    BY <1>1 DEF HookInv, HookTypes
  <1>4. head \in Nat /\ head' \in Nat /\ head <= head'
    BY DEF Service, TypeInv, HistoryTypes, Grows
  <1>5. ASSUME NEW u \in Shells, u # s PROVE HookLocal(u)'
    <2>1. terminals'[u] = terminals[u] /\ HookLocal(u)
      BY <1>3, <1>5 DEF HookInv
    <2>2. u \in Attached => u \in Attached'
      BY <1>5 DEF OnlyShell, Attached
    <2>3. terminals[u].applied \in Nat
      BY DEF HookInv, HookTypes, Terminal
    <2>4. \A r \in 1 .. head : r \in 1 .. head'
      BY <1>4
    <2>5. terminals[u].applied <= head => terminals[u].applied <= head'
      BY <1>4, <2>3
    <2>6. QED
      BY <2>1, <2>2, <2>4, <2>5 DEF HookLocal
  <1>6. \A u \in Shells : HookLocal(u)'
    BY <1>5
  <1>7. QED
    BY <1>2, <1>3, <1>6 DEF HookInv, HookTypes

(* Every variable of the hook but the terminals and the counts.            *)
LEMMA RequestTypes ==
  ASSUME HookInv, UNCHANGED <<env, edits>>, UNCHANGED failures \/ Failed
  PROVE  /\ env' \in [Shells -> Snapshot] /\ edits' \in [Shells -> Nat]
         /\ failures' \in 0 .. MaxFailures
  BY FailuresTyped DEF HookInv, HookTypes

AttachInitial(s) == IF terminals[s].baseline = NoBaseline THEN env[s] ELSE terminals[s].baseline
AttachAsked(s) ==
  [terminals[s] EXCEPT !.pc = IF terminals[s].pc = "command" THEN "prompt" ELSE "command",
                       !.baseline = AttachInitial(s),
                       !.attachOp = Retained(terminals[s].attachOp, s)]
AttachJoined(s, shell) ==
  [AttachAsked(s) EXCEPT !.attached = TRUE, !.attachOp = NoOp,
     !.pc = IF terminals[s].pc = "prompt" /\ shell.attachState = "clean-reconcile" THEN "prompt" ELSE @,
     !.reconcile = shell.attachState = "clean-reconcile",
     !.applied = shell.appliedRevision]

LEMMA AttachOutcome ==
  ASSUME Service, HookInv, NEW s \in Shells, AttachTerminal(s)
  PROVE  /\ terminals[s].pc \in {"command", "prompt"} /\ ~terminals[s].attached
         /\ UNCHANGED <<env, edits>> /\ (UNCHANGED failures \/ Failed)
         /\ AttachInitial(s) \in Snapshot /\ Retained(terminals[s].attachOp, s) \in Operations
         /\ \/ /\ AdapterAttach(s, Retained(terminals[s].attachOp, s), AttachInitial(s))
               /\ UNCHANGED failures /\ Becomes(s, AttachJoined(s, shells'[s]))
            \/ /\ AdapterAttach(s, Retained(terminals[s].attachOp, s), AttachInitial(s))
               /\ Failed /\ Becomes(s, AttachAsked(s))
            \/ UNCHANGED vars /\ Becomes(s, AttachAsked(s))
  <1>1. /\ terminals[s].pc \in {"command", "prompt"} /\ ~terminals[s].attached
        /\ Invoke(s, "attach", AdapterAttach(s, Retained(terminals[s].attachOp, s), AttachInitial(s)),
                  AttachJoined(s, shells'[s]), AttachAsked(s))
        /\ UNCHANGED <<env, edits>>
    BY DEF AttachTerminal, AttachInitial, AttachAsked, AttachJoined
  <1>2. AttachInitial(s) \in Snapshot /\ terminals[s].attachOp \in OperationIds
    BY DEF AttachInitial, HookInv, HookTypes, Terminal
  <1>3. Retained(terminals[s].attachOp, s) \in Operations
    BY <1>2, RetainedOperation
  <1>4. QED
    BY <1>1, <1>2, <1>3, InvokeOutcome

LEMMA AttachAskedTerminal ==
  ASSUME Service, HookInv, NEW s \in Shells, terminals[s].pc \in {"command", "prompt"}
  PROVE  /\ AttachAsked(s) \in Terminal /\ AttachAsked(s).pc \in {"command", "prompt"}
         /\ AttachAsked(s).attached = terminals[s].attached
         /\ AttachAsked(s).baseline = AttachInitial(s) /\ AttachInitial(s) \in Snapshot
         /\ AttachAsked(s).applied = terminals[s].applied /\ AttachAsked(s).reply = terminals[s].reply
         /\ AttachAsked(s).prepareOp = terminals[s].prepareOp
         /\ AttachAsked(s).ackOp = terminals[s].ackOp
  <1>. DEFINE t == terminals[s]
              op == Retained(t.attachOp, s)
              initial == AttachInitial(s)
              asked == AttachAsked(s)
              pc == IF t.pc = "command" THEN "prompt" ELSE "command"
  <1>1. t \in Terminal /\ initial \in Snapshot
    BY DEF HookInv, HookTypes, AttachInitial, Terminal
  <1>2. op \in OperationIds
    BY <1>1, RetainedOperation DEF Terminal, OperationIds
  <1>3. pc \in {"command", "prompt"}
    OBVIOUS
  <1>4. asked = [t EXCEPT !.pc = pc, !.baseline = initial, !.attachOp = op]
    BY DEF AttachAsked
  <1>. HIDE DEF t, op, initial, asked, pc
  <1>5. asked \in Terminal
    BY <1>1, <1>2, <1>3, <1>4 DEF Terminal
  <1>6. /\ asked.pc = pc /\ asked.attached = t.attached
        /\ asked.baseline = initial /\ asked.applied = t.applied /\ asked.reply = t.reply
        /\ asked.prepareOp = t.prepareOp /\ asked.ackOp = t.ackOp
    BY <1>1, <1>4 DEF Terminal
  <1>7. QED
    BY <1>1, <1>3, <1>5, <1>6 DEF t, op, initial, asked

LEMMA AttachTerminals ==
  ASSUME Service, HookInv, NEW s \in Shells, terminals[s].pc \in {"command", "prompt"},
         NEW shell \in ShellState
  PROVE  /\ AttachJoined(s, shell) \in Terminal
         /\ AttachJoined(s, shell).pc \in {"command", "prompt"}
         /\ AttachJoined(s, shell).attached = TRUE
         /\ AttachJoined(s, shell).baseline = AttachInitial(s)
         /\ AttachJoined(s, shell).reconcile = (shell.attachState = "clean-reconcile")
         /\ AttachJoined(s, shell).applied = shell.appliedRevision
         /\ AttachJoined(s, shell).reply = terminals[s].reply
         /\ AttachJoined(s, shell).prepareOp = terminals[s].prepareOp
         /\ AttachJoined(s, shell).ackOp = terminals[s].ackOp
  <1>. DEFINE asked == AttachAsked(s)
              joined == AttachJoined(s, shell)
              pc == IF terminals[s].pc = "prompt" /\ shell.attachState = "clean-reconcile"
                    THEN "prompt" ELSE asked.pc
              flag == shell.attachState = "clean-reconcile"
              applied == shell.appliedRevision
  <1>1. asked \in Terminal /\ asked.pc \in {"command", "prompt"} /\ asked.baseline = AttachInitial(s)
    BY AttachAskedTerminal
  <1>2. flag \in BOOLEAN /\ applied \in Nat /\ pc \in {"command", "prompt"}
    BY <1>1 DEF ShellState
  <1>3. joined = [asked EXCEPT !.attached = TRUE, !.attachOp = NoOp, !.pc = pc,
                               !.reconcile = flag, !.applied = applied]
    BY DEF AttachJoined
  <1>4. /\ asked.reply = terminals[s].reply /\ asked.prepareOp = terminals[s].prepareOp
        /\ asked.ackOp = terminals[s].ackOp
    BY AttachAskedTerminal
  <1>. HIDE DEF asked, joined, pc, flag, applied
  <1>5. joined \in Terminal
    BY <1>1, <1>2, <1>3 DEF Terminal, OperationIds
  <1>6. /\ joined.pc = pc /\ joined.attached = TRUE /\ joined.baseline = asked.baseline
        /\ joined.reconcile = flag /\ joined.applied = applied /\ joined.reply = asked.reply
        /\ joined.prepareOp = asked.prepareOp /\ joined.ackOp = asked.ackOp
    BY <1>1, <1>2, <1>3 DEF Terminal
  <1>7. QED
    BY <1>1, <1>2, <1>4, <1>5, <1>6 DEF joined, flag, applied

LEMMA AttachHook ==
  ASSUME Service, HookInv, NEW s \in Shells, AttachTerminal(s)
  PROVE  Service' /\ Grows /\ OnlyShell(s) /\ HookInv'
  <1>. DEFINE t == terminals[s]
              op == Retained(t.attachOp, s)
              asked == AttachAsked(s)
              joined == AttachJoined(s, shells'[s])
  <1>1. t \in Terminal /\ HookLocal(s)
    BY DEF HookInv, HookTypes
  <1>2. /\ t.pc \in {"command", "prompt"} /\ ~t.attached
        /\ AttachInitial(s) \in Snapshot /\ op \in Operations
    BY AttachOutcome
  <1>3. Service' /\ Grows /\ OnlyShell(s)
    BY AttachOutcome, AdapterAttachServed, UnservedStep
  <1>4. head' \in Nat /\ head <= head' /\ head \in Nat
    BY <1>3 DEF Service, TypeInv, HistoryTypes, Grows
  <1>5. t.reply = NoReply /\ t.applied = 0 /\ t.prepareOp = NoOp /\ t.ackOp = NoOp
    BY <1>1, <1>2 DEF HookLocal
  <1>6. env' \in [Shells -> Snapshot] /\ edits' \in [Shells -> Nat] /\ failures' \in 0 .. MaxFailures
    BY AttachOutcome, RequestTypes
  <1>7. CASE Becomes(s, asked)
    <2>1. terminals'[s] = asked
      BY <1>7 DEF Becomes, HookInv, HookTypes
    <2>2. /\ asked \in Terminal /\ asked.pc \in {"command", "prompt"} /\ asked.attached = t.attached
          /\ asked.applied = t.applied /\ asked.reply = t.reply
          /\ asked.prepareOp = t.prepareOp /\ asked.ackOp = t.ackOp
      BY <1>2, AttachAskedTerminal
    <2>. HIDE DEF asked
    <2>3. HookLocal(s)'
      BY <1>2, <1>4, <1>5, <2>1, <2>2 DEF HookLocal
    <2>4. QED
      BY <1>3, <1>6, <1>7, <2>2, <2>3, OneTerminal
  <1>8. CASE AdapterAttach(s, op, AttachInitial(s)) /\ Becomes(s, joined)
    <2>1. s \in Attached'
      BY <1>2, <1>8, AdapterAttachServed
    <2>2. shells'[s] \in ShellState /\ shells'[s].appliedRevision \in Nat /\ shells'[s].appliedRevision <= head'
      BY <1>3, <2>1 DEF Service, TypeInv, ShellTypes, Attached, HistoryInv, ShellsInv, ShellHistory, ShellState
    <2>3. terminals'[s] = joined
      BY <1>8 DEF Becomes, HookInv, HookTypes
    <2>4. AttachInitial(s) # NoBaseline
      BY <1>2, ShellSyncAssumption
    <2>5. /\ joined \in Terminal /\ joined.pc \in {"command", "prompt"} /\ joined.attached = TRUE
          /\ joined.applied = shells'[s].appliedRevision /\ joined.reply = t.reply
          /\ joined.baseline = AttachInitial(s)
      BY <1>2, <2>2, AttachTerminals
    <2>. HIDE DEF joined
    <2>6. HookLocal(s)'
      BY <1>4, <1>5, <2>1, <2>2, <2>3, <2>4, <2>5 DEF HookLocal
    <2>7. QED
      BY <1>3, <1>6, <1>8, <2>5, <2>6, OneTerminal DEF joined
  <1>9. QED
    BY <1>3, <1>7, <1>8, AttachOutcome

(* The answer of a request is in its receipt.                              *)
LEMMA AnswerOf ==
  ASSUME Service', NEW s \in Shells, NEW k \in DOMAIN receipts'[s]
  PROVE  /\ ResultOf(receipts'[s], receipts'[s][k].op) = receipts'[s][k].result
         /\ Answer(receipts'[s][k], head', generations')
  <1>1. ValidReceipts(receipts'[s])
    BY DEF Service, ValidInv, ReceiptsInv
  <1>2. QED
    BY <1>1, ResultFound DEF Service, AnswersInv

LEMMA PrepareAnswer ==
  ASSUME Service, HookTypes, NEW s \in Shells, NEW op \in Operations, AdapterPrepare(s, op)
  PROVE  \E k \in DOMAIN receipts'[s] :
           /\ receipts'[s][k].op = op /\ receipts'[s][k].kind = "prepare"
           /\ ResultOf(receipts'[s], op) = receipts'[s][k].result
           /\ receipts'[s][k].result = NoPending \/ Transition(receipts'[s][k].result, head')
  <1>1. Service'
    BY AdapterPrepareServed
  <1>2. \E k \in DOMAIN receipts'[s] : receipts'[s][k].op = op /\ receipts'[s][k].kind = "prepare"
    <2>1. CASE PreparePull(s, op, terminals[s].applied)
      <3>1. PICK result : AppendReceipt(s, op, "prepare", terminals[s].applied, result)
        BY <2>1 DEF PreparePull
      <3>2. \E k \in DOMAIN receipts'[s] :
              receipts'[s][k] = [op |-> op, kind |-> "prepare", request |-> terminals[s].applied,
                                 result |-> result]
        BY <3>1, ReceiptAdded DEF Service, TypeInv
      <3>3. QED
        BY <3>2
    <2>2. CASE ReceiptMatches(s, op, "prepare", terminals[s].applied) /\ UNCHANGED vars
      BY <2>2 DEF ReceiptMatches, vars, state
    <2>3. QED
      BY <2>1, <2>2 DEF AdapterPrepare
  <1>3. QED
    BY <1>1, <1>2, AnswerOf DEF Answer

LEMMA ResolveAnswer ==
  ASSUME Service, HookTypes, NEW s \in Shells, NEW op \in Operations, AdapterResolve(s, op)
  PROVE  Transition(ResultOf(receipts'[s], op), head')
  <1>1. Service'
    BY AdapterResolveServed
  <1>2. \E k \in DOMAIN receipts'[s] : receipts'[s][k].op = op /\ receipts'[s][k].kind = "resolve"
    <2>1. ASSUME NEW request, NEW result, AppendReceipt(s, op, "resolve", request, result)
          PROVE  \E k \in DOMAIN receipts'[s] : receipts'[s][k].op = op /\ receipts'[s][k].kind = "resolve"
      <3>1. \E k \in DOMAIN receipts'[s] :
              receipts'[s][k] = [op |-> op, kind |-> "resolve", request |-> request, result |-> result]
        BY <2>1, ReceiptAdded DEF Service, TypeInv
      <3>2. QED
        BY <3>1
    <2>2. ASSUME NEW request, ReceiptMatches(s, op, "resolve", request), UNCHANGED receipts
          PROVE  \E k \in DOMAIN receipts'[s] : receipts'[s][k].op = op /\ receipts'[s][k].kind = "resolve"
      BY <2>2 DEF ReceiptMatches
    <2>3. QED
      BY <2>1, <2>2 DEF AdapterResolve, ResolveShared
  <1>3. QED
    BY <1>1, <1>2, AnswerOf DEF Answer

(* A publish is answered with the conflict that the service keeps.         *)
LEMMA PublishAnswer ==
  ASSUME Service, HookTypes, NEW s \in Shells, terminals[s].baseline # NoBaseline,
         NEW op \in Operations, AdapterPublish(s, op)
  PROVE  /\ ResultOf(receipts'[s], op).conflict = shells'[s].conflict
         /\ shells'[s].conflict \in Conflict
  <1>. DEFINE delta == DiffSnapshot(terminals[s].baseline, env[s])
              ack == terminals[s].applied
              observed == Observed(s, delta)
              wanted == Wanted(s, observed)
              losing == Losing(ack, wanted)
              conflict == IF losing = {} THEN NoConflict
                          ELSE [kind |-> IF ack < floor THEN "history-gap" ELSE "overlap",
                                identity |-> CHOOSE i \in losing : TRUE,
                                baseRevision |-> ack,
                                sharedRevision |-> head',
                                token |-> NewToken("conflict", op, head')]
              result == [revision |-> head', accepted |-> wanted \ losing, conflict |-> conflict]
  <1>1. Service' /\ s \in Attached'
    <2>1. Service' /\ OnlyShell(s)
      BY AdapterPublishServed
    <2>2. s \in Attached
      BY DEF AdapterPublish, Publish
    <2>3. QED
      BY <2>1, <2>2 DEF OnlyShell
  <1>2. AppendReceipt(s, op, "publish", [ack |-> ack, delta |-> delta], result)
    BY DEF AdapterPublish, Publish
  <1>3. shells'[s].conflict = conflict
    <2>1. shells[s] \in ShellState
      BY DEF AdapterPublish, Publish, Attached, Service, TypeInv, ShellTypes
    <2>2. shells'[s] = [shells[s] EXCEPT
            !.conflict = conflict,
            !.unpublished = Only(observed, losing),
            !.transition = IF losing = {} THEN "publish" ELSE "unpublished",
            !.captureBaseline = observed,
            !.behind = ack < head' \/ losing # {}]
      BY DEF AdapterPublish, Publish, Service, TypeInv, ShellTypes
    <2>. HIDE DEF conflict, observed, losing, ack
    <2>3. QED
      BY <2>1, <2>2 DEF ShellState
  <1>. HIDE DEF result, delta, ack
  <1>4. PICK k \in DOMAIN receipts'[s] :
          receipts'[s][k] = [op |-> op, kind |-> "publish",
                             request |-> [ack |-> ack, delta |-> delta], result |-> result]
    BY <1>2, ReceiptAdded DEF Service, TypeInv
  <1>5. ResultOf(receipts'[s], op) = result
    BY <1>1, <1>4, AnswerOf
  <1>6. shells'[s] \in ShellState
    BY <1>1 DEF Service, TypeInv, ShellTypes, Attached
  <1>7. QED
    BY <1>3, <1>5, <1>6 DEF result, ShellState

PublishAsked(s) == [terminals[s] EXCEPT !.pc = "prompt"]
KnownAs(conflict) ==
  IF conflict = NoConflict THEN NoConflictKnown
  ELSE [identity |-> conflict.identity, token |-> conflict.token]
PublishParsed(s, conflict) ==
  [PublishAsked(s) EXCEPT !.baseline = env[s], !.conflict = KnownAs(conflict)]

LEMMA PublishOutcome ==
  ASSUME Service, HookInv, NEW s \in Shells, PublishTerminal(s)
  PROVE  /\ terminals[s].pc = "command" /\ terminals[s].attached
         /\ terminals[s].baseline # NoBaseline
         /\ UNCHANGED <<env, edits>> /\ (UNCHANGED failures \/ Failed)
         /\ NewOperation(s) \in Operations
         /\ \/ /\ AdapterPublish(s, NewOperation(s))
               /\ UNCHANGED failures /\ Becomes(s, PublishParsed(s, shells'[s].conflict))
               /\ shells'[s].conflict \in Conflict
            \/ /\ AdapterPublish(s, NewOperation(s))
               /\ Failed /\ Becomes(s, PublishAsked(s))
            \/ UNCHANGED vars /\ Becomes(s, PublishAsked(s))
  <1>. DEFINE op == NewOperation(s)
              conflict == ResultOf(receipts'[s], op).conflict
  <1>1. /\ terminals[s].pc = "command" /\ terminals[s].attached
        /\ Invoke(s, "publish", AdapterPublish(s, op), PublishParsed(s, conflict), PublishAsked(s))
        /\ UNCHANGED <<env, edits>>
    BY DEF PublishTerminal, PublishParsed, PublishAsked, KnownAs
  <1>2. terminals[s].baseline # NoBaseline /\ HookTypes
    BY <1>1 DEF HookInv, HookLocal
  <1>3. op \in Operations
    BY FreshOperation DEF Service, TypeInv, ValidInv
  <1>4. AdapterPublish(s, op) => conflict = shells'[s].conflict /\ shells'[s].conflict \in Conflict
    BY <1>2, <1>3, PublishAnswer
  <1>5. QED
    BY <1>1, <1>2, <1>3, <1>4, InvokeOutcome

LEMMA PublishHook ==
  ASSUME Service, HookInv, NEW s \in Shells, PublishTerminal(s)
  PROVE  Service' /\ Grows /\ OnlyShell(s) /\ HookInv'
  <1>. DEFINE t == terminals[s]
              asked == PublishAsked(s)
              parsed == PublishParsed(s, shells'[s].conflict)
  <1>1. t \in Terminal /\ HookLocal(s) /\ HookTypes
    BY DEF HookInv, HookTypes
  <1>2. t.pc = "command" /\ t.attached /\ t.baseline # NoBaseline
    BY PublishOutcome
  <1>3. Service' /\ Grows /\ OnlyShell(s)
    BY <1>1, PublishOutcome, AdapterPublishServed, UnservedStep
  <1>4. head' \in Nat /\ head <= head' /\ head \in Nat
    BY <1>3 DEF Service, TypeInv, HistoryTypes, Grows
  <1>5. asked \in Terminal
    BY <1>1 DEF PublishAsked, Terminal
  <1>6. /\ asked.pc = "prompt" /\ asked.attached = t.attached /\ asked.baseline = t.baseline
        /\ asked.applied = t.applied /\ asked.reply = t.reply /\ asked.reconcile = t.reconcile
    BY <1>1 DEF PublishAsked, Terminal
  <1>7. t.reply = NoReply /\ t.applied <= head /\ s \in Attached' /\ t.applied \in Nat
    BY <1>1, <1>2, <1>3 DEF HookLocal, OnlyShell, Terminal
  <1>8. env' \in [Shells -> Snapshot] /\ edits' \in [Shells -> Nat] /\ failures' \in 0 .. MaxFailures
    BY PublishOutcome, RequestTypes
  <1>9. CASE Becomes(s, asked)
    <2>1. terminals'[s] = asked
      BY <1>9 DEF Becomes, HookInv, HookTypes
    <2>2. asked.applied <= head' /\ asked.baseline # NoBaseline /\ asked.attached
      BY <1>2, <1>4, <1>6, <1>7
    <2>3. asked.pc = "prompt" /\ asked.reply = NoReply /\ s \in Attached'
      BY <1>6, <1>7
    <2>. HIDE DEF asked
    <2>4. HookLocal(s)'
      BY <2>1, <2>2, <2>3 DEF HookLocal
    <2>5. QED
      BY <1>3, <1>5, <1>8, <1>9, <2>4, OneTerminal
  <1>10. CASE Becomes(s, parsed) /\ shells'[s].conflict \in Conflict
    <2>1. terminals'[s] = parsed
      BY <1>10 DEF Becomes, HookInv, HookTypes
    <2>. DEFINE known == KnownAs(shells'[s].conflict)
    <2>2. known \in {NoConflictKnown} \union [identity : Identities, token : Token]
      BY <1>10 DEF KnownAs, Conflict, NoConflict
    <2>3. parsed = [asked EXCEPT !.baseline = env[s], !.conflict = known]
      BY DEF PublishParsed
    <2>4. env[s] \in Snapshot /\ env[s] # NoBaseline
      BY <1>1, ShellSyncAssumption DEF HookTypes
    <2>. HIDE DEF known, asked, parsed
    <2>5. parsed \in Terminal
      BY <1>5, <2>2, <2>3, <2>4 DEF Terminal
    <2>6. /\ parsed.pc = asked.pc /\ parsed.attached = asked.attached /\ parsed.baseline = env[s]
          /\ parsed.applied = asked.applied /\ parsed.reply = asked.reply
      BY <1>5, <2>3 DEF Terminal
    <2>7. HookLocal(s)'
      BY <1>2, <1>4, <1>6, <1>7, <2>1, <2>4, <2>6 DEF HookLocal
    <2>8. QED
      BY <1>3, <1>8, <1>10, <2>5, <2>7, OneTerminal DEF parsed
  <1>11. QED
    BY <1>3, <1>9, <1>10, PublishOutcome

-------------------------------------------------------------------------------
(* Transitions are received                                                *)

(* What a received transition makes of a terminal that asked for one.      *)
LEMMA ReceivedTerminal ==
  ASSUME HookTypes, NEW s \in Shells, NEW asked \in Terminal, NEW result, NEW last \in Nat,
         result = NoPending \/ Transition(result, last)
  PROVE  LET got == Received(s, asked, result)
         IN  /\ got \in Terminal
             /\ got.attached = asked.attached /\ got.baseline = asked.baseline
             /\ got.applied = asked.applied /\ got.conflict = asked.conflict
             /\ got.ackOp = asked.ackOp
             /\ result = NoPending =>
                  /\ got.pc = asked.pc /\ got.reply = asked.reply /\ got.reconcile = asked.reconcile
                  /\ got.prepareOp = NoOp
             /\ result # NoPending =>
                  /\ got.pc = "apply" /\ got.reconcile /\ got.prepareOp = asked.prepareOp
                  /\ got.reply = buildTransition(s, result)
                  /\ got.reply \in Replies /\ got.reply.revision \in 1 .. last
  <1>. DEFINE got == Received(s, asked, result)
  <1>1. CASE result = NoPending
    <2>1. got = [asked EXCEPT !.prepareOp = NoOp, !.resolveOp = NoOp]
      BY <1>1 DEF Received
    <2>2. got \in Terminal
      BY <2>1 DEF Terminal, OperationIds
    <2>. HIDE DEF got
    <2>3. QED
      BY <1>1, <2>1, <2>2 DEF Terminal, got
  <1>2. CASE result # NoPending
    <2>. DEFINE reply == buildTransition(s, result)
                target == ApplyChanges(env[s], result.changes)
    <2>1. /\ result.changes \in Changes /\ result.pending \in Pending \ {NoPending}
          /\ result.pending.revision \in 1 .. last
      BY <1>2 DEF Transition
    <2>2. target \in Snapshot /\ env[s] \in Snapshot
      BY <2>1, ApplyChangesType DEF HookTypes
    <2>3. DiffSnapshot(env[s], target) \in Changes /\ DiffSnapshot(target, env[s]) \in Changes
      <3>. HIDE DEF target
      <3>1. QED
        BY <2>2, DiffSnapshotType
    <2>4. result.pending.token \in Token /\ result.pending.revision \in Nat
      BY <2>1 DEF Pending
    <2>5. reply \in Replies /\ reply.revision = result.pending.revision
      <3>. HIDE DEF target
      <3>1. reply = [revision |-> result.pending.revision, token |-> result.pending.token,
                     patch |-> DiffSnapshot(env[s], target), reverse |-> DiffSnapshot(target, env[s])]
        BY DEF buildTransition, target
      <3>. HIDE DEF reply
      <3>2. QED
        BY <2>3, <2>4, <3>1 DEF Replies
    <2>6. got = [asked EXCEPT !.pc = "apply", !.reconcile = TRUE, !.reply = reply]
      BY <1>2 DEF Received
    <2>. HIDE DEF reply, got
    <2>7. got \in Terminal
      BY <2>5, <2>6 DEF Terminal
    <2>8. /\ got.pc = "apply" /\ got.reconcile /\ got.reply = reply
          /\ got.attached = asked.attached /\ got.baseline = asked.baseline
          /\ got.applied = asked.applied /\ got.conflict = asked.conflict
          /\ got.ackOp = asked.ackOp /\ got.prepareOp = asked.prepareOp
      BY <2>6 DEF Terminal
    <2>9. QED
      BY <1>2, <2>1, <2>5, <2>7, <2>8 DEF reply, got
  <1>3. QED
    BY <1>1, <1>2

PullAsked(s) ==
  [terminals[s] EXCEPT !.pc = "command", !.prepareOp = Retained(terminals[s].prepareOp, s)]

LEMMA PullOutcome ==
  ASSUME Service, HookInv, NEW s \in Shells, PullTerminal(s)
  PROVE  LET op == Retained(terminals[s].prepareOp, s)
         IN  /\ terminals[s].pc = "prompt" /\ terminals[s].attached
             /\ UNCHANGED <<env, edits>> /\ (UNCHANGED failures \/ Failed)
             /\ op \in Operations
             /\ \/ /\ AdapterPrepare(s, op) /\ UNCHANGED failures
                   /\ Becomes(s, Received(s, PullAsked(s), ResultOf(receipts'[s], op)))
                \/ AdapterPrepare(s, op) /\ Failed /\ Becomes(s, PullAsked(s))
                \/ UNCHANGED vars /\ Becomes(s, PullAsked(s))
  <1>. DEFINE op == Retained(terminals[s].prepareOp, s)
  <1>1. /\ terminals[s].pc = "prompt" /\ terminals[s].attached
        /\ Invoke(s, "prepare", AdapterPrepare(s, op),
                  Received(s, PullAsked(s), ResultOf(receipts'[s], op)), PullAsked(s))
        /\ UNCHANGED <<env, edits>>
    BY DEF PullTerminal, PullAsked
  <1>2. op \in Operations
    BY RetainedOperation DEF HookInv, HookTypes, Terminal
  <1>3. QED
    BY <1>1, <1>2, InvokeOutcome

(* What a request for a transition leaves of the terminal's variables.     *)
LEMMA AskedHook ==
  ASSUME Service, HookInv, NEW s \in Shells, terminals[s].attached,
         terminals[s].pc \in {"command", "prompt"},
         NEW asked \in Terminal, asked.pc = "command", asked.attached,
         asked.baseline = terminals[s].baseline, asked.applied = terminals[s].applied,
         asked.reply = terminals[s].reply,
         Service', Grows, OnlyShell(s), UNCHANGED <<env, edits>>, UNCHANGED failures \/ Failed,
         \/ Becomes(s, asked)
         \/ \E result : /\ result = NoPending \/ Transition(result, head')
                        /\ Becomes(s, Received(s, asked, result))
  PROVE  HookInv'
  <1>1. HookLocal(s) /\ HookTypes /\ terminals[s] \in Terminal
    BY DEF HookInv, HookTypes
  <1>2. head' \in Nat /\ head <= head' /\ head \in Nat /\ s \in Attached'
    BY <1>1 DEF Service, TypeInv, HistoryTypes, Grows, OnlyShell, HookLocal
  <1>3. /\ asked.reply = NoReply /\ asked.applied \in Nat /\ asked.applied <= head'
        /\ asked.baseline # NoBaseline
    BY <1>1, <1>2 DEF HookLocal, Terminal
  <1>4. env' \in [Shells -> Snapshot] /\ edits' \in [Shells -> Nat] /\ failures' \in 0 .. MaxFailures
    BY RequestTypes
  <1>5. CASE Becomes(s, asked)
    <2>1. terminals'[s] = asked
      BY <1>5 DEF Becomes, HookInv, HookTypes
    <2>2. HookLocal(s)'
      BY <1>2, <1>3, <2>1 DEF HookLocal
    <2>3. QED
      BY <1>4, <1>5, <2>2, OneTerminal
  <1>6. ASSUME NEW result, result = NoPending \/ Transition(result, head'),
               Becomes(s, Received(s, asked, result))
        PROVE  HookInv'
    <2>. DEFINE got == Received(s, asked, result)
    <2>1. terminals'[s] = got
      BY <1>6 DEF Becomes, HookInv, HookTypes
    <2>2. /\ got \in Terminal /\ got.attached /\ got.baseline # NoBaseline
          /\ got.applied <= head'
      BY <1>1, <1>2, <1>3, <1>6, ReceivedTerminal
    <2>3. \/ got.pc = "command" /\ got.reply = NoReply
          \/ /\ got.pc = "apply" /\ got.reconcile
             /\ got.reply \in Replies /\ got.reply.revision \in 1 .. head'
      BY <1>1, <1>2, <1>3, <1>6, ReceivedTerminal
    <2>4. NoReply \notin Replies
      BY ShellSyncAssumption DEF Replies
    <2>. HIDE DEF got
    <2>5. HookLocal(s)'
      BY <1>2, <2>1, <2>2, <2>3, <2>4 DEF HookLocal
    <2>6. QED
      BY <1>4, <1>6, <2>2, <2>5, OneTerminal DEF got
  <1>7. QED
    BY <1>5, <1>6

LEMMA PullAskedTerminal ==
  ASSUME Service, HookInv, NEW s \in Shells, terminals[s].pc = "prompt"
  PROVE  /\ PullAsked(s) \in Terminal
         /\ PullAsked(s).pc = "command" /\ PullAsked(s).attached = terminals[s].attached
         /\ PullAsked(s).baseline = terminals[s].baseline /\ PullAsked(s).applied = terminals[s].applied
         /\ PullAsked(s).reply = terminals[s].reply /\ PullAsked(s).conflict = terminals[s].conflict
         /\ PullAsked(s).reconcile = terminals[s].reconcile /\ PullAsked(s).ackOp = terminals[s].ackOp
         /\ PullAsked(s).prepareOp = Retained(terminals[s].prepareOp, s)
  <1>. DEFINE t == terminals[s]
              op == Retained(t.prepareOp, s)
              asked == PullAsked(s)
  <1>1. t \in Terminal
    BY DEF HookInv, HookTypes
  <1>2. op \in OperationIds
    BY <1>1, RetainedOperation DEF Terminal, OperationIds
  <1>3. asked = [t EXCEPT !.pc = "command", !.prepareOp = op]
    BY DEF PullAsked
  <1>. HIDE DEF t, op, asked
  <1>4. asked \in Terminal
    BY <1>1, <1>2, <1>3 DEF Terminal
  <1>5. /\ asked.pc = "command" /\ asked.attached = t.attached
        /\ asked.baseline = t.baseline /\ asked.applied = t.applied
        /\ asked.reply = t.reply /\ asked.conflict = t.conflict
        /\ asked.reconcile = t.reconcile /\ asked.ackOp = t.ackOp
        /\ asked.prepareOp = op
    BY <1>1, <1>3 DEF Terminal
  <1>6. QED
    BY <1>4, <1>5 DEF t, op, asked

LEMMA PullHook ==
  ASSUME Service, HookInv, NEW s \in Shells, PullTerminal(s)
  PROVE  Service' /\ Grows /\ OnlyShell(s) /\ HookInv'
  <1>. DEFINE op == Retained(terminals[s].prepareOp, s)
              result == ResultOf(receipts'[s], op)
  <1>1. HookTypes /\ terminals[s].pc = "prompt" /\ terminals[s].attached /\ op \in Operations
    BY PullOutcome DEF HookInv
  <1>2. Service' /\ Grows /\ OnlyShell(s)
    BY <1>1, PullOutcome, AdapterPrepareServed, UnservedStep
  <1>3. AdapterPrepare(s, op) => result = NoPending \/ Transition(result, head')
    BY <1>1, PrepareAnswer
  <1>4. /\ UNCHANGED <<env, edits>> /\ (UNCHANGED failures \/ Failed)
        /\ \/ Becomes(s, PullAsked(s))
           \/ AdapterPrepare(s, op) /\ Becomes(s, Received(s, PullAsked(s), result))
    BY PullOutcome
  <1>. HIDE DEF result
  <1>5. QED
    BY <1>1, <1>2, <1>3, <1>4, PullAskedTerminal, AskedHook

ResolveAsked(s) == [terminals[s] EXCEPT !.resolveOp = Retained(terminals[s].resolveOp, s)]

LEMMA ResolveOutcome ==
  ASSUME Service, HookInv, NEW s \in Shells, ResolveTerminal(s)
  PROVE  LET op == Retained(terminals[s].resolveOp, s)
         IN  /\ terminals[s].pc = "command" /\ terminals[s].attached
             /\ terminals[s].conflict # NoConflictKnown
             /\ UNCHANGED <<env, edits>> /\ (UNCHANGED failures \/ Failed)
             /\ op \in Operations
             /\ \/ /\ AdapterResolve(s, op) /\ UNCHANGED failures
                   /\ Becomes(s, Received(s, ResolveAsked(s), ResultOf(receipts'[s], op)))
                \/ AdapterResolve(s, op) /\ Failed /\ Becomes(s, ResolveAsked(s))
                \/ UNCHANGED vars /\ Becomes(s, ResolveAsked(s))
  <1>. DEFINE op == Retained(terminals[s].resolveOp, s)
  <1>1. /\ terminals[s].pc = "command" /\ terminals[s].attached
        /\ terminals[s].conflict # NoConflictKnown
        /\ Invoke(s, "resolve", AdapterResolve(s, op),
                  Received(s, ResolveAsked(s), ResultOf(receipts'[s], op)), ResolveAsked(s))
        /\ UNCHANGED <<env, edits>>
    BY DEF ResolveTerminal, ResolveAsked
  <1>2. op \in Operations
    BY RetainedOperation DEF HookInv, HookTypes, Terminal
  <1>3. QED
    BY <1>1, <1>2, InvokeOutcome

LEMMA ResolveAskedTerminal ==
  ASSUME Service, HookInv, NEW s \in Shells
  PROVE  /\ ResolveAsked(s) \in Terminal
         /\ ResolveAsked(s).pc = terminals[s].pc /\ ResolveAsked(s).attached = terminals[s].attached
         /\ ResolveAsked(s).baseline = terminals[s].baseline
         /\ ResolveAsked(s).applied = terminals[s].applied
         /\ ResolveAsked(s).reply = terminals[s].reply /\ ResolveAsked(s).conflict = terminals[s].conflict
         /\ ResolveAsked(s).reconcile = terminals[s].reconcile
         /\ ResolveAsked(s).ackOp = terminals[s].ackOp
         /\ ResolveAsked(s).prepareOp = terminals[s].prepareOp
  <1>. DEFINE t == terminals[s]
              op == Retained(t.resolveOp, s)
              asked == ResolveAsked(s)
  <1>1. t \in Terminal
    BY DEF HookInv, HookTypes
  <1>2. op \in OperationIds
    BY <1>1, RetainedOperation DEF Terminal, OperationIds
  <1>3. asked = [t EXCEPT !.resolveOp = op]
    BY DEF ResolveAsked
  <1>. HIDE DEF t, op, asked
  <1>4. asked \in Terminal
    BY <1>1, <1>2, <1>3 DEF Terminal
  <1>5. /\ asked.pc = t.pc /\ asked.attached = t.attached
        /\ asked.baseline = t.baseline /\ asked.applied = t.applied
        /\ asked.reply = t.reply /\ asked.conflict = t.conflict
        /\ asked.reconcile = t.reconcile /\ asked.ackOp = t.ackOp
        /\ asked.prepareOp = t.prepareOp
    BY <1>1, <1>3 DEF Terminal
  <1>6. QED
    BY <1>4, <1>5 DEF t, asked

LEMMA ResolveHook ==
  ASSUME Service, HookInv, NEW s \in Shells, ResolveTerminal(s)
  PROVE  Service' /\ Grows /\ OnlyShell(s) /\ HookInv'
  <1>. DEFINE op == Retained(terminals[s].resolveOp, s)
              result == ResultOf(receipts'[s], op)
  <1>1. HookTypes /\ terminals[s].pc = "command" /\ terminals[s].attached /\ op \in Operations
    BY ResolveOutcome DEF HookInv
  <1>2. Service' /\ Grows /\ OnlyShell(s)
    BY <1>1, ResolveOutcome, AdapterResolveServed, UnservedStep
  <1>3. AdapterResolve(s, op) => Transition(result, head')
    BY <1>1, ResolveAnswer
  <1>4. /\ UNCHANGED <<env, edits>> /\ (UNCHANGED failures \/ Failed)
        /\ \/ Becomes(s, ResolveAsked(s))
           \/ AdapterResolve(s, op) /\ Becomes(s, Received(s, ResolveAsked(s), result))
    BY ResolveOutcome
  <1>. HIDE DEF result
  <1>5. QED
    BY <1>1, <1>2, <1>3, <1>4, ResolveAskedTerminal, AskedHook

AckAsked(s) ==
  [terminals[s] EXCEPT !.pc = "command", !.reply = NoReply,
                       !.ackOp = Retained(terminals[s].ackOp, s)]
AckConfirmed(s) ==
  [AckAsked(s) EXCEPT !.applied = terminals[s].reply.revision, !.reconcile = FALSE,
                      !.baseline = env[s], !.conflict = NoConflictKnown,
                      !.ackOp = NoOp, !.prepareOp = NoOp, !.resolveOp = NoOp]

LEMMA AcknowledgeOutcome ==
  ASSUME Service, HookInv, NEW s \in Shells, AcknowledgeTerminal(s)
  PROVE  LET op == Retained(terminals[s].ackOp, s)
         IN  /\ terminals[s].pc = "verify"
             /\ UNCHANGED <<env, edits>> /\ (UNCHANGED failures \/ Failed)
             /\ op \in Operations
             /\ \/ /\ AdapterAcknowledge(s, op, terminals[s].reply) /\ UNCHANGED failures
                   /\ Becomes(s, AckConfirmed(s))
                \/ /\ AdapterAcknowledge(s, op, terminals[s].reply) /\ Failed
                   /\ Becomes(s, AckAsked(s))
                \/ UNCHANGED vars /\ Becomes(s, AckAsked(s))
  <1>. DEFINE op == Retained(terminals[s].ackOp, s)
  <1>1. /\ terminals[s].pc = "verify"
        /\ Invoke(s, "acknowledge", AdapterAcknowledge(s, op, terminals[s].reply),
                  AckConfirmed(s), AckAsked(s))
        /\ UNCHANGED <<env, edits>>
    BY DEF AcknowledgeTerminal, AckAsked, AckConfirmed
  <1>2. op \in Operations
    BY RetainedOperation DEF HookInv, HookTypes, Terminal
  <1>3. QED
    BY <1>1, <1>2, InvokeOutcome

LEMMA AckTerminals ==
  ASSUME Service, HookInv, NEW s \in Shells, terminals[s].pc = "verify"
  PROVE  /\ AckAsked(s) \in Terminal /\ AckConfirmed(s) \in Terminal
         /\ AckAsked(s).pc = "command" /\ AckAsked(s).attached = terminals[s].attached
         /\ AckAsked(s).baseline = terminals[s].baseline /\ AckAsked(s).applied = terminals[s].applied
         /\ AckAsked(s).reply = NoReply /\ AckAsked(s).conflict = terminals[s].conflict
         /\ AckAsked(s).reconcile = terminals[s].reconcile
         /\ AckAsked(s).prepareOp = terminals[s].prepareOp
         /\ AckAsked(s).ackOp = Retained(terminals[s].ackOp, s)
         /\ AckConfirmed(s).pc = "command" /\ AckConfirmed(s).attached = terminals[s].attached
         /\ AckConfirmed(s).baseline = env[s]
         /\ AckConfirmed(s).applied = terminals[s].reply.revision
         /\ AckConfirmed(s).reply = NoReply /\ AckConfirmed(s).conflict = NoConflictKnown
         /\ AckConfirmed(s).reconcile = FALSE
         /\ AckConfirmed(s).prepareOp = NoOp /\ AckConfirmed(s).ackOp = NoOp
  <1>. DEFINE t == terminals[s]
              op == Retained(t.ackOp, s)
              asked == AckAsked(s)
              confirmed == AckConfirmed(s)
              revision == t.reply.revision
              snap == env[s]
  <1>1. t \in Terminal /\ snap \in Snapshot /\ HookLocal(s)
    BY DEF HookInv, HookTypes
  <1>2. op \in OperationIds
    BY <1>1, RetainedOperation DEF Terminal, OperationIds
  <1>3. revision \in Nat
    BY <1>1 DEF HookLocal, Terminal, Replies
  <1>4. asked = [t EXCEPT !.pc = "command", !.reply = NoReply, !.ackOp = op]
    BY DEF AckAsked
  <1>5. confirmed = [asked EXCEPT !.applied = revision, !.reconcile = FALSE,
                      !.baseline = snap, !.conflict = NoConflictKnown,
                      !.ackOp = NoOp, !.prepareOp = NoOp, !.resolveOp = NoOp]
    BY DEF AckConfirmed
  <1>. HIDE DEF t, op, asked, revision, snap, confirmed
  <1>6. asked \in Terminal
    BY <1>1, <1>2, <1>4 DEF Terminal
  <1>7. /\ asked.pc = "command" /\ asked.attached = t.attached
        /\ asked.baseline = t.baseline /\ asked.applied = t.applied
        /\ asked.reply = NoReply /\ asked.conflict = t.conflict
        /\ asked.reconcile = t.reconcile /\ asked.prepareOp = t.prepareOp
        /\ asked.ackOp = op
    BY <1>1, <1>4 DEF Terminal
  <1>8. confirmed \in Terminal
    BY <1>1, <1>3, <1>5, <1>6 DEF Terminal, OperationIds
  <1>9. /\ confirmed.pc = asked.pc /\ confirmed.attached = asked.attached
        /\ confirmed.baseline = snap /\ confirmed.applied = revision
        /\ confirmed.reply = asked.reply /\ confirmed.conflict = NoConflictKnown
        /\ confirmed.reconcile = FALSE
        /\ confirmed.prepareOp = NoOp /\ confirmed.ackOp = NoOp
    BY <1>5, <1>6 DEF Terminal
  <1>10. QED
    BY <1>6, <1>7, <1>8, <1>9 DEF t, op, asked, confirmed, revision, snap

LEMMA AcknowledgeHook ==
  ASSUME Service, HookInv, NEW s \in Shells, AcknowledgeTerminal(s)
  PROVE  Service' /\ Grows /\ OnlyShell(s) /\ HookInv'
  <1>. DEFINE op == Retained(terminals[s].ackOp, s)
              asked == AckAsked(s)
              confirmed == AckConfirmed(s)
  <1>1. HookTypes /\ HookLocal(s) /\ terminals[s].pc = "verify" /\ op \in Operations
    BY AcknowledgeOutcome DEF HookInv
  <1>2. Service' /\ Grows /\ OnlyShell(s)
    BY <1>1, AcknowledgeOutcome, AdapterAcknowledgeServed, UnservedStep
  <1>3. head' \in Nat /\ head <= head' /\ head \in Nat
    BY <1>2 DEF Service, TypeInv, HistoryTypes, Grows
  <1>4. /\ terminals[s].attached /\ terminals[s].baseline # NoBaseline
        /\ terminals[s].applied \in Nat /\ terminals[s].applied <= head'
        /\ terminals[s].reply.revision \in 1 .. head' /\ s \in Attached'
    <2>1. /\ terminals[s].attached /\ terminals[s].baseline # NoBaseline
          /\ terminals[s].applied \in Nat /\ terminals[s].applied <= head
          /\ terminals[s].reply.revision \in 1 .. head /\ s \in Attached
      BY <1>1 DEF HookLocal, HookTypes, Terminal
    <2>2. QED
      BY <1>2, <1>3, <2>1 DEF OnlyShell
  <1>5. env' \in [Shells -> Snapshot] /\ edits' \in [Shells -> Nat] /\ failures' \in 0 .. MaxFailures
    BY AcknowledgeOutcome, RequestTypes
  <1>6. CASE Becomes(s, asked)
    <2>1. terminals'[s] = asked
      BY <1>6 DEF Becomes, HookInv, HookTypes
    <2>2. /\ asked \in Terminal /\ asked.attached /\ asked.pc = "command" /\ asked.reply = NoReply
          /\ asked.applied <= head' /\ asked.baseline # NoBaseline
      BY <1>1, <1>4, AckTerminals
    <2>. HIDE DEF asked
    <2>3. HookLocal(s)'
      BY <1>4, <2>1, <2>2 DEF HookLocal
    <2>4. QED
      BY <1>2, <1>5, <1>6, <2>2, <2>3, OneTerminal
  <1>7. CASE Becomes(s, confirmed)
    <2>1. terminals'[s] = confirmed
      BY <1>7 DEF Becomes, HookInv, HookTypes
    <2>2. env[s] # NoBaseline
      BY <1>1, ShellSyncAssumption DEF HookTypes
    <2>. DEFINE revision == terminals[s].reply.revision
    <2>3. revision <= head'
      BY <1>3, <1>4
    <2>4. /\ confirmed \in Terminal /\ confirmed.attached = terminals[s].attached
          /\ confirmed.pc = "command" /\ confirmed.reply = NoReply
          /\ confirmed.applied = revision /\ confirmed.baseline = env[s]
      BY <1>1, AckTerminals
    <2>. HIDE DEF confirmed, revision
    <2>5. HookLocal(s)'
      BY <1>4, <2>1, <2>2, <2>3, <2>4 DEF HookLocal
    <2>6. QED
      BY <1>2, <1>5, <1>7, <2>4, <2>5, OneTerminal
  <1>8. QED
    BY <1>2, <1>6, <1>7, AcknowledgeOutcome

-------------------------------------------------------------------------------
(* Steps in which the service is not asked                                 *)

Applied(s) ==
  [terminals[s] EXCEPT !.pc = "verify",
     !.active = IF terminals[s].reply.patch = NoChanges THEN @ ELSE terminals[s].reply.reverse]

LEMMA ApplyOutcome ==
  ASSUME HookInv, NEW s \in Shells, ApplyTransition(s)
  PROVE  LET t == terminals[s]
         IN  /\ t.pc = "apply" /\ UNCHANGED vars /\ UNCHANGED edits
             /\ (UNCHANGED failures \/ Failed)
             /\ \/ /\ env' = [env EXCEPT ![s] = ApplyChanges(@, t.reply.patch)]
                   /\ UNCHANGED failures /\ Becomes(s, Applied(s))
                \/ env' = env /\ Failed /\ Becomes(s, Abandoned(t, TRUE))
                \/ /\ \E done \in SUBSET DOMAIN t.reply.patch :
                        env' = [env EXCEPT ![s] = ApplyChanges(@, Only(t.reply.patch, done))]
                   /\ Failed /\ Becomes(s, Abandoned(t, FALSE))
  <1>1. HookTypes
    BY DEF HookInv
  <1>2. QED
    BY <1>1 DEF ApplyTransition, Applied, Fail, Failed, HookTypes

LEMMA ApplyHook ==
  ASSUME Service, HookInv, NEW s \in Shells, ApplyTransition(s)
  PROVE  Service' /\ Grows /\ OnlyShell(s) /\ HookInv'
  <1>. DEFINE t == terminals[s]
              reverse == IF t.reply.patch = NoChanges THEN t.active ELSE t.reply.reverse
              applied == Applied(s)
  <1>1. /\ HookTypes /\ HookLocal(s) /\ t \in Terminal /\ t.pc = "apply" /\ env[s] \in Snapshot
        /\ UNCHANGED vars /\ UNCHANGED edits
    BY ApplyOutcome DEF HookInv, HookTypes
  <1>2. Service' /\ Grows /\ OnlyShell(s)
    BY <1>1, UnservedStep
  <1>3. /\ t.reply \in Replies /\ t.reply # NoReply /\ t.attached /\ t.reconcile /\ t.baseline # NoBaseline
        /\ s \in Attached' /\ t.applied <= head' /\ t.reply.revision \in 1 .. head'
    <2>1. UNCHANGED <<head, shells>>
      BY <1>1 DEF vars, state
    <2>2. QED
      BY <1>1, <2>1 DEF HookLocal, Terminal, Attached
  <1>4. t.reply.patch \in Changes /\ t.reply.reverse \in Changes
    BY <1>3 DEF Replies
  <1>5. edits' \in [Shells -> Nat] /\ failures' \in 0 .. MaxFailures
    BY <1>1, ApplyOutcome, FailuresTyped DEF HookTypes
  <1>6. ASSUME env' = [env EXCEPT ![s] = ApplyChanges(@, t.reply.patch)], Becomes(s, applied)
        PROVE  HookInv'
    <2>1. ApplyChanges(env[s], t.reply.patch) \in Snapshot
      BY <1>1, <1>4, ApplyChangesType
    <2>2. env' \in [Shells -> Snapshot]
      BY <1>1, <1>6, <2>1 DEF HookTypes
    <2>3. reverse \in Reverses
      BY <1>1, <1>4 DEF Reverses, Terminal
    <2>4. applied = [t EXCEPT !.pc = "verify", !.active = reverse]
      BY DEF Applied
    <2>5. terminals'[s] = applied
      BY <1>6 DEF Becomes, HookInv, HookTypes
    <2>. HIDE DEF reverse, applied, t
    <2>6. applied \in Terminal
      BY <1>1, <2>3, <2>4 DEF Terminal
    <2>7. /\ applied.pc = "verify" /\ applied.attached = t.attached /\ applied.baseline = t.baseline
          /\ applied.applied = t.applied /\ applied.reply = t.reply /\ applied.reconcile = t.reconcile
      BY <1>1, <2>4 DEF Terminal
    <2>8. HookLocal(s)'
      BY <1>3, <2>5, <2>7 DEF HookLocal
    <2>9. QED
      BY <1>2, <1>5, <1>6, <2>2, <2>6, <2>8, OneTerminal DEF t, applied, reverse
  <1>7. ASSUME NEW undone \in BOOLEAN, env' \in [Shells -> Snapshot], Becomes(s, Abandoned(t, undone))
        PROVE  HookInv'
    <2>. DEFINE left == Abandoned(t, undone)
                recovery == IF undone THEN NoReverse ELSE t.reply.reverse
    <2>1. recovery \in Reverses
      BY <1>4 DEF Reverses
    <2>2. left = [t EXCEPT !.pc = "command", !.reply = NoReply, !.recovery = recovery]
      BY DEF Abandoned
    <2>3. terminals'[s] = left
      BY <1>7 DEF Becomes, HookInv, HookTypes
    <2>. HIDE DEF recovery, left, t
    <2>4. left \in Terminal
      BY <1>1, <2>1, <2>2 DEF Terminal
    <2>5. /\ left.pc = "command" /\ left.attached = t.attached /\ left.baseline = t.baseline
          /\ left.applied = t.applied /\ left.reply = NoReply
      BY <1>1, <2>2 DEF Terminal
    <2>6. HookLocal(s)'
      BY <1>3, <2>3, <2>5 DEF HookLocal
    <2>7. QED
      BY <1>2, <1>5, <1>7, <2>4, <2>6, OneTerminal DEF left
  <1>8. ASSUME NEW done \in SUBSET DOMAIN t.reply.patch,
               env' = [env EXCEPT ![s] = ApplyChanges(@, Only(t.reply.patch, done))]
        PROVE  env' \in [Shells -> Snapshot]
    <2>1. Only(t.reply.patch, done) \in Changes
      BY <1>4, OnlyType
    <2>2. ApplyChanges(env[s], Only(t.reply.patch, done)) \in Snapshot
      BY <1>1, <2>1, ApplyChangesType
    <2>3. QED
      BY <1>1, <1>8, <2>2 DEF HookTypes
  <1>9. HookInv'
    <2>1. env' = env => env' \in [Shells -> Snapshot]
      BY <1>1 DEF HookTypes
    <2>. HIDE DEF t
    <2>2. QED
      BY <2>1, <1>6, <1>7, <1>8, ApplyOutcome DEF t
  <1>10. QED
    BY <1>2, <1>9

LEMMA UndoneType ==
  ASSUME NEW snap \in Snapshot, NEW reverse \in Reverses
  PROVE  Undone(snap, reverse) \in Snapshot
  BY ApplyChangesType DEF Undone, Reverses

LEMMA NewTerminalType ==
  /\ NewTerminal \in Terminal /\ Disabled \in Terminal
  /\ Disabled.pc = "off" /\ Disabled.attached = FALSE /\ Disabled.applied = 0
  /\ Disabled.prepareOp = NoOp /\ Disabled.ackOp = NoOp /\ Disabled.reply = NoReply
  <1>. DEFINE new == NewTerminal
              off == Disabled
  <1>1. new \in Terminal
    BY DEF NewTerminal, Terminal, OperationIds, Reverses
  <1>2. /\ new.attached = FALSE /\ new.applied = 0
        /\ new.prepareOp = NoOp /\ new.ackOp = NoOp /\ new.reply = NoReply
    BY DEF NewTerminal
  <1>3. off = [new EXCEPT !.pc = "off"]
    BY DEF Disabled
  <1>. HIDE DEF new, off
  <1>4. off \in Terminal /\ off.pc = "off"
    BY <1>1, <1>3 DEF Terminal
  <1>5. /\ off.attached = new.attached /\ off.applied = new.applied
        /\ off.prepareOp = new.prepareOp /\ off.ackOp = new.ackOp /\ off.reply = new.reply
    BY <1>1, <1>3 DEF Terminal
  <1>6. QED
    BY <1>1, <1>2, <1>4, <1>5 DEF new, off

LEMMA DeactivateHook ==
  ASSUME Service, HookInv, NEW s \in Shells, Deactivate(s)
  PROVE  Service' /\ Grows /\ OnlyShell(s) /\ HookInv' /\ terminals'[s] = Disabled
  <1>. DEFINE t == terminals[s]
  <1>1. /\ HookTypes /\ t \in Terminal /\ env[s] \in Snapshot /\ UNCHANGED <<vars, edits, failures>>
        /\ env' = [env EXCEPT ![s] = Undone(Undone(env[s], t.recovery), t.active)]
        /\ Becomes(s, Disabled)
    BY DEF HookInv, HookTypes, Deactivate
  <1>2. Service' /\ Grows /\ OnlyShell(s)
    BY <1>1, UnservedStep
  <1>3. env' \in [Shells -> Snapshot]
    <2>1. t.recovery \in Reverses /\ t.active \in Reverses
      BY <1>1 DEF Terminal
    <2>2. Undone(Undone(env[s], t.recovery), t.active) \in Snapshot
      BY <1>1, <2>1, UndoneType
    <2>3. QED
      BY <1>1, <2>2 DEF HookTypes
  <1>4. edits' \in [Shells -> Nat] /\ failures' \in 0 .. MaxFailures
    BY <1>1 DEF HookTypes
  <1>5. terminals'[s] = Disabled
    BY <1>1 DEF Becomes, HookTypes
  <1>6. HookLocal(s)'
    <2>1. 0 <= head'
      BY <1>2 DEF Service, TypeInv, HistoryTypes
    <2>2. QED
      BY <1>5, <2>1, NewTerminalType DEF HookLocal
  <1>7. QED
    BY <1>1, <1>2, <1>3, <1>4, <1>5, <1>6, NewTerminalType, OneTerminal

LEMMA EditHook ==
  ASSUME Service, HookInv, NEW s \in Shells, EditEnvironment(s)
  PROVE  Service' /\ Grows /\ OnlyShell(s) /\ HookInv'
  <1>1. HookTypes /\ UNCHANGED <<vars, terminals, failures>>
    BY DEF HookInv, EditEnvironment
  <1>2. Service' /\ Grows /\ OnlyShell(s)
    BY <1>1, UnservedStep
  <1>3. edits' \in [Shells -> Nat]
    BY <1>1 DEF HookTypes, EditEnvironment
  <1>4. env' \in [Shells -> Snapshot]
    <2>1. PICK i \in Edits[s][edits[s] + 1], value \in Values \union {Absent} :
            env' = [env EXCEPT ![s][i] = value]
      BY DEF EditEnvironment
    <2>. DEFINE edited == [env[s] EXCEPT ![i] = value]
    <2>2. edited \in Snapshot
      BY <1>1 DEF HookTypes, Snapshot
    <2>3. env' = [env EXCEPT ![s] = edited]
      BY <2>1
    <2>. HIDE DEF edited
    <2>4. QED
      BY <1>1, <2>2, <2>3 DEF HookTypes
  <1>5. \A u \in Shells : HookLocal(u)'
    <2>1. UNCHANGED <<shells, head>>
      BY <1>1 DEF vars, state
    <2>2. QED
      BY <1>1, <2>1 DEF HookInv, HookLocal, Attached
  <1>6. QED
    BY <1>1, <1>2, <1>3, <1>4, <1>5 DEF HookInv, HookTypes

LEMMA DeferHook ==
  ASSUME Service, HookInv, NEW s \in Shells, DeferPull(s)
  PROVE  Service' /\ Grows /\ OnlyShell(s) /\ HookInv'
  <1>. DEFINE t == terminals[s]
              back == [t EXCEPT !.pc = "command"]
  <1>1. /\ HookTypes /\ HookLocal(s) /\ t \in Terminal /\ t.pc = "prompt"
        /\ UNCHANGED <<vars, env, edits, failures>> /\ Becomes(s, back)
    BY DEF HookInv, HookTypes, DeferPull
  <1>2. Service' /\ Grows /\ OnlyShell(s)
    BY <1>1, UnservedStep
  <1>3. back \in Terminal
    BY <1>1 DEF Terminal
  <1>4. /\ back.pc = "command" /\ back.attached = t.attached /\ back.baseline = t.baseline
        /\ back.applied = t.applied /\ back.reply = t.reply /\ back.reconcile = t.reconcile
        /\ back.prepareOp = t.prepareOp /\ back.ackOp = t.ackOp
    BY <1>1 DEF Terminal
  <1>5. terminals'[s] = back
    BY <1>1 DEF Becomes, HookTypes
  <1>6. UNCHANGED <<shells, head>>
    BY <1>1 DEF vars, state
  <1>. HIDE DEF back
  <1>7. HookLocal(s)'
    BY <1>1, <1>4, <1>5, <1>6 DEF HookLocal, Attached
  <1>8. env' \in [Shells -> Snapshot] /\ edits' \in [Shells -> Nat] /\ failures' \in 0 .. MaxFailures
    BY <1>1 DEF HookTypes
  <1>9. QED
    BY <1>1, <1>2, <1>3, <1>7, <1>8, OneTerminal

LEMMA ElsewhereHook ==
  ASSUME Service, HookInv, FirstGeneration \/ ResetElsewhere
  PROVE  Service' /\ Grows /\ HookInv'
  <1>1. /\ Service' /\ Grows /\ UNCHANGED hookVars
        /\ \A s \in Shells : s \in Attached => s \in Attached'
    BY ElsewhereServed DEF Attached
  <1>2. head \in Nat /\ head' \in Nat /\ head <= head'
    BY <1>1 DEF Service, TypeInv, HistoryTypes, Grows
  <1>3. ASSUME NEW s \in Shells PROVE HookLocal(s)'
    <2>1. terminals'[s] = terminals[s] /\ HookLocal(s) /\ terminals[s].applied \in Nat
      BY <1>1 DEF hookVars, HookInv, HookTypes, Terminal
    <2>2. \A r \in 1 .. head : r \in 1 .. head'
      BY <1>2
    <2>3. terminals[s].applied <= head => terminals[s].applied <= head'
      BY <1>2, <2>1
    <2>4. QED
      BY <1>1, <2>1, <2>2, <2>3 DEF HookLocal
  <1>4. QED
    BY <1>1, <1>3 DEF HookInv, HookTypes, hookVars

-------------------------------------------------------------------------------
(* Every step keeps the shape                                              *)

ShellInv == Service /\ HookInv

(* A step is that of one terminal, or it is taken elsewhere.               *)
LEMMA StepCases ==
  ASSUME [ShellNext]_allVars
  PROVE  \/ UNCHANGED allVars
         \/ FirstGeneration \/ ResetElsewhere
         \/ \E s \in Shells :
              \/ EditEnvironment(s) \/ AttachTerminal(s) \/ PublishTerminal(s) \/ PullTerminal(s)
              \/ DeferPull(s) \/ ResolveTerminal(s) \/ ApplyTransition(s) \/ AcknowledgeTerminal(s)
              \/ Deactivate(s)
  BY DEF ShellNext, Precmd, LineFinish

LEMMA ShellSteps ==
  ASSUME ShellInv, [ShellNext]_allVars
  PROVE  ShellInv' /\ Grows
  <1>1. CASE UNCHANGED allVars
    <2>1. UNCHANGED vars /\ UNCHANGED hookVars
      BY <1>1 DEF allVars
    <2>2. [Next]_vars
      BY <2>1
    <2>3. TypeInv' /\ HistoryInv' /\ Grows /\ ValidInv' /\ BaseIsCommitted'
      BY <2>2, TypeNext, HistoryNext, ValidNext, BaseNext DEF ShellInv, Service, BaseInv
    <2>4. AnswersInv'
      BY <2>1 DEF ShellInv, Service, AnswersInv, vars, state
    <2>5. HookInv'
      BY <2>1 DEF ShellInv, HookInv, HookTypes, HookLocal, Attached, hookVars, vars, state
    <2>6. QED
      BY <2>3, <2>4, <2>5 DEF ShellInv, Service
  <1>2. CASE FirstGeneration \/ ResetElsewhere
    BY <1>2, ElsewhereHook DEF ShellInv
  <1>3. ASSUME NEW s \in Shells,
               \/ EditEnvironment(s) \/ AttachTerminal(s) \/ PublishTerminal(s) \/ PullTerminal(s)
               \/ DeferPull(s) \/ ResolveTerminal(s) \/ ApplyTransition(s) \/ AcknowledgeTerminal(s)
               \/ Deactivate(s)
        PROVE  ShellInv' /\ Grows
    BY <1>3, EditHook, AttachHook, PublishHook, PullHook, DeferHook, ResolveHook, ApplyHook,
       AcknowledgeHook, DeactivateHook DEF ShellInv
  <1>4. QED
    BY <1>1, <1>2, <1>3, StepCases

LEMMA ShellStart == ShellInit => ShellInv
  <1>. SUFFICES ASSUME ShellInit PROVE ShellInv
    OBVIOUS
  <1>1. Init /\ materialized = FALSE /\ receipts = [s \in Shells |-> <<>>] /\ head = 0
    BY DEF ShellInit, Init
  <1>2. TypeInv /\ HistoryInv /\ ValidInv
    BY <1>1, TypeInit, HistoryInit, ValidInit
  <1>3. BaseIsCommitted /\ AnswersInv
    BY <1>1 DEF BaseIsCommitted, AnswersInv
  <1>4. /\ terminals = [s \in Shells |-> NewTerminal] /\ env = Environments
        /\ edits = [s \in Shells |-> 0] /\ failures = 0
    BY DEF ShellInit
  <1>5. HookTypes
    BY <1>4, NewTerminalType, ShellSyncAssumption DEF HookTypes
  <1>6. ASSUME NEW s \in Shells PROVE HookLocal(s)
    <2>1. terminals[s] = NewTerminal
      BY <1>4
    <2>2. /\ NewTerminal.pc = "command" /\ NewTerminal.attached = FALSE /\ NewTerminal.applied = 0
          /\ NewTerminal.prepareOp = NoOp /\ NewTerminal.ackOp = NoOp /\ NewTerminal.reply = NoReply
      BY DEF NewTerminal
    <2>3. QED
      BY <1>1, <2>1, <2>2 DEF HookLocal
  <1>7. QED
    BY <1>2, <1>3, <1>5, <1>6 DEF ShellInv, Service, HookInv

LEMMA ShellInvariant == ShellSpec => []ShellInv
  <1>1. ShellInv /\ [ShellNext]_allVars => ShellInv'
    BY ShellSteps
  <1>2. QED
    BY <1>1, ShellStart, PTL DEF ShellSpec

LEMMA ShellInvTypes ==
  ASSUME ShellInv
  PROVE  ShellTypeOK
  <1>1. ASSUME NEW s \in Shells
        PROVE  LET t == terminals[s]
               IN  /\ t.pc \in {"command", "prompt", "apply", "verify", "off"}
                   /\ {t.attached, t.reconcile} \subseteq BOOLEAN
                   /\ t.baseline = NoBaseline \/ t.baseline \in Snapshot
                   /\ t.applied \in 0 .. head
                   /\ {t.attachOp, t.prepareOp, t.resolveOp, t.ackOp} \subseteq OperationIds
                   /\ {t.active, t.recovery} \subseteq Reverses
                   /\ t.attached => s \in Attached /\ t.baseline # NoBaseline
                   /\ t.reply # NoReply <=> t.pc \in {"apply", "verify"}
                   /\ t.reply # NoReply => t.attached /\ t.reconcile
    <2>. DEFINE t == terminals[s]
    <2>1. t \in Terminal /\ HookLocal(s) /\ head \in Nat
      BY DEF ShellInv, HookInv, HookTypes, Service, TypeInv, HistoryTypes
    <2>2. /\ t.pc \in {"command", "prompt", "apply", "verify", "off"}
          /\ t.attached \in BOOLEAN /\ t.reconcile \in BOOLEAN
          /\ t.baseline = NoBaseline \/ t.baseline \in Snapshot
          /\ t.applied \in Nat
          /\ t.attachOp \in OperationIds /\ t.prepareOp \in OperationIds
          /\ t.resolveOp \in OperationIds /\ t.ackOp \in OperationIds
          /\ t.active \in Reverses /\ t.recovery \in Reverses
      BY <2>1 DEF Terminal
    <2>3. /\ t.applied <= head
          /\ t.attached => s \in Attached /\ t.baseline # NoBaseline
          /\ t.reply # NoReply <=> t.pc \in {"apply", "verify"}
          /\ t.reply # NoReply => t.attached /\ t.reconcile
      BY <2>1 DEF HookLocal
    <2>. HIDE DEF t
    <2>4. QED
      BY <2>1, <2>2, <2>3 DEF t
  <1>2. QED
    BY <1>1 DEF ShellTypeOK, ShellInv, HookInv, HookTypes

(* The variables of every terminal's hook keep their shape, and a reply is *)
(* held exactly while its transition is evaluated and confirmed.           *)
THEOREM HookTypesHold == ShellSpec => []ShellTypeOK
  <1>1. ShellInv => ShellTypeOK
    BY ShellInvTypes
  <1>2. QED
    BY <1>1, ShellInvariant, PTL

-------------------------------------------------------------------------------
(* The terminals use the service                                           *)

(* What the helper passes on is a request the service takes, with an       *)
(* argument that the service model enumerates; a request that is answered  *)
(* from its receipt, lost or refused is not a step of the service.         *)
LEMMA AttachServiceStep ==
  ASSUME ShellInv, NEW s \in Shells, AttachTerminal(s)
  PROVE  [Next]_vars
  <1>. DEFINE op == Retained(terminals[s].attachOp, s)
              initial == AttachInitial(s)
  <1>1. /\ op \in Operations /\ initial \in Snapshot
        /\ AdapterAttach(s, op, initial) \/ UNCHANGED vars
    BY AttachOutcome DEF ShellInv
  <1>. HIDE DEF op, initial
  <1>2. ASSUME Attach(s, op, initial) PROVE Sync(s)
    BY <1>1, <1>2 DEF Sync
  <1>3. QED
    BY <1>1, <1>2 DEF AdapterAttach, Next

LEMMA PublishServiceStep ==
  ASSUME ShellInv, NEW s \in Shells, PublishTerminal(s)
  PROVE  [Next]_vars
  <1>. DEFINE op == NewOperation(s)
              ack == terminals[s].applied
              delta == DiffSnapshot(terminals[s].baseline, env[s])
  <1>1. /\ terminals[s].baseline # NoBaseline /\ op \in Operations
        /\ AdapterPublish(s, op) \/ UNCHANGED vars
    BY PublishOutcome DEF ShellInv
  <1>2. ack \in Nat /\ ack <= head /\ head \in Nat
    BY DEF ShellInv, Service, HookInv, HookTypes, HookLocal, Terminal, TypeInv, HistoryTypes
  <1>3. AdapterPublish(s, op) => delta \in Changes
    BY <1>1, AdapterPublishServed DEF ShellInv, HookInv
  <1>4. AdapterPublish(s, op) => Publish(s, op, ack, delta)
    BY DEF AdapterPublish
  <1>. HIDE DEF op, ack, delta
  <1>5. ASSUME Publish(s, op, ack, delta), delta \in Changes PROVE Sync(s)
    <2>1. ack \in 1 .. head
      BY <1>2, <1>5 DEF Publish
    <2>2. QED
      BY <1>1, <1>5, <2>1 DEF Sync
  <1>6. QED
    BY <1>1, <1>3, <1>4, <1>5 DEF Next

LEMMA PullServiceStep ==
  ASSUME ShellInv, NEW s \in Shells, PullTerminal(s)
  PROVE  [Next]_vars
  <1>. DEFINE op == Retained(terminals[s].prepareOp, s)
  <1>1. op \in Operations /\ (AdapterPrepare(s, op) \/ UNCHANGED vars)
    BY PullOutcome DEF ShellInv
  <1>. HIDE DEF op
  <1>2. terminals[s].applied \in 0 .. head
    BY DEF ShellInv, Service, HookInv, HookTypes, HookLocal, Terminal, TypeInv, HistoryTypes
  <1>3. ASSUME PreparePull(s, op, terminals[s].applied) PROVE Sync(s)
    BY <1>1, <1>2, <1>3 DEF Sync
  <1>4. QED
    BY <1>1, <1>3 DEF AdapterPrepare, Next

(* A resolution names the conflict the service holds, or repeats a request *)
(* that has its receipt.                                                   *)
LEMMA ResolveServiceStep ==
  ASSUME ShellInv, NEW s \in Shells, ResolveTerminal(s)
  PROVE  [Next]_vars
  <1>. DEFINE op == Retained(terminals[s].resolveOp, s)
              identity == terminals[s].conflict.identity
              token == terminals[s].conflict.token
              request == [identity |-> identity, token |-> token,
                          observed |-> AdmittedSnapshot(s, env[s])]
  <1>1. op \in Operations /\ (AdapterResolve(s, op) \/ UNCHANGED vars)
    BY ResolveOutcome DEF ShellInv
  <1>2. env[s] \in Snapshot
    BY DEF ShellInv, HookInv, HookTypes
  <1>3. AdapterResolve(s, op) => ResolveShared(s, op, identity, token, env[s])
    BY DEF AdapterResolve
  <1>4. request.identity = identity /\ request.token = token
    OBVIOUS
  <1>5. ASSUME ResolveShared(s, op, identity, token, env[s])
        PROVE  \E c \in ConflictsHeld(s) : c.identity = identity /\ c.token = token
    <2>1. CASE ReceiptMatches(s, op, "resolve", request)
      <3>1. request \in Repeated(s, "resolve")
        BY <2>1 DEF ReceiptMatches, Repeated
      <3>2. QED
        BY <1>4, <3>1 DEF ConflictsHeld
    <2>2. CASE /\ shells[s].conflict # NoConflict
               /\ shells[s].conflict.identity = identity /\ shells[s].conflict.token = token
      BY <2>2 DEF ConflictsHeld
    <2>3. QED
      BY <1>5, <2>1, <2>2 DEF ResolveShared
  <1>6. ResolveShared(s, op, identity, token, env[s]) => s \in Attached
    BY DEF ResolveShared
  <1>. HIDE DEF op, identity, token, request
  <1>7. ResolveShared(s, op, identity, token, env[s]) => Sync(s)
    BY <1>1, <1>2, <1>5, <1>6 DEF Sync
  <1>8. QED
    BY <1>1, <1>3, <1>7 DEF Next

(* A token resolves only while the service holds it as pending.            *)
LEMMA AcknowledgeServiceStep ==
  ASSUME ShellInv, NEW s \in Shells, AcknowledgeTerminal(s)
  PROVE  [Next]_vars
  <1>. DEFINE op == Retained(terminals[s].ackOp, s)
              reply == terminals[s].reply
  <1>1. op \in Operations /\ (AdapterAcknowledge(s, op, reply) \/ UNCHANGED vars)
    BY AcknowledgeOutcome DEF ShellInv
  <1>2. env[s] \in Snapshot
    BY DEF ShellInv, HookInv, HookTypes
  <1>. HIDE DEF op, reply
  <1>3. ASSUME AdapterAcknowledge(s, op, reply) PROVE Sync(s)
    <2>1. /\ s \in Attached /\ shells[s].pending \in PendingsHeld(s)
          /\ Acknowledge(s, op, shells[s].pending.revision, shells[s].pending.token, env[s])
      BY <1>3 DEF AdapterAcknowledge, HandleResolves, PendingsHeld
    <2>2. QED
      BY <1>1, <1>2, <2>1 DEF Sync
  <1>4. QED
    BY <1>1, <1>3 DEF Next

LEMMA ServiceNext == ShellInv /\ [ShellNext]_allVars => [Next]_vars
  <1>. SUFFICES ASSUME ShellInv, [ShellNext]_allVars PROVE [Next]_vars
    OBVIOUS
  <1>1. CASE UNCHANGED allVars
    BY <1>1 DEF allVars
  <1>2. CASE FirstGeneration \/ ResetElsewhere
    BY <1>2 DEF FirstGeneration, ResetElsewhere, Next, Workflow
  <1>3. ASSUME NEW s \in Shells, EditEnvironment(s) \/ DeferPull(s) \/ ApplyTransition(s) \/ Deactivate(s)
        PROVE  UNCHANGED vars
    BY <1>3 DEF EditEnvironment, DeferPull, ApplyTransition, Deactivate
  <1>4. ASSUME NEW s \in Shells,
               \/ AttachTerminal(s) \/ PublishTerminal(s) \/ PullTerminal(s)
               \/ ResolveTerminal(s) \/ AcknowledgeTerminal(s)
        PROVE  [Next]_vars
    BY <1>4, AttachServiceStep, PublishServiceStep, PullServiceStep, ResolveServiceStep,
       AcknowledgeServiceStep
  <1>5. QED
    BY <1>1, <1>2, <1>3, <1>4, StepCases

(* Whatever the hook, the helper's 250 ms budget, the failing transitions  *)
(* and the users of the terminals do, the worktree service is used as its  *)
(* own specification allows: what is proved of every behaviour of the      *)
(* service holds in the running system.                                    *)
THEOREM HookUsesService == ShellSpec => Spec
  <1>1. ShellInit => Init
    BY DEF ShellInit
  <1>2. QED
    BY <1>1, ShellInvariant, ServiceNext, PTL DEF ShellSpec, Spec

(* So the terminals see one shared log, whose generations they confirm in  *)
(* order, and the document the service writes for them is always one that  *)
(* ValidateState accepts.                                                  *)
THEOREM TerminalsShareLog == ShellSpec => ImplementsSharedLog /\ []ValidState /\ NoStaleOverwrite
  BY HookUsesService, ServiceImplementsLog, StateStaysValid, StaleOverwriteImpossible, PTL

-------------------------------------------------------------------------------
(* A terminal's step is its own                                            *)

TerminalStep(s) ==
  \/ EditEnvironment(s) \/ AttachTerminal(s) \/ PublishTerminal(s) \/ PullTerminal(s)
  \/ DeferPull(s) \/ ResolveTerminal(s) \/ ApplyTransition(s) \/ AcknowledgeTerminal(s)
  \/ Deactivate(s)

LEMMA TerminalAlone ==
  ASSUME ShellInv, NEW s \in Shells, TerminalStep(s)
  PROVE  /\ ShellInv' /\ Grows /\ OnlyShell(s)
         /\ \A u \in Shells \ {s} : terminals'[u] = terminals[u] /\ env'[u] = env[u]
         /\ failures' = 0 => failures = 0
  <1>1. ShellInv' /\ Grows /\ OnlyShell(s)
    BY EditHook, AttachHook, PublishHook, PullHook, DeferHook, ResolveHook, ApplyHook,
       AcknowledgeHook, DeactivateHook DEF ShellInv, TerminalStep
  <1>2. HookTypes /\ HookInv /\ Service /\ failures \in Nat
    BY ShellSyncAssumption DEF ShellInv, HookInv, HookTypes
  <1>3. ASSUME NEW terminal, Becomes(s, terminal)
        PROVE  \A u \in Shells \ {s} : terminals'[u] = terminals[u]
    BY <1>2, <1>3 DEF Becomes, HookTypes
  <1>4. ASSUME NEW snap, env' = [env EXCEPT ![s] = snap]
        PROVE  \A u \in Shells \ {s} : env'[u] = env[u]
    BY <1>2, <1>4 DEF HookTypes
  <1>5. Failed => failures' # 0
    BY <1>2 DEF Failed
  <1>6. CASE AttachTerminal(s)
    BY <1>1, <1>2, <1>3, <1>5, <1>6, AttachOutcome
  <1>7. CASE PublishTerminal(s)
    BY <1>1, <1>2, <1>3, <1>5, <1>7, PublishOutcome
  <1>8. CASE PullTerminal(s)
    BY <1>1, <1>2, <1>3, <1>5, <1>8, PullOutcome
  <1>9. CASE ResolveTerminal(s)
    BY <1>1, <1>2, <1>3, <1>5, <1>9, ResolveOutcome
  <1>10. CASE AcknowledgeTerminal(s)
    BY <1>1, <1>2, <1>3, <1>5, <1>10, AcknowledgeOutcome
  <1>11. CASE ApplyTransition(s)
    BY <1>1, <1>2, <1>3, <1>4, <1>5, <1>11, ApplyOutcome
  <1>12. CASE EditEnvironment(s)
    <2>1. PICK i \in Edits[s][edits[s] + 1], value \in Values \union {Absent} :
            env' = [env EXCEPT ![s][i] = value]
      BY <1>12 DEF EditEnvironment
    <2>2. env' = [env EXCEPT ![s] = [env[s] EXCEPT ![i] = value]]
      BY <2>1
    <2>3. UNCHANGED <<terminals, failures>>
      BY <1>12 DEF EditEnvironment
    <2>4. QED
      BY <1>1, <1>4, <2>2, <2>3
  <1>13. CASE DeferPull(s)
    BY <1>1, <1>3, <1>13 DEF DeferPull
  <1>14. CASE Deactivate(s)
    BY <1>1, <1>3, <1>4, <1>14 DEF Deactivate
  <1>15. QED
    BY <1>6, <1>7, <1>8, <1>9, <1>10, <1>11, <1>12, <1>13, <1>14 DEF TerminalStep

LEMMA ElsewhereAlone ==
  ASSUME ShellInv, FirstGeneration \/ ResetElsewhere
  PROVE  /\ ShellInv' /\ Grows
         /\ terminals' = terminals /\ env' = env /\ failures' = failures /\ receipts' = receipts
         /\ Attached # {} => committed' = committed
         /\ \A s \in Shells : shells'[s] # NotAttached =>
              shells[s] # NotAttached /\ \E flag : shells'[s] = [shells[s] EXCEPT !.behind = flag]
         /\ \A s \in Shells : shells'[s] = NotAttached => shells[s] = NotAttached
  BY ElsewhereServed, ElsewhereHook DEF ShellInv, hookVars

(* Where a terminal stands when its step has ended, by action.             *)
LEMMA QuietStep ==
  ASSUME ShellInv, NEW s \in Shells,
         EditEnvironment(s) \/ AttachTerminal(s) \/ PublishTerminal(s) \/ DeferPull(s)
           \/ ApplyTransition(s) \/ AcknowledgeTerminal(s) \/ Deactivate(s)
  PROVE  terminals'[s].pc # "apply"
  <1>1. HookTypes /\ HookInv /\ Service
    BY DEF ShellInv, HookInv
  <1>2. ASSUME NEW terminal, Becomes(s, terminal) PROVE terminals'[s] = terminal
    BY <1>1, <1>2 DEF Becomes, HookTypes
  <1>3. terminals[s] \in Terminal
    BY <1>1 DEF HookTypes
  <1>4. CASE EditEnvironment(s)
    BY <1>4 DEF EditEnvironment
  <1>5. CASE AttachTerminal(s)
    <2>1. HookInv'
      BY <1>1, <1>5, AttachHook
    <2>2. terminals'[s] = AttachAsked(s) \/ terminals'[s] = AttachJoined(s, shells'[s])
      BY <1>1, <1>2, <1>5, AttachOutcome
    <2>3. terminals[s].pc \in {"command", "prompt"}
      BY <1>1, <1>5, AttachOutcome
    <2>4. AttachAsked(s).pc \in {"command", "prompt"}
      BY <1>3, <2>3 DEF AttachAsked, Terminal
    <2>5. AttachJoined(s, shells'[s]).pc \in {"command", "prompt"}
      BY <2>4 DEF AttachJoined
    <2>6. QED
      BY <2>2, <2>4, <2>5
  <1>6. CASE PublishTerminal(s)
    <2>1. PublishAsked(s) \in Terminal /\ PublishAsked(s).pc = "prompt"
      BY <1>3 DEF PublishAsked, Terminal
    <2>2. PublishParsed(s, shells'[s].conflict).pc = "prompt"
      BY <2>1 DEF PublishParsed, Terminal
    <2>3. QED
      BY <1>1, <1>2, <1>6, <2>1, <2>2, PublishOutcome
  <1>7. CASE DeferPull(s)
    BY <1>2, <1>3, <1>7 DEF DeferPull, Terminal
  <1>8. CASE ApplyTransition(s)
    <2>1. Applied(s).pc = "verify"
      BY <1>3 DEF Applied, Terminal
    <2>2. \A undone \in BOOLEAN : Abandoned(terminals[s], undone).pc = "command"
      BY <1>3 DEF Abandoned, Terminal
    <2>3. QED
      BY <1>1, <1>2, <1>8, <2>1, <2>2, ApplyOutcome
  <1>9. CASE AcknowledgeTerminal(s)
    <2>1. terminals[s].pc = "verify"
      BY <1>1, <1>9, AcknowledgeOutcome
    <2>2. QED
      BY <1>1, <1>2, <1>9, <2>1, AckTerminals, AcknowledgeOutcome
  <1>10. CASE Deactivate(s)
    BY <1>1, <1>10, DeactivateHook, NewTerminalType
  <1>11. QED
    BY <1>4, <1>5, <1>6, <1>7, <1>8, <1>9, <1>10


-------------------------------------------------------------------------------
(* A transition can be undone                                              *)

(* The reverse of a transition undoes it, and undoes any part of it.       *)
LEMMA ReverseUndoes ==
  ASSUME NEW before \in Snapshot, NEW after \in Snapshot, NEW done
  PROVE  LET patch == DiffSnapshot(before, after)
             reverse == DiffSnapshot(after, before)
         IN  /\ ApplyChanges(ApplyChanges(before, patch), reverse) = before
             /\ ApplyChanges(ApplyChanges(before, Only(patch, done)), reverse) = before
             /\ patch = NoChanges => ApplyChanges(before, patch) = before
  <1>. DEFINE patch == DiffSnapshot(before, after)
              reverse == DiffSnapshot(after, before)
              part == Only(patch, done)
              partly == ApplyChanges(before, part)
  <1>1. ApplyChanges(before, patch) = after /\ ApplyChanges(after, reverse) = before
    BY ApplyDiff
  <1>2. /\ DOMAIN patch = {i \in Identities : before[i] # after[i]}
        /\ DOMAIN reverse = {i \in Identities : after[i] # before[i]}
        /\ \A i \in DOMAIN reverse : reverse[i] = before[i]
    BY DEF DiffSnapshot
  <1>3. DOMAIN part = DOMAIN patch \intersect done
    BY DEF Only
  <1>4. ASSUME NEW i \in Identities PROVE ApplyChanges(partly, reverse)[i] = before[i]
    <2>1. CASE i \in DOMAIN reverse
      BY <1>2, <2>1 DEF ApplyChanges
    <2>2. CASE i \notin DOMAIN reverse
      <3>1. i \notin DOMAIN part
        BY <1>2, <1>3, <2>2
      <3>2. ApplyChanges(partly, reverse)[i] = partly[i]
        BY <2>2 DEF ApplyChanges
      <3>3. partly[i] = before[i]
        BY <3>1 DEF ApplyChanges
      <3>4. QED
        BY <3>2, <3>3
    <2>3. QED
      BY <2>1, <2>2
  <1>5. ApplyChanges(partly, reverse) = before
    <2>1. before = [i \in Identities |-> before[i]]
      BY DEF Snapshot
    <2>2. ApplyChanges(partly, reverse) = [i \in Identities |-> ApplyChanges(partly, reverse)[i]]
      BY DEF ApplyChanges
    <2>3. QED
      BY <1>4, <2>1, <2>2
  <1>6. patch = NoChanges => ApplyChanges(before, patch) = before
    BY DEF ApplyChanges, NoChanges, Snapshot
  <1>7. QED
    BY <1>1, <1>5, <1>6

(* The reply to a pull or to a resolution is computed from the shell as it *)
(* is when the reply is evaluated.                                         *)
LEMMA ReplyBuilt ==
  ASSUME HookTypes, NEW s \in Shells, NEW result, NEW last, Transition(result, last)
  PROVE  \E target \in Snapshot :
           /\ buildTransition(s, result).patch = DiffSnapshot(env[s], target)
           /\ buildTransition(s, result).reverse = DiffSnapshot(target, env[s])
  <1>1. result.changes \in Changes
    BY DEF Transition
  <1>2. ApplyChanges(env[s], result.changes) \in Snapshot
    BY <1>1, ApplyChangesType DEF HookTypes
  <1>3. QED
    BY <1>2 DEF buildTransition

LEMMA ReplyReceived ==
  ASSUME ShellInv, NEW s \in Shells, NEW asked \in Terminal, asked.pc # "apply", env' = env,
         NEW last \in Nat,
         \/ terminals'[s] = asked
         \/ \E result : /\ result = NoPending \/ Transition(result, last)
                        /\ terminals'[s] = Received(s, asked, result)
  PROVE  ReplyInv(s)'
  <1>. SUFFICES ASSUME terminals'[s].pc = "apply" PROVE ReplyInv(s)'
    BY DEF ReplyInv
  <1>1. PICK result : /\ result = NoPending \/ Transition(result, last)
                      /\ terminals'[s] = Received(s, asked, result)
    OBVIOUS
  <1>2. HookTypes
    BY DEF ShellInv, HookInv
  <1>3. result # NoPending /\ terminals'[s].reply = buildTransition(s, result)
    BY <1>1, <1>2, ReceivedTerminal
  <1>4. QED
    BY <1>1, <1>2, <1>3, ReplyBuilt DEF ReplyInv

LEMMA ReplyStep ==
  ASSUME ShellInv, NEW s \in Shells, TerminalStep(s)
  PROVE  ReplyInv(s)'
  <1>1. HookTypes /\ HookInv /\ Service /\ ShellInv'
    BY TerminalAlone DEF ShellInv, HookInv
  <1>2. head' \in Nat
    BY <1>1 DEF ShellInv, Service, TypeInv, HistoryTypes
  <1>3. ASSUME NEW terminal, Becomes(s, terminal) PROVE terminals'[s] = terminal
    BY <1>1, <1>3 DEF Becomes, HookTypes
  <1>4. CASE PullTerminal(s)
    <2>. DEFINE op == Retained(terminals[s].prepareOp, s)
                result == ResultOf(receipts'[s], op)
    <2>1. /\ terminals[s].pc = "prompt" /\ env' = env
          /\ \/ terminals'[s] = PullAsked(s)
             \/ AdapterPrepare(s, op) /\ terminals'[s] = Received(s, PullAsked(s), result)
      BY <1>1, <1>3, <1>4, PullOutcome
    <2>2. op \in Operations
      BY <1>1, <1>4, PullOutcome
    <2>3. AdapterPrepare(s, op) => result = NoPending \/ Transition(result, head')
      BY <1>1, <2>2, PrepareAnswer
    <2>4. PullAsked(s) \in Terminal /\ PullAsked(s).pc = "command"
      BY <1>1, <2>1, PullAskedTerminal
    <2>. HIDE DEF result
    <2>5. QED
      BY <1>2, <2>1, <2>3, <2>4, ReplyReceived
  <1>5. CASE ResolveTerminal(s)
    <2>. DEFINE op == Retained(terminals[s].resolveOp, s)
                result == ResultOf(receipts'[s], op)
    <2>1. /\ terminals[s].pc = "command" /\ env' = env
          /\ \/ terminals'[s] = ResolveAsked(s)
             \/ AdapterResolve(s, op) /\ terminals'[s] = Received(s, ResolveAsked(s), result)
      BY <1>1, <1>3, <1>5, ResolveOutcome
    <2>2. op \in Operations
      BY <1>1, <1>5, ResolveOutcome
    <2>3. AdapterResolve(s, op) => Transition(result, head')
      BY <1>1, <2>2, ResolveAnswer
    <2>4. ResolveAsked(s) \in Terminal /\ ResolveAsked(s).pc = "command"
      BY <1>1, <2>1, ResolveAskedTerminal
    <2>. HIDE DEF result
    <2>5. QED
      BY <1>2, <2>1, <2>3, <2>4, ReplyReceived
  <1>6. QED
    BY <1>4, <1>5, QuietStep DEF TerminalStep, ReplyInv

RepliesInv == \A s \in Shells : ReplyInv(s)

LEMMA RepliesNext ==
  ASSUME ShellInv, RepliesInv, [ShellNext]_allVars
  PROVE  RepliesInv'
  <1>1. ASSUME NEW s \in Shells, terminals'[s] = terminals[s], env'[s] = env[s]
        PROVE  ReplyInv(s)'
    BY <1>1 DEF RepliesInv, ReplyInv
  <1>2. CASE UNCHANGED allVars \/ FirstGeneration \/ ResetElsewhere
    <2>1. terminals' = terminals /\ env' = env
      BY <1>2 DEF allVars, hookVars, FirstGeneration, ResetElsewhere
    <2>2. QED
      BY <1>1, <2>1 DEF RepliesInv
  <1>3. ASSUME NEW s \in Shells, TerminalStep(s) PROVE RepliesInv'
    BY <1>1, <1>3, ReplyStep, TerminalAlone DEF RepliesInv
  <1>4. QED
    BY <1>2, <1>3, StepCases DEF TerminalStep

LEMMA RepliesInvariant == ShellSpec => [](ShellInv /\ RepliesInv)
  <1>1. ShellInit => RepliesInv
    BY DEF ShellInit, RepliesInv, ReplyInv, NewTerminal
  <1>2. ShellInv /\ RepliesInv /\ [ShellNext]_allVars => ShellInv' /\ RepliesInv'
    BY ShellSteps, RepliesNext
  <1>3. QED
    BY <1>1, <1>2, ShellStart, PTL DEF ShellSpec


LEMMA StepOwnsReverse ==
  ASSUME ShellInv, RepliesInv, [ShellNext]_allVars, NEW s \in Shells,
         terminals[s].pc = "apply", terminals'[s].pc # "apply"
  PROVE  LET t == terminals'[s]
             owned == IF t.pc = "verify" THEN t.active ELSE t.recovery
         IN  env'[s] = env[s] \/ Undone(env'[s], owned) = env[s]
  <1>. DEFINE t == terminals[s]
              reply == t.reply
              new == terminals'[s]
              owned == IF new.pc = "verify" THEN new.active ELSE new.recovery
              reverse == IF reply.patch = NoChanges THEN t.active ELSE reply.reverse
  <1>1. HookTypes /\ HookInv /\ Service /\ HookLocal(s) /\ t \in Terminal /\ env[s] \in Snapshot
    BY DEF ShellInv, HookInv, HookTypes
  <1>2. reply \in Replies /\ reply.reverse \in Changes /\ reply.reverse # NoReverse
    <2>1. reply \in Replies
      BY <1>1 DEF HookLocal, Terminal
    <2>2. reply.reverse \in Changes
      BY <2>1 DEF Replies
    <2>3. QED
      BY <2>1, <2>2, ShellSyncAssumption
  <1>3. PICK target \in Snapshot : /\ reply.patch = DiffSnapshot(env[s], target)
                                   /\ reply.reverse = DiffSnapshot(target, env[s])
    BY DEF RepliesInv, ReplyInv
  <1>4. ApplyTransition(s)
    <2>1. ASSUME NEW u \in Shells, TerminalStep(u) PROVE ApplyTransition(s)
      <3>1. u = s
        BY <2>1, TerminalAlone
      <3>2. QED
        BY <2>1, <3>1 DEF TerminalStep, EditEnvironment, AttachTerminal, PublishTerminal, PullTerminal,
           DeferPull, ResolveTerminal, AcknowledgeTerminal, Deactivate
    <2>2. CASE UNCHANGED allVars \/ FirstGeneration \/ ResetElsewhere
      BY <2>2 DEF allVars, hookVars, FirstGeneration, ResetElsewhere
    <2>3. QED
      BY <2>1, <2>2, StepCases DEF TerminalStep
  <1>5. ASSUME NEW terminal, Becomes(s, terminal) PROVE terminals'[s] = terminal
    BY <1>1, <1>5 DEF Becomes, HookTypes
  <1>6. ASSUME NEW snap, env' = [env EXCEPT ![s] = snap] PROVE env'[s] = snap
    BY <1>1, <1>6 DEF HookTypes
  <1>7. CASE /\ env' = [env EXCEPT ![s] = ApplyChanges(@, reply.patch)]
             /\ Becomes(s, Applied(s))
    <2>1. env'[s] = ApplyChanges(env[s], reply.patch)
      BY <1>6, <1>7
    <2>2. new = [t EXCEPT !.pc = "verify", !.active = reverse]
      BY <1>5, <1>7 DEF Applied
    <2>3. owned = reverse
      BY <1>1, <2>2 DEF Terminal
    <2>4. CASE reply.patch = NoChanges
      <3>1. DiffSnapshot(env[s], target) = NoChanges
        BY <1>3, <2>4
      <3>2. ApplyChanges(env[s], DiffSnapshot(env[s], target)) = env[s]
        BY <1>1, <3>1, ReverseUndoes
      <3>3. QED
        BY <1>3, <2>1, <3>2
    <2>5. CASE reply.patch # NoChanges
      <3>1. owned = reply.reverse
        BY <2>3, <2>5
      <3>2. ApplyChanges(env'[s], reply.reverse) = env[s]
        BY <1>1, <1>3, <2>1, ReverseUndoes
      <3>3. QED
        BY <1>2, <3>1, <3>2 DEF Undone
    <2>6. QED
      BY <2>4, <2>5
  <1>8. CASE /\ \E done \in SUBSET DOMAIN reply.patch :
                   env' = [env EXCEPT ![s] = ApplyChanges(@, Only(reply.patch, done))]
             /\ Becomes(s, Abandoned(t, FALSE))
    <2>1. PICK done : env'[s] = ApplyChanges(env[s], Only(reply.patch, done))
      BY <1>6, <1>8
    <2>2. new = [t EXCEPT !.pc = "command", !.reply = NoReply, !.recovery = reply.reverse]
      BY <1>5, <1>8 DEF Abandoned
    <2>3. owned = reply.reverse
      BY <1>1, <2>2 DEF Terminal
    <2>4. ApplyChanges(env'[s], reply.reverse) = env[s]
      BY <1>1, <1>3, <2>1, ReverseUndoes
    <2>5. QED
      BY <1>2, <2>3, <2>4 DEF Undone
  <1>9. QED
    BY <1>1, <1>4, <1>7, <1>8, ApplyOutcome

(* Whatever becomes of a transition, and wherever it stops, the shell is   *)
(* as it was or owns the reverse function that makes it so.                *)
THEOREM TransitionsAreOwned == ShellSpec => ReverseOwnsTransition
  <1>1. ShellInv /\ RepliesInv /\ [ShellNext]_allVars =>
          [\A s \in Shells :
             terminals[s].pc = "apply" /\ terminals'[s].pc # "apply" =>
               LET t == terminals'[s]
                   owned == IF t.pc = "verify" THEN t.active ELSE t.recovery
               IN  env'[s] = env[s] \/ Undone(env'[s], owned) = env[s]]_allVars
    BY StepOwnsReverse
  <1>2. QED
    BY <1>1, RepliesInvariant, PTL DEF ShellSpec, ReverseOwnsTransition


-------------------------------------------------------------------------------
(* What the service's record of a terminal keeps, request by request       *)

LEMMA PublishRecord ==
  ASSUME Service, NEW s \in Shells, NEW op, NEW ack, NEW delta, Publish(s, op, ack, delta)
  PROVE  /\ shells[s] \in ShellState /\ s \in Attached
         /\ shells[s].appliedRevision = ack /\ ack # 0 /\ shells[s].unpublished = NoChanges
         /\ shells[s].pending = NoPending
         /\ shells'[s].appliedRevision = ack /\ shells'[s].pending = NoPending
         /\ shells'[s].presentAtAttach = shells[s].presentAtAttach
         /\ shells'[s].captureBaseline = Observed(s, delta)
         /\ shells'[s].unpublished =
              Only(Observed(s, delta), Losing(ack, Wanted(s, Observed(s, delta))))
  <1>. DEFINE observed == Observed(s, delta)
              losing == Losing(ack, Wanted(s, observed))
              conflict == IF losing = {} THEN NoConflict
                          ELSE [kind |-> IF ack < floor THEN "history-gap" ELSE "overlap",
                                identity |-> CHOOSE i \in losing : TRUE,
                                baseRevision |-> ack,
                                sharedRevision |-> head',
                                token |-> NewToken("conflict", op, head')]
              rest == Only(observed, losing)
              transition == IF losing = {} THEN "publish" ELSE "unpublished"
              flag == ack < head' \/ losing # {}
  <1>1. shells[s] \in ShellState /\ s \in Attached
    BY DEF Publish, Attached, Service, TypeInv, ShellTypes
  <1>2. /\ shells[s].appliedRevision = ack /\ ack # 0 /\ shells[s].unpublished = NoChanges
        /\ shells[s].pending = NoPending
    BY DEF Publish
  <1>3. shells'[s] = [shells[s] EXCEPT !.conflict = conflict, !.unpublished = rest,
                        !.transition = transition, !.captureBaseline = observed, !.behind = flag]
    BY DEF Publish, Service, TypeInv, ShellTypes
  <1>. HIDE DEF observed, losing, conflict, rest, transition, flag
  <1>4. /\ shells'[s].appliedRevision = shells[s].appliedRevision
        /\ shells'[s].pending = shells[s].pending
        /\ shells'[s].presentAtAttach = shells[s].presentAtAttach
        /\ shells'[s].captureBaseline = observed /\ shells'[s].unpublished = rest
    BY <1>1, <1>3 DEF ShellState
  <1>5. QED
    BY <1>1, <1>2, <1>4 DEF observed, losing, rest

LEMMA PrepareRecord ==
  ASSUME Service, NEW s \in Shells, NEW op, NEW applied, PreparePull(s, op, applied)
  PROVE  /\ shells[s] \in ShellState /\ s \in Attached
         /\ shells'[s].presentAtAttach = shells[s].presentAtAttach
         /\ shells'[s].captureBaseline = shells[s].captureBaseline
         /\ shells'[s].unpublished = shells[s].unpublished
         /\ shells'[s].appliedRevision =
              IF applied # shells[s].appliedRevision THEN 0 ELSE shells[s].appliedRevision
         /\ shells[s].pending = NoPending /\ shells[s].unpublished = NoChanges
         /\ \/ /\ shells'[s].pending = NoPending /\ applied = head
               /\ DiffSnapshot(shells[s].captureBaseline, shared) = NoChanges
            \/ shells'[s].pending = [kind |-> "pull", revision |-> head, fingerprint |-> shared,
                                     token |-> NewToken("pull", op, head)]
  <1>. DEFINE old == shells[s]
              lost == [old EXCEPT !.attachState = "clean-reconcile", !.appliedRevision = 0,
                                  !.appliedBaseline = EmptySnapshot]
              shell == IF applied # old.appliedRevision THEN lost ELSE old
              changes == DiffSnapshot(shell.captureBaseline, shared)
              atHead == changes = NoChanges /\ applied = head /\ shell.appliedRevision = head
              pending == [kind |-> "pull", revision |-> head, fingerprint |-> shared,
                          token |-> NewToken("pull", op, head)]
  <1>1. old \in ShellState /\ s \in Attached
    BY DEF PreparePull, Attached, Service, TypeInv, ShellTypes
  <1>2. old.pending = NoPending /\ old.unpublished = NoChanges
    BY DEF PreparePull
  <1>3. shells'[s] = IF atHead THEN shell
                     ELSE [shell EXCEPT !.pending = pending, !.transition = "prepare", !.behind = TRUE]
    BY DEF PreparePull, Service, TypeInv, ShellTypes
  <1>4. EmptySnapshot \in Snapshot
    BY EmptyType
  <1>. HIDE DEF old
  <1>5. /\ lost \in ShellState /\ lost.presentAtAttach = old.presentAtAttach
        /\ lost.captureBaseline = old.captureBaseline /\ lost.unpublished = old.unpublished
        /\ lost.pending = old.pending /\ lost.appliedRevision = 0
    BY <1>1, <1>4 DEF ShellState
  <1>. HIDE DEF lost
  <1>6. /\ shell \in ShellState /\ shell.presentAtAttach = old.presentAtAttach
        /\ shell.captureBaseline = old.captureBaseline /\ shell.unpublished = old.unpublished
        /\ shell.pending = old.pending
        /\ shell.appliedRevision = IF applied # old.appliedRevision THEN 0 ELSE old.appliedRevision
    BY <1>1, <1>5
  <1>. HIDE DEF shell, pending
  <1>7. CASE atHead
    <2>1. shells'[s] = shell /\ changes = NoChanges /\ applied = head
      BY <1>3, <1>7
    <2>2. QED
      BY <1>1, <1>2, <1>6, <2>1 DEF old
  <1>8. CASE ~atHead
    <2>1. shells'[s] = [shell EXCEPT !.pending = pending, !.transition = "prepare", !.behind = TRUE]
      BY <1>3, <1>8
    <2>. HIDE DEF atHead
    <2>2. /\ shells'[s].presentAtAttach = shell.presentAtAttach
          /\ shells'[s].captureBaseline = shell.captureBaseline
          /\ shells'[s].unpublished = shell.unpublished
          /\ shells'[s].appliedRevision = shell.appliedRevision
          /\ shells'[s].pending = pending
      BY <1>6, <2>1 DEF ShellState
    <2>3. QED
      BY <1>1, <1>2, <1>6, <2>2 DEF old, pending
  <1>9. QED
    BY <1>7, <1>8

LEMMA ResolveRecord ==
  ASSUME Service, NEW s \in Shells, NEW op, NEW identity, NEW token, NEW snap,
         ResolveShared(s, op, identity, token, snap)
  PROVE  /\ shells[s] \in ShellState /\ s \in Attached
         /\ shells'[s].presentAtAttach = shells[s].presentAtAttach
         /\ shells'[s].captureBaseline = shells[s].captureBaseline
         /\ shells'[s].unpublished = shells[s].unpublished
         /\ shells'[s].appliedRevision = shells[s].appliedRevision
         /\ \/ shells'[s].pending = shells[s].pending
            \/ shells'[s].pending = [kind |-> "resolution", revision |-> head, fingerprint |-> shared,
                                     token |-> token]
  <1>. DEFINE old == shells[s]
              pending == [kind |-> "resolution", revision |-> head, fingerprint |-> shared,
                          token |-> token]
  <1>1. old \in ShellState /\ s \in Attached
    BY DEF ResolveShared, Attached, Service, TypeInv, ShellTypes
  <1>2. \/ shells'[s] = old
        \/ shells'[s] = [old EXCEPT !.pending = pending, !.transition = "resolve", !.behind = TRUE]
    BY DEF ResolveShared, Service, TypeInv, ShellTypes
  <1>. HIDE DEF pending, old
  <1>3. /\ shells'[s].presentAtAttach = old.presentAtAttach
        /\ shells'[s].captureBaseline = old.captureBaseline
        /\ shells'[s].unpublished = old.unpublished
        /\ shells'[s].appliedRevision = old.appliedRevision
        /\ shells'[s].pending = old.pending \/ shells'[s].pending = pending
    BY <1>1, <1>2 DEF ShellState
  <1>4. QED
    BY <1>1, <1>3 DEF old, pending

(* An acknowledge that is answered confirms that the terminal holds the    *)
(* generation of the revision it names, the first time or again.           *)
LEMMA AcknowledgeRecord ==
  ASSUME Service, NEW s \in Shells, NEW op, NEW revision, NEW token, NEW snap,
         Acknowledge(s, op, revision, token, snap)
  PROVE  /\ shells[s] \in ShellState /\ s \in Attached
         /\ shells'[s].presentAtAttach = shells[s].presentAtAttach
         /\ revision \in 1 .. head /\ AdmittedSnapshot(s, snap) = generations[revision]
         /\ \/ UNCHANGED <<shells, receipts>>
            \/ /\ shells'[s].appliedRevision = revision /\ shells'[s].pending = NoPending
               /\ shells'[s].captureBaseline = AdmittedSnapshot(s, snap)
               /\ shells[s].pending # NoPending /\ shells[s].pending.revision = revision
  <1>. DEFINE old == shells[s]
              observed == AdmittedSnapshot(s, snap)
              request == [revision |-> revision, token |-> token, observed |-> observed]
  <1>1. old \in ShellState /\ s \in Attached
    BY DEF Acknowledge, Attached, Service, TypeInv, ShellTypes
  <1>2. CASE ReceiptMatches(s, op, "acknowledge", request) /\ UNCHANGED <<shells, receipts>>
    <2>1. PICK k \in DOMAIN receipts[s] :
            receipts[s][k].kind = "acknowledge" /\ receipts[s][k].request = request
      BY <1>2 DEF ReceiptMatches
    <2>2. /\ receipts[s][k].request.revision \in 1 .. head
          /\ receipts[s][k].request.observed = generations[receipts[s][k].request.revision]
      BY <2>1 DEF Service, AnswersInv, Answer
    <2>. HIDE DEF observed
    <2>3. revision \in 1 .. head /\ observed = generations[revision]
      BY <2>1, <2>2
    <2>4. QED
      BY <1>1, <1>2, <2>3 DEF observed
  <1>3. CASE /\ old.pending # NoPending /\ old.pending.revision = revision
             /\ observed = old.pending.fingerprint
             /\ shells' = [shells EXCEPT ![s] = Acknowledged(old, observed)]
    <2>1. revision \in 1 .. head /\ observed = generations[revision]
      BY <1>1, <1>3 DEF Service, HistoryInv, ShellsInv, ShellHistory
    <2>2. shells'[s] = Acknowledged(old, observed)
      BY <1>3 DEF Service, TypeInv, ShellTypes
    <2>. HIDE DEF observed, old, request
    <2>3. /\ Acknowledged(old, observed).presentAtAttach = old.presentAtAttach
          /\ Acknowledged(old, observed).appliedRevision = old.pending.revision
          /\ Acknowledged(old, observed).pending = NoPending
          /\ Acknowledged(old, observed).captureBaseline = observed
      BY <1>1 DEF Acknowledged, ShellState
    <2>4. QED
      BY <1>1, <1>3, <2>1, <2>2, <2>3 DEF observed, old
  <1>4. QED
    BY <1>2, <1>3 DEF Acknowledge

(* What the service took of a terminal is a generation's, since the one    *)
(* the terminal applied, or is kept for it.                                *)
LEMMA CapturedHeld ==
  ASSUME NEW shell \in ShellState, NEW last \in Nat, NEW gens,
         ShellHistory(shell, last, gens), Remembers(shell, last, gens),
         shell.appliedRevision # 0, NEW i \in Identities
  PROVE  \/ i \in DOMAIN shell.unpublished
         \/ \E r \in shell.appliedRevision .. last : shell.captureBaseline[i] = gens[r][i]
  <1>1. /\ shell.appliedRevision \in Nat /\ shell.appliedRevision <= last
        /\ shell.appliedBaseline = gens[shell.appliedRevision]
    BY DEF ShellState, ShellHistory
  <1>2. CASE shell.appliedBaseline[i] = shell.captureBaseline[i]
    <2>1. shell.appliedRevision \in shell.appliedRevision .. last
      BY <1>1
    <2>2. QED
      BY <1>1, <1>2, <2>1
  <1>3. CASE shell.appliedBaseline[i] # shell.captureBaseline[i]
    <2>1. i \in DOMAIN DiffSnapshot(shell.appliedBaseline, shell.captureBaseline)
      BY <1>3 DEF DiffSnapshot
    <2>2. \/ i \in DOMAIN shell.unpublished
          \/ \E r \in shell.appliedRevision + 1 .. last : gens[r][i] = shell.captureBaseline[i]
      BY <2>1 DEF Remembers
    <2>3. \A r \in shell.appliedRevision + 1 .. last : r \in shell.appliedRevision .. last
      BY <1>1
    <2>4. QED
      BY <2>2, <2>3
  <1>4. QED
    BY <1>2, <1>3


-------------------------------------------------------------------------------
(* A terminal counts itself synchronized only where it is                  *)

(* The generations a terminal may hold values of only become more.         *)
LEMMA HeldGrows ==
  ASSUME HistoryTypes, HistoryTypes', Grows, NEW from \in Nat, from # 0, NEW i, NEW v,
         \E r \in from .. head : v = generations[r][i]
  PROVE  \E r \in from .. head' : v = generations'[r][i]
  <1>1. PICK r \in from .. head : v = generations[r][i]
    OBVIOUS
  <1>2. head \in Nat /\ head' \in Nat /\ head <= head'
    BY DEF HistoryTypes, Grows
  <1>3. r \in from .. head' /\ r \in 1 .. head
    BY <1>2
  <1>4. generations'[r] = generations[r]
    BY <1>3 DEF Grows
  <1>5. QED
    BY <1>1, <1>3, <1>4

(* A terminal whose record and variables a step leaves alone, as far as    *)
(* they say what it holds.                                                 *)
LEMMA SyncKept ==
  ASSUME ShellInv, ShellInv', Grows, NEW s \in Shells, SyncInv(s),
         s \in Attached =>
           /\ committed' = committed
           /\ shells'[s].presentAtAttach = shells[s].presentAtAttach
           /\ shells'[s].unpublished = shells[s].unpublished,
         terminals'[s].attached /\ ~terminals'[s].reconcile =>
           /\ terminals[s].attached /\ ~terminals[s].reconcile
           /\ terminals'[s].baseline = terminals[s].baseline
           /\ terminals'[s].applied = terminals[s].applied
  PROVE  SyncInv(s)'
  <1>. SUFFICES ASSUME terminals'[s].attached, ~terminals'[s].reconcile
                PROVE  /\ terminals'[s].applied # 0
                       /\ \A i \in SharedNames(s)' :
                            \/ \E r \in terminals'[s].applied .. head' :
                                 terminals'[s].baseline[i] = generations'[r][i]
                            \/ i \in DOMAIN shells'[s].unpublished
    BY DEF SyncInv
  <1>1. /\ terminals[s].attached /\ ~terminals[s].reconcile
        /\ terminals'[s].baseline = terminals[s].baseline
        /\ terminals'[s].applied = terminals[s].applied
    OBVIOUS
  <1>2. s \in Attached /\ terminals[s].applied \in Nat
    BY <1>1 DEF ShellInv, HookInv, HookLocal, HookTypes, Terminal
  <1>3. HistoryTypes /\ HistoryTypes'
    BY DEF ShellInv, Service, TypeInv
  <1>4. SharedNames(s)' = SharedNames(s)
    BY <1>2 DEF SharedNames
  <1>5. /\ terminals[s].applied # 0
        /\ \A i \in SharedNames(s) :
             \/ \E r \in terminals[s].applied .. head : terminals[s].baseline[i] = generations[r][i]
             \/ i \in DOMAIN shells[s].unpublished
    BY <1>1 DEF SyncInv
  <1>6. ASSUME NEW i \in SharedNames(s), i \notin DOMAIN shells[s].unpublished
        PROVE  \E r \in terminals[s].applied .. head' : terminals[s].baseline[i] = generations'[r][i]
    <2>. PICK from \in Nat : from = terminals[s].applied
      BY <1>2
    <2>. PICK v : v = terminals[s].baseline[i]
      OBVIOUS
    <2>1. from # 0 /\ \E r \in from .. head : v = generations[r][i]
      BY <1>5, <1>6
    <2>2. \E r \in from .. head' : v = generations'[r][i]
      BY <1>3, <2>1, HeldGrows
    <2>3. QED
      BY <2>2
  <1>7. \A i \in SharedNames(s)' :
          \/ \E r \in terminals'[s].applied .. head' :
               terminals'[s].baseline[i] = generations'[r][i]
          \/ i \in DOMAIN shells'[s].unpublished
    BY <1>1, <1>2, <1>4, <1>6
  <1>8. QED
    BY <1>1, <1>5, <1>7

LEMMA JoinKept ==
  ASSUME ShellInv, ShellInv', Grows, NEW s \in Shells, JoinInv(s),
         s \in Attached' => s \in Attached,
         s \in Attached =>
           /\ committed' = committed
           /\ shells'[s].presentAtAttach = shells[s].presentAtAttach
           /\ shells'[s].attachState = shells[s].attachState
           /\ shells'[s].appliedRevision = shells[s].appliedRevision,
         ~terminals'[s].attached /\ terminals'[s].pc # "off" =>
           /\ ~terminals[s].attached /\ terminals[s].pc # "off"
           /\ s \in Attached => terminals'[s].baseline = terminals[s].baseline
  PROVE  JoinInv(s)'
  <1>. SUFFICES ASSUME ~terminals'[s].attached, terminals'[s].pc # "off", s \in Attached'
                PROVE  /\ terminals'[s].baseline # NoBaseline
                       /\ shells'[s].attachState = "at-head" =>
                            /\ shells'[s].appliedRevision \in 1 .. head'
                            /\ \A i \in SharedNames(s)' :
                                 terminals'[s].baseline[i] = generations'[shells'[s].appliedRevision][i]
    BY DEF JoinInv
  <1>1. /\ s \in Attached /\ ~terminals[s].attached /\ terminals[s].pc # "off"
        /\ terminals'[s].baseline = terminals[s].baseline
        /\ shells'[s].attachState = shells[s].attachState
        /\ shells'[s].appliedRevision = shells[s].appliedRevision
        /\ SharedNames(s)' = SharedNames(s)
    BY DEF SharedNames
  <1>2. /\ terminals[s].baseline # NoBaseline
        /\ shells[s].attachState = "at-head" =>
             /\ shells[s].appliedRevision \in 1 .. head
             /\ \A i \in SharedNames(s) :
                  terminals[s].baseline[i] = generations[shells[s].appliedRevision][i]
    BY <1>1 DEF JoinInv
  <1>3. /\ \A r \in 1 .. head : r \in 1 .. head' /\ generations'[r] = generations[r]
    BY DEF Grows, ShellInv, Service, TypeInv, HistoryTypes
  <1>4. QED
    BY <1>1, <1>2, <1>3

(* A terminal joins at the head when what it shares is the shared          *)
(* generation, and its retry finds that it joined with the same capture.   *)
Joins(s, initial) ==
  shells[s].attachState = "at-head" =>
    /\ shells[s].appliedRevision \in 1 .. head
    /\ \A i \in SharedNames(s) : initial[i] = generations[shells[s].appliedRevision][i]

LEMMA AttachJoins ==
  ASSUME Service, Service', NEW s \in Shells, NEW op \in Operations, NEW initial \in Snapshot,
         Attach(s, op, initial)
  PROVE  Joins(s, initial)'
  <1>. DEFINE capture == [i \in Identities |-> IF AllowsLiveValue(i) THEN initial[i] ELSE Absent]
              atHead == capture = shared
              attachState == IF atHead THEN "at-head" ELSE "clean-reconcile"
              revision == IF atHead THEN head ELSE 0
              base == IF atHead THEN shared ELSE EmptySnapshot
  <1>1. shells'[s] = [attachState |-> attachState, appliedRevision |-> revision,
                      appliedBaseline |-> base, captureBaseline |-> capture,
                      presentAtAttach |-> Present(initial), transition |-> "attach",
                      pending |-> NoPending, conflict |-> NoConflict, unpublished |-> NoChanges,
                      behind |-> ~atHead]
    BY DEF Attach, Service, TypeInv, ShellTypes
  <1>2. /\ shells'[s].attachState = attachState /\ shells'[s].appliedRevision = revision
        /\ shells'[s].presentAtAttach = Present(initial)
    BY <1>1
  <1>3. /\ SameRevision /\ committed' = committed /\ materialized
    BY DEF Attach, syncUnchanged
  <1>4. head \in 1 .. head /\ shared = generations[head]
    BY <1>3 DEF Service, HistoryInv, Started, LogInv, TypeInv, HistoryTypes
  <1>5. ASSUME atHead, NEW i \in SharedNames(s)'
        PROVE  initial[i] = shared[i]
    <2>1. /\ i \in Identities \ Excluded(committed.source)
          /\ i \in committed.source.owned \/ i \notin Present(initial)
      BY <1>2, <1>3, <1>5 DEF SharedNames
    <2>2. capture[i] = shared[i]
      BY <1>5
    <2>3. CASE AllowsLiveValue(i)
      BY <2>1, <2>2, <2>3
    <2>4. CASE ~AllowsLiveValue(i)
      <3>1. i \notin Present(initial)
        BY <2>1, <2>4 DEF AllowsLiveValue
      <3>2. initial[i] = Absent /\ capture[i] = Absent
        BY <2>1, <2>4, <3>1 DEF Present
      <3>3. QED
        BY <2>2, <3>2
    <2>5. QED
      BY <2>3, <2>4
  <1>6. CASE atHead
    <2>1. shells'[s].appliedRevision = head /\ head' = head /\ generations' = generations
      BY <1>2, <1>3, <1>6 DEF SameRevision
    <2>2. \A i \in SharedNames(s)' : initial[i] = generations[head][i]
      BY <1>4, <1>5, <1>6
    <2>3. QED
      BY <1>4, <2>1, <2>2 DEF Joins
  <1>7. CASE ~atHead
    BY <1>2, <1>7 DEF Joins
  <1>8. QED
    BY <1>6, <1>7

LEMMA AttachSync ==
  ASSUME ShellInv, NEW s \in Shells, AttachTerminal(s), JoinInv(s)
  PROVE  JoinInv(s)' /\ SyncInv(s)'
  <1>. DEFINE op == Retained(terminals[s].attachOp, s)
              asked == AttachAsked(s)
              joined == AttachJoined(s, shells'[s])
  <1>1. HookTypes /\ HookInv /\ Service /\ ShellInv' /\ Grows
    BY AttachHook DEF ShellInv, HookInv
  <1>. PICK initial \in Snapshot : initial = AttachInitial(s)
    BY <1>1, AttachOutcome
  <1>2. /\ terminals[s].pc \in {"command", "prompt"} /\ ~terminals[s].attached
        /\ op \in Operations /\ initial # NoBaseline
    BY <1>1, AttachOutcome, ShellSyncAssumption
  <1>3. s \in Attached => initial = terminals[s].baseline /\ Joins(s, initial)
    BY <1>2 DEF JoinInv, Joins, AttachInitial
  <1>4. UNCHANGED vars => (s \in Attached' => Joins(s, initial)')
    <2>. SUFFICES ASSUME UNCHANGED vars, s \in Attached' PROVE Joins(s, initial)'
      OBVIOUS
    <2>1. s \in Attached /\ UNCHANGED <<shells, head, generations, committed>>
      BY DEF vars, state, Attached
    <2>2. Joins(s, initial)
      BY <1>3, <2>1
    <2>3. QED
      BY <2>1, <2>2 DEF Joins, SharedNames
  <1>5. AdapterAttach(s, op, initial) \/ UNCHANGED vars => (s \in Attached' => Joins(s, initial)')
    BY <1>1, <1>2, <1>4, AttachJoins DEF AdapterAttach, ShellInv
  <1>6. s \in Attached' => Joins(s, initial)'
    BY <1>1, <1>5, AttachOutcome
  <1>7. ASSUME NEW terminal, Becomes(s, terminal) PROVE terminals'[s] = terminal
    BY <1>1, <1>7 DEF Becomes, HookTypes
  <1>8. CASE Becomes(s, asked)
    <2>1. terminals'[s] = asked
      BY <1>7, <1>8
    <2>2. asked.attached = FALSE /\ asked.baseline = initial
      BY <1>1, <1>2, AttachAskedTerminal DEF HookTypes, Terminal
    <2>. HIDE DEF asked
    <2>3. SyncInv(s)'
      BY <2>1, <2>2 DEF SyncInv
    <2>4. JoinInv(s)'
      <3>1. terminals'[s].baseline = initial
        BY <2>1, <2>2
      <3>. SUFFICES ASSUME s \in Attached'
                    PROVE  /\ terminals'[s].baseline # NoBaseline
                           /\ shells'[s].attachState = "at-head" =>
                                /\ shells'[s].appliedRevision \in 1 .. head'
                                /\ \A i \in SharedNames(s)' :
                                     terminals'[s].baseline[i]
                                       = generations'[shells'[s].appliedRevision][i]
        BY DEF JoinInv
      <3>2. Joins(s, initial)'
        BY <1>6
      <3>3. QED
        BY <1>2, <3>1, <3>2 DEF Joins
    <2>5. QED
      BY <2>3, <2>4
  <1>9. CASE AdapterAttach(s, op, initial) /\ Becomes(s, joined)
    <2>1. terminals'[s] = joined
      BY <1>7, <1>9
    <2>2. s \in Attached'
      BY <1>1, <1>2, <1>9, AdapterAttachServed
    <2>3. shells'[s] \in ShellState
      BY <1>1, <2>2 DEF ShellInv, Service, TypeInv, ShellTypes, Attached
    <2>4. /\ joined.attached = TRUE /\ joined.baseline = initial
          /\ joined.reconcile = (shells'[s].attachState = "clean-reconcile")
          /\ joined.applied = shells'[s].appliedRevision
      BY <1>1, <1>2, <2>3, AttachTerminals
    <2>5. shells'[s].attachState # "clean-reconcile" => shells'[s].attachState = "at-head"
      BY <2>3 DEF ShellState
    <2>6. Joins(s, initial)'
      BY <1>6, <2>2
    <2>. HIDE DEF joined
    <2>7. SyncInv(s)'
      <3>. SUFFICES ASSUME ~terminals'[s].reconcile
                    PROVE  /\ terminals'[s].applied # 0
                           /\ \A i \in SharedNames(s)' :
                                \E r \in terminals'[s].applied .. head' :
                                  terminals'[s].baseline[i] = generations'[r][i]
        BY DEF SyncInv
      <3>1. /\ shells'[s].appliedRevision \in 1 .. head'
            /\ \A i \in SharedNames(s)' : initial[i] = generations'[shells'[s].appliedRevision][i]
        BY <2>1, <2>4, <2>5, <2>6 DEF Joins
      <3>2. /\ shells'[s].appliedRevision # 0
            /\ shells'[s].appliedRevision \in shells'[s].appliedRevision .. head'
        BY <1>1, <3>1 DEF ShellInv, Service, TypeInv, HistoryTypes
      <3>3. QED
        BY <2>1, <2>4, <3>1, <3>2
    <2>8. JoinInv(s)'
      BY <2>1, <2>4 DEF JoinInv
    <2>9. QED
      BY <2>7, <2>8
  <1>10. QED
    BY <1>1, <1>8, <1>9, AttachOutcome


(* What a publication leaves: the baseline of a terminal whose reply is    *)
(* lost is held as before; of one that parsed it, what the service         *)
(* captured is held or kept.                                               *)
LEMMA PublishSync ==
  ASSUME ShellInv, NEW s \in Shells, PublishTerminal(s), SyncInv(s)
  PROVE  SyncInv(s)'
  <1>. DEFINE op == NewOperation(s)
              delta == DiffSnapshot(terminals[s].baseline, env[s])
              applied == terminals[s].applied
  <1>1. HookTypes /\ HookInv /\ Service /\ HookLocal(s)
    BY DEF ShellInv, HookInv
  <1>2. ShellInv' /\ Grows /\ OnlyShell(s) /\ Service' /\ HistoryTypes /\ HistoryTypes'
    BY <1>1, PublishHook DEF ShellInv, Service, TypeInv
  <1>3. /\ terminals[s].attached /\ terminals[s].baseline \in Snapshot /\ env[s] \in Snapshot
        /\ applied \in Nat /\ s \in Attached /\ s \in Attached' /\ op \in Operations
    <2>1. terminals[s].attached /\ terminals[s].baseline # NoBaseline /\ op \in Operations
      BY <1>1, PublishOutcome
    <2>2. QED
      BY <1>1, <1>2, <2>1 DEF HookLocal, HookTypes, Terminal, OnlyShell
  <1>4. ASSUME NEW terminal, Becomes(s, terminal) PROVE terminals'[s] = terminal
    BY <1>1, <1>4 DEF Becomes, HookTypes
  <1>5. /\ PublishAsked(s) \in Terminal
        /\ PublishAsked(s).attached = terminals[s].attached
        /\ PublishAsked(s).reconcile = terminals[s].reconcile
        /\ PublishAsked(s).baseline = terminals[s].baseline
        /\ PublishAsked(s).applied = applied
    BY <1>1 DEF PublishAsked, HookTypes, Terminal
  <1>6. CASE UNCHANGED vars /\ Becomes(s, PublishAsked(s))
    <2>1. UNCHANGED <<committed, shells>>
      BY <1>6 DEF vars, state
    <2>2. QED
      BY <1>2, <1>4, <1>5, <1>6, <2>1, SyncKept
  <1>7. CASE AdapterPublish(s, op)
    <2>. SUFFICES ASSUME terminals'[s].attached, ~terminals'[s].reconcile PROVE SyncInv(s)'
      BY DEF SyncInv
    <2>1. Publish(s, op, applied, delta) /\ committed' = committed
      BY <1>7 DEF AdapterPublish, Publish, syncUnchanged
    <2>2. /\ applied # 0 /\ shells[s].unpublished = NoChanges
          /\ shells'[s].appliedRevision = applied
          /\ shells'[s].presentAtAttach = shells[s].presentAtAttach
          /\ shells'[s].captureBaseline = Observed(s, delta)
      BY <1>1, <2>1, PublishRecord
    <2>3. SharedNames(s)' = SharedNames(s)
      BY <2>1, <2>2 DEF SharedNames
    <2>4. terminals'[s] = PublishAsked(s) \/ terminals'[s] = PublishParsed(s, shells'[s].conflict)
      BY <1>1, <1>4, PublishOutcome
    <2>5. PublishParsed(s, shells'[s].conflict).reconcile = PublishAsked(s).reconcile
      BY <1>5 DEF PublishParsed, Terminal
    <2>6. ~terminals[s].reconcile
      BY <1>5, <2>4, <2>5
    <2>7. ASSUME NEW i \in SharedNames(s)
          PROVE  \E r \in applied .. head' : terminals[s].baseline[i] = generations'[r][i]
      <3>1. i \notin DOMAIN shells[s].unpublished
        BY <2>2 DEF NoChanges
      <3>2. \E r \in applied .. head : terminals[s].baseline[i] = generations[r][i]
        BY <1>3, <2>6, <2>7, <3>1 DEF SyncInv
      <3>3. QED
        BY <1>2, <1>3, <2>2, <3>2, HeldGrows
    <2>8. CASE terminals'[s] = PublishAsked(s)
      <3>1. terminals'[s].baseline = terminals[s].baseline /\ terminals'[s].applied = applied
        BY <1>5, <2>8
      <3>2. QED
        BY <2>2, <2>3, <2>7, <3>1 DEF SyncInv
    <2>9. CASE terminals'[s] = PublishParsed(s, shells'[s].conflict)
      <3>1. terminals'[s].baseline = env[s] /\ terminals'[s].applied = applied
        BY <1>5, <2>9 DEF PublishParsed, Terminal
      <3>2. ASSUME NEW i \in SharedNames(s)
            PROVE  \/ \E r \in applied .. head' : env[s][i] = generations'[r][i]
                   \/ i \in DOMAIN shells'[s].unpublished
        <4>1. i \in Identities
          BY DEF SharedNames
        <4>2. CASE i \notin DOMAIN delta
          BY <2>7, <4>1, <4>2 DEF DiffSnapshot
        <4>3. CASE i \in DOMAIN delta
          <5>1. delta[i] = env[s][i]
            BY <4>3 DEF DiffSnapshot
          <5>2. Live(s, i)
            BY DEF SharedNames, Live, AllowsLiveValue, Admit
          <5>3. shells'[s].captureBaseline[i] = env[s][i]
            <6>. HIDE DEF delta
            <6>1. i \in DOMAIN Only(delta, {j \in Identities : Live(s, j)})
              BY <4>1, <4>3, <5>2 DEF Only
            <6>2. Only(delta, {j \in Identities : Live(s, j)})[i] = delta[i]
              BY <6>1 DEF Only
            <6>3. Observed(s, delta)[i] = delta[i]
              BY <4>1, <6>1, <6>2 DEF Observed, ApplyChanges
            <6>4. QED
              BY <2>2, <5>1, <6>3
          <5>4. /\ shells'[s] \in ShellState /\ head' \in Nat
                /\ ShellHistory(shells'[s], head', generations')
                /\ Remembers(shells'[s], head', generations')
            BY <1>2, <1>3 DEF Service, TypeInv, ShellTypes, Attached, HistoryTypes,
               HistoryInv, ShellsInv, ValidInv, RecordsInv
          <5>5. \/ i \in DOMAIN shells'[s].unpublished
                \/ \E r \in shells'[s].appliedRevision .. head' :
                     shells'[s].captureBaseline[i] = generations'[r][i]
            BY <2>2, <4>1, <5>4, CapturedHeld
          <5>6. QED
            BY <2>2, <5>3, <5>5
        <4>4. QED
          BY <4>2, <4>3
      <3>3. QED
        BY <2>2, <2>3, <3>1, <3>2 DEF SyncInv
    <2>10. QED
      BY <2>4, <2>8, <2>9
  <1>8. QED
    BY <1>1, <1>6, <1>7, PublishOutcome

(* A terminal that receives nothing to do is where it was; one that        *)
(* receives a transition has to be reconciled.                             *)
LEMMA ReceivedSync ==
  ASSUME ShellInv, ShellInv', Grows, NEW s \in Shells, SyncInv(s), terminals[s].attached,
         committed' = committed,
         shells'[s].presentAtAttach = shells[s].presentAtAttach,
         shells'[s].unpublished = shells[s].unpublished,
         NEW asked \in Terminal, asked.reconcile = terminals[s].reconcile,
         asked.baseline = terminals[s].baseline, asked.applied = terminals[s].applied,
         NEW last \in Nat,
         \/ terminals'[s] = asked
         \/ \E result : /\ result = NoPending \/ Transition(result, last)
                        /\ terminals'[s] = Received(s, asked, result)
  PROVE  SyncInv(s)'
  <1>1. HookTypes
    BY DEF ShellInv, HookInv
  <1>2. ASSUME NEW result, result = NoPending \/ Transition(result, last),
               terminals'[s] = Received(s, asked, result)
        PROVE  SyncInv(s)'
    <2>1. /\ terminals'[s].baseline = terminals[s].baseline
          /\ terminals'[s].applied = terminals[s].applied
      BY <1>1, <1>2, ReceivedTerminal
    <2>2. terminals'[s].reconcile = terminals[s].reconcile \/ terminals'[s].reconcile
      BY <1>1, <1>2, ReceivedTerminal
    <2>3. QED
      BY <2>1, <2>2, SyncKept
  <1>3. CASE terminals'[s] = asked
    BY <1>3, SyncKept
  <1>4. QED
    BY <1>2, <1>3

LEMMA PullSync ==
  ASSUME ShellInv, NEW s \in Shells, PullTerminal(s), SyncInv(s)
  PROVE  SyncInv(s)'
  <1>. DEFINE op == Retained(terminals[s].prepareOp, s)
              result == ResultOf(receipts'[s], op)
  <1>1. HookTypes /\ HookInv /\ Service
    BY DEF ShellInv, HookInv
  <1>2. ShellInv' /\ Grows /\ OnlyShell(s) /\ head' \in Nat
    BY <1>1, PullHook DEF ShellInv, Service, TypeInv, HistoryTypes
  <1>3. ASSUME NEW terminal, Becomes(s, terminal) PROVE terminals'[s] = terminal
    BY <1>1, <1>3 DEF Becomes, HookTypes
  <1>4. /\ terminals[s].pc = "prompt" /\ terminals[s].attached /\ op \in Operations
        /\ \/ AdapterPrepare(s, op) /\ terminals'[s] = Received(s, PullAsked(s), result)
           \/ terminals'[s] = PullAsked(s)
        /\ AdapterPrepare(s, op) \/ UNCHANGED vars
    BY <1>1, <1>3, PullOutcome
  <1>5. AdapterPrepare(s, op) => result = NoPending \/ Transition(result, head')
    BY <1>1, <1>4, PrepareAnswer
  <1>6. /\ shells'[s].presentAtAttach = shells[s].presentAtAttach
        /\ shells'[s].unpublished = shells[s].unpublished
    <2>1. UNCHANGED vars => UNCHANGED shells
      BY DEF vars, state
    <2>2. QED
      BY <1>1, <1>4, <2>1, PrepareRecord DEF AdapterPrepare
  <1>7. committed' = committed
    BY <1>2 DEF OnlyShell
  <1>. HIDE DEF result
  <1>8. QED
    BY <1>1, <1>2, <1>4, <1>5, <1>6, <1>7, PullAskedTerminal, ReceivedSync

LEMMA ResolveSync ==
  ASSUME ShellInv, NEW s \in Shells, ResolveTerminal(s), SyncInv(s)
  PROVE  SyncInv(s)'
  <1>. DEFINE op == Retained(terminals[s].resolveOp, s)
              result == ResultOf(receipts'[s], op)
  <1>1. HookTypes /\ HookInv /\ Service
    BY DEF ShellInv, HookInv
  <1>2. ShellInv' /\ Grows /\ OnlyShell(s) /\ head' \in Nat
    BY <1>1, ResolveHook DEF ShellInv, Service, TypeInv, HistoryTypes
  <1>3. ASSUME NEW terminal, Becomes(s, terminal) PROVE terminals'[s] = terminal
    BY <1>1, <1>3 DEF Becomes, HookTypes
  <1>4. /\ terminals[s].attached /\ op \in Operations
        /\ \/ AdapterResolve(s, op) /\ terminals'[s] = Received(s, ResolveAsked(s), result)
           \/ terminals'[s] = ResolveAsked(s)
        /\ AdapterResolve(s, op) \/ UNCHANGED vars
    BY <1>1, <1>3, ResolveOutcome
  <1>5. AdapterResolve(s, op) => Transition(result, head')
    BY <1>1, <1>4, ResolveAnswer
  <1>6. /\ shells'[s].presentAtAttach = shells[s].presentAtAttach
        /\ shells'[s].unpublished = shells[s].unpublished
    <2>1. UNCHANGED vars => UNCHANGED shells
      BY DEF vars, state
    <2>2. QED
      BY <1>1, <1>4, <2>1, ResolveRecord DEF AdapterResolve
  <1>7. committed' = committed
    BY <1>2 DEF OnlyShell
  <1>. HIDE DEF result
  <1>8. QED
    BY <1>1, <1>2, <1>4, <1>5, <1>6, <1>7, ResolveAskedTerminal, ReceivedSync

(* A confirmed terminal holds the generation it was asked to hold.         *)
LEMMA AcknowledgeSync ==
  ASSUME ShellInv, NEW s \in Shells, AcknowledgeTerminal(s), SyncInv(s)
  PROVE  SyncInv(s)'
  <1>. DEFINE op == Retained(terminals[s].ackOp, s)
              reply == terminals[s].reply
              revision == reply.revision
  <1>1. HookTypes /\ HookInv /\ Service /\ HookLocal(s)
    BY DEF ShellInv, HookInv
  <1>2. ShellInv' /\ Grows /\ OnlyShell(s)
    BY <1>1, AcknowledgeHook DEF ShellInv
  <1>3. ASSUME NEW terminal, Becomes(s, terminal) PROVE terminals'[s] = terminal
    BY <1>1, <1>3 DEF Becomes, HookTypes
  <1>4. terminals[s].pc = "verify" /\ terminals[s].reconcile /\ env[s] \in Snapshot
    BY <1>1, AcknowledgeOutcome DEF HookLocal, HookTypes
  <1>5. CASE Becomes(s, AckAsked(s))
    <2>1. terminals'[s].reconcile = terminals[s].reconcile
      BY <1>1, <1>3, <1>4, <1>5, AckTerminals
    <2>2. QED
      BY <1>4, <2>1 DEF SyncInv
  <1>6. CASE AdapterAcknowledge(s, op, reply) /\ Becomes(s, AckConfirmed(s))
    <2>1. /\ Acknowledge(s, op, revision, reply.token, env[s]) /\ committed' = committed
          /\ generations' = generations /\ head' = head
      BY <1>6 DEF AdapterAcknowledge, Acknowledge, syncUnchanged, SameRevision
    <2>2. /\ revision \in 1 .. head /\ AdmittedSnapshot(s, env[s]) = generations[revision]
          /\ shells'[s].presentAtAttach = shells[s].presentAtAttach
      BY <1>1, <2>1, AcknowledgeRecord
    <2>3. SharedNames(s)' = SharedNames(s)
      BY <2>1, <2>2 DEF SharedNames
    <2>4. terminals'[s].baseline = env[s] /\ terminals'[s].applied = revision
      BY <1>1, <1>3, <1>4, <1>6, AckTerminals
    <2>5. ASSUME NEW i \in SharedNames(s) PROVE env[s][i] = generations[revision][i]
      <3>1. i \in Identities /\ Live(s, i)
        BY DEF SharedNames, Live, AllowsLiveValue, Admit
      <3>2. AdmittedSnapshot(s, env[s])[i] = env[s][i]
        BY <3>1 DEF AdmittedSnapshot
      <3>3. QED
        BY <2>2, <3>2
    <2>6. revision # 0 /\ revision \in revision .. head
      BY <1>1, <2>2 DEF Service, TypeInv, HistoryTypes
    <2>7. QED
      BY <2>1, <2>3, <2>4, <2>5, <2>6 DEF SyncInv
  <1>7. QED
    BY <1>1, <1>5, <1>6, AcknowledgeOutcome

(* Only an attach makes a terminal join, and only deactivate makes it go.  *)
LEMMA StaysAttached ==
  ASSUME ShellInv, NEW s \in Shells,
         PublishTerminal(s) \/ PullTerminal(s) \/ ResolveTerminal(s) \/ ApplyTransition(s)
           \/ AcknowledgeTerminal(s)
  PROVE  terminals'[s].attached
  <1>1. HookTypes /\ HookInv /\ Service /\ ShellInv' /\ head' \in Nat
    BY PublishHook, PullHook, ResolveHook, ApplyHook, AcknowledgeHook
    DEF ShellInv, HookInv, Service, TypeInv, HistoryTypes
  <1>2. ASSUME NEW terminal, Becomes(s, terminal) PROVE terminals'[s] = terminal
    BY <1>1, <1>2 DEF Becomes, HookTypes
  <1>3. terminals[s] \in Terminal /\ HookLocal(s)
    BY <1>1 DEF HookTypes, HookInv
  <1>4. CASE PublishTerminal(s)
    <2>1. terminals[s].attached
      BY <1>1, <1>4, PublishOutcome
    <2>2. PublishAsked(s) \in Terminal /\ PublishAsked(s).attached
      BY <1>3, <2>1 DEF PublishAsked, Terminal
    <2>3. PublishParsed(s, shells'[s].conflict).attached
      BY <2>2 DEF PublishParsed, Terminal
    <2>4. QED
      BY <1>1, <1>2, <1>4, <2>2, <2>3, PublishOutcome
  <1>5. CASE PullTerminal(s)
    <2>. DEFINE op == Retained(terminals[s].prepareOp, s)
                result == ResultOf(receipts'[s], op)
    <2>1. /\ terminals[s].pc = "prompt" /\ terminals[s].attached
          /\ \/ terminals'[s] = PullAsked(s)
             \/ AdapterPrepare(s, op) /\ terminals'[s] = Received(s, PullAsked(s), result)
      BY <1>1, <1>2, <1>5, PullOutcome
    <2>2. op \in Operations
      BY <1>1, <1>5, PullOutcome
    <2>3. AdapterPrepare(s, op) => result = NoPending \/ Transition(result, head')
      BY <1>1, <2>2, PrepareAnswer
    <2>4. PullAsked(s) \in Terminal /\ PullAsked(s).attached
      BY <1>1, <2>1, PullAskedTerminal
    <2>. HIDE DEF result
    <2>5. QED
      BY <1>1, <2>1, <2>3, <2>4, ReceivedTerminal
  <1>6. CASE ResolveTerminal(s)
    <2>. DEFINE op == Retained(terminals[s].resolveOp, s)
                result == ResultOf(receipts'[s], op)
    <2>1. /\ terminals[s].pc = "command" /\ terminals[s].attached
          /\ \/ terminals'[s] = ResolveAsked(s)
             \/ AdapterResolve(s, op) /\ terminals'[s] = Received(s, ResolveAsked(s), result)
      BY <1>1, <1>2, <1>6, ResolveOutcome DEF ResolveTerminal
    <2>2. op \in Operations
      BY <1>1, <1>6, ResolveOutcome
    <2>3. AdapterResolve(s, op) => Transition(result, head')
      BY <1>1, <2>2, ResolveAnswer
    <2>4. ResolveAsked(s) \in Terminal /\ ResolveAsked(s).attached
      BY <1>1, <2>1, ResolveAskedTerminal
    <2>. HIDE DEF result
    <2>5. QED
      BY <1>1, <2>1, <2>3, <2>4, ReceivedTerminal
  <1>7. CASE ApplyTransition(s)
    <2>1. terminals[s].pc = "apply"
      BY <1>1, <1>7, ApplyOutcome
    <2>2. terminals[s].attached
      BY <1>3, <2>1 DEF HookLocal
    <2>3. Applied(s).attached
      BY <1>3, <2>2 DEF Applied, Terminal
    <2>4. \A undone \in BOOLEAN : Abandoned(terminals[s], undone).attached
      BY <1>3, <2>2 DEF Abandoned, Terminal
    <2>5. QED
      BY <1>1, <1>2, <1>7, <2>3, <2>4, ApplyOutcome
  <1>8. CASE AcknowledgeTerminal(s)
    <2>1. terminals[s].pc = "verify"
      BY <1>1, <1>8, AcknowledgeOutcome
    <2>2. terminals[s].attached
      BY <1>3, <2>1 DEF HookLocal
    <2>3. QED
      BY <1>1, <1>2, <1>8, <2>1, <2>2, AckTerminals, AcknowledgeOutcome
  <1>9. QED
    BY <1>4, <1>5, <1>6, <1>7, <1>8

(* A transition is evaluated by a terminal that is to be reconciled.       *)
LEMMA StaysUnreconciled ==
  ASSUME ShellInv, NEW s \in Shells, ApplyTransition(s)
  PROVE  terminals'[s].reconcile
  <1>1. HookTypes /\ HookInv /\ Service
    BY DEF ShellInv, HookInv
  <1>2. ASSUME NEW terminal, Becomes(s, terminal) PROVE terminals'[s] = terminal
    BY <1>1, <1>2 DEF Becomes, HookTypes
  <1>3. terminals[s] \in Terminal /\ terminals[s].reconcile
    BY <1>1, ApplyOutcome DEF HookTypes, HookInv, HookLocal
  <1>4. Applied(s).reconcile
    BY <1>3 DEF Applied, Terminal
  <1>5. \A undone \in BOOLEAN : Abandoned(terminals[s], undone).reconcile
    BY <1>3 DEF Abandoned, Terminal
  <1>6. QED
    BY <1>1, <1>2, <1>4, <1>5, ApplyOutcome

Holds(s) == JoinInv(s) /\ SyncInv(s)

LEMMA OwnStepHolds ==
  ASSUME ShellInv, NEW s \in Shells, TerminalStep(s), Holds(s)
  PROVE  Holds(s)'
  <1>1. HookTypes /\ HookInv /\ Service /\ ShellInv' /\ Grows /\ OnlyShell(s)
    BY TerminalAlone DEF ShellInv, HookInv
  <1>2. CASE AttachTerminal(s)
    BY <1>2, AttachSync DEF Holds
  <1>3. CASE EditEnvironment(s) \/ DeferPull(s)
    <2>1. UNCHANGED vars
      BY <1>3 DEF EditEnvironment, DeferPull
    <2>2. UNCHANGED <<committed, shells>>
      BY <2>1 DEF vars, state
    <2>3. terminals[s] \in Terminal
      BY <1>1 DEF HookTypes
    <2>4. /\ terminals'[s].attached = terminals[s].attached
          /\ terminals'[s].reconcile = terminals[s].reconcile
          /\ terminals'[s].baseline = terminals[s].baseline
          /\ terminals'[s].applied = terminals[s].applied
          /\ terminals'[s].pc # "off" => terminals[s].pc # "off"
      <3>1. CASE EditEnvironment(s)
        BY <3>1 DEF EditEnvironment
      <3>2. CASE DeferPull(s)
        <4>1. terminals'[s] = [terminals[s] EXCEPT !.pc = "command"] /\ terminals[s].pc = "prompt"
          BY <1>1, <3>2 DEF DeferPull, Becomes, HookTypes
        <4>2. QED
          BY <2>3, <4>1 DEF Terminal
      <3>3. QED
        BY <1>3, <3>1, <3>2
    <2>5. JoinInv(s)'
      BY <1>1, <2>2, <2>4, JoinKept DEF Holds, Attached
    <2>6. SyncInv(s)'
      BY <1>1, <2>2, <2>4, SyncKept DEF Holds
    <2>7. QED
      BY <2>5, <2>6 DEF Holds
  <1>4. CASE PublishTerminal(s) \/ PullTerminal(s) \/ ResolveTerminal(s) \/ AcknowledgeTerminal(s)
    <2>1. SyncInv(s)'
      BY <1>4, PublishSync, PullSync, ResolveSync, AcknowledgeSync DEF Holds
    <2>2. JoinInv(s)'
      BY <1>4, StaysAttached DEF JoinInv
    <2>3. QED
      BY <2>1, <2>2 DEF Holds
  <1>5. CASE ApplyTransition(s)
    BY <1>5, StaysAttached, StaysUnreconciled DEF Holds, JoinInv, SyncInv
  <1>6. CASE Deactivate(s)
    <2>1. terminals'[s].pc = "off" /\ terminals'[s].attached = FALSE
      BY <1>1, <1>6, DeactivateHook, NewTerminalType
    <2>2. QED
      BY <2>1 DEF Holds, JoinInv, SyncInv
  <1>7. QED
    BY <1>2, <1>3, <1>4, <1>5, <1>6 DEF TerminalStep

(* What others do to the record of a terminal.                             *)
LEMMA OthersStepHolds ==
  ASSUME ShellInv, ShellInv', Grows, NEW s \in Shells, Holds(s), terminals'[s] = terminals[s],
         Attached # {} => committed' = committed,
         \/ shells'[s] = shells[s]
         \/ shells'[s] # NotAttached /\ shells[s] # NotAttached
              /\ \E flag : shells'[s] = [shells[s] EXCEPT !.behind = flag]
  PROVE  Holds(s)'
  <1>1. s \in Attached' => s \in Attached
    BY DEF Attached
  <1>2. s \in Attached =>
          /\ committed' = committed
          /\ shells'[s].presentAtAttach = shells[s].presentAtAttach
          /\ shells'[s].unpublished = shells[s].unpublished
          /\ shells'[s].attachState = shells[s].attachState
          /\ shells'[s].appliedRevision = shells[s].appliedRevision
    <2>. SUFFICES ASSUME s \in Attached PROVE
          /\ shells'[s].presentAtAttach = shells[s].presentAtAttach
          /\ shells'[s].unpublished = shells[s].unpublished
          /\ shells'[s].attachState = shells[s].attachState
          /\ shells'[s].appliedRevision = shells[s].appliedRevision
      OBVIOUS
    <2>1. shells[s] \in ShellState
      BY DEF ShellInv, Service, TypeInv, ShellTypes, Attached
    <2>2. ASSUME NEW flag, shells'[s] = [shells[s] EXCEPT !.behind = flag]
          PROVE  /\ shells'[s].presentAtAttach = shells[s].presentAtAttach
                 /\ shells'[s].unpublished = shells[s].unpublished
                 /\ shells'[s].attachState = shells[s].attachState
                 /\ shells'[s].appliedRevision = shells[s].appliedRevision
      BY <2>1, <2>2 DEF ShellState
    <2>3. QED
      BY <2>2
  <1>3. JoinInv(s)'
    BY <1>1, <1>2, JoinKept DEF Holds
  <1>4. SyncInv(s)'
    BY <1>2, SyncKept DEF Holds
  <1>5. QED
    BY <1>3, <1>4 DEF Holds

FaithInv == \A s \in Shells : Holds(s)

LEMMA FaithNext ==
  ASSUME ShellInv, FaithInv, [ShellNext]_allVars
  PROVE  FaithInv'
  <1>1. ShellInv' /\ Grows
    BY ShellSteps
  <1>2. CASE UNCHANGED allVars
    <2>1. UNCHANGED <<committed, shells, terminals>>
      BY <1>2 DEF allVars, hookVars, vars, state
    <2>2. QED
      BY <1>1, <2>1, OthersStepHolds DEF FaithInv
  <1>3. CASE FirstGeneration \/ ResetElsewhere
    <2>1. ASSUME NEW s \in Shells PROVE Holds(s)'
      <3>1. /\ terminals'[s] = terminals[s]
            /\ Attached # {} => committed' = committed
            /\ shells'[s] # NotAttached =>
                 shells[s] # NotAttached /\ \E flag : shells'[s] = [shells[s] EXCEPT !.behind = flag]
            /\ shells'[s] = NotAttached => shells[s] = NotAttached
        BY <1>3, ElsewhereAlone
      <3>2. QED
        BY <1>1, <3>1, OthersStepHolds DEF FaithInv
    <2>2. QED
      BY <2>1 DEF FaithInv
  <1>4. ASSUME NEW s \in Shells, TerminalStep(s)
        PROVE  FaithInv'
    <2>1. /\ committed' = committed
          /\ \A u \in Shells \ {s} : terminals'[u] = terminals[u] /\ shells'[u] = shells[u]
      BY <1>4, TerminalAlone DEF OnlyShell
    <2>2. ASSUME NEW u \in Shells PROVE Holds(u)'
      <3>1. CASE u = s
        BY <1>4, <3>1, OwnStepHolds DEF FaithInv
      <3>2. CASE u # s
        BY <1>1, <2>1, <3>2, OthersStepHolds DEF FaithInv
      <3>3. QED
        BY <3>1, <3>2
    <2>3. QED
      BY <2>2 DEF FaithInv
  <1>5. QED
    BY <1>2, <1>3, <1>4, StepCases DEF TerminalStep

LEMMA FaithStart == ShellInit => FaithInv
  <1>. SUFFICES ASSUME ShellInit, NEW s \in Shells PROVE Holds(s)
    BY DEF FaithInv
  <1>1. terminals[s] = NewTerminal /\ shells[s] = NotAttached
    BY DEF ShellInit, Init
  <1>2. NewTerminal.attached = FALSE
    BY DEF NewTerminal
  <1>3. QED
    BY <1>1, <1>2 DEF Holds, JoinInv, SyncInv, Attached

LEMMA FaithInvariant == ShellSpec => [](ShellInv /\ FaithInv)
  <1>1. ShellInv /\ FaithInv /\ [ShellNext]_allVars => ShellInv' /\ FaithInv'
    BY ShellSteps, FaithNext
  <1>2. QED
    BY <1>1, ShellStart, FaithStart, PTL DEF ShellSpec

(* No lost request or reply and no failed transition leaves a terminal in  *)
(* the belief that it is synchronized at a revision that it does not hold: *)
(* the applied revision and the reconcile flag of the hook are true of the *)
(* live shell.                                                             *)
THEOREM NeverFalselyConverged == ShellSpec => []NoFalseConvergence
  <1>1. ShellInv /\ FaithInv => NoFalseConvergence
    <2>. SUFFICES ASSUME ShellInv, FaithInv, NEW s \in Shells,
                         terminals[s].attached, ~terminals[s].reconcile
                  PROVE  /\ terminals[s].applied # 0
                         /\ \A i \in SharedNames(s) :
                              \/ \E r \in terminals[s].applied .. head : env[s][i] = generations[r][i]
                              \/ env[s][i] # terminals[s].baseline[i]
                              \/ i \in DOMAIN shells[s].unpublished
      BY DEF NoFalseConvergence
    <2>1. SyncInv(s)
      BY DEF FaithInv, Holds
    <2>2. QED
      BY <2>1 DEF SyncInv
  <1>2. QED
    BY <1>1, FaithInvariant, PTL

-------------------------------------------------------------------------------
(* What a terminal published stays what it is seen to hold                 *)

(* What no revision changed is the same in all of them.                    *)
LEMMA NothingChanged ==
  ASSUME NEW i, NEW from \in Nat, NEW to \in Nat, ~ChangedBetween(i, from, to), NEW r \in from .. to
  PROVE  generations[r][i] = generations[from][i]
  <1>. DEFINE D == {q \in from .. to : generations[q][i] # generations[from][i]}
  <1>. SUFFICES ASSUME r \in D PROVE FALSE
    OBVIOUS
  <1>1. D \in SUBSET Nat /\ D # {}
    OBVIOUS
  <1>2. PICK q \in D : \A e \in D : q <= e
    BY <1>1, LeastNatural
  <1>3. /\ q \in from .. to /\ q # from /\ generations[q][i] # generations[from][i]
        /\ q \in Nat
    BY <1>2
  <1>4. q - 1 \in from .. to - 1 /\ q - 1 \in from .. to /\ (q - 1) + 1 = q /\ ~(q <= q - 1)
    BY <1>3
  <1>5. generations[q - 1][i] = generations[from][i]
    BY <1>2, <1>4
  <1>6. generations[q - 1][i] = generations[(q - 1) + 1][i]
    BY <1>4 DEF ChangedBetween
  <1>7. QED
    BY <1>3, <1>4, <1>5, <1>6

(* A revision is added at the end of the log, and at most the oldest event *)
(* goes.                                                                   *)
LEMMA LogShifts ==
  ASSUME HistoryTypes, LogInv,
         NEW by \in SUBSET (Shells \X Operations), NEW changes \in Changes,
         NEW next \in Snapshot, AppendRevision(by, changes, next)
  PROVE  \E drop \in {0, 1} :
           /\ floor' = floor + drop
           /\ DOMAIN events' = 1 .. Len(events) + 1 - drop
           /\ events'[Len(events) + 1 - drop] = [revision |-> head + 1, by |-> by, changes |-> changes]
           /\ \A k \in 1 .. Len(events) - drop : events'[k] = events[k + drop]
           /\ Len(events) - drop >= 0
  <1>. DEFINE event == [revision |-> head + 1, by |-> by, changes |-> changes]
              log == Append(events, event)
              full == Len(log) > MaxStateEvents
  <1>1. MaxStateEvents \in Nat \ {0}
    BY ConstantsAssumption
  <1>2. event \in Event
    BY DEF Event, HistoryTypes
  <1>3. /\ log \in Seq(Event) /\ Len(log) = Len(events) + 1 /\ Len(events) \in Nat
        /\ log[Len(events) + 1] = event /\ DOMAIN events = 1 .. Len(events)
        /\ \A k \in 1 .. Len(events) : log[k] = events[k]
    BY <1>2 DEF HistoryTypes
  <1>. HIDE DEF event
  <1>4. CASE full
    <2>1. events' = Tail(log) /\ floor' = Head(log).revision
      BY <1>4 DEF AppendRevision, event
    <2>. HIDE DEF log
    <2>2. Len(events) >= 1 /\ 1 \in 1 .. Len(events)
      BY <1>1, <1>3, <1>4
    <2>3. Head(log) = log[1] /\ log # <<>>
      BY <1>3, <2>2
    <2>4. Head(log) = events[1]
      BY <1>3, <2>2, <2>3
    <2>5. floor' = floor + 1
      BY <1>3, <2>1, <2>2, <2>4 DEF LogInv, EventsNumbered
    <2>6. DOMAIN Tail(log) = 1 .. Len(events) /\ \A k \in 1 .. Len(events) : Tail(log)[k] = log[k + 1]
      BY <1>3, <2>3
    <2>7. Len(events) + 1 - 1 = Len(events) /\ Len(events) \in 1 .. Len(events) /\ Len(events) - 1 >= 0
      BY <1>3, <2>2
    <2>8. events'[Len(events)] = event
      BY <1>3, <2>1, <2>6, <2>7
    <2>9. \A k \in 1 .. Len(events) - 1 : k \in 1 .. Len(events) /\ k + 1 \in 1 .. Len(events)
      BY <1>3
    <2>10. \A k \in 1 .. Len(events) - 1 : events'[k] = events[k + 1]
      BY <1>3, <2>1, <2>6, <2>9
    <2>11. QED
      BY <2>1, <2>5, <2>6, <2>7, <2>8, <2>10 DEF event
  <1>5. CASE ~full
    <2>1. events' = log /\ floor' = floor
      BY <1>5 DEF AppendRevision, event
    <2>. HIDE DEF log, full
    <2>2. Len(events) + 1 - 0 = Len(events) + 1 /\ Len(events) - 0 = Len(events) /\ floor + 0 = floor
      BY <1>3 DEF HistoryTypes
    <2>3. DOMAIN log = 1 .. Len(events) + 1
      BY <1>3
    <2>4. \A k \in 1 .. Len(events) - 0 : k \in 1 .. Len(events) /\ k + 0 = k
      BY <1>3
    <2>5. \A k \in 1 .. Len(events) - 0 : events'[k] = events[k + 0]
      BY <1>3, <2>1, <2>4
    <2>6. events'[Len(events) + 1 - 0] = event /\ DOMAIN events' = 1 .. Len(events) + 1 - 0
      BY <1>3, <2>1, <2>2, <2>3
    <2>7. Len(events) - 0 >= 0
      BY <1>3
    <2>. HIDE DEF event
    <2>8. /\ floor' = floor + 0
          /\ DOMAIN events' = 1 .. Len(events) + 1 - 0
          /\ events'[Len(events) + 1 - 0] = event
          /\ \A k \in 1 .. Len(events) - 0 : events'[k] = events[k + 0]
          /\ Len(events) - 0 >= 0
      <3>1. floor' = floor + 0
        BY <2>1, <2>2
      <3>2. QED
        BY <3>1, <2>5, <2>6, <2>7
    <2>9. QED
      BY <2>8, Zenon DEF event
  <1>6. QED
    BY <1>4, <1>5

(* Who changed an identity last, before and after a revision is added.     *)
LEMMA LastShifts ==
  ASSUME HistoryTypes, HistoryTypes', LogInv,
         NEW by \in SUBSET (Shells \X Operations), NEW changes \in Changes,
         NEW next \in Snapshot, AppendRevision(by, changes, next),
         NEW event, event = [revision |-> head + 1, by |-> by, changes |-> changes]
  PROVE  /\ floor <= floor'
         /\ \A k \in DOMAIN events' :
              \/ events'[k] = event
              \/ \E j \in DOMAIN events :
                   /\ events[j] = events'[k]
                   /\ \A i \in Identities : LastIn(events', i, k) =>
                        LastIn(events, i, j) /\ i \notin DOMAIN changes
         /\ \A j \in DOMAIN events, i \in Identities :
              LastIn(events, i, j) /\ events[j].revision > floor' =>
                \E k \in DOMAIN events' :
                  LastIn(events', i, k) /\ events'[k] \in {event, events[j]}
  <1>. DEFINE last == Len(events)
  <1>1. /\ floor \in Nat /\ last \in Nat /\ DOMAIN events = 1 .. last
        /\ \A j \in 1 .. last : events[j].revision = floor + j
    BY DEF HistoryTypes, LogInv, EventsNumbered
  <1>2. PICK drop \in {0, 1} :
          /\ floor' = floor + drop
          /\ DOMAIN events' = 1 .. last + 1 - drop
          /\ events'[last + 1 - drop] = event
          /\ \A k \in 1 .. last - drop : events'[k] = events[k + drop]
          /\ last - drop >= 0
    BY LogShifts
  <1>3. event.changes = changes
    OBVIOUS
  <1>. HIDE DEF last
  <1>4. floor <= floor'
    BY <1>1, <1>2
  <1>5. last + 1 - drop \in DOMAIN events' /\ \A m \in DOMAIN events' : m <= last + 1 - drop
    BY <1>1, <1>2
  <1>6. ASSUME NEW k \in DOMAIN events', events'[k] # event
        PROVE  \E j \in DOMAIN events :
                 /\ events[j] = events'[k]
                 /\ \A i \in Identities : LastIn(events', i, k) =>
                      LastIn(events, i, j) /\ i \notin DOMAIN changes
    <2>1. k # last + 1 - drop
      BY <1>2, <1>6
    <2>2. k \in 1 .. last - drop /\ k + drop \in 1 .. last /\ ~(last + 1 - drop <= k)
      BY <1>1, <1>2, <2>1
    <2>3. events'[k] = events[k + drop]
      BY <1>2, <2>2
    <2>4. ASSUME NEW i \in Identities, LastIn(events', i, k)
          PROVE  LastIn(events, i, k + drop) /\ i \notin DOMAIN changes
      <3>1. /\ i \in DOMAIN events'[k].changes
            /\ \A j \in DOMAIN events' : i \in DOMAIN events'[j].changes => j <= k
        BY <2>4 DEF LastIn
      <3>2. i \notin DOMAIN changes
        BY <1>2, <1>3, <1>5, <2>2, <3>1
      <3>3. ASSUME NEW j \in DOMAIN events, i \in DOMAIN events[j].changes
            PROVE  j <= k + drop
        <4>1. CASE j - drop \in 1 .. last - drop
          <5>1. (j - drop) + drop = j /\ j - drop \in DOMAIN events'
            BY <1>1, <1>2, <4>1
          <5>2. events'[j - drop] = events[j]
            BY <1>2, <4>1, <5>1
          <5>3. j - drop <= k
            BY <3>1, <3>3, <5>1, <5>2
          <5>4. QED
            BY <1>1, <1>2, <2>2, <5>3
        <4>2. CASE j - drop \notin 1 .. last - drop
          BY <1>1, <1>2, <2>2, <4>2
        <4>3. QED
          BY <4>1, <4>2
      <3>4. QED
        BY <1>1, <2>2, <2>3, <3>1, <3>2, <3>3 DEF LastIn
    <2>5. QED
      BY <1>1, <2>2, <2>3, <2>4
  <1>7. ASSUME NEW j \in DOMAIN events, NEW i \in Identities,
               LastIn(events, i, j), events[j].revision > floor'
        PROVE  \E k \in DOMAIN events' : LastIn(events', i, k) /\ events'[k] \in {event, events[j]}
    <2>1. /\ i \in DOMAIN events[j].changes
          /\ \A m \in DOMAIN events : i \in DOMAIN events[m].changes => m <= j
      BY <1>7 DEF LastIn
    <2>2. CASE i \in DOMAIN changes
      <3>1. LastIn(events', i, last + 1 - drop)
        BY <1>2, <1>3, <1>5, <2>2 DEF LastIn
      <3>2. QED
        BY <1>2, <1>5, <3>1
    <2>3. CASE i \notin DOMAIN changes
      <3>1. events[j].revision = floor + j /\ j \in 1 .. last
        BY <1>1
      <3>2. /\ j - drop \in 1 .. last - drop /\ (j - drop) + drop = j
            /\ j - drop \in 1 .. last + 1 - drop
        <4>1. floor + j > floor + drop
          BY <1>2, <1>7, <3>1
        <4>2. last \in Nat /\ floor \in Nat /\ drop \in {0, 1} /\ j \in 1 .. last
          BY <1>1
        <4>3. j > drop
          BY <4>1, <4>2
        <4>4. QED
          BY <4>2, <4>3
      <3>3. events'[j - drop] = events[j] /\ j - drop \in DOMAIN events'
        BY <1>2, <3>2
      <3>4. ASSUME NEW m \in DOMAIN events', i \in DOMAIN events'[m].changes
            PROVE  m <= j - drop
        <4>1. m # last + 1 - drop
          BY <1>2, <1>3, <2>3, <3>4
        <4>2. m \in 1 .. last - drop /\ m + drop \in DOMAIN events
          <5>1. m \in 1 .. last + 1 - drop /\ last \in Nat /\ drop \in {0, 1} /\ last - drop >= 0
            BY <1>1, <1>2
          <5>2. m \in 1 .. last - drop /\ m + drop \in 1 .. last
            BY <4>1, <5>1
          <5>3. QED
            BY <1>1, <5>2
        <4>3. events'[m] = events[m + drop]
          BY <1>2, <4>2
        <4>4. m + drop <= j
          BY <2>1, <3>4, <4>2, <4>3
        <4>5. QED
          BY <1>1, <1>2, <4>2, <4>4
      <3>5. LastIn(events', i, j - drop)
        BY <2>1, <3>3, <3>4 DEF LastIn
      <3>6. QED
        BY <3>3, <3>5
    <2>4. QED
      BY <2>2, <2>3
  <1>8. QED
    BY <1>4, <1>6, <1>7

(* A step that makes no revision in a terminal's name.                     *)
Foreign(s) ==
  \/ SameRevision
  \/ \E by \in SUBSET (Shells \X Operations), changes \in Changes :
       /\ \A op \in Operations : <<s, op>> \notin by
       /\ AppendRevision(by, changes, ApplyChanges(shared, changes))

LEMMA ForeignLog ==
  ASSUME HistoryTypes, HistoryTypes', LogInv, NEW s \in Shells, Foreign(s)
  PROVE  /\ floor <= floor'
         /\ \A k \in DOMAIN events' : By(s, events'[k]) =>
              \E j \in DOMAIN events :
                /\ events[j] = events'[k]
                /\ \A i \in Identities : LastIn(events', i, k) =>
                     LastIn(events, i, j) /\ shared'[i] = shared[i]
         /\ \A j \in DOMAIN events, i \in Identities :
              LastIn(events, i, j) /\ events[j].revision > floor' /\ ~By(s, events[j]) =>
                \E k \in DOMAIN events' :
                  /\ LastIn(events', i, k) /\ ~By(s, events'[k])
                  /\ events'[k].revision >= events[j].revision
  <1>0. /\ floor \in Nat /\ head \in Nat
        /\ \A j \in DOMAIN events : events[j].revision \in Nat /\ events[j].revision <= head
    <2>1. /\ floor \in Nat /\ head \in Nat /\ Len(events) \in Nat /\ DOMAIN events = 1 .. Len(events)
          /\ head = floor + Len(events) /\ \A j \in DOMAIN events : events[j].revision = floor + j
      BY DEF HistoryTypes, LogInv, EventsNumbered
    <2>2. ASSUME NEW j \in DOMAIN events PROVE floor + j \in Nat /\ floor + j <= head
      BY <2>1
    <2>3. QED
      BY <2>1, <2>2
  <1>1. CASE SameRevision
    <2>1. floor' = floor /\ events' = events /\ shared' = shared
      BY <1>1 DEF SameRevision
    <2>2. floor <= floor /\ \A j \in DOMAIN events : events[j].revision >= events[j].revision
      BY <1>0
    <2>3. QED
      BY <2>1, <2>2
  <1>2. ASSUME NEW by \in SUBSET (Shells \X Operations), NEW changes \in Changes,
               \A op \in Operations : <<s, op>> \notin by,
               AppendRevision(by, changes, ApplyChanges(shared, changes))
        PROVE  /\ floor <= floor'
               /\ \A k \in DOMAIN events' : By(s, events'[k]) =>
                    \E j \in DOMAIN events :
                      /\ events[j] = events'[k]
                      /\ \A i \in Identities : LastIn(events', i, k) =>
                           LastIn(events, i, j) /\ shared'[i] = shared[i]
               /\ \A j \in DOMAIN events, i \in Identities :
                    LastIn(events, i, j) /\ events[j].revision > floor' /\ ~By(s, events[j]) =>
                      \E k \in DOMAIN events' :
                        /\ LastIn(events', i, k) /\ ~By(s, events'[k])
                        /\ events'[k].revision >= events[j].revision
    <2>. PICK event : event = [revision |-> head + 1, by |-> by, changes |-> changes]
      OBVIOUS
    <2>1. ApplyChanges(shared, changes) \in Snapshot
      BY ApplyChangesType DEF HistoryTypes
    <2>2. shared' = ApplyChanges(shared, changes)
      BY <1>2 DEF AppendRevision
    <2>3. event.revision = head + 1 /\ ~By(s, event)
      BY <1>2 DEF By
    <2>4. /\ floor <= floor'
          /\ \A k \in DOMAIN events' :
               \/ events'[k] = event
               \/ \E j \in DOMAIN events :
                    /\ events[j] = events'[k]
                    /\ \A i \in Identities : LastIn(events', i, k) =>
                         LastIn(events, i, j) /\ i \notin DOMAIN changes
          /\ \A j \in DOMAIN events, i \in Identities :
               LastIn(events, i, j) /\ events[j].revision > floor' =>
                 \E k \in DOMAIN events' :
                   LastIn(events', i, k) /\ events'[k] \in {event, events[j]}
      BY <1>2, <2>1, LastShifts
    <2>5. \A i \in Identities : i \notin DOMAIN changes => shared'[i] = shared[i]
      BY <2>2 DEF ApplyChanges
    <2>6. \A j \in DOMAIN events :
            event.revision >= events[j].revision /\ events[j].revision >= events[j].revision
      BY <1>0, <2>3
    <2>7. \A k \in DOMAIN events' : By(s, events'[k]) =>
            \E j \in DOMAIN events :
              /\ events[j] = events'[k]
              /\ \A i \in Identities : LastIn(events', i, k) =>
                   LastIn(events, i, j) /\ shared'[i] = shared[i]
      BY <2>3, <2>4, <2>5
    <2>8. \A j \in DOMAIN events, i \in Identities :
            LastIn(events, i, j) /\ events[j].revision > floor' /\ ~By(s, events[j]) =>
              \E k \in DOMAIN events' :
                /\ LastIn(events', i, k) /\ ~By(s, events'[k])
                /\ events'[k].revision >= events[j].revision
      BY <2>3, <2>4, <2>6
    <2>9. QED
      BY <2>4, <2>7, <2>8
  <1>3. QED
    BY <1>1, <1>2 DEF Foreign

(* Whoever else makes a revision, what a terminal was the last to change   *)
(* stays what it is seen to hold.                                          *)
LEMMA OwnKept ==
  ASSUME HistoryTypes, HistoryTypes', LogInv, NEW s \in Shells, Foreign(s), OwnInv(s),
         s \in Attached' => s \in Attached,
         s \in Attached =>
           /\ s \in Attached'
           /\ shells'[s].captureBaseline = shells[s].captureBaseline
           /\ shells'[s].unpublished = shells[s].unpublished
           /\ shells'[s].pending = shells[s].pending
  PROVE  OwnInv(s)'
  <1>1. \A k \in DOMAIN events' : By(s, events'[k]) =>
          \E j \in DOMAIN events :
            /\ events[j] = events'[k]
            /\ \A i \in Identities : LastIn(events', i, k) =>
                 LastIn(events, i, j) /\ shared'[i] = shared[i]
    BY ForeignLog
  <1>2. CASE s \notin Attached
    <2>1. \A k \in DOMAIN events' : ~By(s, events'[k])
      BY <1>1, <1>2 DEF OwnInv
    <2>2. s \notin Attached'
      BY <1>2
    <2>3. QED
      BY <2>1, <2>2 DEF OwnInv
  <1>3. CASE s \in Attached
    <2>1. Owns(s, shells[s], events, shared)
      BY <1>3 DEF OwnInv
    <2>2. Owns(s, shells'[s], events', shared')
      BY <1>1, <1>3, <2>1 DEF Owns
    <2>3. QED
      BY <1>3, <2>2 DEF OwnInv
  <1>4. QED
    BY <1>2, <1>3

LEMMA SameRecordOwn ==
  ASSUME HistoryTypes, LogInv, NEW s \in Shells, s \in Attached, s \in Attached', OwnInv(s), SameRevision,
         shells'[s].captureBaseline = shells[s].captureBaseline,
         shells'[s].unpublished = shells[s].unpublished,
         \/ shells'[s].pending \in {shells[s].pending, NoPending}
         \/ shells'[s].pending.revision = head
  PROVE  OwnInv(s)'
  <1>1. events' = events /\ shared' = shared
    BY DEF SameRevision
  <1>2. \A k \in DOMAIN events : events[k].revision <= head
    <2>1. /\ floor \in Nat /\ head \in Nat /\ Len(events) \in Nat /\ DOMAIN events = 1 .. Len(events)
          /\ head = floor + Len(events) /\ \A j \in DOMAIN events : events[j].revision = floor + j
      BY DEF HistoryTypes, LogInv, EventsNumbered
    <2>2. ASSUME NEW j \in DOMAIN events PROVE floor + j <= head
      BY <2>1
    <2>3. QED
      BY <2>1, <2>2
  <1>3. Owns(s, shells[s], events, shared)
    BY DEF OwnInv
  <1>4. Owns(s, shells'[s], events, shared)
    BY <1>2, <1>3 DEF Owns
  <1>5. QED
    BY <1>1, <1>4 DEF OwnInv

LEMMA AttachOwn ==
  ASSUME Service, Service', NEW s \in Shells, NEW op, NEW initial, Attach(s, op, initial), OwnInv(s)
  PROVE  OwnInv(s)'
  <1>1. s \notin Attached /\ events' = events
    BY DEF Attach, Attached, SameRevision
  <1>2. \A k \in DOMAIN events' : ~By(s, events'[k])
    BY <1>1 DEF OwnInv
  <1>3. Owns(s, shells'[s], events', shared')
    BY <1>2 DEF Owns
  <1>4. QED
    BY <1>2, <1>3 DEF OwnInv

LEMMA PrepareOwn ==
  ASSUME Service, NEW s \in Shells, s \in Attached', NEW op, NEW applied,
         PreparePull(s, op, applied), OwnInv(s)
  PROVE  OwnInv(s)'
  <1>1. SameRevision /\ HistoryTypes /\ LogInv
    BY DEF PreparePull, Service, TypeInv, HistoryInv
  <1>2. /\ s \in Attached
        /\ shells'[s].captureBaseline = shells[s].captureBaseline
        /\ shells'[s].unpublished = shells[s].unpublished
        /\ \/ shells'[s].pending = NoPending
           \/ shells'[s].pending = [kind |-> "pull", revision |-> head, fingerprint |-> shared,
                                    token |-> NewToken("pull", op, head)]
    BY PrepareRecord
  <1>3. QED
    BY <1>1, <1>2, SameRecordOwn

LEMMA ResolveOwn ==
  ASSUME Service, NEW s \in Shells, s \in Attached', NEW op, NEW identity, NEW token, NEW snap,
         ResolveShared(s, op, identity, token, snap), OwnInv(s)
  PROVE  OwnInv(s)'
  <1>1. SameRevision /\ HistoryTypes /\ LogInv
    BY DEF ResolveShared, Service, TypeInv, HistoryInv
  <1>2. /\ s \in Attached
        /\ shells'[s].captureBaseline = shells[s].captureBaseline
        /\ shells'[s].unpublished = shells[s].unpublished
        /\ \/ shells'[s].pending = shells[s].pending
           \/ shells'[s].pending = [kind |-> "resolution", revision |-> head, fingerprint |-> shared,
                                    token |-> token]
    BY ResolveRecord
  <1>3. QED
    BY <1>1, <1>2, SameRecordOwn

(* What no event after a revision touches is shared as that revision has it. *)
LEMMA UntouchedSince ==
  ASSUME HistoryTypes, LogInv, NEW r \in 1 .. head, floor <= r, NEW i \in Identities,
         \A k \in DOMAIN events : i \in DOMAIN events[k].changes => events[k].revision <= r
  PROVE  \A q \in r .. head : generations[q][i] = shared[i]
  <1>1. /\ head \in Nat /\ head # 0 /\ shared = generations[head] /\ r \in Nat \ {0} /\ head \in r .. head
        /\ \A k \in DOMAIN events : events[k].revision \in Nat
    <2>1. head \in Nat /\ floor \in Nat /\ \A k \in DOMAIN events : events[k].revision = floor + k /\ k \in Nat
      BY DEF HistoryTypes, LogInv, EventsNumbered
    <2>2. head # 0 /\ r \in Nat \ {0} /\ head \in r .. head
      BY <2>1
    <2>3. QED
      BY <2>1, <2>2 DEF LogInv
  <1>2. i \notin ChangedIdentitiesAfter(r)
    <2>1. \A k \in DOMAIN events : i \in DOMAIN events[k].changes => ~(events[k].revision > r)
      BY <1>1
    <2>2. QED
      BY <2>1 DEF ChangedIdentitiesAfter
  <1>3. ~ChangedBetween(i, r, head)
    BY <1>1, <1>2, UnnamedIsUnchanged
  <1>4. generations[head][i] = generations[r][i]
    BY <1>1, <1>3, NothingChanged
  <1>5. ASSUME NEW q \in r .. head PROVE generations[q][i] = generations[r][i]
    BY <1>1, <1>3, NothingChanged
  <1>6. QED
    BY <1>1, <1>4, <1>5

(* A confirmed terminal has what it published last, because it published   *)
(* nothing since its target was made.                                      *)
LEMMA AcknowledgeOwn ==
  ASSUME Service, NEW s \in Shells, s \in Attached', NEW op, NEW revision, NEW token, NEW snap,
         Acknowledge(s, op, revision, token, snap), OwnInv(s)
  PROVE  OwnInv(s)'
  <1>1. SameRevision /\ HistoryTypes /\ LogInv /\ events' = events /\ shared' = shared
    BY DEF Acknowledge, Service, TypeInv, HistoryInv, SameRevision
  <1>2. /\ s \in Attached /\ revision \in 1 .. head /\ AdmittedSnapshot(s, snap) = generations[revision]
        /\ \/ UNCHANGED <<shells, receipts>>
           \/ /\ shells'[s].pending = NoPending
              /\ shells'[s].captureBaseline = AdmittedSnapshot(s, snap)
              /\ shells[s].pending # NoPending /\ shells[s].pending.revision = revision
    BY AcknowledgeRecord
  <1>3. Owns(s, shells[s], events, shared)
    BY <1>2 DEF OwnInv
  <1>4. CASE UNCHANGED <<shells, receipts>>
    BY <1>1, <1>2, <1>4, SameRecordOwn
  <1>5. CASE /\ shells'[s].pending = NoPending
             /\ shells'[s].captureBaseline = AdmittedSnapshot(s, snap)
             /\ shells[s].pending # NoPending /\ shells[s].pending.revision = revision
    <2>1. ASSUME NEW k \in DOMAIN events, NEW i \in Identities, By(s, events[k]), LastIn(events, i, k)
          PROVE  generations[revision][i] = shared[i]
      <3>1. events[k].revision <= revision
        BY <1>3, <1>5, <2>1 DEF Owns
      <3>2. /\ \A j \in DOMAIN events : events[j].revision = floor + j /\ j \in Nat
            /\ floor \in Nat /\ head \in Nat
        BY <1>1 DEF HistoryTypes, LogInv, EventsNumbered
      <3>3. floor <= revision /\ floor + k <= revision
        BY <1>2, <3>1, <3>2
      <3>4. ASSUME NEW j \in DOMAIN events, i \in DOMAIN events[j].changes
            PROVE  events[j].revision <= revision
        <4>1. j <= k
          BY <2>1, <3>4 DEF LastIn
        <4>2. QED
          BY <1>2, <3>2, <3>3, <4>1
      <3>5. \A q \in revision .. head : generations[q][i] = shared[i]
        BY <1>1, <1>2, <3>3, <3>4, UntouchedSince
      <3>6. revision \in revision .. head
        BY <1>2, <3>2
      <3>7. QED
        BY <3>5, <3>6
    <2>2. Owns(s, shells'[s], events, shared)
      BY <1>2, <1>5, <2>1 DEF Owns
    <2>3. QED
      BY <1>1, <2>2 DEF OwnInv
  <1>6. QED
    BY <1>2, <1>4, <1>5

(* What a publication makes of the terminal's side: it is shared now, or   *)
(* it is kept.                                                             *)
LEMMA PublishOwn ==
  ASSUME Service, HistoryTypes', NEW s \in Shells, s \in Attached', NEW op \in Operations,
         NEW ack \in Nat, NEW delta \in Changes, Publish(s, op, ack, delta), OwnInv(s)
  PROVE  OwnInv(s)'
  <1>. DEFINE observed == Observed(s, delta)
              wanted == Wanted(s, observed)
              losing == Losing(ack, wanted)
              accepted == wanted \ losing
              mine == Only(observed, accepted)
  <1>1. HistoryTypes /\ LogInv
    BY DEF Service, TypeInv, HistoryInv
  <1>2. /\ shells[s] \in ShellState /\ s \in Attached /\ shells[s].unpublished = NoChanges
        /\ shells'[s].pending = NoPending /\ shells'[s].captureBaseline = observed
        /\ shells'[s].unpublished = Only(observed, losing)
    BY PublishRecord
  <1>3. observed \in Snapshot
    BY <1>2, OnlyType, ApplyChangesType DEF Observed, ShellState
  <1>4. /\ \A i \in Identities : i \in wanted <=>
               shells[s].captureBaseline[i] # observed[i] /\ observed[i] # shared[i]
        /\ wanted \in SUBSET Identities /\ losing \in SUBSET wanted
    <2>1. shells[s].captureBaseline \in Snapshot
      BY <1>2 DEF ShellState
    <2>2. DOMAIN DiffSnapshot(shells[s].captureBaseline, observed) =
            {i \in Identities : shells[s].captureBaseline[i] # observed[i]}
      BY <1>3, <2>1, DiffSnapshotType
    <2>3. wanted = {i \in {j \in Identities : shells[s].captureBaseline[j] # observed[j]} :
                      observed[i] # shared[i]}
      BY <2>2 DEF Wanted
    <2>. HIDE DEF observed, wanted
    <2>4. losing \in SUBSET wanted
      BY DEF Losing
    <2>5. QED
      BY <2>3, <2>4
  <1>5. \/ accepted = {} /\ SameRevision
        \/ AppendRevision({<<s, op>>}, mine, ApplyChanges(shared, mine))
    BY DEF Publish
  <1>. HIDE DEF observed, wanted, losing
  <1>6. /\ mine \in Changes /\ ApplyChanges(shared, mine) \in Snapshot
        /\ DOMAIN mine = accepted /\ \A i \in accepted : mine[i] = observed[i]
    <2>1. mine \in Changes
      BY <1>3, OnlyType
    <2>2. DOMAIN observed = Identities
      BY <1>3 DEF Snapshot
    <2>3. QED
      BY <1>1, <1>4, <2>1, <2>2, ApplyChangesType DEF HistoryTypes, Only
  <1>7. DOMAIN Only(observed, losing) = losing
    BY <1>3, <1>4 DEF Snapshot, Only
  <1>8. Owns(s, shells[s], events, shared)
    BY <1>2 DEF OwnInv
  <1>9. ASSUME NEW k \in DOMAIN events', NEW i \in Identities,
               By(s, events'[k]), LastIn(events', i, k), i \notin losing
        PROVE  observed[i] = shared'[i]
    <2>1. CASE i \in accepted
      <3>1. shared' = ApplyChanges(shared, mine)
        BY <1>5, <2>1 DEF AppendRevision
      <3>2. QED
        BY <1>6, <2>1, <3>1 DEF ApplyChanges
    <2>2. CASE i \notin accepted
      <3>1. shared'[i] = shared[i]
        BY <1>5, <1>6, <2>2 DEF AppendRevision, ApplyChanges, SameRevision
      <3>2. \E j \in DOMAIN events : By(s, events[j]) /\ LastIn(events, i, j)
        <4>1. CASE accepted = {} /\ SameRevision
          BY <1>9, <4>1 DEF SameRevision
        <4>2. CASE AppendRevision({<<s, op>>}, mine, ApplyChanges(shared, mine))
          <5>. PICK event : event = [revision |-> head + 1, by |-> {<<s, op>>}, changes |-> mine]
            OBVIOUS
          <5>1. \/ events'[k] = event
                \/ \E j \in DOMAIN events :
                     events[j] = events'[k] /\ (LastIn(events', i, k) => LastIn(events, i, j))
            BY <1>1, <1>6, <4>2, LastShifts
          <5>2. events'[k] # event
            BY <1>6, <1>9, <2>2 DEF LastIn
          <5>3. QED
            BY <1>9, <5>1, <5>2
        <4>3. QED
          BY <1>5, <4>1, <4>2
      <3>3. shells[s].captureBaseline[i] = shared[i]
        BY <1>2, <1>8, <3>2 DEF Owns, NoChanges
      <3>4. i \notin wanted
        BY <1>9, <2>2
      <3>5. QED
        BY <1>4, <3>1, <3>3, <3>4
    <2>3. QED
      BY <2>1, <2>2
  <1>10. Owns(s, shells'[s], events', shared')
    BY <1>2, <1>7, <1>9 DEF Owns
  <1>11. QED
    BY <1>10 DEF OwnInv

LEMMA UnchangedOwn ==
  ASSUME NEW s \in Shells, UNCHANGED vars, OwnInv(s)
  PROVE  OwnInv(s)' /\ SameRevision
  <1>1. UNCHANGED <<head, shared, floor, baseline, events, generations, shells>>
    BY DEF vars, state
  <1>2. Attached' = Attached
    BY <1>1 DEF Attached
  <1>3. QED
    BY <1>1, <1>2 DEF OwnInv, SameRevision

LEMMA OwnStepOwn ==
  ASSUME ShellInv, NEW s \in Shells, TerminalStep(s), OwnInv(s)
  PROVE  OwnInv(s)'
  <1>1. HookTypes /\ HookInv /\ Service /\ Service' /\ HistoryTypes'
    BY TerminalAlone DEF ShellInv, HookInv, Service, TypeInv
  <1>2. s \in Attached => s \in Attached'
    BY TerminalAlone DEF OnlyShell
  <1>3. CASE AttachTerminal(s)
    <2>. DEFINE op == Retained(terminals[s].attachOp, s)
                initial == AttachInitial(s)
    <2>1. AdapterAttach(s, op, initial) \/ UNCHANGED vars
      BY <1>1, <1>3, AttachOutcome
    <2>. HIDE DEF op, initial
    <2>2. QED
      BY <1>1, <2>1, AttachOwn, UnchangedOwn DEF AdapterAttach
  <1>4. CASE PublishTerminal(s)
    <2>. DEFINE op == NewOperation(s)
    <2>1. /\ AdapterPublish(s, op) \/ UNCHANGED vars
          /\ op \in Operations /\ terminals[s].baseline # NoBaseline
      BY <1>1, <1>4, PublishOutcome
    <2>. HIDE DEF op
    <2>2. CASE AdapterPublish(s, op)
      <3>. DEFINE ack == terminals[s].applied
                  delta == DiffSnapshot(terminals[s].baseline, env[s])
      <3>1. ack \in Nat /\ delta \in Changes /\ Publish(s, op, ack, delta)
        BY <1>1, <2>1, <2>2, AdapterPublishServed DEF HookTypes, Terminal, AdapterPublish
      <3>. HIDE DEF ack, delta
      <3>2. s \in Attached'
        BY <1>1, <1>2, <3>1, PublishRecord
      <3>3. QED
        BY <1>1, <2>1, <3>1, <3>2, PublishOwn
    <2>3. QED
      BY <2>1, <2>2, UnchangedOwn
  <1>5. CASE PullTerminal(s)
    <2>. DEFINE op == Retained(terminals[s].prepareOp, s)
                applied == terminals[s].applied
    <2>1. AdapterPrepare(s, op) \/ UNCHANGED vars
      BY <1>1, <1>5, PullOutcome
    <2>. HIDE DEF op
    <2>2. PreparePull(s, op, applied) \/ UNCHANGED vars
      BY <2>1 DEF AdapterPrepare
    <2>. HIDE DEF applied
    <2>3. CASE PreparePull(s, op, applied)
      <3>1. s \in Attached'
        BY <1>1, <1>2, <2>3, PrepareRecord
      <3>2. QED
        BY <1>1, <2>3, <3>1, PrepareOwn
    <2>4. QED
      BY <2>2, <2>3, UnchangedOwn
  <1>6. CASE ResolveTerminal(s)
    <2>. DEFINE op == Retained(terminals[s].resolveOp, s)
                identity == terminals[s].conflict.identity
                token == terminals[s].conflict.token
                snap == env[s]
    <2>1. ResolveShared(s, op, identity, token, snap) \/ UNCHANGED vars
      BY <1>1, <1>6, ResolveOutcome DEF AdapterResolve
    <2>. HIDE DEF op, identity, token, snap
    <2>2. CASE ResolveShared(s, op, identity, token, snap)
      <3>1. s \in Attached'
        BY <1>1, <1>2, <2>2, ResolveRecord
      <3>2. QED
        BY <1>1, <2>2, <3>1, ResolveOwn
    <2>3. QED
      BY <2>1, <2>2, UnchangedOwn
  <1>7. CASE AcknowledgeTerminal(s)
    <2>. DEFINE op == Retained(terminals[s].ackOp, s)
                revision == terminals[s].reply.revision
                token == terminals[s].reply.token
                snap == env[s]
    <2>1. Acknowledge(s, op, revision, token, snap) \/ UNCHANGED vars
      BY <1>1, <1>7, AcknowledgeOutcome DEF AdapterAcknowledge
    <2>. HIDE DEF op, revision, token, snap
    <2>2. CASE Acknowledge(s, op, revision, token, snap)
      <3>1. s \in Attached'
        BY <1>1, <1>2, <2>2, AcknowledgeRecord
      <3>2. QED
        BY <1>1, <2>2, <3>1, AcknowledgeOwn
    <2>3. QED
      BY <2>1, <2>2, UnchangedOwn
  <1>8. CASE EditEnvironment(s) \/ DeferPull(s) \/ ApplyTransition(s) \/ Deactivate(s)
    <2>1. UNCHANGED vars
      BY <1>8 DEF EditEnvironment, DeferPull, ApplyTransition, Deactivate
    <2>2. QED
      BY <2>1, UnchangedOwn
  <1>9. QED
    BY <1>3, <1>4, <1>5, <1>6, <1>7, <1>8 DEF TerminalStep

(* A revision that one terminal makes is not another's.                    *)
LEMMA PublishForeign ==
  ASSUME Service, NEW s \in Shells, NEW op \in Operations, NEW ack, NEW delta \in Changes,
         Publish(s, op, ack, delta), NEW u \in Shells \ {s}
  PROVE  Foreign(u)
  <1>. DEFINE observed == Observed(s, delta)
              accepted == Wanted(s, observed) \ Losing(ack, Wanted(s, observed))
              mine == Only(observed, accepted)
  <1>1. shells[s] \in ShellState
    BY PublishRecord
  <1>2. observed \in Snapshot
    BY <1>1, OnlyType, ApplyChangesType DEF Observed, ShellState
  <1>3. SameRevision \/ AppendRevision({<<s, op>>}, mine, ApplyChanges(shared, mine))
    BY DEF Publish
  <1>. HIDE DEF observed, accepted
  <1>4. mine \in Changes
    BY <1>2, OnlyType
  <1>. HIDE DEF mine
  <1>5. /\ {<<s, op>>} \in SUBSET (Shells \X Operations)
        /\ \A o \in Operations : <<u, o>> \notin {<<s, op>>}
    OBVIOUS
  <1>6. QED
    BY <1>3, <1>4, <1>5 DEF Foreign

LEMMA StepForeign ==
  ASSUME ShellInv, NEW s \in Shells, TerminalStep(s), NEW u \in Shells \ {s}
  PROVE  Foreign(u)
  <1>1. HookTypes /\ HookInv /\ Service
    BY DEF ShellInv, HookInv
  <1>2. UNCHANGED vars => SameRevision
    BY DEF vars, state, SameRevision
  <1>3. CASE AttachTerminal(s)
    <2>1. SameRevision
      BY <1>1, <1>2, <1>3, AttachOutcome DEF AdapterAttach, Attach
    <2>2. QED
      BY <2>1 DEF Foreign
  <1>4. CASE PublishTerminal(s)
    <2>. DEFINE op == NewOperation(s)
    <2>1. /\ AdapterPublish(s, op) \/ UNCHANGED vars
          /\ op \in Operations /\ terminals[s].baseline # NoBaseline
      BY <1>1, <1>4, PublishOutcome
    <2>. HIDE DEF op
    <2>2. CASE AdapterPublish(s, op)
      BY <1>1, <2>1, <2>2, AdapterPublishServed, PublishForeign DEF AdapterPublish
    <2>3. QED
      BY <1>2, <2>1, <2>2 DEF Foreign
  <1>5. CASE PullTerminal(s)
    <2>. PICK op : AdapterPrepare(s, op) \/ UNCHANGED vars
      BY <1>1, <1>5, PullOutcome
    <2>1. SameRevision
      BY <1>2 DEF AdapterPrepare, PreparePull
    <2>2. QED
      BY <2>1 DEF Foreign
  <1>6. CASE ResolveTerminal(s)
    <2>. PICK op : AdapterResolve(s, op) \/ UNCHANGED vars
      BY <1>1, <1>6, ResolveOutcome
    <2>1. SameRevision
      BY <1>2 DEF AdapterResolve, ResolveShared
    <2>2. QED
      BY <2>1 DEF Foreign
  <1>7. CASE AcknowledgeTerminal(s)
    <2>1. SameRevision
      BY <1>1, <1>2, <1>7, AcknowledgeOutcome DEF AdapterAcknowledge, Acknowledge
    <2>2. QED
      BY <2>1 DEF Foreign
  <1>8. CASE EditEnvironment(s) \/ DeferPull(s) \/ ApplyTransition(s) \/ Deactivate(s)
    <2>1. UNCHANGED vars
      BY <1>8 DEF EditEnvironment, DeferPull, ApplyTransition, Deactivate
    <2>2. QED
      BY <1>2, <2>1 DEF Foreign
  <1>9. QED
    BY <1>3, <1>4, <1>5, <1>6, <1>7, <1>8 DEF TerminalStep

(* A reset is nobody's, and leads to the committed projection.             *)
LEMMA ResetForeign ==
  ASSUME Service, ResetHard, NEW u \in Shells
  PROVE  Foreign(u)
  <1>. DEFINE document == objects[baseOID].document
              projection == document.projection
              changes == DiffSnapshot(shared, projection)
  <1>1. materialized /\ (SameRevision \/ AppendRevision({}, changes, projection))
    BY DEF ResetHard, ReplaceGeneration
  <1>2. document = committed /\ projection = committed.projection
    BY <1>1 DEF Service, BaseIsCommitted
  <1>3. committed \in Document
    BY DEF Service, TypeInv, BaseTypes
  <1>4. projection \in Snapshot /\ shared \in Snapshot
    BY <1>2, <1>3 DEF Document, Service, TypeInv, HistoryTypes
  <1>. HIDE DEF document, projection
  <1>5. changes \in Changes /\ ApplyChanges(shared, changes) = projection
    BY <1>4, DiffSnapshotType, ApplyDiff
  <1>. HIDE DEF changes
  <1>6. {} \in SUBSET (Shells \X Operations) /\ \A op \in Operations : <<u, op>> \notin {}
    OBVIOUS
  <1>7. QED
    BY <1>1, <1>5, <1>6 DEF Foreign

(* What makes the first generation, or another, elsewhere.                 *)
LEMMA ElsewhereForeign ==
  ASSUME ShellInv, FirstGeneration \/ ResetElsewhere, NEW u \in Shells
  PROVE  \/ Foreign(u)
         \/ /\ Attached = {} /\ Attached' = {}
            /\ \A k \in DOMAIN events' : ~By(u, events'[k])
  <1>1. Service
    BY DEF ShellInv
  <1>2. CASE \E profile \in Profiles : Ingest(profile)
    <2>1. SameRevision
      BY <1>2 DEF Ingest, state, SameRevision
    <2>2. QED
      BY <2>1 DEF Foreign
  <1>3. CASE \E oid \in 1 .. MaxObjects : Materialize(oid)
    <2>1. /\ UNCHANGED shells /\ ~materialized
          /\ \E document : events' = <<[revision |-> 1, by |-> {},
                                        changes |-> DiffSnapshot(EmptySnapshot, document.projection)]>>
      BY <1>3 DEF Materialize
    <2>2. Attached = {} /\ Attached' = {}
      BY <1>1, <2>1 DEF Service, HistoryInv, Started, Attached
    <2>3. ASSUME NEW changes, events' = <<[revision |-> 1, by |-> {}, changes |-> changes]>>,
                 NEW k \in DOMAIN events'
          PROVE  ~By(u, events'[k])
      <3>1. k = 1
        BY <2>3
      <3>2. events'[k] = [revision |-> 1, by |-> {}, changes |-> changes]
        BY <2>3, <3>1
      <3>3. QED
        BY <3>2 DEF By
    <2>4. QED
      BY <2>1, <2>2, <2>3
  <1>4. CASE ResetHard
    BY <1>1, <1>4, ResetForeign
  <1>5. QED
    BY <1>2, <1>3, <1>4 DEF FirstGeneration, ResetElsewhere

LEMMA ElsewhereRecord ==
  ASSUME ShellInv, FirstGeneration \/ ResetElsewhere, NEW s \in Shells
  PROVE  /\ s \in Attached' <=> s \in Attached
         /\ s \in Attached =>
              /\ shells'[s].captureBaseline = shells[s].captureBaseline
              /\ shells'[s].unpublished = shells[s].unpublished
              /\ shells'[s].pending = shells[s].pending
              /\ shells'[s].appliedRevision = shells[s].appliedRevision
  <1>1. /\ shells'[s] # NotAttached =>
             shells[s] # NotAttached /\ \E flag : shells'[s] = [shells[s] EXCEPT !.behind = flag]
        /\ shells'[s] = NotAttached => shells[s] = NotAttached
    BY ElsewhereAlone
  <1>2. s \in Attached => shells[s] \in ShellState
    BY DEF ShellInv, Service, TypeInv, ShellTypes, Attached
  <1>3. ASSUME s \in Attached, NEW flag, shells'[s] = [shells[s] EXCEPT !.behind = flag]
        PROVE  /\ shells'[s].captureBaseline = shells[s].captureBaseline
               /\ shells'[s].unpublished = shells[s].unpublished
               /\ shells'[s].pending = shells[s].pending
               /\ shells'[s].appliedRevision = shells[s].appliedRevision
    BY <1>2, <1>3 DEF ShellState
  <1>4. QED
    BY <1>1, <1>3 DEF Attached

OwnsInv == \A s \in Shells : OwnInv(s)

LEMMA OwnNext ==
  ASSUME ShellInv, OwnsInv, [ShellNext]_allVars
  PROVE  OwnsInv'
  <1>1. HistoryTypes /\ HistoryTypes' /\ LogInv
    BY ShellSteps DEF ShellInv, Service, TypeInv, HistoryInv
  <1>2. CASE UNCHANGED allVars
    <2>1. UNCHANGED vars
      BY <1>2 DEF allVars
    <2>2. QED
      BY <2>1, UnchangedOwn DEF OwnsInv
  <1>3. CASE FirstGeneration \/ ResetElsewhere
    <2>1. ASSUME NEW s \in Shells PROVE OwnInv(s)'
      <3>1. CASE Foreign(s)
        BY <1>1, <1>3, <3>1, ElsewhereRecord, OwnKept DEF OwnsInv
      <3>2. CASE /\ Attached = {} /\ Attached' = {}
                 /\ \A k \in DOMAIN events' : ~By(s, events'[k])
        BY <3>2 DEF OwnInv
      <3>3. QED
        BY <1>3, <3>1, <3>2, ElsewhereForeign
    <2>2. QED
      BY <2>1 DEF OwnsInv
  <1>4. ASSUME NEW s \in Shells, TerminalStep(s)
        PROVE  OwnsInv'
    <2>1. \A u \in Shells \ {s} : shells'[u] = shells[u]
      BY <1>4, TerminalAlone DEF OnlyShell
    <2>2. ASSUME NEW u \in Shells PROVE OwnInv(u)'
      <3>1. CASE u = s
        BY <1>4, <3>1, OwnStepOwn DEF OwnsInv
      <3>2. CASE u # s
        <4>1. Foreign(u)
          BY <1>4, <3>2, StepForeign
        <4>2. shells'[u] = shells[u] /\ (u \in Attached' <=> u \in Attached)
          BY <2>1, <3>2 DEF Attached
        <4>3. QED
          BY <1>1, <4>1, <4>2, OwnKept DEF OwnsInv
      <3>3. QED
        BY <3>1, <3>2
    <2>3. QED
      BY <2>2 DEF OwnsInv
  <1>5. QED
    BY <1>2, <1>3, <1>4, StepCases DEF TerminalStep

LEMMA OwnStart == ShellInit => OwnsInv
  <1>. SUFFICES ASSUME ShellInit, NEW s \in Shells PROVE OwnInv(s)
    BY DEF OwnsInv
  <1>1. events = <<>> /\ shells[s] = NotAttached
    BY DEF ShellInit, Init
  <1>2. DOMAIN events = {}
    BY <1>1
  <1>3. QED
    BY <1>1, <1>2 DEF OwnInv, Attached

-------------------------------------------------------------------------------
(* While nothing failed                                                    *)

LEMMA LastElsewhere ==
  ASSUME NEW s \in Shells, NEW i \in Identities, NEW k, LastIn(events, i, k),
         events[k].revision > terminals[s].applied, ~By(s, events[k])
  PROVE  ChangedElsewhere(s, i)
  BY DEF ChangedElsewhere, LastIn, By

LEMMA ElsewhereLast ==
  ASSUME NEW s \in Shells, NEW i \in Identities, ChangedElsewhere(s, i)
  PROVE  \E k \in DOMAIN events :
           /\ LastIn(events, i, k) /\ events[k].revision > terminals[s].applied
           /\ ~By(s, events[k])
  BY DEF ChangedElsewhere, LastIn, By

(* The service has not heard the last of what a pull brings: the terminal  *)
(* held the generation it applied, and what it published is shared still.  *)
LEMMA PrepareNews ==
  ASSUME ShellInv, NEW s \in Shells, OwnInv(s), NEW op, NEW applied,
         PreparePull(s, op, applied), shells[s].appliedRevision = applied,
         terminals[s].applied = applied
  PROVE  News(s, DOMAIN DiffSnapshot(shells[s].captureBaseline, shared))
  <1>. PICK shell : shell = shells[s]
    OBVIOUS
  <1>1. /\ shell \in ShellState /\ s \in Attached /\ shell.unpublished = NoChanges
    BY PrepareRecord DEF ShellInv
  <1>2. /\ HistoryTypes /\ LogInv /\ head \in Nat
        /\ ShellHistory(shell, head, generations) /\ Remembers(shell, head, generations)
        /\ Owns(s, shell, events, shared)
    BY <1>1 DEF ShellInv, Service, TypeInv, HistoryInv, HistoryTypes, ShellsInv, ValidInv, RecordsInv, OwnInv
  <1>3. applied \in Nat /\ applied <= head
    BY <1>1, <1>2 DEF ShellState, ShellHistory
  <1>4. ASSUME applied # 0, floor <= applied, NEW i \in Identities, shell.captureBaseline[i] # shared[i]
        PROVE  ChangedElsewhere(s, i)
    <2>1. i \notin DOMAIN shell.unpublished
      BY <1>1 DEF NoChanges
    <2>2. \E r \in applied .. head : shell.captureBaseline[i] = generations[r][i]
      BY <1>1, <1>2, <1>4, <2>1, CapturedHeld
    <2>3. ~(\A q \in applied .. head : generations[q][i] = shared[i])
      BY <1>4, <2>2
    <2>4. applied \in 1 .. head
      BY <1>2, <1>3, <1>4
    <2>5. PICK j \in DOMAIN events : i \in DOMAIN events[j].changes /\ ~(events[j].revision <= applied)
      BY <1>2, <1>4, <2>3, <2>4, UntouchedSince
    <2>. DEFINE T == {k \in DOMAIN events : i \in DOMAIN events[k].changes}
    <2>6. /\ Len(events) \in Nat /\ DOMAIN events = 1 .. Len(events) /\ floor \in Nat
          /\ \A k \in DOMAIN events : events[k].revision = floor + k
      BY <1>2 DEF HistoryTypes, LogInv, EventsNumbered
    <2>7. T \in SUBSET (1 .. Len(events)) /\ T # {}
      BY <2>5, <2>6
    <2>8. PICK k \in T : \A m \in T : m <= k
      <3>. HIDE DEF T
      <3>1. QED
        BY <2>6, <2>7, LastExists
    <2>9. LastIn(events, i, k) /\ k \in DOMAIN events /\ j <= k
      BY <2>5, <2>8 DEF LastIn
    <2>10. events[k].revision > applied
      <3>1. events[k].revision = floor + k /\ events[j].revision = floor + j
        BY <2>6, <2>9
      <3>2. j \in Nat /\ k \in Nat
        BY <2>6, <2>9
      <3>3. ~(floor + j <= applied)
        BY <2>5, <3>1
      <3>4. floor + k > applied
        BY <1>3, <2>6, <2>9, <3>2, <3>3
      <3>5. QED
        BY <3>1, <3>4
    <2>11. ~By(s, events[k])
      BY <1>2, <1>4, <2>1, <2>9 DEF Owns
    <2>12. QED
      BY <2>9, <2>10, <2>11, LastElsewhere
  <1>5. shell.captureBaseline \in Snapshot /\ shared \in Snapshot
    BY <1>1, <1>2 DEF ShellState, HistoryTypes
  <1>6. DOMAIN DiffSnapshot(shell.captureBaseline, shared) =
          {i \in Identities : shell.captureBaseline[i] # shared[i]}
    BY <1>5, DiffSnapshotType
  <1>7. QED
    BY <1>4, <1>6 DEF News

LEMMA NewsSame ==
  ASSUME NEW s \in Shells, NEW ids, News(s, ids), SameRevision,
         terminals'[s].applied = terminals[s].applied
  PROVE  News(s, ids)'
  BY DEF News, ChangedElsewhere, SameRevision

(* What others make is news, and hides none.                               *)
LEMMA NewsKept ==
  ASSUME HistoryTypes, HistoryTypes', LogInv, NEW s \in Shells, Foreign(s),
         terminals[s].applied \in Nat, terminals'[s] = terminals[s],
         NEW ids \in SUBSET Identities, News(s, ids)
  PROVE  News(s, ids)'
  <1>. PICK applied \in Nat : applied = terminals[s].applied
    OBVIOUS
  <1>1. floor \in Nat /\ floor' \in Nat /\ floor <= floor'
    BY ForeignLog DEF HistoryTypes
  <1>2. \A k \in DOMAIN events : events[k].revision \in Nat
    <2>1. floor \in Nat /\ \A k \in DOMAIN events : k \in Nat /\ events[k].revision = floor + k
      BY DEF HistoryTypes, LogInv, EventsNumbered
    <2>2. QED
      BY <2>1
  <1>3. \A k \in DOMAIN events' : events'[k].revision \in Nat
    <2>1. events' \in Seq(Event)
      BY DEF HistoryTypes
    <2>2. \A k \in DOMAIN events' : events'[k] \in Event
      BY <2>1
    <2>3. QED
      BY <2>2 DEF Event
  <1>4. ASSUME applied # 0, floor' <= applied, NEW i \in ids
        PROVE  ChangedElsewhere(s, i)'
    <2>1. floor <= applied
      BY <1>1, <1>4
    <2>2. ChangedElsewhere(s, i)
      BY <1>4, <2>1 DEF News
    <2>3. PICK j \in DOMAIN events :
            LastIn(events, i, j) /\ events[j].revision > applied /\ ~By(s, events[j])
      BY <2>2, ElsewhereLast
    <2>4. events[j].revision > floor'
      BY <1>1, <1>2, <1>4, <2>3
    <2>5. PICK k \in DOMAIN events' :
            /\ LastIn(events', i, k) /\ ~By(s, events'[k])
            /\ events'[k].revision >= events[j].revision
      BY <2>3, <2>4, ForeignLog
    <2>6. events'[k].revision > applied
      BY <1>2, <1>3, <2>3, <2>5
    <2>7. QED
      BY <2>5, <2>6 DEF ChangedElsewhere, LastIn, By
  <1>5. QED
    BY <1>4 DEF News

LEMMA AskedSame ==
  ASSUME NEW s \in Shells, NEW receipt, Asked(s, receipt), SameRevision,
         terminals'[s].applied = terminals[s].applied,
         terminals'[s].ackOp = terminals[s].ackOp \/ terminals'[s].ackOp # receipt.op,
         terminals'[s].prepareOp = terminals[s].prepareOp \/ terminals'[s].prepareOp # receipt.op,
         shells[s].pending # NoPending => shells'[s].pending # NoPending
  PROVE  Asked(s, receipt)'
  BY NewsSame DEF Asked

(* A request that was not served, or had been served before.               *)
LEMMA QuietFaultless ==
  ASSUME NEW s \in Shells, Faultless(s), UNCHANGED vars, terminals[s].pc # "off",
         terminals'[s].attached = terminals[s].attached,
         terminals'[s].applied = terminals[s].applied,
         terminals'[s].ackOp = terminals[s].ackOp
           \/ \A k \in DOMAIN receipts[s] : receipts[s][k].op # terminals'[s].ackOp,
         terminals'[s].prepareOp = terminals[s].prepareOp
           \/ \A k \in DOMAIN receipts[s] : receipts[s][k].op # terminals'[s].prepareOp,
         terminals'[s].pc # "apply"
  PROVE  Faultless(s)'
  <1>1. SameRevision /\ shells' = shells /\ receipts' = receipts /\ Attached' = Attached
    BY DEF vars, state, SameRevision, Attached
  <1>2. ASSUME terminals[s].attached, NEW k \in DOMAIN receipts[s] PROVE Asked(s, receipts[s][k])'
    <2>1. PICK receipt : receipt = receipts[s][k]
      OBVIOUS
    <2>2. Asked(s, receipt)
      BY <1>2, <2>1 DEF Faultless
    <2>3. Asked(s, receipt)'
      BY <1>1, <1>2, <2>1, <2>2, AskedSame
    <2>4. receipts'[s][k] = receipt
      BY <1>1, <2>1
    <2>5. QED
      BY <2>3, <2>4
  <1>3. QED
    BY <1>1, <1>2 DEF Faultless

LEMMA NothingFailed ==
  ASSUME HookTypes, NEW s \in Shells, UNCHANGED failures
  PROVE  /\ ~Failed
         /\ \A terminal : Becomes(s, terminal) => terminals'[s] = terminal
  <1>1. failures \in Nat
    BY ShellSyncAssumption DEF HookTypes
  <1>2. failures + 1 # failures
    BY <1>1
  <1>3. QED
    BY <1>2 DEF Failed, Becomes, HookTypes

LEMMA ReceiptOperations ==
  ASSUME Service, NEW s \in Shells, NEW k \in DOMAIN receipts[s]
  PROVE  receipts[s][k].op \in Operations /\ receipts[s][k].op # NoOp
         /\ receipts[s][k].op \in Used(s)
  <1>1. receipts[s] \in Seq(Receipt)
    BY DEF Service, TypeInv, ShellTypes
  <1>2. receipts[s][k] \in Receipt
    BY <1>1
  <1>3. receipts[s][k].op \in Operations
    BY <1>2 DEF Receipt
  <1>4. QED
    BY <1>3, ShellSyncAssumption DEF Used

(* The retained id of a request is the one it had, or one no receipt has.  *)
LEMMA RetainedUnused ==
  ASSUME Service, NEW s \in Shells, NEW op \in OperationIds
  PROVE  \/ Retained(op, s) = op
         \/ \A k \in DOMAIN receipts[s] : receipts[s][k].op # Retained(op, s)
  BY RetainedOperation, ReceiptOperations

LEMMA AttachFaultless ==
  ASSUME ShellInv, NEW s \in Shells, AttachTerminal(s), UNCHANGED failures, Faultless(s)
  PROVE  Faultless(s)'
  <1>. DEFINE op == Retained(terminals[s].attachOp, s)
              initial == AttachInitial(s)
  <1>1. HookTypes /\ HookInv /\ Service /\ HookLocal(s)
    BY DEF ShellInv, HookInv
  <1>2. Service' /\ ShellInv'
    BY <1>1, AttachHook DEF ShellInv
  <1>3. /\ terminals[s].pc \in {"command", "prompt"} /\ ~terminals[s].attached
        /\ initial \in Snapshot /\ op \in Operations
        /\ \/ AdapterAttach(s, op, initial) /\ terminals'[s] = AttachJoined(s, shells'[s])
           \/ UNCHANGED vars /\ terminals'[s] = AttachAsked(s)
    BY <1>1, AttachOutcome, NothingFailed
  <1>4. s \notin Attached /\ terminals[s].prepareOp = NoOp /\ terminals[s].ackOp = NoOp
    BY <1>1, <1>3 DEF Faultless, HookLocal
  <1>. HIDE DEF op, initial
  <1>5. CASE UNCHANGED vars /\ terminals'[s] = AttachAsked(s)
    BY <1>1, <1>3, <1>5, AttachAskedTerminal, QuietFaultless
  <1>6. CASE AdapterAttach(s, op, initial) /\ terminals'[s] = AttachJoined(s, shells'[s])
    <2>1. s \in Attached'
      BY <1>1, <1>3, <1>6, AdapterAttachServed
    <2>2. shells'[s] \in ShellState
      BY <1>2, <2>1 DEF Service, TypeInv, ShellTypes, Attached
    <2>3. /\ terminals'[s].attached /\ terminals'[s].applied = shells'[s].appliedRevision
          /\ terminals'[s].pc \in {"command", "prompt"}
          /\ terminals'[s].prepareOp = NoOp /\ terminals'[s].ackOp = NoOp
      <3>1. PICK shell \in ShellState : shell = shells'[s]
        BY <2>2
      <3>2. /\ AttachJoined(s, shell).attached = TRUE
            /\ AttachJoined(s, shell).applied = shell.appliedRevision
            /\ AttachJoined(s, shell).pc \in {"command", "prompt"}
            /\ AttachJoined(s, shell).prepareOp = terminals[s].prepareOp
            /\ AttachJoined(s, shell).ackOp = terminals[s].ackOp
        BY <1>1, <1>3, AttachTerminals
      <3>3. terminals'[s] = AttachJoined(s, shell)
        BY <1>6, <3>1
      <3>4. QED
        BY <1>4, <3>1, <3>2, <3>3
    <2>4. ASSUME NEW k \in DOMAIN receipts'[s] PROVE receipts'[s][k].op # NoOp
      <3>1. receipts'[s] \in Seq(Receipt)
        BY <1>2 DEF Service, TypeInv, ShellTypes
      <3>2. receipts'[s][k] \in Receipt
        BY <3>1
      <3>3. QED
        BY <3>2, ShellSyncAssumption DEF Receipt
    <2>5. QED
      BY <2>3, <2>4 DEF Faultless, Asked
  <1>7. QED
    BY <1>3, <1>5, <1>6

LEMMA PublishFaultless ==
  ASSUME ShellInv, NEW s \in Shells, PublishTerminal(s), UNCHANGED failures, Faultless(s)
  PROVE  Faultless(s)'
  <1>. DEFINE op == NewOperation(s)
  <1>1. HookTypes /\ HookInv /\ Service /\ terminals[s] \in Terminal
    BY DEF ShellInv, HookInv, HookTypes
  <1>2. PICK conflict : conflict = shells'[s].conflict
    OBVIOUS
  <1>3. /\ terminals[s].pc = "command" /\ terminals[s].attached
        /\ terminals[s].baseline # NoBaseline /\ op \in Operations
        /\ \/ AdapterPublish(s, op) /\ terminals'[s] = PublishParsed(s, conflict)
           \/ UNCHANGED vars /\ terminals'[s] = PublishAsked(s)
    BY <1>1, <1>2, PublishOutcome, NothingFailed
  <1>4. /\ PublishAsked(s) \in Terminal /\ PublishAsked(s).pc = "prompt"
        /\ PublishAsked(s).attached /\ PublishAsked(s).applied = terminals[s].applied
        /\ PublishAsked(s).ackOp = terminals[s].ackOp
        /\ PublishAsked(s).prepareOp = terminals[s].prepareOp
    BY <1>1, <1>3 DEF PublishAsked, Terminal
  <1>5. /\ PublishParsed(s, conflict).pc = PublishAsked(s).pc
        /\ PublishParsed(s, conflict).attached = PublishAsked(s).attached
        /\ PublishParsed(s, conflict).applied = PublishAsked(s).applied
        /\ PublishParsed(s, conflict).ackOp = PublishAsked(s).ackOp
        /\ PublishParsed(s, conflict).prepareOp = PublishAsked(s).prepareOp
    BY <1>4 DEF PublishParsed, Terminal
  <1>. HIDE DEF op
  <1>6. CASE UNCHANGED vars /\ terminals'[s] = PublishAsked(s)
    BY <1>3, <1>4, <1>6, QuietFaultless
  <1>7. CASE AdapterPublish(s, op) /\ terminals'[s] = PublishParsed(s, conflict)
    <2>1. PICK ack, delta : Publish(s, op, ack, delta) /\ ack = terminals[s].applied
      BY <1>7 DEF AdapterPublish
    <2>2. shells[s].pending = NoPending /\ shells'[s].appliedRevision = ack
      BY <1>1, <2>1, PublishRecord
    <2>3. PICK request, result : AppendReceipt(s, op, "publish", request, result)
      BY <2>1 DEF Publish
    <2>4. ASSUME NEW k \in DOMAIN receipts'[s]
          PROVE  /\ receipts'[s][k].kind = "acknowledge" => receipts'[s][k].op # terminals[s].ackOp
                 /\ receipts'[s][k].kind = "prepare" /\ receipts'[s][k].op = terminals[s].prepareOp =>
                      receipts'[s][k].result = NoPending
      <3>1. \/ receipts'[s][k] = [op |-> op, kind |-> "publish", request |-> request, result |-> result]
            \/ \E j \in DOMAIN receipts[s] : receipts'[s][k] = receipts[s][j]
        BY <1>1, <2>3, ReceiptAdded DEF Service, TypeInv
      <3>2. \A j \in DOMAIN receipts[s] :
              /\ receipts[s][j].kind = "acknowledge" => receipts[s][j].op # terminals[s].ackOp
              /\ receipts[s][j].kind = "prepare" /\ receipts[s][j].op = terminals[s].prepareOp =>
                   receipts[s][j].result = NoPending
        BY <1>3, <2>2 DEF Faultless, Asked
      <3>3. QED
        BY <3>1, <3>2
    <2>5. /\ terminals'[s].attached /\ terminals'[s].applied = ack /\ terminals'[s].pc = "prompt"
          /\ terminals'[s].ackOp = terminals[s].ackOp /\ terminals'[s].prepareOp = terminals[s].prepareOp
      BY <1>4, <1>5, <1>7, <2>1
    <2>6. QED
      BY <2>2, <2>4, <2>5 DEF Faultless, Asked
  <1>8. QED
    BY <1>3, <1>6, <1>7

LEMMA PullFaultless ==
  ASSUME ShellInv, NEW s \in Shells, PullTerminal(s), UNCHANGED failures, OwnInv(s), Faultless(s)
  PROVE  Faultless(s)'
  <1>. DEFINE op == Retained(terminals[s].prepareOp, s)
              answer == ResultOf(receipts'[s], op)
              got == Received(s, PullAsked(s), answer)
              applied == terminals[s].applied
  <1>1. HookTypes /\ HookInv /\ Service /\ terminals[s] \in Terminal /\ env[s] \in Snapshot
    BY DEF ShellInv, HookInv, HookTypes
  <1>2. Service' /\ head' \in Nat
    BY <1>1, PullHook DEF Service, TypeInv, HistoryTypes
  <1>3. /\ terminals[s].pc = "prompt" /\ terminals[s].attached /\ op \in Operations
        /\ \/ AdapterPrepare(s, op) /\ terminals'[s] = got
           \/ UNCHANGED vars /\ terminals'[s] = PullAsked(s)
    BY <1>1, PullOutcome, NothingFailed
  <1>4. op = terminals[s].prepareOp \/ \A k \in DOMAIN receipts[s] : receipts[s][k].op # op
    BY <1>1, RetainedUnused DEF Terminal
  <1>5. /\ PullAsked(s) \in Terminal /\ PullAsked(s).pc = "command" /\ PullAsked(s).attached
        /\ PullAsked(s).applied = applied /\ PullAsked(s).ackOp = terminals[s].ackOp
        /\ PullAsked(s).prepareOp = op
    BY <1>1, <1>3, PullAskedTerminal
  <1>6. applied = shells[s].appliedRevision
    BY <1>3 DEF Faultless
  <1>7. CASE UNCHANGED vars /\ terminals'[s] = PullAsked(s)
    <2>. HIDE DEF op
    <2>1. QED
      BY <1>3, <1>4, <1>5, <1>7, QuietFaultless
  <1>8. CASE AdapterPrepare(s, op) /\ terminals'[s] = got
    <2>1. PICK k0 \in DOMAIN receipts'[s] :
            /\ receipts'[s][k0].op = op /\ receipts'[s][k0].kind = "prepare"
            /\ answer = receipts'[s][k0].result
            /\ receipts'[s][k0].result = NoPending \/ Transition(receipts'[s][k0].result, head')
      BY <1>1, <1>3, <1>8, PrepareAnswer
    <2>. PICK result : result = answer
      OBVIOUS
    <2>2. result = NoPending \/ Transition(result, head')
      BY <2>1
    <2>3. terminals'[s] = Received(s, PullAsked(s), result)
      BY <1>8
    <2>. HIDE DEF op, answer, got
    <2>4. /\ terminals'[s].attached /\ terminals'[s].applied = applied
          /\ terminals'[s].ackOp = terminals[s].ackOp
          /\ result = NoPending => terminals'[s].pc = "command" /\ terminals'[s].prepareOp = NoOp
          /\ result # NoPending => /\ terminals'[s].prepareOp = op
                                   /\ terminals'[s].reply = buildTransition(s, result)
      BY <1>1, <1>2, <1>5, <2>2, <2>3, ReceivedTerminal
    <2>5. /\ SameRevision /\ shells'[s].appliedRevision = shells[s].appliedRevision
          /\ shells[s].pending # NoPending => shells'[s].pending # NoPending
      <3>1. CASE UNCHANGED vars
        BY <3>1 DEF vars, state, SameRevision
      <3>2. CASE PreparePull(s, op, applied)
        <4>1. SameRevision
          BY <3>2 DEF PreparePull
        <4>2. QED
          BY <1>1, <1>6, <3>2, <4>1, PrepareRecord
      <3>3. QED
        BY <1>8, <3>1, <3>2 DEF AdapterPrepare
    <2>6. ASSUME NEW receipt, Asked(s, receipt), receipt.op # NoOp,
                 op = terminals[s].prepareOp \/ receipt.op # op
          PROVE  Asked(s, receipt)'
      <3>1. terminals'[s].prepareOp = terminals[s].prepareOp \/ terminals'[s].prepareOp # receipt.op
        BY <2>4, <2>6
      <3>2. QED
        BY <2>4, <2>5, <2>6, <3>1, AskedSame
    <2>7. \A k \in DOMAIN receipts[s] : Asked(s, receipts[s][k]) /\ receipts[s][k].op # NoOp
      BY <1>1, <1>3, ReceiptOperations DEF Faultless
    <2>8. ASSUME NEW k \in DOMAIN receipts'[s]
          PROVE  \E receipt : receipt = receipts'[s][k] /\ Asked(s, receipt)'
      <3>1. CASE UNCHANGED vars
        <4>1. receipts'[s] = receipts[s]
          BY <3>1 DEF vars, state
        <4>2. PICK receipt : receipt = receipts[s][k]
          OBVIOUS
        <4>3. Asked(s, receipt) /\ receipt.op # NoOp /\ (op = terminals[s].prepareOp \/ receipt.op # op)
          BY <1>4, <2>7, <4>1, <4>2
        <4>4. Asked(s, receipt)'
          BY <2>6, <4>3
        <4>5. QED
          BY <4>1, <4>2, <4>4
      <3>2. CASE PreparePull(s, op, applied)
        <4>. DEFINE changes == DiffSnapshot(shells[s].captureBaseline, shared)
                    pending == [kind |-> "pull", revision |-> head, fingerprint |-> shared,
                                token |-> NewToken("pull", op, head)]
        <4>1. PICK outcome :
                /\ AppendReceipt(s, op, "prepare", applied, outcome)
                /\ \/ outcome = NoPending
                   \/ /\ outcome = [pending |-> pending, changes |-> changes]
                      /\ shells'[s].pending = pending
          <5>1. shells[s] \in ShellState
            BY <1>1, <3>2, PrepareRecord
          <5>. HIDE DEF changes, pending
          <5>2. /\ DiffSnapshot(shells[s].captureBaseline, shared) = changes
                /\ [kind |-> "pull", revision |-> head, fingerprint |-> shared,
                    token |-> NewToken("pull", op, head)] = pending
            BY DEF changes, pending
          <5>3. PICK flag \in BOOLEAN :
                  /\ shells' = [shells EXCEPT ![s] =
                       IF flag THEN shells[s]
                       ELSE [shells[s] EXCEPT !.pending = pending, !.transition = "prepare",
                                              !.behind = TRUE]]
                  /\ AppendReceipt(s, op, "prepare", applied,
                       IF flag THEN NoPending ELSE [pending |-> pending, changes |-> changes])
            BY <1>6, <3>2, <5>2 DEF PreparePull
          <5>4. ~flag => shells'[s].pending = pending
            BY <1>1, <5>1, <5>3 DEF Service, TypeInv, ShellTypes, ShellState
          <5>5. QED
            BY <5>3, <5>4
        <4>2. CASE receipts'[s][k] = [op |-> op, kind |-> "prepare", request |-> applied,
                                      result |-> outcome]
          <5>. PICK receipt : receipt = [op |-> op, kind |-> "prepare", request |-> applied,
                                         result |-> outcome]
            OBVIOUS
          <5>1. CASE outcome = NoPending
            BY <4>2, <5>1 DEF Asked
          <5>2. CASE outcome = [pending |-> pending, changes |-> changes] /\ shells'[s].pending = pending
            <6>1. News(s, DOMAIN changes)
              BY <1>6, <3>2, PrepareNews
            <6>2. PICK ids : ids = DOMAIN changes
              OBVIOUS
            <6>3. News(s, ids)'
              BY <2>4, <2>5, <6>1, <6>2, NewsSame
            <6>4. pending # NoPending
              BY DEF NoPending
            <6>. HIDE DEF changes, pending
            <6>5. DOMAIN receipt.result.changes = ids /\ shells'[s].pending # NoPending
                  /\ receipt.kind = "prepare"
              BY <5>2, <6>2, <6>4
            <6>6. Asked(s, receipt)'
              BY <6>3, <6>5 DEF Asked
            <6>7. QED
              BY <4>2, <6>6
          <5>3. QED
            BY <4>1, <5>1, <5>2
        <4>3. CASE \E j \in DOMAIN receipts[s] : receipts'[s][k] = receipts[s][j]
          <5>1. PICK j \in DOMAIN receipts[s] : receipts'[s][k] = receipts[s][j]
            BY <4>3
          <5>2. PICK receipt : receipt = receipts[s][j]
            OBVIOUS
          <5>3. receipt.op # op
            BY <3>2, <5>2 DEF PreparePull, ReceiptFound
          <5>4. Asked(s, receipt)'
            BY <2>6, <2>7, <5>2, <5>3
          <5>5. QED
            BY <5>1, <5>2, <5>4
        <4>4. QED
          BY <1>1, <4>1, <4>2, <4>3, ReceiptAdded DEF Service, TypeInv
      <3>3. QED
        BY <1>8, <3>1, <3>2 DEF AdapterPrepare
    <2>9. \A k \in DOMAIN receipts'[s] : Asked(s, receipts[s][k])'
      BY <2>8
    <2>10. ASSUME terminals'[s].pc = "apply"
           PROVE  News(s, DOMAIN terminals[s].reply.patch)'
      <3>1. result # NoPending /\ terminals'[s].prepareOp = op
            /\ terminals'[s].reply = buildTransition(s, result)
        BY <2>4, <2>10
      <3>2. PICK receipt : receipt = receipts'[s][k0] /\ Asked(s, receipt)'
        BY <2>8
      <3>3. receipt.op = op /\ receipt.kind = "prepare" /\ receipt.result = result
        BY <2>1, <3>2
      <3>4. News(s, DOMAIN result.changes)'
        BY <3>1, <3>2, <3>3 DEF Asked
      <3>5. Transition(result, head')
        BY <2>2, <3>1
      <3>6. DOMAIN buildTransition(s, result).patch \subseteq DOMAIN result.changes
        <4>1. ApplyChanges(env[s], result.changes) \in Snapshot
          BY <1>1, <3>5, ApplyChangesType DEF Transition
        <4>2. DOMAIN DiffSnapshot(env[s], ApplyChanges(env[s], result.changes)) =
                {i \in Identities : env[s][i] # ApplyChanges(env[s], result.changes)[i]}
          BY <1>1, <4>1, DiffSnapshotType
        <4>3. \A i \in Identities : i \notin DOMAIN result.changes =>
                ApplyChanges(env[s], result.changes)[i] = env[s][i]
          BY DEF ApplyChanges
        <4>4. buildTransition(s, result).patch = DiffSnapshot(env[s], ApplyChanges(env[s], result.changes))
          BY DEF buildTransition
        <4>5. QED
          BY <4>2, <4>3, <4>4
      <3>7. DOMAIN terminals'[s].reply.patch \subseteq DOMAIN result.changes
        BY <3>1, <3>6
      <3>8. QED
        BY <3>4, <3>7 DEF News
    <2>11. terminals'[s].applied = shells'[s].appliedRevision
      BY <1>6, <2>4, <2>5
    <2>12. QED
      BY <2>4, <2>9, <2>10, <2>11 DEF Faultless
  <1>9. QED
    BY <1>3, <1>7, <1>8

(* A resolution gives up the terminal's side of a conflict it knows.       *)
LEMMA ResolveFaultless ==
  ASSUME ShellInv, NEW s \in Shells, ResolveTerminal(s), UNCHANGED failures, Faultless(s)
  PROVE  Faultless(s)'
  <1>. DEFINE op == Retained(terminals[s].resolveOp, s)
              answer == ResultOf(receipts'[s], op)
              identity == terminals[s].conflict.identity
              token == terminals[s].conflict.token
              snap == env[s]
  <1>1. HookTypes /\ HookInv /\ Service /\ terminals[s] \in Terminal
    BY DEF ShellInv, HookInv, HookTypes
  <1>2. Service' /\ head' \in Nat
    BY <1>1, ResolveHook DEF Service, TypeInv, HistoryTypes
  <1>3. /\ terminals[s].pc = "command" /\ terminals[s].attached /\ op \in Operations
        /\ terminals[s].conflict # NoConflictKnown
        /\ \/ AdapterResolve(s, op) /\ terminals'[s] = Received(s, ResolveAsked(s), answer)
           \/ UNCHANGED vars /\ terminals'[s] = ResolveAsked(s)
    BY <1>1, ResolveOutcome, NothingFailed
  <1>4. AdapterResolve(s, op) => Transition(answer, head')
    BY <1>1, <1>3, ResolveAnswer
  <1>5. /\ ResolveAsked(s) \in Terminal /\ ResolveAsked(s).pc = "command"
        /\ ResolveAsked(s).attached /\ ResolveAsked(s).applied = terminals[s].applied
        /\ ResolveAsked(s).ackOp = terminals[s].ackOp
        /\ ResolveAsked(s).prepareOp = terminals[s].prepareOp
        /\ ResolveAsked(s).conflict = terminals[s].conflict
    BY <1>1, <1>3, ResolveAskedTerminal
  <1>6. CASE UNCHANGED vars /\ terminals'[s] = ResolveAsked(s)
    <2>. HIDE DEF op
    <2>1. QED
      BY <1>3, <1>5, <1>6, QuietFaultless
  <1>7. CASE AdapterResolve(s, op) /\ terminals'[s] = Received(s, ResolveAsked(s), answer)
    <2>1. ResolveShared(s, op, identity, token, snap)
      BY <1>7 DEF AdapterResolve
    <2>. HIDE DEF op, answer, identity, token, snap
    <2>2. /\ SameRevision /\ shells'[s].appliedRevision = shells[s].appliedRevision
          /\ shells[s].pending # NoPending => shells'[s].pending # NoPending
      <3>1. \/ shells'[s].pending = shells[s].pending
            \/ shells'[s].pending = [kind |-> "resolution", revision |-> head, fingerprint |-> shared,
                                     token |-> token]
        BY <1>1, <2>1, ResolveRecord
      <3>2. SameRevision
        BY <2>1 DEF ResolveShared
      <3>3. QED
        BY <1>1, <2>1, <3>1, <3>2, ResolveRecord DEF NoPending
    <2>3. /\ terminals'[s].attached /\ terminals'[s].applied = terminals[s].applied
          /\ terminals'[s].ackOp = terminals[s].ackOp
          /\ terminals'[s].conflict = terminals[s].conflict
          /\ terminals'[s].prepareOp = terminals[s].prepareOp \/ terminals'[s].prepareOp = NoOp
      BY <1>1, <1>2, <1>4, <1>5, <1>7, ReceivedTerminal
    <2>4. ASSUME NEW k \in DOMAIN receipts'[s]
          PROVE  \E receipt : receipt = receipts'[s][k] /\ Asked(s, receipt)'
      <3>1. ASSUME NEW j \in DOMAIN receipts[s], receipts'[s][k] = receipts[s][j]
            PROVE  \E receipt : receipt = receipts'[s][k] /\ Asked(s, receipt)'
        <4>1. PICK receipt : receipt = receipts[s][j]
          OBVIOUS
        <4>2. Asked(s, receipt) /\ receipt.op # NoOp
          BY <1>1, <1>3, <4>1, ReceiptOperations DEF Faultless
        <4>3. Asked(s, receipt)'
          BY <2>2, <2>3, <4>2, AskedSame
        <4>4. QED
          BY <3>1, <4>1, <4>3
      <3>2. \/ UNCHANGED receipts
            \/ \E request, result : AppendReceipt(s, op, "resolve", request, result)
        BY <2>1 DEF ResolveShared
      <3>3. CASE UNCHANGED receipts
        BY <3>1, <3>3
      <3>4. ASSUME NEW request, NEW result, AppendReceipt(s, op, "resolve", request, result)
            PROVE  \E receipt : receipt = receipts'[s][k] /\ Asked(s, receipt)'
        <4>1. \/ receipts'[s][k] = [op |-> op, kind |-> "resolve", request |-> request, result |-> result]
              \/ \E j \in DOMAIN receipts[s] : receipts'[s][k] = receipts[s][j]
          BY <1>1, <3>4, ReceiptAdded DEF Service, TypeInv
        <4>2. CASE receipts'[s][k] =
                     [op |-> op, kind |-> "resolve", request |-> request, result |-> result]
          <5>. PICK receipt : receipt = [op |-> op, kind |-> "resolve", request |-> request,
                                         result |-> result]
            OBVIOUS
          <5>1. Asked(s, receipt)'
            BY DEF Asked
          <5>2. QED
            BY <4>2, <5>1
        <4>3. QED
          BY <3>1, <4>1, <4>2
      <3>5. QED
        BY <3>2, <3>3, <3>4
    <2>5. \A k \in DOMAIN receipts'[s] : Asked(s, receipts[s][k])'
      BY <2>4
    <2>6. terminals'[s].applied = shells'[s].appliedRevision
      BY <1>3, <2>2, <2>3 DEF Faultless
    <2>7. QED
      BY <1>3, <2>3, <2>5, <2>6 DEF Faultless
  <1>8. QED
    BY <1>3, <1>6, <1>7

(* The acknowledgement of a transition that is asked for the first time    *)
(* and is answered: the two agree on the revision again.                   *)
LEMMA AcknowledgeFaultless ==
  ASSUME ShellInv, NEW s \in Shells, AcknowledgeTerminal(s), UNCHANGED failures, Faultless(s)
  PROVE  Faultless(s)'
  <1>. DEFINE op == Retained(terminals[s].ackOp, s)
              reply == terminals[s].reply
              revision == reply.revision
              token == reply.token
              snap == env[s]
  <1>1. HookTypes /\ HookInv /\ Service /\ terminals[s] \in Terminal /\ HookLocal(s)
    BY DEF ShellInv, HookInv, HookTypes
  <1>2. Service'
    BY <1>1, AcknowledgeHook
  <1>3. /\ terminals[s].pc = "verify" /\ op \in Operations
        /\ \/ AdapterAcknowledge(s, op, reply) /\ terminals'[s] = AckConfirmed(s)
           \/ UNCHANGED vars /\ terminals'[s] = AckAsked(s)
    BY <1>1, AcknowledgeOutcome, NothingFailed
  <1>4. terminals[s].attached
    BY <1>1, <1>3 DEF HookLocal
  <1>5. op = terminals[s].ackOp \/ \A k \in DOMAIN receipts[s] : receipts[s][k].op # op
    BY <1>1, RetainedUnused DEF Terminal
  <1>6. CASE UNCHANGED vars /\ terminals'[s] = AckAsked(s)
    <2>1. /\ terminals'[s].pc = "command" /\ terminals'[s].attached = terminals[s].attached
          /\ terminals'[s].applied = terminals[s].applied
          /\ terminals'[s].prepareOp = terminals[s].prepareOp /\ terminals'[s].ackOp = op
      BY <1>1, <1>3, <1>6, AckTerminals
    <2>. HIDE DEF op
    <2>2. QED
      BY <1>3, <1>5, <1>6, <2>1, QuietFaultless
  <1>7. CASE AdapterAcknowledge(s, op, reply) /\ terminals'[s] = AckConfirmed(s)
    <2>1. Acknowledge(s, op, revision, token, snap)
      BY <1>7 DEF AdapterAcknowledge
    <2>2. /\ terminals'[s].pc = "command" /\ terminals'[s].attached
          /\ terminals'[s].applied = revision
          /\ terminals'[s].prepareOp = NoOp /\ terminals'[s].ackOp = NoOp
      <3>1. /\ terminals'[s].pc = "command" /\ terminals'[s].attached = terminals[s].attached
            /\ terminals'[s].applied = revision
            /\ terminals'[s].prepareOp = NoOp /\ terminals'[s].ackOp = NoOp
        BY <1>1, <1>3, <1>7, AckTerminals
      <3>2. QED
        BY <1>4, <3>1
    <2>3. ~ReceiptMatches(s, op, "acknowledge",
                          [revision |-> revision, token |-> token, observed |-> AdmittedSnapshot(s, snap)])
      BY <1>4, <1>5 DEF Faultless, Asked, ReceiptMatches
    <2>. HIDE DEF op, revision, token, snap
    <2>4. /\ shells[s].pending.revision = revision
          /\ shells' = [shells EXCEPT ![s] = Acknowledged(shells[s], AdmittedSnapshot(s, snap))]
      BY <2>1, <2>3 DEF Acknowledge
    <2>5. shells'[s].appliedRevision = revision
      <3>1. shells[s] \in ShellState
        BY <1>1, <2>1, AcknowledgeRecord
      <3>2. shells'[s] = Acknowledged(shells[s], AdmittedSnapshot(s, snap))
        BY <1>1, <2>4 DEF Service, TypeInv, ShellTypes
      <3>3. Acknowledged(shells[s], AdmittedSnapshot(s, snap)).appliedRevision = shells[s].pending.revision
        BY <3>1 DEF Acknowledged, ShellState
      <3>4. QED
        BY <2>4, <3>2, <3>3
    <2>6. ASSUME NEW k \in DOMAIN receipts'[s] PROVE receipts'[s][k].op # NoOp
      <3>1. receipts'[s] \in Seq(Receipt)
        BY <1>2 DEF Service, TypeInv, ShellTypes
      <3>2. receipts'[s][k] \in Receipt
        BY <3>1
      <3>3. QED
        BY <3>2, ShellSyncAssumption DEF Receipt
    <2>7. QED
      BY <2>2, <2>5, <2>6 DEF Faultless, Asked
  <1>8. QED
    BY <1>3, <1>6, <1>7

LEMMA OwnStepFaultless ==
  ASSUME ShellInv, NEW s \in Shells, TerminalStep(s), UNCHANGED failures, OwnInv(s), Faultless(s)
  PROVE  Faultless(s)'
  <1>1. HookTypes /\ HookInv /\ Service /\ terminals[s] \in Terminal /\ HookLocal(s)
    BY DEF ShellInv, HookInv, HookTypes
  <1>2. CASE EditEnvironment(s)
    <2>1. UNCHANGED vars /\ terminals' = terminals /\ terminals[s].pc = "command"
      BY <1>2 DEF EditEnvironment
    <2>2. QED
      BY <2>1, QuietFaultless
  <1>3. CASE DeferPull(s)
    <2>1. /\ UNCHANGED vars /\ terminals[s].pc = "prompt"
          /\ terminals'[s] = [terminals[s] EXCEPT !.pc = "command"]
      BY <1>1, <1>3 DEF DeferPull, Becomes, HookTypes
    <2>2. /\ terminals'[s].pc = "command" /\ terminals'[s].attached = terminals[s].attached
          /\ terminals'[s].applied = terminals[s].applied
          /\ terminals'[s].ackOp = terminals[s].ackOp
          /\ terminals'[s].prepareOp = terminals[s].prepareOp
      BY <1>1, <2>1 DEF Terminal
    <2>3. QED
      BY <2>1, <2>2, QuietFaultless
  <1>4. CASE ApplyTransition(s)
    <2>1. UNCHANGED vars /\ terminals[s].pc = "apply" /\ terminals'[s] = Applied(s)
      BY <1>1, <1>4, ApplyOutcome, NothingFailed
    <2>2. /\ terminals'[s].pc = "verify" /\ terminals'[s].attached = terminals[s].attached
          /\ terminals'[s].applied = terminals[s].applied
          /\ terminals'[s].ackOp = terminals[s].ackOp
          /\ terminals'[s].prepareOp = terminals[s].prepareOp
      BY <1>1, <2>1 DEF Applied, Terminal
    <2>3. QED
      BY <2>1, <2>2, QuietFaultless
  <1>5. CASE Deactivate(s)
    <2>1. terminals'[s].pc = "off" /\ terminals'[s].attached = FALSE
      BY <1>1, <1>5, DeactivateHook, NewTerminalType
    <2>2. QED
      BY <2>1 DEF Faultless
  <1>6. QED
    BY <1>2, <1>3, <1>4, <1>5, AttachFaultless, PublishFaultless, PullFaultless, ResolveFaultless,
       AcknowledgeFaultless DEF TerminalStep

LEMMA ChangesNamed ==
  ASSUME NEW changes \in Changes
  PROVE  DOMAIN changes \in SUBSET Identities
  BY DEF Changes

(* What others do leaves the terminal and the service in agreement.        *)
LEMMA OthersFaultless ==
  ASSUME ShellInv, ShellInv', NEW s \in Shells, Foreign(s), Faultless(s),
         terminals'[s] = terminals[s], receipts'[s] = receipts[s], s \in Attached' <=> s \in Attached,
         s \in Attached => /\ shells'[s].pending = shells[s].pending
                           /\ shells'[s].appliedRevision = shells[s].appliedRevision
  PROVE  Faultless(s)'
  <1>1. /\ HistoryTypes /\ HistoryTypes' /\ LogInv /\ Service /\ HookLocal(s)
        /\ terminals[s] \in Terminal
    BY DEF ShellInv, HookInv, HookTypes, Service, TypeInv, HistoryInv
  <1>2. CASE terminals[s].attached
    <2>1. s \in Attached /\ terminals[s].applied \in Nat
      BY <1>1, <1>2 DEF HookLocal, Terminal
    <2>2. ASSUME NEW ids \in SUBSET Identities, News(s, ids) PROVE News(s, ids)'
      BY <1>1, <2>1, <2>2, NewsKept
    <2>3. ASSUME NEW k \in DOMAIN receipts'[s]
          PROVE  \E receipt : receipt = receipts'[s][k] /\ Asked(s, receipt)'
      <3>. PICK receipt : receipt = receipts[s][k]
        OBVIOUS
      <3>1. k \in DOMAIN receipts[s] /\ receipts'[s][k] = receipt
        OBVIOUS
      <3>2. Asked(s, receipt) /\ Answer(receipt, head, generations)
        BY <1>1, <1>2, <3>1 DEF Faultless, Service, AnswersInv
      <3>3. ASSUME receipt.kind = "prepare", receipt.op = terminals[s].prepareOp,
                   receipt.result # NoPending
            PROVE  shells'[s].pending # NoPending /\ News(s, DOMAIN receipt.result.changes)'
        <4>1. receipt.result.changes \in Changes
          BY <3>2, <3>3 DEF Answer, Transition
        <4>2. DOMAIN receipt.result.changes \in SUBSET Identities
          BY <4>1, ChangesNamed
        <4>3. shells[s].pending # NoPending /\ News(s, DOMAIN receipt.result.changes)
          BY <3>2, <3>3 DEF Asked
        <4>4. News(s, DOMAIN receipt.result.changes)'
          BY <2>2, <4>2, <4>3
        <4>5. QED
          BY <2>1, <4>3, <4>4
      <3>4. Asked(s, receipt)'
        BY <3>2, <3>3 DEF Asked
      <3>5. QED
        BY <3>1, <3>4
    <2>4. \A k \in DOMAIN receipts'[s] : Asked(s, receipts[s][k])'
      BY <2>3
    <2>5. ASSUME terminals[s].pc = "apply", terminals[s].conflict = NoConflictKnown
          PROVE  News(s, DOMAIN terminals[s].reply.patch)'
      <3>1. terminals[s].reply \in Replies
        BY <1>1, <2>5 DEF HookLocal, Terminal
      <3>2. PICK patch \in Changes : patch = terminals[s].reply.patch
        BY <3>1 DEF Replies
      <3>3. DOMAIN patch \in SUBSET Identities
        BY ChangesNamed
      <3>4. News(s, DOMAIN patch)
        BY <1>2, <2>5, <3>2 DEF Faultless
      <3>5. News(s, DOMAIN patch)'
        BY <2>2, <3>3, <3>4
      <3>6. terminals'[s].reply.patch = patch
        BY <3>2
      <3>7. QED
        BY <3>5, <3>6 DEF News
    <2>6. terminals'[s].applied = shells'[s].appliedRevision
      BY <1>2, <2>1 DEF Faultless
    <2>7. QED
      BY <1>2, <2>4, <2>5, <2>6 DEF Faultless
  <1>3. CASE ~terminals[s].attached
    BY <1>3 DEF Faultless
  <1>4. QED
    BY <1>2, <1>3

AgreementInv == \A s \in Shells : FaultlessInv(s)

LEMMA AgreementNext ==
  ASSUME ShellInv, OwnsInv, AgreementInv, [ShellNext]_allVars
  PROVE  AgreementInv'
  <1>1. ShellInv'
    BY ShellSteps
  <1>2. CASE UNCHANGED allVars
    <2>1. /\ SameRevision /\ terminals' = terminals /\ receipts' = receipts /\ failures' = failures
          /\ shells' = shells /\ Attached' = Attached
      BY <1>2 DEF allVars, hookVars, vars, state, SameRevision, Attached
    <2>2. \A s \in Shells : Foreign(s)
      BY <2>1 DEF Foreign
    <2>3. QED
      BY <1>1, <2>1, <2>2, OthersFaultless DEF AgreementInv, FaultlessInv
  <1>3. CASE FirstGeneration \/ ResetElsewhere
    <2>1. terminals' = terminals /\ receipts' = receipts /\ failures' = failures
      BY <1>3, ElsewhereAlone
    <2>2. ASSUME NEW s \in Shells, failures = 0 PROVE Faultless(s)'
      <3>1. Faultless(s)
        BY <2>2 DEF AgreementInv, FaultlessInv
      <3>2. CASE Foreign(s)
        BY <1>1, <1>3, <2>1, <3>1, <3>2, ElsewhereRecord, OthersFaultless
      <3>3. CASE Attached = {} /\ Attached' = {}
        <4>1. HookLocal(s)'
          BY <1>1 DEF ShellInv, HookInv
        <4>2. QED
          BY <3>3, <4>1 DEF HookLocal, Faultless
      <3>4. QED
        BY <1>3, <3>2, <3>3, ElsewhereForeign
    <2>3. QED
      BY <2>1, <2>2 DEF AgreementInv, FaultlessInv
  <1>4. ASSUME NEW s \in Shells, TerminalStep(s)
        PROVE  AgreementInv'
    <2>1. /\ \A u \in Shells \ {s} : /\ terminals'[u] = terminals[u]
                                     /\ shells'[u] = shells[u] /\ receipts'[u] = receipts[u]
          /\ failures' = 0 => failures = 0
      BY <1>4, TerminalAlone DEF OnlyShell
    <2>2. ASSUME NEW u \in Shells, failures' = 0 PROVE Faultless(u)'
      <3>1. Faultless(u) /\ UNCHANGED failures
        BY <2>1, <2>2 DEF AgreementInv, FaultlessInv
      <3>2. CASE u = s
        BY <1>4, <3>1, <3>2, OwnStepFaultless DEF OwnsInv
      <3>3. CASE u # s
        <4>1. Foreign(u)
          BY <1>4, <3>3, StepForeign
        <4>2. /\ shells'[u] = shells[u] /\ (u \in Attached' <=> u \in Attached)
              /\ terminals'[u] = terminals[u] /\ receipts'[u] = receipts[u]
          BY <2>1, <3>3 DEF Attached
        <4>3. QED
          BY <1>1, <3>1, <4>1, <4>2, OthersFaultless
      <3>4. QED
        BY <3>2, <3>3
    <2>3. QED
      BY <2>2 DEF AgreementInv, FaultlessInv
  <1>5. QED
    BY <1>2, <1>3, <1>4, StepCases DEF TerminalStep

LEMMA AgreementStart == ShellInit => AgreementInv
  <1>. SUFFICES ASSUME ShellInit, NEW s \in Shells PROVE Faultless(s)
    BY DEF AgreementInv, FaultlessInv
  <1>1. terminals[s] = NewTerminal /\ shells[s] = NotAttached
    BY DEF ShellInit, Init
  <1>2. NewTerminal.attached = FALSE
    BY DEF NewTerminal
  <1>3. QED
    BY <1>1, <1>2 DEF Faultless, Attached

(* While nothing failed, line-finish never overwrites what the terminal's  *)
(* user made of an identity with something older: what install_transition  *)
(* changes was last changed by another terminal or a reset, after the      *)
(* revision the terminal holds.                                            *)
THEOREM PullsKeepEdits == ShellSpec => PullKeepsEdits
  <1>. DEFINE I == ShellInv /\ OwnsInv /\ AgreementInv
  <1>1. I /\ [ShellNext]_allVars => I'
    BY ShellSteps, OwnNext, AgreementNext
  <1>2. ShellInit => I
    BY ShellStart, OwnStart, AgreementStart
  <1>3. I => [\A s \in Shells :
                /\ terminals[s].pc = "apply" /\ terminals'[s].pc = "verify"
                /\ terminals[s].applied # 0 /\ terminals[s].conflict = NoConflictKnown
                /\ failures = 0 /\ floor <= terminals[s].applied
                => \A i \in DOMAIN terminals[s].reply.patch : ChangedElsewhere(s, i)]_allVars
    <2>1. ASSUME I, NEW s \in Shells,
                 terminals[s].pc = "apply", terminals[s].applied # 0,
                 terminals[s].conflict = NoConflictKnown, failures = 0,
                 floor <= terminals[s].applied, NEW i \in DOMAIN terminals[s].reply.patch
          PROVE  ChangedElsewhere(s, i)
      <3>1. Faultless(s) /\ HookLocal(s)
        BY <2>1 DEF AgreementInv, FaultlessInv, ShellInv, HookInv
      <3>2. terminals[s].attached
        BY <2>1, <3>1 DEF HookLocal
      <3>3. News(s, DOMAIN terminals[s].reply.patch)
        BY <2>1, <3>1, <3>2 DEF Faultless
      <3>4. QED
        BY <2>1, <3>3 DEF News
    <2>2. QED
      BY <2>1
  <1>. HIDE DEF I
  <1>4. QED
    BY <1>1, <1>2, <1>3, PTL DEF ShellSpec, PullKeepsEdits

===============================================================================
