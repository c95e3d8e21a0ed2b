-------------------------- MODULE GuardedInstall_proofs ------------------------
(***************************************************************************)
(* For any number of runs, saves, deaths and power losses, the guarded     *)
(* replacement of the startup file keeps its types, never destroys the     *)
(* user's newest save, shows a shell complete files only, reports a run    *)
(* installed only when that is durable, implements StartupFile, keeps a    *)
(* journal that decodes beside whatever it displaced, and leaves no trace  *)
(* of a run that did not install.                                          *)
(***************************************************************************)
EXTENDS GuardedInstall, TLAPS

(* A record's generation is at most the place of its state on the longest  *)
(* way through the journal: this bounds the journal at MaxGeneration.      *)
Rank(state) ==
  CASE state = "prepared" -> 1
    [] state \in {"exchanged", "created"} -> 2
    [] state = "parent_synced" -> 3
    [] state = "reversed" -> 4
    [] state = "finalized" -> 5

Ranked(p) ==
  /\ p.generation <= Rank(p.record.state)
  /\ p.stage = "writing" => p.generation + 1 <= Rank(p.next.state)
  /\ p.stage \in {"idle", "captured", "locked", "staged", "synced", "evidenced"} =>
       p.generation = 0

TypeInv ==
  /\ TypeOK
  /\ \A t \in Transactions : Ranked(run[t])
  /\ \A t \in Transactions : \A i \in 1 .. 2 :
        slots[t][i].generation <= Rank(slots[t][i].record.state)

(* The user's newest save is in the startup file, or aside as an entry     *)
(* that the candidate of its transaction does not carry.                   *)
Held(f) ==
  f.newest # 0 =>
    \/ f.target.save = f.newest
    \/ \E u \in Transactions : f.peer[u].save = f.newest /\ f.newest # base[u].save

(* While the newest save is the one a candidate was rendered from, the     *)
(* entry aside carries it, be it the candidate or what that displaced.     *)
Paired(f) ==
  \A u \in Transactions :
    f.newest # 0 /\ f.newest = base[u].save /\ f.peer[u] # Missing => f.peer[u].save = f.newest

Sound(f) ==
  /\ Held(f)
  /\ Paired(f)
  /\ \A u \in Transactions : f.peer[u] # Missing => f.directory[u] # "absent"
  /\ f.newest <= saves /\ f.target.save <= saves
  /\ \A u \in Transactions : f.peer[u].save <= saves

(* What a run knows of the current files at each stage.                    *)
Fresh == {"idle", "captured", "locked"}
HasDirectory == Working \ {"locked", "reopened"}
BeforeExchange(p) ==
  \/ p.stage \in {"staged", "synced", "evidenced", "prepared", "checked"}
  \/ p.stage = "writing" /\ p.next.state = "prepared"
  \/ p.stage = "recorded" /\ p.record.state = "prepared"

(* An installed run displaced what it rendered its candidate from.         *)
Derived(t) ==
  LET p == run[t]
      installed == p.disposition = "installed" IN
  /\ p.stage = "forward" => p.record.displaced = base[t]
  /\ p.stage = "writing" =>
       (p.next.state \in {"created", "parent_synced"} \/ (p.next.state = "finalized" /\ installed)
          => p.next.displaced = base[t])
  /\ p.stage = "recorded" =>
       (p.record.state \in {"created", "parent_synced"} \/ (p.record.state = "finalized" /\ installed)
          => p.record.displaced = base[t])
  /\ p.stage \in {"settled", "closing"} /\ installed => p.record.displaced = base[t]

Knows(t) ==
  /\ run[t].stage \in Fresh => \A f \in survivors : f.peer[t] = Missing
  /\ run[t].stage \in HasDirectory => files.directory[t] # "absent"
  /\ BeforeExchange(run[t]) => files.peer[t] # Missing
  /\ run[t].stage \in {"rollback", "reverse"} => run[t].record.displaced # Missing
  /\ run[t].stage = "reversing" => files.peer[t] # Missing
  /\ run[t].stage \in {"checked", "reversing"} =>
       (files.newest # 0 /\ files.newest = base[t].save => files.target.save = base[t].save)
  /\ run[t].stage \in {"stripping", "stripped"} => files.peer[t] = Missing
  /\ base[t].save <= saves
  /\ Derived(t)

KeptInv ==
  /\ TypeInv
  /\ \A f \in survivors : Sound(f)
  /\ \A t \in Transactions : Knows(t)

--------------------------------------------------------------------------------
(* Types                                                                   *)

LEMMA EntryFacts ==
  /\ Missing \in Entry /\ Missing.save = 0
  /\ User # Nobody
  /\ \A t \in Transactions : t # Nobody /\ t # User /\ t # Free
  BY InstallAssumption DEF Missing, Entry

LEMMA CandidateType ==
  ASSUME NEW t \in Transactions, base[t] \in Entry
  PROVE  /\ Candidate(t) \in Entry
         /\ Candidate(t).save = base[t].save /\ Candidate(t).by = t
         /\ Candidate(t) # Missing
  BY InstallAssumption DEF Candidate, Entry, Missing

LEMMA RecordFacts ==
  /\ Prepared \in Record /\ Prepared.state = "prepared"
  /\ \A r \in Record : r.state \in States /\ r.displaced \in Entry
  /\ \A r \in Record : r.state \in {"exchanged", "reversed"} => r.displaced # Missing
  /\ \A state \in States, e \in Entry :
        e \in Displaced(state) => [state |-> state, displaced |-> e] \in Record
  BY EntryFacts DEF Prepared, Record, Displaced, States

LEMMA NewProcessFacts ==
  /\ NewProcess \in Process /\ Ranked(NewProcess)
  /\ \A stage \in Stages :
        LET p == [NewProcess EXCEPT !.stage = stage] IN
        p \in Process /\ (stage # "writing" => Ranked(p))
  <1>1. NewProcess \in Process /\ NewProcess.generation = 0 /\ NewProcess.record = Prepared
    BY RecordFacts DEF NewProcess, Process, Stages, Dispositions, MaxGeneration
  <1>2. Rank(Prepared.state) = 1
    BY RecordFacts DEF Rank
  <1>3. Ranked(NewProcess)
    BY <1>1, <1>2 DEF Ranked, NewProcess
  <1>4. ASSUME NEW stage \in Stages
        PROVE  LET p == [NewProcess EXCEPT !.stage = stage] IN
               p \in Process /\ (stage # "writing" => Ranked(p))
    <2> DEFINE p == [NewProcess EXCEPT !.stage = stage]
    <2>1. p \in Process /\ p.generation = 0 /\ p.record = Prepared /\ p.stage = stage
      BY <1>1 DEF Process
    <2>2. QED
      BY <1>2, <2>1 DEF Ranked
  <1>5. QED
    BY <1>1, <1>3, <1>4

LEMMA RankType == \A state \in States : Rank(state) \in 1 .. MaxGeneration
  BY DEF Rank, States, MaxGeneration

(* A valid transition moves the record on.                                 *)
LEMMA TransitionRanks ==
  ASSUME NEW previous \in Record, NEW next,
         validInstallPromotionJournalTransition(previous, next), next.state \in States
  PROVE  Rank(previous.state) + 1 <= Rank(next.state)
  BY DEF validInstallPromotionJournalTransition, Rank, States

(* What a journal decodes to is in one of its slots.                       *)
LEMMA DecodedSlot ==
  ASSUME TypeInv, NEW t \in Transactions, NEW slot \in Decoded(slots[t])
  PROVE  /\ slot \in Slot /\ slot.record \in Record
         /\ slot.generation \in 0 .. MaxGeneration
         /\ slot.generation <= Rank(slot.record.state)
  <1>1. PICK i \in 1 .. 2 : slot = slots[t][i]
    BY DEF Decoded, Valid
  <1>2. QED
    BY <1>1 DEF TypeInv, TypeOK, Slot

LEMMA InitialTypes == Init => TypeInv
  <1> SUFFICES ASSUME Init PROVE TypeInv
    OBVIOUS
  <1>1. EmptySlot \in Slot /\ EmptySlot.generation <= Rank(EmptySlot.record.state)
    BY RecordFacts DEF EmptySlot, Slot, Contents, MaxGeneration, Rank
  <1>2. PICK target \in {Missing, [by |-> User, save |-> 1, link |-> FALSE]} :
          /\ files = [target |-> target, newest |-> target.save,
                      directory |-> [t \in Transactions |-> "absent"],
                      peer |-> [t \in Transactions |-> Missing]]
          /\ saves = target.save
    BY DEF Init
  <1>3. target \in Entry /\ target.save \in 0 .. MaxSaves
    <2>1. 1 \in 0 .. MaxSaves /\ 0 \in 0 .. MaxSaves
      BY InstallAssumption
    <2>2. [by |-> User, save |-> 1, link |-> FALSE] \in Entry
      BY <2>1 DEF Entry
    <2>3. CASE target = Missing
      BY <2>1, <2>3, EntryFacts
    <2>4. CASE target = [by |-> User, save |-> 1, link |-> FALSE]
      BY <2>1, <2>2, <2>4
    <2>5. QED
      BY <1>2, <2>3, <2>4
  <1>4. files \in Files
    BY <1>2, <1>3, EntryFacts DEF Files, Directories
  <1>5. \A t \in Transactions : (lock = t) = (run[t].stage \in Working)
    BY EntryFacts DEF Init, NewProcess, Working
  <1>6. stops \in 0 .. MaxStops
    BY InstallAssumption DEF Init
  <1>7. TypeOK
    BY <1>1, <1>2, <1>3, <1>4, <1>5, <1>6, EntryFacts, NewProcessFacts DEF Init, TypeOK, Contents
  <1>8. QED
    BY <1>1, <1>7, NewProcessFacts DEF Init, TypeInv, NewProcess, Ranked

(* A step of the process of t: what it becomes, and what becomes of the    *)
(* lock.                                                                   *)
Steps(t, p) ==
  /\ p \in Process /\ Ranked(p)
  /\ run' = [run EXCEPT ![t] = p]
  /\ (lock' = t) = (p.stage \in Working)
  /\ lock' = lock \/ (lock = t /\ lock' = Free) \/ (lock = Free /\ lock' = t)

LEMMA ProcessStep ==
  ASSUME TypeInv, NEW t \in Transactions, NEW p, Steps(t, p)
  PROVE  /\ run' \in [Transactions -> Process]
         /\ \A u \in Transactions : Ranked(run'[u])
         /\ lock' \in Transactions \union {Free}
         /\ \A u \in Transactions : (lock' = u) = (run'[u].stage \in Working)
  <1>0. run \in [Transactions -> Process] /\ lock \in Transactions \union {Free}
    BY DEF TypeInv, TypeOK
  <1>1. run' \in [Transactions -> Process]
    BY <1>0 DEF Steps
  <1>2. \A u \in Transactions : Ranked(run'[u])
    BY <1>0 DEF Steps, TypeInv
  <1>3. ASSUME NEW u \in Transactions PROVE (lock' = u) = (run'[u].stage \in Working)
    <2>1. CASE u = t
      BY <1>0, <2>1 DEF Steps
    <2>2. CASE u # t
      <3>1. run'[u] = run[u]
        BY <1>0, <2>2 DEF Steps
      <3>2. (lock' = u) = (lock = u)
        BY <2>2, EntryFacts DEF Steps
      <3>3. QED
        BY <3>1, <3>2 DEF TypeInv, TypeOK
    <2>3. QED
      BY <2>1, <2>2
  <1>4. QED
    BY <1>0, <1>1, <1>2, <1>3 DEF Steps

(* A process that holds the lock and goes on with what it has.             *)
LEMMA GoingOn ==
  ASSUME TypeInv, NEW t \in Transactions,
         NEW stage \in Working \ {"writing"}, NEW disposition \in Dispositions,
         run[t].stage \in Working,
         stage \in {"staged", "synced", "evidenced"} => run[t].generation = 0,
         stage # "locked",
         run' = [run EXCEPT ![t].stage = stage, ![t].disposition = disposition],
         UNCHANGED lock
  PROVE  Steps(t, [run[t] EXCEPT !.stage = stage, !.disposition = disposition])
  <1> DEFINE p == [run[t] EXCEPT !.stage = stage, !.disposition = disposition]
  <1>1. run \in [Transactions -> Process] /\ run[t] \in Process /\ Ranked(run[t])
    BY DEF TypeInv, TypeOK
  <1>2. p \in Process /\ p.stage = stage /\ p.generation = run[t].generation
        /\ p.record = run[t].record
    BY <1>1 DEF Process, Working
  <1>3. Ranked(p)
    BY <1>1, <1>2 DEF Ranked, Working
  <1>4. run' = [run EXCEPT ![t] = p]
    BY <1>1
  <1>5. (lock' = t) = (p.stage \in Working)
    BY <1>2 DEF TypeInv, TypeOK
  <1>6. QED
    BY <1>2, <1>3, <1>4, <1>5 DEF Steps

LEMMA GotoIsGoingOn ==
  ASSUME TypeInv, NEW t \in Transactions, NEW stage, Goto(t, stage)
  PROVE  /\ run' = [run EXCEPT ![t].stage = stage, ![t].disposition = run[t].disposition]
         /\ run[t].disposition \in Dispositions
  <1>1. run \in [Transactions -> Process] /\ run[t] \in Process
    BY DEF TypeInv, TypeOK
  <1>2. [run[t] EXCEPT !.stage = stage] =
        [run[t] EXCEPT !.stage = stage, !.disposition = run[t].disposition]
    BY <1>1 DEF Process
  <1>3. QED
    BY <1>1, <1>2 DEF Goto, Process

(* A slot is written with the record that is to follow.                    *)
LEMMA SlotWritten ==
  ASSUME TypeInv, NEW t \in Transactions, NEW p \in Process, NEW record \in Record,
         p.generation + 1 <= Rank(record.state), p.generation <= Rank(p.record.state),
         WriteSlot(t, p, record),
         run[t].stage \in Working, UNCHANGED lock
  PROVE  /\ Steps(t, [p EXCEPT !.stage = "writing", !.next = record])
         /\ slots' \in [Transactions -> [1 .. 2 -> Slot]]
         /\ \A u \in Transactions : \A i \in 1 .. 2 :
               slots'[u][i].generation <= Rank(slots'[u][i].record.state)
  <1> DEFINE q == [p EXCEPT !.stage = "writing", !.next = record]
             slot == [generation |-> p.generation + 1, record |-> record, contents |-> "unsynced"]
             i0 == SlotOf(p.generation + 1)
  <1>0. /\ run \in [Transactions -> Process] /\ slots \in [Transactions -> [1 .. 2 -> Slot]]
        /\ Rank(record.state) \in 1 .. MaxGeneration /\ p.generation \in 0 .. MaxGeneration
    BY RankType, RecordFacts DEF TypeInv, TypeOK, Process
  <1>1. q \in Process /\ q.stage = "writing" /\ q.next = record
        /\ q.generation = p.generation /\ q.record = p.record
    BY DEF Process, Stages
  <1>2. Ranked(q)
    BY <1>1 DEF Ranked
  <1>3. Steps(t, q)
    <2>1. run' = [run EXCEPT ![t] = q]
      BY DEF WriteSlot
    <2>2. lock = t /\ q.stage \in Working
      BY <1>1 DEF TypeInv, TypeOK, Working, Stages
    <2>3. QED
      BY <1>1, <1>2, <2>1, <2>2 DEF Steps
  <1>4. slot \in Slot /\ slot.generation <= Rank(slot.record.state)
    BY <1>0 DEF Slot, Contents, MaxGeneration
  <1>5. i0 \in 1 .. 2
    BY DEF SlotOf
  <1>6. slots' = [slots EXCEPT ![t][i0] = slot]
    BY DEF WriteSlot
  <1>7. slots' \in [Transactions -> [1 .. 2 -> Slot]]
    BY <1>0, <1>4, <1>5, <1>6
  <1>8. ASSUME NEW u \in Transactions, NEW i \in 1 .. 2
        PROVE  slots'[u][i].generation <= Rank(slots'[u][i].record.state)
    <2>1. CASE u = t /\ i = i0
      <3>1. slots'[u][i] = slot
        BY <1>0, <1>5, <1>6, <2>1
      <3>2. QED
        BY <1>4, <3>1
    <2>2. CASE ~(u = t /\ i = i0)
      <3>1. slots'[u][i] = slots[u][i]
        BY <1>0, <1>5, <1>6, <2>2
      <3>2. QED
        BY <3>1 DEF TypeInv
    <2>3. QED
      BY <2>1, <2>2
  <1>9. QED
    BY <1>3, <1>7, <1>8

LEMMA JournalWritten ==
  ASSUME TypeInv, NEW t \in Transactions, NEW record, record.state \in States,
         record = [state |-> record.state, displaced |-> record.displaced],
         record.displaced \in Entry,
         WriteJournal(t, record), run[t].stage \in Working, UNCHANGED lock
  PROVE  /\ record \in Record
         /\ Steps(t, [run[t] EXCEPT !.stage = "writing", !.next = record])
         /\ slots' \in [Transactions -> [1 .. 2 -> Slot]]
         /\ \A u \in Transactions : \A i \in 1 .. 2 :
               slots'[u][i].generation <= Rank(slots'[u][i].record.state)
  <1>1. run[t] \in Process /\ run[t].record \in Record /\ Ranked(run[t])
        /\ run[t].generation \in 0 .. MaxGeneration
    BY DEF TypeInv, TypeOK, Process
  <1>2. validInstallPromotionJournalTransition(run[t].record, record)
        /\ WriteSlot(t, run[t], record)
    BY DEF WriteJournal
  <1>3. record \in Record
    BY <1>2, RecordFacts DEF validInstallPromotionJournalTransition
  <1>4. Rank(run[t].record.state) + 1 <= Rank(record.state)
    BY <1>1, <1>2, TransitionRanks
  <1>5. /\ run[t].generation <= Rank(run[t].record.state)
        /\ Rank(run[t].record.state) \in 1 .. MaxGeneration
        /\ Rank(record.state) \in 1 .. MaxGeneration
    BY <1>1, RankType, RecordFacts DEF Ranked
  <1>6. run[t].generation + 1 <= Rank(record.state)
    BY <1>1, <1>4, <1>5
  <1>7. QED
    BY <1>1, <1>2, <1>3, <1>5, <1>6, SlotWritten

FilesTyped == files' \in Files /\ survivors' \subseteq Files /\ files' \in survivors'

LEMMA FilesSteps ==
  ASSUME TypeInv
  PROVE  /\ \A f \in Files : Change(f) => FilesTyped
         /\ SyncDirectory => FilesTyped
         /\ UnchangedFiles => FilesTyped
         /\ \A t \in Transactions, e \in Entry, d \in Directories :
              /\ [files EXCEPT !.directory[t] = d] \in Files
              /\ [files EXCEPT !.peer[t] = e] \in Files
              /\ [files EXCEPT !.directory[t] = d, !.peer[t] = e] \in Files
         /\ \A t \in Transactions : Exchanged(t) \in Files
         /\ \A e \in Entry : [files EXCEPT !.target = e, !.newest = e.save] \in Files
         /\ files.target \in Entry /\ files.peer \in [Transactions -> Entry]
         /\ files.directory \in [Transactions -> Directories]
         /\ files.newest \in 0 .. MaxSaves
  <1>0. files \in Files /\ survivors \subseteq Files /\ files \in survivors
    BY DEF TypeInv, TypeOK
  <1>1. /\ files.target \in Entry /\ files.peer \in [Transactions -> Entry]
        /\ files.directory \in [Transactions -> Directories]
        /\ files.newest \in 0 .. MaxSaves
    BY <1>0 DEF Files
  <1>2. ASSUME NEW t \in Transactions, NEW e \in Entry, NEW d \in Directories
        PROVE  /\ [files EXCEPT !.directory[t] = d] \in Files
               /\ [files EXCEPT !.peer[t] = e] \in Files
               /\ [files EXCEPT !.directory[t] = d, !.peer[t] = e] \in Files
    BY <1>0 DEF Files
  <1>3. ASSUME NEW t \in Transactions PROVE Exchanged(t) \in Files
    BY <1>0, <1>1 DEF Files, Exchanged
  <1>4. ASSUME NEW e \in Entry
        PROVE  [files EXCEPT !.target = e, !.newest = e.save] \in Files
    <2>1. e.save \in 0 .. MaxSaves
      BY DEF Entry
    <2>2. QED
      BY <1>0, <2>1 DEF Files
  <1>5. \A f \in Files : Change(f) => FilesTyped
    BY <1>0 DEF Change, FilesTyped
  <1>6. SyncDirectory \/ UnchangedFiles => FilesTyped
    BY <1>0 DEF SyncDirectory, UnchangedFiles, FilesTyped
  <1>7. QED
    BY <1>1, <1>2, <1>3, <1>4, <1>5, <1>6

(* What a step of one process leaves typed, if its files, its slots and    *)
(* the rest are.                                                           *)
SlotsTyped ==
  /\ slots' \in [Transactions -> [1 .. 2 -> Slot]]
  /\ \A u \in Transactions : \A i \in 1 .. 2 :
        slots'[u][i].generation <= Rank(slots'[u][i].record.state)

LEMMA Assemble ==
  ASSUME TypeInv, NEW t \in Transactions, NEW p, Steps(t, p), FilesTyped, SlotsTyped,
         candidate' \in [Transactions -> Contents], base' \in [Transactions -> Entry],
         saves' \in 0 .. MaxSaves, stops' \in 0 .. MaxStops
  PROVE  TypeInv'
  <1>1. /\ run' \in [Transactions -> Process]
        /\ \A u \in Transactions : Ranked(run'[u])
        /\ lock' \in Transactions \union {Free}
        /\ \A u \in Transactions : (lock' = u) = (run'[u].stage \in Working)
    BY ProcessStep
  <1>2. TypeOK'
    BY <1>1 DEF FilesTyped, SlotsTyped, TypeOK
  <1>3. QED
    BY <1>1, <1>2 DEF SlotsTyped, TypeInv

LEMMA Rest ==
  ASSUME TypeInv
  PROVE  /\ UNCHANGED slots => SlotsTyped
         /\ UNCHANGED candidate => candidate' \in [Transactions -> Contents]
         /\ UNCHANGED base => base' \in [Transactions -> Entry]
         /\ UNCHANGED saves => saves' \in 0 .. MaxSaves
         /\ UNCHANGED stops => stops' \in 0 .. MaxStops
  BY DEF TypeInv, TypeOK, SlotsTyped

(* The steps of one run, by what they change of its process.               *)
LEMMA PrepareTypes ==
  ASSUME TypeInv, NEW t \in Transactions, Prepare(t)
  PROVE  TypeInv'
  <1> USE DEF UnchangedBytes, UnchangedWorld, Only, At
  <1>0. /\ run \in [Transactions -> Process] /\ run[t] \in Process /\ Ranked(run[t])
        /\ (lock = t) = (run[t].stage \in Working)
        /\ candidate \in [Transactions -> Contents] /\ base \in [Transactions -> Entry]
        /\ base[t] \in Entry
    BY DEF TypeInv, TypeOK
  <1>1. CASE captureInstallSnapshot(t)
    <2> DEFINE p == [run[t] EXCEPT !.stage = "captured"]
    <2>1. p \in Process /\ Ranked(p) /\ p.stage = "captured"
      BY <1>0, <1>1 DEF captureInstallSnapshot, Process, Ranked, Stages
    <2>2. run' = [run EXCEPT ![t] = p] /\ UNCHANGED lock /\ lock # t
      BY <1>0, <1>1 DEF captureInstallSnapshot, Goto, Working
    <2>3. Steps(t, p)
      BY <2>1, <2>2 DEF Steps, Working
    <2>4. base' \in [Transactions -> Entry]
      BY <1>0, <1>1, FilesSteps DEF captureInstallSnapshot
    <2>5. QED
      BY <1>1, <2>3, <2>4, Assemble, Rest, FilesSteps DEF captureInstallSnapshot
  <1>2. CASE openTargetTransactionGuard(t)
    <2>1. PICK stage \in {"locked", "reopened"} :
            /\ Goto(t, stage)
            /\ stage = "locked" => run[t].generation = 0
            /\ run[t].stage \in {"captured", "reopening"}
      BY <1>0, <1>2 DEF openTargetTransactionGuard, Ranked
    <2> DEFINE p == [run[t] EXCEPT !.stage = stage]
    <2>2. p \in Process /\ Ranked(p) /\ p.stage = stage
      BY <1>0, <2>1 DEF Process, Ranked, Stages
    <2>3. run' = [run EXCEPT ![t] = p] /\ lock = Free /\ lock' = t
      BY <1>2, <2>1 DEF openTargetTransactionGuard, Goto
    <2>4. stage \in Working
      BY <2>1 DEF Working, Stages
    <2>5. Steps(t, p)
      BY <2>2, <2>3, <2>4 DEF Steps
    <2>6. QED
      BY <1>2, <2>5, Assemble, Rest, FilesSteps DEF openTargetTransactionGuard
  <1>3. CASE StageCandidate(t)
    <2>1. Goto(t, "staged") /\ run[t].stage = "locked" /\ UNCHANGED lock
      BY <1>3 DEF StageCandidate
    <2>2. Steps(t, [run[t] EXCEPT !.stage = "staged", !.disposition = run[t].disposition])
      BY <1>0, <2>1, GoingOn, GotoIsGoingOn DEF Working, Stages, Ranked
    <2>3. FilesTyped
      BY <1>0, <1>3, FilesSteps, CandidateType DEF StageCandidate, Directories
    <2>4. candidate' \in [Transactions -> Contents]
      BY <1>0, <1>3 DEF StageCandidate, Contents
    <2>5. QED
      BY <1>3, <2>2, <2>3, <2>4, Assemble, Rest DEF StageCandidate
  <1>4. CASE SyncCandidate(t)
    <2>1. Goto(t, "synced") /\ run[t].stage = "staged" /\ UNCHANGED lock
      BY <1>4 DEF SyncCandidate
    <2>2. Steps(t, [run[t] EXCEPT !.stage = "synced", !.disposition = run[t].disposition])
      BY <1>0, <2>1, GoingOn, GotoIsGoingOn DEF Working, Stages, Ranked
    <2>3. candidate' \in [Transactions -> Contents]
      BY <1>0, <1>4 DEF SyncCandidate, Contents
    <2>4. QED
      BY <1>4, <2>2, <2>3, Assemble, Rest, FilesSteps DEF SyncCandidate
  <1>5. CASE SyncArtifacts(t)
    <2>1. Goto(t, "evidenced") /\ run[t].stage = "synced" /\ UNCHANGED lock
      BY <1>5 DEF SyncArtifacts
    <2>2. Steps(t, [run[t] EXCEPT !.stage = "evidenced", !.disposition = run[t].disposition])
      BY <1>0, <2>1, GoingOn, GotoIsGoingOn DEF Working, Stages, Ranked
    <2>3. QED
      BY <1>5, <2>2, Assemble, Rest, FilesSteps DEF SyncArtifacts
  <1>6. CASE createPreparedJournal(t)
    <2>1. run[t].generation = 0 /\ run[t].record \in Record /\ run[t].stage = "evidenced"
      BY <1>0, <1>6 DEF createPreparedJournal, Ranked, Process
    <2>2. Rank(Prepared.state) = 1 /\ Rank(run[t].record.state) \in 1 .. MaxGeneration
      BY <2>1, RankType, RecordFacts DEF Rank
    <2>3. WriteSlot(t, run[t], Prepared) /\ UNCHANGED lock
      BY <1>6 DEF createPreparedJournal
    <2>4. run[t].stage \in Working
      BY <2>1 DEF Working, Stages
    <2>5. /\ run[t].generation + 1 <= Rank(Prepared.state)
          /\ run[t].generation <= Rank(run[t].record.state)
      BY <2>1, <2>2
    <2>6. Prepared \in Record
      BY RecordFacts
    <2>7. Steps(t, [run[t] EXCEPT !.stage = "writing", !.next = Prepared]) /\ SlotsTyped
      BY <1>0, <2>5, <2>6, <2>3, <2>4, SlotWritten DEF SlotsTyped
    <2>8. FilesTyped
      BY <1>6, FilesSteps DEF createPreparedJournal, Directories
    <2>9. QED
      BY <1>6, <2>7, <2>8, Assemble, Rest DEF createPreparedJournal
  <1>7. QED
    BY <1>1, <1>2, <1>3, <1>4, <1>5, <1>6 DEF Prepare

LEMMA JournalTypes ==
  ASSUME TypeInv, NEW t \in Transactions, Journal(t)
  PROVE  TypeInv'
  <1> USE DEF UnchangedWorld, Only, At
  <1>0. /\ run \in [Transactions -> Process] /\ run[t] \in Process /\ Ranked(run[t])
        /\ (lock = t) = (run[t].stage \in Working)
        /\ slots \in [Transactions -> [1 .. 2 -> Slot]]
    BY DEF TypeInv, TypeOK
  <1>1. CASE SyncJournal(t)
    <2> DEFINE p == [run[t] EXCEPT !.stage = "recorded", !.record = run[t].next,
                                   !.generation = @ + 1]
    <2>1. /\ run[t].next \in Record /\ run[t].stage = "writing"
          /\ run[t].generation \in 0 .. MaxGeneration
          /\ run[t].generation + 1 <= Rank(run[t].next.state)
      BY <1>0, <1>1 DEF SyncJournal, Process, Ranked
    <2>2. Rank(run[t].next.state) \in 1 .. MaxGeneration
      BY <2>1, RankType, RecordFacts
    <2>3. run[t].generation + 1 \in 0 .. MaxGeneration
      BY <2>1, <2>2 DEF MaxGeneration
    <2>4. p \in Process /\ p.stage = "recorded" /\ p.record = run[t].next
          /\ p.generation = run[t].generation + 1
      BY <1>0, <2>1, <2>3 DEF Process, Stages
    <2>5. Ranked(p)
      BY <2>1, <2>4 DEF Ranked
    <2>6. run' = [run EXCEPT ![t] = p] /\ UNCHANGED lock
      BY <1>0, <1>1 DEF SyncJournal
    <2>7. run[t].stage \in Working /\ "recorded" \in Working
      BY <2>1 DEF Working, Stages
    <2>8. Steps(t, p)
      BY <1>0, <2>4, <2>5, <2>6, <2>7 DEF Steps
    <2>9. ASSUME NEW u \in Transactions, NEW i \in 1 .. 2
          PROVE  /\ slots'[u][i] \in Slot
                 /\ slots'[u][i].generation <= Rank(slots'[u][i].record.state)
      <3>0. slots[u][i] \in Slot /\ slots[u][i].generation <= Rank(slots[u][i].record.state)
        BY <1>0 DEF TypeInv
      <3>1. slots'[u][i] = slots[u][i]
            \/ slots'[u][i] = [slots[u][i] EXCEPT !.contents = "whole"]
        BY <1>0, <1>1 DEF SyncJournal
      <3>2. QED
        BY <3>0, <3>1 DEF Slot, Contents
    <2>10. SlotsTyped
      BY <1>0, <1>1, <2>9 DEF SyncJournal, SlotsTyped
    <2>11. QED
      BY <1>1, <2>8, <2>10, Assemble, Rest, FilesSteps DEF SyncJournal
  <1>2. CASE SyncJournalDirectory(t)
    <2> DEFINE stage == After(t)
               disposition == IF run[t].record.state = "parent_synced" THEN "installed"
                              ELSE run[t].disposition
    <2>1. run[t].record \in Record /\ run[t].record.state \in States
          /\ run[t].stage = "recorded" /\ run[t].disposition \in Dispositions
      BY <1>0, <1>2, RecordFacts DEF SyncJournalDirectory, Process
    <2>2. stage \in {"prepared", "rollback", "forward", "reverse", "settled", "backward", "closing"}
      BY <2>1 DEF After, States
    <2>3. stage \in Working \ {"writing"} /\ stage \notin {"staged", "synced", "evidenced", "locked"}
      BY <2>2 DEF Working, Stages
    <2>4. disposition \in Dispositions /\ run[t].stage \in Working
      BY <2>1 DEF Dispositions, Working, Stages
    <2>5. run' = [run EXCEPT ![t].stage = stage, ![t].disposition = disposition] /\ UNCHANGED lock
      BY <1>2 DEF SyncJournalDirectory
    <2>6. Steps(t, [run[t] EXCEPT !.stage = stage, !.disposition = disposition])
      BY <2>3, <2>4, <2>5, GoingOn
    <2>7. QED
      BY <1>2, <2>6, Assemble, Rest, FilesSteps DEF SyncJournalDirectory, UnchangedBytes
  <1>3. QED
    BY <1>1, <1>2 DEF Journal

(* Steps that only move a process with the lock to another stage, and      *)
(* touch nothing but files.                                                *)
Moved(t, stage) == Goto(t, stage) \/ \E d \in Dispositions : stage = "settled" /\ Settled(t, d)

LEMMA MovedTypes ==
  ASSUME TypeInv, NEW t \in Transactions,
         NEW stage \in Working \ {"locked", "staged", "synced", "evidenced", "writing"},
         run[t].stage \in Working, Moved(t, stage), FilesTyped, UnchangedBytes, Only(t)
  PROVE  TypeInv'
  <1>1. PICK d \in Dispositions :
           run' = [run EXCEPT ![t].stage = stage, ![t].disposition = d]
    BY GotoIsGoingOn DEF Moved, Settled
  <1>2. Steps(t, [run[t] EXCEPT !.stage = stage, !.disposition = d])
    BY <1>1, GoingOn DEF Only
  <1>3. QED
    BY <1>2, Assemble, Rest DEF UnchangedBytes, Only, UnchangedWorld

(* Steps that write the journal.                                           *)
LEMMA WritingTypes ==
  ASSUME TypeInv, NEW t \in Transactions, NEW record, record.state \in States,
         record = [state |-> record.state, displaced |-> record.displaced],
         record.displaced \in Entry,
         WriteJournal(t, record), run[t].stage \in Working, FilesTyped, UNCHANGED candidate, Only(t)
  PROVE  TypeInv'
  <1>1. Steps(t, [run[t] EXCEPT !.stage = "writing", !.next = record]) /\ SlotsTyped
    BY JournalWritten DEF SlotsTyped, Only
  <1>2. QED
    BY <1>1, Assemble, Rest DEF Only, UnchangedWorld

(* The record of a process with another state.                             *)
LEMMA SucceedingRecord ==
  ASSUME TypeInv, NEW t \in Transactions, NEW state \in States
  PROVE  LET record == [run[t].record EXCEPT !.state = state] IN
         /\ record = [state |-> record.state, displaced |-> record.displaced]
         /\ record.state = state /\ record.displaced = run[t].record.displaced
         /\ record.displaced \in Entry
  <1>1. run[t].record \in [state : States, displaced : Entry]
    BY DEF TypeInv, TypeOK, Process, Record
  <1>2. QED
    BY <1>1

(* The stages of promote, the way back and finalize hold the lock.         *)
LEMMA WorkingStages ==
  /\ {"locked", "staged", "synced", "evidenced", "writing", "recorded", "prepared", "checked",
       "swapped", "forward", "reverse", "rollback", "reversing", "swapped_back", "backward",
       "settled", "closing", "stripping", "stripped", "reopened"} = Working
  BY DEF Working, Stages

LEMMA PromoteTypes ==
  ASSUME TypeInv, NEW t \in Transactions, promote(t)
  PROVE  TypeInv'
  <1> USE DEF At
  <1>1. CASE CheckTarget(t)
    <2>1. Moved(t, "checked") \/ Moved(t, "settled")
      BY <1>1 DEF CheckTarget, Moved, Dispositions
    <2>2. FilesTyped /\ UnchangedBytes /\ Only(t) /\ run[t].stage \in Working
      BY <1>1, FilesSteps, WorkingStages DEF CheckTarget
    <2>3. QED
      BY <2>1, <2>2, MovedTypes, WorkingStages
  <1>2. CASE Promote(t)
    <2>1. Moved(t, "swapped") /\ FilesTyped
      BY <1>2, FilesSteps DEF Promote, Moved
    <2>2. UnchangedBytes /\ Only(t) /\ run[t].stage \in Working
      BY <1>2, WorkingStages DEF Promote
    <2>3. QED
      BY <2>1, <2>2, MovedTypes, WorkingStages
  <1>3. CASE PromoteRefused(t)
    <2>1. Moved(t, "settled")
      BY <1>3 DEF PromoteRefused, Moved, Dispositions
    <2>2. FilesTyped /\ UnchangedBytes /\ Only(t) /\ run[t].stage \in Working
      BY <1>3, FilesSteps, WorkingStages DEF PromoteRefused
    <2>3. QED
      BY <2>1, <2>2, MovedTypes, WorkingStages
  <1>4. CASE RecordPromotion(t)
    <2> DEFINE state == IF Exists(base[t]) THEN "exchanged" ELSE "created"
               record == [state |-> state, displaced |-> files.peer[t]]
    <2>1. WriteJournal(t, record)
      BY <1>4 DEF RecordPromotion
    <2>2. FilesTyped /\ UNCHANGED candidate /\ Only(t) /\ run[t].stage \in Working
      BY <1>4, FilesSteps, WorkingStages DEF RecordPromotion
    <2>3. state \in States /\ files.peer[t] \in Entry
      BY FilesSteps DEF States
    <2>4. record.state \in States /\ record.displaced \in Entry
          /\ record = [state |-> record.state, displaced |-> record.displaced]
      BY <2>3
    <2>5. QED
      BY <2>1, <2>2, <2>4, WritingTypes
  <1>5. CASE SyncForward(t)
    <2> DEFINE record == [run[t].record EXCEPT !.state = "parent_synced"]
    <2>1. WriteJournal(t, record)
      BY <1>5 DEF SyncForward
    <2>2. FilesTyped /\ UNCHANGED candidate /\ Only(t) /\ run[t].stage \in Working
      BY <1>5, FilesSteps, WorkingStages DEF SyncForward
    <2>3. "parent_synced" \in States
      BY DEF States
    <2>4. QED
      BY <2>1, <2>2, <2>3, SucceedingRecord, WritingTypes
  <1>6. QED
    BY <1>1, <1>2, <1>3, <1>4, <1>5 DEF promote

LEMMA WayBackTypes ==
  ASSUME TypeInv, NEW t \in Transactions, WayBack(t)
  PROVE  TypeInv'
  <1> USE DEF At
  <1>1. CASE reverseLateSubstitution(t) \/ rollback(t)
    <2>1. Moved(t, "reversing")
      BY <1>1 DEF reverseLateSubstitution, rollback, Moved
    <2>2. FilesTyped /\ UnchangedBytes /\ Only(t) /\ run[t].stage \in Working
      BY <1>1, FilesSteps, WorkingStages DEF reverseLateSubstitution, rollback
    <2>3. QED
      BY <2>1, <2>2, MovedTypes, WorkingStages
  <1>2. CASE Reverse(t)
    <2>1. Moved(t, "swapped_back") /\ FilesTyped
      BY <1>2, FilesSteps DEF Reverse, Moved
    <2>2. UnchangedBytes /\ Only(t) /\ run[t].stage \in Working
      BY <1>2, WorkingStages DEF Reverse
    <2>3. QED
      BY <2>1, <2>2, MovedTypes, WorkingStages
  <1>3. CASE RecordReversal(t)
    <2> DEFINE record == [run[t].record EXCEPT !.state = "reversed"]
    <2>1. WriteJournal(t, record)
      BY <1>3 DEF RecordReversal
    <2>2. FilesTyped /\ UNCHANGED candidate /\ Only(t) /\ run[t].stage \in Working
      BY <1>3, FilesSteps, WorkingStages DEF RecordReversal
    <2>3. "reversed" \in States
      BY DEF States
    <2>4. QED
      BY <2>1, <2>2, <2>3, SucceedingRecord, WritingTypes
  <1>4. CASE SyncBackward(t)
    <2>1. Moved(t, "settled")
      BY <1>4 DEF SyncBackward, Moved, Dispositions
    <2>2. FilesTyped /\ UnchangedBytes /\ Only(t) /\ run[t].stage \in Working
      BY <1>4, FilesSteps, WorkingStages DEF SyncBackward
    <2>3. QED
      BY <2>1, <2>2, MovedTypes, WorkingStages
  <1>5. QED
    BY <1>1, <1>2, <1>3, <1>4 DEF WayBack

LEMMA CloseTypes ==
  ASSUME TypeInv, NEW t \in Transactions, Close(t)
  PROVE  TypeInv'
  <1> USE DEF At
  <1>1. CASE finalize(t)
    <2> DEFINE record == [run[t].record EXCEPT !.state = "finalized"]
    <2>1. WriteJournal(t, record)
      BY <1>1 DEF finalize
    <2>2. FilesTyped /\ UNCHANGED candidate /\ Only(t) /\ run[t].stage \in Working
      BY <1>1, FilesSteps, WorkingStages DEF finalize
    <2>3. "finalized" \in States
      BY DEF States
    <2>4. QED
      BY <2>1, <2>2, <2>3, SucceedingRecord, WritingTypes
  <1>2. CASE RemovePeer(t)
    <2>1. Moved(t, "stripping") /\ FilesTyped
      BY <1>2, FilesSteps, EntryFacts DEF RemovePeer, Moved
    <2>2. UnchangedBytes /\ Only(t) /\ run[t].stage \in Working
      BY <1>2, WorkingStages DEF RemovePeer
    <2>3. QED
      BY <2>1, <2>2, MovedTypes, WorkingStages
  <1>3. CASE RemoveArtifacts(t)
    <2>1. Moved(t, "stripped") /\ FilesTyped
      BY <1>3, FilesSteps DEF RemoveArtifacts, Moved, Directories
    <2>2. UnchangedBytes /\ Only(t) /\ run[t].stage \in Working
      BY <1>3, WorkingStages DEF RemoveArtifacts
    <2>3. QED
      BY <2>1, <2>2, MovedTypes, WorkingStages
  <1>4. CASE RemoveDirectory(t)
    <2> DEFINE p == [run[t] EXCEPT !.stage = "done"]
    <2>0. run \in [Transactions -> Process] /\ run[t] \in Process /\ Ranked(run[t])
      BY DEF TypeInv, TypeOK
    <2>1. p \in Process /\ Ranked(p) /\ p.stage = "done"
      BY <2>0 DEF Process, Ranked, Stages
    <2>2. run' = [run EXCEPT ![t] = p] /\ lock' = Free /\ run[t].stage \in Working
      BY <1>4, WorkingStages DEF RemoveDirectory, Goto
    <2>3. lock = t
      BY <2>2 DEF TypeInv, TypeOK
    <2>4. (lock' = t) = (p.stage \in Working)
      BY <2>1, <2>2, EntryFacts DEF Working
    <2>5. Steps(t, p)
      BY <2>1, <2>2, <2>3, <2>4 DEF Steps
    <2>6. FilesTyped
      <3>1. files' = [files EXCEPT !.directory[t] = "absent", !.peer[t] = Missing]
            /\ survivors' = {files'}
        BY <1>4 DEF RemoveDirectory
      <3>2. files' \in Files
        BY <3>1, FilesSteps, EntryFacts DEF Directories
      <3>3. QED
        BY <3>1, <3>2 DEF FilesTyped
    <2>7. QED
      BY <1>4, <2>5, <2>6, Assemble, Rest DEF RemoveDirectory, UnchangedBytes, UnchangedWorld
  <1>5. QED
    BY <1>1, <1>2, <1>3, <1>4 DEF Close

LEMMA RecoverTypes ==
  ASSUME TypeInv, NEW t \in Transactions, Recover(t)
  PROVE  TypeInv'
  <1> USE DEF At, UnchangedBytes, UnchangedWorld, Only
  <1>0. run \in [Transactions -> Process] /\ run[t] \in Process /\ base[t] \in Entry
        /\ lock \in Transactions \union {Free} /\ (lock = t) = (run[t].stage \in Working)
    BY DEF TypeInv, TypeOK
  <1>1. CASE Reopen(t)
    <2> DEFINE p == [NewProcess EXCEPT !.stage = "reopening", !.recovering = TRUE]
    <2>1. p \in Process /\ p.stage = "reopening" /\ p.record = Prepared /\ p.generation = 0
      <3>1. NewProcess \in Process
        BY NewProcessFacts
      <3>2. NewProcess.record = Prepared /\ NewProcess.generation = 0
        BY DEF NewProcess
      <3>3. QED
        BY <3>1, <3>2 DEF Process, Stages
    <2>2. Ranked(p)
      BY <2>1, RecordFacts DEF Ranked, Rank
    <2>3. run' = [run EXCEPT ![t] = p] /\ UNCHANGED lock /\ run[t].stage = "down"
      BY <1>1 DEF Reopen
    <2>4. Steps(t, p)
      BY <1>0, <2>1, <2>2, <2>3 DEF Steps, Working
    <2>5. QED
      BY <1>1, <2>4, Assemble, Rest, FilesSteps DEF Reopen
  <1>2. CASE recoverGuardedInstallTransaction(t)
    <2>1. PICK slot \in Decoded(slots[t]) :
            \/ \E stage \in {"settled", "swapped_back", "backward", "rollback"},
                 d \in Dispositions : Resume(t, slot, stage, d)
            \/ /\ Exists(files.peer[t]) /\ slot.record.state = "prepared"
               /\ WriteSlot(t, [Load(t, slot) EXCEPT !.disposition = "installed"],
                            [state |-> "exchanged", displaced |-> files.peer[t]])
      BY <1>2 DEF recoverGuardedInstallTransaction, Dispositions
    <2>2. /\ slot \in Slot /\ slot.record \in Record
          /\ slot.generation \in 0 .. MaxGeneration
          /\ slot.generation <= Rank(slot.record.state)
      BY DecodedSlot
    <2>3. run[t].stage \in Working /\ UNCHANGED lock /\ FilesTyped /\ UNCHANGED candidate
          /\ UNCHANGED base /\ UNCHANGED saves /\ UNCHANGED stops
      BY <1>2, FilesSteps, WorkingStages DEF recoverGuardedInstallTransaction
    <2>4. ASSUME NEW stage \in {"settled", "swapped_back", "backward", "rollback"},
                 NEW d \in Dispositions, Resume(t, slot, stage, d)
          PROVE  TypeInv'
      <3> DEFINE p == [Load(t, slot) EXCEPT !.stage = stage, !.disposition = d]
      <3>1. p \in Process /\ p.stage = stage /\ p.record = slot.record
            /\ p.generation = slot.generation
        BY <1>0, <2>2 DEF Load, Process, Stages
      <3>2. Ranked(p)
        BY <2>2, <3>1 DEF Ranked
      <3>3. stage \in Working
        BY WorkingStages
      <3>4. Steps(t, p) /\ UNCHANGED slots
        BY <1>0, <2>3, <2>4, <3>1, <3>2, <3>3 DEF Steps, Resume
      <3>5. QED
        BY <2>3, <3>4, Assemble, Rest
    <2>5. ASSUME Exists(files.peer[t]), slot.record.state = "prepared",
                 WriteSlot(t, [Load(t, slot) EXCEPT !.disposition = "installed"],
                           [state |-> "exchanged", displaced |-> files.peer[t]])
          PROVE  TypeInv'
      <3> DEFINE p == [Load(t, slot) EXCEPT !.disposition = "installed"]
                 record == [state |-> "exchanged", displaced |-> files.peer[t]]
      <3>1. p \in Process /\ p.generation = slot.generation /\ p.record = slot.record
        BY <1>0, <2>2 DEF Load, Process, Dispositions
      <3>2. "exchanged" \in States /\ files.peer[t] \in Displaced("exchanged")
            /\ files.peer[t] \in Entry
        BY <2>5, FilesSteps DEF States, Displaced, Exists
      <3>3. record \in Record
        BY <3>2, RecordFacts
      <3>4. Rank(record.state) = 2 /\ Rank(slot.record.state) = 1
        BY <2>5 DEF Rank
      <3>5. p.generation + 1 <= Rank(record.state) /\ p.generation <= Rank(p.record.state)
        BY <2>2, <3>1, <3>4
      <3>6. Steps(t, [p EXCEPT !.stage = "writing", !.next = record]) /\ SlotsTyped
        BY <2>3, <2>5, <3>1, <3>3, <3>5, SlotWritten DEF SlotsTyped
      <3>7. QED
        BY <2>3, <3>6, Assemble, Rest
    <2>6. QED
      BY <2>1, <2>4, <2>5
  <1>3. QED
    BY <1>1, <1>2 DEF Recover

LEMMA StopTypes ==
  ASSUME TypeInv, NEW t \in Transactions, Stop(t)
  PROVE  TypeInv'
  <1> DEFINE p == [NewProcess EXCEPT !.stage = "down"]
  <1>0. /\ run[t] \in Process /\ lock \in Transactions \union {Free}
        /\ (lock = t) = (run[t].stage \in Working)
        /\ stops \in 0 .. MaxStops /\ MaxStops \in Nat
    BY InstallAssumption DEF TypeInv, TypeOK
  <1>1. p \in Process /\ Ranked(p) /\ p.stage = "down"
    BY NewProcessFacts DEF Stages, NewProcess
  <1>2. run' = [run EXCEPT ![t] = p] /\ lock' = (IF lock = t THEN Free ELSE lock)
    BY DEF Stop
  <1>3. (lock' = t) = (p.stage \in Working)
    BY <1>1, <1>2, EntryFacts DEF Working
  <1>4. Steps(t, p)
    BY <1>1, <1>2, <1>3 DEF Steps
  <1>5. stops' \in 0 .. MaxStops
    BY <1>0 DEF Stop, Interrupted
  <1>6. QED
    BY <1>4, <1>5, Assemble, Rest, FilesSteps DEF Stop, UnchangedBytes

LEMMA PowerLossTypes ==
  ASSUME TypeInv, PowerLoss
  PROVE  TypeInv'
  <1> DEFINE Down == [NewProcess EXCEPT !.stage = "down"]
  <1>0. /\ run \in [Transactions -> Process] /\ files \in Files /\ survivors \subseteq Files
        /\ slots \in [Transactions -> [1 .. 2 -> Slot]]
        /\ stops \in 0 .. MaxStops /\ MaxStops \in Nat
    BY InstallAssumption DEF TypeInv, TypeOK
  <1>1. Down \in Process /\ Ranked(Down) /\ Down.stage = "down"
    BY NewProcessFacts DEF Stages, NewProcess
  <1>2. run' = [t \in Transactions |-> IF At(t, "idle") THEN run[t] ELSE Down] /\ lock' = Free
    BY DEF PowerLoss
  <1>3. ASSUME NEW u \in Transactions
        PROVE  /\ run'[u] \in Process /\ Ranked(run'[u])
               /\ (lock' = u) = (run'[u].stage \in Working)
    BY <1>0, <1>1, <1>2, EntryFacts DEF TypeInv, Working, At
  <1>4. FilesTyped
    <2>1. PICK f \in survivors : files' = f /\ survivors' = {f}
      BY DEF PowerLoss
    <2>2. QED
      BY <1>0, <2>1 DEF FilesTyped
  <1>5. candidate' \in [Transactions -> Contents]
    BY DEF PowerLoss
  <1>6. ASSUME NEW u \in Transactions
        PROVE  /\ slots'[u] \in [1 .. 2 -> Slot]
               /\ \A i \in 1 .. 2 : slots'[u][i].generation <= Rank(slots'[u][i].record.state)
    <2>1. slots'[u] \in Torn(slots[u])
      BY DEF PowerLoss
    <2>2. PICK c \in [1 .. 2 -> Contents] :
            slots'[u] = [i \in 1 .. 2 |-> [slots[u][i] EXCEPT !.contents = c[i]]]
      BY <2>1 DEF Torn
    <2>3. ASSUME NEW i \in 1 .. 2
          PROVE  /\ slots'[u][i] \in Slot
                 /\ slots'[u][i].generation <= Rank(slots'[u][i].record.state)
      <3>1. slots[u][i] \in Slot /\ slots[u][i].generation <= Rank(slots[u][i].record.state)
        BY <1>0 DEF TypeInv
      <3>2. slots'[u][i] = [slots[u][i] EXCEPT !.contents = c[i]] /\ c[i] \in Contents
        BY <2>2
      <3>3. QED
        BY <3>1, <3>2 DEF Slot
    <2>4. QED
      BY <2>2, <2>3
  <1>7. slots' = [u \in Transactions |-> slots'[u]]
    BY DEF PowerLoss
  <1>8. slots' \in [Transactions -> [1 .. 2 -> Slot]]
    BY <1>6, <1>7
  <1>9. run' \in [Transactions -> Process]
    BY <1>2, <1>3
  <1>10. base' \in [Transactions -> Entry] /\ saves' \in 0 .. MaxSaves /\ stops' \in 0 .. MaxStops
    BY <1>0 DEF PowerLoss, Interrupted, TypeInv, TypeOK
  <1>11. TypeOK'
    BY <1>2, <1>3, <1>4, <1>5, <1>8, <1>9, <1>10 DEF TypeOK, FilesTyped
  <1>12. QED
    BY <1>3, <1>6, <1>11 DEF TypeInv

LEMMA UserTypes ==
  ASSUME TypeInv, UserSave \/ UserRemove
  PROVE  TypeInv'
  <1>0. saves \in 0 .. MaxSaves /\ MaxSaves \in Nat
    BY InstallAssumption DEF TypeInv, TypeOK
  <1>1. PICK e : UserEdit(e) /\ (e = Missing \/
                 \E link \in BOOLEAN : e = [by |-> User, save |-> saves + 1, link |-> link])
    BY DEF UserSave, UserRemove
  <1>2. saves + 1 \in 0 .. MaxSaves
    BY <1>0, <1>1 DEF UserEdit
  <1>3. e \in Entry
    BY <1>1, <1>2, EntryFacts DEF Entry
  <1>4. FilesTyped
    BY <1>1, <1>3, FilesSteps DEF UserEdit
  <1>5. TypeOK'
    BY <1>1, <1>2, <1>4 DEF UserEdit, UnchangedBytes, FilesTyped, TypeInv, TypeOK
  <1>6. QED
    BY <1>1, <1>5 DEF UserEdit, UnchangedBytes, TypeInv

LEMMA TypeNext == TypeInv /\ [Next]_vars => TypeInv'
  <1> SUFFICES ASSUME TypeInv, [Next]_vars PROVE TypeInv'
    OBVIOUS
  <1>1. CASE UNCHANGED vars
    BY <1>1 DEF vars, TypeInv, TypeOK
  <1>2. ASSUME NEW t \in Transactions,
               Prepare(t) \/ Journal(t) \/ promote(t) \/ WayBack(t) \/ Close(t) \/ Recover(t)
               \/ Stop(t)
        PROVE  TypeInv'
    BY <1>2, PrepareTypes, JournalTypes, PromoteTypes, WayBackTypes, CloseTypes, RecoverTypes,
       StopTypes
  <1>3. CASE PowerLoss
    BY <1>3, PowerLossTypes
  <1>4. CASE UserSave \/ UserRemove
    BY <1>4, UserTypes
  <1>5. QED
    BY <1>1, <1>2, <1>3, <1>4 DEF Next

(* Types: one process at a time is between lock and end, and the journal   *)
(* of a transaction never needs a sixth record.                            *)
THEOREM InstallTypeCorrect == Spec => []TypeOK
  <1>1. TypeInv => TypeOK
    BY DEF TypeInv
  <1>2. QED
    BY <1>1, InitialTypes, TypeNext, PTL DEF Spec

--------------------------------------------------------------------------------
(* The newest save                                                         *)

LEMMA KeptTypes ==
  ASSUME KeptInv
  PROVE  /\ TypeInv
         /\ run \in [Transactions -> Process] /\ base \in [Transactions -> Entry]
         /\ files \in survivors /\ saves \in Nat
         /\ \A t \in Transactions : base[t].save \in Nat
         /\ \A f \in survivors :
              /\ f.target \in Entry /\ f.target.save \in Nat /\ f.newest \in Nat
              /\ f.peer \in [Transactions -> Entry]
              /\ f.directory \in [Transactions -> Directories]
              /\ \A t \in Transactions : f.peer[t].save \in Nat
  BY InstallAssumption DEF KeptInv, TypeInv, TypeOK, Files, Entry

LEMMA InitialKept == Init => KeptInv
  <1> SUFFICES ASSUME Init PROVE KeptInv
    OBVIOUS
  <1>1. TypeInv
    BY InitialTypes
  <1>2. /\ files.newest = files.target.save /\ files.target.save = saves
        /\ files.peer = [t \in Transactions |-> Missing]
        /\ survivors = {files} /\ saves \in Nat
    BY <1>1, InstallAssumption DEF Init, TypeInv, TypeOK
  <1>3. \A f \in survivors : Sound(f)
    BY <1>2, EntryFacts DEF Sound, Held, Paired
  <1>4. \A t \in Transactions : run[t].stage = "idle" /\ base[t] = Missing
    BY DEF Init, NewProcess
  <1>5. \A t \in Transactions : Knows(t)
    BY <1>2, <1>4, EntryFacts DEF Knows, Fresh, HasDirectory, Working, BeforeExchange, Derived
  <1>6. QED
    BY <1>1, <1>3, <1>5 DEF KeptInv

(* What a step of t leaves the other runs.                                 *)
Beside(t) ==
  /\ UNCHANGED <<base, saves>>
  /\ survivors' \subseteq survivors \union {files'}
  /\ \/ UNCHANGED files
     \/ /\ \A u \in Transactions \ {t} :
             files'.peer[u] = files.peer[u] /\ files'.directory[u] = files.directory[u]
        /\ files'.newest = files.newest
        /\ files'.target = files.target \/ lock = t

LEMMA StepKeeps ==
  ASSUME KeptInv, TypeInv', NEW t \in Transactions, NEW p, run' = [run EXCEPT ![t] = p],
         Beside(t), UNCHANGED files \/ Sound(files'), Knows(t)'
  PROVE  KeptInv'
  <1>0. run \in [Transactions -> Process] /\ files \in survivors
    BY KeptTypes
  <1>1. \A f \in survivors' : Sound(f)
    BY <1>0 DEF KeptInv, Beside
  <1>2. ASSUME NEW f, Sound(f) PROVE Sound(f)'
    BY <1>2 DEF Sound, Held, Paired, Beside
  <1>3. \A f \in survivors' : Sound(f)'
    BY <1>1, <1>2
  <1>4. ASSUME NEW u \in Transactions, u # t PROVE Knows(u)'
    <2>1. run'[u] = run[u] /\ base'[u] = base[u] /\ saves' = saves
      BY <1>0, <1>4 DEF Beside
    <2>2. files'.peer[u] = files.peer[u] /\ files'.directory[u] = files.directory[u]
          /\ files'.newest = files.newest
      BY <1>4 DEF Beside
    <2>3. run[u].stage \in Fresh => \A f \in survivors' : f.peer[u] = Missing
      BY <1>0, <2>2 DEF KeptInv, Knows, Beside
    <2>4. run[u].stage \in {"checked", "reversing"} => files'.target = files.target
      BY <1>4, WorkingStages DEF Beside, KeptInv, TypeInv, TypeOK
    <2>5. Derived(u)'
      BY <2>1 DEF KeptInv, Knows, Derived
    <2>6. QED
      BY <2>1, <2>2, <2>3, <2>4, <2>5 DEF KeptInv, Knows, BeforeExchange
  <1>5. QED
    BY <1>3, <1>4 DEF KeptInv

(* The two renames keep the newest save: while it is the candidate's, both *)
(* entries carry it, and otherwise the one put aside does.                 *)
LEMMA ExchangeIsSound ==
  ASSUME KeptInv, NEW t \in Transactions,
         files.peer[t] # Missing, files.directory[t] # "absent",
         files.newest # 0 /\ files.newest = base[t].save => files.target.save = base[t].save,
         files' = Exchanged(t)
  PROVE  Sound(files')
  <1> DEFINE g == Exchanged(t)
  <1>0. Sound(files) /\ files.peer \in [Transactions -> Entry] /\ files \in Files
    BY KeptTypes DEF KeptInv, TypeInv, TypeOK
  <1>1. /\ g.target = files.peer[t] /\ g.newest = files.newest /\ g.directory = files.directory
        /\ g.peer[t] = files.target
        /\ \A u \in Transactions \ {t} : g.peer[u] = files.peer[u]
    BY <1>0 DEF Exchanged, Files
  <1>2. Held(g)
    <2>1. SUFFICES ASSUME files.newest # 0
                   PROVE  \/ g.target.save = files.newest
                          \/ \E u \in Transactions :
                                g.peer[u].save = files.newest /\ files.newest # base[u].save
      BY <1>1 DEF Held
    <2>2. CASE files.target.save = files.newest
      <3>1. CASE files.newest = base[t].save
        BY <1>0, <1>1, <2>1, <3>1 DEF Sound, Paired
      <3>2. CASE files.newest # base[t].save
        BY <1>1, <2>2, <3>2
      <3>3. QED
        BY <3>1, <3>2
    <2>3. CASE files.target.save # files.newest
      <3>1. PICK u \in Transactions : files.peer[u].save = files.newest
                                      /\ files.newest # base[u].save
        BY <1>0, <2>1, <2>3 DEF Sound, Held
      <3>2. QED
        BY <1>1, <3>1
    <2>4. QED
      BY <2>2, <2>3
  <1>3. Paired(g)
    <2>1. ASSUME NEW u \in Transactions, files.newest # 0, files.newest = base[u].save,
                 g.peer[u] # Missing
          PROVE  g.peer[u].save = files.newest
      BY <1>0, <1>1, <2>1 DEF Sound, Paired
    <2>2. QED
      BY <1>1, <2>1 DEF Paired
  <1>4. QED
    BY <1>0, <1>1, <1>2, <1>3 DEF Sound

LEMMA PrepareKeeps ==
  ASSUME KeptInv, TypeInv', NEW t \in Transactions, Prepare(t)
  PROVE  KeptInv'
  <1> USE DEF At, Only, UnchangedWorld, UnchangedFiles, Beside
  <1>0. /\ TypeInv /\ run \in [Transactions -> Process] /\ run[t] \in Process
        /\ files \in survivors /\ files \in Files /\ Sound(files) /\ Knows(t)
        /\ base \in [Transactions -> Entry] /\ base[t] \in Entry
    BY KeptTypes DEF KeptInv, TypeInv, TypeOK
  <1>1. CASE captureInstallSnapshot(t)
    <2>1. /\ run' = [run EXCEPT ![t].stage = "captured"] /\ run[t].stage = "idle"
          /\ UNCHANGED <<files, survivors, saves>>
          /\ base' = [base EXCEPT ![t] = files.target]
      BY <1>1 DEF captureInstallSnapshot, Goto
    <2>2. \A f \in survivors : f.peer[t] = Missing
      BY <1>0, <2>1 DEF Knows, Fresh
    <2>3. ASSUME NEW f \in survivors PROVE Sound(f)'
      <3>1. Sound(f) /\ f.peer[t] = Missing
        BY <2>2 DEF KeptInv
      <3>2. \A u \in Transactions : u # t => base'[u] = base[u]
        BY <1>0, <2>1
      <3>3. Held(f)'
        BY <2>1, <3>1, <3>2, EntryFacts DEF Sound, Held
      <3>4. Paired(f)'
        BY <2>1, <3>1, <3>2 DEF Sound, Paired
      <3>5. QED
        BY <2>1, <3>1, <3>3, <3>4 DEF Sound
    <2>4. ASSUME NEW u \in Transactions PROVE Knows(u)'
      <3>1. CASE u = t
        <4>1. run'[t].stage = "captured" /\ base'[t] = files.target
          BY <1>0, <2>1 DEF Process
        <4>2. base'[t].save <= saves'
          BY <1>0, <2>1, <4>1 DEF Sound
        <4>3. QED
          BY <2>1, <2>2, <3>1, <4>1, <4>2
          DEF Knows, Fresh, HasDirectory, Working, BeforeExchange, Derived
      <3>2. CASE u # t
        <4>1. run'[u] = run[u] /\ base'[u] = base[u]
          BY <1>0, <2>1, <3>2
        <4>2. Knows(u)
          BY DEF KeptInv
        <4>3. QED
          BY <2>1, <4>1, <4>2 DEF Knows, Derived
      <3>3. QED
        BY <3>1, <3>2
    <2>5. QED
      BY <2>1, <2>3, <2>4 DEF KeptInv
  <1>2. CASE openTargetTransactionGuard(t)
    <2>1. PICK stage \in {"locked", "reopened"} :
            /\ Goto(t, stage)
            /\ stage = "locked" => run[t].stage = "captured"
      BY <1>2 DEF openTargetTransactionGuard
    <2>2. run' = [run EXCEPT ![t] = [run[t] EXCEPT !.stage = stage]] /\ run'[t].stage = stage
      BY <1>0, <2>1 DEF Goto, Process
    <2>3. Knows(t)'
      BY <1>0, <1>2, <2>1, <2>2
      DEF openTargetTransactionGuard, Knows, Fresh, HasDirectory, BeforeExchange, Derived
    <2>4. QED
      BY <1>2, <2>2, <2>3, StepKeeps DEF openTargetTransactionGuard
  <1>3. CASE StageCandidate(t)
    <2> DEFINE g == [files EXCEPT !.directory[t] = "open", !.peer[t] = Candidate(t)]
    <2>1. /\ run' = [run EXCEPT ![t] = [run[t] EXCEPT !.stage = "staged"]]
          /\ run'[t].stage = "staged" /\ run[t].stage = "locked"
          /\ files' = g /\ survivors' = survivors \union {g} /\ UNCHANGED <<base, saves, lock>>
      BY <1>0, <1>3 DEF StageCandidate, Goto, Change, Process
    <2>2. files.peer[t] = Missing
      BY <1>0, <2>1 DEF Knows, Fresh
    <2>3. /\ g.target = files.target /\ g.newest = files.newest
          /\ g.peer[t] = Candidate(t) /\ g.directory[t] = "open"
          /\ \A u \in Transactions \ {t} :
                g.peer[u] = files.peer[u] /\ g.directory[u] = files.directory[u]
      BY <1>0 DEF Files
    <2>4. Candidate(t).save = base[t].save /\ Candidate(t) # Missing /\ base[t].save <= saves
      BY <1>0, CandidateType DEF Knows
    <2>5. Sound(g)
      BY <1>0, <2>2, <2>3, <2>4, EntryFacts DEF Sound, Held, Paired
    <2>6. Knows(t)'
      BY <1>0, <2>1, <2>3, <2>4 DEF Knows, Fresh, BeforeExchange, Derived
    <2>7. QED
      BY <2>1, <2>3, <2>5, <2>6, StepKeeps
  <1>4. CASE SyncCandidate(t) \/ SyncArtifacts(t)
    <2>1. PICK stage \in {"synced", "evidenced"} : Goto(t, stage)
      BY <1>4 DEF SyncCandidate, SyncArtifacts
    <2>2. run' = [run EXCEPT ![t] = [run[t] EXCEPT !.stage = stage]] /\ run'[t].stage = stage
      BY <1>0, <2>1 DEF Goto, Process
    <2>3. Beside(t) /\ UNCHANGED files /\ run[t].stage \in {"staged", "synced"}
      BY <1>0, <1>4 DEF SyncCandidate, SyncArtifacts, SyncDirectory
    <2>4. Knows(t)'
      BY <1>0, <2>2, <2>3, WorkingStages DEF Knows, Fresh, HasDirectory, BeforeExchange, Derived
    <2>5. QED
      BY <2>2, <2>3, <2>4, StepKeeps
  <1>5. CASE createPreparedJournal(t)
    <2> DEFINE g == [files EXCEPT !.directory[t] = "journaled"]
               p == [run[t] EXCEPT !.stage = "writing", !.next = Prepared]
    <2>1. /\ run' = [run EXCEPT ![t] = p] /\ run[t].stage = "evidenced"
          /\ files' = g /\ survivors' = survivors \union {g} /\ UNCHANGED <<base, saves, lock>>
      BY <1>5 DEF createPreparedJournal, WriteSlot, Change
    <2>2. run'[t] = p /\ p.stage = "writing" /\ p.next = Prepared
      BY <1>0, <2>1 DEF Process
    <2>3. /\ g.target = files.target /\ g.newest = files.newest
          /\ g.peer = files.peer /\ g.directory[t] = "journaled"
          /\ \A u \in Transactions \ {t} : g.directory[u] = files.directory[u]
      BY <1>0 DEF Files
    <2>4. Sound(g)
      BY <1>0, <2>3 DEF Sound, Held, Paired
    <2>5. Knows(t)'
      BY <1>0, <2>1, <2>2, <2>3, RecordFacts DEF Knows, Fresh, BeforeExchange, Derived
    <2>6. QED
      BY <2>1, <2>3, <2>4, <2>5, StepKeeps
  <1>6. QED
    BY <1>1, <1>2, <1>3, <1>4, <1>5 DEF Prepare

(* A process that writes its journal changes nothing else.                 *)
LEMMA WritingKeeps ==
  ASSUME KeptInv, TypeInv', NEW t \in Transactions, NEW record,
         WriteJournal(t, record), run[t].stage \in HasDirectory,
         record.state \in {"exchanged", "created", "parent_synced", "reversed", "finalized"},
         record.state \in {"created", "parent_synced"}
           \/ (record.state = "finalized" /\ run[t].disposition = "installed")
           => record.displaced = base[t],
         UNCHANGED files, survivors' \subseteq survivors, Only(t)
  PROVE  KeptInv'
  <1> DEFINE p == [run[t] EXCEPT !.stage = "writing", !.next = record]
  <1>0. run[t] \in Process /\ run \in [Transactions -> Process] /\ Knows(t)
    BY KeptTypes DEF KeptInv
  <1>1. run' = [run EXCEPT ![t] = p]
    BY DEF WriteJournal, WriteSlot
  <1>2. run'[t] = p /\ p.stage = "writing" /\ p.next = record
        /\ p.disposition = run[t].disposition
    BY <1>0, <1>1 DEF Process
  <1>3. Beside(t)
    BY DEF Beside, Only, UnchangedWorld
  <1>4. Knows(t)'
    BY <1>0, <1>2 DEF Knows, Fresh, BeforeExchange, Derived, Only, UnchangedWorld
  <1>5. QED
    BY <1>1, <1>3, <1>4, StepKeeps

LEMMA JournalKeeps ==
  ASSUME KeptInv, TypeInv', NEW t \in Transactions, Journal(t)
  PROVE  KeptInv'
  <1> USE DEF At, Only, UnchangedWorld, UnchangedFiles, Beside
  <1>0. run \in [Transactions -> Process] /\ run[t] \in Process /\ Knows(t) /\ files \in survivors
    BY KeptTypes DEF KeptInv
  <1>1. CASE SyncJournal(t)
    <2> DEFINE p == [run[t] EXCEPT !.stage = "recorded", !.record = run[t].next,
                                   !.generation = @ + 1]
    <2>1. run' = [run EXCEPT ![t] = p] /\ run[t].stage = "writing"
          /\ UNCHANGED <<files, survivors, base, saves>>
      BY <1>0, <1>1 DEF SyncJournal
    <2>2. /\ run'[t] = p /\ p.stage = "recorded" /\ p.record = run[t].next
          /\ p.disposition = run[t].disposition
      BY <1>0, <2>1 DEF Process
    <2>3. Knows(t)'
      BY <1>0, <2>1, <2>2, WorkingStages DEF Knows, Fresh, HasDirectory, BeforeExchange, Derived
    <2>4. QED
      BY <2>1, <2>3, StepKeeps
  <1>2. CASE SyncJournalDirectory(t)
    <2> DEFINE disposition == IF run[t].record.state = "parent_synced" THEN "installed"
                              ELSE run[t].disposition
               p == [run[t] EXCEPT !.stage = After(t), !.disposition = disposition]
    <2>1. run' = [run EXCEPT ![t] = p] /\ run[t].stage = "recorded"
          /\ UNCHANGED <<files, base, saves>> /\ survivors' \subseteq survivors
      BY <1>0, <1>2 DEF SyncJournalDirectory, SyncDirectory
    <2>2. /\ run'[t] = p /\ p.stage = After(t) /\ p.record = run[t].record
          /\ p.disposition = disposition
      BY <1>0, <2>1 DEF Process
    <2>3. run[t].record \in Record /\ run[t].record.state \in States
      BY <1>0, RecordFacts DEF Process
    <2>4. /\ run[t].record.state = "prepared" => After(t) = "prepared"
          /\ run[t].record.state = "exchanged" =>
               \/ After(t) \in {"rollback", "reverse"}
               \/ After(t) = "forward" /\ run[t].record.displaced = base[t]
          /\ run[t].record.state = "created" => After(t) = "forward"
          /\ run[t].record.state = "parent_synced" => After(t) = "settled"
          /\ run[t].record.state = "reversed" => After(t) = "backward"
          /\ run[t].record.state = "finalized" => After(t) = "closing"
      BY DEF After, CandidateDerives
    <2>5. /\ run[t].record.state = "exchanged" => run[t].record.displaced # Missing
          /\ files.directory[t] # "absent"
      BY <1>0, <2>1, <2>3, RecordFacts, WorkingStages DEF Knows, HasDirectory
    <2>6. Derived(t)'
      BY <1>0, <2>1, <2>2, <2>3, <2>4 DEF Knows, Derived, States
    <2>7. Knows(t)'
      BY <1>0, <2>1, <2>2, <2>3, <2>4, <2>5, <2>6 DEF Knows, Fresh, BeforeExchange, States
    <2>8. QED
      BY <2>1, <2>7, StepKeeps
  <1>3. QED
    BY <1>1, <1>2 DEF Journal

LEMMA PromoteKeeps ==
  ASSUME KeptInv, TypeInv', NEW t \in Transactions, promote(t)
  PROVE  KeptInv'
  <1> USE DEF At, Only, UnchangedWorld, UnchangedFiles, Beside
  <1>0. /\ run \in [Transactions -> Process] /\ run[t] \in Process /\ Knows(t)
        /\ files \in survivors /\ files \in Files
        /\ (lock = t) = (run[t].stage \in Working)
    BY KeptTypes DEF KeptInv, TypeInv, TypeOK
  <1>1. CASE CheckTarget(t) \/ PromoteRefused(t)
    <2>1. /\ \/ run' = [run EXCEPT ![t] = [run[t] EXCEPT !.stage = "checked"]]
                /\ files.target = base[t] /\ run[t].stage = "prepared"
             \/ run' = [run EXCEPT ![t] = [run[t] EXCEPT !.stage = "settled",
                                                       !.disposition = "unchanged"]]
          /\ UNCHANGED <<files, survivors, base, saves>>
          /\ run[t].stage \in {"prepared", "checked"}
      BY <1>0, <1>1 DEF CheckTarget, PromoteRefused, Goto, Settled
    <2>2. /\ \/ run'[t].stage = "checked" /\ files.target = base[t] /\ run[t].stage = "prepared"
             \/ run'[t].stage = "settled" /\ run'[t].disposition = "unchanged"
      <3>1. CASE run' = [run EXCEPT ![t] = [run[t] EXCEPT !.stage = "checked"]]
        BY <1>0, <2>1, <3>1 DEF Process
      <3>2. CASE run' = [run EXCEPT ![t] = [run[t] EXCEPT !.stage = "settled",
                                                     !.disposition = "unchanged"]]
        <4>1. run'[t].stage = "settled" /\ run'[t].disposition = "unchanged"
          BY <1>0, <3>2 DEF Process
        <4>2. QED
          BY <4>1
      <3>3. QED
        BY <2>1, <3>1, <3>2
    <2>3. Knows(t)'
      BY <1>0, <2>1, <2>2, WorkingStages DEF Knows, Fresh, HasDirectory, BeforeExchange, Derived
    <2>4. QED
      BY <2>1, <2>3, StepKeeps
  <1>2. CASE Promote(t)
    <2>1. /\ run' = [run EXCEPT ![t] = [run[t] EXCEPT !.stage = "swapped"]]
          /\ files' = Exchanged(t) /\ survivors' = survivors \union {files'}
          /\ UNCHANGED <<base, saves>> /\ run[t].stage = "checked"
      BY <1>2 DEF Promote, Goto, Change
    <2>2. run'[t].stage = "swapped"
      BY <1>0, <2>1 DEF Process
    <2>3. Sound(files')
      BY <1>0, <2>1, ExchangeIsSound, WorkingStages DEF Knows, HasDirectory, BeforeExchange
    <2>4. /\ files'.newest = files.newest /\ files'.directory = files.directory
          /\ \A u \in Transactions \ {t} : files'.peer[u] = files.peer[u]
      BY <1>0, <2>1 DEF Exchanged, Files
    <2>5. lock = t
      BY <1>0, <2>1, WorkingStages
    <2>6. Knows(t)'
      BY <1>0, <2>1, <2>2, <2>4, WorkingStages
      DEF Knows, Fresh, HasDirectory, BeforeExchange, Derived
    <2>7. QED
      BY <2>1, <2>3, <2>4, <2>5, <2>6, StepKeeps
  <1>3. CASE RecordPromotion(t)
    <2> DEFINE record == [state |-> IF Exists(base[t]) THEN "exchanged" ELSE "created",
                          displaced |-> files.peer[t]]
    <2>1. /\ record.state \in {"exchanged", "created"}
          /\ record.state = "created" => record.displaced = base[t]
      BY <1>3 DEF RecordPromotion, Exists
    <2>2. WriteJournal(t, record) /\ run[t].stage \in HasDirectory
          /\ UNCHANGED <<files, survivors>> /\ Only(t)
      BY <1>3, WorkingStages DEF RecordPromotion, HasDirectory
    <2>3. QED
      BY <2>1, <2>2, WritingKeeps
  <1>4. CASE SyncForward(t)
    <2> DEFINE record == [run[t].record EXCEPT !.state = "parent_synced"]
    <2>1. record.state = "parent_synced" /\ record.displaced = run[t].record.displaced
      BY <1>0, SucceedingRecord DEF KeptInv, States
    <2>2. run[t].record.displaced = base[t]
      BY <1>0, <1>4 DEF SyncForward, Knows, Derived
    <2>3. WriteJournal(t, record) /\ run[t].stage \in HasDirectory
          /\ UNCHANGED files /\ survivors' \subseteq survivors /\ Only(t)
      BY <1>0, <1>4, WorkingStages DEF SyncForward, SyncDirectory, HasDirectory
    <2>4. QED
      BY <2>1, <2>2, <2>3, WritingKeeps
  <1>5. QED
    BY <1>1, <1>2, <1>3, <1>4 DEF promote

LEMMA WayBackKeeps ==
  ASSUME KeptInv, TypeInv', NEW t \in Transactions, WayBack(t)
  PROVE  KeptInv'
  <1> USE DEF At, Only, UnchangedWorld, UnchangedFiles, Beside
  <1>0. /\ run \in [Transactions -> Process] /\ run[t] \in Process /\ Knows(t)
        /\ files \in survivors /\ files \in Files
        /\ (lock = t) = (run[t].stage \in Working) /\ base[t] \in Entry
    BY KeptTypes DEF KeptInv, TypeInv, TypeOK
  <1>1. CASE reverseLateSubstitution(t) \/ rollback(t)
    <2>1. /\ run' = [run EXCEPT ![t] = [run[t] EXCEPT !.stage = "reversing"]]
          /\ UNCHANGED <<files, survivors, base, saves>> /\ InPlace(t)
          /\ \/ run[t].stage \in {"reverse", "rollback"}
             \/ run[t].stage = "settled" /\ run[t].disposition = "installed" /\ base[t] # Missing
      BY <1>1 DEF reverseLateSubstitution, rollback, Goto, Exists
    <2>2. run'[t].stage = "reversing"
      BY <1>0, <2>1 DEF Process
    <2>3. run[t].record.displaced # Missing
      BY <1>0, <2>1 DEF Knows, Derived
    <2>4. files.peer[t] # Missing /\ files.target.save = base[t].save
      BY <1>0, <2>1, <2>3, CandidateType DEF InPlace
    <2>5. Knows(t)'
      BY <1>0, <2>1, <2>2, <2>4, WorkingStages
      DEF Knows, Fresh, HasDirectory, BeforeExchange, Derived
    <2>6. QED
      BY <2>1, <2>5, StepKeeps
  <1>2. CASE Reverse(t)
    <2>1. /\ run' = [run EXCEPT ![t] = [run[t] EXCEPT !.stage = "swapped_back"]]
          /\ files' = Exchanged(t) /\ survivors' = survivors \union {files'}
          /\ UNCHANGED <<base, saves>> /\ run[t].stage = "reversing"
      BY <1>2 DEF Reverse, Goto, Change
    <2>2. run'[t].stage = "swapped_back"
      BY <1>0, <2>1 DEF Process
    <2>3. Sound(files')
      BY <1>0, <2>1, ExchangeIsSound, WorkingStages DEF Knows, HasDirectory
    <2>4. /\ files'.newest = files.newest /\ files'.directory = files.directory
          /\ \A u \in Transactions \ {t} : files'.peer[u] = files.peer[u]
      BY <1>0, <2>1 DEF Exchanged, Files
    <2>5. lock = t
      BY <1>0, <2>1, WorkingStages
    <2>6. Knows(t)'
      BY <1>0, <2>1, <2>2, <2>4, WorkingStages
      DEF Knows, Fresh, HasDirectory, BeforeExchange, Derived
    <2>7. QED
      BY <2>1, <2>3, <2>4, <2>5, <2>6, StepKeeps
  <1>3. CASE RecordReversal(t)
    <2> DEFINE record == [run[t].record EXCEPT !.state = "reversed"]
    <2>1. record.state = "reversed"
      BY <1>0, SucceedingRecord DEF KeptInv, States
    <2>2. WriteJournal(t, record) /\ run[t].stage \in HasDirectory
          /\ UNCHANGED <<files, survivors>> /\ Only(t)
      BY <1>3, WorkingStages DEF RecordReversal, HasDirectory
    <2>3. QED
      BY <2>1, <2>2, WritingKeeps
  <1>4. CASE SyncBackward(t)
    <2>1. /\ run' = [run EXCEPT ![t] = [run[t] EXCEPT !.stage = "settled",
                                                   !.disposition = "restored"]]
          /\ UNCHANGED <<files, base, saves>> /\ survivors' \subseteq survivors
          /\ run[t].stage = "backward"
      BY <1>0, <1>4 DEF SyncBackward, SyncDirectory, Settled
    <2>2. run'[t].stage = "settled" /\ run'[t].disposition = "restored"
      BY <1>0, <2>1 DEF Process
    <2>3. Knows(t)'
      BY <1>0, <2>1, <2>2, WorkingStages DEF Knows, Fresh, HasDirectory, BeforeExchange, Derived
    <2>4. QED
      BY <2>1, <2>3, StepKeeps
  <1>5. QED
    BY <1>1, <1>2, <1>3, <1>4 DEF WayBack

LEMMA CloseKeeps ==
  ASSUME KeptInv, TypeInv', NEW t \in Transactions, Close(t)
  PROVE  KeptInv'
  <1> USE DEF At, Only, UnchangedWorld, UnchangedFiles, Beside
  <1>0. /\ run \in [Transactions -> Process] /\ run[t] \in Process /\ Knows(t)
        /\ files \in survivors /\ files \in Files /\ Sound(files) /\ base[t] \in Entry
    BY KeptTypes DEF KeptInv, TypeInv, TypeOK
  <1>1. CASE finalize(t)
    <2> DEFINE record == [run[t].record EXCEPT !.state = "finalized"]
    <2>1. record.state = "finalized" /\ record.displaced = run[t].record.displaced
      BY <1>0, SucceedingRecord DEF KeptInv, States
    <2>2. run[t].disposition = "installed" => run[t].record.displaced = base[t]
      BY <1>0, <1>1 DEF finalize, Knows, Derived
    <2>3. WriteJournal(t, record) /\ run[t].stage \in HasDirectory
          /\ UNCHANGED <<files, survivors>> /\ Only(t)
      BY <1>1, WorkingStages DEF finalize, HasDirectory
    <2>4. QED
      BY <2>1, <2>2, <2>3, WritingKeeps
  <1>2. CASE RemovePeer(t)
    <2> DEFINE g == [files EXCEPT !.peer[t] = Missing]
    <2>1. /\ run' = [run EXCEPT ![t] = [run[t] EXCEPT !.stage = "stripping"]]
          /\ files' = g /\ survivors' = survivors \union {g} /\ UNCHANGED <<base, saves, lock>>
          /\ run[t].stage = "closing" /\ files.peer[t] \in {Missing, Disposable(t)}
      BY <1>2 DEF RemovePeer, Goto, Change
    <2>2. run'[t].stage = "stripping"
      BY <1>0, <2>1 DEF Process
    <2>3. /\ g.target = files.target /\ g.newest = files.newest
          /\ g.directory = files.directory /\ g.peer[t] = Missing
          /\ \A u \in Transactions \ {t} : g.peer[u] = files.peer[u]
      BY <1>0 DEF Files
    <2>4. Disposable(t) \in {Candidate(t), base[t]}
      BY <1>0, <2>1 DEF Disposable, Knows, Derived
    <2>5. files.peer[t].save \in {0, base[t].save}
      BY <1>0, <2>1, <2>4, CandidateType, EntryFacts
    <2>6. Held(g)
      BY <1>0, <2>3, <2>5 DEF Sound, Held
    <2>7. Sound(g)
      <3>1. Paired(g)
        BY <1>0, <2>3 DEF Sound, Paired
      <3>2. saves \in Nat /\ Missing.save <= saves
        BY KeptTypes, EntryFacts
      <3>3. QED
        BY <1>0, <2>3, <2>6, <3>1, <3>2 DEF Sound
    <2>8. Knows(t)'
      BY <1>0, <2>1, <2>2, <2>3, WorkingStages
      DEF Knows, Fresh, HasDirectory, BeforeExchange, Derived
    <2>9. QED
      BY <2>1, <2>3, <2>7, <2>8, StepKeeps
  <1>3. CASE RemoveArtifacts(t)
    <2> DEFINE g == [files EXCEPT !.directory[t] = "stripped"]
    <2>1. /\ run' = [run EXCEPT ![t] = [run[t] EXCEPT !.stage = "stripped"]]
          /\ files' = g /\ survivors' = survivors \union {g} /\ UNCHANGED <<base, saves, lock>>
          /\ run[t].stage = "stripping"
      BY <1>3 DEF RemoveArtifacts, Goto, Change
    <2>2. run'[t].stage = "stripped"
      BY <1>0, <2>1 DEF Process
    <2>3. /\ g.target = files.target /\ g.newest = files.newest
          /\ g.peer = files.peer /\ g.directory[t] = "stripped"
          /\ \A u \in Transactions \ {t} : g.directory[u] = files.directory[u]
      BY <1>0 DEF Files
    <2>4. Sound(g)
      BY <1>0, <2>3 DEF Sound, Held, Paired
    <2>5. Knows(t)'
      BY <1>0, <2>1, <2>2, <2>3, WorkingStages
      DEF Knows, Fresh, HasDirectory, BeforeExchange, Derived
    <2>6. QED
      BY <2>1, <2>3, <2>4, <2>5, StepKeeps
  <1>4. CASE RemoveDirectory(t)
    <2> DEFINE g == [files EXCEPT !.directory[t] = "absent", !.peer[t] = Missing]
    <2>1. /\ run' = [run EXCEPT ![t] = [run[t] EXCEPT !.stage = "done"]]
          /\ files' = g /\ survivors' = {g} /\ UNCHANGED <<base, saves>>
          /\ run[t].stage = "stripped"
      BY <1>4 DEF RemoveDirectory, Goto
    <2>2. run'[t].stage = "done"
      BY <1>0, <2>1 DEF Process
    <2>3. files.peer[t] = Missing
      BY <1>0, <2>1 DEF Knows
    <2>4. /\ g.target = files.target /\ g.newest = files.newest
          /\ g.peer = files.peer
          /\ \A u \in Transactions \ {t} : g.directory[u] = files.directory[u]
      BY <1>0, <2>3 DEF Files
    <2>5. Sound(g)
      BY <1>0, <2>3, <2>4 DEF Sound, Held, Paired
    <2>6. Knows(t)'
      BY <1>0, <2>1, <2>2 DEF Knows, Fresh, HasDirectory, Working, BeforeExchange, Derived
    <2>7. QED
      BY <2>1, <2>4, <2>5, <2>6, StepKeeps
  <1>5. QED
    BY <1>1, <1>2, <1>3, <1>4 DEF Close

LEMMA RecoverKeeps ==
  ASSUME KeptInv, TypeInv', NEW t \in Transactions, Recover(t) \/ Stop(t)
  PROVE  KeptInv'
  <1> USE DEF At, Only, UnchangedWorld, UnchangedFiles, Beside
  <1>0. /\ run \in [Transactions -> Process] /\ run[t] \in Process /\ Knows(t)
        /\ files \in survivors
    BY KeptTypes DEF KeptInv
  <1>1. CASE Reopen(t) \/ Stop(t)
    <2>1. PICK p \in {[NewProcess EXCEPT !.stage = "reopening", !.recovering = TRUE],
                      [NewProcess EXCEPT !.stage = "down"]} : run' = [run EXCEPT ![t] = p]
      BY <1>1 DEF Reopen, Stop
    <2>2. UNCHANGED <<files, survivors, base, saves>>
      BY <1>1 DEF Reopen, Stop
    <2>3. run'[t] = p /\ p.stage \in {"reopening", "down"}
      BY <1>0, <2>1 DEF NewProcess
    <2>4. Knows(t)'
      BY <1>0, <2>2, <2>3 DEF Knows, Fresh, HasDirectory, Working, BeforeExchange, Derived
    <2>5. QED
      BY <2>1, <2>2, <2>4, StepKeeps
  <1>2. CASE recoverGuardedInstallTransaction(t)
    <2>1. PICK slot \in Decoded(slots[t]) :
            \/ \E stage \in {"settled", "swapped_back", "backward"},
                 d \in {"unchanged", "restored"} : Resume(t, slot, stage, d)
            \/ /\ Exists(files.peer[t]) /\ files.peer[t] = slot.record.displaced
               /\ Resume(t, slot, "rollback", "installed")
            \/ WriteSlot(t, [Load(t, slot) EXCEPT !.disposition = "installed"],
                         [state |-> "exchanged", displaced |-> files.peer[t]])
      BY <1>2 DEF recoverGuardedInstallTransaction
    <2>2. UNCHANGED <<files, survivors, base, saves>> /\ files.directory[t] = "journaled"
      BY <1>2 DEF recoverGuardedInstallTransaction
    <2>3. ASSUME NEW stage \in {"settled", "swapped_back", "backward", "rollback"},
                 NEW d \in Dispositions, Resume(t, slot, stage, d),
                 stage = "settled" => d # "installed",
                 stage = "rollback" => slot.record.displaced # Missing
          PROVE  KeptInv'
      <3> DEFINE p == [Load(t, slot) EXCEPT !.stage = stage, !.disposition = d]
      <3>1. run' = [run EXCEPT ![t] = p]
        BY <2>3 DEF Resume
      <3>2. run'[t] = p /\ p.stage = stage /\ p.disposition = d /\ p.record = slot.record
        BY <1>0, <3>1 DEF Load, Process
      <3>3. Knows(t)'
        BY <1>0, <2>2, <2>3, <3>2 DEF Knows, Fresh, BeforeExchange, Derived
      <3>4. QED
        BY <2>2, <3>1, <3>3, StepKeeps
    <2>4. ASSUME WriteSlot(t, [Load(t, slot) EXCEPT !.disposition = "installed"],
                           [state |-> "exchanged", displaced |-> files.peer[t]])
          PROVE  KeptInv'
      <3> DEFINE q == [Load(t, slot) EXCEPT !.disposition = "installed"]
                 p == [q EXCEPT !.stage = "writing",
                                !.next = [state |-> "exchanged", displaced |-> files.peer[t]]]
      <3>1. run' = [run EXCEPT ![t] = p]
        BY <2>4 DEF WriteSlot
      <3>2. run'[t] = p /\ p.stage = "writing" /\ p.next.state = "exchanged"
        BY <1>0, <3>1 DEF Load, Process
      <3>3. Knows(t)'
        BY <1>0, <2>2, <3>2 DEF Knows, Fresh, BeforeExchange, Derived
      <3>4. QED
        BY <2>2, <3>1, <3>3, StepKeeps
    <2>5. QED
      BY <2>1, <2>3, <2>4 DEF Exists, Dispositions
  <1>3. QED
    BY <1>1, <1>2 DEF Recover

LEMMA PowerLossKeeps ==
  ASSUME KeptInv, TypeInv', PowerLoss
  PROVE  KeptInv'
  <1>0. run \in [Transactions -> Process]
    BY KeptTypes
  <1>1. PICK f \in survivors : files' = f /\ survivors' = {f}
    BY DEF PowerLoss
  <1>2. UNCHANGED <<base, saves>>
    BY DEF PowerLoss
  <1>3. Sound(f)'
    BY <1>2 DEF KeptInv, Sound, Held, Paired
  <1>4. ASSUME NEW u \in Transactions PROVE Knows(u)'
    <2>1. run'[u].stage = "down" \/ (run'[u].stage = "idle" /\ run[u].stage = "idle")
      BY <1>0 DEF PowerLoss, At, NewProcess
    <2>2. run[u].stage = "idle" => f.peer[u] = Missing
      BY DEF KeptInv, Knows, Fresh
    <2>3. base'[u].save <= saves'
      BY <1>2 DEF KeptInv, Knows
    <2>4. QED
      BY <1>1, <2>1, <2>2, <2>3
      DEF Knows, Fresh, HasDirectory, Working, BeforeExchange, Derived
  <1>5. QED
    BY <1>1, <1>3, <1>4 DEF KeptInv

LEMMA UserKeeps ==
  ASSUME KeptInv, TypeInv', UserSave \/ UserRemove
  PROVE  KeptInv'
  <1>0. /\ files \in survivors /\ files \in Files /\ saves \in Nat /\ Sound(files)
        /\ \A u \in Transactions : base[u].save \in Nat /\ base[u].save <= saves
        /\ \A f \in survivors : f.newest \in Nat /\ f.target.save \in Nat
        /\ \A f \in survivors : \A u \in Transactions : f.peer[u].save \in Nat
    BY KeptTypes DEF KeptInv, Knows, TypeInv, TypeOK
  <1>1. PICK e : UserEdit(e) /\ (e = Missing \/
                 \E link \in BOOLEAN : e = [by |-> User, save |-> saves + 1, link |-> link])
    BY DEF UserSave, UserRemove
  <1> DEFINE g == [files EXCEPT !.target = e, !.newest = e.save]
  <1>2. /\ files' = g /\ survivors' = survivors \union {g} /\ saves' = saves + 1
        /\ UNCHANGED <<base, run>>
    BY <1>1 DEF UserEdit, Change
  <1>3. e.save \in {0, saves + 1}
    BY <1>1, EntryFacts
  <1>4. /\ g.target = e /\ g.newest = e.save
        /\ g.peer = files.peer /\ g.directory = files.directory
    BY <1>0 DEF Files
  <1>5. ASSUME NEW f \in survivors PROVE Sound(f)'
    <2>1. Sound(f)
      BY DEF KeptInv
    <2>2. QED
      BY <1>0, <1>2, <2>1 DEF Sound, Held, Paired
  <1>6. Sound(g)'
    BY <1>0, <1>2, <1>3, <1>4 DEF Sound, Held, Paired
  <1>7. ASSUME NEW u \in Transactions PROVE Knows(u)'
    <2>1. Knows(u) /\ run'[u] = run[u] /\ base'[u] = base[u]
      BY <1>2 DEF KeptInv
    <2>2. files'.newest # 0 => files'.newest # base[u].save
      BY <1>0, <1>2, <1>3, <1>4
    <2>3. run[u].stage \in Fresh => \A f \in survivors' : f.peer[u] = Missing
      BY <1>0, <1>2, <1>4, <2>1 DEF Knows
    <2>4. base'[u].save <= saves' /\ Derived(u)'
      BY <1>0, <1>2, <2>1 DEF Knows, Derived
    <2>5. QED
      BY <1>2, <1>4, <2>1, <2>2, <2>3, <2>4 DEF Knows, BeforeExchange
  <1>8. QED
    BY <1>2, <1>5, <1>6, <1>7 DEF KeptInv

LEMMA KeptNext == KeptInv /\ [Next]_vars => KeptInv'
  <1> SUFFICES ASSUME KeptInv, [Next]_vars PROVE KeptInv'
    OBVIOUS
  <1>0. TypeInv'
    BY TypeNext DEF KeptInv
  <1>1. CASE UNCHANGED vars
    BY <1>0, <1>1 DEF vars, KeptInv, Sound, Held, Paired, Knows, BeforeExchange, Derived
  <1>2. ASSUME NEW t \in Transactions,
               Prepare(t) \/ Journal(t) \/ promote(t) \/ WayBack(t) \/ Close(t) \/ Recover(t)
               \/ Stop(t)
        PROVE  KeptInv'
    BY <1>0, <1>2, PrepareKeeps, JournalKeeps, PromoteKeeps, WayBackKeeps, CloseKeeps, RecoverKeeps
  <1>3. CASE PowerLoss
    BY <1>0, <1>3, PowerLossKeeps
  <1>4. CASE UserSave \/ UserRemove
    BY <1>0, <1>4, UserKeeps
  <1>5. QED
    BY <1>1, <1>2, <1>3, <1>4 DEF Next

(* Whatever calls fail, whoever dies and whichever files a power loss      *)
(* leaves, the user's newest save is in the startup file or in a           *)
(* transaction directory that is still there.                              *)
THEOREM NewestSaveSurvives == Spec => []NewestSaveKept
  <1>1. KeptInv => NewestSaveKept
    <2> SUFFICES ASSUME KeptInv, NEW f \in survivors, f.newest # 0
                 PROVE  Carries(f, f.newest)
      BY DEF NewestSaveKept
    <2>1. Sound(f)
      BY DEF KeptInv
    <2>2. ASSUME NEW u \in Transactions, f.peer[u].save = f.newest
          PROVE  f.directory[u] # "absent"
      BY <2>1, <2>2, EntryFacts DEF Sound
    <2>3. QED
      BY <2>1, <2>2 DEF Sound, Held, Carries
  <1>2. QED
    BY <1>1, InitialKept, KeptNext, PTL DEF Spec

--------------------------------------------------------------------------------
(* Complete candidates, durable installs, and the abstract startup file    *)

(* An entry is in one place.                                               *)
Distinct(f) ==
  /\ \A t \in Transactions : f.peer[t] # Missing => f.peer[t] # f.target
  /\ \A t, u \in Transactions : t # u /\ f.peer[t] # Missing => f.peer[t] # f.peer[u]

(* Out of its own directory, a candidate is whole; before it is staged, it *)
(* is nowhere.                                                             *)
Elsewhere(f, t) == f.target.by = t \/ \E u \in Transactions \ {t} : f.peer[u].by = t
Nowhere(f, t) == f.target.by # t /\ \A u \in Transactions : f.peer[u].by # t

PastSync(p) ==
  \/ p.stage \in {"synced", "evidenced", "prepared", "checked", "reversing"}
  \/ p.stage = "writing" /\ p.next.state = "prepared"
  \/ p.stage = "recorded" /\ p.record.state = "prepared"

Whole(t) ==
  /\ \A f \in survivors : Elsewhere(f, t) => candidate[t] = "whole"
  /\ run[t].stage \in Fresh => \A f \in survivors : Nowhere(f, t)
  /\ PastSync(run[t]) => candidate[t] = "whole"

(* What the exchange displaced stays aside, and from the sync on no power  *)
(* loss takes the exchange back.                                           *)
Durable(t) ==
  LET p == run[t]
      Everywhere == \A f \in survivors : f.peer[t] = base[t] IN
  /\ p.stage = "writing" /\ p.next.state \in {"exchanged", "created"} =>
       files.peer[t] = p.next.displaced
  /\ p.stage = "recorded" /\ p.record.state \in {"exchanged", "created"} =>
       files.peer[t] = p.record.displaced
  /\ p.stage = "forward" => files.peer[t] = base[t]
  /\ p.stage = "writing" /\ p.next.state = "parent_synced" => Everywhere
  /\ p.stage = "recorded" /\ p.record.state = "parent_synced" => Everywhere
  /\ p.stage = "settled" /\ p.disposition = "installed" => Everywhere

PlaceInv ==
  /\ KeptInv
  /\ \A f \in survivors : Distinct(f)
  /\ \A t \in Transactions : Whole(t) /\ Durable(t)

LEMMA InitialPlace == Init => PlaceInv
  <1> SUFFICES ASSUME Init PROVE PlaceInv
    OBVIOUS
  <1>1. KeptInv
    BY InitialKept
  <1>2. /\ files.target \in {Missing, [by |-> User, save |-> 1, link |-> FALSE]}
        /\ files.peer = [t \in Transactions |-> Missing]
        /\ survivors = {files}
    BY DEF Init
  <1>3. files.target.by \in {User, Nobody} /\ Missing.by = Nobody
    BY <1>2 DEF Missing
  <1>4. \A t \in Transactions : Nowhere(files, t) /\ ~Elsewhere(files, t)
    BY <1>2, <1>3, EntryFacts DEF Nowhere, Elsewhere
  <1>5. Distinct(files)
    BY <1>2 DEF Distinct
  <1>6. \A t \in Transactions : run[t].stage = "idle"
    BY DEF Init, NewProcess
  <1>7. \A t \in Transactions : Whole(t) /\ Durable(t)
    BY <1>2, <1>4, <1>6 DEF Whole, Durable, PastSync
  <1>8. QED
    BY <1>1, <1>2, <1>5, <1>7 DEF PlaceInv

(* What a step of t that changes files has to show.                        *)
Placed(t) ==
  /\ Distinct(files')
  /\ \A u \in Transactions :
        /\ Elsewhere(files', u) => candidate'[u] = "whole"
        /\ u # t /\ run[u].stage \in Fresh => Nowhere(files', u)

LEMMA StepPlaces ==
  ASSUME PlaceInv, KeptInv', NEW t \in Transactions, NEW p, run' = [run EXCEPT ![t] = p],
         Beside(t), UNCHANGED files \/ Placed(t),
         \A u \in Transactions \ {t} : candidate'[u] = candidate[u],
         \A f \in survivors : Elsewhere(f, t) => candidate'[t] = "whole",
         p.stage \notin Fresh \/ (run[t].stage \in Fresh /\ UNCHANGED files),
         PastSync(p) => candidate'[t] = "whole",
         Durable(t)'
  PROVE  PlaceInv'
  <1>0. /\ run \in [Transactions -> Process] /\ files \in survivors
        /\ survivors' \subseteq survivors \union {files'} /\ base' = base
    BY KeptTypes DEF PlaceInv, Beside
  <1>1. \A f \in survivors' : Distinct(f)
    BY <1>0 DEF PlaceInv, Placed
  <1>2. \A f, u : Elsewhere(f, u)' = Elsewhere(f, u) /\ Nowhere(f, u)' = Nowhere(f, u)
    OBVIOUS
  <1>3. ASSUME NEW u \in Transactions, NEW f \in survivors'
        PROVE  /\ Elsewhere(f, u) => candidate'[u] = "whole"
               /\ run'[u].stage \in Fresh => Nowhere(f, u)
    <2>1. f \in survivors \/ (f = files' /\ Placed(t))
      BY <1>0
    <2>2. u # t => run'[u] = run[u] /\ candidate'[u] = candidate[u]
      BY <1>0
    <2>3. run'[t] = p
      BY <1>0
    <2>4. CASE f \in survivors
      BY <2>2, <2>3, <2>4 DEF PlaceInv, Whole
    <2>5. CASE f = files' /\ Placed(t)
      <3>1. CASE u = t
        BY <1>0, <2>3, <2>5, <3>1 DEF PlaceInv, Whole, Placed
      <3>2. CASE u # t
        BY <2>2, <2>5, <3>2 DEF Placed
      <3>3. QED
        BY <3>1, <3>2
    <2>6. QED
      BY <2>1, <2>4, <2>5
  <1>4. ASSUME NEW u \in Transactions PROVE PastSync(run'[u]) => candidate'[u] = "whole"
    BY <1>0 DEF PlaceInv, Whole
  <1>5. ASSUME NEW u \in Transactions PROVE Whole(u)'
    BY <1>3, <1>4 DEF Whole, Elsewhere, Nowhere
  <1>6. ASSUME NEW u \in Transactions, u # t PROVE Durable(u)'
    <2>1. run'[u] = run[u] /\ files'.peer[u] = files.peer[u]
      BY <1>0, <1>6 DEF Beside
    <2>2. Durable(u)
      BY DEF PlaceInv
    <2>3. (\A f \in survivors : f.peer[u] = base[u]) => \A f \in survivors' : f.peer[u] = base[u]
      BY <1>0, <2>1
    <2>4. QED
      BY <1>0, <2>1, <2>2, <2>3 DEF Durable
  <1>7. QED
    BY <1>1, <1>5, <1>6 DEF PlaceInv, Distinct

(* A step of t that leaves the files and the bytes of the candidate alone. *)
LEMMA QuietPlaces ==
  ASSUME PlaceInv, KeptInv', NEW t \in Transactions, NEW p, run' = [run EXCEPT ![t] = p],
         UNCHANGED <<files, base, saves, candidate>>, survivors' \subseteq survivors,
         p.stage \in Fresh => run[t].stage \in Fresh,
         PastSync(p) => PastSync(run[t]) \/ candidate[t] = "whole",
         Durable(t)'
  PROVE  PlaceInv'
  BY StepPlaces DEF Beside, PlaceInv, Whole

LEMMA WritingPlaces ==
  ASSUME PlaceInv, KeptInv', NEW t \in Transactions, NEW record,
         WriteJournal(t, record), record.state # "prepared",
         record.state \in {"exchanged", "created"} => files.peer[t] = record.displaced,
         record.state = "parent_synced" => \A f \in survivors' : f.peer[t] = base[t],
         UNCHANGED <<files, candidate>>, survivors' \subseteq survivors, Only(t)
  PROVE  PlaceInv'
  <1> DEFINE p == [run[t] EXCEPT !.stage = "writing", !.next = record]
  <1>0. run[t] \in Process /\ run \in [Transactions -> Process]
    BY KeptTypes DEF PlaceInv
  <1>1. run' = [run EXCEPT ![t] = p] /\ UNCHANGED <<base, saves>>
    BY DEF WriteJournal, WriteSlot, Only, UnchangedWorld
  <1>2. run'[t] = p /\ p.stage = "writing" /\ p.next = record
    BY <1>0, <1>1 DEF Process
  <1>3. Durable(t)'
    BY <1>1, <1>2 DEF Durable
  <1>4. QED
    BY <1>1, <1>2, <1>3, QuietPlaces DEF Fresh, PastSync

(* The renames permute the entries.                                        *)
LEMMA ExchangePlaces ==
  ASSUME PlaceInv, NEW t \in Transactions, files' = Exchanged(t), UNCHANGED candidate,
         candidate[t] = "whole", run[t].stage \notin Fresh
  PROVE  Placed(t)
  <1> DEFINE g == Exchanged(t)
  <1>0. files \in Files /\ files \in survivors /\ Distinct(files)
        /\ files.peer \in [Transactions -> Entry]
    BY KeptTypes DEF PlaceInv, KeptInv, TypeInv, TypeOK
  <1>1. /\ g.target = files.peer[t] /\ g.peer[t] = files.target
        /\ \A u \in Transactions \ {t} : g.peer[u] = files.peer[u]
    BY <1>0 DEF Exchanged, Files
  <1>2. Distinct(g)
    BY <1>0, <1>1 DEF Distinct
  <1>3. ASSUME NEW u \in Transactions, Elsewhere(g, u) PROVE candidate[u] = "whole"
    <2>1. CASE u = t
      BY <2>1
    <2>2. CASE u # t
      BY <1>0, <1>1, <1>3, <2>2 DEF Elsewhere, PlaceInv, Whole
    <2>3. QED
      BY <2>1, <2>2
  <1>4. ASSUME NEW u \in Transactions, run[u].stage \in Fresh PROVE Nowhere(g, u)
    BY <1>0, <1>1, <1>4 DEF Nowhere, PlaceInv, Whole
  <1>5. QED
    BY <1>2, <1>3, <1>4 DEF Placed

LEMMA PlaceTypes ==
  ASSUME PlaceInv, NEW t \in Transactions
  PROVE  /\ TypeInv /\ run \in [Transactions -> Process] /\ run[t] \in Process
         /\ candidate \in [Transactions -> Contents]
         /\ base \in [Transactions -> Entry] /\ base[t] \in Entry
         /\ files \in survivors /\ files \in Files
         /\ Sound(files) /\ Distinct(files)
         /\ Knows(t) /\ Whole(t) /\ Durable(t)
         /\ (lock = t) = (run[t].stage \in Working)
  BY KeptTypes DEF PlaceInv, KeptInv, TypeInv, TypeOK

LEMMA PreparePlaces ==
  ASSUME PlaceInv, KeptInv', NEW t \in Transactions, Prepare(t)
  PROVE  PlaceInv'
  <1> USE DEF At, Only, UnchangedWorld, UnchangedFiles, UnchangedBytes
  <1>0. /\ run \in [Transactions -> Process] /\ run[t] \in Process
        /\ candidate \in [Transactions -> Contents]
        /\ files \in survivors /\ files \in Files /\ Distinct(files) /\ base[t] \in Entry
        /\ Knows(t) /\ Whole(t) /\ Durable(t)
    BY PlaceTypes
  <1>1. CASE captureInstallSnapshot(t)
    <2>1. /\ run' = [run EXCEPT ![t].stage = "captured"] /\ run[t].stage = "idle"
          /\ UNCHANGED <<files, survivors, candidate>>
          /\ base' = [base EXCEPT ![t] = files.target]
      BY <1>1 DEF captureInstallSnapshot, Goto
    <2>2. run'[t].stage = "captured"
      BY <1>0, <2>1 DEF Process
    <2>3. ASSUME NEW u \in Transactions PROVE Whole(u)' /\ Durable(u)'
      <3>1. CASE u = t
        BY <1>0, <2>1, <2>2, <3>1 DEF Whole, Durable, PastSync, Fresh, Elsewhere, Nowhere
      <3>2. CASE u # t
        <4>1. run'[u] = run[u] /\ base'[u] = base[u] /\ Whole(u) /\ Durable(u)
          BY <1>0, <2>1, <3>2, PlaceTypes
        <4>2. QED
          BY <2>1, <4>1 DEF Whole, Durable, Elsewhere, Nowhere
      <3>3. QED
        BY <3>1, <3>2
    <2>4. QED
      BY <2>1, <2>3 DEF PlaceInv, Distinct
  <1>2. CASE openTargetTransactionGuard(t)
    <2>1. PICK stage \in {"locked", "reopened"} :
            /\ Goto(t, stage)
            /\ stage = "locked" => run[t].stage = "captured"
      BY <1>2 DEF openTargetTransactionGuard
    <2>2. run' = [run EXCEPT ![t] = [run[t] EXCEPT !.stage = stage]] /\ run'[t].stage = stage
      BY <1>0, <2>1 DEF Goto, Process
    <2>3. Durable(t)'
      BY <2>2 DEF Durable
    <2>4. QED
      BY <1>0, <1>2, <2>1, <2>2, <2>3, QuietPlaces
      DEF openTargetTransactionGuard, Fresh, PastSync, Process
  <1>3. CASE StageCandidate(t)
    <2> DEFINE g == [files EXCEPT !.directory[t] = "open", !.peer[t] = Candidate(t)]
    <2>1. /\ run' = [run EXCEPT ![t] = [run[t] EXCEPT !.stage = "staged"]]
          /\ run'[t].stage = "staged" /\ run[t].stage = "locked"
          /\ files' = g /\ survivors' = survivors \union {g} /\ UNCHANGED <<base, saves, lock>>
          /\ candidate' = [candidate EXCEPT ![t] = "unsynced"]
      BY <1>0, <1>3 DEF StageCandidate, Goto, Change, Process
    <2>2. /\ g.target = files.target /\ g.newest = files.newest /\ g.peer[t] = Candidate(t)
          /\ \A u \in Transactions \ {t} :
                g.peer[u] = files.peer[u] /\ g.directory[u] = files.directory[u]
      BY <1>0 DEF Files
    <2>3. Beside(t)
      BY <2>1, <2>2 DEF Beside
    <2>4. \A f \in survivors : Nowhere(f, t) /\ ~Elsewhere(f, t)
      BY <1>0, <2>1 DEF Whole, Fresh, Nowhere, Elsewhere
    <2>5. Candidate(t).by = t
      BY <1>0, CandidateType
    <2>6. Distinct(g)
      BY <1>0, <2>2, <2>4, <2>5 DEF Distinct, Nowhere
    <2>7. ASSUME NEW u \in Transactions
          PROVE  /\ Elsewhere(g, u) => candidate'[u] = "whole"
                 /\ u # t /\ run[u].stage \in Fresh => Nowhere(g, u)
      <3>1. CASE u = t
        BY <1>0, <2>2, <2>4, <3>1 DEF Elsewhere
      <3>2. CASE u # t
        <4>1. candidate'[u] = candidate[u] /\ Whole(u)
          BY <1>0, <2>1, <3>2, PlaceTypes
        <4>2. Elsewhere(g, u) => Elsewhere(files, u)
          BY <2>2, <2>5, <3>2 DEF Elsewhere
        <4>3. Nowhere(files, u) => Nowhere(g, u)
          BY <2>2, <2>5, <3>2 DEF Nowhere
        <4>4. QED
          BY <1>0, <4>1, <4>2, <4>3 DEF Whole
      <3>3. QED
        BY <3>1, <3>2
    <2>8. Placed(t)
      BY <2>1, <2>6, <2>7 DEF Placed
    <2>9. Durable(t)'
      BY <2>1 DEF Durable
    <2>10. /\ [run[t] EXCEPT !.stage = "staged"].stage = "staged"
           /\ \A u \in Transactions \ {t} : candidate'[u] = candidate[u]
      BY <1>0, <2>1 DEF Process
    <2>11. QED
      BY <2>1, <2>3, <2>4, <2>8, <2>9, <2>10, StepPlaces DEF Fresh, PastSync
  <1>4. CASE SyncCandidate(t)
    <2>1. /\ run' = [run EXCEPT ![t] = [run[t] EXCEPT !.stage = "synced"]]
          /\ UNCHANGED <<files, survivors, base, saves>>
          /\ candidate' = [candidate EXCEPT ![t] = "whole"]
      BY <1>4 DEF SyncCandidate, Goto
    <2>2. run'[t].stage = "synced" /\ [run[t] EXCEPT !.stage = "synced"].stage = "synced"
      BY <1>0, <2>1 DEF Process
    <2>3. Durable(t)'
      BY <2>2 DEF Durable
    <2>4. candidate'[t] = "whole" /\ \A u \in Transactions \ {t} : candidate'[u] = candidate[u]
      BY <1>0, <2>1
    <2>5. QED
      BY <2>1, <2>2, <2>3, <2>4, StepPlaces DEF Beside, Fresh
  <1>5. CASE SyncArtifacts(t)
    <2> DEFINE p == [run[t] EXCEPT !.stage = "evidenced"]
    <2>1. /\ run' = [run EXCEPT ![t] = p] /\ run[t].stage = "synced"
          /\ UNCHANGED <<files, base, saves, candidate>> /\ survivors' \subseteq survivors
      BY <1>0, <1>5 DEF SyncArtifacts, SyncDirectory, Goto
    <2>2. run'[t] = p /\ p.stage = "evidenced"
      BY <1>0, <2>1 DEF Process
    <2>3. Durable(t)'
      BY <2>2 DEF Durable
    <2>4. QED
      BY <2>1, <2>2, <2>3, QuietPlaces DEF Fresh, PastSync
  <1>6. CASE createPreparedJournal(t)
    <2> DEFINE g == [files EXCEPT !.directory[t] = "journaled"]
               p == [run[t] EXCEPT !.stage = "writing", !.next = Prepared]
    <2>1. /\ run' = [run EXCEPT ![t] = p] /\ run[t].stage = "evidenced"
          /\ files' = g /\ survivors' = survivors \union {g}
          /\ UNCHANGED <<base, saves, lock, candidate>>
      BY <1>6 DEF createPreparedJournal, WriteSlot, Change
    <2>2. run'[t] = p /\ p.stage = "writing" /\ p.next = Prepared
      BY <1>0, <2>1 DEF Process
    <2>3. /\ g.target = files.target /\ g.newest = files.newest /\ g.peer = files.peer
          /\ \A u \in Transactions \ {t} : g.directory[u] = files.directory[u]
      BY <1>0 DEF Files
    <2>4. Placed(t)
      <3>1. Distinct(g)
        BY <1>0, <2>3 DEF Distinct
      <3>2. \A u \in Transactions : /\ Elsewhere(g, u) = Elsewhere(files, u)
                                    /\ Nowhere(g, u) = Nowhere(files, u)
        BY <2>3 DEF Elsewhere, Nowhere
      <3>3. QED
        BY <1>0, <2>1, <3>1, <3>2, PlaceTypes DEF Placed, Whole
    <2>5. Durable(t)'
      BY <2>2, RecordFacts DEF Durable
    <2>6. QED
      BY <1>0, <2>1, <2>2, <2>3, <2>4, <2>5, StepPlaces DEF Beside, Fresh, PastSync, Whole
  <1>7. QED
    BY <1>1, <1>2, <1>3, <1>4, <1>5, <1>6 DEF Prepare

LEMMA JournalPlaces ==
  ASSUME PlaceInv, KeptInv', NEW t \in Transactions, Journal(t)
  PROVE  PlaceInv'
  <1> USE DEF At, Only, UnchangedWorld, UnchangedFiles, UnchangedBytes
  <1>0. /\ run \in [Transactions -> Process] /\ run[t] \in Process /\ files \in survivors
        /\ Durable(t) /\ Knows(t)
    BY PlaceTypes
  <1>1. CASE SyncJournal(t)
    <2> DEFINE p == [run[t] EXCEPT !.stage = "recorded", !.record = run[t].next,
                                   !.generation = @ + 1]
    <2>1. run' = [run EXCEPT ![t] = p] /\ run[t].stage = "writing"
          /\ UNCHANGED <<files, survivors, base, saves, candidate>>
      BY <1>0, <1>1 DEF SyncJournal
    <2>2. run'[t] = p /\ p.stage = "recorded" /\ p.record = run[t].next
      BY <1>0, <2>1 DEF Process
    <2>3. Durable(t)'
      BY <1>0, <2>1, <2>2 DEF Durable
    <2>4. QED
      BY <2>1, <2>2, <2>3, QuietPlaces DEF Fresh, PastSync
  <1>2. CASE SyncJournalDirectory(t)
    <2> DEFINE disposition == IF run[t].record.state = "parent_synced" THEN "installed"
                              ELSE run[t].disposition
               p == [run[t] EXCEPT !.stage = After(t), !.disposition = disposition]
    <2>1. run' = [run EXCEPT ![t] = p] /\ run[t].stage = "recorded"
          /\ UNCHANGED <<files, base, saves, candidate>> /\ survivors' \subseteq survivors
      BY <1>0, <1>2 DEF SyncJournalDirectory, SyncDirectory
    <2>2. /\ run'[t] = p /\ p.stage = After(t) /\ p.record = run[t].record
          /\ p.disposition = disposition
      BY <1>0, <2>1 DEF Process
    <2>3. run[t].record \in Record /\ run[t].record.state \in States
      BY <1>0, RecordFacts DEF Process
    <2>4. /\ run[t].record.state = "prepared" => After(t) = "prepared"
          /\ run[t].record.state = "exchanged" =>
               \/ After(t) \in {"rollback", "reverse"}
               \/ After(t) = "forward" /\ run[t].record.displaced = base[t]
          /\ run[t].record.state = "created" => After(t) = "forward"
          /\ run[t].record.state = "parent_synced" => After(t) = "settled"
          /\ run[t].record.state = "reversed" => After(t) = "backward"
          /\ run[t].record.state = "finalized" => After(t) = "closing"
      BY DEF After, CandidateDerives
    <2>5. run[t].record.state = "created" => run[t].record.displaced = base[t]
      BY <1>0, <2>1 DEF Knows, Derived
    <2>6. Durable(t)'
      BY <1>0, <2>1, <2>2, <2>3, <2>4, <2>5 DEF Durable, States
    <2>7. p.stage \notin Fresh /\ (PastSync(p) => PastSync(run[t]))
      BY <2>1, <2>2, <2>3, <2>4 DEF Fresh, PastSync, States
    <2>8. QED
      BY <2>1, <2>6, <2>7, QuietPlaces
  <1>3. QED
    BY <1>1, <1>2 DEF Journal

LEMMA PromotePlaces ==
  ASSUME PlaceInv, KeptInv', NEW t \in Transactions, promote(t)
  PROVE  PlaceInv'
  <1> USE DEF At, Only, UnchangedWorld, UnchangedFiles, UnchangedBytes
  <1>0. /\ TypeInv /\ run \in [Transactions -> Process] /\ run[t] \in Process
        /\ files \in survivors /\ files \in Files /\ Durable(t) /\ Knows(t) /\ Whole(t)
    BY PlaceTypes
  <1>1. CASE CheckTarget(t) \/ PromoteRefused(t)
    <2>1. PICK p \in {[run[t] EXCEPT !.stage = "checked"],
                      [run[t] EXCEPT !.stage = "settled", !.disposition = "unchanged"]} :
            run' = [run EXCEPT ![t] = p]
      BY <1>0, <1>1 DEF CheckTarget, PromoteRefused, Goto, Settled
    <2>2. /\ UNCHANGED <<files, survivors, base, saves, candidate>>
          /\ run[t].stage \in {"prepared", "checked"}
      BY <1>1 DEF CheckTarget, PromoteRefused
    <2>3. p.stage = "checked" \/ (p.stage = "settled" /\ p.disposition = "unchanged")
      <3>1. CASE p = [run[t] EXCEPT !.stage = "checked"]
        BY <1>0, <3>1 DEF Process
      <3>2. CASE p = [run[t] EXCEPT !.stage = "settled", !.disposition = "unchanged"]
        BY <1>0, <3>2 DEF Process
      <3>3. QED
        BY <3>1, <3>2
    <2>4. run'[t] = p
      BY <1>0, <2>1
    <2>5. Durable(t)'
      BY <2>3, <2>4 DEF Durable
    <2>6. QED
      BY <2>1, <2>2, <2>3, <2>5, QuietPlaces DEF Fresh, PastSync
  <1>2. CASE Promote(t)
    <2> DEFINE p == [run[t] EXCEPT !.stage = "swapped"]
    <2>1. /\ run' = [run EXCEPT ![t] = p] /\ run[t].stage = "checked"
          /\ files' = Exchanged(t) /\ survivors' = survivors \union {files'}
          /\ UNCHANGED <<base, saves, lock, candidate>>
      BY <1>2 DEF Promote, Goto, Change
    <2>2. run'[t] = p /\ p.stage = "swapped"
      BY <1>0, <2>1 DEF Process
    <2>3. candidate[t] = "whole"
      BY <1>0, <2>1 DEF Whole, PastSync
    <2>4. Placed(t)
      BY <2>1, <2>3, ExchangePlaces DEF Fresh
    <2>5. /\ files'.newest = files.newest /\ files'.directory = files.directory
          /\ \A u \in Transactions \ {t} : files'.peer[u] = files.peer[u]
      BY <1>0, <2>1 DEF Exchanged, Files
    <2>6. lock = t
      BY <1>0, <2>1, WorkingStages, PlaceTypes
    <2>7. Durable(t)'
      BY <2>2 DEF Durable
    <2>8. QED
      BY <2>1, <2>2, <2>3, <2>4, <2>5, <2>6, <2>7, StepPlaces DEF Beside, Fresh, PastSync
  <1>3. CASE RecordPromotion(t)
    <2> DEFINE record == [state |-> IF Exists(base[t]) THEN "exchanged" ELSE "created",
                          displaced |-> files.peer[t]]
    <2>1. record.state \in {"exchanged", "created"} /\ record.displaced = files.peer[t]
      OBVIOUS
    <2>2. WriteJournal(t, record) /\ UNCHANGED <<files, survivors, candidate>> /\ Only(t)
      BY <1>3 DEF RecordPromotion
    <2>3. QED
      BY <2>1, <2>2, WritingPlaces
  <1>4. CASE SyncForward(t)
    <2> DEFINE record == [run[t].record EXCEPT !.state = "parent_synced"]
    <2>1. record.state = "parent_synced"
      BY <1>0, SucceedingRecord DEF States
    <2>2. /\ WriteJournal(t, record) /\ run[t].stage = "forward"
          /\ UNCHANGED <<files, candidate>> /\ survivors' = {files} /\ Only(t)
      BY <1>4 DEF SyncForward, SyncDirectory
    <2>3. \A f \in survivors' : f.peer[t] = base[t]
      BY <1>0, <2>2 DEF Durable
    <2>4. QED
      BY <1>0, <2>1, <2>2, <2>3, WritingPlaces
  <1>5. QED
    BY <1>1, <1>2, <1>3, <1>4 DEF promote

LEMMA WayBackPlaces ==
  ASSUME PlaceInv, KeptInv', NEW t \in Transactions, WayBack(t)
  PROVE  PlaceInv'
  <1> USE DEF At, Only, UnchangedWorld, UnchangedFiles, UnchangedBytes
  <1>0. /\ TypeInv /\ run \in [Transactions -> Process] /\ run[t] \in Process
        /\ files \in survivors /\ files \in Files /\ base[t] \in Entry
        /\ Durable(t) /\ Knows(t) /\ Whole(t)
    BY PlaceTypes
  <1>1. CASE reverseLateSubstitution(t) \/ rollback(t)
    <2> DEFINE p == [run[t] EXCEPT !.stage = "reversing"]
    <2>1. /\ run' = [run EXCEPT ![t] = p] /\ InPlace(t)
          /\ UNCHANGED <<files, survivors, base, saves, candidate>>
      BY <1>1 DEF reverseLateSubstitution, rollback, Goto
    <2>2. run'[t] = p /\ p.stage = "reversing"
      BY <1>0, <2>1 DEF Process
    <2>3. candidate[t] = "whole"
      BY <1>0, <2>1, CandidateType DEF InPlace, Whole, Elsewhere
    <2>4. Durable(t)'
      BY <2>2 DEF Durable
    <2>5. QED
      BY <2>1, <2>2, <2>3, <2>4, QuietPlaces DEF Fresh
  <1>2. CASE Reverse(t)
    <2> DEFINE p == [run[t] EXCEPT !.stage = "swapped_back"]
    <2>1. /\ run' = [run EXCEPT ![t] = p] /\ run[t].stage = "reversing"
          /\ files' = Exchanged(t) /\ survivors' = survivors \union {files'}
          /\ UNCHANGED <<base, saves, lock, candidate>>
      BY <1>2 DEF Reverse, Goto, Change
    <2>2. run'[t] = p /\ p.stage = "swapped_back"
      BY <1>0, <2>1 DEF Process
    <2>3. candidate[t] = "whole"
      BY <1>0, <2>1 DEF Whole, PastSync
    <2>4. Placed(t)
      BY <2>1, <2>3, ExchangePlaces DEF Fresh
    <2>5. /\ files'.newest = files.newest /\ files'.directory = files.directory
          /\ \A u \in Transactions \ {t} : files'.peer[u] = files.peer[u]
      BY <1>0, <2>1 DEF Exchanged, Files
    <2>6. lock = t
      BY <1>0, <2>1, WorkingStages, PlaceTypes
    <2>7. Durable(t)'
      BY <2>2 DEF Durable
    <2>8. QED
      BY <2>1, <2>2, <2>3, <2>4, <2>5, <2>6, <2>7, StepPlaces DEF Beside, Fresh, PastSync
  <1>3. CASE RecordReversal(t)
    <2> DEFINE record == [run[t].record EXCEPT !.state = "reversed"]
    <2>1. record.state = "reversed"
      BY <1>0, SucceedingRecord DEF States
    <2>2. WriteJournal(t, record) /\ UNCHANGED <<files, survivors, candidate>> /\ Only(t)
      BY <1>3 DEF RecordReversal
    <2>3. QED
      BY <2>1, <2>2, WritingPlaces
  <1>4. CASE SyncBackward(t)
    <2> DEFINE p == [run[t] EXCEPT !.stage = "settled", !.disposition = "restored"]
    <2>1. /\ run' = [run EXCEPT ![t] = p]
          /\ UNCHANGED <<files, base, saves, candidate>> /\ survivors' \subseteq survivors
      BY <1>0, <1>4 DEF SyncBackward, SyncDirectory, Settled
    <2>2. run'[t] = p /\ p.stage = "settled" /\ p.disposition = "restored"
      BY <1>0, <2>1 DEF Process
    <2>3. Durable(t)'
      BY <2>2 DEF Durable
    <2>4. QED
      BY <2>1, <2>2, <2>3, QuietPlaces DEF Fresh, PastSync
  <1>5. QED
    BY <1>1, <1>2, <1>3, <1>4 DEF WayBack

(* A change of files that leaves every entry where it is, or removes one.  *)
LEMMA FewerPlaces ==
  ASSUME PlaceInv, NEW t \in Transactions, UNCHANGED candidate,
         files'.target = files.target,
         files'.peer[t] \in {Missing, files.peer[t]},
         \A u \in Transactions \ {t} : files'.peer[u] = files.peer[u]
  PROVE  Placed(t)
  <1>0. files \in survivors /\ Distinct(files) /\ Missing.by = Nobody
    BY PlaceTypes DEF Missing
  <1>1. Distinct(files')
    BY <1>0 DEF Distinct
  <1>2. ASSUME NEW u \in Transactions
        PROVE  /\ Elsewhere(files', u) => Elsewhere(files, u)
               /\ Nowhere(files, u) => Nowhere(files', u)
    <2>1. \A v \in Transactions : files'.peer[v].by \in {Nobody, files.peer[v].by}
      BY <1>0
    <2>2. u # Nobody
      BY EntryFacts
    <2>3. QED
      BY <2>1, <2>2 DEF Elsewhere, Nowhere
  <1>3. \A u \in Transactions : Whole(u)
    BY DEF PlaceInv
  <1>4. QED
    BY <1>0, <1>1, <1>2, <1>3 DEF Placed, Whole

LEMMA ClosePlaces ==
  ASSUME PlaceInv, KeptInv', NEW t \in Transactions, Close(t)
  PROVE  PlaceInv'
  <1> USE DEF At, Only, UnchangedWorld, UnchangedFiles, UnchangedBytes
  <1>0. /\ TypeInv /\ run \in [Transactions -> Process] /\ run[t] \in Process
        /\ files \in survivors /\ files \in Files
        /\ Durable(t) /\ Knows(t) /\ Whole(t)
    BY PlaceTypes
  <1>1. CASE finalize(t)
    <2> DEFINE record == [run[t].record EXCEPT !.state = "finalized"]
    <2>1. record.state = "finalized"
      BY <1>0, SucceedingRecord DEF States
    <2>2. WriteJournal(t, record) /\ UNCHANGED <<files, survivors, candidate>> /\ Only(t)
      BY <1>1 DEF finalize
    <2>3. QED
      BY <2>1, <2>2, WritingPlaces
  <1>2. CASE RemovePeer(t) \/ RemoveArtifacts(t) \/ RemoveDirectory(t)
    <2>1. PICK stage \in {"stripping", "stripped", "done"} :
            run' = [run EXCEPT ![t] = [run[t] EXCEPT !.stage = stage]]
      BY <1>2 DEF RemovePeer, RemoveArtifacts, RemoveDirectory, Goto
    <2> DEFINE p == [run[t] EXCEPT !.stage = stage]
    <2>2. run'[t] = p /\ p.stage = stage
      BY <1>0, <2>1 DEF Process
    <2>3. UNCHANGED <<base, saves, candidate>> /\ survivors' \subseteq survivors \union {files'}
      BY <1>2 DEF RemovePeer, RemoveArtifacts, RemoveDirectory, Change
    <2>4. /\ files'.target = files.target /\ files'.newest = files.newest
          /\ files'.peer[t] \in {Missing, files.peer[t]}
          /\ \A u \in Transactions \ {t} :
                files'.peer[u] = files.peer[u] /\ files'.directory[u] = files.directory[u]
      <3>1. CASE RemovePeer(t)
        BY <1>0, <3>1 DEF RemovePeer, Change, Files
      <3>2. CASE RemoveArtifacts(t)
        BY <1>0, <3>2 DEF RemoveArtifacts, Change, Files
      <3>3. CASE RemoveDirectory(t)
        BY <1>0, <3>3 DEF RemoveDirectory, Files
      <3>4. QED
        BY <1>2, <3>1, <3>2, <3>3
    <2>5. Placed(t)
      BY <2>3, <2>4, FewerPlaces
    <2>6. Durable(t)'
      BY <2>2 DEF Durable
    <2>7. Beside(t)
      BY <2>3, <2>4 DEF Beside
    <2>8. p.stage \notin Fresh /\ ~PastSync(p)
      BY <2>2 DEF Fresh, PastSync
    <2>9. QED
      BY <1>0, <2>1, <2>3, <2>5, <2>6, <2>7, <2>8, StepPlaces DEF Whole
  <1>3. QED
    BY <1>1, <1>2 DEF Close

LEMMA RecoverPlaces ==
  ASSUME PlaceInv, KeptInv', NEW t \in Transactions, Recover(t) \/ Stop(t)
  PROVE  PlaceInv'
  <1> USE DEF At, Only, UnchangedWorld, UnchangedFiles, UnchangedBytes
  <1>0. run \in [Transactions -> Process] /\ run[t] \in Process
    BY PlaceTypes
  <1>1. UNCHANGED <<files, survivors, base, saves, candidate>>
    BY DEF Recover, Reopen, recoverGuardedInstallTransaction, Stop
  <1>2. ASSUME NEW p, run' = [run EXCEPT ![t] = p],
               \/ p.stage \in {"reopening", "down", "swapped_back", "backward", "rollback"}
               \/ p.stage = "settled" /\ p.disposition # "installed"
               \/ /\ p.stage = "writing" /\ p.next.state = "exchanged"
                  /\ p.next.displaced = files.peer[t]
        PROVE  PlaceInv'
    <2>1. run'[t] = p
      BY <1>0, <1>2
    <2>2. Durable(t)'
      BY <1>1, <1>2, <2>1 DEF Durable
    <2>3. QED
      BY <1>1, <1>2, <2>2, QuietPlaces DEF Fresh, PastSync
  <1>3. CASE Reopen(t) \/ Stop(t)
    <2>1. PICK p \in {[NewProcess EXCEPT !.stage = "reopening", !.recovering = TRUE],
                      [NewProcess EXCEPT !.stage = "down"]} : run' = [run EXCEPT ![t] = p]
      BY <1>3 DEF Reopen, Stop
    <2>2. p.stage \in {"reopening", "down"}
      BY <2>1 DEF NewProcess
    <2>3. QED
      BY <1>2, <2>1, <2>2
  <1>4. CASE recoverGuardedInstallTransaction(t)
    <2>1. PICK slot \in Decoded(slots[t]) :
            \/ \E stage \in {"settled", "swapped_back", "backward"},
                 d \in {"unchanged", "restored"} : Resume(t, slot, stage, d)
            \/ Resume(t, slot, "rollback", "installed")
            \/ WriteSlot(t, [Load(t, slot) EXCEPT !.disposition = "installed"],
                         [state |-> "exchanged", displaced |-> files.peer[t]])
      BY <1>4 DEF recoverGuardedInstallTransaction
    <2>2. ASSUME NEW stage \in {"settled", "swapped_back", "backward", "rollback"}, NEW d,
                 Resume(t, slot, stage, d), stage = "settled" => d # "installed"
          PROVE  PlaceInv'
      <3> DEFINE p == [Load(t, slot) EXCEPT !.stage = stage, !.disposition = d]
      <3>1. run' = [run EXCEPT ![t] = p]
        BY <2>2 DEF Resume
      <3>2. p.stage = stage /\ p.disposition = d
        BY <1>0 DEF Load, Process
      <3>3. QED
        BY <1>2, <2>2, <3>1, <3>2
    <2>3. ASSUME WriteSlot(t, [Load(t, slot) EXCEPT !.disposition = "installed"],
                           [state |-> "exchanged", displaced |-> files.peer[t]])
          PROVE  PlaceInv'
      <3> DEFINE next == [state |-> "exchanged", displaced |-> files.peer[t]]
                 q == [Load(t, slot) EXCEPT !.disposition = "installed"]
                 p == [q EXCEPT !.stage = "writing", !.next = next]
      <3>1. run' = [run EXCEPT ![t] = p]
        BY <2>3 DEF WriteSlot
      <3>2. p.stage = "writing" /\ p.next = next
        BY <1>0 DEF Load, Process
      <3>3. p.next.state = "exchanged" /\ p.next.displaced = files.peer[t]
        BY <3>2
      <3> HIDE DEF p
      <3>4. QED
        BY <1>2, <3>1, <3>2, <3>3
    <2>4. QED
      BY <2>1, <2>2, <2>3
  <1>5. QED
    BY <1>3, <1>4 DEF Recover

LEMMA PowerLossPlaces ==
  ASSUME PlaceInv, KeptInv', PowerLoss
  PROVE  PlaceInv'
  <1>0. run \in [Transactions -> Process]
    BY KeptTypes DEF PlaceInv
  <1>1. PICK f \in survivors : files' = f /\ survivors' = {f}
    BY DEF PowerLoss
  <1>2. ASSUME NEW u \in Transactions PROVE Whole(u)' /\ Durable(u)'
    <2>1. run'[u].stage = "down" \/ (run'[u].stage = "idle" /\ run[u].stage = "idle")
      BY <1>0 DEF PowerLoss, At, NewProcess
    <2>2. candidate[u] = "whole" => candidate'[u] = "whole"
      BY DEF PowerLoss, Survives
    <2>3. Whole(u)
      BY DEF PlaceInv
    <2>4. (Elsewhere(f, u) => candidate'[u] = "whole") /\ (run[u].stage = "idle" => Nowhere(f, u))
      BY <2>2, <2>3 DEF Whole, Fresh
    <2>5. ~PastSync(run'[u])
      BY <2>1 DEF PastSync
    <2>6. Whole(u)'
      BY <1>1, <2>1, <2>4, <2>5 DEF Whole, Fresh, Elsewhere, Nowhere
    <2>7. QED
      BY <2>1, <2>6 DEF Durable
  <1>3. QED
    BY <1>1, <1>2 DEF PlaceInv, Distinct

LEMMA UserPlaces ==
  ASSUME PlaceInv, KeptInv', UserSave \/ UserRemove
  PROVE  PlaceInv'
  <1>0. /\ files \in survivors /\ files \in Files /\ saves \in Nat
        /\ Sound(files) /\ Distinct(files)
        /\ \A u \in Transactions : files.peer[u].save \in Nat
    BY KeptTypes DEF PlaceInv, KeptInv, TypeInv, TypeOK
  <1>1. PICK e : UserEdit(e) /\ (e = Missing \/
                 \E link \in BOOLEAN : e = [by |-> User, save |-> saves + 1, link |-> link])
    BY DEF UserSave, UserRemove
  <1> DEFINE g == [files EXCEPT !.target = e, !.newest = e.save]
  <1>2. /\ files' = g /\ survivors' = survivors \union {g}
        /\ UNCHANGED <<base, run, candidate>>
    BY <1>1 DEF UserEdit, Change, UnchangedBytes
  <1>3. g.target = e /\ g.peer = files.peer
    BY <1>0 DEF Files
  <1>4. e.by \in {User, Nobody} /\ (e = Missing \/ e.save = saves + 1)
    BY <1>1 DEF Missing
  <1>5. \A u \in Transactions : files.peer[u] # Missing => files.peer[u] # e
    BY <1>0, <1>4 DEF Sound
  <1>6. Distinct(g)
    BY <1>0, <1>3, <1>5 DEF Distinct
  <1>7. ASSUME NEW u \in Transactions PROVE Whole(u)' /\ Durable(u)'
    <2>1. Whole(u) /\ Durable(u)
      BY DEF PlaceInv
    <2>2. e.by # u
      BY <1>4, EntryFacts
    <2>3. /\ Elsewhere(g, u) => Elsewhere(files, u)
          /\ Nowhere(files, u) => Nowhere(g, u)
      BY <1>3, <2>2 DEF Elsewhere, Nowhere
    <2>4. Whole(u)'
      BY <1>0, <1>2, <2>1, <2>3 DEF Whole, Elsewhere, Nowhere
    <2>5. Durable(u)'
      BY <1>0, <1>2, <1>3, <2>1 DEF Durable
    <2>6. QED
      BY <2>4, <2>5
  <1>8. QED
    BY <1>2, <1>6, <1>7 DEF PlaceInv, Distinct

LEMMA PlaceNext == PlaceInv /\ [Next]_vars => PlaceInv'
  <1> SUFFICES ASSUME PlaceInv, [Next]_vars PROVE PlaceInv'
    OBVIOUS
  <1>0. KeptInv'
    BY KeptNext DEF PlaceInv
  <1>1. CASE UNCHANGED vars
    <2>1. UNCHANGED <<files, survivors, candidate, base, run>>
      BY <1>1 DEF vars
    <2>2. (\A f \in survivors : Distinct(f))'
      BY <2>1 DEF PlaceInv, Distinct
    <2>3. (\A t \in Transactions : Whole(t) /\ Durable(t))'
      BY <2>1 DEF PlaceInv, Whole, Durable, Elsewhere, Nowhere, PastSync
    <2>4. QED
      BY <1>0, <2>2, <2>3 DEF PlaceInv
  <1>2. ASSUME NEW t \in Transactions,
               Prepare(t) \/ Journal(t) \/ promote(t) \/ WayBack(t) \/ Close(t) \/ Recover(t)
               \/ Stop(t)
        PROVE  PlaceInv'
    BY <1>0, <1>2, PreparePlaces, JournalPlaces, PromotePlaces, WayBackPlaces, ClosePlaces,
       RecoverPlaces
  <1>3. CASE PowerLoss
    BY <1>0, <1>3, PowerLossPlaces
  <1>4. CASE UserSave \/ UserRemove
    BY <1>0, <1>4, UserPlaces
  <1>5. QED
    BY <1>1, <1>2, <1>3, <1>4 DEF Next

(* Whatever survives, a shell that starts reads a complete candidate or    *)
(* the user's own file: no candidate reaches the startup file unsynced.    *)
THEOREM CandidateStaysWhole == Spec => []CandidateWhole
  <1>1. PlaceInv => CandidateWhole
    BY DEF PlaceInv, Whole, Elsewhere, CandidateWhole
  <1>2. QED
    BY <1>1, InitialPlace, PlaceNext, PTL DEF Spec

(* A run reports Installed only when what it displaced is what it rendered *)
(* its candidate from, and no power loss takes the exchange back.          *)
THEOREM InstalledStaysDurable == Spec => []InstalledIsDurable
  <1>1. PlaceInv => InstalledIsDurable
    BY DEF PlaceInv, Durable, InstalledIsDurable, At
  <1>2. QED
    BY <1>1, InitialPlace, PlaceNext, PTL DEF Spec

--------------------------------------------------------------------------------
(* The abstract startup file                                               *)

Seen == {Abstract(f) : f \in survivors}

(* A step that changes nothing the abstract file shows.                    *)
LEMMA UnseenStep ==
  ASSUME files \in survivors, Abstract(files') = Abstract(files),
         survivors' \in {survivors, survivors \union {files'}}, files' \in survivors'
  PROVE  UNCHANGED File!vars
  <1>1. Seen' = {Abstract(f) : f \in survivors'}
    BY DEF Seen, Abstract, Aside
  <1>2. Seen' = Seen
    BY <1>1 DEF Seen
  <1>3. QED
    BY <1>2 DEF File!vars, Seen, Abstract, Aside

(* A directory operation shows as one more file that may survive.          *)
LEMMA BecomesStep ==
  ASSUME survivors' = survivors \union {files'}
  PROVE  Seen' = Seen \union {Abstract(files')}
  <1>1. Seen' = {Abstract(f) : f \in survivors'}
    BY DEF Seen, Abstract, Aside
  <1>2. QED
    BY <1>1 DEF Seen

LEMMA SettleStep ==
  ASSUME Abstract(files') = Abstract(files), survivors' = {files'}
  PROVE  File!Next
  <1>1. Seen' = {Abstract(f) : f \in survivors'}
    BY DEF Seen, Abstract, Aside
  <1>2. Seen' = {Abstract(files)}
    BY <1>1
  <1>3. File!Settle
    BY <1>2 DEF File!Settle, Seen, Abstract, Aside
  <1>4. QED
    BY <1>3 DEF File!Next

AbstractFile == [target : Entry, aside : SUBSET Entry, newest : 0 .. MaxSaves]

LEMMA AbstractType ==
  ASSUME NEW f \in Files
  PROVE  Abstract(f) \in AbstractFile
  <1>1. Aside(f) \in SUBSET Entry
    BY DEF Files, Aside
  <1>2. QED
    BY <1>1 DEF Abstract, AbstractFile, Files

LEMMA SameFile ==
  ASSUME NEW a \in AbstractFile, NEW b \in AbstractFile,
         a.target = b.target, a.aside = b.aside, a.newest = b.newest
  PROVE  a = b
  BY DEF AbstractFile

(* Both renames are steps of the abstract file: an entry is in one place.  *)
LEMMA RenameStep ==
  ASSUME PlaceInv, NEW t \in Transactions, Change(Exchanged(t)), files.peer[t] # Missing
  PROVE  File!Next
  <1> DEFINE e == files.peer[t]
  <1>0. /\ files \in Files /\ Distinct(files) /\ e \in Entry /\ files.target \in Entry
        /\ files.peer \in [Transactions -> Entry]
    BY PlaceTypes DEF Files
  <1>1. /\ files' = Exchanged(t) /\ survivors' = survivors \union {files'}
        /\ files'.target = e /\ files'.newest = files.newest
        /\ files'.peer[t] = files.target
        /\ \A u \in Transactions \ {t} : files'.peer[u] = files.peer[u]
    BY <1>0 DEF Change, Exchanged, Files
  <1>2. \A u \in Transactions \ {t} : files.peer[u] # Missing => files.peer[u] # e
    BY <1>0 DEF Distinct
  <1>3. Aside(files') =
          (Aside(files) \ {e}) \union (IF files.target = Missing THEN {} ELSE {files.target})
    BY <1>0, <1>1, <1>2 DEF Aside, Exists
  <1>4. e \in Aside(files)
    BY DEF Aside, Exists
  <1>5. Seen' = Seen \union {Abstract(files')}
    BY <1>1, BecomesStep
  <1>6. Abstract(files) \in AbstractFile /\ Abstract(files') \in AbstractFile
    <2>1. files' \in Files
      BY <1>0, <1>1 DEF Exchanged, Files
    <2>2. QED
      BY <1>0, <2>1, AbstractType
  <1>7. CASE files.target = Missing
    <2> DEFINE a == [Abstract(files) EXCEPT !.target = e, !.aside = Abstract(files).aside \ {e}]
    <2>1. a \in AbstractFile /\ a.target = e /\ a.aside = Aside(files) \ {e}
          /\ a.newest = files.newest
      BY <1>0, <1>6 DEF AbstractFile, Abstract
    <2>2. Abstract(files') = a
      <3>1. /\ Abstract(files').target = e /\ Abstract(files').newest = files.newest
            /\ Abstract(files').aside = Aside(files) \ {e}
        BY <1>1, <1>3, <1>7 DEF Abstract
      <3> HIDE DEF a
      <3>2. QED
        BY <1>6, <2>1, <3>1, SameFile
    <2>3. File!Create(e)
      BY <1>4, <1>5, <1>7, <2>2 DEF File!Create, File!Becomes, Seen, Abstract, Aside
    <2>4. QED
      BY <1>0, <2>3 DEF File!Next
  <1>8. CASE files.target # Missing
    <2> DEFINE a == [Abstract(files) EXCEPT !.target = e,
                       !.aside = (Abstract(files).aside \ {e}) \union {Abstract(files).target}]
    <2>1. a \in AbstractFile /\ a.target = e /\ a.newest = files.newest
          /\ a.aside = (Aside(files) \ {e}) \union {files.target}
      BY <1>0, <1>6 DEF AbstractFile, Abstract
    <2>2. Abstract(files') = a
      <3>1. /\ Abstract(files').target = e /\ Abstract(files').newest = files.newest
            /\ Abstract(files').aside = (Aside(files) \ {e}) \union {files.target}
        BY <1>1, <1>3, <1>8 DEF Abstract
      <3> HIDE DEF a
      <3>2. QED
        BY <1>6, <2>1, <3>1, SameFile
    <2>3. File!Exchange(e)
      BY <1>4, <1>5, <1>8, <2>2 DEF File!Exchange, File!Becomes, Seen, Abstract, Aside
    <2>4. QED
      BY <1>0, <2>3 DEF File!Next
  <1>9. QED
    BY <1>7, <1>8

(* What the steps on the directory of a run show of it.                    *)
LEMMA StagingStep ==
  ASSUME PlaceInv, NEW t \in Transactions, StageCandidate(t)
  PROVE  File!Next
  <1> DEFINE e == Candidate(t)
             a == [Abstract(files) EXCEPT !.aside = @ \union {e}]
  <1>0. /\ files \in Files /\ files.peer \in [Transactions -> Entry] /\ e \in Entry /\ e # Missing
        /\ files \in survivors /\ Knows(t)
    BY PlaceTypes, CandidateType DEF Files
  <1>1. /\ files' = [files EXCEPT !.directory[t] = "open", !.peer[t] = e]
        /\ survivors' = survivors \union {files'} /\ run[t].stage = "locked"
    BY DEF StageCandidate, Change, At
  <1>2. /\ files'.target = files.target /\ files'.newest = files.newest /\ files'.peer[t] = e
        /\ \A u \in Transactions \ {t} : files'.peer[u] = files.peer[u]
        /\ files' \in Files
    BY <1>0, <1>1 DEF Files, Directories
  <1>3. files.peer[t] = Missing
    BY <1>0, <1>1 DEF Knows, Fresh
  <1>4. Aside(files') = Aside(files) \union {e}
    BY <1>0, <1>2, <1>3 DEF Aside, Exists
  <1>5. Abstract(files) \in AbstractFile /\ Abstract(files') \in AbstractFile
    BY <1>0, <1>2, AbstractType
  <1>6. /\ a \in AbstractFile /\ a.target = files.target
        /\ a.aside = Aside(files) \union {e} /\ a.newest = files.newest
    BY <1>0, <1>5 DEF AbstractFile, Abstract
  <1>7. /\ Abstract(files').target = files.target /\ Abstract(files').newest = files.newest
        /\ Abstract(files').aside = Aside(files) \union {e}
    BY <1>2, <1>4 DEF Abstract
  <1>8. Abstract(files') = a
    <2> HIDE DEF a
    <2>1. QED
      BY <1>5, <1>6, <1>7, SameFile
  <1>9. Seen' = Seen \union {Abstract(files')}
    BY <1>1, BecomesStep
  <1>10. File!Stage(e)
    BY <1>8, <1>9 DEF File!Stage, File!Becomes, Seen, Abstract, Aside
  <1>11. QED
    BY <1>0, <1>10 DEF File!Next

(* The entry a run disposes of is not the last to carry the newest save.   *)
LEMMA DiscardingStep ==
  ASSUME PlaceInv, KeptInv', NEW t \in Transactions, RemovePeer(t)
  PROVE  File!Next \/ UNCHANGED File!vars
  <1> DEFINE e == files.peer[t]
             a == [Abstract(files) EXCEPT !.aside = @ \ {e}]
  <1>0. /\ files \in Files /\ files.peer \in [Transactions -> Entry] /\ e \in Entry
        /\ files \in survivors /\ Distinct(files) /\ Missing.save = 0
    BY PlaceTypes, EntryFacts DEF Files
  <1>1. /\ files' = [files EXCEPT !.peer[t] = Missing]
        /\ survivors' = survivors \union {files'}
    BY DEF RemovePeer, Change
  <1>2. /\ files'.target = files.target /\ files'.newest = files.newest
        /\ files'.peer[t] = Missing
        /\ \A u \in Transactions \ {t} : files'.peer[u] = files.peer[u]
        /\ files' \in Files
    BY <1>0, <1>1, EntryFacts DEF Files
  <1>3. CASE e = Missing
    <2>1. Aside(files') = Aside(files)
      BY <1>0, <1>2, <1>3 DEF Aside, Exists
    <2>2. Abstract(files') = Abstract(files)
      BY <1>2, <2>1 DEF Abstract
    <2>3. QED
      BY <1>0, <1>1, <2>2, UnseenStep
  <1>4. CASE e # Missing
    <2>1. \A u \in Transactions \ {t} : files.peer[u] # Missing => files.peer[u] # e
      BY <1>0, <1>4 DEF Distinct
    <2>2. Aside(files') = Aside(files) \ {e} /\ e \in Aside(files)
      BY <1>0, <1>2, <1>4, <2>1 DEF Aside, Exists
    <2>3. ASSUME e.save = files.newest, e.save # 0
          PROVE  \E other \in (Aside(files) \ {e}) \union {files.target} : other.save = e.save
      <3>1. \A f \in survivors' : f.newest # 0 =>
              f.target.save = f.newest \/ \E u \in Transactions : f.peer[u].save = f.newest
        BY DEF KeptInv, Sound, Held
      <3>2. files'.target.save = files.newest
            \/ \E u \in Transactions : files'.peer[u].save = files.newest
        BY <1>1, <1>2, <2>3, <3>1
      <3>3. CASE files'.target.save = files.newest
        BY <1>2, <2>3, <3>3
      <3>4. CASE \E u \in Transactions : files'.peer[u].save = files.newest
        <4>1. PICK u \in Transactions : files'.peer[u].save = files.newest
          BY <3>4
        <4>2. files'.peer[u] # Missing
          BY <1>0, <2>3, <4>1
        <4>3. files'.peer[u] \in Aside(files')
          BY <4>2 DEF Aside, Exists
        <4>4. QED
          BY <2>2, <2>3, <4>1, <4>3
      <3>5. QED
        BY <3>2, <3>3, <3>4
    <2>4. Abstract(files) \in AbstractFile /\ Abstract(files') \in AbstractFile
      BY <1>0, <1>2, AbstractType
    <2>5. /\ a \in AbstractFile /\ a.target = files.target
          /\ a.aside = Aside(files) \ {e} /\ a.newest = files.newest
      BY <1>0, <2>4 DEF AbstractFile, Abstract
    <2>6. /\ Abstract(files').target = files.target /\ Abstract(files').newest = files.newest
          /\ Abstract(files').aside = Aside(files) \ {e}
      BY <1>2, <2>2 DEF Abstract
    <2>7. Abstract(files') = a
      <3> HIDE DEF a
      <3>1. QED
        BY <2>4, <2>5, <2>6, SameFile
    <2>8. Seen' = Seen \union {Abstract(files')}
      BY <1>1, BecomesStep
    <2>9. /\ e \in Abstract(files).aside
          /\ e.save = Abstract(files).newest /\ e.save # 0 =>
               \E other \in (Abstract(files).aside \ {e}) \union {Abstract(files).target} :
                  other.save = e.save
      BY <2>2, <2>3 DEF Abstract
    <2>10. File!Discard(e)
      BY <2>7, <2>8, <2>9 DEF File!Discard, File!Becomes, Seen
    <2>11. QED
      BY <1>0, <2>10 DEF File!Next
  <1>5. QED
    BY <1>3, <1>4

(* What the user does to the file shows as it is.                          *)
LEMMA EditingStep ==
  ASSUME PlaceInv, UserSave \/ UserRemove
  PROVE  File!Next
  <1>0. files \in Files /\ saves \in 0 .. MaxSaves /\ MaxSaves \in Nat
    BY InstallAssumption DEF PlaceInv, KeptInv, TypeInv, TypeOK
  <1>1. PICK e \in Entry : UserEdit(e)
    <2>1. CASE UserRemove
      BY <2>1, EntryFacts DEF UserRemove
    <2>2. CASE UserSave
      <3>1. PICK link \in BOOLEAN : UserEdit([by |-> User, save |-> saves + 1, link |-> link])
        BY <2>2 DEF UserSave
      <3>2. saves + 1 \in 0 .. MaxSaves
        BY <1>0, <3>1 DEF UserEdit
      <3>3. [by |-> User, save |-> saves + 1, link |-> link] \in Entry
        BY <3>2 DEF Entry
      <3>4. QED
        BY <3>1, <3>3
    <2>3. QED
      BY <2>1, <2>2
  <1> DEFINE a == [Abstract(files) EXCEPT !.target = e, !.newest = e.save]
  <1>2. /\ files' = [files EXCEPT !.target = e, !.newest = e.save]
        /\ survivors' = survivors \union {files'}
    BY <1>1 DEF UserEdit, Change
  <1>3. /\ files'.target = e /\ files'.newest = e.save /\ files'.peer = files.peer
        /\ files' \in Files
    BY <1>0, <1>2 DEF Files, Entry
  <1>4. Abstract(files) \in AbstractFile /\ Abstract(files') \in AbstractFile
    BY <1>0, <1>3, AbstractType
  <1>5. a \in AbstractFile /\ a.target = e /\ a.aside = Aside(files) /\ a.newest = e.save
    BY <1>4 DEF AbstractFile, Abstract, Entry
  <1>6. /\ Abstract(files').target = e /\ Abstract(files').newest = e.save
        /\ Abstract(files').aside = Aside(files)
    BY <1>3 DEF Abstract, Aside
  <1>7. Abstract(files') = a
    <2> HIDE DEF a
    <2>1. QED
      BY <1>4, <1>5, <1>6, SameFile
  <1>8. Seen' = Seen \union {Abstract(files')}
    BY <1>2, BecomesStep
  <1>9. File!Edit(e)
    BY <1>7, <1>8 DEF File!Edit, File!Becomes, Seen
  <1>10. QED
    BY <1>9 DEF File!Next

(* Every step of a run is a step of the startup file or is not seen.       *)
LEMMA RunStep ==
  ASSUME PlaceInv, KeptInv', TypeInv', NEW t \in Transactions,
         Prepare(t) \/ Journal(t) \/ promote(t) \/ WayBack(t) \/ Close(t) \/ Recover(t) \/ Stop(t)
  PROVE  File!Next \/ UNCHANGED File!vars
  <1> USE DEF Only
  <1>0. /\ files \in survivors /\ files \in Files /\ Knows(t)
        /\ files' \in survivors'
    BY PlaceTypes DEF TypeInv, TypeOK
  <1>1. CASE UNCHANGED <<files, survivors>>
    BY <1>0, <1>1, UnseenStep
  <1>2. CASE SyncDirectory
    BY <1>2, SettleStep DEF SyncDirectory
  <1>3. CASE StageCandidate(t)
    BY <1>3, StagingStep
  <1>4. CASE RemovePeer(t)
    BY <1>4, DiscardingStep
  <1>5. CASE Promote(t)
    <2>1. Change(Exchanged(t)) /\ run[t].stage = "checked"
      BY <1>5 DEF Promote, At
    <2>2. files.peer[t] # Missing
      BY <1>0, <2>1 DEF Knows, BeforeExchange
    <2>3. QED
      BY <2>1, <2>2, RenameStep
  <1>6. CASE Reverse(t)
    <2>1. Change(Exchanged(t)) /\ run[t].stage = "reversing"
      BY <1>6 DEF Reverse, At
    <2>2. files.peer[t] # Missing
      BY <1>0, <2>1 DEF Knows
    <2>3. QED
      BY <2>1, <2>2, RenameStep
  <1>7. CASE createPreparedJournal(t) \/ RemoveArtifacts(t)
    <2>1. PICK directory : files' = [files EXCEPT !.directory[t] = directory]
                           /\ survivors' = survivors \union {files'}
      BY <1>7 DEF createPreparedJournal, RemoveArtifacts, Change
    <2>2. Abstract(files') = Abstract(files)
      BY <1>0, <2>1 DEF Abstract, Aside, Files
    <2>3. QED
      BY <1>0, <2>1, <2>2, UnseenStep
  <1>8. CASE RemoveDirectory(t)
    <2>1. files' = [files EXCEPT !.directory[t] = "absent", !.peer[t] = Missing]
          /\ survivors' = {files'} /\ run[t].stage = "stripped"
      BY <1>8 DEF RemoveDirectory, At
    <2>2. files.peer[t] = Missing
      BY <1>0, <2>1 DEF Knows
    <2>3. files'.peer = files.peer /\ files'.target = files.target /\ files'.newest = files.newest
      BY <1>0, <2>1, <2>2 DEF Files
    <2>4. Abstract(files') = Abstract(files)
      BY <2>3 DEF Abstract, Aside
    <2>5. QED
      BY <2>1, <2>4, SettleStep
  <1>9. QED
    <2>1. CASE Prepare(t)
      BY <1>1, <1>2, <1>3, <1>7, <2>1
      DEF Prepare, captureInstallSnapshot, openTargetTransactionGuard, SyncCandidate,
          SyncArtifacts, UnchangedFiles
    <2>2. CASE Journal(t) \/ WayBack(t)
      BY <1>1, <1>2, <1>6, <2>2
      DEF Journal, SyncJournal, SyncJournalDirectory, WayBack, reverseLateSubstitution, rollback,
          RecordReversal, SyncBackward, UnchangedFiles
    <2>3. CASE promote(t)
      BY <1>1, <1>2, <1>5, <2>3
      DEF promote, CheckTarget, PromoteRefused, RecordPromotion, SyncForward, UnchangedFiles
    <2>4. CASE Close(t)
      BY <1>1, <1>4, <1>7, <1>8, <2>4 DEF Close, finalize, UnchangedFiles
    <2>5. CASE Recover(t) \/ Stop(t)
      BY <1>1, <2>5 DEF Recover, Reopen, recoverGuardedInstallTransaction, Stop, UnchangedFiles
    <2>6. QED
      BY <2>1, <2>2, <2>3, <2>4, <2>5

LEMMA FileNext ==
  ASSUME PlaceInv, KeptInv', TypeInv', [Next]_vars
  PROVE  File!Next \/ UNCHANGED File!vars
  <1>0. files \in survivors
    BY DEF PlaceInv, KeptInv, TypeInv, TypeOK
  <1>1. CASE UNCHANGED vars
    BY <1>0, <1>1, UnseenStep DEF vars
  <1>2. ASSUME NEW t \in Transactions,
               Prepare(t) \/ Journal(t) \/ promote(t) \/ WayBack(t) \/ Close(t) \/ Recover(t)
               \/ Stop(t)
        PROVE  File!Next \/ UNCHANGED File!vars
    BY <1>2, RunStep
  <1>3. CASE PowerLoss
    <2>1. PICK f \in survivors : files' = f /\ survivors' = {f}
      BY <1>3 DEF PowerLoss
    <2>2. Seen' = {Abstract(g) : g \in survivors'}
      BY DEF Seen, Abstract, Aside
    <2>3. Seen' = {Abstract(files')} /\ Abstract(files') \in Seen
      BY <2>1, <2>2 DEF Seen
    <2>4. File!Lose
      BY <2>3 DEF File!Lose, Seen, Abstract, Aside
    <2>5. QED
      BY <2>4 DEF File!Next
  <1>4. CASE UserSave \/ UserRemove
    BY <1>4, EditingStep
  <1>5. QED
    BY <1>1, <1>2, <1>3, <1>4 DEF Next

LEMMA FileInit == Init => File!Init
  <1> SUFFICES ASSUME Init PROVE File!Init
    OBVIOUS
  <1>1. PICK target \in {Missing, [by |-> User, save |-> 1, link |-> FALSE]} :
          /\ files = [target |-> target, newest |-> target.save,
                      directory |-> [t \in Transactions |-> "absent"],
                      peer |-> [t \in Transactions |-> Missing]]
    BY DEF Init
  <1>2. target \in Entry
    <2>1. files \in Files
      BY InitialTypes DEF TypeInv, TypeOK
    <2>2. QED
      BY <1>1, <2>1 DEF Files
  <1>3. Aside(files) = {}
    BY <1>1 DEF Aside, Exists
  <1>4. Abstract(files) = [target |-> target, aside |-> {}, newest |-> target.save]
    BY <1>1, <1>3 DEF Abstract
  <1>5. Seen = {Abstract(files)}
    BY DEF Init, Seen
  <1>6. QED
    BY <1>2, <1>4, <1>5 DEF File!Init, Seen

(* The file and the private directories implement the abstract promise:    *)
(* entries move only by exchange or into a missing place, and the last     *)
(* entry that carries the newest save is never discarded.                  *)
THEOREM InstallImplementsStartupFile == Spec => ImplementsStartupFile
  <1>1. PlaceInv /\ PlaceInv' /\ [Next]_vars => [File!Next]_(File!vars)
    BY FileNext DEF PlaceInv, KeptInv
  <1>2. Spec => []PlaceInv
    BY InitialPlace, PlaceNext, PTL DEF Spec
  <1>3. QED
    BY <1>1, <1>2, FileInit, PTL DEF Spec, ImplementsStartupFile, File!Spec

--------------------------------------------------------------------------------
(* The journal                                                             *)

(* Records alternate between the slots; of two that decode, one follows    *)
(* the other.  The second slot is written only after the first, so what a  *)
(* slot holds while it is alone is the prepared record.                    *)
Chained(pair) ==
  /\ \A i \in 1 .. 2 :
        /\ pair[i].generation = 0 => pair[i].contents = "torn"
        /\ pair[i].generation # 0 => SlotOf(pair[i].generation) = i
  /\ pair[1].contents # "torn" /\ pair[2].contents # "torn" =>
        Follows(pair[1], pair[2]) \/ Follows(pair[2], pair[1])
  /\ pair[2].generation = 0 => pair[1].record.state = "prepared"
  /\ pair[1].generation = 0 => pair[2].generation = 0

(* No power loss that tears one slot leaves nothing to decode.             *)
Legible(pair) ==
  \/ \A i \in 1 .. 2 : pair[i].generation # 0
  \/ \E i \in 1 .. 2 : pair[i].contents = "whole"

BeforeJournal == Fresh \union {"staged", "synced", "evidenced"}
Recorded == {"recorded", "prepared", "checked", "reverse", "reversing"}
Journals(t) ==
  /\ Chained(slots[t])
  /\ run[t].stage \in BeforeJournal =>
       /\ \A i \in 1 .. 2 : slots[t][i].generation = 0
       /\ \A f \in survivors : ~Foreign(f, t)
  /\ run[t].stage = "writing" => \E i \in 1 .. 2 : slots[t][i].contents = "unsynced"
  /\ run[t].stage \in Recorded => Legible(slots[t])
  /\ run[t].stage \in Recorded \union {"writing"} => files.directory[t] = "journaled"
  /\ \A f \in survivors :
        Foreign(f, t) => f.directory[t] = "journaled" /\ Legible(slots[t])

JournalInv == KeptInv /\ \A t \in Transactions : Journals(t)

(* The types of the journal's invariant, in the form its lemmas use.       *)
LEMMA JournalTypesKnown ==
  ASSUME JournalInv, NEW t \in Transactions
  PROVE  /\ TypeInv /\ run \in [Transactions -> Process] /\ run[t] \in Process
         /\ base \in [Transactions -> Entry] /\ base[t] \in Entry
         /\ files \in survivors /\ files \in Files
         /\ slots \in [Transactions -> [1 .. 2 -> Slot]] /\ slots[t] \in [1 .. 2 -> Slot]
         /\ Knows(t) /\ Journals(t)
  BY KeptTypes DEF JournalInv, KeptInv, TypeInv, TypeOK

(* A journal that is legible decodes after a power loss, unless both slots *)
(* were at the mercy of it.                                                *)
LEMMA LegibleDecodes ==
  ASSUME NEW pair \in [1 .. 2 -> Slot], Chained(pair), Legible(pair), ~BothUnsynced(pair),
         NEW left \in Torn(pair)
  PROVE  Decoded(left) # {}
  <1>1. PICK c \in [1 .. 2 -> Contents] :
          /\ left = [i \in 1 .. 2 |-> [pair[i] EXCEPT !.contents = c[i]]]
          /\ \A i \in 1 .. 2 : c[i] \in Survives(pair[i].contents)
    BY DEF Torn
  <1>2. \A i \in 1 .. 2 : pair[i] \in Slot /\ pair[i].generation \in Nat
    BY DEF Slot
  <1>3. \A i \in 1 .. 2 :
          /\ left[i].contents = c[i] /\ left[i].record = pair[i].record
          /\ left[i].generation = pair[i].generation
    BY <1>1, <1>2 DEF Slot
  <1>4. \A i \in 1 .. 2 :
          /\ c[i] # "torn" => pair[i].contents # "torn"
          /\ pair[i].contents = "whole" => c[i] = "whole"
    BY <1>1 DEF Survives
  <1>5. PICK i \in 1 .. 2 : pair[i].contents = "whole"
    BY <1>2 DEF Legible, BothUnsynced
  <1>6. Valid(left) = {left[k] : k \in {j \in 1 .. 2 : c[j] # "torn"}}
    BY <1>3 DEF Valid
  <1>7. left[i] \in Valid(left)
    BY <1>4, <1>5, <1>6
  <1>8. ASSUME NEW j \in 1 .. 2, j # i
        PROVE  Decoded(left) # {}
    <2>0. 1 .. 2 = {i, j}
      BY <1>8
    <2>1. CASE c[j] = "torn"
      <3>1. \A other \in Valid(left) : other = left[i]
        BY <1>6, <2>0, <2>1
      <3>2. QED
        BY <1>7, <3>1 DEF Decoded
    <2>2. CASE c[j] # "torn"
      <3>1. Follows(pair[i], pair[j]) \/ Follows(pair[j], pair[i])
        BY <1>4, <1>5, <1>8, <2>2 DEF Chained
      <3>2. Follows(left[i], left[j]) \/ Follows(left[j], left[i])
        BY <1>3, <3>1 DEF Follows
      <3>3. left[j] \in Valid(left) /\ \A other \in Valid(left) : other = left[i] \/ other = left[j]
        BY <1>6, <2>0, <2>2
      <3>4. QED
        BY <1>7, <3>2, <3>3 DEF Decoded
    <2>3. QED
      BY <2>1, <2>2
  <1>9. \E j \in 1 .. 2 : j # i
    OBVIOUS
  <1>10. QED
    BY <1>8, <1>9

(* A journal that decodes to a later record is legible.                    *)
LEMMA LateIsLegible ==
  ASSUME NEW pair \in [1 .. 2 -> Slot], Chained(pair), NEW slot \in Decoded(pair),
         slot.record.state # "prepared"
  PROVE  Legible(pair)
  <1>1. PICK i \in 1 .. 2 : slot = pair[i] /\ pair[i].contents # "torn"
    BY DEF Decoded, Valid
  <1>2. pair[i].generation # 0
    BY <1>1 DEF Chained
  <1>3. QED
    BY <1>1, <1>2 DEF Chained, Legible

(* The next record goes into the other slot.                               *)
LEMMA RecordFollows ==
  ASSUME TypeInv, NEW t \in Transactions, Chained(slots[t]), NEW slot \in Decoded(slots[t]),
         NEW q, q.generation = slot.generation, NEW record,
         validInstallPromotionJournalTransition(slot.record, record),
         WriteSlot(t, q, record)
  PROVE  /\ Chained(slots'[t]) /\ Legible(slots'[t])
         /\ \E i \in 1 .. 2 : slots'[t][i].contents = "unsynced"
         /\ \A u \in Transactions \ {t} : slots'[u] = slots[u]
  <1>. DEFINE g == slot.generation
              new == [generation |-> g + 1, record |-> record, contents |-> "unsynced"]
              i0 == SlotOf(g + 1)
  <1>0. slots \in [Transactions -> [1 .. 2 -> Slot]]
    BY DEF TypeInv, TypeOK
  <1>1. PICK i \in 1 .. 2 : slot = slots[t][i] /\ slots[t][i].contents # "torn"
    BY DEF Decoded, Valid
  <1>2. g \in Nat /\ g # 0 /\ SlotOf(g) = i
    BY <1>0, <1>1 DEF Chained, Slot
  <1>3. i0 \in 1 .. 2 /\ i0 # i /\ 1 .. 2 = {i, i0} /\ g + 1 # 0
    BY <1>2 DEF SlotOf
  <1>4. slots' = [slots EXCEPT ![t][i0] = new]
    BY DEF WriteSlot
  <1>5. slots'[t][i0] = new /\ slots'[t][i] = slot
    BY <1>0, <1>1, <1>3, <1>4
  <1>6. \A u \in Transactions \ {t} : slots'[u] = slots[u]
    BY <1>0, <1>4
  <1>7. Follows(slot, new)
    BY DEF Follows
  <1>8. \A j \in 1 .. 2 : slots'[t][j].generation # 0 /\ SlotOf(slots'[t][j].generation) = j
    BY <1>2, <1>3, <1>5
  <1>9. Follows(slots'[t][1], slots'[t][2]) \/ Follows(slots'[t][2], slots'[t][1])
    BY <1>1, <1>3, <1>5, <1>7
  <1>10. QED
    BY <1>3, <1>5, <1>6, <1>8, <1>9 DEF Chained, Legible

(* No directory, no record.                                                *)
LEMMA InitialJournal == Init => JournalInv
  <1> SUFFICES ASSUME Init, NEW t \in Transactions PROVE Journals(t)
    BY InitialKept DEF JournalInv
  <1>1. /\ files.peer[t] = Missing /\ survivors = {files} /\ run[t].stage = "idle"
        /\ slots[t] = [i \in 1 .. 2 |-> EmptySlot]
    BY DEF Init, NewProcess
  <1>2. ~Foreign(files, t)
    BY <1>1 DEF Foreign, Missing
  <1>3. \A i \in 1 .. 2 : slots[t][i].generation = 0 /\ slots[t][i].contents = "torn"
                           /\ slots[t][i].record.state = "prepared"
    BY <1>1 DEF EmptySlot, Prepared
  <1>4. QED
    BY <1>1, <1>2, <1>3 DEF Journals, Chained, Recorded

(* A step of t disturbs no other journal.                                  *)
Apart(t) ==
  /\ survivors' \subseteq survivors \union {files'}
  /\ \A u \in Transactions \ {t} :
        files'.peer[u] = files.peer[u] /\ files'.directory[u] = files.directory[u]

LEMMA StepJournals ==
  ASSUME JournalInv, KeptInv', NEW t \in Transactions, NEW p, run' = [run EXCEPT ![t] = p],
         Apart(t), \A u \in Transactions \ {t} : slots'[u] = slots[u],
         Journals(t)'
  PROVE  JournalInv'
  <1>0. /\ run \in [Transactions -> Process] /\ files \in survivors
        /\ survivors' \subseteq survivors \union {files'}
    BY KeptTypes DEF JournalInv, Apart
  <1>1. ASSUME NEW u \in Transactions, u # t PROVE Journals(u)'
    <2>1. run'[u] = run[u] /\ slots'[u] = slots[u]
      BY <1>0, <1>1
    <2>2. files'.peer[u] = files.peer[u] /\ files'.directory[u] = files.directory[u]
      BY <1>1 DEF Apart
    <2>3. \A f \in survivors' :
            \E e \in survivors : f.peer[u] = e.peer[u] /\ f.directory[u] = e.directory[u]
      BY <1>0, <2>2
    <2>4. Journals(u)
      BY DEF JournalInv
    <2>5. \A f \in survivors' :
            /\ Foreign(f, u) => f.directory[u] = "journaled" /\ Legible(slots[u])
            /\ run[u].stage \in BeforeJournal => ~Foreign(f, u)
      BY <2>3, <2>4 DEF Journals, Foreign
    <2>6. QED
      BY <2>1, <2>2, <2>4, <2>5 DEF Journals, Foreign
  <1>2. QED
    BY <1>1 DEF JournalInv

(* A step of t that leaves its journal alone.                              *)
LEMMA QuietJournals ==
  ASSUME JournalInv, KeptInv', NEW t \in Transactions, NEW p, run' = [run EXCEPT ![t] = p],
         Apart(t), UNCHANGED slots, p.stage # "writing",
         p.stage \in BeforeJournal => run[t].stage \in BeforeJournal /\ ~Foreign(files', t),
         p.stage \in Recorded =>
           /\ run[t].stage \in Recorded \/ Legible(slots[t])
           /\ files'.directory[t] = "journaled",
         Foreign(files', t) =>
           UNCHANGED files \/ (files'.directory[t] = "journaled" /\ Legible(slots[t]))
  PROVE  JournalInv'
  <1>0. /\ run'[t] = p /\ Journals(t) /\ files \in survivors
        /\ survivors' \subseteq survivors \union {files'}
    BY JournalTypesKnown DEF Apart
  <1>1. \A f \in survivors' : Foreign(f, t) => f.directory[t] = "journaled" /\ Legible(slots[t])
    BY <1>0 DEF Journals
  <1>2. p.stage \in BeforeJournal =>
          /\ \A i \in 1 .. 2 : slots[t][i].generation = 0
          /\ \A f \in survivors' : ~Foreign(f, t)
    BY <1>0 DEF Journals
  <1>3. p.stage \in Recorded => Legible(slots[t])
    BY <1>0 DEF Journals
  <1>4. Journals(t)'
    BY <1>0, <1>1, <1>2, <1>3 DEF Journals, Foreign
  <1>5. QED
    BY <1>4, StepJournals

(* A record written over a legible journal leaves it legible: the record it*)
(* follows is in the other slot.                                           *)
LEMMA WritingJournals ==
  ASSUME JournalInv, KeptInv', NEW t \in Transactions, NEW record,
         WriteJournal(t, record), UNCHANGED files, survivors' \subseteq survivors
  PROVE  JournalInv'
  <1> DEFINE p == [run[t] EXCEPT !.stage = "writing", !.next = record]
  <1>0. TypeInv /\ run[t] \in Process /\ run \in [Transactions -> Process] /\ Journals(t)
    BY JournalTypesKnown
  <1>1. /\ run' = [run EXCEPT ![t] = p] /\ files.directory[t] = "journaled"
        /\ validInstallPromotionJournalTransition(run[t].record, record)
        /\ WriteSlot(t, run[t], record)
    BY DEF WriteJournal, WriteSlot, Authentic
  <1>2. PICK slot \in Decoded(slots[t]) :
          slot.generation = run[t].generation /\ slot.record = run[t].record
    BY DEF WriteJournal, Authentic
  <1>3. /\ Chained(slots'[t]) /\ Legible(slots'[t])
        /\ \E i \in 1 .. 2 : slots'[t][i].contents = "unsynced"
        /\ \A u \in Transactions \ {t} : slots'[u] = slots[u]
    BY <1>0, <1>1, <1>2, RecordFollows DEF Journals
  <1>4. run'[t] = p /\ p.stage = "writing"
    BY <1>0, <1>1 DEF Process
  <1>5. Journals(t)'
    BY <1>0, <1>1, <1>3, <1>4 DEF Journals, Foreign, BeforeJournal, Fresh, Recorded
  <1>6. QED
    BY <1>1, <1>3, <1>5, StepJournals DEF Apart

(* Up to the prepared record nothing foreign is in the directory, and the  *)
(* first slot written is the first.                                        *)
LEMMA PrepareJournals ==
  ASSUME JournalInv, KeptInv', NEW t \in Transactions, Prepare(t)
  PROVE  JournalInv'
  <1> USE DEF At, Only, UnchangedWorld, UnchangedFiles, UnchangedBytes, Apart
  <1>0. /\ TypeInv /\ run \in [Transactions -> Process] /\ run[t] \in Process
        /\ files \in survivors /\ files \in Files /\ base[t] \in Entry
        /\ Knows(t) /\ Journals(t)
    BY JournalTypesKnown
  <1>1. run[t].stage \in BeforeJournal => ~Foreign(files, t)
    BY <1>0 DEF Journals
  <1>2. CASE captureInstallSnapshot(t)
    <2> DEFINE p == [run[t] EXCEPT !.stage = "captured"]
    <2>1. run' = [run EXCEPT ![t] = p] /\ p.stage = "captured" /\ run[t].stage = "idle"
          /\ UNCHANGED <<files, survivors, slots>>
      BY <1>0, <1>2 DEF captureInstallSnapshot, Goto, Process
    <2>2. QED
      BY <1>1, <2>1, QuietJournals DEF BeforeJournal, Fresh, Recorded
  <1>3. CASE openTargetTransactionGuard(t)
    <2>1. PICK stage \in {"locked", "reopened"} :
            /\ Goto(t, stage) /\ (stage = "locked" => run[t].stage = "captured")
            /\ UNCHANGED <<files, survivors, slots>>
      BY <1>3 DEF openTargetTransactionGuard
    <2> DEFINE p == [run[t] EXCEPT !.stage = stage]
    <2>2. run' = [run EXCEPT ![t] = p] /\ p.stage = stage
      BY <1>0, <2>1 DEF Goto, Process
    <2>3. QED
      BY <1>1, <2>1, <2>2, QuietJournals DEF BeforeJournal, Fresh, Recorded
  <1>4. CASE StageCandidate(t)
    <2> DEFINE p == [run[t] EXCEPT !.stage = "staged"]
    <2>1. /\ run' = [run EXCEPT ![t] = p] /\ p.stage = "staged" /\ run[t].stage = "locked"
          /\ files' = [files EXCEPT !.directory[t] = "open", !.peer[t] = Candidate(t)]
          /\ survivors' = survivors \union {files'} /\ UNCHANGED slots
      BY <1>0, <1>4 DEF StageCandidate, Goto, Change, Process
    <2>2. /\ files'.peer[t] = Candidate(t)
          /\ \A u \in Transactions \ {t} :
               files'.peer[u] = files.peer[u] /\ files'.directory[u] = files.directory[u]
      BY <1>0, <2>1 DEF Files
    <2>3. ~Foreign(files', t)
      BY <1>0, <2>2, CandidateType DEF Foreign
    <2>4. QED
      BY <2>1, <2>2, <2>3, QuietJournals DEF BeforeJournal, Fresh, Recorded
  <1>5. CASE SyncCandidate(t)
    <2> DEFINE p == [run[t] EXCEPT !.stage = "synced"]
    <2>1. run' = [run EXCEPT ![t] = p] /\ p.stage = "synced" /\ run[t].stage = "staged"
          /\ UNCHANGED <<files, survivors, slots>>
      BY <1>0, <1>5 DEF SyncCandidate, Goto, Process
    <2>2. QED
      BY <1>1, <2>1, QuietJournals DEF BeforeJournal, Fresh, Recorded
  <1>6. CASE SyncArtifacts(t)
    <2> DEFINE p == [run[t] EXCEPT !.stage = "evidenced"]
    <2>1. run' = [run EXCEPT ![t] = p] /\ p.stage = "evidenced" /\ run[t].stage = "synced"
          /\ UNCHANGED <<files, slots>> /\ survivors' \subseteq survivors
      BY <1>0, <1>6 DEF SyncArtifacts, SyncDirectory, Goto, Process
    <2>2. QED
      BY <1>1, <2>1, QuietJournals DEF BeforeJournal, Fresh, Recorded
  <1>7. CASE createPreparedJournal(t)
    <2> DEFINE p == [run[t] EXCEPT !.stage = "writing", !.next = Prepared]
               new == [generation |-> 1, record |-> Prepared, contents |-> "unsynced"]
    <2>1. /\ run[t].stage = "evidenced" /\ WriteSlot(t, run[t], Prepared)
          /\ files' = [files EXCEPT !.directory[t] = "journaled"]
          /\ survivors' = survivors \union {files'}
      BY <1>7 DEF createPreparedJournal, Change
    <2>2. run[t].generation = 0
      BY <1>0, <2>1 DEF TypeInv, Ranked
    <2>3. run' = [run EXCEPT ![t] = p] /\ run'[t] = p /\ p.stage = "writing"
      BY <1>0, <2>1 DEF WriteSlot, Process
    <2>4. slots' = [slots EXCEPT ![t][1] = new]
      BY <2>1, <2>2 DEF WriteSlot, SlotOf
    <2>5. /\ slots \in [Transactions -> [1 .. 2 -> Slot]]
          /\ \A u \in Transactions \ {t} : slots'[u] = slots[u]
          /\ slots'[t][1] = new /\ slots'[t][2] = slots[t][2]
      BY <2>4, JournalTypesKnown
    <2>6. /\ slots[t][2].generation = 0 /\ slots[t][2].contents = "torn"
          /\ \A f \in survivors : ~Foreign(f, t)
      BY <1>0, <2>1 DEF Journals, BeforeJournal, Chained
    <2>7. /\ files'.peer = files.peer /\ files'.directory[t] = "journaled"
          /\ \A u \in Transactions \ {t} : files'.directory[u] = files.directory[u]
      BY <1>0, <2>1 DEF Files
    <2>8. Chained(slots'[t])
      BY <2>5, <2>6 DEF Chained, SlotOf, Prepared
    <2>9. \A f \in survivors' : ~Foreign(f, t)
      BY <1>0, <2>1, <2>6, <2>7 DEF Foreign
    <2>10. Journals(t)'
      <3>0. new.contents = "unsynced"
        OBVIOUS
      <3>1. run'[t].stage = "writing" /\ slots'[t][1].contents = "unsynced"
        <4> HIDE DEF new, p
        <4>1. QED
          BY <2>3, <2>5, <3>0
      <3>2. \E i \in 1 .. 2 : slots'[t][i].contents = "unsynced"
        BY <3>1
      <3>3. run'[t].stage \notin BeforeJournal /\ run'[t].stage \notin Recorded
        BY <3>1 DEF BeforeJournal, Fresh, Recorded
      <3>4. \A f \in survivors' : ~Foreign(f, t)'
        BY <2>9 DEF Foreign
      <3>5. QED
        BY <2>7, <2>8, <3>1, <3>2, <3>3, <3>4 DEF Journals
    <2>11. QED
      BY <2>1, <2>3, <2>5, <2>7, <2>10, StepJournals
  <1>8. QED
    BY <1>2, <1>3, <1>4, <1>5, <1>6, <1>7 DEF Prepare

(* Syncing a record makes its slot whole, whatever the other holds.        *)
LEMMA JournalJournals ==
  ASSUME JournalInv, KeptInv', NEW t \in Transactions, Journal(t)
  PROVE  JournalInv'
  <1> USE DEF At, Only, UnchangedWorld, UnchangedFiles, UnchangedBytes, Apart
  <1>0. /\ run \in [Transactions -> Process] /\ run[t] \in Process /\ files \in survivors
        /\ slots \in [Transactions -> [1 .. 2 -> Slot]] /\ slots[t] \in [1 .. 2 -> Slot]
        /\ Journals(t)
    BY JournalTypesKnown
  <1>1. CASE SyncJournal(t)
    <2> DEFINE p == [run[t] EXCEPT !.stage = "recorded", !.record = run[t].next,
                                   !.generation = @ + 1]
               synced == [i \in 1 .. 2 |->
                            IF slots[t][i].contents = "unsynced"
                            THEN [slots[t][i] EXCEPT !.contents = "whole"] ELSE slots[t][i]]
    <2>1. run' = [run EXCEPT ![t] = p] /\ run[t].stage = "writing"
          /\ UNCHANGED <<files, survivors>>
          /\ slots' = [slots EXCEPT ![t] = synced]
      BY <1>0, <1>1 DEF SyncJournal
    <2>2. run'[t] = p /\ p.stage = "recorded"
      BY <1>0, <2>1 DEF Process
    <2>3. slots'[t] = synced /\ \A u \in Transactions \ {t} : slots'[u] = slots[u]
      BY <1>0, <2>1
    <2>4. \A i \in 1 .. 2 :
            /\ slots'[t][i].generation = slots[t][i].generation
            /\ slots'[t][i].record = slots[t][i].record
            /\ slots'[t][i].contents = "torn" <=> slots[t][i].contents = "torn"
            /\ slots[t][i].contents = "unsynced" => slots'[t][i].contents = "whole"
      BY <1>0, <2>3 DEF Slot
    <2>5. Chained(slots'[t])
      BY <1>0, <2>4 DEF Journals, Chained, Follows
    <2>6. Legible(slots'[t])
      BY <1>0, <2>1, <2>4 DEF Journals, Legible
    <2>7. Journals(t)'
      BY <1>0, <2>1, <2>2, <2>5, <2>6 DEF Journals, Foreign, BeforeJournal, Fresh, Recorded
    <2>8. QED
      BY <2>1, <2>3, <2>7, StepJournals
  <1>2. CASE SyncJournalDirectory(t)
    <2> DEFINE disposition == IF run[t].record.state = "parent_synced" THEN "installed"
                              ELSE run[t].disposition
               p == [run[t] EXCEPT !.stage = After(t), !.disposition = disposition]
    <2>1. run' = [run EXCEPT ![t] = p] /\ run[t].stage = "recorded"
          /\ UNCHANGED <<files, slots>> /\ survivors' \subseteq survivors
      BY <1>0, <1>2 DEF SyncJournalDirectory, SyncDirectory
    <2>2. run[t].record \in Record /\ run[t].record.state \in States
      BY <1>0, RecordFacts DEF Process
    <2>3. After(t) \in {"prepared", "rollback", "reverse", "forward", "settled", "backward", "closing"}
      BY <2>2 DEF After, States
    <2>4. p.stage = After(t)
      BY <1>0 DEF Process
    <2>5. files.directory[t] = "journaled"
      BY <1>0, <2>1 DEF Journals, Recorded
    <2>6. QED
      BY <2>1, <2>3, <2>4, <2>5, QuietJournals DEF BeforeJournal, Fresh, Recorded
  <1>3. QED
    BY <1>1, <1>2 DEF Journal

(* The renames, at the stages that know their journal to be there.         *)
LEMMA ExchangeJournals ==
  ASSUME JournalInv, KeptInv', NEW t \in Transactions, NEW stage \in {"swapped", "swapped_back"},
         run[t].stage \in {"checked", "reversing"}, Change(Exchanged(t)), Goto(t, stage),
         UNCHANGED slots
  PROVE  JournalInv'
  <1> DEFINE p == [run[t] EXCEPT !.stage = stage]
  <1>0. /\ run \in [Transactions -> Process] /\ run[t] \in Process /\ files \in Files
        /\ Journals(t)
    BY JournalTypesKnown
  <1>1. /\ run' = [run EXCEPT ![t] = p] /\ p.stage = stage
        /\ files' = Exchanged(t) /\ survivors' = survivors \union {files'}
    BY <1>0 DEF Goto, Change, Process
  <1>2. /\ files'.directory = files.directory
        /\ \A u \in Transactions \ {t} : files'.peer[u] = files.peer[u]
    BY <1>0, <1>1 DEF Exchanged, Files
  <1>3. files.directory[t] = "journaled" /\ Legible(slots[t])
    BY <1>0 DEF Journals, Recorded
  <1>4. QED
    BY <1>1, <1>2, <1>3, QuietJournals DEF Apart, BeforeJournal, Fresh, Recorded

(* The exchange comes after the prepared record is whole.                  *)
LEMMA PromoteJournals ==
  ASSUME JournalInv, KeptInv', NEW t \in Transactions, promote(t)
  PROVE  JournalInv'
  <1> USE DEF At, Only, UnchangedWorld, UnchangedFiles, UnchangedBytes, Apart
  <1>0. run \in [Transactions -> Process] /\ run[t] \in Process /\ Journals(t)
    BY JournalTypesKnown
  <1>1. CASE CheckTarget(t) \/ PromoteRefused(t)
    <2>1. PICK p \in {[run[t] EXCEPT !.stage = "checked"],
                      [run[t] EXCEPT !.stage = "settled", !.disposition = "unchanged"]} :
            run' = [run EXCEPT ![t] = p]
      BY <1>0, <1>1 DEF CheckTarget, PromoteRefused, Goto, Settled
    <2>2. UNCHANGED <<files, survivors, slots>> /\ run[t].stage \in {"prepared", "checked"}
      BY <1>1 DEF CheckTarget, PromoteRefused
    <2>3. p.stage \in {"checked", "settled"}
      BY <1>0, <2>1 DEF Process
    <2>4. files.directory[t] = "journaled"
      BY <1>0, <2>2 DEF Journals, Recorded
    <2>5. QED
      BY <2>1, <2>2, <2>3, <2>4, QuietJournals DEF BeforeJournal, Fresh, Recorded
  <1>2. CASE Promote(t)
    BY <1>2, ExchangeJournals DEF Promote
  <1>3. CASE RecordPromotion(t)
    BY <1>3, WritingJournals DEF RecordPromotion
  <1>4. CASE SyncForward(t)
    <2>1. UNCHANGED files /\ survivors' = {files} /\ files \in survivors
      BY <1>4, JournalTypesKnown DEF SyncForward, SyncDirectory
    <2>2. survivors' \subseteq survivors
      BY <2>1
    <2>3. WriteJournal(t, [run[t].record EXCEPT !.state = "parent_synced"])
      BY <1>4 DEF SyncForward
    <2>4. QED
      BY <2>1, <2>2, <2>3, WritingJournals
  <1>5. QED
    BY <1>1, <1>2, <1>3, <1>4 DEF promote

(* The way back starts and stays behind a record that is whole.            *)
LEMMA WayBackJournals ==
  ASSUME JournalInv, KeptInv', NEW t \in Transactions, WayBack(t)
  PROVE  JournalInv'
  <1> USE DEF At, Only, UnchangedWorld, UnchangedFiles, UnchangedBytes, Apart
  <1>0. /\ run \in [Transactions -> Process] /\ run[t] \in Process /\ files \in survivors
        /\ slots[t] \in [1 .. 2 -> Slot] /\ Journals(t) /\ Knows(t)
    BY JournalTypesKnown
  <1>1. CASE reverseLateSubstitution(t) \/ rollback(t)
    <2> DEFINE p == [run[t] EXCEPT !.stage = "reversing"]
    <2>1. /\ run' = [run EXCEPT ![t] = p] /\ p.stage = "reversing"
          /\ UNCHANGED <<files, survivors, slots>>
      BY <1>0, <1>1 DEF reverseLateSubstitution, rollback, Goto, Process
    <2>2. files.directory[t] = "journaled" /\ Legible(slots[t])
      <3>1. CASE reverseLateSubstitution(t)
        BY <1>0, <3>1 DEF reverseLateSubstitution, Journals, Recorded
      <3>2. CASE rollback(t)
        <4>1. run[t].record.displaced # Missing
          BY <1>0, <3>2 DEF rollback, Knows, Derived, Exists
        <4>2. run[t].record.state # "prepared"
          BY <1>0, <4>1 DEF Process, Record, Displaced
        <4>3. files.directory[t] = "journaled"
              /\ \E slot \in Decoded(slots[t]) : slot.record = run[t].record
          BY <3>2 DEF rollback, Authentic
        <4>4. QED
          BY <1>0, <4>2, <4>3, LateIsLegible DEF Journals
      <3>3. QED
        BY <1>1, <3>1, <3>2
    <2>3. QED
      BY <2>1, <2>2, QuietJournals DEF BeforeJournal, Fresh, Recorded
  <1>2. CASE Reverse(t)
    BY <1>2, ExchangeJournals DEF Reverse
  <1>3. CASE RecordReversal(t)
    BY <1>3, WritingJournals DEF RecordReversal
  <1>4. CASE SyncBackward(t)
    <2> DEFINE p == [run[t] EXCEPT !.stage = "settled", !.disposition = "restored"]
    <2>1. run' = [run EXCEPT ![t] = p] /\ p.stage = "settled"
          /\ UNCHANGED <<files, slots>> /\ survivors' \subseteq survivors
      BY <1>0, <1>4 DEF SyncBackward, SyncDirectory, Settled, Process
    <2>2. QED
      BY <2>1, QuietJournals DEF BeforeJournal, Fresh, Recorded
  <1>5. QED
    BY <1>1, <1>2, <1>3, <1>4 DEF WayBack

(* The directory goes only with nothing foreign in it.                     *)
LEMMA CloseJournals ==
  ASSUME JournalInv, KeptInv', NEW t \in Transactions, Close(t)
  PROVE  JournalInv'
  <1> USE DEF At, Only, UnchangedWorld, UnchangedFiles, UnchangedBytes, Apart
  <1>0. /\ run \in [Transactions -> Process] /\ run[t] \in Process /\ files \in Files
        /\ Knows(t)
    BY JournalTypesKnown
  <1>1. CASE finalize(t)
    BY <1>1, WritingJournals DEF finalize
  <1>2. CASE RemovePeer(t) \/ RemoveArtifacts(t) \/ RemoveDirectory(t)
    <2>1. PICK stage \in {"stripping", "stripped", "done"} : Goto(t, stage)
      BY <1>2 DEF RemovePeer, RemoveArtifacts, RemoveDirectory
    <2> DEFINE p == [run[t] EXCEPT !.stage = stage]
    <2>2. run' = [run EXCEPT ![t] = p] /\ p.stage = stage
      BY <1>0, <2>1 DEF Goto, Process
    <2>3. /\ UNCHANGED slots /\ survivors' \subseteq survivors \union {files'}
          /\ files'.peer[t] = Missing
          /\ \A u \in Transactions \ {t} :
               files'.peer[u] = files.peer[u] /\ files'.directory[u] = files.directory[u]
      <3>1. CASE RemovePeer(t)
        BY <1>0, <3>1 DEF RemovePeer, Change, Files
      <3>2. CASE RemoveArtifacts(t)
        BY <1>0, <3>2 DEF RemoveArtifacts, Change, Files, Knows
      <3>3. CASE RemoveDirectory(t)
        BY <1>0, <3>3 DEF RemoveDirectory, Files
      <3>4. QED
        BY <1>2, <3>1, <3>2, <3>3
    <2>4. ~Foreign(files', t)
      BY <2>3 DEF Foreign, Missing
    <2>5. QED
      BY <2>2, <2>3, <2>4, QuietJournals DEF BeforeJournal, Fresh, Recorded
  <1>3. QED
    BY <1>1, <1>2 DEF Close

(* Recovery reads a record that decodes, and may write the one after it.   *)
LEMMA RecoverJournals ==
  ASSUME JournalInv, KeptInv', NEW t \in Transactions, Recover(t) \/ Stop(t)
  PROVE  JournalInv'
  <1> USE DEF At, Only, UnchangedWorld, UnchangedFiles, UnchangedBytes, Apart
  <1>0. /\ TypeInv /\ run \in [Transactions -> Process] /\ run[t] \in Process
        /\ files \in survivors /\ slots[t] \in [1 .. 2 -> Slot] /\ Journals(t)
    BY JournalTypesKnown
  <1>1. CASE Reopen(t) \/ Stop(t)
    <2>1. PICK p \in {[NewProcess EXCEPT !.stage = "reopening", !.recovering = TRUE],
                      [NewProcess EXCEPT !.stage = "down"]} : run' = [run EXCEPT ![t] = p]
      BY <1>1 DEF Reopen, Stop
    <2>2. UNCHANGED <<files, survivors, slots>>
      BY <1>1 DEF Reopen, Stop
    <2>3. p.stage \in {"reopening", "down"}
      BY <2>1 DEF NewProcess
    <2>4. QED
      BY <2>1, <2>2, <2>3, QuietJournals DEF BeforeJournal, Fresh, Recorded
  <1>2. CASE recoverGuardedInstallTransaction(t)
    <2> DEFINE later == [state |-> "exchanged", displaced |-> files.peer[t]]
    <2>1. PICK slot \in Decoded(slots[t]) :
            \/ \E stage \in {"settled", "swapped_back", "backward", "rollback"},
                 d \in {"unchanged", "restored", "installed"} : Resume(t, slot, stage, d)
            \/ /\ Exists(files.peer[t]) /\ ~Exists(slot.record.displaced)
               /\ slot.record.state = "prepared"
               /\ WriteSlot(t, [Load(t, slot) EXCEPT !.disposition = "installed"], later)
      BY <1>2 DEF recoverGuardedInstallTransaction
    <2>2. UNCHANGED <<files, survivors>> /\ files.directory[t] = "journaled"
      BY <1>2 DEF recoverGuardedInstallTransaction
    <2>3. ASSUME NEW stage \in {"settled", "swapped_back", "backward", "rollback"},
                 NEW d \in {"unchanged", "restored", "installed"}, Resume(t, slot, stage, d)
          PROVE  JournalInv'
      <3> DEFINE p == [Load(t, slot) EXCEPT !.stage = stage, !.disposition = d]
      <3>1. run' = [run EXCEPT ![t] = p] /\ UNCHANGED slots /\ p.stage = stage
        BY <1>0, <2>3 DEF Resume, Load, Process
      <3>2. QED
        BY <2>2, <3>1, QuietJournals DEF BeforeJournal, Fresh, Recorded
    <2>4. ASSUME Exists(files.peer[t]), ~Exists(slot.record.displaced),
                 slot.record.state = "prepared",
                 WriteSlot(t, [Load(t, slot) EXCEPT !.disposition = "installed"], later)
          PROVE  JournalInv'
      <3> DEFINE q == [Load(t, slot) EXCEPT !.disposition = "installed"]
                 p == [q EXCEPT !.stage = "writing", !.next = later]
      <3>1. q.generation = slot.generation
        BY <1>0 DEF Load, Process
      <3>2. validInstallPromotionJournalTransition(slot.record, later)
        <4>1. files.peer[t] \in Entry \ {Missing}
          BY <2>4, KeptTypes DEF Exists, JournalInv
        <4>2. QED
          BY <2>4, <4>1 DEF validInstallPromotionJournalTransition, Displaced, Exists
      <3>3. WriteSlot(t, q, later)
        BY <2>4
      <3> HIDE DEF q, later
      <3>4. /\ Chained(slots'[t]) /\ Legible(slots'[t])
            /\ \E i \in 1 .. 2 : slots'[t][i].contents = "unsynced"
            /\ \A u \in Transactions \ {t} : slots'[u] = slots[u]
        BY <1>0, <3>1, <3>2, <3>3, RecordFollows DEF Journals
      <3>5. run' = [run EXCEPT ![t] = p]
        BY <3>3 DEF WriteSlot
      <3>6. run'[t] = p /\ p.stage = "writing"
        <4>1. run'[t] = p
          BY <1>0, <3>5
        <4>2. p.stage = "writing"
          BY <1>0 DEF q, Load, Process
        <4>3. QED
          BY <4>1, <4>2
      <3>7. Journals(t)'
        BY <1>0, <2>2, <3>4, <3>6 DEF Journals, Foreign, BeforeJournal, Fresh, Recorded
      <3>8. QED
        BY <2>2, <3>4, <3>5, <3>7, StepJournals
    <2>5. QED
      BY <2>1, <2>3, <2>4
  <1>3. QED
    BY <1>1, <1>2 DEF Recover

(* A power loss may tear what is not synced, and brings no foreign entry   *)
(* into a directory.                                                       *)
LEMMA PowerLossJournals ==
  ASSUME JournalInv, KeptInv', PowerLoss, NEW t \in Transactions
  PROVE  Journals(t)'
  <1>0. /\ run \in [Transactions -> Process] /\ slots[t] \in [1 .. 2 -> Slot] /\ Journals(t)
    BY JournalTypesKnown
  <1>1. PICK f \in survivors : files' = f /\ survivors' = {f}
    BY DEF PowerLoss
  <1>2. slots'[t] \in Torn(slots[t])
    BY DEF PowerLoss
  <1>3. PICK c \in [1 .. 2 -> Contents] :
          /\ slots'[t] = [i \in 1 .. 2 |-> [slots[t][i] EXCEPT !.contents = c[i]]]
          /\ \A i \in 1 .. 2 : c[i] \in Survives(slots[t][i].contents)
    BY <1>2 DEF Torn
  <1>4. \A i \in 1 .. 2 :
          /\ slots'[t][i].contents = c[i] /\ slots'[t][i].record = slots[t][i].record
          /\ slots'[t][i].generation = slots[t][i].generation
          /\ c[i] # "torn" => slots[t][i].contents # "torn"
          /\ slots[t][i].contents = "whole" => c[i] = "whole"
    BY <1>0, <1>3 DEF Slot, Survives
  <1>5. Chained(slots'[t])
    BY <1>0, <1>4 DEF Journals, Chained, Follows
  <1>6. Legible(slots[t]) => Legible(slots'[t])
    BY <1>4 DEF Legible
  <1>7. run'[t].stage = "down" \/ (run'[t].stage = "idle" /\ run[t].stage = "idle")
    BY <1>0 DEF PowerLoss, At, NewProcess
  <1>8. QED
    BY <1>0, <1>1, <1>4, <1>5, <1>6, <1>7
    DEF Journals, Foreign, BeforeJournal, Fresh, Recorded

(* The user never touches a transaction directory.                         *)
LEMMA UserJournals ==
  ASSUME JournalInv, KeptInv', UserSave \/ UserRemove, NEW t \in Transactions
  PROVE  Journals(t)'
  <1>0. files \in survivors /\ files \in Files /\ Journals(t)
    BY JournalTypesKnown
  <1>1. PICK e : UserEdit(e)
    BY DEF UserSave, UserRemove
  <1>2. /\ files' = [files EXCEPT !.target = e, !.newest = e.save]
        /\ survivors' = survivors \union {files'} /\ UNCHANGED <<run, slots>>
    BY <1>1 DEF UserEdit, Change, UnchangedBytes
  <1>3. files'.peer = files.peer /\ files'.directory = files.directory
    BY <1>0, <1>2 DEF Files
  <1>4. QED
    BY <1>0, <1>2, <1>3 DEF Journals, Foreign

(* Every step keeps the journal's invariant.                               *)
LEMMA JournalNext == JournalInv /\ [Next]_vars => JournalInv'
  <1> SUFFICES ASSUME JournalInv, [Next]_vars PROVE JournalInv'
    OBVIOUS
  <1>0. KeptInv'
    BY KeptNext DEF JournalInv
  <1>1. CASE UNCHANGED vars
    BY <1>0, <1>1 DEF vars, JournalInv, Journals, Foreign
  <1>2. ASSUME NEW t \in Transactions,
               Prepare(t) \/ Journal(t) \/ promote(t) \/ WayBack(t) \/ Close(t) \/ Recover(t)
               \/ Stop(t)
        PROVE  JournalInv'
    BY <1>0, <1>2, PrepareJournals, JournalJournals, PromoteJournals, WayBackJournals,
       CloseJournals, RecoverJournals
  <1>3. CASE PowerLoss
    BY <1>0, <1>3, PowerLossJournals DEF JournalInv
  <1>4. CASE UserSave \/ UserRemove
    BY <1>0, <1>4, UserJournals DEF JournalInv
  <1>5. QED
    BY <1>1, <1>2, <1>3, <1>4 DEF Next

(* As long as a directory holds something other than its own candidate, in *)
(* any survivor of a power loss, it holds its journal too, and the journal *)
(* decodes unless both of its slots were still at the mercy of that loss.  *)
THEOREM ForeignIsJournaled == Spec => []DisplacedIsJournaled
  <1>1. JournalInv => DisplacedIsJournaled
    <2> SUFFICES ASSUME JournalInv, NEW f \in survivors, NEW t \in Transactions, Foreign(f, t)
                 PROVE  /\ f.directory[t] = "journaled"
                        /\ BothUnsynced(slots[t])
                             \/ \A pair \in Torn(slots[t]) : Decoded(pair) # {}
      BY DEF DisplacedIsJournaled
    <2>1. Journals(t) /\ slots[t] \in [1 .. 2 -> Slot]
      BY JournalTypesKnown
    <2>2. f.directory[t] = "journaled" /\ Legible(slots[t]) /\ Chained(slots[t])
      BY <2>1 DEF Journals
    <2>3. ~BothUnsynced(slots[t]) => \A pair \in Torn(slots[t]) : Decoded(pair) # {}
      BY <2>1, <2>2, LegibleDecodes
    <2>4. QED
      BY <2>2, <2>3
  <1>2. QED
    BY <1>1, InitialJournal, JournalNext, PTL DEF Spec

--------------------------------------------------------------------------------
(* A run that does not install leaves no trace                             *)

(* A candidate is in one place.                                            *)
OutOfPeers(f, t) == \A u \in Transactions : f.peer[u].by # t
Once(f) ==
  \A t \in Transactions :
    /\ f.target.by = t => OutOfPeers(f, t)
    /\ \A u, v \in Transactions : u # v /\ f.peer[u].by = t => f.peer[v].by # t

(* The stages past which a run has its candidate back, or never let it go. *)
TakenBack(p) ==
  \/ p.stage \in {"swapped_back", "backward"}
  \/ p.stage = "writing" /\ p.next.state = "reversed"
  \/ p.stage = "recorded" /\ p.record.state = "reversed"
  \/ /\ p.disposition # "installed"
     /\ \/ p.stage = "settled"
        \/ p.stage = "writing" /\ p.next.state = "finalized"
        \/ p.stage = "recorded" /\ p.record.state = "finalized"
ClosedOut(p) == p.stage \in Closing /\ p.disposition # "installed"

Traces(t) ==
  /\ BeforeExchange(run[t]) => files.peer[t].by = t
  /\ run[t].stage = "reversing" => OutOfPeers(files, t)
  /\ TakenBack(run[t]) => ~Elsewhere(files, t)
  /\ ClosedOut(run[t]) => \A f \in survivors : ~Elsewhere(f, t)

TraceInv ==
  /\ PlaceInv
  /\ \A f \in survivors : Once(f)
  /\ \A t \in Transactions : Traces(t)

LEMMA TraceTypes ==
  ASSUME TraceInv, NEW t \in Transactions
  PROVE  /\ PlaceInv /\ run \in [Transactions -> Process] /\ run[t] \in Process
         /\ files \in survivors /\ files \in Files /\ Once(files) /\ Traces(t)
         /\ base[t] \in Entry
  BY PlaceTypes DEF TraceInv

LEMMA InitialTrace == Init => TraceInv
  <1> SUFFICES ASSUME Init PROVE TraceInv
    OBVIOUS
  <1>1. PlaceInv
    BY InitialPlace
  <1>2. /\ files.peer = [t \in Transactions |-> Missing] /\ survivors = {files}
        /\ \A t \in Transactions : run[t].stage = "idle"
    BY DEF Init, NewProcess
  <1>3. \A u \in Transactions : files.peer[u].by = Nobody
    BY <1>2 DEF Missing
  <1>4. Once(files)
    BY <1>3, EntryFacts DEF Once, OutOfPeers
  <1>5. \A t \in Transactions : Traces(t)
    BY <1>2 DEF Traces, BeforeExchange, TakenBack, ClosedOut, Closing
  <1>6. QED
    BY <1>1, <1>2, <1>4, <1>5 DEF TraceInv

(* What a step of t that changes files has to show.                        *)
Carried(t) ==
  /\ Once(files')
  /\ \A u \in Transactions \ {t} :
        /\ files'.peer[u] = files.peer[u]
        /\ Elsewhere(files', u) => Elsewhere(files, u)
        /\ run[u].stage = "reversing" /\ OutOfPeers(files, u) => OutOfPeers(files', u)

LEMMA StepTraces ==
  ASSUME TraceInv, PlaceInv', NEW t \in Transactions, NEW p, run' = [run EXCEPT ![t] = p],
         survivors' \subseteq survivors \union {files'},
         UNCHANGED files \/ Carried(t),
         Traces(t)'
  PROVE  TraceInv'
  <1>0. run \in [Transactions -> Process] /\ files \in survivors
    BY TraceTypes
  <1>1. \A f \in survivors' : Once(f)
    BY <1>0 DEF TraceInv, Carried
  <1>2. ASSUME NEW u \in Transactions, u # t PROVE Traces(u)'
    <2>1. run'[u] = run[u] /\ Traces(u)
      BY <1>0, <1>2 DEF TraceInv
    <2>2. UNCHANGED files \/
          /\ files'.peer[u] = files.peer[u]
          /\ Elsewhere(files', u) => Elsewhere(files, u)
          /\ run[u].stage = "reversing" /\ OutOfPeers(files, u) => OutOfPeers(files', u)
      BY <1>2 DEF Carried
    <2>3. BeforeExchange(run[u]) => files'.peer[u].by = u
      BY <2>1, <2>2 DEF Traces
    <2>4. run[u].stage = "reversing" => OutOfPeers(files', u)
      BY <2>1, <2>2 DEF Traces
    <2>5. TakenBack(run[u]) => ~Elsewhere(files', u)
      BY <2>1, <2>2 DEF Traces
    <2>6. ClosedOut(run[u]) => \A f \in survivors' : ~Elsewhere(f, u)
      BY <1>0, <2>1, <2>2 DEF Traces
    <2>7. QED
      BY <2>1, <2>3, <2>4, <2>5, <2>6 DEF Traces, OutOfPeers, Elsewhere
  <1>3. QED
    BY <1>1, <1>2 DEF TraceInv, Once, OutOfPeers

(* A step of t that leaves the files alone.                                *)
LEMMA QuietTraces ==
  ASSUME TraceInv, PlaceInv', NEW t \in Transactions, NEW p, run' = [run EXCEPT ![t] = p],
         UNCHANGED files, survivors' \subseteq survivors,
         BeforeExchange(p) => BeforeExchange(run[t]) \/ files.peer[t].by = t,
         p.stage = "reversing" => OutOfPeers(files, t),
         TakenBack(p) => TakenBack(run[t]) \/ ~Elsewhere(files, t),
         ClosedOut(p) => \A f \in survivors' : ~Elsewhere(f, t)
  PROVE  TraceInv'
  <1>1. run'[t] = p /\ Traces(t)
    BY TraceTypes
  <1>2. Traces(t)'
    BY <1>1 DEF Traces, OutOfPeers, Elsewhere
  <1>3. QED
    BY <1>2, StepTraces

(* In its own directory, a candidate is nowhere else.                      *)
LEMMA AtHome ==
  ASSUME NEW f, NEW t \in Transactions, Once(f), f.peer[t].by = t
  PROVE  ~Elsewhere(f, t)
  BY DEF Once, OutOfPeers, Elsewhere

LEMMA WritingTraces ==
  ASSUME TraceInv, PlaceInv', NEW t \in Transactions, NEW record, WriteJournal(t, record),
         record.state # "prepared", UNCHANGED files, survivors' \subseteq survivors,
         \/ record.state \notin {"reversed", "finalized"}
         \/ record.state = "finalized" /\ run[t].disposition = "installed"
         \/ TakenBack(run[t])
  PROVE  TraceInv'
  <1> DEFINE p == [run[t] EXCEPT !.stage = "writing", !.next = record]
  <1>1. run' = [run EXCEPT ![t] = p] /\ p.stage = "writing" /\ p.next = record
        /\ p.disposition = run[t].disposition
    BY TraceTypes DEF WriteJournal, WriteSlot, Process
  <1>2. ~BeforeExchange(p) /\ ~ClosedOut(p)
    BY <1>1 DEF BeforeExchange, ClosedOut, Closing
  <1>3. TakenBack(p) => TakenBack(run[t])
    BY <1>1 DEF TakenBack
  <1> HIDE DEF p
  <1>4. QED
    BY <1>1, <1>2, <1>3, QuietTraces

(* The renames move two entries, and only the holder of the lock makes one.*)
LEMMA ExchangeTraces ==
  ASSUME TraceInv, NEW t \in Transactions, files' = Exchanged(t),
         run[t].stage \in {"checked", "reversing"}
  PROVE  /\ Carried(t)
         /\ files'.target = files.peer[t]
         /\ \A u \in Transactions \ {t} : files'.peer[u] = files.peer[u]
  <1>0. /\ files \in Files /\ Once(files) /\ PlaceInv
        /\ files.peer \in [Transactions -> Entry]
    BY TraceTypes, KeptTypes DEF PlaceInv
  <1>1. /\ files'.target = files.peer[t] /\ files'.peer[t] = files.target
        /\ \A u \in Transactions \ {t} : files'.peer[u] = files.peer[u]
    BY <1>0 DEF Exchanged, Files
  <1>2. Once(files')
    BY <1>0, <1>1 DEF Once, OutOfPeers
  <1>3. ASSUME NEW u \in Transactions, u # t
        PROVE  /\ Elsewhere(files', u) => Elsewhere(files, u)
               /\ run[u].stage # "reversing"
    <2>1. Elsewhere(files', u) => Elsewhere(files, u)
      BY <1>1, <1>3 DEF Elsewhere
    <2>2. lock = t
      BY <1>0, WorkingStages, PlaceTypes
    <2>3. run[u].stage \notin Working
      BY <1>0, <1>3, <2>2, PlaceTypes
    <2>4. QED
      BY <2>1, <2>3, WorkingStages
  <1>4. QED
    BY <1>1, <1>2, <1>3 DEF Carried

(* A step of t that leaves every entry where it is, or removes its own.    *)
LEMMA FewerTraces ==
  ASSUME TraceInv, NEW t \in Transactions, files'.target = files.target,
         files'.peer[t] \in {Missing, files.peer[t]},
         \A u \in Transactions \ {t} : files'.peer[u] = files.peer[u]
  PROVE  Carried(t) /\ (Elsewhere(files', t) => Elsewhere(files, t))
  <1>1. \A v \in Transactions : files'.peer[v].by \in {Nobody, files.peer[v].by}
    BY DEF Missing
  <1>2. Once(files) /\ \A u \in Transactions : u # Nobody
    BY TraceTypes, EntryFacts
  <1>3. Once(files')
    BY <1>1, <1>2 DEF Once, OutOfPeers
  <1>4. ASSUME NEW u \in Transactions
        PROVE  /\ Elsewhere(files', u) => Elsewhere(files, u)
               /\ OutOfPeers(files, u) => OutOfPeers(files', u)
    BY <1>1, <1>2 DEF Elsewhere, OutOfPeers
  <1>5. QED
    BY <1>3, <1>4 DEF Carried

LEMMA PrepareTraces ==
  ASSUME TraceInv, PlaceInv', NEW t \in Transactions, Prepare(t)
  PROVE  TraceInv'
  <1> USE DEF At, Only, UnchangedWorld, UnchangedFiles, UnchangedBytes
  <1>0. /\ run \in [Transactions -> Process] /\ run[t] \in Process
        /\ files \in survivors /\ files \in Files /\ Once(files) /\ base[t] \in Entry
        /\ PlaceInv /\ Traces(t)
    BY TraceTypes
  <1>1. CASE captureInstallSnapshot(t) \/ openTargetTransactionGuard(t)
    <2>1. PICK stage \in {"captured", "locked", "reopened"} :
            run' = [run EXCEPT ![t] = [run[t] EXCEPT !.stage = stage]]
      BY <1>0, <1>1 DEF captureInstallSnapshot, openTargetTransactionGuard, Goto
    <2>2. UNCHANGED <<files, survivors>>
      BY <1>1 DEF captureInstallSnapshot, openTargetTransactionGuard
    <2>3. [run[t] EXCEPT !.stage = stage].stage \in {"captured", "locked", "reopened"}
      BY <1>0, <2>1 DEF Process
    <2>4. QED
      BY <2>1, <2>2, <2>3, QuietTraces DEF BeforeExchange, TakenBack, ClosedOut, Closing
  <1>2. CASE StageCandidate(t)
    <2> DEFINE g == [files EXCEPT !.directory[t] = "open", !.peer[t] = Candidate(t)]
               p == [run[t] EXCEPT !.stage = "staged"]
    <2>1. /\ run' = [run EXCEPT ![t] = p] /\ p.stage = "staged" /\ run[t].stage = "locked"
          /\ files' = g /\ survivors' = survivors \union {g}
      BY <1>0, <1>2 DEF StageCandidate, Goto, Change, Process
    <2>2. /\ g.target = files.target /\ g.peer[t] = Candidate(t) /\ Candidate(t).by = t
          /\ \A u \in Transactions \ {t} : g.peer[u] = files.peer[u]
      BY <1>0, CandidateType DEF Files
    <2>3. Nowhere(files, t)
      BY <1>0, <2>1, PlaceTypes DEF Whole, Fresh
    <2>4. Once(g)
      BY <1>0, <2>2, <2>3 DEF Once, OutOfPeers, Nowhere
    <2>5. ASSUME NEW u \in Transactions, u # t
          PROVE  /\ Elsewhere(g, u) => Elsewhere(files, u)
                 /\ OutOfPeers(files, u) => OutOfPeers(g, u)
      BY <2>2, <2>5 DEF Elsewhere, OutOfPeers
    <2>6. Carried(t)
      BY <2>1, <2>2, <2>4, <2>5 DEF Carried
    <2>7. run'[t].stage = "staged"
      BY <1>0, <2>1
    <2>8. Traces(t)'
      BY <2>1, <2>2, <2>7 DEF Traces, TakenBack, ClosedOut, Closing
    <2>9. QED
      BY <2>1, <2>6, <2>8, StepTraces
  <1>3. CASE SyncCandidate(t) \/ SyncArtifacts(t)
    <2>1. PICK stage \in {"synced", "evidenced"} :
            run' = [run EXCEPT ![t] = [run[t] EXCEPT !.stage = stage]]
      BY <1>0, <1>3 DEF SyncCandidate, SyncArtifacts, Goto
    <2>2. UNCHANGED files /\ survivors' \subseteq survivors /\ run[t].stage \in {"staged", "synced"}
      BY <1>0, <1>3 DEF SyncCandidate, SyncArtifacts, SyncDirectory
    <2>3. [run[t] EXCEPT !.stage = stage].stage \in {"synced", "evidenced"}
      BY <1>0, <2>1 DEF Process
    <2>4. QED
      BY <2>1, <2>2, <2>3, QuietTraces DEF BeforeExchange, TakenBack, ClosedOut, Closing
  <1>4. CASE createPreparedJournal(t)
    <2> DEFINE g == [files EXCEPT !.directory[t] = "journaled"]
               p == [run[t] EXCEPT !.stage = "writing", !.next = Prepared]
    <2>1. /\ run' = [run EXCEPT ![t] = p] /\ run[t].stage = "evidenced"
          /\ files' = g /\ survivors' = survivors \union {g}
      BY <1>4 DEF createPreparedJournal, WriteSlot, Change
    <2>2. run'[t] = p /\ p.stage = "writing" /\ p.next = Prepared
      BY <1>0, <2>1 DEF Process
    <2>3. g.target = files.target /\ g.peer = files.peer
      BY <1>0 DEF Files
    <2>4. Carried(t)
      BY <2>1, <2>3, FewerTraces
    <2>5. g.peer[t].by = t
      BY <1>0, <2>1, <2>3 DEF Traces, BeforeExchange
    <2>6. Traces(t)'
      BY <2>1, <2>2, <2>5, RecordFacts DEF Traces, TakenBack, ClosedOut, Closing
    <2>7. QED
      BY <2>1, <2>4, <2>6, StepTraces
  <1>5. QED
    BY <1>1, <1>2, <1>3, <1>4 DEF Prepare

(* The finalized record reaches the disk with the directories: from there  *)
(* no power loss brings the candidate back.                                *)
LEMMA JournalTraces ==
  ASSUME TraceInv, PlaceInv', NEW t \in Transactions, Journal(t)
  PROVE  TraceInv'
  <1> USE DEF At, Only, UnchangedWorld, UnchangedFiles, UnchangedBytes
  <1>0. /\ run \in [Transactions -> Process] /\ run[t] \in Process /\ files \in survivors
        /\ Traces(t)
    BY TraceTypes
  <1>1. CASE SyncJournal(t)
    <2> DEFINE p == [run[t] EXCEPT !.stage = "recorded", !.record = run[t].next,
                                   !.generation = @ + 1]
    <2>1. run' = [run EXCEPT ![t] = p] /\ run[t].stage = "writing" /\ UNCHANGED <<files, survivors>>
      BY <1>0, <1>1 DEF SyncJournal
    <2>2. p.stage = "recorded" /\ p.record = run[t].next /\ p.disposition = run[t].disposition
      BY <1>0 DEF Process
    <2>3. /\ BeforeExchange(p) => BeforeExchange(run[t])
          /\ TakenBack(p) => TakenBack(run[t])
          /\ ~ClosedOut(p)
      BY <2>1, <2>2 DEF BeforeExchange, TakenBack, ClosedOut, Closing
    <2> HIDE DEF p
    <2>4. QED
      BY <2>1, <2>2, <2>3, QuietTraces
  <1>2. CASE SyncJournalDirectory(t)
    <2> DEFINE disposition == IF run[t].record.state = "parent_synced" THEN "installed"
                              ELSE run[t].disposition
               p == [run[t] EXCEPT !.stage = After(t), !.disposition = disposition]
    <2>1. run' = [run EXCEPT ![t] = p] /\ run[t].stage = "recorded"
          /\ UNCHANGED files /\ survivors' = {files}
      BY <1>0, <1>2 DEF SyncJournalDirectory, SyncDirectory
    <2>2. p.stage = After(t) /\ p.disposition = disposition
      BY <1>0 DEF Process
    <2>3. run[t].record.state \in States
      BY <1>0, RecordFacts DEF Process
    <2>4. /\ run[t].record.state = "prepared" => After(t) = "prepared"
          /\ run[t].record.state = "exchanged" => After(t) \in {"rollback", "reverse", "forward"}
          /\ run[t].record.state = "created" => After(t) = "forward"
          /\ run[t].record.state = "parent_synced" => After(t) = "settled"
          /\ run[t].record.state = "reversed" => After(t) = "backward"
          /\ run[t].record.state = "finalized" => After(t) = "closing"
      BY DEF After
    <2>5. /\ BeforeExchange(p) => BeforeExchange(run[t])
          /\ TakenBack(p) => TakenBack(run[t])
          /\ ClosedOut(p) => TakenBack(run[t])
          /\ p.stage # "reversing"
      BY <2>1, <2>2, <2>3, <2>4 DEF BeforeExchange, TakenBack, ClosedOut, Closing, States
    <2>6. TakenBack(run[t]) => \A f \in survivors' : ~Elsewhere(f, t)
      BY <1>0, <2>1 DEF Traces
    <2>7. survivors' \subseteq survivors
      BY <1>0, <2>1
    <2> HIDE DEF p
    <2>8. QED
      BY <2>1, <2>5, <2>6, <2>7, QuietTraces
  <1>3. QED
    BY <1>1, <1>2 DEF Journal

(* A run that gives up before the exchange has its candidate aside.        *)
LEMMA PromoteTraces ==
  ASSUME TraceInv, PlaceInv', NEW t \in Transactions, promote(t)
  PROVE  TraceInv'
  <1> USE DEF At, Only, UnchangedWorld, UnchangedFiles, UnchangedBytes
  <1>0. /\ run \in [Transactions -> Process] /\ run[t] \in Process
        /\ files \in survivors /\ files \in Files /\ Once(files) /\ Traces(t)
        /\ PlaceInv /\ TypeInv
    BY TraceTypes, PlaceTypes
  <1>1. CASE CheckTarget(t) \/ PromoteRefused(t)
    <2>1. PICK p \in {[run[t] EXCEPT !.stage = "checked"],
                      [run[t] EXCEPT !.stage = "settled", !.disposition = "unchanged"]} :
            run' = [run EXCEPT ![t] = p]
      BY <1>0, <1>1 DEF CheckTarget, PromoteRefused, Goto, Settled
    <2>2. /\ UNCHANGED <<files, survivors>> /\ run[t].stage \in {"prepared", "checked"}
      BY <1>1 DEF CheckTarget, PromoteRefused
    <2>3. p.stage \in {"checked", "settled"}
      BY <1>0, <2>1 DEF Process
    <2>4. BeforeExchange(run[t]) /\ ~Elsewhere(files, t)
      BY <1>0, <2>2, AtHome DEF Traces, BeforeExchange
    <2>5. QED
      BY <2>1, <2>2, <2>3, <2>4, QuietTraces DEF ClosedOut, Closing
  <1>2. CASE Promote(t)
    <2> DEFINE p == [run[t] EXCEPT !.stage = "swapped"]
    <2>1. /\ run' = [run EXCEPT ![t] = p] /\ p.stage = "swapped" /\ run[t].stage = "checked"
          /\ files' = Exchanged(t) /\ survivors' = survivors \union {files'}
      BY <1>0, <1>2 DEF Promote, Goto, Change, Process
    <2>2. run'[t] = p
      BY <1>0, <2>1
    <2>3. Traces(t)'
      BY <2>1, <2>2 DEF Traces, BeforeExchange, TakenBack, ClosedOut, Closing
    <2>4. QED
      BY <2>1, <2>3, ExchangeTraces, StepTraces
  <1>3. CASE RecordPromotion(t)
    <2>1. PICK record : record.state \in {"exchanged", "created"} /\ WriteJournal(t, record)
      BY <1>3 DEF RecordPromotion
    <2>2. UNCHANGED <<files, survivors>>
      BY <1>3 DEF RecordPromotion
    <2>3. QED
      BY <2>1, <2>2, WritingTraces
  <1>4. CASE SyncForward(t)
    <2>1. [run[t].record EXCEPT !.state = "parent_synced"].state = "parent_synced"
      BY <1>0, SucceedingRecord DEF States
    <2>2. /\ WriteJournal(t, [run[t].record EXCEPT !.state = "parent_synced"])
          /\ UNCHANGED files /\ survivors' \subseteq survivors
      BY <1>0, <1>4 DEF SyncForward, SyncDirectory
    <2>3. QED
      BY <2>1, <2>2, WritingTraces
  <1>5. QED
    BY <1>1, <1>2, <1>3, <1>4 DEF promote

(* The rename back takes the candidate out of the startup file, or finds   *)
(* it overwritten by a late save: no directory holds it either way.        *)
LEMMA WayBackTraces ==
  ASSUME TraceInv, PlaceInv', NEW t \in Transactions, WayBack(t)
  PROVE  TraceInv'
  <1> USE DEF At, Only, UnchangedWorld, UnchangedFiles, UnchangedBytes
  <1>0. /\ run \in [Transactions -> Process] /\ run[t] \in Process
        /\ files \in survivors /\ files \in Files /\ base[t] \in Entry
        /\ Once(files) /\ Traces(t) /\ TypeInv
    BY TraceTypes, PlaceTypes
  <1>1. CASE reverseLateSubstitution(t) \/ rollback(t)
    <2> DEFINE p == [run[t] EXCEPT !.stage = "reversing"]
    <2>1. /\ run' = [run EXCEPT ![t] = p] /\ p.stage = "reversing" /\ InPlace(t)
          /\ UNCHANGED <<files, survivors>>
      BY <1>0, <1>1 DEF reverseLateSubstitution, rollback, Goto, Process
    <2>2. files.target.by = t
      BY <1>0, <2>1, CandidateType DEF InPlace
    <2>3. OutOfPeers(files, t)
      BY <1>0, <2>2 DEF Once
    <2>4. ~BeforeExchange(p) /\ ~TakenBack(p) /\ ~ClosedOut(p)
      BY <2>1 DEF BeforeExchange, TakenBack, ClosedOut, Closing
    <2>5. QED
      BY <2>1, <2>3, <2>4, QuietTraces
  <1>2. CASE Reverse(t)
    <2> DEFINE p == [run[t] EXCEPT !.stage = "swapped_back"]
    <2>1. /\ run' = [run EXCEPT ![t] = p] /\ p.stage = "swapped_back"
          /\ run[t].stage = "reversing"
          /\ files' = Exchanged(t) /\ survivors' = survivors \union {files'}
      BY <1>0, <1>2 DEF Reverse, Goto, Change, Process
    <2>2. run'[t] = p
      BY <1>0, <2>1
    <2>3. /\ Carried(t) /\ files'.target = files.peer[t]
          /\ \A u \in Transactions \ {t} : files'.peer[u] = files.peer[u]
      BY <2>1, ExchangeTraces
    <2>4. OutOfPeers(files, t)
      BY <1>0, <2>1 DEF Traces
    <2>5. ~Elsewhere(files', t)
      BY <2>3, <2>4 DEF OutOfPeers, Elsewhere
    <2>6. ~BeforeExchange(p) /\ p.stage # "reversing" /\ ~ClosedOut(p)
      BY <2>1 DEF BeforeExchange, ClosedOut, Closing
    <2>7. Traces(t)'
      BY <2>2, <2>5, <2>6 DEF Traces, Elsewhere
    <2>8. QED
      BY <2>1, <2>3, <2>7, StepTraces
  <1>3. CASE RecordReversal(t)
    <2>1. /\ WriteJournal(t, [run[t].record EXCEPT !.state = "reversed"])
          /\ UNCHANGED <<files, survivors>> /\ TakenBack(run[t])
      BY <1>3 DEF RecordReversal, TakenBack
    <2>2. [run[t].record EXCEPT !.state = "reversed"].state = "reversed"
      BY <1>0, SucceedingRecord DEF States
    <2>3. QED
      BY <2>1, <2>2, WritingTraces
  <1>4. CASE SyncBackward(t)
    <2> DEFINE p == [run[t] EXCEPT !.stage = "settled", !.disposition = "restored"]
    <2>1. /\ run' = [run EXCEPT ![t] = p] /\ p.stage = "settled" /\ TakenBack(run[t])
          /\ UNCHANGED files /\ survivors' \subseteq survivors
      BY <1>0, <1>4 DEF SyncBackward, SyncDirectory, Settled, Process, TakenBack
    <2>2. ~BeforeExchange(p) /\ p.stage # "reversing" /\ ~ClosedOut(p)
      BY <2>1 DEF BeforeExchange, ClosedOut, Closing
    <2> HIDE DEF p
    <2>3. QED
      BY <2>1, <2>2, QuietTraces
  <1>5. QED
    BY <1>1, <1>2, <1>3, <1>4 DEF WayBack

LEMMA CloseTraces ==
  ASSUME TraceInv, PlaceInv', NEW t \in Transactions, Close(t)
  PROVE  TraceInv'
  <1> USE DEF At, Only, UnchangedWorld, UnchangedFiles, UnchangedBytes
  <1>0. /\ run \in [Transactions -> Process] /\ run[t] \in Process
        /\ files \in survivors /\ files \in Files /\ Traces(t) /\ TypeInv
    BY TraceTypes, PlaceTypes
  <1>1. CASE finalize(t)
    <2>1. /\ WriteJournal(t, [run[t].record EXCEPT !.state = "finalized"])
          /\ UNCHANGED <<files, survivors>>
          /\ run[t].disposition = "installed" \/ TakenBack(run[t])
      BY <1>1 DEF finalize, TakenBack
    <2>2. [run[t].record EXCEPT !.state = "finalized"].state = "finalized"
      BY <1>0, SucceedingRecord DEF States
    <2>3. QED
      BY <2>1, <2>2, WritingTraces
  <1>2. CASE RemovePeer(t) \/ RemoveArtifacts(t) \/ RemoveDirectory(t)
    <2>1. PICK stage \in {"stripping", "stripped", "done"} :
            run' = [run EXCEPT ![t] = [run[t] EXCEPT !.stage = stage]]
      BY <1>2 DEF RemovePeer, RemoveArtifacts, RemoveDirectory, Goto
    <2> DEFINE p == [run[t] EXCEPT !.stage = stage]
    <2>2. run'[t] = p /\ p.stage = stage /\ p.disposition = run[t].disposition
      BY <1>0, <2>1 DEF Process
    <2>3. survivors' \subseteq survivors \union {files'}
      BY <1>2 DEF RemovePeer, RemoveArtifacts, RemoveDirectory, Change
    <2>4. /\ files'.target = files.target
          /\ files'.peer[t] \in {Missing, files.peer[t]}
          /\ \A u \in Transactions \ {t} : files'.peer[u] = files.peer[u]
      <3>1. CASE RemovePeer(t)
        BY <1>0, <3>1 DEF RemovePeer, Change, Files
      <3>2. CASE RemoveArtifacts(t)
        BY <1>0, <3>2 DEF RemoveArtifacts, Change, Files
      <3>3. CASE RemoveDirectory(t)
        BY <1>0, <3>3 DEF RemoveDirectory, Files
      <3>4. QED
        BY <1>2, <3>1, <3>2, <3>3
    <2>5. Carried(t) /\ (Elsewhere(files', t) => Elsewhere(files, t))
      BY <2>4, FewerTraces
    <2>6. ClosedOut(p) => ClosedOut(run[t])
      BY <1>2, <2>2 DEF RemovePeer, RemoveArtifacts, RemoveDirectory, ClosedOut, Closing
    <2>7. ClosedOut(p) => \A f \in survivors' : ~Elsewhere(f, t)
      BY <1>0, <2>3, <2>5, <2>6 DEF Traces
    <2>8. ~BeforeExchange(p) /\ p.stage # "reversing" /\ ~TakenBack(p)
      BY <2>2 DEF BeforeExchange, TakenBack
    <2>9. Traces(t)'
      BY <2>2, <2>7, <2>8 DEF Traces, Elsewhere
    <2>10. QED
      BY <2>1, <2>3, <2>5, <2>9, StepTraces
  <1>3. QED
    BY <1>1, <1>2 DEF Close

(* Recovery goes on with the way back, or closes a run whose candidate it  *)
(* has found in its directory.                                             *)
LEMMA RecoverTraces ==
  ASSUME TraceInv, PlaceInv', NEW t \in Transactions, Recover(t) \/ Stop(t)
  PROVE  TraceInv'
  <1> USE DEF At, Only, UnchangedWorld, UnchangedFiles, UnchangedBytes
  <1>0. /\ run \in [Transactions -> Process] /\ run[t] \in Process /\ Once(files)
        /\ base[t] \in Entry
    BY TraceTypes
  <1>1. UNCHANGED <<files, survivors>>
    BY DEF Recover, Reopen, recoverGuardedInstallTransaction, Stop
  <1>2. ASSUME NEW p, run' = [run EXCEPT ![t] = p],
               \/ p.stage \in {"reopening", "down", "rollback"}
               \/ p.stage = "writing" /\ p.next.state = "exchanged"
               \/ p.stage \in {"settled", "swapped_back", "backward"} /\ PeerIsCandidate(t)
        PROVE  TraceInv'
    <2>1. PeerIsCandidate(t) => ~Elsewhere(files, t)
      BY <1>0, CandidateType, AtHome DEF PeerIsCandidate
    <2>2. ~BeforeExchange(p) /\ p.stage # "reversing" /\ ~ClosedOut(p)
      BY <1>2 DEF BeforeExchange, ClosedOut, Closing
    <2>3. TakenBack(p) => ~Elsewhere(files, t)
      BY <1>2, <2>1 DEF TakenBack
    <2>4. QED
      BY <1>1, <1>2, <2>2, <2>3, QuietTraces
  <1>3. CASE Reopen(t) \/ Stop(t)
    <2>1. PICK p \in {[NewProcess EXCEPT !.stage = "reopening", !.recovering = TRUE],
                      [NewProcess EXCEPT !.stage = "down"]} : run' = [run EXCEPT ![t] = p]
      BY <1>3 DEF Reopen, Stop
    <2>2. p.stage \in {"reopening", "down"}
      BY <2>1 DEF NewProcess
    <2>3. QED
      BY <1>2, <2>1, <2>2
  <1>4. CASE recoverGuardedInstallTransaction(t)
    <2>1. PICK slot \in Decoded(slots[t]) :
            \/ /\ PeerIsCandidate(t)
               /\ \E stage \in {"settled", "swapped_back", "backward"},
                     d \in {"unchanged", "restored"} : Resume(t, slot, stage, d)
            \/ Resume(t, slot, "rollback", "installed")
            \/ WriteSlot(t, [Load(t, slot) EXCEPT !.disposition = "installed"],
                         [state |-> "exchanged", displaced |-> files.peer[t]])
      BY <1>4 DEF recoverGuardedInstallTransaction, BackInPlace
    <2>2. ASSUME NEW stage \in {"settled", "swapped_back", "backward", "rollback"}, NEW d,
                 Resume(t, slot, stage, d), stage # "rollback" => PeerIsCandidate(t)
          PROVE  TraceInv'
      <3> DEFINE p == [Load(t, slot) EXCEPT !.stage = stage, !.disposition = d]
      <3>1. run' = [run EXCEPT ![t] = p]
        BY <2>2 DEF Resume
      <3>2. p.stage = stage
        BY <1>0 DEF Load, Process
      <3>3. QED
        BY <1>2, <2>2, <3>1, <3>2
    <2>3. ASSUME WriteSlot(t, [Load(t, slot) EXCEPT !.disposition = "installed"],
                           [state |-> "exchanged", displaced |-> files.peer[t]])
          PROVE  TraceInv'
      <3> DEFINE next == [state |-> "exchanged", displaced |-> files.peer[t]]
                 q == [Load(t, slot) EXCEPT !.disposition = "installed"]
                 p == [q EXCEPT !.stage = "writing", !.next = next]
      <3>1. run' = [run EXCEPT ![t] = p]
        BY <2>3 DEF WriteSlot
      <3>2. p.stage = "writing" /\ p.next.state = "exchanged"
        BY <1>0 DEF Load, Process
      <3> HIDE DEF p
      <3>3. QED
        BY <1>2, <3>1, <3>2
    <2>4. QED
      BY <2>1, <2>2, <2>3
  <1>5. QED
    BY <1>3, <1>4 DEF Recover

LEMMA PowerLossTraces ==
  ASSUME TraceInv, PlaceInv', PowerLoss
  PROVE  TraceInv'
  <1>0. run \in [Transactions -> Process] /\ PlaceInv
    BY KeptTypes DEF TraceInv, PlaceInv
  <1>1. PICK f \in survivors : files' = f /\ survivors' = {f}
    BY DEF PowerLoss
  <1>2. ASSUME NEW u \in Transactions PROVE Traces(u)'
    <2>1. run'[u].stage \in {"down", "idle"}
      BY <1>0 DEF PowerLoss, At, NewProcess
    <2>2. QED
      BY <2>1 DEF Traces, BeforeExchange, TakenBack, ClosedOut, Closing
  <1>3. QED
    BY <1>1, <1>2 DEF TraceInv, Once, OutOfPeers

LEMMA UserTraces ==
  ASSUME TraceInv, PlaceInv', UserSave \/ UserRemove
  PROVE  TraceInv'
  <1>0. files \in survivors /\ files \in Files /\ Once(files)
    BY PlaceTypes, KeptTypes DEF TraceInv, PlaceInv, KeptInv, TypeInv, TypeOK
  <1>1. PICK e : UserEdit(e) /\ (e = Missing \/
                 \E link \in BOOLEAN : e = [by |-> User, save |-> saves + 1, link |-> link])
    BY DEF UserSave, UserRemove
  <1> DEFINE g == [files EXCEPT !.target = e, !.newest = e.save]
  <1>2. /\ files' = g /\ survivors' = survivors \union {g} /\ UNCHANGED <<base, run>>
    BY <1>1 DEF UserEdit, Change, UnchangedBytes
  <1>3. g.target = e /\ g.peer = files.peer
    BY <1>0 DEF Files
  <1>4. \A u \in Transactions : e.by # u
    BY <1>1, EntryFacts DEF Missing
  <1>5. Once(g)
    BY <1>0, <1>3, <1>4 DEF Once, OutOfPeers
  <1>6. ASSUME NEW u \in Transactions PROVE Traces(u)'
    <2>1. Traces(u) /\ (Elsewhere(g, u) => Elsewhere(files, u))
      BY <1>3, <1>4 DEF TraceInv, Elsewhere
    <2>2. OutOfPeers(files, u) => OutOfPeers(g, u)
      BY <1>3 DEF OutOfPeers
    <2>3. QED
      BY <1>0, <1>2, <1>3, <2>1, <2>2 DEF Traces, OutOfPeers, Elsewhere
  <1>7. QED
    BY <1>2, <1>5, <1>6 DEF TraceInv, Once, OutOfPeers

LEMMA TraceNext == TraceInv /\ [Next]_vars => TraceInv'
  <1> SUFFICES ASSUME TraceInv, [Next]_vars PROVE TraceInv'
    OBVIOUS
  <1>0. PlaceInv'
    BY PlaceNext DEF TraceInv
  <1>1. CASE UNCHANGED vars
    <2>1. UNCHANGED <<files, survivors, run>>
      BY <1>1 DEF vars
    <2>2. QED
      BY <1>0, <2>1 DEF TraceInv, Traces, Once, OutOfPeers, Elsewhere
  <1>2. ASSUME NEW t \in Transactions,
               Prepare(t) \/ Journal(t) \/ promote(t) \/ WayBack(t) \/ Close(t) \/ Recover(t)
               \/ Stop(t)
        PROVE  TraceInv'
    BY <1>0, <1>2, PrepareTraces, JournalTraces, PromoteTraces, WayBackTraces, CloseTraces,
       RecoverTraces
  <1>3. CASE PowerLoss
    BY <1>0, <1>3, PowerLossTraces
  <1>4. CASE UserSave \/ UserRemove
    BY <1>0, <1>4, UserTraces
  <1>5. QED
    BY <1>1, <1>2, <1>3, <1>4 DEF Next

(* A run that ends without having installed leaves no trace: when it       *)
(* settles, its candidate is not the startup file, whatever the user saved *)
(* in between, and once it is closed no power loss brings it back.         *)
THEOREM RefusedLeavesNoTrace == Spec => []NoTraceLeft
  <1>1. TraceInv => NoTraceLeft
    <2> SUFFICES ASSUME TraceInv, NEW t \in Transactions, run[t].disposition # "installed"
                 PROVE  /\ At(t, "settled") => files.target.by # t
                        /\ run[t].stage \in Closing => \A f \in survivors : f.target.by # t
      BY DEF NoTraceLeft
    <2>1. Traces(t)
      BY DEF TraceInv
    <2>2. At(t, "settled") => TakenBack(run[t])
      BY DEF At, TakenBack
    <2>3. QED
      BY <2>1, <2>2 DEF Traces, ClosedOut, Elsewhere
  <1>2. QED
    BY <1>1, InitialTrace, TraceNext, PTL DEF Spec

================================================================================
