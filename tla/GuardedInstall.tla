----------------------------- MODULE GuardedInstall ----------------------------
(***************************************************************************)
(* The guarded replacement of the startup file (core/cli/                  *)
(* install_transaction.go), one system call at a time.  A run captures the *)
(* file before it has the lock, stages a candidate in a directory of its   *)
(* own, and exchanges the two in one rename; a two-slot journal records    *)
(* how far it came, so that a later process can put the user's entry back  *)
(* or leave everything where it is.  The user edits the file meanwhile,    *)
(* without the lock.  Any call may fail, a process may be killed between   *)
(* any two calls, and the machine may lose power.                          *)
(*                                                                         *)
(* Data.  An entry is who made it and the number of the user's save it     *)
(* carries: a candidate carries the save it was rendered from.  The        *)
(* evidence the code compares (device, inode, digest, mode, owner) is      *)
(* equality of entries.  Directory operations reach the disk in order, so  *)
(* every set of directories since the last sync of one may survive a power *)
(* loss; the bytes of a file are safe only once the file is synced.        *)
(*                                                                         *)
(* Left out: a startup file that is itself reached through a symbolic      *)
(* link, and the checks that nobody replaced the parent, the private       *)
(* directory or the lock file under the program: nobody does.              *)
(***************************************************************************)
EXTENDS Naturals, FiniteSets

CONSTANTS
  Transactions, \* runs of the tool, each with a transaction directory of its own
  User,         \* maker of the user's entries
  Nobody,       \* maker of the entry that is not there
  Free,         \* holder of the lock when nobody holds it
  MaxSaves,     \* bound of the exploration: saves and removals by the user
  MaxStops      \* bound of the exploration: refusals, deaths and power losses

ASSUME InstallAssumption ==
  /\ User \notin Transactions
  /\ Nobody \notin Transactions \union {User}
  /\ Free \notin Transactions
  /\ MaxSaves \in Nat \ {0} /\ MaxStops \in Nat

VARIABLES
  files,      \* target, newest save, and per transaction its directory and its peer
  survivors,  \* the same, as a power loss may leave them
  candidate,  \* transaction -> bytes of the candidate file
  slots,      \* transaction -> the two slots of its journal
  base,       \* transaction -> the entry it captured (expectedTarget)
  run,        \* transaction -> the process at work on it
  lock,       \* holder of the flock on the lock file
  saves,      \* how often the user has written or removed the file
  stops       \* how often a process gave up or died, or the machine lost power

vars == <<files, survivors, candidate, slots, base, run, lock, saves, stops>>

Entry == [by : Transactions \union {User, Nobody}, save : 0 .. MaxSaves, link : BOOLEAN]
Missing == [by |-> Nobody, save |-> 0, link |-> FALSE]
Candidate(t) == [by |-> t, save |-> base[t].save, link |-> FALSE]

Directories == {"absent", "open", "journaled", "stripped"}
Files == [target : Entry, newest : 0 .. MaxSaves,
          directory : [Transactions -> Directories], peer : [Transactions -> Entry]]

States == {"prepared", "exchanged", "created", "reversed", "parent_synced", "finalized"}
Displaced(state) ==
  CASE state \in {"prepared", "created"} -> {Missing}
    [] state \in {"exchanged", "reversed"} -> Entry \ {Missing}
    [] OTHER -> Entry
Record == {r \in [state : States, displaced : Entry] : r.displaced \in Displaced(r.state)}
Prepared == [state |-> "prepared", displaced |-> Missing]

Contents == {"torn", "unsynced", "whole"}
MaxGeneration == 5
Slot == [generation : 0 .. MaxGeneration, record : Record, contents : Contents]
EmptySlot == [generation |-> 0, record |-> Prepared, contents |-> "torn"]

Stages == {"idle", "captured", "locked", "staged", "synced", "evidenced", "writing", "recorded",
           "prepared", "checked", "swapped", "forward", "reverse", "rollback", "reversing",
           "swapped_back", "backward", "settled", "closing", "stripping", "stripped",
           "done", "down", "reopening", "reopened"}
Dispositions == {"unchanged", "installed", "restored"}
Process == [stage : Stages, disposition : Dispositions, recovering : BOOLEAN,
            record : Record, generation : 0 .. MaxGeneration, next : Record]
NewProcess == [stage |-> "idle", disposition |-> "unchanged", recovering |-> FALSE,
               record |-> Prepared, generation |-> 0, next |-> Prepared]

Init ==
  /\ \E target \in {Missing, [by |-> User, save |-> 1, link |-> FALSE]} :
        /\ files = [target |-> target, newest |-> target.save,
                    directory |-> [t \in Transactions |-> "absent"],
                    peer |-> [t \in Transactions |-> Missing]]
        /\ saves = target.save
  /\ survivors = {files}
  /\ candidate = [t \in Transactions |-> "torn"]
  /\ slots = [t \in Transactions |-> [i \in 1 .. 2 |-> EmptySlot]]
  /\ base = [t \in Transactions |-> Missing]
  /\ run = [t \in Transactions |-> NewProcess]
  /\ lock = Free
  /\ stops = 0

At(t, stage) == run[t].stage = stage
Goto(t, stage) == run' = [run EXCEPT ![t].stage = stage]
Settled(t, disposition) ==
  run' = [run EXCEPT ![t].stage = "settled", ![t].disposition = disposition]

(* One directory operation, and a successful sync of a directory.          *)
Change(f) == files' = f /\ survivors' = survivors \union {f}
SyncDirectory == survivors' = {files} /\ UNCHANGED files

UnchangedFiles == UNCHANGED <<files, survivors>>
UnchangedBytes == UNCHANGED <<candidate, slots>>
UnchangedWorld == UNCHANGED <<saves, stops>>
Only(t) == UNCHANGED <<base, lock>> /\ UnchangedWorld

--------------------------------------------------------------------------------
(* The journal.                                                            *)

validInstallPromotionJournalTransition(previous, next) ==
  /\ next.displaced \in Displaced(next.state)
  /\ \/ /\ previous.state = "prepared"
        /\ next.state \in {"exchanged", "created", "finalized"}
        /\ (next.state = "exchanged") = (next.displaced # Missing)
     \/ previous.state = "exchanged" /\ next.state \in {"parent_synced", "reversed"}
     \/ previous.state = "created" /\ next.state = "parent_synced"
     \/ previous.state = "parent_synced" /\ next.state \in {"reversed", "finalized"}
     \/ previous.state = "reversed" /\ next.state = "finalized"
  /\ previous.state # "prepared" => next.displaced = previous.displaced

(* The slots that decode, and the records the journal may stand for: one,  *)
(* or none when two slots decode that do not follow each other.            *)
Valid(pair) == {pair[i] : i \in {j \in 1 .. 2 : pair[j].contents # "torn"}}
Follows(previous, next) ==
  /\ next.generation = previous.generation + 1
  /\ validInstallPromotionJournalTransition(previous.record, next.record)
Decoded(pair) ==
  {slot \in Valid(pair) : \A other \in Valid(pair) : other = slot \/ Follows(other, slot)}

(* What a power loss makes of a file.                                      *)
Survives(contents) == IF contents = "unsynced" THEN {"torn", "whole"} ELSE {contents}
Torn(pair) ==
  {[i \in 1 .. 2 |-> [pair[i] EXCEPT !.contents = c[i]]] :
     c \in {d \in [1 .. 2 -> Contents] : \A i \in 1 .. 2 : d[i] \in Survives(pair[i].contents)}}

(* authenticateJournalAndEvidence, given the record the process holds: the *)
(* artifacts are there, and the target is of the kind the record allows.   *)
Exists(e) == e # Missing
Regular(e) == Exists(e) /\ ~e.link

Topology(t, record) ==
  CASE record.state = "reversed" -> files.target = record.displaced
    [] record.state # "reversed" /\ Exists(base[t]) ->
         \/ Regular(files.target)
         \/ record.state = "exchanged" /\ files.target = record.displaced
    [] record.state = "prepared" /\ ~Exists(base[t]) -> ~files.target.link
    [] OTHER -> Regular(files.target)

Authentic(t) ==
  /\ files.directory[t] = "journaled"
  /\ \E slot \in Decoded(slots[t]) :
        slot.generation = run[t].generation /\ slot.record = run[t].record
  /\ Topology(t, run[t].record)

(* Mutation: every record is written over the one before it.               *)
OnlySlot(generation) == 1

SlotOf(generation) == IF generation % 2 = 1 THEN 1 ELSE 2

WriteSlot(t, process, record) ==
  /\ slots' = [slots EXCEPT ![t][SlotOf(process.generation + 1)] =
                 [generation |-> process.generation + 1, record |-> record, contents |-> "unsynced"]]
  /\ run' = [run EXCEPT ![t] = [process EXCEPT !.stage = "writing", !.next = record]]

(* writeJournalTransition, as far as the write.                            *)
WriteJournal(t, record) ==
  /\ Authentic(t)
  /\ validInstallPromotionJournalTransition(run[t].record, record)
  /\ WriteSlot(t, run[t], record)

SyncJournal(t) ==
  /\ At(t, "writing")
  /\ slots' = [slots EXCEPT ![t] = [i \in 1 .. 2 |->
                 IF @[i].contents = "unsynced" THEN [@[i] EXCEPT !.contents = "whole"] ELSE @[i]]]
  /\ run' = [run EXCEPT ![t].stage = "recorded", ![t].record = run[t].next,
                        ![t].generation = @ + 1]
  /\ UnchangedFiles /\ Only(t) /\ UNCHANGED candidate

(* Mutation: what the rename displaced is not compared with the capture.   *)
CandidateAssumed(t) == TRUE

(* Where each caller of writeJournalTransition goes on.                    *)
CandidateDerives(t) == run[t].record.displaced = base[t]

After(t) ==
  CASE run[t].record.state = "prepared" -> "prepared"
    [] run[t].record.state = "exchanged" ->
         IF run[t].recovering THEN "rollback"
         ELSE IF CandidateDerives(t) THEN "forward" ELSE "reverse"
    [] run[t].record.state = "created" -> "forward"
    [] run[t].record.state = "parent_synced" -> "settled"
    [] run[t].record.state = "reversed" -> "backward"
    [] run[t].record.state = "finalized" -> "closing"

SyncJournalDirectory(t) ==
  /\ At(t, "recorded")
  /\ SyncDirectory
  /\ run' = [run EXCEPT ![t].stage = After(t),
               ![t].disposition = IF run[t].record.state = "parent_synced" THEN "installed" ELSE @]
  /\ UnchangedBytes /\ Only(t)

--------------------------------------------------------------------------------
(* Capture, lock and preparation.                                          *)

captureInstallSnapshot(t) ==
  /\ At(t, "idle")
  /\ ~files.target.link
  /\ base' = [base EXCEPT ![t] = files.target]
  /\ Goto(t, "captured")
  /\ UnchangedFiles /\ UnchangedBytes /\ UnchangedWorld /\ UNCHANGED lock

(* Waiting for the lock may also end at its limit: Stop.                   *)
openTargetTransactionGuard(t) ==
  /\ \/ At(t, "captured") /\ Goto(t, "locked")
     \/ At(t, "reopening") /\ Goto(t, "reopened")
  /\ lock = Free
  /\ lock' = t
  /\ UnchangedFiles /\ UnchangedBytes /\ UnchangedWorld /\ UNCHANGED base

StageCandidate(t) ==
  /\ At(t, "locked")
  /\ Change([files EXCEPT !.directory[t] = "open", !.peer[t] = Candidate(t)])
  /\ candidate' = [candidate EXCEPT ![t] = "unsynced"]
  /\ Goto(t, "staged")
  /\ Only(t) /\ UNCHANGED slots

(* Mutation: the candidate is written and not synced.                      *)
SkipCandidateSync(t) ==
  /\ At(t, "staged")
  /\ Goto(t, "synced")
  /\ UnchangedFiles /\ Only(t) /\ UnchangedBytes

SyncCandidate(t) ==
  /\ At(t, "staged")
  /\ candidate' = [candidate EXCEPT ![t] = "whole"]
  /\ Goto(t, "synced")
  /\ UnchangedFiles /\ Only(t) /\ UNCHANGED slots

(* The evidence of the candidate is written and synced with its directory. *)
SyncArtifacts(t) ==
  /\ At(t, "synced")
  /\ SyncDirectory
  /\ Goto(t, "evidenced")
  /\ UnchangedBytes /\ Only(t)

createPreparedJournal(t) ==
  /\ At(t, "evidenced")
  /\ Change([files EXCEPT !.directory[t] = "journaled"])
  /\ WriteSlot(t, run[t], Prepared)
  /\ Only(t) /\ UNCHANGED candidate

--------------------------------------------------------------------------------
(* promote.                                                                *)

CheckTarget(t) ==
  /\ At(t, "prepared")
  /\ Authentic(t)
  /\ IF files.target = base[t] THEN Goto(t, "checked") ELSE Settled(t, "unchanged")
  /\ UnchangedFiles /\ UnchangedBytes /\ Only(t)

(* Mutation: a rename that replaces what is there.                         *)
ReplacedBy(t) == [files EXCEPT !.target = files.peer[t], !.peer[t] = Missing]

(* The two renames the file system offers: exchange, which needs both      *)
(* entries, and the one that refuses to replace.                           *)
Exchanged(t) == [files EXCEPT !.target = files.peer[t], !.peer[t] = files.target]

Promote(t) ==
  /\ At(t, "checked")
  /\ Exists(base[t]) = Exists(files.target)
  /\ Change(Exchanged(t))
  /\ Goto(t, "swapped")
  /\ UnchangedBytes /\ Only(t)

(* EEXIST, or a file system that cannot: nothing was changed.              *)
PromoteRefused(t) ==
  /\ At(t, "checked")
  /\ Settled(t, "unchanged")
  /\ UnchangedFiles /\ UnchangedBytes /\ Only(t)

RecordPromotion(t) ==
  /\ At(t, "swapped")
  /\ files.target = Candidate(t)
  /\ Exists(base[t]) = Exists(files.peer[t])
  /\ WriteJournal(t, [state |-> IF Exists(base[t]) THEN "exchanged" ELSE "created",
                      displaced |-> files.peer[t]])
  /\ UnchangedFiles /\ Only(t) /\ UNCHANGED candidate

SyncForward(t) ==
  /\ At(t, "forward")
  /\ SyncDirectory
  /\ WriteJournal(t, [run[t].record EXCEPT !.state = "parent_synced"])
  /\ Only(t) /\ UNCHANGED candidate

--------------------------------------------------------------------------------
(* The way back: a late substitution, rollback by the caller, recovery.    *)

InPlace(t) == files.target = Candidate(t) /\ files.peer[t] = run[t].record.displaced

reverseLateSubstitution(t) ==
  /\ At(t, "reverse")
  /\ InPlace(t)
  /\ Goto(t, "reversing")
  /\ UnchangedFiles /\ UnchangedBytes /\ Only(t)

rollback(t) ==
  /\ \/ At(t, "rollback")
     \/ At(t, "settled") /\ run[t].disposition = "installed"
  /\ Exists(base[t])
  /\ Authentic(t)
  /\ InPlace(t)
  /\ Goto(t, "reversing")
  /\ UnchangedFiles /\ UnchangedBytes /\ Only(t)

(* Mutation: a rename back that was refused is taken for done.             *)
ReverseUnchecked(t) ==
  /\ At(t, "reversing")
  /\ Exists(files.target)
  /\ Change(Exchanged(t)) \/ UnchangedFiles
  /\ Goto(t, "swapped_back")
  /\ UnchangedBytes /\ Only(t)

Reverse(t) ==
  /\ At(t, "reversing")
  /\ Exists(files.target)
  /\ Change(Exchanged(t))
  /\ Goto(t, "swapped_back")
  /\ UnchangedBytes /\ Only(t)

RecordReversal(t) ==
  /\ At(t, "swapped_back")
  /\ WriteJournal(t, [run[t].record EXCEPT !.state = "reversed"])
  /\ UnchangedFiles /\ Only(t) /\ UNCHANGED candidate

SyncBackward(t) ==
  /\ At(t, "backward")
  /\ SyncDirectory
  /\ Settled(t, "restored")
  /\ UnchangedBytes /\ Only(t)

--------------------------------------------------------------------------------
(* finalize.                                                               *)

finalize(t) ==
  /\ At(t, "settled")
  /\ WriteJournal(t, [run[t].record EXCEPT !.state = "finalized"])
  /\ UnchangedFiles /\ Only(t) /\ UNCHANGED candidate

Disposable(t) ==
  IF run[t].disposition = "installed" /\ Exists(run[t].record.displaced)
  THEN run[t].record.displaced
  ELSE Candidate(t)

(* Mutation: the peer is removed whatever it is.                           *)
RemoveAnyPeer(t) ==
  /\ At(t, "closing")
  /\ Change([files EXCEPT !.peer[t] = Missing])
  /\ Goto(t, "stripping")
  /\ UnchangedBytes /\ Only(t)

RemovePeer(t) ==
  /\ At(t, "closing")
  /\ files.peer[t] \in {Missing, Disposable(t)}
  /\ Change([files EXCEPT !.peer[t] = Missing])
  /\ Goto(t, "stripping")
  /\ UnchangedBytes /\ Only(t)

RemoveArtifacts(t) ==
  /\ At(t, "stripping")
  /\ Change([files EXCEPT !.directory[t] = "stripped"])
  /\ Goto(t, "stripped")
  /\ UnchangedBytes /\ Only(t)

(* The directory goes, the namespace is synced, and the lock is released.  *)
RemoveDirectory(t) ==
  /\ At(t, "stripped")
  /\ files' = [files EXCEPT !.directory[t] = "absent", !.peer[t] = Missing]
  /\ survivors' = {files'}
  /\ Goto(t, "done")
  /\ lock' = Free
  /\ UnchangedBytes /\ UnchangedWorld /\ UNCHANGED base

--------------------------------------------------------------------------------
(* recoverGuardedInstallTransaction: another process, given the target and *)
(* the name of the directory, trusts only what it finds there.             *)

Reopen(t) ==
  /\ At(t, "down")
  /\ files.directory[t] # "absent"
  /\ run' = [run EXCEPT ![t] = [NewProcess EXCEPT !.stage = "reopening", !.recovering = TRUE]]
  /\ UnchangedFiles /\ UnchangedBytes /\ Only(t)

Load(t, slot) == 
  [run[t] EXCEPT !.record = slot.record, !.generation = slot.generation]
Resume(t, slot, stage, disposition) ==
  /\ run' = [run EXCEPT ![t] =
               [Load(t, slot) EXCEPT !.stage = stage, !.disposition = disposition]]
  /\ UNCHANGED slots

PeerIsCandidate(t) == files.peer[t] = Candidate(t)
BackInPlace(t, record) ==
  Exists(record.displaced) /\ files.target = record.displaced /\ PeerIsCandidate(t)

(* Every case that is not listed retains the directory: Stop.              *)
recoverGuardedInstallTransaction(t) ==
  /\ At(t, "reopened")
  /\ files.directory[t] = "journaled"
  /\ \E slot \in Decoded(slots[t]) :
        LET record == slot.record IN
        /\ Topology(t, record)
        /\ \/ /\ ~Exists(base[t]) /\ ~Exists(files.target) /\ PeerIsCandidate(t)
              /\ Resume(t, slot, "settled", "unchanged")
           \/ /\ Exists(base[t]) /\ BackInPlace(t, record)
              /\ \/ record.state = "exchanged" /\ Resume(t, slot, "swapped_back", "unchanged")
                 \/ record.state = "reversed" /\ Resume(t, slot, "backward", "unchanged")
           \/ /\ Exists(base[t]) /\ ~BackInPlace(t, record)
              /\ files.target = base[t] /\ PeerIsCandidate(t)
              /\ Resume(t, slot, "settled", "restored")
           \/ /\ Exists(base[t]) /\ files.target = Candidate(t) /\ Exists(files.peer[t])
              /\ files.peer[t] = record.displaced
              /\ Resume(t, slot, "rollback", "installed")
           \/ /\ Exists(base[t]) /\ files.target = Candidate(t) /\ Exists(files.peer[t])
              /\ ~Exists(record.displaced)
              /\ record.state = "prepared"
              /\ WriteSlot(t, [Load(t, slot) EXCEPT !.disposition = "installed"],
                           [state |-> "exchanged", displaced |-> files.peer[t]])
  /\ UnchangedFiles /\ Only(t) /\ UNCHANGED candidate

--------------------------------------------------------------------------------
(* The rest of the world.                                                  *)

Interrupted ==
  /\ stops < MaxStops
  /\ stops' = stops + 1

(* An error path that keeps the directory, or the death of the process.    *)
Stop(t) ==
  /\ Interrupted
  /\ run[t].stage \notin {"idle", "down", "done"}
  /\ run' = [run EXCEPT ![t] = [NewProcess EXCEPT !.stage = "down"]]
  /\ lock' = IF lock = t THEN Free ELSE lock
  /\ UnchangedFiles /\ UnchangedBytes /\ UNCHANGED <<base, saves>>

PowerLoss ==
  /\ Interrupted
  /\ \E f \in survivors : files' = f /\ survivors' = {f}
  /\ candidate' \in {c \in [Transactions -> Contents] :
                       \A t \in Transactions : c[t] \in Survives(candidate[t])}
  /\ slots' \in {s \in [Transactions -> UNION {Torn(slots[t]) : t \in Transactions}] :
                   \A t \in Transactions : s[t] \in Torn(slots[t])}
  /\ run' = [t \in Transactions |->
               IF At(t, "idle") THEN run[t] ELSE [NewProcess EXCEPT !.stage = "down"]]
  /\ lock' = Free
  /\ UNCHANGED <<base, saves>>

UserEdit(e) ==
  /\ saves < MaxSaves
  /\ saves' = saves + 1
  /\ e # files.target
  /\ Change([files EXCEPT !.target = e, !.newest = e.save])
  /\ UnchangedBytes /\ UNCHANGED <<base, run, lock, stops>>

UserSave == \E link \in BOOLEAN : UserEdit([by |-> User, save |-> saves + 1, link |-> link])
UserRemove == UserEdit(Missing)

Prepare(t) ==
  captureInstallSnapshot(t) \/ openTargetTransactionGuard(t) \/ StageCandidate(t)
  \/ SyncCandidate(t) \/ SyncArtifacts(t) \/ createPreparedJournal(t)
Journal(t) == SyncJournal(t) \/ SyncJournalDirectory(t)
promote(t) ==
  CheckTarget(t) \/ Promote(t) \/ PromoteRefused(t) \/ RecordPromotion(t) \/ SyncForward(t)
WayBack(t) ==
  reverseLateSubstitution(t) \/ rollback(t) \/ Reverse(t) \/ RecordReversal(t) \/ SyncBackward(t)
Close(t) == finalize(t) \/ RemovePeer(t) \/ RemoveArtifacts(t) \/ RemoveDirectory(t)
Recover(t) == Reopen(t) \/ recoverGuardedInstallTransaction(t)

Next ==
  \/ \E t \in Transactions :
        Prepare(t) \/ Journal(t) \/ promote(t) \/ WayBack(t) \/ Close(t) \/ Recover(t) \/ Stop(t)
  \/ PowerLoss
  \/ UserSave
  \/ UserRemove

Spec == Init /\ [][Next]_vars

--------------------------------------------------------------------------------
(* Properties.                                                             *)

(* A process holds the lock from the moment it has it to its end.          *)
Working == Stages \ {"idle", "captured", "reopening", "down", "done"}
TypeOK ==
  /\ \A t \in Transactions : (lock = t) = (run[t].stage \in Working)
  /\ files \in Files
  /\ survivors \subseteq Files /\ files \in survivors
  /\ candidate \in [Transactions -> Contents]
  /\ slots \in [Transactions -> [1 .. 2 -> Slot]]
  /\ base \in [Transactions -> Entry]
  /\ run \in [Transactions -> Process]
  /\ lock \in Transactions \union {Free}
  /\ saves \in 0 .. MaxSaves
  /\ stops \in 0 .. MaxStops

(* Whatever survives, the user's newest save is in the startup file or in  *)
(* a transaction directory that is still there: an edit that races with    *)
(* the rename, the rollback or the recovery is never destroyed.            *)
Carries(f, save) ==
  \/ f.target.save = save
  \/ \E t \in Transactions : f.directory[t] # "absent" /\ f.peer[t].save = save
NewestSaveKept == \A f \in survivors : f.newest # 0 => Carries(f, f.newest)

(* Whatever survives, a shell that starts reads a complete candidate or    *)
(* the user's own file.                                                    *)
CandidateWhole ==
  \A f \in survivors : \A t \in Transactions : f.target.by = t => candidate[t] = "whole"

(* As long as a directory holds something other than its own candidate, it *)
(* holds its journal too, and the journal decodes after any power loss     *)
(* that tears one slot: the record being written never takes the one       *)
(* before it along.                                                        *)
Foreign(f, t) == f.peer[t].by \notin {t, Nobody}
BothUnsynced(pair) ==
  \A i \in 1 .. 2 : pair[i].generation > 0 /\ pair[i].contents # "whole"
DisplacedIsJournaled ==
  \A f \in survivors : \A t \in Transactions :
    Foreign(f, t) =>
      /\ f.directory[t] = "journaled"
      /\ BothUnsynced(slots[t]) \/ \A pair \in Torn(slots[t]) : Decoded(pair) # {}

(* A run reports Installed only when what it displaced is what it rendered *)
(* its candidate from, and no power loss takes the exchange back.          *)
InstalledIsDurable ==
  \A t \in Transactions :
    At(t, "settled") /\ run[t].disposition = "installed" =>
      \A f \in survivors : f.peer[t] = base[t]

(* A run that ends without having installed leaves no trace: its candidate *)
(* is not the startup file when the run settles, nor after a power loss    *)
(* once it is closed.  The callers rely on it: `install` and `ingest` then *)
(* take the loader away which that candidate sources.                      *)
Closing == {"closing", "stripping", "stripped", "done"}
NoTraceLeft ==
  \A t \in Transactions : run[t].disposition # "installed" =>
    /\ At(t, "settled") => files.target.by # t
    /\ run[t].stage \in Closing => \A f \in survivors : f.target.by # t

(* The file and the private directories implement the abstract promise:    *)
(* entries move by exchange, and the newest save is never discarded.       *)
Aside(f) == {f.peer[t] : t \in {u \in Transactions : Exists(f.peer[u])}}
Abstract(f) == [target |-> f.target, aside |-> Aside(f), newest |-> f.newest]
File == INSTANCE StartupFile WITH
  Entries <- Entry, Nothing <- Missing,
  file <- Abstract(files), survivors <- {Abstract(f) : f \in survivors}
ImplementsStartupFile == File!Spec
===============================================================================
