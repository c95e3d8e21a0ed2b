------------------------------- MODULE StateStore ------------------------------
(***************************************************************************)
(* StateStore.WithTransaction of core/worktree/atomic_unix.go, one system  *)
(* call at a time: the advisory lock, the replacement of worktree.json by  *)
(* a synced temporary, the forensic append, and the recovered-persistence  *)
(* marker that keeps the evidence of a failed append until a canonical     *)
(* generation shows it.  Any call may fail, a process may be killed        *)
(* between any two calls, and the machine may lose power.                  *)
(*                                                                         *)
(* The directory as the calls show it and the directories a power loss may *)
(* leave are kept apart.  Operations on one directory reach the disk in    *)
(* order (the file systems the program runs on journal them), so each      *)
(* directory since the last successful sync of it is a possible survivor.  *)
(* The bytes of a file are safe only once the file is synced.              *)
(*                                                                         *)
(* Data.  A generation is the list of the transactions that wrote it and   *)
(* its predecessors, whether it has shells, and whether all of them carry  *)
(* LastRecoveredError.  What the callback does to the rest is Worktree's   *)
(* business.  The checks that nobody replaced the root or the lock file    *)
(* under the program are left out: nobody does.                            *)
(***************************************************************************)
EXTENDS Naturals, Sequences, FiniteSets

CONSTANTS
  Clients,       \* operations that open the store, each its own descriptor
  Timed,         \* those with a deadline: the hook's requests, not the user's commands
  Free,          \* the lock's holder when nobody holds it
  MaxGenerations \* bound of the exploration: generations written

ASSUME StoreAssumption == 
  Timed \subseteq Clients /\ Free \notin Clients /\ MaxGenerations \in Nat

VARIABLES
  directory,  \* the state root as system calls show it
  survivors,  \* the state roots a power loss may leave
  lock,       \* holder of the flock on worktree.lock
  txn,        \* client -> its transaction in progress
  acked,      \* history: length of the last generation reported as written
  owed        \* history: that of the last one reported with its append failed

vars == <<directory, survivors, lock, txn, acked, owed>>

(* shown is history: the length of the last generation up to this one in   *)
(* which every shell carried RecoveredPersistence.                         *)
State == {s \in [lineage : Seq(Clients), shells : BOOLEAN, recovered : BOOLEAN, shown : Nat] :
            s.recovered => s.shells}
Contents == {"torn", "unsynced", "whole"}   \* of a file with an entry
Directory == [state : State, canonical : Contents, marker : Contents \union {"none"}]

Stages == {"idle", "waiting", "locked", "mutated", "written", "synced", "renamed",
           "clear", "unlinked", "append", "evidence", "created", "filled", "kept"}
Transaction == [stage : Stages, next : State, temporary : Contents,
                changed : BOOLEAN, projected : BOOLEAN]

EmptyState == [lineage |-> <<>>, shells |-> FALSE, recovered |-> FALSE, shown |-> 0]
EmptyDirectory == [state |-> EmptyState, canonical |-> "whole", marker |-> "none"]
NoTransaction == [stage |-> "idle", next |-> EmptyState, temporary |-> "torn",
                  changed |-> FALSE, projected |-> FALSE]

Init ==
  /\ directory = EmptyDirectory
  /\ survivors = {EmptyDirectory}
  /\ lock = Free
  /\ txn = [c \in Clients |-> NoTransaction]
  /\ acked = 0
  /\ owed = 0

At(c, stage) == txn[c].stage = stage
Goto(c, stage) == txn' = [txn EXCEPT ![c].stage = stage]

(* What a power loss makes of a file, and of the root.                     *)
Survives(contents) == IF contents = "unsynced" THEN {"torn", "whole"} ELSE {contents}
Outcomes(d) ==
  [state : {d.state}, canonical : Survives(d.canonical), marker : Survives(d.marker)]
Recoverable == UNION {Outcomes(d) : d \in survivors}

(* One operation on the directory, a successful sync of it, and one of the *)
(* marker file, which every surviving entry of that file shares.           *)
Change(d) == directory' = d /\ survivors' = survivors \union {d}
SyncDirectory == survivors' = {directory} /\ UNCHANGED directory
SyncedMarker(d) == IF d.marker = "none" THEN d ELSE [d EXCEPT !.marker = "whole"]
SyncMarkerFile ==
  /\ directory' = SyncedMarker(directory)
  /\ survivors' = {SyncedMarker(d) : d \in survivors}

UnchangedFiles == UNCHANGED <<directory, survivors>>
UnchangedHistory == UNCHANGED <<acked, owed>>

(* The end of a transaction, with the deferred unlock of every return path.*)
Ended(c) == txn' = [txn EXCEPT ![c] = NoTransaction]
Return(c) == Ended(c) /\ lock' = Free

--------------------------------------------------------------------------------
(* WithTransaction, as far as the lock.                                    *)

Begin(c) ==
  /\ At(c, "idle")
  /\ Goto(c, "waiting")
  /\ UnchangedFiles /\ UnchangedHistory /\ UNCHANGED lock

(* Mutation: the result of the nonblocking flock is not looked at.         *)
acquireWithoutFlock(c) ==
  /\ At(c, "waiting")
  /\ lock' = c
  /\ Goto(c, "locked")
  /\ UnchangedFiles /\ UnchangedHistory

acquireStateLock(c) ==
  /\ At(c, "waiting")
  /\ lock = Free
  /\ lock' = c
  /\ Goto(c, "locked")
  /\ UnchangedFiles /\ UnchangedHistory

(* Mutation: the context is looked at only once the lock can be had.       *)
TimeoutAfterLock(c) ==
  /\ c \in Timed
  /\ At(c, "waiting")
  /\ lock = Free
  /\ Ended(c)
  /\ UnchangedFiles /\ UnchangedHistory /\ UNCHANGED lock

(* The context ends while the lock is polled.  An error of openLock or     *)
(* flock does what Kill does then.                                         *)
LockTimeout(c) ==
  /\ c \in Timed
  /\ At(c, "waiting")
  /\ Ended(c)
  /\ UnchangedFiles /\ UnchangedHistory /\ UNCHANGED lock

--------------------------------------------------------------------------------
(* Reading, the callback, and the projection of pending evidence.          *)

MarkerPresent == directory.marker \in {"unsynced", "whole"}

(* A callback writes anything; it attaches shells and never removes them,  *)
(* and a shell it attaches carries no error.                               *)
Mutated(entry, touched, shells, recovered) ==
  /\ ~touched => shells = entry.shells /\ recovered = entry.recovered
  /\ entry.shells => shells
  /\ recovered => entry.recovered

projectRecoveredPersistence(pending, shells, recovered) ==
  (pending /\ shells) \/ recovered

(* Mutation: evidence counts as projected when no shell took it.           *)
ProjectedIntoNothing(pending, shells) == pending

Projected(pending, shells) == pending /\ shells

Marshalled(c, shells, recovered) ==
  LET length == Len(directory.state.lineage) + 1
  IN [lineage |-> Append(directory.state.lineage, c), shells |-> shells, recovered |-> recovered,
      shown |-> IF recovered THEN length ELSE directory.state.shown]

(* The callback runs between two projections.  touched: it changes         *)
(* anything; shells: there are shells after it; kept: all carry the error. *)
Callback(c, touched, shells, kept) ==
  LET previous == directory.state
      entry == [previous EXCEPT !.recovered =
                  projectRecoveredPersistence(MarkerPresent, previous.shells, @)]
      recovered == projectRecoveredPersistence(MarkerPresent, shells, kept)
      changed == touched \/ recovered # previous.recovered
  IN /\ Mutated(entry, touched, shells, kept)
     /\ changed => Len(previous.lineage) < MaxGenerations
     /\ txn' = [txn EXCEPT ![c] =
          [stage |-> "mutated", temporary |-> "torn", changed |-> changed,
           projected |-> Projected(MarkerPresent, shells),
           next |-> IF changed THEN Marshalled(c, shells, recovered) ELSE previous]]

(* readCanonical and the marker refuse anything torn.                      *)
Mutate(c) ==
  /\ At(c, "locked")
  /\ directory.canonical # "torn"
  /\ directory.marker # "torn"
  /\ \E touched, shells, kept \in BOOLEAN : Callback(c, touched, shells, kept)
  /\ UnchangedFiles /\ UnchangedHistory /\ UNCHANGED lock

(* Nothing to write and nothing to clear, or only something to clear.      *)
ReturnUnchanged(c) ==
  /\ At(c, "mutated")
  /\ ~txn[c].changed /\ ~txn[c].projected
  /\ Return(c)
  /\ UnchangedFiles /\ UnchangedHistory

ClearOnly(c) ==
  /\ At(c, "mutated")
  /\ ~txn[c].changed /\ txn[c].projected
  /\ Goto(c, "clear")
  /\ UnchangedFiles /\ UnchangedHistory /\ UNCHANGED lock

--------------------------------------------------------------------------------
(* replaceCanonical.                                                       *)

WriteTemporary(c) ==
  /\ At(c, "mutated")
  /\ txn[c].changed
  /\ txn' = [txn EXCEPT ![c].stage = "written", ![c].temporary = "unsynced"]
  /\ UnchangedFiles /\ UnchangedHistory /\ UNCHANGED lock

(* Mutation: the temporary is renamed without a file sync.                 *)
SkipTemporarySync(c) ==
  /\ At(c, "written")
  /\ Goto(c, "synced")
  /\ UnchangedFiles /\ UnchangedHistory /\ UNCHANGED lock

SyncTemporary(c) ==
  /\ At(c, "written")
  /\ txn' = [txn EXCEPT ![c].stage = "synced", ![c].temporary = "whole"]
  /\ UnchangedFiles /\ UnchangedHistory /\ UNCHANGED lock

Rename(c) ==
  /\ At(c, "synced")
  /\ Change([directory EXCEPT !.state = txn[c].next, !.canonical = txn[c].temporary])
  /\ Goto(c, "renamed")
  /\ UnchangedHistory /\ UNCHANGED lock

SyncRename(c) ==
  /\ At(c, "renamed")
  /\ SyncDirectory
  /\ Goto(c, IF txn[c].projected THEN "clear" ELSE "append")
  /\ UnchangedHistory /\ UNCHANGED lock

--------------------------------------------------------------------------------
(* clearRecoveredPersistenceMarker.                                        *)

UnlinkMarker(c) ==
  /\ At(c, "clear")
  /\ MarkerPresent
  /\ Change([directory EXCEPT !.marker = "none"])
  /\ Goto(c, "unlinked")
  /\ UnchangedHistory /\ UNCHANGED lock

SyncUnlink(c) ==
  /\ At(c, "unlinked")
  /\ SyncDirectory
  /\ IF txn[c].changed THEN Goto(c, "append") /\ UNCHANGED lock ELSE Return(c)
  /\ UnchangedHistory

--------------------------------------------------------------------------------
(* appendForensic, and writeRecoveredPersistenceMarker when it fails.      *)

Succeeded(c) == acked' = Len(txn[c].next.lineage)

AppendForensic(c) ==
  /\ At(c, "append")
  /\ \/ Return(c) /\ Succeeded(c)
     \/ Goto(c, "evidence") /\ UNCHANGED <<lock, acked>>
  /\ UnchangedFiles /\ UNCHANGED owed

CreateMarker(c) ==
  /\ At(c, "evidence")
  /\ directory.marker = "none"
  /\ Change([directory EXCEPT !.marker = "torn"])
  /\ Goto(c, "created")
  /\ UnchangedHistory /\ UNCHANGED lock

FillMarker(c) ==
  /\ At(c, "created")
  /\ Change([directory EXCEPT !.marker = "unsynced"])
  /\ Goto(c, "filled")
  /\ UnchangedHistory /\ UNCHANGED lock

SyncMarker(c) ==
  /\ At(c, "filled")
  /\ SyncMarkerFile
  /\ Goto(c, "kept")
  /\ UnchangedHistory /\ UNCHANGED lock

(* The marker is already there: it is synced again.                        *)
KeepMarker(c) ==
  /\ At(c, "evidence")
  /\ MarkerPresent
  /\ SyncMarkerFile
  /\ Goto(c, "kept")
  /\ UnchangedHistory /\ UNCHANGED lock

SyncEvidence(c) ==
  /\ At(c, "kept")
  /\ SyncDirectory
  /\ Return(c)
  /\ Succeeded(c)
  /\ owed' = Len(txn[c].next.lineage)

--------------------------------------------------------------------------------
(* Failures.                                                               *)

(* The callback, the marshalling, a call or the context fails: the         *)
(* transaction returns an error and leaves the directory as it is.         *)
Fail(c) ==
  /\ txn[c].stage \in {"locked", "mutated", "written", "synced", "renamed", "clear",
                        "unlinked", "evidence", "kept"}
  /\ Return(c)
  /\ UnchangedFiles /\ UnchangedHistory

(* A marker that could not be completed is removed, if the removal works:  *)
(* its error is ignored.                                                   *)
FailMarker(c) ==
  /\ txn[c].stage \in {"created", "filled"}
  /\ Change([directory EXCEPT !.marker = "none"]) \/ UnchangedFiles
  /\ Return(c)
  /\ UnchangedHistory

(* A process is killed; the kernel closes its descriptor and so unlocks.   *)
Kill(c) ==
  /\ ~At(c, "idle")
  /\ Ended(c)
  /\ lock' = IF lock = c THEN Free ELSE lock
  /\ UnchangedFiles /\ UnchangedHistory

PowerLoss ==
  /\ \E d \in Recoverable : directory' = d /\ survivors' = {d}
  /\ txn' = [c \in Clients |-> NoTransaction]
  /\ lock' = Free
  /\ UnchangedHistory

--------------------------------------------------------------------------------
(* The steps a running process takes by itself.                            *)
Advance(c) ==
  \/ acquireStateLock(c) \/ LockTimeout(c)
  \/ Mutate(c) \/ ReturnUnchanged(c) \/ ClearOnly(c)
  \/ WriteTemporary(c) \/ SyncTemporary(c) \/ Rename(c) \/ SyncRename(c)
  \/ UnlinkMarker(c) \/ SyncUnlink(c)
  \/ AppendForensic(c)
  \/ CreateMarker(c) \/ FillMarker(c) \/ SyncMarker(c) \/ KeepMarker(c) \/ SyncEvidence(c)
  \/ Fail(c) \/ FailMarker(c)

Next == PowerLoss \/ \E c \in Clients : Begin(c) \/ Advance(c) \/ Kill(c)

Spec == Init /\ [][Next]_vars

(* A process that runs gets to its next call.                              *)
FairSpec == Spec /\ \A c \in Clients : WF_vars(Advance(c))

--------------------------------------------------------------------------------
(* Properties.                                                             *)

(* The variables have their types.                                         *)
TypeOK ==
  /\ directory \in Directory
  /\ survivors \subseteq Directory
  /\ lock \in Clients \union {Free}
  /\ txn \in [Clients -> Transaction]
  /\ acked \in Nat
  /\ owed \in Nat

(* Whatever fails and whenever power is lost, worktree.json is one         *)
(* complete generation (TestAtomicFaultsLeaveOldOrCompleteNewGeneration).  *)
OldOrCompleteNew == \A d \in Recoverable \union {directory} : d.canonical = "whole"

(* A transaction that reported success with its forensic append failed is  *)
(* not forgotten: after any crash there is a complete marker, or a         *)
(* generation at or after it has shown the condition in every shell.       *)
EvidenceKept ==
  owed # 0 => \A d \in Recoverable \union {directory} :
                d.marker \in {"unsynced", "whole"} \/ d.state.shown >= owed

(* Transactions are serialised, a reported one is never taken back, and a  *)
(* crash takes back only the unreported end of the sequence.               *)
Generations == INSTANCE GenerationLog WITH
  Writers <- Clients, visible <- directory.state.lineage, confirmed <- acked
ImplementsGenerationLog == Generations!Spec

(* A transaction with a deadline ends even if it never gets the lock; one  *)
(* that has the lock ends, and so gives it back.                           *)
EveryTransactionEnds ==
  \A c \in Clients :
    (~At(c, "idle") /\ c \in Timed) \/ lock = c ~> At(c, "idle")

(* 07-03-PLAN.md:205: every crash point recovers the old or the complete   *)
(* new generation, so a later transaction can read one.                    *)
AlwaysReadable ==
  lock = Free => directory.canonical # "torn" /\ directory.marker # "torn"
===============================================================================
