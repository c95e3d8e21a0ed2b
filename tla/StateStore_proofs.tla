--------------------------- MODULE StateStore_proofs ---------------------------
(***************************************************************************)
(* The state store keeps its generations: types, complete files, kept      *)
(* evidence, and the refinement of GenerationLog.                          *)
(***************************************************************************)
EXTENDS StateStore, SequenceTheorems, TLAPS

(* A generation in which every shell carries the condition shows it, and   *)
(* none shows it later than it was written.                                *)
Shows(s) == s.shown <= Len(s.lineage) /\ (s.recovered => s.shown = Len(s.lineage))

(* The stages at which a transaction has its result, before and after the  *)
(* result is the visible generation.                                       *)
Before == {"mutated", "written", "synced"}
After == {"renamed", "clear", "unlinked", "append", "evidence", "created", "filled", "kept"}

(* What one transaction knows.  Only the holder of the lock is past        *)
(* waiting, so what it read and wrote last is still there.                 *)
HoldsLock(c) == txn[c].stage \notin {"idle", "waiting"} => lock = c

Replaces(c) ==
  IF txn[c].changed
  THEN /\ txn[c].next.lineage = Append(directory.state.lineage, c)
       /\ txn[c].next.shown >= directory.state.shown
       /\ Shows(txn[c].next)
  ELSE txn[c].next = directory.state

Knows(c) ==
  /\ HoldsLock(c)
  /\ txn[c].stage \in Before => Replaces(c)
  /\ txn[c].stage \in {"written", "synced"} => txn[c].changed
  /\ txn[c].stage = "synced" => txn[c].temporary = "whole"
  /\ txn[c].stage \in After => txn[c].next = directory.state
  /\ txn[c].stage \in Before \union {"renamed"} /\ txn[c].projected => txn[c].next.recovered
  /\ txn[c].stage = "clear" => txn[c].next.recovered
  /\ txn[c].stage = "append" => survivors = {directory}
  /\ txn[c].stage = "created" => directory.marker = "torn"
  /\ txn[c].stage = "filled" => directory.marker = "unsynced"
  /\ txn[c].stage = "kept" => directory.marker = "whole"

(* What every root that may be found after a power loss has in common with *)
(* the visible one.                                                        *)
Prefix(s, t) == Len(s) <= Len(t) /\ \A i \in 1 .. Len(s) : s[i] = t[i]

Sound(d) ==
  /\ d.canonical = "whole"
  /\ Shows(d.state)
  /\ Prefix(d.state.lineage, directory.state.lineage)
  /\ acked <= Len(d.state.lineage)
  /\ owed # 0 => d.marker = "whole" \/ d.state.shown >= owed

Files ==
  /\ \A d \in survivors : Sound(d)
  /\ directory \in survivors
  /\ owed <= acked

StoreInv == TypeOK /\ (\A c \in Clients : Knows(c)) /\ Files

-------------------------------------------------------------------------------
(* Types                                                                   *)

LEMMA InitialTypes == Init => TypeOK
  <1>1. EmptyState \in State
    BY DEF EmptyState, State
  <1>2. EmptyDirectory \in Directory /\ NoTransaction \in Transaction
    BY <1>1 DEF EmptyDirectory, Directory, NoTransaction, Transaction, Contents, Stages
  <1>3. QED
    BY <1>2 DEF Init, TypeOK

(* What a transaction is about to write is a generation.                   *)
LEMMA MutateTypes ==
  ASSUME TypeOK, NEW c \in Clients, Mutate(c)
  PROVE  TypeOK'
  <1> DEFINE previous == directory.state
  <1>1. previous \in State /\ previous.lineage \in Seq(Clients)
    BY DEF TypeOK, Directory, State
  <1>2. PICK touched \in BOOLEAN, shells \in BOOLEAN, kept \in BOOLEAN :
          Callback(c, touched, shells, kept)
    BY DEF Mutate
  <1> DEFINE recovered == projectRecoveredPersistence(MarkerPresent, shells, kept)
  <1>3. recovered \in BOOLEAN /\ (recovered => shells)
    BY <1>1, <1>2 DEF Callback, projectRecoveredPersistence, Mutated, State, MarkerPresent
  <1>4. Marshalled(c, shells, recovered) \in State
    BY <1>1, <1>3 DEF Marshalled, State
  <1>5. Projected(MarkerPresent, shells) \in BOOLEAN
    BY DEF Projected, MarkerPresent
  <1>6. txn' \in [Clients -> Transaction]
    BY <1>1, <1>2, <1>3, <1>4, <1>5 DEF Callback, TypeOK, Transaction, Stages, Contents
  <1>7. QED
    BY <1>6 DEF Mutate, UnchangedFiles, UnchangedHistory, TypeOK

LEMMA TypeNext == TypeOK /\ [Next]_vars => TypeOK'
  <1> SUFFICES ASSUME TypeOK, [Next]_vars PROVE TypeOK'
    OBVIOUS
  <1> USE DEF UnchangedFiles, UnchangedHistory
  <1>0. NoTransaction \in Transaction
    BY DEF NoTransaction, Transaction, EmptyState, State, Stages, Contents
  <1>1. CASE UNCHANGED vars
    BY <1>1 DEF vars, TypeOK
  <1>2. CASE PowerLoss
    <2>0. PICK e \in survivors : \E d \in Outcomes(e) : directory' = d /\ survivors' = {d}
      BY <1>2 DEF PowerLoss, Recoverable
    <2>1. PICK d \in Outcomes(e) : directory' = d /\ survivors' = {d}
      BY <2>0
    <2>2. e \in Directory
      BY DEF TypeOK
    <2>3. Survives(e.canonical) \subseteq Contents
          /\ Survives(e.marker) \subseteq Contents \union {"none"}
      BY <2>2 DEF Survives, Contents, Directory
    <2>4. d \in Directory
      BY <2>2, <2>3 DEF Directory, Outcomes
    <2>5. txn' \in [Clients -> Transaction] /\ lock' = Free
      BY <1>0, <1>2 DEF PowerLoss
    <2>6. acked' \in Nat /\ owed' \in Nat
      BY <1>2 DEF PowerLoss, TypeOK
    <2>7. directory' \in Directory /\ survivors' \subseteq Directory
      BY <2>1, <2>4
    <2>8. QED
      BY <2>5, <2>6, <2>7 DEF TypeOK
  <1>3. ASSUME NEW c \in Clients, Begin(c) \/ Advance(c) \/ Kill(c)
        PROVE  TypeOK'
    <2>0. /\ txn \in [Clients -> Transaction] /\ txn[c] \in Transaction
          /\ directory \in Directory /\ survivors \subseteq Directory
          /\ lock \in Clients \union {Free} /\ acked \in Nat /\ owed \in Nat
      BY DEF TypeOK
    <2>1. ASSUME NEW stage \in Stages, Goto(c, stage)
          PROVE  txn' \in [Clients -> Transaction]
      BY <2>0, <2>1 DEF Goto, Transaction
    <2>2. Ended(c) => txn' \in [Clients -> Transaction]
      BY <2>0, <1>0 DEF Ended
    <2>3. Return(c) => txn' \in [Clients -> Transaction] /\ lock' \in Clients \union {Free}
      BY <2>2 DEF Return
    <2>4. ASSUME NEW m \in Contents \union {"none"}, Change([directory EXCEPT !.marker = m])
          PROVE  directory' \in Directory /\ survivors' \subseteq Directory
      BY <2>0, <2>4 DEF Change, Directory
    <2>5. SyncDirectory => directory' \in Directory /\ survivors' \subseteq Directory
      BY <2>0 DEF SyncDirectory
    <2>6. SyncMarkerFile => directory' \in Directory /\ survivors' \subseteq Directory
      <3>1. \A d \in Directory : SyncedMarker(d) \in Directory
        BY DEF SyncedMarker, Directory, Contents
      <3>2. QED
        BY <2>0, <3>1 DEF SyncMarkerFile
    <2>7. txn[c].next.lineage \in Seq(Clients) /\ Len(txn[c].next.lineage) \in Nat
      BY <2>0 DEF Transaction, State
    <2>8. {"waiting", "locked", "clear", "renamed", "unlinked", "append", "evidence",
           "created", "filled", "kept"} \subseteq Stages
          /\ {"torn", "unsynced", "none"} \subseteq Contents \union {"none"}
      BY DEF Stages, Contents
    <2>9. CASE Begin(c)
      BY <2>0, <2>1, <2>8, <2>9 DEF Begin, TypeOK
    <2>10. CASE acquireStateLock(c)
      BY <2>0, <2>1, <2>8, <2>10 DEF acquireStateLock, TypeOK
    <2>11. CASE LockTimeout(c)
      BY <2>0, <2>2, <2>11 DEF LockTimeout, TypeOK
    <2>12. CASE Mutate(c)
      BY <2>12, MutateTypes
    <2>13. CASE ReturnUnchanged(c)
      BY <2>0, <2>3, <2>13 DEF ReturnUnchanged, TypeOK
    <2>14. CASE ClearOnly(c)
      BY <2>0, <2>1, <2>8, <2>14 DEF ClearOnly, TypeOK
    <2>15. CASE WriteTemporary(c)
      BY <2>0, <2>15 DEF WriteTemporary, TypeOK, Transaction, Stages, Contents
    <2>16. CASE SyncTemporary(c)
      BY <2>0, <2>16 DEF SyncTemporary, TypeOK, Transaction, Stages, Contents
    <2>17. CASE Rename(c)
      <3>1. [directory EXCEPT !.state = txn[c].next, !.canonical = txn[c].temporary] \in Directory
        BY <2>0 DEF Directory, Transaction
      <3>2. QED
        BY <2>0, <2>1, <2>8, <2>17, <3>1 DEF Rename, Change, TypeOK
    <2>18. CASE SyncRename(c)
      BY <2>0, <2>1, <2>5, <2>8, <2>18 DEF SyncRename, TypeOK
    <2>19. CASE UnlinkMarker(c)
      BY <2>0, <2>1, <2>4, <2>8, <2>19 DEF UnlinkMarker, TypeOK
    <2>20. CASE SyncUnlink(c)
      BY <2>0, <2>1, <2>3, <2>5, <2>8, <2>20 DEF SyncUnlink, TypeOK
    <2>21. CASE AppendForensic(c)
      BY <2>0, <2>1, <2>3, <2>7, <2>8, <2>21 DEF AppendForensic, Succeeded, TypeOK
    <2>22. CASE CreateMarker(c)
      BY <2>0, <2>1, <2>4, <2>8, <2>22 DEF CreateMarker, TypeOK
    <2>23. CASE FillMarker(c)
      BY <2>0, <2>1, <2>4, <2>8, <2>23 DEF FillMarker, TypeOK
    <2>24. CASE SyncMarker(c)
      BY <2>0, <2>1, <2>6, <2>8, <2>24 DEF SyncMarker, TypeOK
    <2>25. CASE KeepMarker(c)
      BY <2>0, <2>1, <2>6, <2>8, <2>25 DEF KeepMarker, TypeOK
    <2>26. CASE SyncEvidence(c)
      BY <2>0, <2>3, <2>5, <2>7, <2>26 DEF SyncEvidence, Succeeded, TypeOK
    <2>27. CASE Fail(c)
      BY <2>0, <2>3, <2>27 DEF Fail, TypeOK
    <2>28. CASE FailMarker(c)
      BY <2>0, <2>3, <2>4, <2>8, <2>28 DEF FailMarker, TypeOK
    <2>29. CASE Kill(c)
      BY <2>0, <2>2, <2>29 DEF Kill, TypeOK
    <2>30. QED
      BY <1>3, <2>9, <2>10, <2>11, <2>12, <2>13, <2>14, <2>15, <2>16, <2>17, <2>18, <2>19, <2>20,
         <2>21, <2>22, <2>23, <2>24, <2>25, <2>26, <2>27, <2>28, <2>29 DEF Advance
  <1>4. QED
    BY <1>1, <1>2, <1>3 DEF Next

(* The variables of the store keep their types, in every run and for any   *)
(* number of processes.                                                    *)
THEOREM StoreTypeCorrect == Spec => []TypeOK
  <1>1. QED
    BY InitialTypes, TypeNext, PTL DEF Spec

-------------------------------------------------------------------------------
(* The invariant                                                           *)

(* A transaction that is not past the lock knows nothing.                  *)
LEMMA Waiting ==
  ASSUME NEW c \in Clients, txn[c].stage \in {"idle", "waiting"}
  PROVE  Knows(c)
  BY DEF Knows, HoldsLock, Before, After

(* The lock excludes: beside its holder the others are before it.          *)
LEMMA Alone ==
  ASSUME StoreInv, NEW c \in Clients, txn[c].stage \notin {"idle", "waiting"},
         NEW d \in Clients, d # c
  PROVE  txn[d].stage \in {"idle", "waiting"}
  BY DEF StoreInv, Knows, HoldsLock

(* So the holder's step leaves what the others know as it is.              *)
LEMMA HolderStep ==
  ASSUME StoreInv, NEW c \in Clients, txn[c].stage \notin {"idle", "waiting"},
         \A d \in Clients : d # c => txn'[d] = txn[d],
         Knows(c)'
  PROVE  \A d \in Clients : Knows(d)'
  <1> SUFFICES ASSUME NEW d \in Clients, d # c PROVE Knows(d)'
    OBVIOUS
  <1>1. txn'[d].stage \in {"idle", "waiting"}
    BY Alone
  <1>2. QED
    BY <1>1 DEF Knows, HoldsLock, Before, After

(* A step that leaves the files and the history alone.                     *)
LEMMA FilesKept ==
  ASSUME Files, UnchangedFiles, UnchangedHistory
  PROVE  Files'
  BY DEF Files, UnchangedFiles, UnchangedHistory, Sound, Shows, Prefix

(* A new entry, or none, for the marker: a marker that is not complete is  *)
(* no evidence, so the generation has to show what is owed.                *)
LEMMA MarkerChange ==
  ASSUME StoreInv, NEW m, Change([directory EXCEPT !.marker = m]), UnchangedHistory,
         owed # 0 => directory.state.shown >= owed
  PROVE  /\ Files'
         /\ directory'.state = directory.state
         /\ directory'.marker = m
  <1>1. directory \in Directory /\ Sound(directory)
    BY DEF StoreInv, TypeOK, Files
  <1>2. /\ directory' = [directory EXCEPT !.marker = m]
        /\ directory'.state = directory.state
        /\ directory'.canonical = directory.canonical
        /\ directory'.marker = m
        /\ survivors' = survivors \union {directory'}
    BY <1>1 DEF Change, Directory
  <1>3. acked' = acked /\ owed' = owed
    BY DEF UnchangedHistory
  <1>4. \A d \in survivors : Sound(d)'
    BY <1>2, <1>3 DEF StoreInv, Files, Sound, Shows, Prefix
  <1>5. Sound(directory)'
    BY <1>1, <1>2, <1>3 DEF Sound, Shows, Prefix
  <1>6. QED
    BY <1>2, <1>3, <1>4, <1>5 DEF Files, StoreInv, Sound, Shows, Prefix

(* A sync of the directory leaves one survivor, so what it shows may be    *)
(* reported as written, and owed if there is a complete marker.            *)
LEMMA DirectorySynced ==
  ASSUME StoreInv, SyncDirectory,
         \/ UnchangedHistory
         \/ acked' = Len(directory.state.lineage) /\ owed' = owed
         \/ /\ acked' = Len(directory.state.lineage)
            /\ owed' = Len(directory.state.lineage)
            /\ directory.marker = "whole"
  PROVE  Files' /\ directory' = directory /\ survivors' = {directory}
  <1>1. /\ directory \in Directory /\ Sound(directory)
        /\ acked \in Nat /\ owed \in Nat /\ owed <= acked
    BY DEF StoreInv, TypeOK, Files
  <1>2. directory.state.lineage \in Seq(Clients) /\ Len(directory.state.lineage) \in Nat
    BY <1>1 DEF Directory, State
  <1>3. directory' = directory /\ survivors' = {directory}
    BY DEF SyncDirectory
  <1>4. acked' <= Len(directory.state.lineage) /\ owed' <= acked'
    BY <1>1, <1>2 DEF Sound, UnchangedHistory
  <1>5. owed' # 0 => directory.marker = "whole" \/ directory.state.shown >= owed'
    BY <1>1 DEF Sound, UnchangedHistory
  <1>6. Sound(directory)'
    BY <1>1, <1>3, <1>4, <1>5 DEF Sound, Shows, Prefix
  <1>7. \A d \in survivors' : Sound(d)'
    BY <1>3, <1>6 DEF Sound, Shows, Prefix
  <1>8. QED
    BY <1>3, <1>4, <1>7 DEF Files

(* A sync of the marker file completes it wherever it has an entry.        *)
LEMMA MarkerSynced ==
  ASSUME StoreInv, SyncMarkerFile, UnchangedHistory, directory.marker # "none"
  PROVE  Files' /\ directory'.state = directory.state /\ directory'.marker = "whole"
  <1>1. directory \in Directory /\ survivors \subseteq Directory
    BY DEF StoreInv, TypeOK
  <1>2. \A d \in Directory :
          /\ SyncedMarker(d).state = d.state
          /\ SyncedMarker(d).canonical = d.canonical
          /\ d.marker # "none" => SyncedMarker(d).marker = "whole"
          /\ d.marker = "none" => SyncedMarker(d) = d
    BY DEF SyncedMarker, Directory
  <1>3. directory' = SyncedMarker(directory) /\ survivors' = {SyncedMarker(d) : d \in survivors}
    BY DEF SyncMarkerFile
  <1>4. directory'.state = directory.state /\ directory'.marker = "whole"
    BY <1>1, <1>2, <1>3
  <1>5. ASSUME NEW e \in survivors'
        PROVE  Sound(e)'
    <2>1. PICK d \in survivors : e = SyncedMarker(d)
      BY <1>3
    <2>2. Sound(d) /\ e.state = d.state /\ e.canonical = d.canonical
          /\ (d.marker = "whole" => e.marker = "whole")
      BY <1>1, <1>2, <2>1 DEF StoreInv, Files
    <2>3. QED
      BY <1>4, <2>2 DEF Sound, Shows, Prefix, UnchangedHistory
  <1>6. directory' \in survivors'
    BY <1>3 DEF StoreInv, Files
  <1>7. QED
    BY <1>4, <1>5, <1>6 DEF Files, StoreInv, UnchangedHistory

LEMMA InitialInv == Init => StoreInv
  <1> SUFFICES ASSUME Init PROVE StoreInv
    OBVIOUS
  <1>1. TypeOK
    BY InitialTypes
  <1>2. \A c \in Clients : Knows(c)
    BY DEF Init, NoTransaction, Knows, HoldsLock, Before, After
  <1>3. Files
    BY DEF Init, Files, Sound, Shows, Prefix, EmptyDirectory, EmptyState
  <1>4. QED
    BY <1>1, <1>2, <1>3 DEF StoreInv

(* What the holder knows when it has run the callback: the evidence it saw *)
(* is projected, and what it writes follows what it read.                  *)
LEMMA MutateKnows ==
  ASSUME StoreInv, NEW c \in Clients, Mutate(c)
  PROVE  Knows(c)'
  <1> DEFINE previous == directory.state
  <1>1. /\ previous \in State /\ previous.lineage \in Seq(Clients) /\ previous.shown \in Nat
        /\ previous.recovered \in BOOLEAN /\ previous.shells \in BOOLEAN
        /\ Len(previous.lineage) \in Nat /\ txn \in [Clients -> Transaction]
    BY DEF StoreInv, TypeOK, Directory, State
  <1>2. Shows(previous) /\ lock = c
    BY DEF StoreInv, Files, Sound, Knows, HoldsLock, Mutate, At
  <1>3. PICK touched \in BOOLEAN, shells \in BOOLEAN, kept \in BOOLEAN :
          Callback(c, touched, shells, kept)
    BY DEF Mutate
  <1> DEFINE recovered == projectRecoveredPersistence(MarkerPresent, shells, kept)
             changed == touched \/ recovered # previous.recovered
             written == Marshalled(c, shells, recovered)
  <1>4. recovered \in BOOLEAN /\ (Projected(MarkerPresent, shells) => recovered)
    BY <1>1, <1>3 DEF Callback, Mutated, projectRecoveredPersistence, Projected, MarkerPresent
  <1>5. /\ written.lineage = Append(previous.lineage, c)
        /\ written.recovered = recovered
        /\ written.shown = IF recovered THEN Len(previous.lineage) + 1 ELSE previous.shown
    BY DEF Marshalled
  <1>6. Len(Append(previous.lineage, c)) = Len(previous.lineage) + 1
    BY <1>1
  <1>7. Shows(written) /\ written.shown >= previous.shown
    <2>1. CASE recovered
      BY <1>1, <1>2, <1>5, <1>6, <2>1 DEF Shows
    <2>2. CASE ~recovered
      BY <1>1, <1>2, <1>5, <1>6, <2>2 DEF Shows
    <2>3. QED
      BY <2>1, <2>2
  <1>8. /\ txn'[c].stage = "mutated"
        /\ txn'[c].changed = changed
        /\ txn'[c].projected = Projected(MarkerPresent, shells)
        /\ txn'[c].next = IF changed THEN written ELSE previous
    BY <1>1, <1>3 DEF Callback
  <1>9. directory' = directory /\ lock' = lock
    BY DEF Mutate, UnchangedFiles
  <1>10. Replaces(c)'
    <2>1. CASE changed
      BY <1>5, <1>7, <1>8, <1>9, <2>1 DEF Replaces, Shows
    <2>2. CASE ~changed
      BY <1>8, <1>9, <2>2 DEF Replaces
    <2>3. QED
      BY <2>1, <2>2
  <1>11. txn'[c].projected => txn'[c].next.recovered
    <2>1. CASE changed
      BY <1>4, <1>5, <1>8, <2>1
    <2>2. CASE ~changed
      <3>1. recovered = previous.recovered
        BY <2>2
      <3>2. QED
        BY <1>4, <1>8, <2>2, <3>1
    <2>3. QED
      BY <2>1, <2>2
  <1>12. QED
    BY <1>2, <1>8, <1>9, <1>10, <1>11 DEF Knows, HoldsLock, Before, After

(* The rename makes a generation visible that follows the one before it.   *)
LEMMA RenameKeeps ==
  ASSUME StoreInv, NEW c \in Clients, Rename(c)
  PROVE  Files' /\ Knows(c)' /\ directory'.state.lineage = Append(directory.state.lineage, c)
  <1> DEFINE next == txn[c].next
             before == directory.state
  <1>1. /\ txn \in [Clients -> Transaction] /\ txn[c] \in Transaction
        /\ directory \in Directory /\ before.lineage \in Seq(Clients) /\ next \in State
        /\ before.shown \in Nat /\ next.shown \in Nat /\ acked \in Nat /\ owed \in Nat
        /\ survivors \subseteq Directory
    BY DEF StoreInv, TypeOK, Transaction, Directory, State
  <1>2. Knows(c) /\ Sound(directory) /\ txn[c].stage = "synced"
    BY DEF StoreInv, Files, Rename, At
  <1>3. /\ next.lineage = Append(before.lineage, c) /\ next.shown >= before.shown /\ Shows(next)
        /\ txn[c].temporary = "whole" /\ lock = c
        /\ txn[c].projected => next.recovered
    BY <1>2 DEF Knows, HoldsLock, Before, Replaces
  <1>4. /\ directory' = [directory EXCEPT !.state = next, !.canonical = "whole"]
        /\ directory'.state = next
        /\ directory'.canonical = "whole"
        /\ directory'.marker = directory.marker
        /\ survivors' = survivors \union {directory'}
        /\ acked' = acked /\ owed' = owed /\ lock' = lock
    BY <1>1, <1>3 DEF Rename, Change, UnchangedHistory, Directory
  <1>5. /\ Len(next.lineage) = Len(before.lineage) + 1
        /\ \A i \in 1 .. Len(before.lineage) : next.lineage[i] = before.lineage[i]
        /\ Len(before.lineage) \in Nat
    BY <1>1, <1>3, AppendProperties
  <1>6. ASSUME NEW d \in survivors
        PROVE  Sound(d)'
    <2>1. Sound(d) /\ Len(d.state.lineage) \in Nat
      BY <1>1 DEF StoreInv, Files, Directory, State
    <2>2. Prefix(d.state.lineage, directory.state.lineage)'
      BY <1>4, <1>5, <2>1 DEF Sound, Prefix
    <2>3. QED
      BY <1>4, <2>1, <2>2 DEF Sound, Shows
  <1>7. Sound(directory)'
    BY <1>1, <1>2, <1>3, <1>4, <1>5 DEF Sound, Shows, Prefix
  <1>8. Files'
    <2>1. ASSUME NEW d \in survivors'
          PROVE  Sound(d)'
      <3>1. CASE d \in survivors
        BY <1>6, <3>1
      <3>2. CASE d = directory'
        BY <1>7, <3>2 DEF Sound, Shows, Prefix
      <3>3. QED
        BY <1>4, <3>1, <3>2
    <2>2. QED
      BY <1>4, <2>1 DEF Files, StoreInv
  <1>9. txn'[c].stage = "renamed" /\ txn'[c].next = next /\ txn'[c].projected = txn[c].projected
    BY <1>1 DEF Rename, Goto, Transaction
  <1>10. Knows(c)'
    BY <1>3, <1>4, <1>9 DEF Knows, HoldsLock, Before, After
  <1>11. QED
    BY <1>3, <1>4, <1>8, <1>10

(* A power loss leaves one survivor, and its files as far as synced.       *)
LEMMA PowerLossKeeps ==
  ASSUME StoreInv, PowerLoss
  PROVE  /\ Files' /\ \A c \in Clients : Knows(c)'
         /\ acked <= Len(directory'.state.lineage)
         /\ Prefix(directory'.state.lineage, directory.state.lineage)
  <1>1. PICK e \in survivors : \E d \in Outcomes(e) : directory' = d /\ survivors' = {d}
    BY DEF PowerLoss, Recoverable
  <1>2. /\ Sound(e) /\ e \in Directory
        /\ acked' = acked /\ owed' = owed /\ acked \in Nat /\ owed <= acked
    BY DEF StoreInv, Files, TypeOK, PowerLoss, UnchangedHistory
  <1>3. /\ directory'.state = e.state
        /\ directory'.canonical \in Survives(e.canonical)
        /\ directory'.marker \in Survives(e.marker)
        /\ survivors' = {directory'}
    BY <1>1 DEF Outcomes
  <1>4. directory'.canonical = "whole" /\ (e.marker = "whole" => directory'.marker = "whole")
    BY <1>2, <1>3 DEF Survives, Sound
  <1>5. Sound(directory)'
    BY <1>2, <1>3, <1>4 DEF Sound, Shows, Prefix, Directory, State
  <1>6. Files'
    BY <1>2, <1>3, <1>5 DEF Files, Sound, Shows, Prefix
  <1>7. \A c \in Clients : Knows(c)'
    BY DEF PowerLoss, NoTransaction, Knows, HoldsLock, Before, After
  <1>8. QED
    BY <1>2, <1>3, <1>6, <1>7 DEF Sound

(* What the holder of the lock does keeps the invariant.                   *)
LEMMA HolderKeeps ==
  ASSUME StoreInv, NEW c \in Clients, Advance(c), ~acquireStateLock(c), ~LockTimeout(c)
  PROVE  Files' /\ \A d \in Clients : Knows(d)'
  <1>1. /\ Knows(c) /\ Files /\ Sound(directory) /\ directory \in Directory
        /\ txn \in [Clients -> Transaction] /\ txn[c] \in Transaction
        /\ acked \in Nat /\ owed \in Nat /\ owed <= acked
        /\ Len(directory.state.lineage) \in Nat
    BY DEF StoreInv, Files, TypeOK, Directory, State
  <1>2. ASSUME NEW stage, Goto(c, stage)
        PROVE  /\ txn'[c] = [txn[c] EXCEPT !.stage = stage]
               /\ txn'[c].stage = stage
               /\ txn'[c].next = txn[c].next
               /\ txn'[c].changed = txn[c].changed
               /\ txn'[c].projected = txn[c].projected
    BY <1>1, <1>2 DEF Goto, Transaction
  <1>3. ASSUME Ended(c) \/ Return(c)
        PROVE  Knows(c)'
    BY <1>1, <1>3 DEF Ended, Return, NoTransaction, Knows, HoldsLock, Before, After
  <1>4. (UnchangedFiles /\ UnchangedHistory) => Files'
    BY <1>1, FilesKept
  <1>5. /\ txn[c].stage \notin {"idle", "waiting"}
        /\ \A d \in Clients : d # c => txn'[d] = txn[d]
    <2>1. CASE Mutate(c)
      <3>1. PICK touched \in BOOLEAN, shells \in BOOLEAN, kept \in BOOLEAN :
              Callback(c, touched, shells, kept)
        BY <2>1 DEF Mutate
      <3>2. QED
        BY <1>1, <2>1, <3>1 DEF Mutate, Callback, At
    <2>2. CASE ~Mutate(c)
      BY <1>1, <2>2 DEF Advance, At, Goto, Ended, Return, ReturnUnchanged, ClearOnly,
         WriteTemporary, SyncTemporary, Rename, SyncRename, UnlinkMarker, SyncUnlink,
         AppendForensic, CreateMarker, FillMarker, SyncMarker, KeepMarker, SyncEvidence,
         Fail, FailMarker
    <2>3. QED
      BY <2>1, <2>2
  <1>6. SUFFICES Files' /\ Knows(c)'
    BY <1>5, HolderStep
  <1> USE DEF At
  <1>7. CASE Mutate(c)
    BY <1>4, <1>7, MutateKnows DEF Mutate
  <1>8. CASE ReturnUnchanged(c)
    BY <1>3, <1>4, <1>8 DEF ReturnUnchanged
  <1>9. CASE ClearOnly(c)
    <2>1. txn'[c].stage = "clear" /\ txn'[c].next = txn[c].next
      BY <1>2, <1>9 DEF ClearOnly
    <2>2. txn[c].next = directory.state /\ txn[c].next.recovered /\ lock = c
      BY <1>1, <1>9 DEF ClearOnly, Knows, HoldsLock, Before, Replaces
    <2>3. Knows(c)'
      BY <1>9, <2>1, <2>2 DEF ClearOnly, UnchangedFiles, Knows, HoldsLock, Before, After
    <2>4. QED
      BY <1>4, <1>9, <2>3 DEF ClearOnly
  <1>10. CASE WriteTemporary(c)
    <2>1. /\ txn'[c].stage = "written" /\ txn'[c].next = txn[c].next
          /\ txn'[c].changed = txn[c].changed /\ txn'[c].projected = txn[c].projected
      BY <1>1, <1>10 DEF WriteTemporary, Transaction
    <2>2. Knows(c)'
      BY <1>1, <1>10, <2>1
      DEF WriteTemporary, UnchangedFiles, Knows, HoldsLock, Before, After, Replaces, Shows
    <2>3. QED
      BY <1>4, <1>10, <2>2 DEF WriteTemporary
  <1>11. CASE SyncTemporary(c)
    <2>1. /\ txn'[c].stage = "synced" /\ txn'[c].next = txn[c].next /\ txn'[c].temporary = "whole"
          /\ txn'[c].changed = txn[c].changed /\ txn'[c].projected = txn[c].projected
      BY <1>1, <1>11 DEF SyncTemporary, Transaction
    <2>2. Knows(c)'
      BY <1>1, <1>11, <2>1
      DEF SyncTemporary, UnchangedFiles, Knows, HoldsLock, Before, After, Replaces, Shows
    <2>3. QED
      BY <1>4, <1>11, <2>2 DEF SyncTemporary
  <1>12. CASE Rename(c)
    BY <1>12, RenameKeeps
  <1>13. CASE SyncRename(c)
    <2>1. Files' /\ directory' = directory /\ survivors' = {directory} /\ lock' = lock
      BY <1>13, DirectorySynced DEF SyncRename
    <2>2. /\ txn'[c].stage = (IF txn[c].projected THEN "clear" ELSE "append")
          /\ txn'[c].next = txn[c].next
      BY <1>2, <1>13 DEF SyncRename
    <2>3. /\ txn[c].next = directory.state /\ lock = c
          /\ txn[c].projected => txn[c].next.recovered
      BY <1>1, <1>13 DEF SyncRename, Knows, HoldsLock, After
    <2>4. CASE txn[c].projected
      BY <2>1, <2>2, <2>3, <2>4 DEF Knows, HoldsLock, Before, After
    <2>5. CASE ~txn[c].projected
      BY <2>1, <2>2, <2>3, <2>5 DEF Knows, HoldsLock, Before, After
    <2>6. QED
      BY <2>1, <2>4, <2>5
  <1>14. CASE UnlinkMarker(c)
    <2>1. owed # 0 => directory.state.shown >= owed
      BY <1>1, <1>14 DEF UnlinkMarker, Knows, After, Sound, Shows, Directory, State
    <2>2. Files' /\ directory'.state = directory.state /\ lock' = lock
      BY <1>14, <2>1, MarkerChange DEF UnlinkMarker
    <2>3. /\ txn'[c].stage = "unlinked" /\ txn'[c].next = txn[c].next
          /\ txn[c].next = directory.state /\ lock = c
      BY <1>1, <1>2, <1>14 DEF UnlinkMarker, Knows, HoldsLock, After
    <2>4. Knows(c)'
      BY <2>2, <2>3 DEF Knows, HoldsLock, Before, After
    <2>5. QED
      BY <2>2, <2>4
  <1>15. CASE SyncUnlink(c)
    <2>1. Files' /\ directory' = directory /\ survivors' = {directory}
      BY <1>15, DirectorySynced DEF SyncUnlink
    <2>2. txn[c].next = directory.state /\ lock = c
      BY <1>1, <1>15 DEF SyncUnlink, Knows, HoldsLock, After
    <2>3. ASSUME Goto(c, "append"), lock' = lock
          PROVE  Knows(c)'
      <3>1. txn'[c].stage = "append" /\ txn'[c].next = txn[c].next
        BY <1>2, <2>3
      <3>2. QED
        BY <2>1, <2>2, <2>3, <3>1 DEF Knows, HoldsLock, Before, After
    <2>4. QED
      BY <1>3, <1>15, <2>1, <2>3 DEF SyncUnlink
  <1>16. CASE AppendForensic(c)
    <2>1. txn[c].next = directory.state /\ survivors = {directory} /\ lock = c
      BY <1>1, <1>16 DEF AppendForensic, Knows, HoldsLock, After
    <2>2. /\ directory' = directory /\ survivors' = survivors /\ owed' = owed
          /\ acked' \in {acked, Len(directory.state.lineage)}
      BY <1>16, <2>1 DEF AppendForensic, Succeeded, UnchangedFiles
    <2>3. acked <= acked' /\ acked' <= Len(directory.state.lineage)
      BY <1>1, <2>2 DEF Sound
    <2>4. Sound(directory)'
      BY <1>1, <2>2, <2>3 DEF Sound, Shows, Prefix
    <2>5. Files'
      BY <1>1, <2>1, <2>2, <2>3, <2>4 DEF Files, Sound, Shows, Prefix
    <2>6. ASSUME Goto(c, "evidence"), lock' = lock
          PROVE  Knows(c)'
      <3>1. txn'[c].stage = "evidence" /\ txn'[c].next = txn[c].next
        BY <1>2, <2>6
      <3>2. QED
        BY <2>1, <2>2, <2>6, <3>1 DEF Knows, HoldsLock, Before, After
    <2>7. QED
      BY <1>3, <1>16, <2>5, <2>6 DEF AppendForensic
  <1>17. CASE CreateMarker(c)
    <2>1. owed # 0 => directory.state.shown >= owed
      BY <1>1, <1>17 DEF CreateMarker, Sound
    <2>2. /\ Files' /\ directory'.state = directory.state /\ directory'.marker = "torn"
          /\ lock' = lock
      BY <1>17, <2>1, MarkerChange DEF CreateMarker
    <2>3. Knows(c)'
      BY <1>1, <1>2, <1>17, <2>2 DEF CreateMarker, Knows, HoldsLock, Before, After
    <2>4. QED
      BY <2>2, <2>3
  <1>18. CASE FillMarker(c)
    <2>1. owed # 0 => directory.state.shown >= owed
      BY <1>1, <1>18 DEF FillMarker, Sound, Knows
    <2>2. /\ Files' /\ directory'.state = directory.state /\ directory'.marker = "unsynced"
          /\ lock' = lock
      BY <1>18, <2>1, MarkerChange DEF FillMarker
    <2>3. Knows(c)'
      BY <1>1, <1>2, <1>18, <2>2 DEF FillMarker, Knows, HoldsLock, Before, After
    <2>4. QED
      BY <2>2, <2>3
  <1>19. CASE SyncMarker(c) \/ KeepMarker(c)
    <2>1. directory.marker # "none" /\ txn[c].stage \in {"filled", "evidence"}
      BY <1>1, <1>19 DEF SyncMarker, KeepMarker, Knows, MarkerPresent
    <2>2. /\ Files' /\ directory'.state = directory.state /\ directory'.marker = "whole"
          /\ lock' = lock /\ Goto(c, "kept")
      BY <1>19, <2>1, MarkerSynced DEF SyncMarker, KeepMarker
    <2>3. Knows(c)'
      BY <1>1, <1>2, <2>1, <2>2 DEF Knows, HoldsLock, Before, After
    <2>4. QED
      BY <2>2, <2>3
  <1>20. CASE SyncEvidence(c)
    <2>1. txn[c].next = directory.state /\ directory.marker = "whole"
      BY <1>1, <1>20 DEF SyncEvidence, Knows, After
    <2>2. Files'
      BY <1>20, <2>1, DirectorySynced DEF SyncEvidence, Succeeded
    <2>3. QED
      BY <1>3, <1>20, <2>2 DEF SyncEvidence
  <1>21. CASE Fail(c)
    BY <1>3, <1>4, <1>21 DEF Fail
  <1>22. CASE FailMarker(c)
    <2>1. owed # 0 => directory.state.shown >= owed
      BY <1>1, <1>22 DEF FailMarker, Sound, Knows
    <2>2. Files'
      BY <1>4, <1>22, <2>1, MarkerChange DEF FailMarker
    <2>3. QED
      BY <1>3, <1>22, <2>2 DEF FailMarker
  <1>23. QED
    BY <1>7, <1>8, <1>9, <1>10, <1>11, <1>12, <1>13, <1>14, <1>15, <1>16, <1>17, <1>18, <1>19,
       <1>20, <1>21, <1>22 DEF Advance

LEMMA StoreInvNext == StoreInv /\ [Next]_vars => StoreInv'
  <1> SUFFICES ASSUME StoreInv, [Next]_vars PROVE StoreInv'
    OBVIOUS
  <1>1. TypeOK'
    BY TypeNext DEF StoreInv
  <1>2. txn \in [Clients -> Transaction]
    BY DEF StoreInv, TypeOK
  <1>3. (UnchangedFiles /\ UnchangedHistory) => Files'
    BY FilesKept DEF StoreInv
  <1>4. ASSUME NEW d \in Clients, txn'[d] = txn[d], UnchangedFiles,
               txn[d].stage \notin {"idle", "waiting"} => lock' = lock
        PROVE  Knows(d)'
    BY <1>4 DEF StoreInv, Knows, HoldsLock, Before, After, Replaces, Shows, UnchangedFiles
  <1>5. CASE UNCHANGED vars
    BY <1>1, <1>3, <1>4, <1>5 DEF vars, StoreInv, UnchangedFiles, UnchangedHistory
  <1>6. CASE PowerLoss
    BY <1>1, <1>6, PowerLossKeeps DEF StoreInv
  <1>7. ASSUME NEW c \in Clients, Begin(c) \/ LockTimeout(c)
        PROVE  StoreInv'
    <2>1. UnchangedFiles /\ UnchangedHistory /\ lock' = lock
      BY <1>7 DEF Begin, LockTimeout
    <2>2. txn'[c].stage \in {"idle", "waiting"} /\ \A d \in Clients : d # c => txn'[d] = txn[d]
      BY <1>2, <1>7 DEF Begin, LockTimeout, Goto, Ended, NoTransaction, Transaction
    <2>3. Knows(c)'
      BY <2>2 DEF Knows, HoldsLock, Before, After
    <2>4. QED
      BY <1>1, <1>3, <1>4, <2>1, <2>2, <2>3 DEF StoreInv
  <1>8. ASSUME NEW c \in Clients, acquireStateLock(c)
        PROVE  StoreInv'
    <2>1. UnchangedFiles /\ UnchangedHistory /\ lock' = c /\ lock = Free
      BY <1>8 DEF acquireStateLock
    <2>2. txn'[c].stage = "locked" /\ \A d \in Clients : d # c => txn'[d] = txn[d]
      BY <1>2, <1>8 DEF acquireStateLock, Goto, Transaction
    <2>3. Knows(c)'
      BY <2>1, <2>2 DEF Knows, HoldsLock, Before, After
    <2>4. \A d \in Clients : txn[d].stage \in {"idle", "waiting"}
      BY <2>1, StoreAssumption DEF StoreInv, Knows, HoldsLock
    <2>5. QED
      BY <1>1, <1>3, <1>4, <2>1, <2>2, <2>3, <2>4 DEF StoreInv
  <1>9. ASSUME NEW c \in Clients, Advance(c), ~acquireStateLock(c), ~LockTimeout(c)
        PROVE  StoreInv'
    BY <1>1, <1>9, HolderKeeps DEF StoreInv
  <1>10. ASSUME NEW c \in Clients, Kill(c)
         PROVE  StoreInv'
    <2>1. UnchangedFiles /\ UnchangedHistory /\ (lock # c => lock' = lock)
      BY <1>10 DEF Kill
    <2>2. txn'[c].stage = "idle" /\ \A d \in Clients : d # c => txn'[d] = txn[d]
      BY <1>2, <1>10 DEF Kill, Ended, NoTransaction
    <2>3. Knows(c)'
      BY <2>2 DEF Knows, HoldsLock, Before, After
    <2>4. \A d \in Clients : d # c /\ txn[d].stage \notin {"idle", "waiting"} => lock' = lock
      BY <2>1 DEF StoreInv, Knows, HoldsLock
    <2>5. QED
      BY <1>1, <1>3, <1>4, <2>1, <2>2, <2>3, <2>4 DEF StoreInv
  <1>11. QED
    BY <1>5, <1>6, <1>7, <1>8, <1>9, <1>10 DEF Next, Advance

LEMMA StoreInvariant == Spec => []StoreInv
  <1>1. QED
    BY InitialInv, StoreInvNext, PTL DEF Spec

-------------------------------------------------------------------------------
(* The theorems                                                            *)

(* worktree.json is one complete generation, now and after a power loss,   *)
(* at whatever call the process was.                                       *)
THEOREM GenerationsComplete == Spec => []OldOrCompleteNew
  <1>1. StoreInv => OldOrCompleteNew
    <2> SUFFICES ASSUME StoreInv, NEW d \in Recoverable \union {directory}
                 PROVE  d.canonical = "whole"
      BY DEF OldOrCompleteNew
    <2>1. CASE d = directory
      BY <2>1 DEF StoreInv, Files, Sound
    <2>2. CASE d \in Recoverable
      BY <2>2 DEF Recoverable, Outcomes, Survives, StoreInv, Files, Sound
    <2>3. QED
      BY <2>1, <2>2
  <1>2. QED
    BY <1>1, StoreInvariant, PTL

(* The evidence of a failed forensic append outlives crashes until every   *)
(* shell has shown it.                                                     *)
THEOREM EvidenceSurvives == Spec => []EvidenceKept
  <1>1. StoreInv => EvidenceKept
    <2> SUFFICES ASSUME StoreInv, owed # 0, NEW d \in Recoverable \union {directory}
                 PROVE  d.marker \in {"unsynced", "whole"} \/ d.state.shown >= owed
      BY DEF EvidenceKept
    <2>1. CASE d = directory
      BY <2>1 DEF StoreInv, Files, Sound
    <2>2. CASE d \in Recoverable
      BY <2>2 DEF Recoverable, Outcomes, Survives, StoreInv, Files, Sound
    <2>3. QED
      BY <2>1, <2>2
  <1>2. QED
    BY <1>1, StoreInvariant, PTL

(* A prefix, stated element by element, is the subsequence.                *)
LEMMA PrefixIsSubSeq ==
  ASSUME NEW s \in Seq(Clients), NEW t \in Seq(Clients), Prefix(s, t)
  PROVE  s = SubSeq(t, 1, Len(s))
  <1>1. Len(s) \in Nat /\ Len(t) \in Nat /\ Len(s) <= Len(t)
    BY DEF Prefix
  <1>2. \A i \in 1 .. Len(s) : t[i] \in Clients
    BY <1>1
  <1>3. /\ SubSeq(t, 1, Len(s)) \in Seq(Clients)
        /\ Len(SubSeq(t, 1, Len(s))) = Len(s)
        /\ \A i \in 1 .. Len(s) : SubSeq(t, 1, Len(s))[i] = t[i]
    BY <1>1, <1>2, SubSeqProperties, Z3
  <1>4. QED
    BY <1>1, <1>3, SeqEqual DEF Prefix

(* Transactions are serialised, a reported generation is never taken back, *)
(* and a crash takes back only the unreported end of the sequence: every   *)
(* system call is a step of the log of generations, or is not seen in it.  *)
THEOREM StoreImplementsLog == Spec => ImplementsGenerationLog
  <1>1. Init => Generations!Init
    BY DEF Init, Generations!Init, EmptyDirectory, EmptyState
  <1>2. ASSUME StoreInv, StoreInv', [Next]_vars
        PROVE  [Generations!Next]_(Generations!vars)
    <2> DEFINE seen == directory.state.lineage
    <2> USE DEF Generations!Next, Generations!vars
    <2>1. /\ directory \in Directory /\ seen \in Seq(Clients) /\ Len(seen) \in Nat
          /\ directory' \in Directory /\ seen' \in Seq(Clients) /\ Len(seen') \in Nat
          /\ acked \in Nat
      BY <1>2 DEF StoreInv, TypeOK, Directory, State
    <2>2. CASE UNCHANGED <<directory, acked>>
      BY <2>2
    <2>3. CASE PowerLoss
      <3>1. acked <= Len(seen') /\ Prefix(seen', seen) /\ acked' = acked
        BY <1>2, <2>3, PowerLossKeeps DEF PowerLoss, UnchangedHistory
      <3>2. seen' = SubSeq(seen, 1, Len(seen'))
        BY <2>1, <3>1, PrefixIsSubSeq
      <3>3. Len(seen') \in acked .. Len(seen)
        BY <2>1, <3>1 DEF Prefix
      <3>4. Generations!Lose
        BY <3>1, <3>2, <3>3 DEF Generations!Lose
      <3>5. QED
        BY <3>4
    <2>4. ASSUME NEW c \in Clients, Advance(c)
          PROVE  [Generations!Next]_(Generations!vars)
      <3>1. Knows(c)
        BY <1>2 DEF StoreInv
      <3>2. CASE Rename(c)
        <4>1. seen' = Append(seen, c) /\ acked' = acked
          BY <1>2, <3>2, RenameKeeps DEF Rename, UnchangedHistory
        <4>2. QED
          BY <4>1 DEF Generations!Write
      <3>3. CASE UnlinkMarker(c) \/ CreateMarker(c) \/ FillMarker(c) \/ FailMarker(c)
        <4>1. /\ acked' = acked
              /\ UnchangedFiles \/ \E m : directory' = [directory EXCEPT !.marker = m]
          BY <3>3 DEF UnlinkMarker, CreateMarker, FillMarker, FailMarker, Change, UnchangedHistory
        <4>2. directory'.state = directory.state
          BY <2>1, <4>1 DEF UnchangedFiles, Directory
        <4>3. QED
          BY <4>1, <4>2
      <3>4. CASE SyncMarker(c) \/ KeepMarker(c)
        <4>1. acked' = acked /\ directory'.state = directory.state
          BY <2>1, <3>4 DEF SyncMarker, KeepMarker, SyncMarkerFile, SyncedMarker, UnchangedHistory,
             Directory
        <4>2. QED
          BY <4>1
      <3>5. CASE AppendForensic(c) \/ SyncEvidence(c)
        <4>1. txn[c].next = directory.state
          BY <3>1, <3>5 DEF AppendForensic, SyncEvidence, At, Knows, After
        <4>2. directory' = directory /\ acked' \in {acked, Len(seen)}
          BY <3>5, <4>1
          DEF AppendForensic, SyncEvidence, SyncDirectory, UnchangedFiles, Succeeded
        <4>3. QED
          BY <4>2 DEF Generations!Confirm
      <3>6. CASE /\ ~Rename(c) /\ ~UnlinkMarker(c) /\ ~CreateMarker(c) /\ ~FillMarker(c)
                 /\ ~FailMarker(c) /\ ~SyncMarker(c) /\ ~KeepMarker(c)
                 /\ ~AppendForensic(c) /\ ~SyncEvidence(c)
        <4>1. UNCHANGED <<directory, acked>>
          BY <2>4, <3>6
          DEF Advance, acquireStateLock, LockTimeout, Mutate, ReturnUnchanged, ClearOnly,
              WriteTemporary, SyncTemporary, SyncRename, SyncUnlink, Fail, SyncDirectory,
              UnchangedFiles, UnchangedHistory
        <4>2. QED
          BY <2>2, <4>1
      <3>7. QED
        BY <3>2, <3>3, <3>4, <3>5, <3>6
    <2>5. ASSUME NEW c \in Clients, Begin(c) \/ Kill(c)
          PROVE  [Generations!Next]_(Generations!vars)
      BY <2>2, <2>5 DEF Begin, Kill, UnchangedFiles, UnchangedHistory
    <2>6. QED
      BY <1>2, <2>2, <2>3, <2>4, <2>5 DEF Next, vars
  <1>3. QED
    BY <1>1, <1>2, StoreInvariant, PTL DEF Spec, ImplementsGenerationLog, Generations!Spec
===============================================================================
