-------------------------- MODULE CfwUpdaterProofs --------------------------
(***************************************************************************)
(* The update of the CFW, for any number of managed paths, every package   *)
(* and both kinds of console: its types, for all I/O errors and power      *)
(* cuts; and what any number of power cuts cannot do to a card that        *)
(* returns no I/O errors.                                                  *)
(***************************************************************************)
EXTENDS CfwUpdaterProperties, TLAPS

-----------------------------------------------------------------------------
(* Types.                                                                  *)

\* Going on at a place, or at the next path of a loop, leads to a place.
LEMMA EnterType ==
    ASSUME TypeOK, NEW l \in Places, Enter(l)
    PROVE  pc' \in Places /\ i' \in Paths /\ decided' \in BOOLEAN
<1>1. pc' \in Places
      BY DEF Enter
<1>2. i' \in Paths
      BY CfwAssumption DEF Enter, Paths
<1>3. decided' \in BOOLEAN
      BY Zenon DEF Enter, TypeOK
<1> QED BY <1>1, <1>2, <1>3

LEMMA NextPathType ==
    ASSUME TypeOK, NEW l \in Places, NextPath(l)
    PROVE  pc' \in Places /\ i' \in Paths /\ decided' \in BOOLEAN
<1>1. CASE i < N
  <2>1. pc' = pc /\ i' = i + 1 /\ decided' = decided
        BY <1>1 DEF NextPath
  <2>2. i' \in Paths
        BY <1>1, <2>1, CfwAssumption DEF TypeOK, Paths
  <2> QED BY <2>1, <2>2, Zenon DEF TypeOK
<1>2. CASE ~(i < N)
      BY <1>2, EnterType DEF NextPath
<1> QED BY <1>1, <1>2

\* The tables of continuations name places only.
LEMMA Tables ==
    ASSUME TypeOK
    PROVE  /\ pc \in States => AfterWrite[pc] \in Places /\ AfterFailedWrite[pc] \in Places
           /\ AfterRemoval(pc) \in Places
<1> USE DEF Places, States, Loops, CommitSteps, Pages, Run, Horizon, Commit, Rollback
<1>1. pc \in States => AfterWrite[pc] \in Places
      BY DEF AfterWrite
<1>2. pc \in States => AfterFailedWrite[pc] \in Places
      BY DEF AfterFailedWrite
<1>3. AfterRemoval(pc) \in Places
      BY DEF AfterRemoval
<1> QED BY <1>1, <1>2, <1>3

\* The files of the update, and those of them that hold a payload.
OwnFiles == {"saved", "next", "live"}
DiskType == disk \in [Files -> DiskContents] /\ \A f \in OwnFiles : disk[f] \in Contents

\* Contents of the root of the card, of the backup and of a file.
LEMMA PutType ==
    ASSUME TypeOK
    PROVE  /\ \A p \in Paths, c \in Contents : PutRoot(p, c) => root' \in [Paths -> Contents]
           /\ \A f \in Files, c \in Contents : Put(f, c) => DiskType'
           /\ \A f \in Files \ OwnFiles, c \in DiskContents : Put(f, c) => DiskType'
  BY DEF TypeOK, PutRoot, Put, DiskType, OwnFiles, DiskContents, Files

\* What is lost is of the package.
LEMMA LostType ==
    ASSUME TypeOK
    PROVE  /\ PartOfNew \/ UNCHANGED lost => lost' \in SUBSET Package
           /\ PartOfRoot => lost' \in SUBSET Package
  BY DEF TypeOK, PartOfNew, PartOfRoot, Removable

\* Removal keeps the types, finished or not.
LEMMA RemovalType ==
    ASSUME TypeOK
    PROVE  /\ \A g, m : \A t \in {0} \cup Paths :
                 PartOfBackup(g, t, m) => bak' \in [Paths -> Contents] /\ mark' \in SUBSET Paths
           /\ PartOfNew => DiskType'
           /\ \A g : RemoveEntries(g) => /\ state' \in Records /\ tmp' \in Records
                                         /\ DiskType'
<1>1. ASSUME NEW g, NEW m, NEW t \in {0} \cup Paths, PartOfBackup(g, t, m)
      PROVE  bak' \in [Paths -> Contents] /\ mark' \in SUBSET Paths
      BY <1>1 DEF PartOfBackup, TypeOK, Contents
<1>2. PartOfNew => DiskType'
      BY DEF PartOfNew, Put, TypeOK, DiskContents, Contents, DiskType, OwnFiles, Files
<1>3. ASSUME NEW g, RemoveEntries(g)
      PROVE  /\ state' \in Records /\ tmp' \in Records
             /\ DiskType'
  <2>1. DiskType'
        BY <1>3 DEF RemoveEntries, TypeOK, DiskContents, Contents, DiskType, OwnFiles, Files
  <2>2. state' \in Records /\ tmp' \in Records
        BY <1>3 DEF RemoveEntries, TypeOK, JournalTypeOK, Records, Blank
  <2> QED BY <2>1, <2>2
<1> QED BY <1>1, <1>2, <1>3

\* TypeOK holds at first.
LEMMA TypeInit == Init => TypeOK
<1> SUFFICES ASSUME Init PROVE TypeOK
    OBVIOUS
<1> USE CfwAssumption DEF Init
<1>1. JournalTypeOK
      BY DEF JournalTypeOK, Records, WriteSteps, Blank
<1>2. /\ root \in [Paths -> Contents] /\ bak \in [Paths -> Contents] /\ mark \in SUBSET Paths
      /\ DiskType
      BY DEF Contents, DiskContents, DiskType, OwnFiles, Files
<1>3. pc \in Places /\ i \in Paths /\ st \in States \cup {"none", "Partial"} /\ goal \in Goals
      BY DEF Places, Horizon, Paths, Goals
<1>4. err \in BOOLEAN /\ decided \in BOOLEAN /\ patched \in Consoles /\ orig \in SUBSET Paths
      BY Zenon
<1>5. crashes \in 0..MaxCrashes
      OBVIOUS
<1> QED BY <1>1, <1>2, <1>3, <1>4, <1>5 DEF TypeOK, DiskType, OwnFiles

\* Every step of write_state keeps the types of the journal.
LEMMA WriteStepType ==
    ASSUME TypeOK, pc \in States, WriteStep \/ WriteShort
    PROVE  JournalTypeOK'
  BY CfwAssumption DEF TypeOK, JournalTypeOK, WriteStep, WriteShort, WriteMkdir, WriteClear,
     WriteOpen, WriteSync, WriteDrop, WriteRename, Records, WriteSteps, Blank, Fault, NoFault

\* An error is counted within the bound.
LEMMA FaultType ==
    ASSUME TypeOK, NoFault \/ \E k : Fault(k)
    PROVE  faults' \in 0..MaxFaults
  BY CfwAssumption DEF TypeOK, JournalTypeOK, Fault, NoFault

\* The payload's part of TypeStep: starting, the journal and the loops.
LEMMA TypeRun ==
    ASSUME TypeOK,
           \/ IplMain \/ EasyRenameUnlink \/ EasyRename \/ ReadJournal \/ CheckPackage
           \/ WriteState \/ WriteStateDone \/ BackupDir \/ BackupPath \/ CopyPath \/ Verify
    PROVE  TypeOK'
<1> USE DEF TypeOK, DiskType, OwnFiles, JournalTypeOK, journal, backup, locals, given, history
<1>1. CASE IplMain
      BY <1>1 DEF IplMain, Places, Run
<1>2. CASE EasyRenameUnlink \/ EasyRename
  <2>1. faults' \in 0..MaxFaults
        BY <1>2, FaultType DEF EasyRenameUnlink, EasyRename
  <2>2. root' \in [Paths -> Contents]
        BY <1>2 DEF EasyRenameUnlink, EasyRename, PutRoot, Contents, Files, DiskContents
  <2> QED BY <1>2, <2>1, <2>2
          DEF EasyRenameUnlink, EasyRename, Places, Run, Put, Contents, DiskContents, Files
<1>3. CASE ReadJournal
  <2>1. PICK s \in States \cup {"none", "Partial"}, ready \in BOOLEAN, dir \in BOOLEAN :
            /\ Enter(Dispatch(s, ready, dir))
            /\ st' = IF s = "none" THEN "STAGED" ELSE s
        BY <1>3 DEF ReadJournal
  <2>2. Dispatch(s, ready, dir) \in Places
        BY DEF Dispatch, Places, States, Pages, Run, Rollback, Commit
  <2>3. pc' \in Places /\ i' \in Paths /\ decided' \in BOOLEAN
        BY <2>1, <2>2, EnterType
  <2>4. st' \in States \cup {"none", "Partial"}
        BY <2>1 DEF States
  <2>5. faults' \in 0..MaxFaults
        BY <1>3, FaultType DEF ReadJournal
  <2> QED BY <1>3, <2>3, <2>4, <2>5 DEF ReadJournal
<1>4. CASE CheckPackage
  <2>1. PICK l \in Places : Enter(l)
    <3>1. Resume(st) \in Places /\ Rollback \in Places /\ "abort" \in Places
          BY DEF Resume, Places, States, Run, Loops, Rollback, Commit
    <3> QED BY <1>4, <3>1 DEF CheckPackage
  <2>2. pc' \in Places /\ i' \in Paths /\ decided' \in BOOLEAN
        BY <2>1, EnterType
  <2>3. faults' \in 0..MaxFaults
        BY <1>4, FaultType DEF CheckPackage
  <2> QED BY <1>4, <2>2, <2>3 DEF CheckPackage
<1>5. CASE WriteState
      BY <1>5, WriteStepType DEF WriteState
<1>6. CASE WriteStateDone
  <2>1. PICK l \in Places : Enter(l)
        BY <1>6, Tables DEF WriteStateDone
  <2>2. pc' \in Places /\ i' \in Paths /\ decided' \in BOOLEAN
        BY <2>1, EnterType
  <2> QED BY <1>6, <2>2 DEF WriteStateDone, WriteSteps, Goals
<1>7. CASE BackupDir
  <2>1. PICK l \in Places : Enter(l)
        BY <1>7 DEF BackupDir, Places, States, Loops, Rollback
  <2>2. pc' \in Places /\ i' \in Paths /\ decided' \in BOOLEAN
        BY <2>1, EnterType
  <2>3. faults' \in 0..MaxFaults
        BY <1>7, FaultType DEF BackupDir
  <2>4. DiskType'
        BY <1>7 DEF BackupDir, Put, DiskContents, Files
  <2> QED BY <1>7, <2>2, <2>3, <2>4 DEF BackupDir
<1>8. CASE BackupPath
  <2>1. Rollback \in Places /\ "BACKUP_COMPLETE" \in Places
        BY DEF Places, States, Rollback
  <2>2. /\ Enter(Rollback) \/ NextPath("BACKUP_COMPLETE")
        /\ mark' \in {mark, mark \cup {i}}
        /\ MoveToBackup \/ UNCHANGED <<root, bak, disk>>
        BY <1>8 DEF BackupPath, BackUp
  <2>3. pc' \in Places /\ i' \in Paths /\ decided' \in BOOLEAN
        BY <2>1, <2>2, EnterType, NextPathType
  <2>4. /\ root' \in [Paths -> Contents] /\ bak' \in [Paths -> Contents]
        /\ DiskType'
    <3>1. CASE UNCHANGED <<root, bak, disk>>
          BY <3>1
    <3>2. CASE MoveToBackup
      <4>1. Original \in Contents
            BY DEF Original, Files, DiskContents, Contents, Paths
      <4>2. bak' \in [Paths -> Contents]
            BY <3>2, <4>1 DEF MoveToBackup
      <4>3. root' \in [Paths -> Contents]
            BY <3>2 DEF MoveToBackup, PutRoot, Contents
      <4>4. DiskType'
            BY <3>2 DEF MoveToBackup, Put, DiskContents, Contents, Files
      <4> QED BY <4>2, <4>3, <4>4
    <3> QED BY <2>2, <3>1, <3>2
  <2>5. faults' \in 0..MaxFaults
        BY <1>8, FaultType DEF BackupPath
  <2> QED BY <1>8, <2>2, <2>3, <2>4, <2>5 DEF BackupPath
<1>9. CASE CopyPath
  <2>1. Rollback \in Places /\ "verify" \in Places
        BY DEF Places, States, Run, Rollback
  <2>2. pc' \in Places /\ i' \in Paths /\ decided' \in BOOLEAN
        BY <1>9, <2>1, EnterType, NextPathType DEF CopyPath
  <2>3. root' \in [Paths -> Contents]
        BY <1>9 DEF CopyPath, PutRoot, Overlay, Overlaid, Contents
  <2>4. faults' \in 0..MaxFaults
        BY <1>9, FaultType DEF CopyPath
  <2>5. lost' \in SUBSET Package /\ partial' \in BOOLEAN
        BY <1>9, Zenon DEF CopyPath, Copying
  <2> QED BY <1>9, <2>2, <2>3, <2>4, <2>5 DEF CopyPath, Copying
<1>10. CASE Verify
  <2>1. Rollback \in Places /\ "COPY_COMPLETE" \in Places
        BY DEF Places, States, Rollback
  <2>2. pc' \in Places /\ i' \in Paths /\ decided' \in BOOLEAN
        BY <1>10, <2>1, EnterType DEF Verify
  <2>3. root' \in [Paths -> Contents]
        BY <1>10 DEF Verify, Contents
  <2>4. faults' \in 0..MaxFaults
        BY <1>10, FaultType DEF Verify
  <2> QED BY <1>10, <2>2, <2>3, <2>4 DEF Verify
<1> QED BY <1>1, <1>2, <1>3, <1>4, <1>5, <1>6, <1>7, <1>8, <1>9, <1>10

\* Finalisation, rollback and abort.
LEMMA TypeRollback ==
    ASSUME TypeOK, FinalizeStep \/ RollbackStep \/ Abort \/ AbortRename
    PROVE  TypeOK'
<1> USE DEF TypeOK, DiskType, OwnFiles, JournalTypeOK, journal, backup, locals, given, history
<1>0. /\ Rollback \in Places /\ Commit \in Places /\ "ROLLBACK_FAILED" \in Places
      /\ {"fin_copy", "fin_keep", "fin_swap", "restore", "restore_saved", "rm_aside", "rm_root",
          "abort_rename", "restored", "unchanged", "fatal"} \subseteq Places
      BY DEF Places, States, Run, Loops, Pages, Rollback, Commit
<1>1. CASE Finalize \/ FinalizeCopy
  <2>1. PICK l \in Places : Enter(l)
        BY <1>0, <1>1 DEF Finalize, FinalizeCopy
  <2>2. pc' \in Places /\ i' \in Paths /\ decided' \in BOOLEAN
        BY <2>1, EnterType
  <2>3. DiskType'
        BY <1>1 DEF Finalize, FinalizeCopy, Put, DiskContents, Contents, Files
  <2>4. faults' \in 0..MaxFaults
        BY <1>1, FaultType DEF Finalize, FinalizeCopy
  <2> QED BY <1>1, <2>2, <2>3, <2>4 DEF Finalize, FinalizeCopy
<1>2. CASE FinalizeKeep \/ FinalizeSwap
  <2>1. PICK l \in Places : Enter(l)
        BY <1>0, <1>2 DEF FinalizeKeep, FinalizeSwap
  <2>2. pc' \in Places /\ i' \in Paths /\ decided' \in BOOLEAN
        BY <2>1, EnterType
  <2>3. Payload \in Paths
        BY CfwAssumption DEF Paths, Payload
  <2>4. root' \in [Paths -> Contents] /\ DiskType'
        BY <1>2, <2>3 DEF FinalizeKeep, FinalizeSwap, Put, PutRoot, DiskContents, Contents, Files
  <2>5. faults' \in 0..MaxFaults
        BY <1>2, FaultType DEF FinalizeKeep, FinalizeSwap
  <2> QED BY <1>2, <2>2, <2>4, <2>5 DEF FinalizeKeep, FinalizeSwap
<1>3. CASE UndoPath
  <2>1. pc' \in Places /\ i' \in Paths /\ decided' \in BOOLEAN
        BY <1>0, <1>3, EnterType, NextPathType DEF UndoPath, Undo
  <2>2. root' \in [Paths -> Contents]
        BY <1>3 DEF UndoPath, Undo, PutRoot, Remains, Contents
  <2>3. mark' \in SUBSET Paths
        BY <1>3 DEF UndoPath, Undo
  <2>4. faults' \in 0..MaxFaults
        BY <1>3, FaultType DEF UndoPath
  <2> QED BY <1>3, <2>1, <2>2, <2>3, <2>4 DEF UndoPath
<1>4. CASE RestorePath
  <2>1. pc' \in Places /\ i' \in Paths /\ decided' \in BOOLEAN
        BY <1>0, <1>4, NextPathType DEF RestorePath
  <2>2. root' \in [Paths -> Contents] /\ bak' \in [Paths -> Contents]
        BY <1>4 DEF RestorePath, PutRoot, Remains, Contents
  <2>3. err' \in BOOLEAN
        BY <1>4 DEF RestorePath
  <2>4. faults' \in 0..MaxFaults
        BY <1>4, FaultType DEF RestorePath
  <2> QED BY <1>4, <2>1, <2>2, <2>3, <2>4 DEF RestorePath
<1>5. CASE RestoreSaved
  <2>1. PICK l \in Places : Enter(l)
        BY <1>0, <1>5 DEF RestoreSaved
  <2>2. pc' \in Places /\ i' \in Paths /\ decided' \in BOOLEAN
        BY <2>1, EnterType
  <2>3. Payload \in Paths
        BY CfwAssumption DEF Paths, Payload
  <2>4. root' \in [Paths -> Contents] /\ DiskType'
        BY <1>5, <2>3 DEF RestoreSaved, Put, PutRoot, DiskContents, Contents, Files
  <2>5. err' \in BOOLEAN
        BY <1>5 DEF RestoreSaved
  <2>6. faults' \in 0..MaxFaults
        BY <1>5, FaultType DEF RestoreSaved
  <2> QED BY <1>5, <2>2, <2>4, <2>5, <2>6 DEF RestoreSaved, Goals
<1>6. CASE RemoveAside
  <2>1. pc' \in Places /\ i' \in Paths /\ decided' \in BOOLEAN
        BY <1>0, <1>6, EnterType DEF RemoveAside
  <2>2. DiskType'
        BY <1>6 DEF RemoveAside, DiskContents, Contents, Files
  <2>3. faults' \in 0..MaxFaults
        BY <1>6, FaultType DEF RemoveAside
  <2> QED BY <1>6, <2>1, <2>2, <2>3 DEF RemoveAside
<1>7. CASE RemoveRoot
  <2>1. /\ bak' \in [Paths -> Contents] /\ mark' \in SUBSET Paths
        /\ state' \in Records /\ tmp' \in Records /\ DiskType'
    <3>1. ASSUME NEW g, RemoveEntries(g)
          PROVE  state' \in Records /\ tmp' \in Records /\ DiskType'
          BY <3>1, RemovalType
    <3>2. ASSUME NEW g, NEW m, NEW t \in {0} \cup Paths, PartOfBackup(g, t, m)
          PROVE  bak' \in [Paths -> Contents] /\ mark' \in SUBSET Paths
          BY <3>2, RemovalType
    <3>3. PartOfNew => DiskType'
          BY RemovalType
    <3> HIDE DEF TypeOK, DiskType, JournalTypeOK
    <3>4. TypeOK => /\ bak \in [Paths -> Contents] /\ mark \in SUBSET Paths
                    /\ state \in Records /\ tmp \in Records
          BY DEF TypeOK, JournalTypeOK
    <3> QED BY <1>7, <3>1, <3>2, <3>3, <3>4 DEF RemoveRoot, PartOfRoot
  <2>2. pc' \in Places
        BY <1>0, <1>7 DEF RemoveRoot
  <2>3. faults' \in 0..MaxFaults
        BY <1>7, FaultType DEF RemoveRoot
  <2>4. lost' \in SUBSET Package
        BY <1>7, LostType DEF RemoveRoot
  <2> QED BY <1>7, <2>1, <2>2, <2>3, <2>4 DEF RemoveRoot
<1>8. CASE Abort \/ AbortRename
  <2>1. Payload \in Paths
        BY CfwAssumption DEF Paths, Payload
  <2>2. root' \in [Paths -> Contents] /\ DiskType'
        BY <1>8, <2>1 DEF Abort, AbortRename, Put, PutRoot, DiskContents, Contents, Files
  <2>3. faults' \in 0..MaxFaults
        BY <1>8, FaultType DEF Abort, AbortRename
  <2> QED BY <1>0, <1>8, <2>2, <2>3 DEF Abort, AbortRename, Goals
<1> QED BY <1>1, <1>2, <1>3, <1>4, <1>5, <1>6, <1>7, <1>8 DEF FinalizeStep, RollbackStep

\* The removals of a commit, the result pages, and Horizon.
LEMMA TypeCommit ==
    ASSUME TypeOK, CommitStep \/ ResultShown
    PROVE  TypeOK'
<1> USE DEF TypeOK, DiskType, OwnFiles, JournalTypeOK, journal, backup, locals, given, history
<1>1. CASE CommitStep
  <2>1. PICK l \in Places : Enter(l)
    <3>1. AfterRemoval(pc) \in Places
          BY Tables
    <3>2. {"warning", "rm_backup", "home"} \subseteq Places
          BY DEF Places, Pages, CommitSteps, Horizon
    <3> QED BY <1>1, <3>1, <3>2 DEF CommitStep, RemoveBackup, RemoveFile, RemoveJournal, Removed, NotRemoved
  <2>2. pc' \in Places /\ i' \in Paths /\ decided' \in BOOLEAN
        BY <2>1, EnterType
  <2>3. faults' \in 0..MaxFaults
        BY <1>1, FaultType DEF CommitStep, RemoveBackup, RemoveFile, RemoveJournal, Removed, NotRemoved
  <2>4. CASE RemoveBackup
    <3>1. bak' \in [Paths -> Contents] /\ mark' \in SUBSET Paths
          BY <2>4, RemovalType DEF RemoveBackup
    <3>2. DiskType'
          BY <2>4 DEF RemoveBackup, Put, DiskContents, Contents, Files
    <3> QED BY <2>2, <2>3, <2>4, <3>1, <3>2 DEF RemoveBackup
  <2>5. CASE RemoveFile
    <3>1. DiskType'
      <4>1. PartOfNew => DiskType'
            BY RemovalType
      <4>2. FileOf[pc] \in Files /\ Put(FileOf[pc], "Absent") => DiskType'
            BY DEF Put, DiskContents, Contents, Files
      <4>3. pc \in DOMAIN FileOf => FileOf[pc] \in Files
            BY DEF FileOf, Files
      <4> QED BY <2>5, <4>1, <4>2, <4>3 DEF RemoveFile
    <3>2. lost' \in SUBSET Package
          BY <2>5, LostType DEF RemoveFile
    <3> QED BY <2>2, <2>3, <2>5, <3>1, <3>2 DEF RemoveFile
  <2>6. CASE RemoveJournal
        BY <2>2, <2>3, <2>6 DEF RemoveJournal, Records, Blank
  <2> QED BY <1>1, <2>4, <2>5, <2>6 DEF CommitStep
<1>2. CASE ResultShown
  <2>1. err' \in BOOLEAN
        BY <1>2, Zenon DEF ResultShown, Forget
  <2> QED BY <1>2, <2>1, CfwAssumption
          DEF ResultShown, Forget, Places, WriteSteps, Paths, Goals
<1> QED BY <1>1, <1>2

LEMMA TypeHorizon ==
    ASSUME TypeOK, HorizonStep
    PROVE  TypeOK'
<1> USE DEF TypeOK, DiskType, OwnFiles, JournalTypeOK, journal, backup, locals, given, history
<1>0. /\ {"boot", "hz_commit", "home", "extract", "stage_state", "stage_ready", "confirm", "save",
          "arm", "disarm", "reboot", "rm_saved", "rm_backup", "ipl_main", "off"} \subseteq Places
      /\ Payload \in Paths /\ 1 \in Paths
      BY CfwAssumption DEF Places, CommitSteps, Run, Horizon, Payload, Paths
<1>1. CASE HorizonBoot
  <2>1. PICK l \in Places : Enter(l)
        BY <1>0, <1>1 DEF HorizonBoot
  <2>2. pc' \in Places /\ i' \in Paths /\ decided' \in BOOLEAN
        BY <2>1, EnterType
  <2> QED BY <1>1, <2>2 DEF HorizonBoot, Goals
<1>2. CASE HorizonCommit
  <2>1. state' \in Records /\ tmp' \in Records
        BY <1>2 DEF HorizonCommit, Records, Blank, States, Commit
  <2>2. decided' \in BOOLEAN
        BY <1>2 DEF HorizonCommit
  <2>3. faults' \in 0..MaxFaults
        BY <1>2, FaultType DEF HorizonCommit
  <2> QED BY <1>0, <1>2, <2>1, <2>2, <2>3 DEF HorizonCommit, Goals
<1>3. CASE StageBegin
  <2>1. root' \in [Paths -> Contents] /\ orig' \in SUBSET Paths
        BY <1>3 DEF StageBegin, Contents
  <2>2. DiskType'
        BY <1>3 DEF StageBegin, DiskContents, Contents, Files
  <2>3. decided' \in BOOLEAN
        BY <1>3, Zenon DEF StageBegin
  <2> QED BY <1>0, <1>3, <2>1, <2>2, <2>3 DEF StageBegin, Records, Blank, Goals
<1>4. CASE StageExtract \/ StageReady \/ StageState
  <2>1. DiskType'
        BY <1>4 DEF StageExtract, StageReady, StageState, Put, DiskContents, Contents, Files
  <2>2. state' \in Records /\ tmp' \in Records
        BY <1>4 DEF StageExtract, StageReady, StageState, Records, Blank, States
  <2>3. faults' \in 0..MaxFaults
        BY <1>4, FaultType DEF StageExtract, StageReady, StageState
  <2> QED BY <1>0, <1>4, <2>1, <2>2, <2>3 DEF StageExtract, StageReady, StageState
<1>5. CASE ConfirmRestart
      BY <1>0, <1>5 DEF ConfirmRestart
<1>6. CASE TurnOff
  <2>1. err' \in BOOLEAN
        BY <1>6, Zenon DEF TurnOff, Forget
  <2> QED BY <1>0, <1>6, <2>1 DEF TurnOff, Forget, WriteSteps, Goals
<1>7. CASE SavePayload
  <2>1. DiskType'
        BY <1>0, <1>7 DEF SavePayload, Put, DiskContents, Contents, Files
  <2>2. faults' \in 0..MaxFaults
        BY <1>7, FaultType DEF SavePayload
  <2> QED BY <1>0, <1>7, <2>1, <2>2 DEF SavePayload
<1>8. CASE ArmPayload \/ DisarmPayload
  <2>1. root' \in [Paths -> Contents]
        BY <1>0, <1>8 DEF ArmPayload, DisarmPayload, PutRoot, Contents
  <2>2. faults' \in 0..MaxFaults
        BY <1>8, FaultType DEF ArmPayload, DisarmPayload
  <2> QED BY <1>0, <1>8, <2>1, <2>2 DEF ArmPayload, DisarmPayload
<1>9. CASE Reboot
  <2>1. faults' \in 0..MaxFaults
        BY <1>9, FaultType DEF Reboot
  <2> QED BY <1>0, <1>9, <2>1 DEF Reboot
<1> QED BY <1>1, <1>2, <1>3, <1>4, <1>5, <1>6, <1>7, <1>8, <1>9 DEF HorizonStep

\* A power cut, whatever it interrupts.
LEMMA TypePower ==
    ASSUME TypeOK, PowerLoss
    PROVE  TypeOK'
<1> USE DEF TypeOK, DiskType, OwnFiles, JournalTypeOK, journal, backup, locals, given, history
<1>1. Payload \in Paths /\ 1 \in Paths
      BY CfwAssumption DEF Payload, Paths
<1>2. root' \in [Paths -> Contents]
      BY <1>1 DEF PowerLoss, CutInTree, PutRoot, Overlay, Remains, Contents
<1>3. CutInFile => DiskType'
      BY RemovalType DEF CutInFile, Put, DiskContents, Contents, Files
<1>4. CutInBackup => bak' \in [Paths -> Contents] /\ mark' \in SUBSET Paths
      BY RemovalType DEF CutInBackup
<1>5. CutInJournal => state' \in Records /\ tmp' \in Records /\ decided' \in BOOLEAN
  <2>1. CutInJournal => state' \in Records /\ tmp' \in Records
        BY DEF CutInJournal, Records, Blank, States, Commit
  <2>2. CutInJournal => decided' \in BOOLEAN
        BY Zenon DEF CutInJournal
  <2> QED BY <2>1, <2>2
<1>6. PartOfRoot => /\ bak' \in [Paths -> Contents] /\ mark' \in SUBSET Paths
                    /\ state' \in Records /\ tmp' \in Records /\ DiskType'
  <2>1. ASSUME NEW g, RemoveEntries(g)
        PROVE  state' \in Records /\ tmp' \in Records /\ DiskType'
        BY <2>1, RemovalType
  <2>2. ASSUME NEW g, NEW m, NEW t \in {0} \cup Paths, PartOfBackup(g, t, m)
        PROVE  bak' \in [Paths -> Contents] /\ mark' \in SUBSET Paths
        BY <2>2, RemovalType
  <2>3. PartOfNew => DiskType'
        BY RemovalType
  <2> HIDE DEF TypeOK, DiskType, JournalTypeOK
  <2>4. TypeOK => /\ bak \in [Paths -> Contents] /\ mark \in SUBSET Paths
                  /\ state \in Records /\ tmp \in Records
        BY DEF TypeOK, JournalTypeOK
  <2> QED BY <2>1, <2>2, <2>3, <2>4 DEF PartOfRoot
<1>7. /\ bak' \in [Paths -> Contents] /\ mark' \in SUBSET Paths
      /\ state' \in Records /\ tmp' \in Records /\ DiskType'
      BY <1>3, <1>4, <1>5, <1>6 DEF PowerLoss
<1>8. decided' \in BOOLEAN
  <2>1. CutInJournal \/ decided' = decided
        BY DEF PowerLoss
  <2> QED BY <1>5, <2>1
<1>9. err' \in BOOLEAN
      BY Zenon DEF PowerLoss, Forget
<1>10. crashes' \in 0..MaxCrashes
      BY CfwAssumption DEF PowerLoss
<1>11. lost' \in SUBSET Package
      BY LostType DEF PowerLoss, CutInFile
<1> QED BY <1>1, <1>2, <1>7, <1>8, <1>9, <1>10, <1>11 DEF PowerLoss, Forget, Places, WriteSteps, Goals

\* TypeOK is inductive.
LEMMA TypeStep == TypeOK /\ [Next]_vars => TypeOK'
<1> SUFFICES ASSUME TypeOK, [Next]_vars PROVE TypeOK'
    OBVIOUS
<1>1. CASE PowerOn \/ Launch
      BY <1>1 DEF PowerOn, Launch, TypeOK, JournalTypeOK, journal, backup, locals, given, history,
                  Places, Run, Horizon
<1>2. CASE PayloadStep
      BY <1>2, TypeRun, TypeRollback, TypeCommit DEF PayloadStep
<1>3. CASE UNCHANGED vars
      BY <1>3 DEF vars, TypeOK, JournalTypeOK
<1> QED BY <1>1, <1>2, <1>3, TypeHorizon, TypePower DEF Next

\* aio_cfw_update_run and Horizon's staging and finalisation keep the state of
\* the updater and of the card within its types, whatever errors and power cuts.
THEOREM CfwTypes == Spec => []TypeOK
  BY TypeInit, TypeStep, PTL DEF Spec

-----------------------------------------------------------------------------
(* Recovery.                                                               *)

\* The card returns no I/O errors and is never full; power cuts remain.
NoErrors == Faults = {}

\* Each action keeps CfwCrashInv.
LEMMA CrashStep == ASSUME NoErrors, CfwCrashInv, [Next]_vars PROVE CfwCrashInv'
<1>0. TypeOK'
      BY TypeStep DEF CfwCrashInv
<1>a. /\ ~Fault("write") /\ ~Fault("read") /\ ~Fault("short") /\ ~Fault("reboot")
      /\ ~Fault("partial")
      BY DEF NoErrors, Fault
<1>b. Payload \in Paths /\ Core \in Paths /\ N \in Nat /\ N > 1 /\ Paths = 1..N /\ Payload # Core
      BY CfwAssumption DEF Paths, Payload, Core
<1> DEFINE Rest == /\ WriteInProgress /\ CommitDecided /\ BackupInDir
                   /\ BootedFromPayload /\ PatchedOnly /\ (decided \/ BeforeCommit)
<1> SUFFICES Rest'
    BY <1>0 DEF CfwCrashInv
<1> USE <1>a, <1>b DEF CfwCrashInv, TypeOK, JournalTypeOK, WriteInProgress, CommitDecided, BackupInDir, BootedFromPayload,
        PatchedOnly, BeforeCommit, CardAccounted, SavedAccounted, RecordsTrue, LoopsInOrder,
        SentinelsTrue, OriginalsKept, Kept, Previous, Secured, Untouched, BackedUp, Installing,
        Updating, Put, PutRoot, Exists, Pending, NoFault, journal, backup, locals, given, history,
        States, Loops, CommitSteps, Pages, Run, Horizon, Commit, Rollback, Files
<1>1. CASE PowerOn
      BY <1>1 DEF PowerOn
<1>2. CASE Launch
      BY <1>2 DEF Launch
<1>3. CASE IplMain
      BY <1>3 DEF IplMain
<1>4. CASE EasyRenameUnlink
      BY <1>4 DEF EasyRenameUnlink
<1>5. CASE EasyRename
      BY <1>5 DEF EasyRename
<1>6. CASE ReadJournal
  <2> USE <1>6 DEF ReadJournal, Dispatch, Enter, read_state, Readable, Blank
  <2>1. WriteInProgress'
        OBVIOUS
  <2>2. CommitDecided'
        OBVIOUS
  <2>3. BackupInDir'
        OBVIOUS
  <2>4. BootedFromPayload' /\ PatchedOnly'
        OBVIOUS
  <2>5. decided' \/ CardAccounted'
        OBVIOUS
  <2>6. decided' \/ SavedAccounted'
        OBVIOUS
  <2>7. decided' \/ RecordsTrue'
    <3>1. st' \in BackedUp => st' \in {state, tmp}
          OBVIOUS
    <3>2. pc' \notin Installing
          OBVIOUS
    <3>3. (state' = state /\ tmp' = tmp) /\ (Secured' <=> Secured)
          OBVIOUS
    <3>4. decided \/ (BackedUp \cap {state, tmp} # {} => Secured)
          OBVIOUS
    <3>5. decided => decided'
          OBVIOUS
    <3> HIDE <1>6, <1>a, <1>b DEF CfwCrashInv, Secured, BackedUp, Installing
    <3> QED BY <3>1, <3>2, <3>3, <3>4, <3>5
  <2>8. decided' \/ LoopsInOrder'
        OBVIOUS
  <2> HIDE <1>6, <1>a, <1>b DEF WriteInProgress, CommitDecided, BackupInDir, BootedFromPayload,
        PatchedOnly, CardAccounted, SavedAccounted, RecordsTrue, LoopsInOrder
  <2> QED BY <2>1, <2>2, <2>3, <2>4, <2>5, <2>6, <2>7, <2>8
<1>7. CASE CheckPackage
  <2> USE <1>7 DEF CheckPackage, Resume, Enter
  <2>1. WriteInProgress'
        OBVIOUS
  <2>2. CommitDecided'
        BY ZenonT(40)
  <2>3. BackupInDir'
        OBVIOUS
  <2>4. BootedFromPayload' /\ PatchedOnly'
        OBVIOUS
  <2>5. decided' \/ CardAccounted'
        OBVIOUS
  <2>6. decided' \/ SavedAccounted'
        OBVIOUS
  <2>7. decided' \/ RecordsTrue'
        OBVIOUS
  <2>8. decided' \/ LoopsInOrder'
        OBVIOUS
  <2> HIDE <1>7, <1>a, <1>b DEF WriteInProgress, CommitDecided, BackupInDir, BootedFromPayload,
        PatchedOnly, CardAccounted, SavedAccounted, RecordsTrue, LoopsInOrder
  <2> QED BY <2>1, <2>2, <2>3, <2>4, <2>5, <2>6, <2>7, <2>8
<1>8. CASE WriteState /\ WriteMkdir
      BY <1>8 DEF WriteState, WriteMkdir
<1>9. CASE WriteState /\ WriteClear
      BY <1>9 DEF WriteState, WriteClear
<1>10. CASE WriteState /\ WriteOpen
      BY <1>10 DEF WriteState, WriteOpen
<1>11. CASE WriteState /\ WriteSync
      BY <1>11 DEF WriteState, WriteSync
<1>12. CASE WriteState /\ WriteDrop
      BY <1>12 DEF WriteState, WriteDrop
<1>13. CASE WriteState /\ WriteRename
      BY <1>13 DEF WriteState, WriteRename
<1>14. CASE WriteStateDone
  <2> USE <1>14 DEF WriteStateDone, AfterWrite, Enter
  <2>0. wstep = "ok" /\ wstep' = "mkdir" /\ pc' = AfterWrite[pc]
        OBVIOUS
  <2>1. WriteInProgress'
        OBVIOUS
  <2>2. CommitDecided'
    <3>1. pc' \in CommitSteps => pc = Commit
          OBVIOUS
    <3>2. (decided => decided') /\ (pc' = Commit => decided')
          OBVIOUS
    <3> QED BY <3>1, <3>2
  <2>3. BackupInDir'
        OBVIOUS
  <2>4. BootedFromPayload' /\ PatchedOnly'
        OBVIOUS
  <2>5. decided' \/ CardAccounted'
        OBVIOUS
  <2>6. decided' \/ SavedAccounted'
        OBVIOUS
  <2>7. decided' \/ RecordsTrue'
    <3>1. pc' \in Installing => pc \in BackedUp
          OBVIOUS
    <3>2. pc' \in {"STAGED", "check_package"} => pc = "STAGED" /\ st' = st
          OBVIOUS
    <3> QED BY <3>1, <3>2
  <2>8. decided' \/ LoopsInOrder'
        OBVIOUS
  <2> HIDE <1>14, <1>a, <1>b DEF WriteInProgress, CommitDecided, BackupInDir, BootedFromPayload,
        PatchedOnly, CardAccounted, SavedAccounted, RecordsTrue, LoopsInOrder
  <2> QED BY <2>1, <2>2, <2>3, <2>4, <2>5, <2>6, <2>7, <2>8
<1>15. CASE BackupDir
      BY <1>15 DEF BackupDir, Enter
<1>16. CASE BackupPath
  <2> USE <1>16 DEF BackupPath, BackUp, MoveToBackup, Original, FromSaved, NextPath, Enter
  <2>1. WriteInProgress'
        OBVIOUS
  <2>2. CommitDecided'
        OBVIOUS
  <2>3. BackupInDir'
        OBVIOUS
  <2>4. BootedFromPayload' /\ PatchedOnly'
        OBVIOUS
  <2>5. decided' \/ CardAccounted'
    <3>1. CASE UNCHANGED <<root, bak, mark, disk>>
          BY <3>1
    <3>2. CASE /\ mark' = mark \cup {i} /\ UNCHANGED <<root, bak, disk>>
               /\ Original = "Absent" /\ bak[i] = "Absent"
      <4>1. decided \/ i \notin orig
            BY <3>2
      <4> QED BY <3>2, <4>1
    <3>3. CASE /\ MoveToBackup /\ UNCHANGED mark
               /\ bak[i] = "Absent" /\ Original # "Absent" /\ i \notin mark
      <4>1. decided \/ (i \in orig /\ Original = "Old")
            BY <3>3
      <4>2. bak' = [bak EXCEPT ![i] = Original]
            BY <3>3
      <4>3. \A p \in Paths \ {i} : bak'[p] = bak[p] /\ root'[p] = root[p]
            BY <3>3
      <4>4. i # Payload \/ ~patched => disk' = disk
            BY <3>3
      <4>5. disk'["new"] = disk["new"] /\ orig' = orig /\ patched' = patched /\ mark' = mark
            BY <3>3
      <4>6. decided => decided'
            BY <3>3
      <4>7. ~decided => bak'[i] = "Old"
            BY <4>1, <4>2
      <4>8. FromSaved => root' = root
            BY <3>3
      <4>9. ~FromSaved => root'[i] = "Absent"
            BY <3>3
      <4>10. ~decided => /\ CardAccounted
                         /\ disk["new"] \in {"New", "Torn"}
             BY <3>3
      <4> HIDE <1>16 DEF MoveToBackup, Original
      <4> QED BY <4>1, <4>3, <4>4, <4>5, <4>6, <4>7, <4>8, <4>9, <4>10
    <3> QED BY <3>1, <3>2, <3>3
  <2>6. decided' \/ SavedAccounted'
        OBVIOUS
  <2>7. decided' \/ RecordsTrue'
        OBVIOUS
  <2>8. decided' \/ LoopsInOrder'
        OBVIOUS
  <2> HIDE <1>16, <1>a, <1>b DEF WriteInProgress, CommitDecided, BackupInDir, BootedFromPayload,
        PatchedOnly, CardAccounted, SavedAccounted, RecordsTrue, LoopsInOrder
  <2> QED BY <2>1, <2>2, <2>3, <2>4, <2>5, <2>6, <2>7, <2>8
<1>17. CASE CopyPath
      BY <1>17 DEF CopyPath, Copying, ToCopy, FromSaved, NextPath, Enter
<1>18. CASE Verify
  <2> USE <1>18 DEF Verify, Enter
  <2>0. Payload \notin Legacy
        BY CfwAssumption
  <2>1. WriteInProgress'
        OBVIOUS
  <2>2. CommitDecided'
        OBVIOUS
  <2>3. BackupInDir'
        OBVIOUS
  <2>4. BootedFromPayload' /\ PatchedOnly'
        OBVIOUS
  <2>5. decided' \/ CardAccounted'
        OBVIOUS
  <2>6. decided' \/ SavedAccounted'
    <3>1. root'[Payload] = root[Payload]
          BY <2>0
    <3> QED BY <3>1
  <2>7. decided' \/ RecordsTrue'
        OBVIOUS
  <2>8. decided' \/ LoopsInOrder'
        OBVIOUS
  <2> HIDE <1>18, <1>a, <1>b DEF WriteInProgress, CommitDecided, BackupInDir, BootedFromPayload,
        PatchedOnly, CardAccounted, SavedAccounted, RecordsTrue, LoopsInOrder
  <2> QED BY <2>1, <2>2, <2>3, <2>4, <2>5, <2>6, <2>7, <2>8
<1>19. CASE Finalize
      BY <1>19, ZenonT(40) DEF Finalize, Enter
<1>20. CASE FinalizeCopy
      BY <1>20 DEF FinalizeCopy, Enter
<1>21. CASE FinalizeKeep
      BY <1>21 DEF FinalizeKeep, Enter
<1>22. CASE FinalizeSwap
  <2> USE <1>22 DEF FinalizeSwap, Enter
  <2>1. WriteInProgress'
        OBVIOUS
  <2>2. CommitDecided'
        OBVIOUS
  <2>3. BackupInDir'
        OBVIOUS
  <2>4. BootedFromPayload' /\ PatchedOnly'
        OBVIOUS
  <2>5. decided' \/ CardAccounted'
        OBVIOUS
  <2>6. decided' \/ SavedAccounted'
        OBVIOUS
  <2>7. decided' \/ RecordsTrue'
        OBVIOUS
  <2>8. decided' \/ LoopsInOrder'
        OBVIOUS
  <2> HIDE <1>22, <1>a, <1>b DEF WriteInProgress, CommitDecided, BackupInDir, BootedFromPayload,
        PatchedOnly, CardAccounted, SavedAccounted, RecordsTrue, LoopsInOrder
  <2> QED BY <2>1, <2>2, <2>3, <2>4, <2>5, <2>6, <2>7, <2>8
<1>23. CASE UndoPath
  <2> USE <1>23 DEF UndoPath, Undo, NextPath, Enter
  <2>1. WriteInProgress'
        OBVIOUS
  <2>2. CommitDecided'
        OBVIOUS
  <2>3. BackupInDir'
        OBVIOUS
  <2>4. BootedFromPayload' /\ PatchedOnly'
        OBVIOUS
  <2>5. decided' \/ CardAccounted'
    <3>1. (mark' = mark \/ mark' = mark \ {i}) /\ mark' \subseteq mark
          OBVIOUS
    <3>2. bak' = bak /\ disk' = disk /\ orig' = orig /\ patched' = patched /\ (decided => decided')
          OBVIOUS
    <3>3. \A p \in Paths : root'[p] = root[p] \/ (p = i /\ root'[p] = "Absent" /\ (bak[p] # "Absent" \/ p \in mark))
          OBVIOUS
    <3>4. \A p \in Paths : p \in mark /\ p \notin mark' => p = i /\ root'[p] = "Absent"
          OBVIOUS
    <3>5. decided \/ CardAccounted
          OBVIOUS
    <3>6. TypeOK
          OBVIOUS
    <3> HIDE <1>23 DEF UndoPath, Undo, CfwCrashInv
    <3> QED BY <3>1, <3>2, <3>3, <3>4, <3>5, <3>6
  <2>6. decided' \/ SavedAccounted'
        OBVIOUS
  <2>7. decided' \/ RecordsTrue'
        OBVIOUS
  <2>8. decided' \/ LoopsInOrder'
    <3>1. CASE i < N
          BY <3>1
    <3>2. CASE i = N
      <4>1. pc' = "restore" /\ i' = 1
            BY <3>2
      <4>2. decided \/ i \notin mark'
        <5>1. decided \/ bak[i] = "Absent" \/ i \notin mark
              OBVIOUS
        <5> QED BY <5>1
      <4>3. decided \/ \A p \in Paths : p < N => p \notin mark'
            BY <3>2
      <4>4. mark' \subseteq Paths
            OBVIOUS
      <4>5. decided \/ mark' = {}
            BY <3>2, <4>2, <4>3, <4>4
      <4> QED BY <4>1, <4>5
    <3> QED BY <3>1, <3>2
  <2> HIDE <1>23, <1>a, <1>b DEF WriteInProgress, CommitDecided, BackupInDir, BootedFromPayload,
        PatchedOnly, CardAccounted, SavedAccounted, RecordsTrue, LoopsInOrder
  <2> QED BY <2>1, <2>2, <2>3, <2>4, <2>5, <2>6, <2>7, <2>8
<1>24. CASE RestorePath
      BY <1>24, SMTT(30) DEF RestorePath, NextPath, Enter
<1>25. CASE RestoreSaved
      BY <1>25 DEF RestoreSaved, Enter
<1>26. CASE RemoveAside
      BY <1>26 DEF RemoveAside, Enter
<1>27. CASE RemoveRoot
  <2> USE <1>27 DEF RemoveRoot, RemoveEntries, PartOfBackup
  <2>1. WriteInProgress'
        OBVIOUS
  <2>2. CommitDecided'
        OBVIOUS
  <2>3. BackupInDir'
        BY ZenonT(40)
  <2>4. BootedFromPayload' /\ PatchedOnly'
        OBVIOUS
  <2>5. decided' \/ CardAccounted'
    <3>1. mark' = {} /\ \A p \in Paths : bak'[p] = "Absent"
          OBVIOUS
    <3>2. root' = root /\ orig' = orig /\ patched' = patched /\ (decided => decided')
          OBVIOUS
    <3>3. disk'["saved"] = disk["saved"]
          BY DEF Entries
    <3>4. decided \/ (Untouched /\ CardAccounted)
          OBVIOUS
    <3>5. orig \subseteq Paths
          OBVIOUS
    <3> HIDE <1>27 DEF RemoveRoot, RemoveEntries, PartOfBackup, CfwCrashInv
    <3> QED BY <3>1, <3>2, <3>3, <3>4, <3>5
  <2>6. decided' \/ SavedAccounted'
        OBVIOUS
  <2>7. decided' \/ RecordsTrue'
        OBVIOUS
  <2>8. decided' \/ LoopsInOrder'
        OBVIOUS
  <2> HIDE <1>27, <1>a, <1>b DEF WriteInProgress, CommitDecided, BackupInDir, BootedFromPayload,
        PatchedOnly, CardAccounted, SavedAccounted, RecordsTrue, LoopsInOrder
  <2> QED BY <2>1, <2>2, <2>3, <2>4, <2>5, <2>6, <2>7, <2>8
<1>28. CASE Abort
      BY <1>28 DEF Abort
<1>29. CASE AbortRename
  <2> USE <1>29 DEF AbortRename
  <2>1. WriteInProgress'
        OBVIOUS
  <2>2. CommitDecided'
        OBVIOUS
  <2>3. BackupInDir'
        OBVIOUS
  <2>4. BootedFromPayload' /\ PatchedOnly'
        OBVIOUS
  <2>5. decided' \/ CardAccounted'
        OBVIOUS
  <2>6. decided' \/ SavedAccounted'
        OBVIOUS
  <2>7. decided' \/ RecordsTrue'
        OBVIOUS
  <2>8. decided' \/ LoopsInOrder'
        OBVIOUS
  <2> HIDE <1>29, <1>a, <1>b DEF WriteInProgress, CommitDecided, BackupInDir, BootedFromPayload,
        PatchedOnly, CardAccounted, SavedAccounted, RecordsTrue, LoopsInOrder
  <2> QED BY <2>1, <2>2, <2>3, <2>4, <2>5, <2>6, <2>7, <2>8
<1>30. CASE RemoveBackup
  <2> USE <1>30 DEF NotRemoved, RemoveBackup, Removed, AfterRemoval, Enter, PartOfBackup
  <2>1. WriteInProgress'
        OBVIOUS
  <2>2. CommitDecided'
        OBVIOUS
  <2>3. BackupInDir'
        OBVIOUS
  <2>4. BootedFromPayload' /\ PatchedOnly'
        OBVIOUS
  <2>5. decided' \/ CardAccounted'
        OBVIOUS
  <2>6. decided' \/ SavedAccounted'
        OBVIOUS
  <2>7. decided' \/ RecordsTrue'
        OBVIOUS
  <2>8. decided' \/ LoopsInOrder'
        OBVIOUS
  <2> HIDE <1>30, <1>a, <1>b DEF WriteInProgress, CommitDecided, BackupInDir, BootedFromPayload,
        PatchedOnly, CardAccounted, SavedAccounted, RecordsTrue, LoopsInOrder
  <2> QED BY <2>1, <2>2, <2>3, <2>4, <2>5, <2>6, <2>7, <2>8
<1>31. CASE RemoveFile
  <2> USE <1>31 DEF NotRemoved, RemoveFile, Removed, AfterRemoval, Enter, FileOf
  <2>1. WriteInProgress'
        OBVIOUS
  <2>2. CommitDecided'
        OBVIOUS
  <2>3. BackupInDir'
        OBVIOUS
  <2>4. BootedFromPayload' /\ PatchedOnly'
        OBVIOUS
  <2>5. decided' \/ CardAccounted'
        OBVIOUS
  <2>6. decided' \/ SavedAccounted'
        OBVIOUS
  <2>7. decided' \/ RecordsTrue'
        OBVIOUS
  <2>8. decided' \/ LoopsInOrder'
        OBVIOUS
  <2> HIDE <1>31, <1>a, <1>b DEF WriteInProgress, CommitDecided, BackupInDir, BootedFromPayload,
        PatchedOnly, CardAccounted, SavedAccounted, RecordsTrue, LoopsInOrder
  <2> QED BY <2>1, <2>2, <2>3, <2>4, <2>5, <2>6, <2>7, <2>8
<1>32. CASE RemoveJournal
  <2> USE <1>32 DEF NotRemoved, RemoveJournal, Removed, AfterRemoval, Enter
  <2>1. WriteInProgress'
        OBVIOUS
  <2>2. CommitDecided'
        OBVIOUS
  <2>3. BackupInDir'
        OBVIOUS
  <2>4. BootedFromPayload' /\ PatchedOnly'
        OBVIOUS
  <2>5. decided' \/ CardAccounted'
        OBVIOUS
  <2>6. decided' \/ SavedAccounted'
        OBVIOUS
  <2>7. decided' \/ RecordsTrue'
        OBVIOUS
  <2>8. decided' \/ LoopsInOrder'
        OBVIOUS
  <2> HIDE <1>32, <1>a, <1>b DEF WriteInProgress, CommitDecided, BackupInDir, BootedFromPayload,
        PatchedOnly, CardAccounted, SavedAccounted, RecordsTrue, LoopsInOrder
  <2> QED BY <2>1, <2>2, <2>3, <2>4, <2>5, <2>6, <2>7, <2>8
<1>33. CASE ResultShown
      BY <1>33 DEF ResultShown, Forget
<1>34. CASE HorizonBoot
  <2> USE <1>34 DEF HorizonBoot, Enter, read_state, Readable, Blank
  <2>1. WriteInProgress'
        OBVIOUS
  <2>2. CommitDecided'
        OBVIOUS
  <2>3. BackupInDir'
        OBVIOUS
  <2>4. BootedFromPayload' /\ PatchedOnly'
    <3>1. patched => root[Payload] \in {"Old", "New"}
          OBVIOUS
    <3>2. root' = root /\ patched' = patched
          OBVIOUS
    <3>3. pc' \in {"rm_saved", "rm_backup", "hz_commit", "home"}
          OBVIOUS
    <3> HIDE <1>34 DEF CfwCrashInv
    <3> QED BY <3>1, <3>2, <3>3
  <2>5. decided' \/ CardAccounted'
        OBVIOUS
  <2>6. decided' \/ SavedAccounted'
        OBVIOUS
  <2>7. decided' \/ RecordsTrue'
        OBVIOUS
  <2>8. decided' \/ LoopsInOrder'
        OBVIOUS
  <2> HIDE <1>34, <1>a, <1>b DEF WriteInProgress, CommitDecided, BackupInDir, BootedFromPayload,
        PatchedOnly, CardAccounted, SavedAccounted, RecordsTrue, LoopsInOrder
  <2> QED BY <2>1, <2>2, <2>3, <2>4, <2>5, <2>6, <2>7, <2>8
<1>35. CASE HorizonCommit
  <2> USE <1>35 DEF HorizonCommit
  <2>1. WriteInProgress'
        OBVIOUS
  <2>2. CommitDecided'
        OBVIOUS
  <2>3. BackupInDir'
        OBVIOUS
  <2>4. BootedFromPayload' /\ PatchedOnly'
    <3>1. patched => root[Payload] \in {"Old", "New"}
          OBVIOUS
    <3>2. root' = root /\ patched' = patched
          OBVIOUS
    <3>3. pc' \in {"rm_saved", "rm_backup", "hz_commit", "home"}
          OBVIOUS
    <3> HIDE <1>35 DEF CfwCrashInv
    <3> QED BY <3>1, <3>2, <3>3
  <2>5. decided' \/ CardAccounted'
        OBVIOUS
  <2>6. decided' \/ SavedAccounted'
        OBVIOUS
  <2>7. decided' \/ RecordsTrue'
        OBVIOUS
  <2>8. decided' \/ LoopsInOrder'
        OBVIOUS
  <2> HIDE <1>35, <1>a, <1>b DEF WriteInProgress, CommitDecided, BackupInDir, BootedFromPayload,
        PatchedOnly, CardAccounted, SavedAccounted, RecordsTrue, LoopsInOrder
  <2> QED BY <2>1, <2>2, <2>3, <2>4, <2>5, <2>6, <2>7, <2>8
<1>36. CASE StageBegin
  <2> USE <1>36 DEF StageBegin, read_state, Readable, Blank
  <2>1. WriteInProgress'
        OBVIOUS
  <2>2. CommitDecided'
        OBVIOUS
  <2>3. BackupInDir'
        OBVIOUS
  <2>4. BootedFromPayload' /\ PatchedOnly'
        OBVIOUS
  <2>5. decided' \/ CardAccounted'
        OBVIOUS
  <2>6. decided' \/ SavedAccounted'
        OBVIOUS
  <2>7. decided' \/ RecordsTrue'
        OBVIOUS
  <2>8. decided' \/ LoopsInOrder'
        OBVIOUS
  <2> HIDE <1>36, <1>a, <1>b DEF WriteInProgress, CommitDecided, BackupInDir, BootedFromPayload,
        PatchedOnly, CardAccounted, SavedAccounted, RecordsTrue, LoopsInOrder
  <2> QED BY <2>1, <2>2, <2>3, <2>4, <2>5, <2>6, <2>7, <2>8
<1>37. CASE StageExtract
      BY <1>37 DEF StageExtract
<1>38. CASE StageState
      BY <1>38 DEF StageState
<1>39. CASE StageReady
      BY <1>39 DEF StageReady
<1>40. CASE ConfirmRestart
      BY <1>40 DEF ConfirmRestart
<1>41. CASE TurnOff
      BY <1>41 DEF TurnOff, Forget
<1>42. CASE SavePayload
      BY <1>42 DEF SavePayload
<1>43. CASE ArmPayload
      BY <1>43 DEF ArmPayload
<1>44. CASE DisarmPayload
      BY <1>44 DEF DisarmPayload
<1>45. CASE Reboot
      BY <1>45 DEF Reboot
<1>46. CASE PowerLoss /\ UNCHANGED <<state, tmp, root, backup, disk, decided>>
      BY <1>46 DEF PowerLoss, Forget
<1>47. CASE PowerLoss /\ CutInTree /\ UNCHANGED <<state, tmp, backup, disk, decided>>
      BY <1>47 DEF PowerLoss, Forget, CutInTree, ToCopy, FromSaved, Remains
<1>48. CASE PowerLoss /\ CutInFile /\ UNCHANGED <<state, tmp, root, backup, decided>>
      BY <1>48 DEF PowerLoss, Forget, CutInFile, PartOfNew
<1>49. CASE PowerLoss /\ CutInBackup /\ UNCHANGED <<state, tmp, root, disk, decided>>
      BY <1>49 DEF PowerLoss, Forget, CutInBackup, PartOfBackup
<1>50. CASE PowerLoss /\ CutInJournal /\ UNCHANGED <<root, backup, disk>>
  <2> USE <1>50 DEF PowerLoss, Forget, CutInJournal
  <2>1. WriteInProgress'
        OBVIOUS
  <2>2. CommitDecided'
        OBVIOUS
  <2>3. BackupInDir'
        OBVIOUS
  <2>4. BootedFromPayload' /\ PatchedOnly'
        OBVIOUS
  <2>5. decided' \/ CardAccounted'
        OBVIOUS
  <2>6. decided' \/ SavedAccounted'
        OBVIOUS
  <2>7. decided' \/ RecordsTrue'
        OBVIOUS
  <2>8. decided' \/ LoopsInOrder'
        OBVIOUS
  <2> HIDE <1>50, <1>a, <1>b DEF WriteInProgress, CommitDecided, BackupInDir, BootedFromPayload,
        PatchedOnly, CardAccounted, SavedAccounted, RecordsTrue, LoopsInOrder
  <2> QED BY <2>1, <2>2, <2>3, <2>4, <2>5, <2>6, <2>7, <2>8
<1>51. CASE PowerLoss /\ PartOfRoot /\ pc = "rm_root" /\ UNCHANGED <<root, decided>>
  <2> USE <1>51 DEF PowerLoss, Forget, PartOfRoot, PartOfNew, RemoveEntries, PartOfBackup
  <2>0. /\ Untouched => Untouched'
        /\ disk'["dir"] = disk["dir"] \/ Untouched'
        /\ disk'["saved"] = disk["saved"]
        /\ root' = root /\ orig' = orig /\ patched' = patched /\ decided' = decided
        /\ pc' = "off"
    <3>1. CASE PartOfNew /\ UNCHANGED <<state, tmp, bak, mark>>
          BY <3>1
    <3>2. ASSUME NEW gone \in SUBSET Entries, RemoveEntries(gone), "backup" \in gone,
                 PartOfBackup(Paths, 0, Paths)
          PROVE  /\ Untouched'
                 /\ disk'["saved"] = disk["saved"]
          BY <3>2 DEF Entries
    <3>3. ASSUME NEW gone \in SUBSET Entries, RemoveEntries(gone), "backup" \notin gone,
                 NEW g \in SUBSET Paths, NEW u \in {0} \cup Paths, NEW m \in SUBSET mark,
                 PartOfBackup(g, u, m)
          PROVE  /\ Untouched => Untouched'
                 /\ disk'["dir"] = disk["dir"]
                 /\ disk'["saved"] = disk["saved"]
          BY <3>3, SMTT(30) DEF Entries
    <3> HIDE DEF PartOfNew, RemoveEntries, PartOfBackup, Untouched, CfwCrashInv
    <3> QED BY <3>1, <3>2, <3>3
  <2>1. WriteInProgress'
        OBVIOUS
  <2>2. CommitDecided'
        OBVIOUS
  <2>3. BackupInDir'
    <3>1. BackupInDir
          OBVIOUS
    <3> HIDE <1>51 DEF CfwCrashInv, Untouched
    <3> QED BY <2>0, <3>1
  <2>4. BootedFromPayload' /\ PatchedOnly'
        OBVIOUS
  <2>5. decided' \/ CardAccounted'
    <3>1. decided \/ (CardAccounted /\ Untouched)
          OBVIOUS
    <3>2. orig \subseteq Paths
          OBVIOUS
    <3> HIDE <1>51 DEF CfwCrashInv
    <3> QED BY <2>0, <3>1, <3>2
  <2>6. decided' \/ SavedAccounted'
        OBVIOUS
  <2>7. decided' \/ RecordsTrue'
        OBVIOUS
  <2>8. decided' \/ LoopsInOrder'
        OBVIOUS
  <2> HIDE <1>51, <1>a, <1>b DEF WriteInProgress, CommitDecided, BackupInDir, BootedFromPayload,
        PatchedOnly, CardAccounted, SavedAccounted, RecordsTrue, LoopsInOrder
  <2> QED BY <2>1, <2>2, <2>3, <2>4, <2>5, <2>6, <2>7, <2>8
<1>56. CASE UNCHANGED vars
      BY <1>56 DEF vars
<1>52. CASE PowerLoss
  <2> HIDE <1>a, <1>b DEF CfwCrashInv
  <2> QED BY <1>46, <1>47, <1>48, <1>49, <1>50, <1>51, <1>52 DEF PowerLoss
<1>53. CASE WriteState
      BY <1>8, <1>9, <1>10, <1>11, <1>12, <1>13, <1>53 DEF WriteState, WriteStep, WriteShort
<1> HIDE <1>a, <1>b DEF CfwCrashInv, Rest
<1>54. CASE PayloadStep
      BY <1>3, <1>4, <1>5, <1>6, <1>7, <1>53, <1>14, <1>15, <1>16, <1>17, <1>18, <1>19, <1>20,
         <1>21, <1>22, <1>23, <1>24, <1>25, <1>26, <1>27, <1>28, <1>29, <1>30, <1>31, <1>32,
         <1>33, <1>54
      DEF PayloadStep, FinalizeStep, RollbackStep, CommitStep
<1>55. CASE HorizonStep
      BY <1>34, <1>35, <1>36, <1>37, <1>38, <1>39, <1>40, <1>41, <1>42, <1>43, <1>44, <1>45,
         <1>55
      DEF HorizonStep
<1> QED BY <1>1, <1>2, <1>52, <1>54, <1>55, <1>56 DEF Next

\* CfwCrashInv holds at first: nothing is staged.
LEMMA CrashInit == Init => CfwCrashInv
<1> SUFFICES ASSUME Init PROVE CfwCrashInv
    OBVIOUS
<1>1. TypeOK
      BY TypeInit
<1>2. WriteInProgress /\ CommitDecided /\ PatchedOnly
      BY DEF Init, WriteInProgress, CommitDecided, PatchedOnly, States, CommitSteps, Commit
<1>3. Payload \in Paths
      BY CfwAssumption DEF Payload, Paths
<1>4. BackupInDir /\ BootedFromPayload
      BY <1>3 DEF Init, BackupInDir, BootedFromPayload, Untouched, CommitSteps
<1>5. BeforeCommit
      BY <1>3 DEF Init, BeforeCommit, CardAccounted, SavedAccounted, RecordsTrue, LoopsInOrder,
         SentinelsTrue, OriginalsKept, Kept, Previous, Untouched, BackedUp, Installing, Updating,
         States, Loops, Run, Commit, Rollback
<1> QED BY <1>1, <1>2, <1>4, <1>5 DEF CfwCrashInv

\* aio_cfw_update_run restarted after any number of power cuts finds on the card
\* what its record says: complete backup, sentinels and saved payload.
THEOREM CfwCrashSafe == ASSUME NoErrors PROVE Spec => []CfwCrashInv
<1>1. Init => CfwCrashInv
      BY CrashInit
<1>2. CfwCrashInv /\ [Next]_vars => CfwCrashInv'
      BY CrashStep
<1> QED BY <1>1, <1>2, PTL DEF Spec

\* move_managed_to_backup, copy_staged_root and restore_backup: until the update
\* commits, every path of the old CFW is somewhere on the card.
THEOREM CfwOriginalsKept == ASSUME NoErrors PROVE Spec => []OriginalsKept
<1>1. CfwCrashInv => OriginalsKept
      BY DEF CfwCrashInv, BeforeCommit, CardAccounted, OriginalsKept
<1> QED BY <1>1, CfwCrashSafe, PTL

\* create_absent_marker: only a path that was absent has a sentinel, so that the
\* rollback deletes nothing that was there before.
THEOREM CfwSentinelsTrue == ASSUME NoErrors PROVE Spec => []SentinelsTrue
<1>1. CfwCrashInv => SentinelsTrue
      BY DEF CfwCrashInv, BeforeCommit, CardAccounted, SentinelsTrue
<1> QED BY <1>1, CfwCrashSafe, PTL

\* ui_rollback_success_wait: a rollback that reports the previous CFW restored has
\* every managed path as it was, also those that were absent.
THEOREM CfwRestoredMeansPrevious == ASSUME NoErrors PROVE Spec => []RestoredMeansPrevious
<1>1. CfwCrashInv => RestoredMeansPrevious
      BY DEF CfwCrashInv, BeforeCommit, LoopsInOrder, RestoredMeansPrevious
<1> QED BY <1>1, CfwCrashSafe, PTL
=============================================================================
