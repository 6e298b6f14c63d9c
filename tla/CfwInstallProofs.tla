-------------------------- MODULE CfwInstallProofs --------------------------
(***************************************************************************)
(* What the success page of the CFW update says: for any number of managed *)
(* paths, any number of refused writes, of writes to a full card and of    *)
(* power cuts.                                                             *)
(***************************************************************************)
EXTENDS CfwUpdaterProofs

-----------------------------------------------------------------------------
(* Everything is copied.                                                   *)

\* The card is never misread; writes may fail, or find it full.
NoMisreads == "read" \notin Faults

\* A complete package has lost nothing: it is extracted anew after StageBegin, and
\* whatever takes a path from it leaves it torn.
LEMMA WholeStep == ASSUME TypeOK, PackageWhole, [Next]_vars PROVE PackageWhole'
<1> USE DEF PackageWhole, Put, history, given
<1>1. PartOfNew => disk'["new"] # "New"
      BY DEF PartOfNew, TypeOK, Files
<1>2. ASSUME NEW g, RemoveEntries(g) PROVE disk'["new"] # "New"
      BY <1>2 DEF RemoveEntries, Files
<1>3. disk'["new"] # "New" /\ pc' # "extract" => PackageWhole'
      OBVIOUS
<1>4. CASE disk'["new"] = disk["new"] /\ lost' = lost /\ pc' # "extract"
      BY <1>4
<1>5. CASE StageBegin \/ StageExtract
      BY <1>5 DEF StageBegin, StageExtract, TypeOK, Files
<1>6. CASE RemoveRoot
      BY <1>1, <1>2, <1>3, <1>6 DEF RemoveRoot, PartOfRoot
<1>7. CASE RemoveFile
  <2>1. pc' # "extract"
        BY <1>7 DEF RemoveFile, Removed, NotRemoved, AfterRemoval, Enter
  <2>2. FileOf[pc] \in Files /\ Put(FileOf[pc], "Absent") => disk'["new"] \in {disk["new"], "Absent"}
        BY DEF TypeOK, Files
  <2>3. pc \in DOMAIN FileOf => FileOf[pc] \in Files
        BY DEF FileOf, Files
  <2> QED BY <1>1, <1>3, <1>7, <2>1, <2>2, <2>3 DEF RemoveFile
<1>8. CASE PowerLoss
  <2>1. pc' # "extract"
        BY <1>8 DEF PowerLoss, Forget
  <2>2. CASE CutInFile
    <3>1. CASE PartOfNew
          BY <1>1, <1>3, <2>1, <3>1
    <3>2. CASE UNCHANGED lost /\ (disk'["new"] = disk["new"] \/ pc = "extract")
          BY <2>1, <3>2
    <3> QED BY <2>2, <3>1, <3>2 DEF CutInFile, TypeOK, Files
  <2>3. CASE PartOfRoot
        BY <1>1, <1>2, <1>3, <2>1, <2>3 DEF PartOfRoot
  <2>4. CASE UNCHANGED <<disk, lost>>
        BY <1>4, <2>1, <2>4
  <2> QED BY <1>8, <2>2, <2>3, <2>4 DEF PowerLoss
<1>9. CASE PowerOn \/ Launch \/ IplMain \/ EasyRenameUnlink \/ EasyRename \/ ReadJournal
             \/ CheckPackage \/ WriteState \/ BackupDir
      BY <1>4, <1>9 DEF PowerOn, Launch, IplMain, EasyRenameUnlink, EasyRename, ReadJournal, Dispatch,
         CheckPackage, Resume, WriteState, BackupDir, Enter, TypeOK, Files, Commit, Rollback, States
<1>10. CASE WriteStateDone
      BY <1>4, <1>10 DEF WriteStateDone, AfterWrite, AfterFailedWrite, Enter, States, Commit, Rollback
<1>11. CASE BackupPath
  <2>1. pc' # "extract"
        BY <1>11 DEF BackupPath, BackUp, NextPath, Enter, Rollback
  <2>2. disk'["new"] = disk["new"]
        BY <1>11 DEF BackupPath, BackUp, MoveToBackup, TypeOK, Files
  <2> QED BY <1>4, <1>11, <2>1, <2>2 DEF BackupPath
<1>12. CASE CopyPath \/ Verify
      BY <1>4, <1>12 DEF CopyPath, Copying, Verify, NextPath, Enter, Rollback
<1>13. CASE FinalizeStep
      BY <1>4, <1>13 DEF FinalizeStep, Finalize, FinalizeCopy, FinalizeKeep, FinalizeSwap, Enter,
         Commit, Rollback, TypeOK, Files
<1>14. CASE UndoPath \/ RestorePath
      BY <1>4, <1>14 DEF UndoPath, Undo, RestorePath, NextPath, Enter
<1>15. CASE RestoreSaved \/ RemoveAside
      BY <1>4, <1>15 DEF RestoreSaved, RemoveAside, Enter, TypeOK, Files
<1>16. CASE Abort \/ AbortRename
      BY <1>4, <1>16 DEF Abort, AbortRename, TypeOK, Files
<1>17. CASE RemoveBackup \/ RemoveJournal \/ ResultShown
      BY <1>4, <1>17 DEF RemoveBackup, RemoveJournal, ResultShown, Forget, Removed, NotRemoved,
         AfterRemoval, Enter, TypeOK, Files
<1>18. CASE HorizonBoot \/ HorizonCommit \/ StageState \/ StageReady
      BY <1>4, <1>18 DEF HorizonBoot, HorizonCommit, StageState, StageReady, Enter, TypeOK, Files
<1>19. CASE ConfirmRestart \/ TurnOff \/ SavePayload \/ ArmPayload \/ DisarmPayload \/ Reboot
      BY <1>4, <1>19 DEF ConfirmRestart, TurnOff, Forget, SavePayload, ArmPayload, DisarmPayload,
         Reboot, TypeOK, Files
<1>20. CASE UNCHANGED vars
      BY <1>20 DEF vars
<1>21. CASE PayloadStep
      BY <1>6, <1>7, <1>9, <1>10, <1>11, <1>12, <1>13, <1>14, <1>15, <1>16, <1>17, <1>21
      DEF PayloadStep, RollbackStep, CommitStep
<1>22. CASE HorizonStep
      BY <1>5, <1>18, <1>19, <1>22 DEF HorizonStep
<1> HIDE DEF PackageWhole
<1> QED BY <1>8, <1>9, <1>20, <1>21, <1>22 DEF Next

\* Each action keeps CfwInstallInv.
LEMMA InstallStep == ASSUME NoMisreads, CfwInstallInv, [Next]_vars PROVE CfwInstallInv'
<1>0. TypeOK'
      BY TypeStep DEF CfwInstallInv
<1>a. ~Fault("read") /\ ~Fault("partial")
      BY CfwAssumption DEF NoMisreads, Fault
<1>b. /\ Payload \in Paths /\ Core \in Paths /\ N \in Nat /\ N > 1 /\ Paths = 1..N
      /\ Package \subseteq Paths
      BY CfwAssumption DEF Paths, Payload, Core
<1> DEFINE Rest == WriteOrShort /\ RecordKnown /\ PatchedOnly /\ OldRecords /\ CopyTrue
<1>c. PackageWhole'
      BY WholeStep DEF CfwInstallInv
<1> SUFFICES Rest'
    BY <1>0, <1>c DEF CfwInstallInv
<1> USE <1>a, <1>b DEF CfwInstallInv, TypeOK, JournalTypeOK, WriteOrShort, RecordKnown, PatchedOnly, OldRecords,
        CopyTrue, AllInstalled, Installed, ToInstall, Copied, Finalizing, PastCopy, NotCopied,
        Resumable, read_state, Readable, Blank,
        Put, PutRoot, Exists, Pending, NoFault, journal, backup, locals, given, history,
        States, Loops, CommitSteps, Pages, Run, Horizon, Commit, Rollback, Files
<1>1. CASE PowerOn
      BY <1>1 DEF PowerOn
<1>2. CASE Launch
      BY <1>2 DEF Launch
<1>3. CASE IplMain
      BY <1>3 DEF IplMain
<1>4. CASE EasyRenameUnlink
      BY <1>4 DEF EasyRenameUnlink
<1>5. CASE EasyRename
      BY <1>5 DEF EasyRename
<1>6. CASE ReadJournal
      BY <1>6 DEF ReadJournal, Dispatch, Enter, MisreadState
<1>7. CASE CheckPackage
      BY <1>7 DEF CheckPackage, Resume, Enter
<1>8. CASE WriteState /\ WriteMkdir
      BY <1>8 DEF WriteState, WriteMkdir
<1>9. CASE WriteState /\ WriteClear
      BY <1>9 DEF WriteState, WriteClear
<1>10. CASE WriteState /\ WriteOpen
      BY <1>10 DEF WriteState, WriteOpen
<1>11. CASE WriteState /\ WriteSync
      BY <1>11 DEF WriteState, WriteSync
<1>12. CASE WriteState /\ WriteDrop
      BY <1>12 DEF WriteState, WriteDrop
<1>13. CASE WriteState /\ WriteRename
      BY <1>13 DEF WriteState, WriteRename
<1>14. CASE WriteState /\ WriteShort
      BY <1>14 DEF WriteState, WriteShort
<1>15. CASE WriteStateDone
      BY <1>15 DEF WriteStateDone, AfterWrite, AfterFailedWrite, Enter
<1>16. CASE BackupDir
      BY <1>16 DEF BackupDir, Enter
<1>17. CASE BackupPath
      BY <1>17 DEF BackupPath, BackUp, MoveToBackup, NextPath, Enter
<1>18. CASE CopyPath
  <2>1. partial' \/ (disk["new"] = "New" /\ lost = {} /\ partial = FALSE)
        BY <1>18 DEF CopyPath, Copying, PackageWhole
  <2>2. CASE Enter(Rollback)
        BY <1>18, <2>2 DEF CopyPath, Enter
  <2>3. CASE partial' /\ NextPath("verify")
        BY <1>18, <2>3 DEF CopyPath, Copying, NextPath, Enter
  <2>4. CASE lost = {} /\ disk["new"] = "New" /\ ~partial /\ NextPath("verify")
        BY <1>18, <2>4 DEF CopyPath, Copying, ToCopy, FromSaved, Overlaid, Overlay, NextPath, Enter
  <2> QED BY <1>18, <2>1, <2>2, <2>3, <2>4 DEF CopyPath
<1>19. CASE Verify
      BY <1>19 DEF Verify, Enter
<1>20. CASE Finalize
      BY <1>20 DEF Finalize, Enter, PayloadMatches
<1>21. CASE FinalizeCopy
      BY <1>21 DEF FinalizeCopy, Enter
<1>22. CASE FinalizeKeep
      BY <1>22 DEF FinalizeKeep, Enter
<1>23. CASE FinalizeSwap
      BY <1>23 DEF FinalizeSwap, Enter, PayloadMatches
<1>24. CASE UndoPath
      BY <1>24 DEF UndoPath, Undo, NextPath, Enter
<1>25. CASE RestorePath
      BY <1>25 DEF RestorePath, NextPath, Enter
<1>26. CASE RestoreSaved
      BY <1>26 DEF RestoreSaved, Enter
<1>27. CASE RemoveAside
      BY <1>27 DEF RemoveAside, Enter
<1>28. CASE RemoveRoot
      BY <1>28 DEF RemoveRoot, PartOfRoot, RemoveEntries
<1>29. CASE Abort
      BY <1>29 DEF Abort
<1>30. CASE AbortRename
      BY <1>30 DEF AbortRename
<1>31. CASE RemoveBackup
      BY <1>31 DEF RemoveBackup, Removed, NotRemoved, AfterRemoval, Enter
<1>32. CASE RemoveFile
      BY <1>32 DEF RemoveFile, Removed, NotRemoved, AfterRemoval, Enter, FileOf
<1>33. CASE RemoveJournal
      BY <1>33 DEF RemoveJournal, Removed, NotRemoved, AfterRemoval, Enter
<1>34. CASE ResultShown
      BY <1>34 DEF ResultShown, Forget
<1>35. CASE HorizonBoot
      BY <1>35 DEF HorizonBoot, Enter
<1>36. CASE HorizonCommit
      BY <1>36 DEF HorizonCommit
<1>37. CASE StageBegin
      BY <1>37 DEF StageBegin
<1>38. CASE StageExtract
      BY <1>38 DEF StageExtract
<1>39. CASE StageState
      BY <1>39 DEF StageState
<1>40. CASE StageReady
      BY <1>40 DEF StageReady
<1>41. CASE ConfirmRestart
      BY <1>41 DEF ConfirmRestart
<1>42. CASE TurnOff
      BY <1>42 DEF TurnOff, Forget
<1>43. CASE SavePayload
      BY <1>43 DEF SavePayload
<1>44. CASE ArmPayload
      BY <1>44 DEF ArmPayload
<1>45. CASE DisarmPayload
      BY <1>45 DEF DisarmPayload
<1>46. CASE Reboot
      BY <1>46 DEF Reboot
<1>47. CASE PowerLoss /\ UNCHANGED <<state, tmp, root>>
      BY <1>47 DEF PowerLoss, Forget
<1>48. CASE PowerLoss /\ CutInTree /\ UNCHANGED <<state, tmp>>
      BY <1>48 DEF PowerLoss, Forget, CutInTree, ToCopy, FromSaved, Overlay
<1>49. CASE PowerLoss /\ CutInJournal /\ UNCHANGED root
      BY <1>49 DEF PowerLoss, Forget, CutInJournal
<1>50. CASE PowerLoss /\ PartOfRoot /\ pc = "rm_root" /\ UNCHANGED root
      BY <1>50 DEF PowerLoss, Forget, PartOfRoot, RemoveEntries
<1>51. CASE UNCHANGED vars
      BY <1>51 DEF vars
<1>52. CASE PowerLoss
      BY <1>47, <1>48, <1>49, <1>50, <1>52 DEF PowerLoss, CutInFile, CutInBackup
<1>53. CASE WriteState
      BY <1>8, <1>9, <1>10, <1>11, <1>12, <1>13, <1>14, <1>53 DEF WriteState, WriteStep
<1> HIDE <1>a, <1>b DEF CfwInstallInv, Rest
<1>54. CASE PayloadStep
      BY <1>3, <1>4, <1>5, <1>6, <1>7, <1>15, <1>16, <1>17, <1>18, <1>19, <1>20, <1>21, <1>22,
         <1>23, <1>24, <1>25, <1>26, <1>27, <1>28, <1>29, <1>30, <1>31, <1>32, <1>33, <1>34,
         <1>53, <1>54
      DEF PayloadStep, FinalizeStep, RollbackStep, CommitStep
<1>55. CASE HorizonStep
      BY <1>35, <1>36, <1>37, <1>38, <1>39, <1>40, <1>41, <1>42, <1>43, <1>44, <1>45, <1>46,
         <1>55 DEF HorizonStep
<1> QED BY <1>1, <1>2, <1>51, <1>52, <1>54, <1>55 DEF Next

\* CfwInstallInv holds at first: nothing is staged.
LEMMA InstallInit == Init => CfwInstallInv
<1> SUFFICES ASSUME Init PROVE CfwInstallInv
    OBVIOUS
<1>1. TypeOK
      BY TypeInit
<1>2. WriteOrShort /\ RecordKnown /\ PatchedOnly /\ OldRecords /\ CopyTrue /\ PackageWhole
      BY DEF Init, WriteOrShort, RecordKnown, PatchedOnly, OldRecords, CopyTrue, PackageWhole, Copied, Finalizing,
         PastCopy, NotCopied, read_state, Readable, Blank, States, Loops, CommitSteps, Commit
<1> QED BY <1>1, <1>2 DEF CfwInstallInv

\* copy_staged_root, commit_transaction and finalizeCfwUpdateAfterSuccessfulBoot:
\* a record of a complete copy is read only beside a complete copy.
THEOREM CfwInstallAlways == ASSUME NoMisreads PROVE Spec => []CfwInstallInv
<1>1. Init => CfwInstallInv
      BY InstallInit
<1>2. CfwInstallInv /\ [Next]_vars => CfwInstallInv'
      BY InstallStep
<1> QED BY <1>1, <1>2, PTL DEF Spec

\* ui_success_wait and ui_warning_wait: every path of the package is in place,
\* copied to its end, however often writes fail, the card is full or power is
\* lost on the way.
THEOREM CfwSuccessMeansInstalled == ASSUME NoMisreads PROVE Spec => []SuccessMeansInstalled
<1>1. CfwInstallInv => SuccessMeansInstalled
      BY DEF CfwInstallInv, CopyTrue, PastCopy, AllInstalled, SuccessMeansInstalled
<1> QED BY <1>1, CfwInstallAlways, PTL

-----------------------------------------------------------------------------
(* A patched console is bootable.                                          *)

\* Each action keeps CfwBootInv.
LEMMA BootStep == ASSUME ~SameSize, CfwBootInv, [Next]_vars PROVE CfwBootInv'
<1>0. TypeOK'
      BY TypeStep DEF CfwBootInv
<1>a. ~Fault("partial")
      BY CfwAssumption DEF Fault
<1>b. /\ Payload \in Paths /\ Core \in Paths /\ N \in Nat /\ N > 1 /\ Paths = 1..N
      /\ Payload \notin Legacy
      BY CfwAssumption DEF Paths, Payload, Core
<1> DEFINE Rest == /\ WriteOrShort /\ PayloadRuns
                   /\ pc \in {"STAGED", "check_package"} => st \in Resumable
                   /\ pc = "hz_commit" => goal = "horizon"
<1> SUFFICES Rest'
    BY <1>0 DEF CfwBootInv
<1> USE <1>a, <1>b DEF CfwBootInv, TypeOK, JournalTypeOK, WriteOrShort, PayloadRuns, NoCommitRecord,
        Resumable, read_state, Readable, Blank,
        Put, PutRoot, Exists, Pending, NoFault, journal, backup, locals, given, history,
        States, Loops, CommitSteps, Pages, Run, Horizon, Commit, Rollback, Files
<1>1. CASE PowerOn
      BY <1>1 DEF PowerOn
<1>2. CASE Launch
      BY <1>2 DEF Launch
<1>3. CASE IplMain
      BY <1>3 DEF IplMain
<1>4. CASE EasyRenameUnlink
      BY <1>4 DEF EasyRenameUnlink
<1>5. CASE EasyRename
      BY <1>5 DEF EasyRename
<1>6. CASE ReadJournal
      BY <1>6 DEF ReadJournal, Dispatch, Enter, MisreadState
<1>7. CASE CheckPackage
      BY <1>7 DEF CheckPackage, Resume, Enter
<1>8. CASE WriteState /\ WriteMkdir
      BY <1>8 DEF WriteState, WriteMkdir
<1>9. CASE WriteState /\ WriteClear
      BY <1>9 DEF WriteState, WriteClear
<1>10. CASE WriteState /\ WriteOpen
      BY <1>10 DEF WriteState, WriteOpen
<1>11. CASE WriteState /\ WriteSync
      BY <1>11 DEF WriteState, WriteSync
<1>12. CASE WriteState /\ WriteDrop
      BY <1>12 DEF WriteState, WriteDrop
<1>13. CASE WriteState /\ WriteRename
      BY <1>13 DEF WriteState, WriteRename
<1>14. CASE WriteState /\ WriteShort
      BY <1>14 DEF WriteState, WriteShort
<1>15. CASE WriteStateDone
      BY <1>15 DEF WriteStateDone, AfterWrite, AfterFailedWrite, Enter
<1>16. CASE BackupDir
      BY <1>16 DEF BackupDir, Enter
<1>17. CASE BackupPath
      BY <1>17 DEF BackupPath, BackUp, MoveToBackup, NextPath, Enter
<1>18. CASE CopyPath
      BY <1>18 DEF CopyPath, Copying, ToCopy, FromSaved, Overlaid, Overlay, NextPath, Enter
<1>19. CASE Verify
      BY <1>19 DEF Verify, Enter
<1>20. CASE Finalize
      BY <1>20 DEF Finalize, Enter, PayloadMatches
<1>21. CASE FinalizeCopy
      BY <1>21 DEF FinalizeCopy, Enter
<1>22. CASE FinalizeKeep
      BY <1>22 DEF FinalizeKeep, Enter
<1>23. CASE FinalizeSwap
      BY <1>23 DEF FinalizeSwap, Enter, PayloadMatches
<1>24. CASE UndoPath
      BY <1>24 DEF UndoPath, Undo, NextPath, Enter
<1>25. CASE RestorePath
      BY <1>25 DEF RestorePath, NextPath, Enter
<1>26. CASE RestoreSaved
      BY <1>26 DEF RestoreSaved, Enter
<1>27. CASE RemoveAside
      BY <1>27 DEF RemoveAside, Enter
<1>28. CASE RemoveRoot
      BY <1>28 DEF RemoveRoot, PartOfRoot, RemoveEntries
<1>29. CASE Abort
      BY <1>29 DEF Abort
<1>30. CASE AbortRename
      BY <1>30 DEF AbortRename
<1>31. CASE RemoveBackup
      BY <1>31 DEF RemoveBackup, Removed, NotRemoved, AfterRemoval, Enter
<1>32. CASE RemoveFile
      BY <1>32 DEF RemoveFile, Removed, NotRemoved, AfterRemoval, Enter, FileOf
<1>33. CASE RemoveJournal
      BY <1>33 DEF RemoveJournal, Removed, NotRemoved, AfterRemoval, Enter
<1>34. CASE ResultShown
      BY <1>34 DEF ResultShown, Forget
<1>35. CASE HorizonBoot
      BY <1>35 DEF HorizonBoot, Enter
<1>36. CASE HorizonCommit
      BY <1>36 DEF HorizonCommit
<1>37. CASE StageBegin
      BY <1>37 DEF StageBegin
<1>38. CASE StageExtract
      BY <1>38 DEF StageExtract
<1>39. CASE StageState
      BY <1>39 DEF StageState
<1>40. CASE StageReady
      BY <1>40 DEF StageReady
<1>41. CASE ConfirmRestart
      BY <1>41 DEF ConfirmRestart
<1>42. CASE TurnOff
      BY <1>42 DEF TurnOff, Forget
<1>43. CASE SavePayload
      BY <1>43 DEF SavePayload
<1>44. CASE ArmPayload
      BY <1>44 DEF ArmPayload
<1>45. CASE DisarmPayload
      BY <1>45 DEF DisarmPayload
<1>46. CASE Reboot
      BY <1>46 DEF Reboot
<1>47. CASE PowerLoss /\ UNCHANGED <<state, tmp, root>>
      BY <1>47 DEF PowerLoss, Forget
<1>48. CASE PowerLoss /\ CutInTree /\ UNCHANGED <<state, tmp>>
      BY <1>48 DEF PowerLoss, Forget, CutInTree, ToCopy, FromSaved, Overlay
<1>49. CASE PowerLoss /\ CutInJournal /\ UNCHANGED root
      BY <1>49 DEF PowerLoss, Forget, CutInJournal
<1>50. CASE PowerLoss /\ PartOfRoot /\ pc = "rm_root" /\ UNCHANGED root
      BY <1>50 DEF PowerLoss, Forget, PartOfRoot, RemoveEntries
<1>51. CASE UNCHANGED vars
      BY <1>51 DEF vars
<1>52. CASE PowerLoss
      BY <1>47, <1>48, <1>49, <1>50, <1>52 DEF PowerLoss, CutInFile, CutInBackup
<1>53. CASE WriteState
      BY <1>8, <1>9, <1>10, <1>11, <1>12, <1>13, <1>14, <1>53 DEF WriteState, WriteStep
<1> HIDE <1>a, <1>b DEF CfwBootInv, Rest
<1>54. CASE PayloadStep
      BY <1>3, <1>4, <1>5, <1>6, <1>7, <1>15, <1>16, <1>17, <1>18, <1>19, <1>20, <1>21, <1>22,
         <1>23, <1>24, <1>25, <1>26, <1>27, <1>28, <1>29, <1>30, <1>31, <1>32, <1>33, <1>34,
         <1>53, <1>54
      DEF PayloadStep, FinalizeStep, RollbackStep, CommitStep
<1>55. CASE HorizonStep
      BY <1>35, <1>36, <1>37, <1>38, <1>39, <1>40, <1>41, <1>42, <1>43, <1>44, <1>45, <1>46,
         <1>55 DEF HorizonStep
<1> QED BY <1>1, <1>2, <1>51, <1>52, <1>54, <1>55 DEF Next

\* CfwBootInv holds at first.
LEMMA BootInit == Init => CfwBootInv
<1> SUFFICES ASSUME Init PROVE CfwBootInv
    OBVIOUS
<1>1. TypeOK
      BY TypeInit
<1>2. WriteOrShort /\ PayloadRuns /\ pc \notin {"STAGED", "check_package", "hz_commit"}
      BY DEF Init, WriteOrShort, PayloadRuns, NoCommitRecord, States, Loops, CommitSteps, Run, Horizon,
         Commit
<1> QED BY <1>1, <1>2 DEF CfwBootInv

\* finalize_patched_payload: a patched console commits only with the new
\* payload.bin in place, whatever the card does, if the lengths differ.
THEOREM CfwBootAlways == ASSUME ~SameSize PROVE Spec => []CfwBootInv
<1>1. Init => CfwBootInv
      BY BootInit
<1>2. CfwBootInv /\ [Next]_vars => CfwBootInv'
      BY BootStep
<1> QED BY <1>1, <1>2, PTL DEF Spec

\* A patched console that is told of success starts the new payload.bin next.
THEOREM CfwSuccessMeansBootable == ASSUME ~SameSize PROVE Spec => []SuccessMeansBootable
<1>1. CfwBootInv => SuccessMeansBootable
      BY DEF CfwBootInv, PayloadRuns, SuccessMeansBootable
<1> QED BY <1>1, CfwBootAlways, PTL
=============================================================================
