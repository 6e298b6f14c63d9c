-------------------------- MODULE AppUpdaterProofs --------------------------
(***************************************************************************)
(* Properties of the self-update for every kind of console, every kind and *)
(* number of I/O errors and any number of power cuts.                      *)
(***************************************************************************)
EXTENDS AppUpdaterProperties, TLAPS

GoalValues == Goals \cup {"none", "app", "ams"}

\* Entering a place or a goal leads to a place.
LEMMA EnterType ==
    ASSUME NEW l \in Places \cup Goals, TypeOK, Enter(l)
    PROVE  pc' \in Places /\ goal' \in GoalValues /\ ok' \in BOOLEAN
  BY DEF Enter, AfterPayload, Places, Goals, GoalValues, Jobs, Pages, Cleanup, TypeOK

\* The tables of continuations name places and goals only.
LEMMA Tables ==
    ASSUME TypeOK
    PROVE  /\ pc \in States => AfterWrite[pc] \in Places \cup Goals
           /\ pc \in States => AfterFailedWrite[pc] \in Places \cup Goals
           /\ pc \in Jobs => AfterCopy[pc] \in Places \cup Goals
           /\ pc \in Jobs => AfterFailedCopy[pc] \in Places \cup Goals
           /\ pc \in Jobs => Dest[pc] \in Files
           /\ pc \in Jobs => SourceData(pc) \in Contents
<1>1. pc \in States => AfterWrite[pc] \in Places \cup Goals
      BY DEF AfterWrite, Places, Goals, States, Run, Jobs
<1>2. pc \in States => AfterFailedWrite[pc] \in Places \cup Goals
      BY DEF AfterFailedWrite, Places, Goals, States, Rollback, Pages
<1>3. pc \in Jobs => AfterCopy[pc] \in Places \cup Goals
      BY DEF AfterCopy, AfterPayload, GiveUp, Places, Jobs, States, Cleanup, Pages, Horizon
<1>4. pc \in Jobs => AfterFailedCopy[pc] \in Places \cup Goals
      BY DEF AfterFailedCopy, GiveUp, Rollback, Places, Goals, Jobs, States, Pages, Horizon
<1>5. pc \in Jobs => Dest[pc] \in Files
      BY DEF Dest, Files, Jobs
<1>6. pc \in Jobs => SourceData(pc) \in Contents
      BY DEF SourceData, Source, Jobs, Files, Contents, TypeOK
<1> QED BY <1>1, <1>2, <1>3, <1>4, <1>5, <1>6

\* TypeOK holds at first.
LEMMA TypeInit == Init => TypeOK
<1> SUFFICES ASSUME Init PROVE TypeOK
    OBVIOUS
<1>1. copying \in BOOLEAN /\ ok \in BOOLEAN
      BY Zenon DEF Init
<1>2. JournalTypeOK
      BY AppAssumption DEF Init, JournalTypeOK, Records, WriteSteps, Blank
<1>3. disk \in [Files -> Contents]
      BY DEF Init, Files, Contents
<1>4. pc \in Places /\ st \in States \cup {"none", "Partial"} /\ goal \in GoalValues
      BY DEF Init, Places, Horizon, GoalValues
<1>5. crashes \in 0..MaxCrashes
      BY AppAssumption DEF Init
<1>6. patched \in Consoles
      BY Zenon DEF Init
<1> QED BY <1>1, <1>2, <1>3, <1>4, <1>5, <1>6 DEF TypeOK, GoalValues

\* Every step of write_state keeps the types of the journal.
LEMMA WriteStepType ==
    ASSUME TypeOK, pc \in States, WriteStep
    PROVE  JournalTypeOK'
  BY AppAssumption DEF TypeOK, JournalTypeOK, WriteStep, WriteMkdir, WriteClear, WriteOpen,
     WriteSync, WriteDrop, WriteRename, Records, WriteSteps, Blank, Fault, NoFault

\* TypeOK is inductive: every step of the payload, of Horizon and of the user,
\* and every power cut.
LEMMA TypeStep == TypeOK /\ [Next]_vars => TypeOK'
<1> SUFFICES ASSUME TypeOK, [Next]_vars PROVE TypeOK'
    OBVIOUS
<1> USE AppAssumption DEF TypeOK, JournalTypeOK, Put, Fault, NoFault, journal, locals
<1>1. CASE PowerOn \/ RcmLaunch \/ IplMain \/ EasyRenameUnlink \/ EasyRename
      BY <1>1 DEF PowerOn, RcmLaunch, IplMain, EasyRenameUnlink, EasyRename, Files, Contents,
                  Places, Run, Horizon
<1>2. CASE ReadJournal
  <2>1. PICK s \in States \cup {"none", "Partial"} :
            Enter(Dispatch(s)) /\ st' = IF s = "none" THEN "STAGED" ELSE s
        BY <1>2 DEF ReadJournal
  <2>2. Dispatch(s) \in Places \cup Goals
        BY Tables DEF Dispatch, Places, Goals, States, Rollback, Run
  <2>3. st' \in States \cup {"none", "Partial"}
        BY <2>1 DEF States
  <2>4. pc' \in Places /\ goal' \in GoalValues /\ ok' \in BOOLEAN
        BY <2>1, <2>2, EnterType
  <2> QED BY <1>2, <2>3, <2>4 DEF ReadJournal, GoalValues
<1>3. CASE CheckNew \/ CheckTarget \/ FindBackup \/ CheckBackup
  <2>1. PICK l \in Places \cup Goals : Enter(l)
        BY <1>3, Tables DEF CheckNew, CheckTarget, FindBackup, CheckBackup, Examine, Places, Goals, States,
                            Rollback, Run
  <2>2. pc' \in Places /\ goal' \in GoalValues /\ ok' \in BOOLEAN
        BY <2>1, EnterType
  <2> QED BY <1>3, <2>2 DEF CheckNew, CheckTarget, FindBackup, CheckBackup, Examine, GoalValues
<1>4. CASE BackupDir
  <2>1. PICK l \in Places \cup Goals : Enter(l)
        BY <1>4 DEF BackupDir, Places, Goals, Run
  <2>2. pc' \in Places /\ goal' \in GoalValues /\ ok' \in BOOLEAN
        BY <2>1, EnterType
  <2> QED BY <1>4, <2>2 DEF BackupDir, GoalValues, Files, Contents
<1>5. CASE BackupRemoveOld
      BY <1>5 DEF BackupRemoveOld, Files, Contents, Places, Jobs
<1>6. CASE WriteState
      BY <1>6, WriteStepType DEF WriteState
<1>7. CASE WriteStateDone
  <2>1. PICK l \in Places \cup Goals : Enter(l)
        BY <1>7, Tables DEF WriteStateDone
  <2>2. pc' \in Places /\ goal' \in GoalValues /\ ok' \in BOOLEAN
        BY <2>1, EnterType
  <2> QED BY <1>7, <2>2 DEF WriteStateDone, GoalValues, WriteSteps
<1>8. CASE CopyOpen
  <2>1. pc' \in Places /\ goal' \in GoalValues /\ ok' \in BOOLEAN
        BY <1>8, Tables, EnterType DEF CopyOpen, GoalValues
  <2>2. copying' \in BOOLEAN
        BY <1>8 DEF CopyOpen
  <2>3. disk' \in [Files -> Contents]
        BY <1>8, Tables DEF CopyOpen, Contents
  <2> QED BY <1>8, <2>1, <2>2, <2>3 DEF CopyOpen, GoalValues
<1>9. CASE CopyClose
  <2>1. pc' \in Places /\ goal' \in GoalValues /\ ok' \in BOOLEAN
        BY <1>9, Tables, EnterType DEF CopyClose
  <2>2. copying' \in BOOLEAN
        BY <1>9 DEF CopyClose
  <2>3. disk' \in [Files -> Contents]
        BY <1>9, Tables DEF CopyClose, Contents
  <2> QED BY <1>9, <2>1, <2>2, <2>3 DEF CopyClose, GoalValues
<1>10. CASE CleanupTransaction
  <2>1. pc' \in Places
        BY <1>10 DEF CleanupTransaction, RemoveNew, RemoveBackup, RemoveBackupDir, RemoveReady,
              RemoveTmp, RemoveState, RemoveRoot, RemoveSaved, Remove, ResultPage, Places,
              Cleanup, Pages
  <2>2. ok' \in BOOLEAN
        BY <1>10 DEF CleanupTransaction, RemoveNew, RemoveBackup, RemoveBackupDir, RemoveReady,
              RemoveTmp, RemoveState, RemoveRoot, RemoveSaved, Remove
  <2>3. disk' \in [Files -> Contents] /\ state' \in Records /\ tmp' \in Records
        BY <1>10 DEF CleanupTransaction, RemoveNew, RemoveBackup, RemoveBackupDir, RemoveReady,
              RemoveTmp, RemoveState, RemoveRoot, RemoveSaved, Remove, Files, Contents, Records,
              Blank
  <2>4. faults' \in 0..MaxFaults
        BY <1>10 DEF CleanupTransaction, RemoveNew, RemoveBackup, RemoveBackupDir, RemoveReady,
              RemoveTmp, RemoveState, RemoveRoot, RemoveSaved, Remove
  <2>5. UNCHANGED <<wstep, copying, st, goal, patched, crashes>>
        BY <1>10 DEF CleanupTransaction, RemoveNew, RemoveBackup, RemoveBackupDir, RemoveReady,
              RemoveTmp, RemoveState, RemoveRoot, RemoveSaved, Remove
  <2> QED BY <2>1, <2>2, <2>3, <2>4, <2>5
<1>11. CASE ResultShown
  <2>1. copying' \in BOOLEAN /\ ok' \in BOOLEAN
        BY <1>11, Zenon DEF ResultShown, Forget
  <2> QED BY <1>11, <2>1 DEF ResultShown, Forget, Places, WriteSteps
<1>12. CASE HorizonStep
      BY <1>12 DEF HorizonStep, StageBegin, StageExtract, StageMark, ConfirmRestart, ConfirmLeave,
                   AmsRestart, Reboot, Files, Contents, Places, Jobs, Run, Horizon
<1>13. CASE PowerLoss
  <2>1. copying' \in BOOLEAN /\ ok' \in BOOLEAN
        BY <1>13, Zenon DEF PowerLoss, Forget
  <2>2. disk' \in [Files -> Contents]
        BY <1>13, Tables DEF PowerLoss, HorizonJobs, Jobs, Files, Contents
  <2> QED BY <1>13, <2>1, <2>2 DEF PowerLoss, Forget, Places, WriteSteps
<1>14. CASE UNCHANGED vars
      BY <1>14 DEF vars
<1> QED BY <1>1, <1>2, <1>3, <1>4, <1>5, <1>6, <1>7, <1>8, <1>9, <1>10, <1>11, <1>12, <1>13,
           <1>14 DEF Next, PayloadStep

\* The state of the updater and of the card stays within its types.
THEOREM AppTypes == Spec => []TypeOK
  BY TypeInit, TypeStep, PTL DEF Spec

-----------------------------------------------------------------------------
(* SuccessMeansInstalled.                                                  *)

\* InstallInv holds at first.
LEMMA InstallInit == Init => InstallInv
<1> SUFFICES ASSUME Init PROVE InstallInv
    OBVIOUS
<1>1. TypeOK
      BY TypeInit
<1>2. ~copying
      BY Zenon DEF Init
<1>3. StagedWhole
      BY <1>2 DEF Init, StagedWhole, Pending, Exists, Files, InTransaction, States, Cleanup
<1>4. CallsInOrder /\ ClaimsTrue /\ SuccessMeansInstalled
      BY <1>2 DEF Init, CallsInOrder, ClaimsTrue, Claims, SuccessMeansInstalled, States, Cleanup
<1> QED BY <1>1, <1>3, <1>4 DEF InstallInv

\* Each action keeps it.
LEMMA InstallStep == InstallInv /\ [Next]_vars => InstallInv'
<1> SUFFICES ASSUME InstallInv, [Next]_vars PROVE InstallInv'
    OBVIOUS
<1>0. TypeOK'
      BY TypeStep DEF InstallInv
<1> SUFFICES StagedWhole' /\ CallsInOrder' /\ ClaimsTrue' /\ SuccessMeansInstalled'
    BY <1>0 DEF InstallInv
<1> USE DEF InstallInv, StagedWhole, CallsInOrder, ClaimsTrue, SuccessMeansInstalled, Claims,
        Pending, Exists, NonEmpty, Put, Fault, NoFault, journal, locals, InTransaction, States,
        Cleanup, Jobs, TypeOK, Files
<1>1. CASE PowerOn \/ RcmLaunch \/ IplMain \/ EasyRenameUnlink \/ EasyRename
      BY <1>1 DEF PowerOn, RcmLaunch, IplMain, EasyRenameUnlink, EasyRename
<1>2. CASE ReadJournal
      BY <1>2 DEF ReadJournal, Dispatch, Enter, Goals, AfterPayload, Rollback,
                  read_state, MisreadState, Readable
<1>3. CASE CheckNew \/ CheckTarget \/ FindBackup \/ CheckBackup
      BY <1>3 DEF CheckNew, CheckTarget, FindBackup, CheckBackup, Examine, Enter, Goals, AfterPayload,
                  Rollback
<1>4. CASE BackupDir \/ BackupRemoveOld
      BY <1>4 DEF BackupDir, BackupRemoveOld, Enter, Goals, AfterPayload
<1>5. CASE WriteState
      BY <1>5 DEF WriteState, WriteStep, WriteMkdir, WriteClear, WriteOpen, WriteSync, WriteDrop,
                  WriteRename
<1>6. CASE WriteStateDone
      BY <1>6 DEF WriteStateDone, Enter, Goals, AfterPayload, AfterWrite, AfterFailedWrite, Rollback
<1>7. CASE CopyOpen
      BY <1>7 DEF CopyOpen, SourceData, Source, Dest, Blank, Enter, Goals, AfterPayload,
                  AfterFailedCopy, GiveUp, Rollback
<1>8. CASE CopyClose
      BY <1>8 DEF CopyClose, SourceData, Source, Dest, Blank, Enter, Goals, AfterPayload,
                  AfterCopy, AfterFailedCopy, GiveUp, Rollback
<1>9. CASE CleanupTransaction
      BY <1>9 DEF CleanupTransaction, RemoveNew, RemoveBackup, RemoveBackupDir, RemoveReady,
                  RemoveTmp, RemoveState, RemoveRoot, RemoveSaved, Remove, ResultPage
<1>10. CASE ResultShown
      BY <1>10 DEF ResultShown, Forget, Pages
<1>11. CASE HorizonStep
      BY <1>11 DEF HorizonStep, StageBegin, StageExtract, StageMark, ConfirmRestart, ConfirmLeave,
                   AmsRestart, Reboot
<1>12. CASE PowerLoss
      BY <1>12 DEF PowerLoss, Forget, HorizonJobs, Dest
<1>13. CASE UNCHANGED vars
      BY <1>13 DEF vars
<1> QED BY <1>1, <1>2, <1>3, <1>4, <1>5, <1>6, <1>7, <1>8, <1>9, <1>10, <1>11, <1>12, <1>13
        DEF Next, PayloadStep

\* Every record, place and page that claims an installed NRO stands over the
\* complete new one (write_state, copy_file and the result pages together).
THEOREM InstallAlways == Spec => []InstallInv
  BY InstallInit, InstallStep, PTL DEF Spec

\* ui_success_wait and ui_warning_wait are shown only over a completely
\* installed new NRO, whatever I/O errors and power cuts came before.
THEOREM AppSuccessMeansInstalled == Spec => []SuccessMeansInstalled
<1>1. InstallInv => SuccessMeansInstalled
      BY DEF InstallInv
<1> QED BY <1>1, InstallAlways, PTL
-----------------------------------------------------------------------------
(* What any number of power cuts, at any instants, cannot do to the self-update *)
(* of a card that returns no I/O errors *)

NoErrors == Faults = {}

\* CrashInv holds at first.
LEMMA CrashInit == Init => CrashInv
<1> SUFFICES ASSUME Init PROVE CrashInv
    OBVIOUS
<1>1. InstallInv
      BY InstallInit
<1>2. NothingFails /\ Recoverable
      BY DEF Init, NothingFails, Recoverable, Complete, Blank, Files
<1>3. OpenIntact /\ EndIsDecided
      BY DEF Init, OpenIntact, EndIsDecided, Pending, Exists, Files, Working, States, Cleanup, Ended
<1>4. RunFollowsJournal /\ BackupWhole /\ TargetWhole
      BY DEF Init, RunFollowsJournal, BackupWhole, TargetWhole, read_state, Readable, Blank,
             NeedBackup, NeedTarget, Ended
<1> QED BY <1>1, <1>2, <1>3, <1>4 DEF CrashInv

\* Each action keeps it.
LEMMA CrashStep == ASSUME NoErrors, CrashInv, [Next]_vars PROVE CrashInv'
<1>0. InstallInv'
      BY InstallStep DEF CrashInv
<1>a. ~Fault("write") /\ ~Fault("partial") /\ ~Fault("read") /\ ~Fault("reboot")
      BY DEF NoErrors, Fault
<1> DEFINE Rest == /\ NothingFails /\ OpenIntact /\ EndIsDecided /\ RunFollowsJournal
                   /\ BackupWhole /\ TargetWhole /\ Recoverable
<1> SUFFICES Rest'
    BY <1>0 DEF CrashInv
<1> USE <1>a DEF CrashInv, NothingFails, OpenIntact, EndIsDecided, RunFollowsJournal,
        BackupWhole, TargetWhole, Recoverable, NeedBackup, NeedTarget, Ended, Working,
        InstallInv, StagedWhole, CallsInOrder, ClaimsTrue, Claims, InTransaction, TypeOK,
        Pending, Exists, NonEmpty, Complete, Put, NoFault, journal, locals, States, Cleanup, Jobs,
        Files, Blank, read_state, Readable
<1>1. CASE PowerOn \/ RcmLaunch \/ IplMain \/ EasyRenameUnlink \/ EasyRename
      BY <1>1 DEF PowerOn, RcmLaunch, IplMain, EasyRenameUnlink, EasyRename
<1>2. CASE ReadJournal
      BY <1>2 DEF ReadJournal, Dispatch, Enter, Goals, AfterPayload, Rollback
<1>3. CASE CheckNew \/ CheckTarget \/ FindBackup
      BY <1>3 DEF CheckNew, CheckTarget, FindBackup, Examine, Enter, Goals, AfterPayload, Rollback
<1>4. CASE CheckBackup
      BY <1>4 DEF CheckBackup, Enter, Goals, Rollback
<1>5. CASE BackupDir \/ BackupRemoveOld
      BY <1>5 DEF BackupDir, BackupRemoveOld, Enter, Goals, AfterPayload
<1>6. CASE WriteState
  <2> USE <1>6 DEF WriteState
  <2>1. CASE WriteMkdir \/ WriteClear \/ WriteOpen
        BY <2>1 DEF WriteMkdir, WriteClear, WriteOpen
  <2>2. CASE WriteSync
        BY <2>2 DEF WriteSync
  <2>3. CASE WriteDrop
        BY <2>3 DEF WriteDrop
  <2>4. CASE WriteRename
        BY <2>4 DEF WriteRename
  <2> QED BY <2>1, <2>2, <2>3, <2>4 DEF WriteStep
<1>7. CASE WriteStateDone
      BY <1>7 DEF WriteStateDone, Enter, Goals, AfterPayload, AfterWrite
<1>8. CASE CopyOpen
      BY <1>8 DEF CopyOpen, SourceData, Source, Dest, Enter, Goals, AfterPayload,
                  AfterFailedCopy, GiveUp, Rollback
<1>9. CASE CopyClose
      BY <1>9 DEF CopyClose, SourceData, Source, Dest, Enter, Goals, AfterPayload, AfterCopy, GiveUp
<1>10. CASE CleanupTransaction
      BY <1>10 DEF CleanupTransaction, RemoveNew, RemoveBackup, RemoveBackupDir, RemoveReady,
                  RemoveTmp, RemoveState, RemoveRoot, RemoveSaved, Remove, ResultPage
<1>11. CASE ResultShown
      BY <1>11 DEF ResultShown, Forget, Pages
<1>12. CASE HorizonStep
      BY <1>12 DEF HorizonStep, StageBegin, StageExtract, StageMark, ConfirmRestart, ConfirmLeave,
                   AmsRestart, Reboot
<1>13. CASE PowerLoss
      BY <1>13 DEF PowerLoss, Forget, HorizonJobs, Dest
<1>14. CASE UNCHANGED vars
      BY <1>14 DEF vars
<1> QED BY <1>1, <1>2, <1>3, <1>4, <1>5, <1>6, <1>7, <1>8, <1>9, <1>10, <1>11, <1>12, <1>13,
           <1>14 DEF Next, PayloadStep

\* Whatever power cuts interrupt it, CrashInv holds throughout.
THEOREM CrashAlways == ASSUME NoErrors PROVE Spec => []CrashInv
<1>1. CrashInv /\ [Next]_vars => CrashInv'
      BY CrashStep
<1> QED BY <1>1, CrashInit, PTL DEF Spec

\* While the installed NRO is not complete the backup is, at every instant.
THEOREM AppRecoverable == ASSUME NoErrors PROVE Spec => []Recoverable
<1>1. CrashInv => Recoverable
      BY DEF CrashInv
<1> QED BY <1>1, CrashAlways, PTL

\* No step writes or removes the backup while it is the only complete copy.
LEMMA BackupStep ==
    ASSUME NoErrors, CrashInv, [Next]_vars, disk["target"] \notin Complete
    PROVE  disk'["backup"] = disk["backup"]
<1>a. ~Fault("write") /\ ~Fault("partial") /\ ~Fault("read") /\ ~Fault("reboot")
      BY DEF NoErrors, Fault
<1>1. pc \notin Cleanup \cup {"backup_dir", "backup_rm", "backup"} \/ pc = "payload"
      BY DEF CrashInv, EndIsDecided, TargetWhole
<1> USE <1>a, <1>1 DEF CrashInv, InstallInv, TypeOK, CallsInOrder, Cleanup, Put, Files, Jobs,
        Complete, journal
<1>2. CASE PowerOn \/ RcmLaunch \/ IplMain \/ EasyRenameUnlink \/ EasyRename \/ ReadJournal
             \/ CheckNew \/ CheckTarget \/ FindBackup \/ CheckBackup \/ WriteState \/ WriteStateDone
             \/ ResultShown \/ UNCHANGED vars
      BY <1>2 DEF PowerOn, RcmLaunch, IplMain, EasyRenameUnlink, EasyRename, ReadJournal, CheckNew,
                  CheckTarget, FindBackup, CheckBackup, WriteState, WriteStateDone, ResultShown, vars
<1>3. CASE BackupDir \/ BackupRemoveOld \/ CleanupTransaction
      BY <1>3 DEF BackupDir, BackupRemoveOld, CleanupTransaction, RemoveNew, RemoveBackup,
                  RemoveBackupDir, RemoveReady, RemoveTmp, RemoveState, RemoveRoot, RemoveSaved,
                  Remove
<1>4. CASE CopyOpen \/ CopyClose \/ PowerLoss
      BY <1>4 DEF CopyOpen, CopyClose, PowerLoss, HorizonJobs, Dest
<1>5. CASE HorizonStep
      BY <1>5 DEF HorizonStep, StageBegin, StageExtract, StageMark, ConfirmRestart, ConfirmLeave,
                  AmsRestart, Reboot
<1> QED BY <1>2, <1>3, <1>4, <1>5 DEF Next, PayloadStep

\* The only complete copy is never written.
THEOREM AppBackupKept == ASSUME NoErrors PROVE Spec => BackupKept
<1>1. CrashInv /\ [Next]_vars
          => [disk["target"] \notin Complete => disk'["backup"] = disk["backup"]]_vars
      BY BackupStep
<1> QED BY <1>1, CrashAlways, PTL DEF Spec, BackupKept

-----------------------------------------------------------------------------
(* The boot payload.                                                       *)

\* Each action keeps BootInv.
LEMMA BootStep ==
    ASSUME NoErrors, TypeOK, CallsInOrder, NothingFails, BootInv, [Next]_vars
    PROVE  BootInv'
<1>a. ~Fault("write") /\ ~Fault("partial") /\ ~Fault("read") /\ ~Fault("reboot")
      BY DEF NoErrors, Fault
<1> USE <1>a, AppAssumption
    DEF BootInv, BootPayloadKept, TypeOK, CallsInOrder, NothingFails, InTransaction, States, Cleanup,
        Jobs, HorizonJobs, Put, Files, journal, locals
<1>1. CASE PowerOn \/ RcmLaunch \/ IplMain \/ EasyRenameUnlink \/ EasyRename
      BY <1>1 DEF PowerOn, RcmLaunch, IplMain, EasyRenameUnlink, EasyRename
<1>2. CASE ReadJournal
      BY <1>2 DEF ReadJournal, Dispatch, Enter, Goals, AfterPayload, Rollback
<1>3. CASE CheckNew \/ CheckTarget \/ FindBackup \/ CheckBackup
      BY <1>3 DEF CheckNew, CheckTarget, FindBackup, CheckBackup, Examine, Enter, Goals, AfterPayload, Rollback
<1>4. CASE BackupDir \/ BackupRemoveOld
      BY <1>4 DEF BackupDir, BackupRemoveOld, Enter, Goals
<1>5. CASE WriteState
      BY <1>5 DEF WriteState
<1>6. CASE WriteStateDone
      BY <1>6 DEF WriteStateDone, Enter, Goals, AfterPayload, AfterWrite
<1>7. CASE CopyOpen
      BY <1>7 DEF CopyOpen, SourceData, Source, Dest, Enter, Goals, AfterPayload, AfterFailedCopy,
                  GiveUp, Rollback, Blank
<1>8. CASE CopyClose
      BY <1>8 DEF CopyClose, SourceData, Source, Dest, Enter, Goals, AfterPayload, AfterCopy, GiveUp
<1>9. CASE CleanupTransaction
      BY <1>9 DEF CleanupTransaction, RemoveNew, RemoveBackup, RemoveBackupDir, RemoveReady,
                  RemoveTmp, RemoveState, RemoveRoot, RemoveSaved, Remove, ResultPage
<1>10. CASE ResultShown
      BY <1>10 DEF ResultShown, Forget
<1>11. CASE HorizonStep
      BY <1>11 DEF HorizonStep, StageBegin, StageExtract, StageMark, ConfirmRestart, ConfirmLeave,
                   AmsRestart, Reboot, NoFault
<1>12. CASE PowerLoss
      BY <1>12 DEF PowerLoss, Forget, Dest
<1>13. CASE UNCHANGED vars
      BY <1>13 DEF vars
<1> QED BY <1>1, <1>2, <1>3, <1>4, <1>5, <1>6, <1>7, <1>8, <1>9, <1>10, <1>11, <1>12, <1>13
        DEF Next, PayloadStep

\* restore_boot_payload_if_needed, easy_rename and ConfirmPage_AppUpdate: without
\* I/O errors Horizon runs from the normal payload and the updater under a saved
\* one, wherever power is lost.
THEOREM BootAlways == ASSUME NoErrors PROVE Spec => []BootInv
<1>1. Init => BootInv
      BY DEF Init, BootInv, BootPayloadKept, Files, InTransaction, States, Cleanup, HorizonJobs
<1>2. CrashInv /\ BootInv /\ [Next]_vars => BootInv'
      BY BootStep DEF CrashInv, InstallInv
<1> QED BY <1>1, <1>2, CrashAlways, PTL DEF Spec

\* payload.bin or payload.bin.aio holds the console's own boot payload at
\* every instant, on patched and unpatched consoles.
THEOREM AppBootPayloadKept == ASSUME NoErrors PROVE Spec => []BootPayloadKept
<1>1. BootInv => BootPayloadKept
      BY DEF BootInv
<1> QED BY <1>1, BootAlways, PTL

-----------------------------------------------------------------------------
(* Refinement of UpdateTransaction.                                        *)

\* Every step of the updater is a step of the transaction, or none.
LEMMA TxStep ==
    ASSUME NoErrors, CrashInv, CrashInv', [Next]_vars
    PROVE  [Tx!Next]_<<TxPhase, TxInstalled>>
<1>a. ~Fault("write") /\ ~Fault("partial") /\ ~Fault("read") /\ ~Fault("reboot")
      BY DEF NoErrors, Fault
<1> USE <1>a DEF CrashInv, NothingFails, OpenIntact, EndIsDecided, RunFollowsJournal, BackupWhole,
        TargetWhole, Recoverable, NeedBackup, NeedTarget, Ended, Working, InstallInv, StagedWhole,
        CallsInOrder, ClaimsTrue, Claims, TypeOK, Pending, Exists, Complete, Put, NoFault, journal,
        locals, States, Cleanup, Jobs, Files, Blank, read_state, Readable, TxPhase, TxInstalled
<1>1. CASE PowerOn \/ RcmLaunch \/ IplMain \/ EasyRenameUnlink \/ EasyRename \/ ReadJournal
             \/ CheckNew \/ CheckTarget \/ FindBackup \/ CheckBackup \/ WriteStateDone \/ ResultShown
             \/ UNCHANGED vars
      BY <1>1 DEF PowerOn, RcmLaunch, IplMain, EasyRenameUnlink, EasyRename, ReadJournal, CheckNew,
                  CheckTarget, FindBackup, CheckBackup, WriteStateDone, ResultShown, vars
<1>2. CASE BackupDir \/ BackupRemoveOld
      BY <1>2 DEF BackupDir, BackupRemoveOld
<1>3. CASE WriteState
  <2> USE <1>3 DEF WriteState
  <2>1. CASE WriteMkdir \/ WriteClear \/ WriteOpen
        BY <2>1 DEF WriteMkdir, WriteClear, WriteOpen
  <2>2. CASE WriteSync \/ WriteDrop \/ WriteRename
        BY <2>2 DEF WriteSync, WriteDrop, WriteRename, Tx!Next, Tx!Commit, Tx!Revert
  <2> QED BY <2>1, <2>2 DEF WriteStep
<1>4. CASE CopyOpen \/ CopyClose
      BY <1>4 DEF CopyOpen, CopyClose, SourceData, Source, Dest, Tx!Next, Tx!Replace
<1>5. CASE CleanupTransaction
      BY <1>5 DEF CleanupTransaction, RemoveNew, RemoveBackup, RemoveBackupDir, RemoveReady, RemoveTmp,
                  RemoveState, RemoveRoot, RemoveSaved, Remove, Tx!Next, Tx!Close
<1>6. CASE HorizonStep
      BY <1>6 DEF HorizonStep, StageBegin, StageExtract, StageMark, ConfirmRestart, ConfirmLeave,
                  AmsRestart, Reboot, Tx!Next, Tx!Open
<1>7. CASE PowerLoss
      BY <1>7 DEF PowerLoss, HorizonJobs, Dest, Tx!Next, Tx!Open
<1> QED BY <1>1, <1>2, <1>3, <1>4, <1>5, <1>6, <1>7 DEF Next, PayloadStep

\* The updater implements the transaction: at every power cut there is a
\* complete version, only the new one is committed, no outcome is undone.
THEOREM AppImplementsTransaction == ASSUME NoErrors PROVE Spec => ImplementsTransaction
<1>1. Init => Tx!Init
      BY DEF Init, Tx!Init, TxPhase, TxInstalled, Pending, Exists, Files, Complete
<1>2. CrashInv /\ CrashInv' /\ [Next]_vars => [Tx!Next]_<<TxPhase, TxInstalled>>
      BY TxStep
<1> QED BY <1>1, <1>2, CrashAlways, PTL DEF Spec, ImplementsTransaction, Tx!Spec
=============================================================================
