----------------------------- MODULE AppUpdater -----------------------------
(***************************************************************************)
(* The self-update of AIO MOD.  Horizon (tools_tab.cpp, utils.cpp,         *)
(* confirm_page.cpp) stages a new NRO under /aio-mod-app-update and        *)
(* restarts into a TegraExplorer payload; the payload                      *)
(* (aio_app_updater.c) backs up the installed NRO, replaces it, and        *)
(* commits or rolls back, driven by a journal so that it can be resumed    *)
(* after a power cut.  On a patched or Mariko console the way into the     *)
(* payload is sd:/payload.bin, which Horizon saves and replaces and the    *)
(* payload restores.                                                       *)
(*                                                                         *)
(* The console runs one thing at a time, so one pc does for all of it.     *)
(* Everything but the card (disk, state, tmp) is lost with the power.      *)
(***************************************************************************)
EXTENDS Naturals

CONSTANTS
    Consoles,   \* the consoles there may be: patched_or_mariko, or not
    Faults,     \* the kinds of I/O error the card may return (see Journal)
    MaxFaults,  \* how many of them
    MaxCrashes  \* how many power cuts

ASSUME AppAssumption ==
    /\ Consoles \subseteq BOOLEAN /\ Consoles # {}
    /\ Faults \subseteq {"write", "partial", "read", "reboot"}
    /\ MaxFaults \in Nat
    /\ MaxCrashes \in Nat

VARIABLES
    state, tmp, \* the journal
    disk,       \* the other files on the card
    pc,         \* where the console is
    wstep,      \* inside write_state: the call it makes next (see Journal)
    copying,    \* inside a file copy: has the destination been opened?
    st,         \* aio_app_update_run: the state string it read
    goal,       \* what the payload restore and the clean-up are for
    ok,         \* cleanup_transaction: no removal has failed
    patched,    \* can the console only boot payload.bin?  It stays what it is
    faults, crashes

\* The records of the journal (aio_app_updater.c, STATE_...).
States == {"STAGED", "BACKUP_IN_PROGRESS", "BACKUP_COMPLETE",
           "COPY_IN_PROGRESS", "COPY_COMPLETE", "ROLLBACK_IN_PROGRESS",
           "ROLLBACK_COMPLETE", "COMMIT_IN_PROGRESS"}

\* While write_state(v) runs, pc is v.
INSTANCE Journal WITH Values <- States, wval <- pc

vars == <<state, tmp, disk, pc, wstep, copying, st, goal, ok, patched, faults, crashes>>
journal == <<state, tmp, wstep>>
locals == <<st, goal, ok>>

(* The card.  target, new and backup are the installed, the staged and the *)
(* saved NRO; payload and saved are payload.bin and payload.bin.aio.       *)
Files == {"new", "backup", "backupDir", "target", "ready", "payload", "saved"}
Contents == {"Absent", "Empty", "Partial", "Old", "New", "Normal", "Updater",
             "Marker", "Dir"}

Complete == {"Old", "New"}                        \* an NRO that can be run
NonEmpty(f) == disk[f] \notin {"Absent", "Empty"}  \* valid_nonempty_file
Exists(f) == disk[f] # "Absent"                    \* path_exists
Put(f, c) == disk' = [disk EXCEPT ![f] = c]

\* aio_app_update_pending, and the same test of extractArchive.
Pending == Exists("ready") \/ state # "Absent" \/ tmp # "Absent" \/ Exists("backupDir")

\* file_sizes_match compares lengths only: two different files may agree, and
\* so may or may not two torn ones.
SizesMatch(f, g) ==
    IF ~NonEmpty(f) \/ ~NonEmpty(g) THEN {FALSE}
    ELSE IF disk[f] = disk[g] /\ disk[f] # "Partial" THEN {TRUE}
    ELSE BOOLEAN

-----------------------------------------------------------------------------
(* Control flow.                                                           *)

Goals == {"commit", "rollback", "abort", "halt"}   \* of the payload
Jobs == {"backup", "install", "restore", "payload", "save", "arm", "disarm"}
HorizonJobs == {"save", "arm", "disarm"}
Pages == {"success", "warning", "restored", "unchanged", "fatal"}
Cleanup == {"rm_new", "rm_backup", "rm_backupDir", "rm_ready", "rm_tmp",
            "rm_state", "rm_root", "rm_saved"}
Run == {"ipl_main", "read_state", "check_new", "check_target", "backup_dir",
        "backup_rm", "check_backup", "find_backup", "legacy_unlink", "legacy_rename"}
Horizon == {"home", "extract", "mark", "confirm", "reboot"}
Places == States \cup Jobs \cup Pages \cup Cleanup \cup Run \cup Horizon \cup {"off"}

\* restore_boot_payload_if_needed and what follows it: cleanup_transaction, or
\* the fatal page when rollback_transaction could not record its end.
AfterPayload(g) == IF g = "halt" THEN "fatal" ELSE "rm_new"

\* Mutant: no payload restore on any console.
EnterWithoutRestore(l) ==
    IF l \in Goals THEN goal' = l /\ ok' = TRUE /\ pc' = AfterPayload(l)
    ELSE pc' = l /\ UNCHANGED <<goal, ok>>

\* Go on at place l; a goal in its stead starts the end of the transaction:
\* commit_transaction, rollback_transaction or abort_before_changes.
Enter(l) ==
    IF l \in Goals
    THEN /\ goal' = l
         /\ ok' = TRUE
         /\ pc' = IF patched THEN "payload" ELSE AfterPayload(l)
    ELSE pc' = l /\ UNCHANGED <<goal, ok>>

\* rollback_transaction starts with its journal record.
Rollback == "ROLLBACK_IN_PROGRESS"

\* What follows write_state when it returns FR_OK, and when it does not.
AfterWrite ==
    [STAGED               |-> "check_new",
     BACKUP_IN_PROGRESS   |-> "backup_dir",
     BACKUP_COMPLETE      |-> "check_backup",
     COPY_IN_PROGRESS     |-> "install",
     COPY_COMPLETE        |-> "COMMIT_IN_PROGRESS",
     ROLLBACK_IN_PROGRESS |-> "restore",
     ROLLBACK_COMPLETE    |-> "rollback",
     COMMIT_IN_PROGRESS   |-> "commit"]
AfterFailedWrite ==
    [STAGED               |-> "abort",
     BACKUP_IN_PROGRESS   |-> "abort",
     BACKUP_COMPLETE      |-> "abort",
     COPY_IN_PROGRESS     |-> Rollback,
     COPY_COMPLETE        |-> Rollback,
     ROLLBACK_IN_PROGRESS |-> "fatal",
     ROLLBACK_COMPLETE    |-> "halt",
     COMMIT_IN_PROGRESS   |-> Rollback]

\* The copies: source, destination, and what follows success and failure.
\* A copy of Horizon's that fails gives up to the page it was started from.
GiveUp == IF goal = "ams" THEN "home" ELSE "confirm"
Source == [backup |-> "target", install |-> "new", restore |-> "backup",
           payload |-> "saved", save |-> "payload", disarm |-> "saved"]
Dest == [backup |-> "backup", install |-> "target", restore |-> "target",
         payload |-> "payload", save |-> "saved", arm |-> "payload", disarm |-> "payload"]
AfterCopy ==
    [backup  |-> "BACKUP_COMPLETE",
     install |-> "COPY_COMPLETE",
     restore |-> "ROLLBACK_COMPLETE",
     payload |-> AfterPayload(goal),
     save    |-> "arm",
     arm     |-> "reboot",
     disarm  |-> GiveUp]
AfterFailedCopy ==
    [backup  |-> "abort",
     install |-> Rollback,
     restore |-> "fatal",
     payload |-> "fatal",
     save    |-> GiveUp,
     arm     |-> "disarm",
     disarm  |-> GiveUp]

\* The embedded updater (romfs:/aio_rcm.bin) is always there and complete.
SourceData(j) == IF j = "arm" THEN "Updater" ELSE disk[Source[j]]

-----------------------------------------------------------------------------
(* Starting up.                                                            *)

Init ==
    /\ state = "Absent" /\ tmp = "Absent"
    /\ disk = [f \in Files |-> IF f = "target" THEN "Old"
                               ELSE IF f = "payload" THEN "Normal" ELSE "Absent"]
    /\ pc = "home"
    /\ wstep = "mkdir" /\ copying = FALSE
    /\ st = "none" /\ goal = "none" /\ ok = TRUE
    /\ patched \in Consoles /\ faults = 0 /\ crashes = 0

\* A patched console starts whatever payload.bin holds, the others start the
\* CFW; payload.bin that is missing or torn starts nothing.
PowerOn ==
    /\ pc = "off"
    /\ pc' = IF patched /\ disk["payload"] = "Updater" THEN "ipl_main" ELSE "home"
    /\ patched => disk["payload"] \in {"Normal", "Updater"}
    /\ UNCHANGED <<journal, disk, copying, locals, faults, patched, crashes>>

\* Other ways into the payload on an unpatched console: injected over RCM, or
\* a restart at the end of a CFW update (ConfirmPage_AmsUpdate, erista).
RcmLaunch ==
    /\ ~patched
    /\ pc \in {"off", "home"}
    /\ pc' = "ipl_main"
    /\ UNCHANGED <<journal, disk, copying, locals, faults, patched, crashes>>

\* ipl_main: an app update comes first.  Without one the payload of a patched
\* console puts payload.bin.aio back (easy_rename) and restarts.
IplMain ==
    /\ pc = "ipl_main"
    /\ pc' = IF Pending THEN "read_state"
             ELSE IF ~patched THEN "home"
             ELSE IF Exists("saved") THEN "legacy_unlink" ELSE "off"
    /\ UNCHANGED <<journal, disk, copying, locals, faults, patched, crashes>>

EasyRenameUnlink ==
    /\ pc = "legacy_unlink"
    /\ \/ NoFault /\ Put("payload", "Absent") /\ pc' = "legacy_rename"
       \/ Fault("write") /\ UNCHANGED disk /\ pc' = "off"
    /\ UNCHANGED <<journal, copying, locals, patched, crashes>>

EasyRename ==
    /\ pc = "legacy_rename"
    /\ pc' = "off"
    /\ \/ NoFault /\ disk' = [disk EXCEPT !["payload"] = disk["saved"],
                                          !["saved"] = "Absent"]
       \/ Fault("write") /\ UNCHANGED disk
    /\ UNCHANGED <<journal, copying, locals, patched, crashes>>

-----------------------------------------------------------------------------
(* aio_app_update_run.                                                     *)

\* Mutants of the dispatch: a rollback in progress taken for a complete one, an
\* interrupted copy taken up again.
DispatchRollbackDone(s) ==
    CASE s = "none" -> IF Exists("ready") THEN "STAGED" ELSE "find_backup"
      [] s = "COMMIT_IN_PROGRESS" -> "commit"
      [] s \in {"ROLLBACK_COMPLETE", "ROLLBACK_IN_PROGRESS"} -> "rollback"
      [] s = "COPY_IN_PROGRESS" -> Rollback
      [] s = "COPY_COMPLETE" -> "COMMIT_IN_PROGRESS"
      [] OTHER -> "check_new"
DispatchCopyResumed(s) ==
    IF s = "COPY_IN_PROGRESS" THEN "install" ELSE DispatchRollbackDone(s)

\* Where the record read from the journal leads.
Dispatch(s) ==
    CASE s = "none" -> IF Exists("ready") THEN "STAGED" ELSE "find_backup"
      [] s = "COMMIT_IN_PROGRESS" -> "commit"
      [] s = "ROLLBACK_COMPLETE" -> "rollback"
      [] s \in {"ROLLBACK_IN_PROGRESS", "COPY_IN_PROGRESS"} -> Rollback
      [] s = "COPY_COMPLETE" -> "COMMIT_IN_PROGRESS"
      [] OTHER -> "check_new"

ReadJournal ==
    /\ pc = "read_state"
    /\ \E s \in States \cup {"none", "Partial"} :
          /\ \/ NoFault /\ s = read_state
             \/ Fault("read") /\ s \in MisreadState
          /\ st' = IF s = "none" THEN "STAGED" ELSE s
          /\ Enter(Dispatch(s))
    /\ UNCHANGED <<journal, disk, copying, patched, crashes>>

\* nonempty_file_status, which reports an unreadable file like a missing one.
Examine(f, good, bad) ==
    \/ NoFault /\ Enter(IF NonEmpty(f) THEN good ELSE bad)
    \/ Fault("read") /\ NonEmpty(f) /\ Enter(bad)

CheckNew ==
    /\ pc = "check_new"
    /\ Examine("new", "check_target", IF st = "STAGED" THEN "abort" ELSE Rollback)
    /\ UNCHANGED <<journal, disk, copying, st, patched, crashes>>

\* Mutant: the installed NRO is not examined.
CheckTargetSkipped ==
    /\ pc = "check_target"
    /\ Enter(CASE st = "STAGED" -> "BACKUP_IN_PROGRESS"
               [] st = "BACKUP_IN_PROGRESS" -> "backup_dir"
               [] st = "BACKUP_COMPLETE" -> "check_backup"
               [] OTHER -> "find_backup")
    /\ UNCHANGED <<journal, disk, copying, st, faults, patched, crashes>>

\* With both files there, go on where the journal says; an unknown record
\* rolls back if there is a backup.
CheckTarget ==
    /\ pc = "check_target"
    /\ LET resume == CASE st = "STAGED" -> "BACKUP_IN_PROGRESS"
                       [] st = "BACKUP_IN_PROGRESS" -> "backup_dir"
                       [] st = "BACKUP_COMPLETE" -> "check_backup"
                       [] OTHER -> "find_backup"
       IN  Examine("target", resume, "find_backup")
    /\ UNCHANGED <<journal, disk, copying, st, patched, crashes>>

\* The three places that roll back if there is a backup and else abort.
FindBackup ==
    /\ pc = "find_backup"
    /\ Examine("backup", Rollback, "abort")
    /\ UNCHANGED <<journal, disk, copying, st, patched, crashes>>

\* prepare_backup up to its copy; a failing removal of an old copy is ignored.
BackupDir ==
    /\ pc = "backup_dir"
    /\ \/ NoFault /\ Put("backupDir", "Dir") /\ Enter("backup_rm")
       \/ Fault("write") /\ UNCHANGED disk /\ Enter("abort")
    /\ UNCHANGED <<journal, copying, st, patched, crashes>>

BackupRemoveOld ==
    /\ pc = "backup_rm"
    /\ pc' = "backup"
    /\ \/ NoFault /\ Put("backup", "Absent")
       \/ Fault("write") /\ UNCHANGED disk
    /\ UNCHANGED <<journal, copying, locals, patched, crashes>>

CheckBackup ==
    /\ pc = "check_backup"
    /\ \/ \E match \in SizesMatch("backup", "target") :
              NoFault /\ Enter(IF match THEN "COPY_IN_PROGRESS" ELSE Rollback)
       \/ Fault("read") /\ Enter(Rollback)
    /\ UNCHANGED <<journal, disk, copying, st, patched, crashes>>

\* write_state, called wherever pc is a record of the journal.
WriteState ==
    /\ pc \in States
    /\ WriteStep
    /\ UNCHANGED <<disk, pc, copying, locals, patched, crashes>>

WriteStateDone ==
    /\ pc \in States
    /\ wstep \in {"ok", "fail"}
    /\ wstep' = "mkdir"
    /\ Enter(IF wstep = "ok" THEN AfterWrite[pc] ELSE AfterFailedWrite[pc])
    /\ UNCHANGED <<state, tmp, disk, copying, st, faults, patched, crashes>>

-----------------------------------------------------------------------------
(* File copies: copy_verified of the payload, copyFileVerified of Horizon. *)
(* Opening the destination truncates it; its new size reaches the card     *)
(* only when it is closed.  Reading it back makes success exact.           *)

CopyOpen ==
    /\ pc \in Jobs
    /\ ~copying
    /\ \/ /\ SourceData(pc) \notin Blank
          /\ NoFault
          /\ Put(Dest[pc], "Empty")
          /\ copying' = TRUE
          /\ UNCHANGED <<pc, goal, ok>>
       \/ /\ \/ SourceData(pc) \in Blank /\ NoFault
             \/ Fault("write")
          /\ Enter(AfterFailedCopy[pc])
          /\ UNCHANGED <<disk, copying>>
    /\ UNCHANGED <<journal, st, patched, crashes>>

\* Mutant: neither the result nor the contents of the copy are verified.
CopyCloseUnverified ==
    /\ pc \in Jobs
    /\ copying
    /\ copying' = FALSE
    /\ Enter(AfterCopy[pc])
    /\ \/ NoFault /\ Put(Dest[pc], SourceData(pc))
       \/ Fault("partial") /\ Put(Dest[pc], "Partial")
    /\ UNCHANGED <<journal, st, patched, crashes>>

CopyClose ==
    /\ pc \in Jobs
    /\ copying
    /\ copying' = FALSE
    /\ \/ NoFault /\ Put(Dest[pc], SourceData(pc)) /\ Enter(AfterCopy[pc])
       \/ /\ \/ Fault("write") /\ \E c \in {"Empty", SourceData(pc)} : Put(Dest[pc], c)
             \/ Fault("partial") /\ Put(Dest[pc], "Partial")
          /\ Enter(AfterFailedCopy[pc])
    /\ UNCHANGED <<journal, st, patched, crashes>>

-----------------------------------------------------------------------------
(* cleanup_transaction: staged NRO, backup, marker and state.tmp, each even*)
(* if another failed; the journal, the directory and the saved payload     *)
(* only if none did.  A removal may fail after the file is gone.           *)

ResultPage == CASE goal = "commit" -> IF ok' THEN "success" ELSE "warning"
                [] goal = "rollback" -> "restored"
                [] OTHER -> "unchanged"

Remove(here, f, good, bad) ==
    /\ pc = here
    /\ \/ NoFault /\ Put(f, "Absent") /\ ok' = ok /\ pc' = good
       \/ /\ Fault("write") /\ ok' = FALSE /\ pc' = bad
          /\ disk' = disk \/ Put(f, "Absent")
    /\ UNCHANGED <<journal, copying, st, goal, patched, crashes>>

\* Mutants: the journal goes with the staged NRO, first; the marker is forgotten.
RemoveNewAndState ==
    /\ pc = "rm_new"
    /\ pc' = "rm_backup"
    /\ Put("new", "Absent")
    /\ state' = "Absent"
    /\ UNCHANGED <<tmp, wstep, copying, locals, faults, patched, crashes>>
RemoveReadyForgotten ==
    /\ pc = "rm_ready"
    /\ pc' = "rm_tmp"
    /\ UNCHANGED <<journal, disk, copying, locals, faults, patched, crashes>>

RemoveNew == Remove("rm_new", "new", "rm_backup", "rm_backup")
RemoveBackup == Remove("rm_backup", "backup", "rm_backupDir", "rm_ready")
RemoveBackupDir == Remove("rm_backupDir", "backupDir", "rm_ready", "rm_ready")
RemoveReady == Remove("rm_ready", "ready", "rm_tmp", "rm_tmp")
RemoveSaved == Remove("rm_saved", "saved", ResultPage, ResultPage)

RemoveTmp ==
    /\ pc = "rm_tmp"
    /\ \/ NoFault /\ tmp' = "Absent" /\ ok' = ok
       \/ Fault("write") /\ tmp' \in {tmp, "Absent"} /\ ok' = FALSE
    /\ pc' = IF ok' THEN "rm_state" ELSE ResultPage
    /\ UNCHANGED <<state, disk, wstep, copying, st, goal, patched, crashes>>

RemoveState ==
    /\ pc = "rm_state"
    /\ \/ NoFault /\ state' = "Absent" /\ ok' = ok
       \/ Fault("write") /\ state' \in {state, "Absent"} /\ ok' = FALSE
    /\ pc' = IF ok' THEN "rm_root" ELSE ResultPage
    /\ UNCHANGED <<tmp, disk, wstep, copying, st, goal, patched, crashes>>

RemoveRoot ==
    /\ pc = "rm_root"
    /\ \/ NoFault /\ ok' = ok
       \/ Fault("write") /\ ok' = FALSE
    /\ pc' = IF ok' /\ patched THEN "rm_saved" ELSE ResultPage
    /\ UNCHANGED <<journal, disk, copying, st, goal, patched, crashes>>

CleanupTransaction == RemoveNew \/ RemoveBackup \/ RemoveBackupDir \/ RemoveReady
                        \/ RemoveTmp \/ RemoveState \/ RemoveRoot \/ RemoveSaved

\* Every page ends with a restart or power-off; nothing in memory survives.
Forget == /\ pc' = "off" /\ wstep' = "mkdir" /\ copying' = FALSE
          /\ st' = "none" /\ goal' = "none" /\ ok' = TRUE

ResultShown ==
    /\ pc \in Pages
    /\ Forget
    /\ UNCHANGED <<state, tmp, disk, faults, patched, crashes>>

-----------------------------------------------------------------------------
(* Horizon.                                                                *)

\* extractArchive(app): refuse while an update is pending, else start over.
\* The app that runs is the installed one; from here on it is the old one.
StageBegin ==
    /\ pc = "home"
    /\ ~Pending
    /\ disk["target"] \in Complete
    /\ \/ /\ NoFault
          /\ disk' = [disk EXCEPT !["new"] = "Absent", !["target"] = "Old"]
          /\ pc' = "extract"
       \/ Fault("write") /\ Put("new", "Absent") /\ pc' = pc
    /\ UNCHANGED <<journal, copying, locals, patched, crashes>>

\* Mutant: the marker is written whatever extraction left.
StageExtractUnchecked ==
    /\ pc = "extract"
    /\ \E c \in {"Absent", "Empty", "Partial", "New"} : Put("new", c) /\ pc' \in {"mark", "home"}
    /\ UNCHANGED <<journal, copying, locals, faults, patched, crashes>>

\* Extraction checks the CRC; cancelled or failing it leaves anything, and the
\* marker is not written.
StageExtract ==
    /\ pc = "extract"
    /\ \/ Put("new", "New") /\ pc' = "mark"
       \/ \E c \in {"Absent", "Empty", "Partial", "New"} : Put("new", c) /\ pc' = "home"
    /\ UNCHANGED <<journal, copying, locals, faults, patched, crashes>>

\* cfwWriteTextFileAtomic(ready); the final commit can fail with the marker there.
StageMark ==
    /\ pc = "mark"
    /\ \/ NoFault /\ Put("ready", "Marker") /\ pc' = "confirm"
       \/ Fault("write") /\ (Put("ready", "Marker") \/ UNCHANGED disk) /\ pc' = "home"
    /\ UNCHANGED <<journal, copying, locals, patched, crashes>>

\* ConfirmPage_AppUpdate, button: restart into the payload at once, or by way
\* of payload.bin, unless a saved payload is already there.
ConfirmRestart ==
    /\ pc = "confirm"
    /\ NonEmpty("target") /\ NonEmpty("ready") /\ NonEmpty("new")
    /\ \/ ~patched /\ pc' = "ipl_main" /\ UNCHANGED goal
       \/ patched /\ ~Exists("saved") /\ pc' = "save" /\ goal' = "app"
    /\ UNCHANGED <<journal, disk, copying, st, ok, faults, patched, crashes>>

\* The page is left by closing the app.
ConfirmLeave ==
    /\ pc = "confirm"
    /\ pc' = "home"
    /\ UNCHANGED <<journal, disk, copying, locals, faults, patched, crashes>>

\* ConfirmPage_AmsUpdate of a CFW update, not erista: the same save and
\* replacement of payload.bin, without looking for an earlier saved payload.
AmsRestart ==
    /\ pc = "home"
    /\ patched
    /\ pc' = "save"
    /\ goal' = "ams"
    /\ UNCHANGED <<journal, disk, copying, st, ok, faults, patched, crashes>>

\* The restart request.  Refused, ConfirmPage_AppUpdate puts payload.bin back;
\* util::shutDown of a CFW update does not look at the result.
Reboot ==
    /\ pc = "reboot"
    /\ \/ NoFault /\ pc' = "off" /\ goal' = "none"
       \/ /\ Fault("reboot")
          /\ pc' = IF goal = "ams" THEN "home" ELSE "disarm"
          /\ UNCHANGED goal
    /\ UNCHANGED <<journal, disk, copying, st, ok, patched, crashes>>

-----------------------------------------------------------------------------
\* Power lost.  A file the payload was copying to is left as the open left it;
\* what Horizon's file service had written by then is not known.
PowerLoss ==
    /\ pc \notin {"off", "home", "confirm"} \cup Pages
    /\ crashes < MaxCrashes
    /\ crashes' = crashes + 1
    /\ IF pc = "extract" THEN \E c \in {"Absent", "Empty", "Partial", "New"} : Put("new", c)
       ELSE IF copying /\ pc \in HorizonJobs THEN \E c \in {"Empty", "Partial"} : Put(Dest[pc], c)
       ELSE IF pc = "mark" THEN \E c \in {"Absent", "Marker"} : Put("ready", c)
       ELSE UNCHANGED disk
    /\ Forget
    /\ UNCHANGED <<state, tmp, patched, faults>>

PayloadStep == \/ IplMain \/ EasyRenameUnlink \/ EasyRename
               \/ ReadJournal \/ CheckNew \/ CheckTarget \/ FindBackup \/ BackupDir
               \/ BackupRemoveOld \/ CheckBackup \/ WriteState \/ WriteStateDone
               \/ CopyOpen \/ CopyClose \/ CleanupTransaction \/ ResultShown

HorizonStep == \/ StageBegin \/ StageExtract \/ StageMark \/ ConfirmRestart
               \/ ConfirmLeave \/ AmsRestart \/ Reboot

Next == PowerOn \/ RcmLaunch \/ PayloadStep \/ HorizonStep \/ PowerLoss

Spec == Init /\ [][Next]_vars

\* The payload runs on as long as it has power, and the user acts in the end:
\* leaves the page or presses its button, and starts the payload again.
FairSpec == Spec /\ WF_vars(PayloadStep) /\ WF_vars(HorizonStep) /\ WF_vars(RcmLaunch)
=============================================================================
