------------------------ MODULE AppUpdaterProperties ------------------------
(***************************************************************************)
(* What the self-update of AIO MOD promises, the transaction it            *)
(* implements, and the inductive invariants the proofs rest on.            *)
(***************************************************************************)
EXTENDS AppUpdater

\* The state of the updater and of the card: every place is one the code names,
\* and no record but one of its own, or a torn one, is ever acted upon.
TypeOK ==
    /\ JournalTypeOK
    /\ disk \in [Files -> Contents]
    /\ pc \in Places
    /\ copying \in BOOLEAN
    /\ st \in States \cup {"none", "Partial"}
    /\ goal \in Goals \cup {"none", "app", "ams"}
    /\ ok \in BOOLEAN
    /\ patched \in Consoles
    /\ crashes \in 0..MaxCrashes

\* ui_success_wait and ui_warning_wait ("AIO MOD update verified."): whatever
\* failed on the way, they are shown only over a completely installed new NRO.
SuccessMeansInstalled == pc \in {"success", "warning"} => disk["target"] = "New"

\* While the installed NRO is missing, empty or torn there is a complete backup
\* to restore it from: no order of power cuts loses the app.
Recoverable == disk["target"] \in Complete \/ disk["backup"] \in Complete

\* The only complete copy is never written: the backup stays as it is while
\* the installed NRO is not complete.
BackupKept == [][disk["target"] \notin Complete => disk'["backup"] = disk["backup"]]_vars

\* The console's own boot payload survives in payload.bin or payload.bin.aio
\* from the arming of the restart to the end of the transaction.
BootPayloadKept == disk["payload"] = "Normal" \/ disk["saved"] = "Normal"

\* Every pending update of an unpatched console is settled: committed, rolled
\* back or abandoned, once power cuts stop, however they interrupted it.
PendingSettled == (~patched /\ Pending) ~> ~Pending

-----------------------------------------------------------------------------
(* Refinement of UpdateTransaction: the journal decides the phase, and the *)
(* backup stands in for an installed NRO that is not complete.             *)

TxPhase == IF ~Pending THEN "idle"
           ELSE CASE read_state = "COMMIT_IN_PROGRESS" -> "committed"
                  [] read_state = "ROLLBACK_COMPLETE" -> "reverted"
                  [] OTHER -> "open"
TxInstalled == IF disk["target"] \in Complete THEN disk["target"] ELSE disk["backup"]

Tx == INSTANCE UpdateTransaction WITH phase <- TxPhase, installed <- TxInstalled

\* The updater implements the transaction: a complete version at every power
\* cut, a commit only of the new version, and a decided outcome never undone.
ImplementsTransaction == Tx!Spec

-----------------------------------------------------------------------------
(* The inductive invariant behind SuccessMeansInstalled, for all faults.   *)

InTransaction == States \cup Cleanup \cup {"backup", "install", "restore", "payload"}
                   \cup {"read_state", "check_new", "check_target", "backup_dir",
                         "backup_rm", "check_backup", "find_backup"}

\* The payload never meets a torn staged NRO: the marker that makes an update
\* pending is written only over a complete one.
StagedWhole ==
    /\ Pending \/ pc \in InTransaction => disk["new"] \in {"Absent", "New"}
    /\ pc \in {"extract", "mark"} => ~Pending
    /\ pc = "mark" => disk["new"] = "New"
    /\ pc = "install" /\ copying => disk["new"] = "New"

\* How far write_state and the copy in flight have got.
CallsInOrder ==
    /\ pc \notin States => wstep = "mkdir"
    /\ wstep \in {"drop", "rename"} => tmp = pc
    /\ wstep = "ok" => state = pc /\ tmp = "Absent"
    /\ copying => pc \in Jobs

\* A record that claims the new NRO is in place tells the truth, in either file
\* and while it is written, and none is left when the installed NRO changes.
Claims == {"COPY_COMPLETE", "COMMIT_IN_PROGRESS"}
ClaimsTrue ==
    /\ state \in Claims \/ tmp \in Claims \/ pc \in Claims => disk["target"] = "New"
    /\ pc \in {"install", "restore"} => state \notin Claims /\ tmp \notin Claims
    /\ goal = "commit" /\ pc \in Cleanup \cup {"payload"} => disk["target"] = "New"

\* Together: why ui_success_wait never lies (all errors, all power cuts).
InstallInv == TypeOK /\ StagedWhole /\ CallsInOrder /\ ClaimsTrue /\ SuccessMeansInstalled

-----------------------------------------------------------------------------
(* The inductive invariant behind Recoverable, BackupKept and the          *)
(* refinement: power cuts in any number, no I/O errors.                    *)

Ended == {"COMMIT_IN_PROGRESS", "ROLLBACK_COMPLETE"}
Working == States \cup {"backup", "install", "restore", "check_new", "check_target",
                       "backup_dir", "backup_rm", "check_backup", "find_backup"}

\* Without errors no call fails and no update is abandoned, and a power cut
\* leaves a file empty, not torn.
NothingFails ==
    /\ wstep # "fail"
    /\ goal \notin {"abort", "halt"}
    /\ state \in States \cup {"Absent"} /\ tmp \in States \cup Blank
    /\ disk["target"] \in Complete \cup {"Empty"}
    /\ disk["backup"] \in Complete \cup Blank

\* Until the outcome is decided the marker and the staged NRO stay, so that a
\* lost journal is taken for a fresh update and never for an unknown one.
OpenIntact ==
    /\ (Pending /\ read_state \notin Ended) \/ pc \in Working
            => Exists("ready") /\ disk["new"] = "New"
    /\ pc = "read_state" => Pending
    /\ pc \in {"extract", "mark"} => disk["target"] = "Old"

\* The clean-up runs only under a decided outcome, which is the last to go.
EndIsDecided ==
    /\ pc \in Cleanup \cup {"payload"} =>
          /\ goal \in {"commit", "rollback"} /\ disk["target"] \in Complete
          /\ state \in Ended \cup {"Absent"} /\ tmp \in Ended \cup {"Absent"}
    /\ pc \in {"payload", "rm_new", "rm_backup", "rm_backupDir", "rm_ready", "rm_tmp"}
          => read_state \in Ended
    /\ pc \in {"rm_ready", "rm_tmp", "rm_state", "rm_root", "rm_saved"} => ~Exists("backupDir")
    /\ pc \in {"rm_tmp", "rm_state", "rm_root", "rm_saved"} => ~Exists("ready")
    /\ pc \in {"rm_state", "rm_root", "rm_saved"} => tmp = "Absent"
    /\ pc \in {"rm_root", "rm_saved"} => state = "Absent"
    /\ state \in Ended => tmp = "Absent"
    /\ pc \in Working /\ wstep \in {"mkdir", "clear", "open", "sync"}
          => read_state \notin Ended

\* Where the run is, against the record a restart would read.
RunFollowsJournal ==
    /\ pc = "STAGED" => st = "STAGED"
    /\ pc \in {"check_new", "check_target"}
          => read_state = st /\ st \in {"STAGED", "BACKUP_IN_PROGRESS", "BACKUP_COMPLETE"}
    /\ pc \in {"backup_dir", "backup_rm", "backup"} => read_state = "BACKUP_IN_PROGRESS"
    /\ pc = "check_backup" => read_state = "BACKUP_COMPLETE"
    /\ pc = "find_backup" => read_state = "STAGED"
    /\ pc = "install" => state = "COPY_IN_PROGRESS" /\ tmp = "Absent"
    /\ pc = "restore" => state = "ROLLBACK_IN_PROGRESS" /\ tmp = "Absent"

\* The records that stand for a complete backup, and for a complete NRO.
NeedBackup == {"COPY_IN_PROGRESS", "COPY_COMPLETE", "ROLLBACK_IN_PROGRESS"}
NeedTarget == {"BACKUP_IN_PROGRESS", "BACKUP_COMPLETE", "COPY_COMPLETE"} \cup Ended
BackupWhole ==
    /\ state \in NeedBackup \/ tmp \in NeedBackup \/ read_state = "BACKUP_COMPLETE"
            => disk["backup"] \in Complete
    /\ pc \in NeedBackup \cup Ended \cup {"BACKUP_COMPLETE", "check_backup", "find_backup",
                               "install", "restore"}
            => disk["backup"] \in Complete
    /\ state = "BACKUP_IN_PROGRESS" => tmp \notin NeedBackup /\ pc \notin NeedBackup
TargetWhole ==
    /\ state \in NeedTarget \/ tmp \in NeedTarget => disk["target"] \in Complete
    /\ pc \in NeedTarget \cup {"COPY_IN_PROGRESS", "backup_dir", "backup_rm", "backup",
                             "check_backup"}
            => disk["target"] \in Complete

\* Together: aio_app_update_run resumed after any power cut finds the files that
\* the record it reads stands for.
CrashInv == /\ InstallInv /\ NothingFails /\ OpenIntact /\ EndIsDecided /\ RunFollowsJournal
            /\ BackupWhole /\ TargetWhole /\ Recoverable

\* The inductive invariant behind BootPayloadKept, again without I/O errors
\* (restore_boot_payload_if_needed, easy_rename and ConfirmPage_AppUpdate):
\* Horizon runs from the normal payload, the updater under a saved one.
BootInv ==
    /\ BootPayloadKept
    /\ pc \in {"home", "confirm", "extract", "mark", "save"} \cup Cleanup
          => disk["payload"] = "Normal"
    /\ patched /\ pc \in {"arm", "reboot", "ipl_main", "legacy_unlink", "legacy_rename"}
                           \cup (InTransaction \ Cleanup) => disk["saved"] = "Normal"
    /\ ~patched => /\ disk["payload"] = "Normal"
                   /\ pc \notin HorizonJobs \cup {"payload", "reboot", "legacy_unlink",
                                              "legacy_rename"}
    /\ pc # "disarm"
=============================================================================
