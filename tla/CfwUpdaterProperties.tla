------------------------ MODULE CfwUpdaterProperties ------------------------
(***************************************************************************)
(* What the CFW update promises about the card.                            *)
(***************************************************************************)
EXTENDS CfwUpdater

\* The state of the updater and of the card.
TypeOK ==
    /\ JournalTypeOK
    /\ root \in [Paths -> Contents]
    /\ bak \in [Paths -> Contents]
    /\ mark \in SUBSET Paths
    /\ disk \in [Files -> DiskContents]
    /\ \A f \in {"saved", "next", "live"} : disk[f] \in Contents
    /\ pc \in Places
    /\ i \in Paths
    /\ st \in States \cup {"none", "Partial"}
    /\ goal \in Goals
    /\ err \in BOOLEAN
    /\ patched \in Consoles
    /\ lost \in SUBSET Package
    /\ orig \in SUBSET Paths
    /\ partial \in BOOLEAN
    /\ decided \in BOOLEAN
    /\ crashes \in 0..MaxCrashes

\* The original of a path: in its place, in the backup, or, for the boot payload
\* of a patched console, in the copy Horizon saved.
Kept(p) == \/ root[p] = "Old"
           \/ bak[p] = "Old"
           \/ patched /\ p = Payload /\ disk["saved"] = "Old"

\* aio_cfw_update_run: until the update commits, every path of the old CFW is
\* still somewhere on the card, wherever power is lost and however often.
OriginalsKept == decided \/ \A p \in orig : Kept(p)

\* "Sentinel files remember that a managed root path did not exist before the
\* update." (create_absent_marker): only such paths have one.
SentinelsTrue == decided \/ mark \cap orig = {}

\* ui_rollback_success_wait, "The previous CFW was restored successfully.": every
\* managed path is as it was, also those that were absent.
Previous == \A p \in Paths : root[p] = IF p \in orig THEN "Old" ELSE "Absent"
RestoredMeansPrevious == pc = "restored" /\ ~decided => Previous

\* ui_success_wait and ui_warning_wait, "The new CFW was installed and verified.": every
\* path of the package is in place, copied whole (payload.bin of a patched
\* console apart).  Not so for a package that lost files to an unfinished removal
\* before it was copied: staged_package_valid lets it pass, and nothing tells.
Installed(p) == root[p] \in {"New", "Mixed"}
ToInstall == Package \ (Legacy \cup IF patched THEN {Payload} ELSE {})
SuccessMeansInstalled ==
    pc \in {"success", "warning"} /\ ~partial => \A p \in ToInstall : Installed(p)

\* finalize_patched_payload: a patched console that is told of success starts the
\* new payload.bin next.
SuccessMeansBootable == patched /\ pc \in {"success", "warning"} => root[Payload] = "New"

\* "A backup without a journal is never destroyed." (aio_cfw_update_run): while
\* there is no record, no original goes from the backup but to its place.
LostJournalKeepsBackup ==
    [][\A p \in Paths : read_state = "none" /\ bak[p] = "Old" /\ bak'[p] # "Old"
          => root'[p] = "Old"]_vars

\* Every pending update of an unpatched console is committed, rolled back or
\* abandoned in the end.
PendingSettled == (~patched /\ Pending) ~> ~Pending
-----------------------------------------------------------------------------
(* The inductive invariant behind the first three, for a card that returns *)
(* no I/O errors: what the card holds at every call of the payload and of  *)
(* Horizon, so that a power cut there leaves what the next start needs.    *)

\* Everything is in the backup or marked; nothing is.
Secured == \A p \in Paths : IF p \in orig THEN bak[p] = "Old" ELSE p \in mark
Untouched == mark = {} /\ \A p \in Paths : bak[p] = "Absent"

\* The records that say that the backup is complete, and where the payload acts
\* on that.
BackedUp == {"BACKUP_COMPLETE", "COPY_IN_PROGRESS", "COPY_COMPLETE", "FINALIZE_BOOT_PAYLOAD"}
Installing == BackedUp \cup {"copy", "verify", "finalize", "fin_copy", "fin_keep", "fin_swap"}

\* write_state as far as it has got; nothing fails.
WriteInProgress ==
    /\ wstep # "mkdir" => pc \in States
    /\ wstep # "fail" /\ pc # "disarm" /\ ~err
    /\ wstep \in {"drop", "rename"} => tmp = pc
    /\ wstep = "ok" => state = pc /\ tmp = "Absent"

\* The record of a commit is written by a commit.
CommitDecided == Commit \in {state, tmp, pc} \/ pc \in CommitSteps => decided

\* The backup is in its directory, which a new update does not find, and begins
\* when the package was found complete.
BackupInDir ==
    /\ disk["dir"] = "Absent" => Untouched
    /\ pc = "backup" => disk["dir"] # "Absent"
    /\ pc = "extract" => Untouched
    /\ pc \in {"BACKUP_IN_PROGRESS", "backup_dir", "backup"} => disk["new"] \in {"New", "Torn"}

\* A patched console: Horizon runs from a payload that is not the updater, and
\* an update that was just staged finds the old one.
BootedFromPayload ==
    patched =>
        /\ pc \in {"boot", "hz_commit", "home"} \/ (pc \in CommitSteps /\ goal = "horizon")
              => root[Payload] \in {"Old", "New"}
        /\ pc \in {"extract", "stage_state", "stage_ready", "confirm", "save", "arm"}
              => root[Payload] = "Old"
        /\ pc \in {"arm", "reboot"} => disk["saved"] = "Old"
PatchedOnly ==
    pc \in {"save", "arm", "disarm", "reboot", "legacy_unlink", "legacy_rename"} => patched

\* Originals and sentinels: where each path's original is, and that nothing else
\* is in the root of the card under a path without one.
CardAccounted ==
    /\ SentinelsTrue /\ OriginalsKept
    /\ \A p \in Paths : bak[p] # "Absent" => bak[p] = "Old" /\ p \in orig
    /\ \A p \in Paths : p \notin orig => root[p] = "Absent" \/ p \in mark
    /\ patched => Payload \in orig
    /\ disk["new"] \in {"New", "Torn"} \/ Untouched

\* The saved payload of a patched console while the updater runs, or would be
\* started next; and until the rollback nothing else has its original.
Updating == States \cup Loops \cup Run
SavedAccounted ==
    patched =>
        /\ root[Payload] = "Updater" \/ pc \in Updating => disk["saved"] \in {"Old", "Absent"}
        /\ pc \in {"ipl_main", "read_state", "check_package", "backup_dir", "backup"}
                    \cup Installing \cup (States \ {Commit})
              => root[Payload] # "Old"
        /\ pc \in {"legacy_unlink", "legacy_rename"} => disk["saved"] = "Old"

\* A record, read or on the card, that says so has a complete backup behind it.
RecordsTrue ==
    /\ BackedUp \cap {state, tmp} # {} => Secured
    /\ pc \in Installing => Secured
    /\ pc \in {"STAGED", "check_package"} /\ st \in BackedUp => Secured

\* How far the loops have got; the rollback and the abort.
LoopsInOrder ==
    /\ pc = "backup" => \A p \in Paths :
          p < i => IF p \in orig THEN bak[p] = "Old" ELSE p \in mark
    /\ pc = "undo" => \A p \in Paths : p < i => p \notin mark
    /\ pc = "restore" => mark = {} /\ \A p \in Paths : p < i => bak[p] = "Absent"
    /\ pc \in {"restore_saved", "rm_aside", "rm_root", "abort", "abort_rename"} => Untouched
    /\ pc \in {"undo", "restore", "restore_saved"} => state = Rollback /\ tmp = "Absent"
    /\ pc \in {"rm_aside", "restored"} \/ (pc = "rm_root" /\ goal = "rollback") => Previous
    /\ pc = "abort_rename" => patched /\ goal # "rollback"

BeforeCommit == CardAccounted /\ SavedAccounted /\ RecordsTrue /\ LoopsInOrder

\* aio_cfw_update_run restarted after any power cut finds the originals, the
\* sentinels and the saved payload that the record it reads stands for.
CfwCrashInv == /\ TypeOK /\ WriteInProgress /\ CommitDecided /\ BackupInDir
               /\ BootedFromPayload /\ PatchedOnly
               /\ decided \/ BeforeCommit
-----------------------------------------------------------------------------
(* The inductive invariant behind SuccessMeansInstalled, for a card that   *)
(* may refuse writes, be full and lose power, but never misreads.          *)

AllInstalled == partial \/ \A p \in ToInstall : Installed(p)

\* The records that say that the copy is complete, and where the payload and
\* Horizon act on that.
Copied == {"COPY_COMPLETE", "FINALIZE_BOOT_PAYLOAD", Commit}
Finalizing == {"finalize", "fin_copy", "fin_keep", "fin_swap"}
PastCopy == Copied \cup Finalizing \cup CommitSteps \cup {"verify", "hz_commit", "success", "warning"}
NotCopied == Copied \cap {state, tmp} = {}

\* write_state as far as it has got; on a full card the record is empty.
WriteOrShort ==
    /\ wstep # "mkdir" => pc \in States
    /\ wstep \in {"drop", "rename"} => tmp \in {pc, "Empty"}
    /\ wstep = "ok" => state \in {pc, "Empty"} /\ tmp = "Absent"
    /\ "Partial" \notin {state, tmp}

\* A run that was handed to staged_package_valid knows its record.
Resumable == {"STAGED", "BACKUP_IN_PROGRESS", "BACKUP_COMPLETE", "COPY_IN_PROGRESS",
              "COPY_COMPLETE", "FINALIZE_BOOT_PAYLOAD"}
RecordKnown ==
    /\ pc \in {"STAGED", "check_package"} => st \in Resumable
    /\ pc = "STAGED" => st = "STAGED"
    /\ pc \in {"FINALIZE_BOOT_PAYLOAD"} \cup Finalizing => patched

\* Where paths leave the root of the card, no file of the journal, however old,
\* says that the copy is complete.
OldRecords ==
    /\ pc \in {"STAGED", "BACKUP_IN_PROGRESS", "backup_dir", "abort", "abort_rename",
               "rm_aside", "rm_root", "restore_saved", "extract", "stage_state", "stage_ready"}
               \cup (Loops \ {"copy"})
          => NotCopied
    /\ pc = "check_package" /\ st \in {"STAGED", "BACKUP_IN_PROGRESS"} => NotCopied
    /\ tmp \in Copied \/ pc \in Copied \cup Finalizing \cup {"copy", "verify", "hz_commit"}
          => state \in Blank \cup Copied \cup {"COPY_IN_PROGRESS"}
    /\ pc = "check_package" /\ st \in Copied \cup {"COPY_IN_PROGRESS"}
          => state \in Blank \cup Copied \cup {"COPY_IN_PROGRESS"}
    /\ pc = "copy" \/ (pc = "check_package" /\ st = "COPY_IN_PROGRESS") => read_state \notin Copied

\* What the record, the place and the loop say of the copy is so.
CopyTrue ==
    /\ read_state \in Copied \/ pc \in PastCopy => AllInstalled
    /\ pc = "check_package" /\ st \in Copied => AllInstalled
    /\ pc = "copy" => partial \/ \A p \in ToInstall : p < i => Installed(p)

\* A complete package has lost nothing.
PackageWhole == disk["new"] = "New" \/ pc = "extract" => lost = {}

\* copy_staged_root, commit_transaction and finalizeCfwUpdateAfterSuccessfulBoot:
\* a record of a complete copy is read only beside a complete copy, or a copy of
\* all that was left of the package.
CfwInstallInv == /\ TypeOK /\ WriteOrShort /\ RecordKnown /\ PatchedOnly
                 /\ OldRecords /\ CopyTrue /\ PackageWhole

-----------------------------------------------------------------------------
(* The inductive invariant behind SuccessMeansBootable, whatever the card  *)
(* does, when the lengths tell the updater from the new payload.           *)

\* The payload of a patched console runs from payload.bin, so never beside the
\* record of a commit; Horizon never from the updater.
NoCommitRecord == Commit \notin {state, tmp}
PayloadRuns ==
    patched =>
        /\ pc \in (Run \cup Loops \cup States \cup (Horizon \ {"boot", "hz_commit", "home"})) \ {Commit}
              => NoCommitRecord
        /\ ~NoCommitRecord \/ pc \in {"boot", "hz_commit"} => root[Payload] \in {"Old", "New"}
        /\ pc \in {Commit, "success", "warning"} \/ (pc \in CommitSteps /\ goal # "horizon")
              => root[Payload] = "New"
        /\ pc \in {"fin_keep", "fin_swap"} => disk["next"] = "New"
        /\ pc \in CommitSteps => root[Payload] \in {"Old", "New"}

\* finalize_patched_payload: a patched console commits with the new payload.bin
\* in place and only then.
CfwBootInv == /\ TypeOK /\ WriteOrShort /\ PayloadRuns
              /\ pc \in {"STAGED", "check_package"} => st \in Resumable
              /\ pc = "hz_commit" => goal = "horizon"
=============================================================================
