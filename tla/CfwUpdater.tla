----------------------------- MODULE CfwUpdater -----------------------------
(***************************************************************************)
(* The update of the custom firmware (CFW).  Horizon (utils.cpp,           *)
(* confirm_page.cpp) extracts a package under /aio-mod-update/new and      *)
(* restarts into the payload; the payload (aio_cfw_updater.c) moves the    *)
(* managed paths of the card into a backup by renaming them, copies the    *)
(* package, and commits or rolls back, driven by a journal.  A path that   *)
(* was not there before gets an "absent" sentinel in the backup.           *)
(*                                                                         *)
(* An operation on a tree takes one step here; PowerLoss says what it      *)
(* leaves behind when it is interrupted.  Nothing else looks at the card   *)
(* in the meantime: the console runs one program at a time.                *)
(***************************************************************************)
EXTENDS Naturals

CONSTANTS
    N,            \* the number of managed paths; 1 is atmosphere, N payload.bin
    Package,      \* the managed paths the staged package brings
    Legacy,       \* the hidden legacy path: backed up, never installed
    Consoles,     \* the consoles there may be: patched_or_mariko (and not erista) or not
    SameSize,     \* have the updater and the new payload.bin the same length?
    Faults,       \* the kinds of I/O error the card may return (see Journal)
    MaxFaults,    \* how many of them
    MaxCrashes    \* how many power cuts

Paths == 1..N
Core == 1
Payload == N

\* A record is shorter than a sector, and f_write counts a sector whole: there is
\* no "partial" fault, and a full card stores nothing ("short").
ASSUME CfwAssumption ==
    /\ N \in Nat \ {0, 1}
    /\ Package \subseteq Paths /\ Core \in Package /\ (TRUE \in Consoles => Payload \in Package)
    /\ Legacy \subseteq Paths \ {Core, Payload}
    /\ Consoles \subseteq BOOLEAN /\ Consoles # {} /\ SameSize \in BOOLEAN
    /\ Faults \subseteq {"write", "read", "short", "reboot"}
    /\ MaxFaults \in Nat
    /\ MaxCrashes \in Nat

VARIABLES
    state, tmp, \* the journal
    root,       \* the managed paths in the root of the card
    bak,        \* the same paths in the backup directory
    mark,       \* the paths with an absent sentinel there
    disk,       \* the other files
    pc,         \* where the console is
    wstep,      \* inside write_state: the call it makes next (see Journal)
    i,          \* the managed path a loop is at
    st,         \* aio_cfw_update_run: the state string it read
    goal,       \* what a removal of update files is for
    err,        \* restore_backup: some path could not be restored
    patched,    \* is the console a patched one?  It stays what it is
    lost,       \* the paths of which the staged package has nothing left
    orig,       \* history: the paths that were there when the update was staged
    partial,    \* history: did this update copy a package that had lost files?
    decided,    \* history: has this update begun to commit?
    faults, crashes

\* The records of the journal (STATE_...; PENDING_BOOT is written by older builds
\* only).
States == {"STAGED", "BACKUP_IN_PROGRESS", "BACKUP_COMPLETE", "COPY_IN_PROGRESS",
           "COPY_COMPLETE", "FINALIZE_BOOT_PAYLOAD", "ROLLBACK_IN_PROGRESS",
           "ROLLBACK_FAILED", "COMMIT_IN_PROGRESS"}

\* While write_state(v) runs, pc is v.
INSTANCE Journal WITH Values <- States, wval <- pc

vars == <<state, tmp, root, bak, mark, disk, pc, wstep, i, st, goal, err, patched,
          lost, orig, partial, decided, faults, crashes>>
journal == <<state, tmp, wstep>>
backup == <<bak, mark>>
given == <<patched, lost, orig, partial>>
history == <<given, decided>>
locals == <<st, goal, err>>

(* What a path or a file holds.  "Torn" is a tree that is not complete,    *)
(* "Mixed" new files over an old tree, "Part" what a package that has lost *)
(* files still has of it, "Stub" a staged package without the files        *)
(* staged_package_valid asks for ("Torn" has them).                        *)
Contents == {"Absent", "Torn", "Part", "Old", "New", "Mixed", "Updater"}

\* ready and the backup directory; the staged package; payload.bin.aio,
\* payload.next and updater-live.bin.
Files == {"ready", "dir", "new", "saved", "next", "live"}
DiskContents == Contents \cup {"Stub", "Here"}

Exists(f) == disk[f] # "Absent"                \* path_exists
Put(f, c) == disk' = [disk EXCEPT ![f] = c]
PutRoot(p, c) == root' = [root EXCEPT ![p] = c]

\* aio_cfw_update_pending, and hasPendingCfwUpdateTransaction of Horizon.
Pending == Exists("ready") \/ read_state # "none" \/ Exists("dir")

\* FolderCopy over what is there: unfinished, and finished.
Overlay(c) == IF c \in {"Old", "Mixed"} THEN "Mixed" ELSE "Torn"
Overlaid(c) == IF c \in {"Old", "Mixed"} THEN "Mixed"
               ELSE IF disk["new"] = "New" THEN "New" ELSE "Part"

\* remove_path_silent when it does not get to its end (payload.bin is a file).
Remains(p) == {root[p], "Absent"} \cup
              (IF p = Payload \/ root[p] = "Absent" THEN {} ELSE {"Torn"})

-----------------------------------------------------------------------------
(* Control flow.                                                           *)

Rollback == "ROLLBACK_IN_PROGRESS"     \* rollback_transaction starts with it
Commit == "COMMIT_IN_PROGRESS"         \* and commit_transaction with it
Goals == {"none", "rollback", "unchanged", "commit", "horizon"}
Pages == {"success", "warning", "restored", "unchanged", "fatal"}
Loops == {"backup", "copy", "undo", "restore"}
CommitSteps == {"rm_backup", "rm_new", "rm_ready", "rm_next", "rm_live", "rm_saved",
                "rm_tmp", "rm_state"}
Run == {"ipl_main", "read_state", "check_package", "backup_dir", "verify", "finalize",
        "fin_copy", "fin_keep", "fin_swap", "restore_saved", "rm_aside", "rm_root", "abort",
        "abort_rename", "legacy_unlink", "legacy_rename"}
Horizon == {"boot", "hz_commit", "home", "extract", "stage_state", "stage_ready",
            "confirm", "save", "arm", "disarm", "reboot"}
Places == States \cup Loops \cup CommitSteps \cup Pages \cup Run \cup Horizon \cup {"off"}

\* Go on at place l; a loop starts at the first path.
Enter(l) == /\ pc' = l /\ i' = 1
            /\ decided' = (decided \/ l = Commit)

\* The next path of a loop, or what follows the loop.
NextPath(l) == IF i < N THEN pc' = pc /\ i' = i + 1 /\ UNCHANGED decided ELSE Enter(l)

\* Mutant: the boot payload is forgotten on patched consoles.
AfterWriteWithoutFinalize ==
    [STAGED                |-> "check_package",
     BACKUP_IN_PROGRESS    |-> "backup_dir",
     BACKUP_COMPLETE       |-> "COPY_IN_PROGRESS",
     COPY_IN_PROGRESS      |-> "copy",
     COPY_COMPLETE         |-> Commit,
     FINALIZE_BOOT_PAYLOAD |-> "finalize",
     ROLLBACK_IN_PROGRESS  |-> "undo",
     ROLLBACK_FAILED       |-> "fatal",
     COMMIT_IN_PROGRESS    |-> "rm_backup"]

\* What follows write_state when it returns FR_OK, and when it does not.
AfterWrite ==
    [STAGED                |-> "check_package",
     BACKUP_IN_PROGRESS    |-> "backup_dir",
     BACKUP_COMPLETE       |-> "COPY_IN_PROGRESS",
     COPY_IN_PROGRESS      |-> "copy",
     COPY_COMPLETE         |-> IF patched THEN "FINALIZE_BOOT_PAYLOAD" ELSE Commit,
     FINALIZE_BOOT_PAYLOAD |-> "finalize",
     ROLLBACK_IN_PROGRESS  |-> "undo",
     ROLLBACK_FAILED       |-> "fatal",
     COMMIT_IN_PROGRESS    |-> "rm_backup"]
AfterFailedWrite ==
    [STAGED                |-> "abort",
     BACKUP_IN_PROGRESS    |-> "abort",
     BACKUP_COMPLETE       |-> Rollback,
     COPY_IN_PROGRESS      |-> Rollback,
     COPY_COMPLETE         |-> Rollback,
     FINALIZE_BOOT_PAYLOAD |-> Rollback,
     ROLLBACK_IN_PROGRESS  |-> "fatal",
     ROLLBACK_FAILED       |-> "fatal",
     COMMIT_IN_PROGRESS    |-> "warning"]

-----------------------------------------------------------------------------
(* Starting up.                                                            *)

\* Any set of managed paths may be there; a patched console boots payload.bin.
Init ==
    /\ patched \in Consoles
    /\ orig \in SUBSET Paths
    /\ Core \in orig /\ (patched => Payload \in orig)
    /\ root = [p \in Paths |-> IF p \in orig THEN "Old" ELSE "Absent"]
    /\ bak = [p \in Paths |-> "Absent"] /\ mark = {}
    /\ disk = [f \in Files |-> "Absent"]
    /\ state = "Absent" /\ tmp = "Absent" /\ wstep = "mkdir"
    /\ pc = "home" /\ i = 1 /\ st = "none" /\ goal = "none" /\ err = FALSE
    /\ lost = {} /\ partial = FALSE /\ decided = FALSE /\ faults = 0 /\ crashes = 0

\* A patched console starts what payload.bin holds; Horizon needs atmosphere.
PowerOn ==
    /\ pc = "off"
    /\ \/ patched /\ root[Payload] = "Updater" /\ pc' = "ipl_main"
       \/ /\ patched => root[Payload] \in {"Old", "New"}
          /\ root[Core] \in {"Old", "New", "Mixed"}
          /\ pc' = "boot"
    /\ UNCHANGED <<journal, root, backup, disk, i, locals, history, faults, crashes>>

\* The payload is injected over RCM.
Launch ==
    /\ ~patched /\ pc \in {"off", "home"}
    /\ pc' = "ipl_main"
    /\ UNCHANGED <<journal, root, backup, disk, i, locals, history, faults, crashes>>

\* ipl_main; without an update the payload of a patched console puts
\* payload.bin.aio back (easy_rename) and restarts.
IplMain ==
    /\ pc = "ipl_main"
    /\ pc' = IF Pending THEN "read_state"
             ELSE IF patched /\ Exists("saved") THEN "legacy_unlink" ELSE "off"
    /\ UNCHANGED <<journal, root, backup, disk, i, locals, history, faults, crashes>>

EasyRenameUnlink ==
    /\ pc = "legacy_unlink"
    /\ \/ NoFault /\ PutRoot(Payload, "Absent") /\ pc' = "legacy_rename"
       \/ Fault("write") /\ UNCHANGED root /\ pc' = "off"
    /\ UNCHANGED <<journal, backup, disk, i, locals, history, crashes>>

EasyRename ==
    /\ pc = "legacy_rename"
    /\ pc' = "off"
    /\ \/ NoFault /\ PutRoot(Payload, disk["saved"]) /\ Put("saved", "Absent")
       \/ Fault("write") /\ UNCHANGED <<root, disk>>
    /\ UNCHANGED <<journal, backup, i, locals, history, crashes>>

-----------------------------------------------------------------------------
(* aio_cfw_update_run.                                                     *)

\* Where the record leads; without one, the marker and the backup decide.
Dispatch(s, ready, dir) ==
    CASE s = "none" -> IF ready THEN "STAGED" ELSE IF dir THEN Rollback ELSE "fatal"
      [] s = Commit -> Commit
      [] s \in {"ROLLBACK_IN_PROGRESS", "ROLLBACK_FAILED"} -> Rollback
      [] OTHER -> "check_package"

ReadJournal ==
    /\ pc = "read_state"
    /\ \E s \in States \cup {"none", "Partial"}, ready, dir \in BOOLEAN :
          /\ \/ NoFault /\ s = read_state /\ ready = Exists("ready") /\ dir = Exists("dir")
             \/ Fault("read") /\ s \in MisreadState /\ ready = Exists("ready") /\ dir = Exists("dir")
             \/ /\ Fault("read") /\ s = read_state
                /\ \/ Exists("ready") /\ ~ready /\ dir = Exists("dir")
                   \/ Exists("dir") /\ ~dir /\ ready = Exists("ready")
          /\ st' = IF s = "none" THEN "STAGED" ELSE s
          /\ Enter(Dispatch(s, ready, dir))
    /\ UNCHANGED <<journal, root, backup, disk, goal, err, given, crashes>>

\* Mutant: an interrupted backup passes for a complete one.
ResumeUnsecured(s) ==
    IF s = "STAGED" THEN "BACKUP_IN_PROGRESS"
    ELSE IF s = "COPY_COMPLETE" THEN IF patched THEN "FINALIZE_BOOT_PAYLOAD" ELSE Commit
    ELSE IF s = "FINALIZE_BOOT_PAYLOAD" THEN "finalize" ELSE "COPY_IN_PROGRESS"

\* With a valid package, go on where the journal says.  A record that is none of
\* the known ones passes every test and ends at the commit.
Resume(s) ==
    CASE s = "STAGED" -> "BACKUP_IN_PROGRESS"
      [] s = "BACKUP_IN_PROGRESS" -> "backup_dir"
      [] s = "BACKUP_COMPLETE" -> "COPY_IN_PROGRESS"
      [] s = "COPY_IN_PROGRESS" -> "copy"
      [] s = "COPY_COMPLETE" /\ patched -> "FINALIZE_BOOT_PAYLOAD"
      [] s = "FINALIZE_BOOT_PAYLOAD" /\ patched -> "finalize"
      [] OTHER -> Commit

\* staged_package_valid only asks whether the core files are there.
CheckPackage ==
    /\ pc = "check_package"
    /\ LET bad == IF st = "STAGED" THEN "abort" ELSE Rollback
       IN  \/ NoFault /\ Enter(IF disk["new"] \in {"New", "Torn"} THEN Resume(st) ELSE bad)
           \/ Fault("read") /\ Enter(bad)
    /\ UNCHANGED <<journal, root, backup, disk, locals, given, crashes>>

\* write_state, called wherever pc is a record; unlike the app updater's, it
\* takes a short write for a complete one: on a full card the record is empty.
WriteShort ==
    /\ wstep = "sync"
    /\ Fault("short") /\ tmp' = "Empty" /\ wstep' = "drop"
    /\ UNCHANGED state

WriteState ==
    /\ pc \in States
    /\ WriteStep \/ WriteShort
    /\ UNCHANGED <<root, backup, disk, pc, i, locals, history, crashes>>

WriteStateDone ==
    /\ pc \in States
    /\ wstep \in {"ok", "fail"}
    /\ wstep' = "mkdir"
    /\ Enter(IF wstep = "ok" THEN AfterWrite[pc] ELSE AfterFailedWrite[pc])
    /\ goal' = IF pc = Commit THEN "commit" ELSE goal
    /\ UNCHANGED <<state, tmp, root, backup, disk, st, err, given, faults, crashes>>

-----------------------------------------------------------------------------
(* move_managed_to_backup.                                                 *)

BackupDir ==
    /\ pc = "backup_dir"
    /\ \/ NoFault /\ Put("dir", "Here") /\ Enter("backup")
       \/ Fault("write") /\ UNCHANGED disk /\ Enter(Rollback)
    /\ UNCHANGED <<journal, root, backup, locals, given, crashes>>

\* On a patched console payload.bin is the running updater and its original is
\* the copy Horizon saved.
FromSaved == patched /\ i = Payload
Original == IF FromSaved THEN disk["saved"] ELSE root[i]
MoveToBackup == /\ bak' = [bak EXCEPT ![i] = Original]
                /\ IF FromSaved THEN Put("saved", "Absent") /\ UNCHANGED root
                                ELSE PutRoot(i, "Absent") /\ UNCHANGED disk

\* Mutant: a missing source is looked at before the backup, so that a path moved
\* before an interruption passes for one that was never there.
BackUpSourceFirst(src, dst, was) ==
    \/ ~src /\ mark' = mark \cup {i} /\ NextPath("BACKUP_COMPLETE") /\ UNCHANGED <<root, bak, disk>>
    \/ src /\ dst /\ Enter(Rollback) /\ UNCHANGED <<root, bak, mark, disk>>
    \/ src /\ ~dst /\ MoveToBackup /\ NextPath("BACKUP_COMPLETE") /\ UNCHANGED mark

\* One path, as path_exists sees source, backup and sentinel.  A backup is never
\* overwritten: f_rename refuses, and source and backup together roll back.
BackUp(src, dst, was) ==
    \/ dst /\ src /\ Enter(Rollback) /\ UNCHANGED <<root, bak, mark, disk>>
    \/ /\ (dst /\ ~src) \/ (~dst /\ was)
       /\ NextPath("BACKUP_COMPLETE") /\ UNCHANGED <<root, bak, mark, disk>>
    \/ /\ ~dst /\ ~was /\ ~src
       /\ mark' = mark \cup {i}
       /\ NextPath("BACKUP_COMPLETE") /\ UNCHANGED <<root, bak, disk>>
    \/ /\ ~dst /\ ~was /\ src
       /\ IF bak[i] = "Absent" THEN MoveToBackup /\ NextPath("BACKUP_COMPLETE")
                               ELSE Enter(Rollback) /\ UNCHANGED <<root, bak, disk>>
       /\ UNCHANGED mark

BackupPath ==
    /\ pc = "backup"
    /\ LET src == Original # "Absent"
           dst == bak[i] # "Absent"
           was == i \in mark
       IN  \/ NoFault /\ BackUp(src, dst, was)
           \/ Fault("read") /\ (BackUp(FALSE, dst, was) \/ BackUp(src, FALSE, was)
                                  \/ BackUp(src, dst, FALSE))
           \/ /\ Fault("write") /\ ~dst /\ ~was
              /\ Enter(Rollback)
              /\ mark' \in {mark} \cup (IF src THEN {} ELSE {mark \cup {i}})
              /\ UNCHANGED <<root, bak, disk>>
    /\ UNCHANGED <<journal, locals, given, crashes>>

-----------------------------------------------------------------------------
(* copy_staged_root, installed_core_valid and finalize_patched_payload.    *)

\* ReadFolder(UPDATE_NEW) lists what is left of the package.  The legacy path is
\* skipped, and the updater stays payload.bin during the copy.
ToCopy == i \in Package \ (lost \cup Legacy) /\ ~FromSaved
Copying == /\ partial' = (partial \/ disk["new"] # "New")
           /\ UNCHANGED <<patched, lost, orig>>

\* Mutant: a failing copy does not stop the update.
CopyPathUnchecked ==
    /\ pc = "copy"
    /\ NextPath("verify")
    /\ \/ NoFault /\ (IF ToCopy THEN PutRoot(i, Overlaid(root[i])) ELSE UNCHANGED root)
       \/ Fault("write") /\ ToCopy /\ PutRoot(i, Overlay(root[i]))
    /\ Copying
    /\ UNCHANGED <<journal, backup, disk, locals, crashes>>

CopyPath ==
    /\ pc = "copy"
    /\ \/ NoFault /\ NextPath("verify") /\ (IF ToCopy THEN PutRoot(i, Overlaid(root[i]))
                                                       ELSE UNCHANGED root)
       \/ Fault("write") /\ ToCopy /\ Enter(Rollback) /\ PutRoot(i, Overlay(root[i]))
    /\ Copying
    /\ UNCHANGED <<journal, backup, disk, locals, crashes>>

\* Removal of the legacy path, whose result is not looked at; then the lengths of
\* the core files: what has just been copied agrees with the package.
Verify ==
    /\ pc = "verify"
    /\ LET cleared == [p \in Paths |-> IF p \in Legacy THEN "Absent" ELSE root[p]]
       IN  \/ NoFault /\ root' = cleared /\ Enter("COPY_COMPLETE")
           \/ Fault("write") /\ UNCHANGED root /\ Enter("COPY_COMPLETE")
           \/ Fault("read") /\ root' = cleared /\ Enter(Rollback)
    /\ UNCHANGED <<journal, backup, disk, locals, given, crashes>>

\* Mutant: any payload.bin passes for the new one.
PayloadExists == root[Payload] # "Absent"

\* file_sizes_match(new/payload.bin, payload.bin).
PayloadMatches == root[Payload] = "New" \/ (SameSize /\ root[Payload] # "Absent")

Finalize ==
    /\ pc = "finalize"
    /\ LET after == IF PayloadMatches THEN Commit ELSE "fin_copy"
       IN  \/ NoFault /\ Put("next", "Absent") /\ Enter(after)
           \/ /\ Fault("write") /\ UNCHANGED disk
              /\ Enter(IF PayloadMatches THEN Commit ELSE Rollback)
           \/ Fault("read") /\ UNCHANGED disk /\ Enter(Rollback)
           \/ Fault("read") /\ Put("next", "Absent") /\ Enter("fin_copy")
    /\ UNCHANGED <<journal, root, backup, locals, given, crashes>>

FinalizeCopy ==
    /\ pc = "fin_copy"
    /\ \/ NoFault /\ Put("next", "New") /\ Enter("fin_keep")
       \/ Fault("write") /\ Put("next", "Torn") /\ Enter(Rollback)
    /\ UNCHANGED <<journal, root, backup, locals, given, crashes>>

FinalizeKeep ==
    /\ pc = "fin_keep"
    /\ \/ /\ NoFault /\ Enter("fin_swap")
          /\ IF root[Payload] # "Absent" /\ ~Exists("live")
             THEN PutRoot(Payload, "Absent") /\ Put("live", root[Payload])
             ELSE UNCHANGED <<root, disk>>
       \/ Fault("write") /\ UNCHANGED <<root, disk>> /\ Enter(Rollback)
    /\ UNCHANGED <<journal, backup, locals, given, crashes>>

\* The rename, the check of finalize_patched_payload and the caller's.
FinalizeSwap ==
    /\ pc = "fin_swap"
    /\ \/ /\ root[Payload] = "Absent"
          /\ \/ NoFault /\ Enter(Commit)
             \/ Fault("read") /\ Enter(Rollback)
          /\ PutRoot(Payload, disk["next"]) /\ Put("next", "Absent")
       \/ /\ NoFault /\ root[Payload] # "Absent"
          /\ Enter(IF PayloadMatches THEN Commit ELSE Rollback)
          /\ UNCHANGED <<root, disk>>
       \/ Fault("write") /\ UNCHANGED <<root, disk>> /\ Enter(Rollback)
    /\ UNCHANGED <<journal, backup, locals, given, crashes>>

-----------------------------------------------------------------------------
(* rollback_transaction and restore_backup.                                *)

\* Mutant: paths that an earlier attempt restored are cleared again.
UndoAlways(has, was) ==
    /\ NextPath("restore")
    /\ PutRoot(i, "Absent")
    /\ mark' = IF ~has /\ was THEN mark \ {i} ELSE mark

\* Mutant: the sentinels are not looked at.
UndoBackedUp(has, was) ==
    /\ NextPath("restore")
    /\ IF has THEN PutRoot(i, "Absent") ELSE UNCHANGED root
    /\ mark' = IF ~has /\ was THEN mark \ {i} ELSE mark

\* Clear the way of one original, or of a path that was not there; its sentinel
\* goes with it.
Undo(has, was) ==
    /\ NextPath("restore")
    /\ IF has \/ was THEN PutRoot(i, "Absent") ELSE UNCHANGED root
    /\ mark' = IF ~has /\ was THEN mark \ {i} ELSE mark

UndoPath ==
    /\ pc = "undo"
    /\ LET has == bak[i] # "Absent"
           was == i \in mark
       IN  \/ NoFault /\ Undo(has, was)
           \/ Fault("read") /\ (Undo(FALSE, was) \/ Undo(has, FALSE))
           \/ /\ Fault("write") /\ (has \/ was)
              /\ Enter("ROLLBACK_FAILED")
              /\ \E c \in Remains(i) : PutRoot(i, c)
              /\ UNCHANGED mark
    /\ UNCHANGED <<journal, bak, disk, locals, given, crashes>>

\* A path that cannot be restored does not stop the others.
RestorePath ==
    /\ pc = "restore"
    /\ NextPath("restore_saved")
    /\ \/ /\ NoFault /\ bak[i] # "Absent"
          /\ PutRoot(i, bak[i]) /\ bak' = [bak EXCEPT ![i] = "Absent"] /\ UNCHANGED err
       \/ NoFault /\ bak[i] = "Absent" /\ UNCHANGED <<root, bak, err>>
       \/ Fault("read") /\ bak[i] # "Absent" /\ UNCHANGED <<root, bak, err>>
       \/ /\ Fault("write") /\ bak[i] # "Absent"
          /\ \E c \in Remains(i) : PutRoot(i, c)
          /\ err' = TRUE /\ UNCHANGED bak
    /\ UNCHANGED <<journal, mark, disk, st, goal, given, crashes>>

RestoreSaved ==
    /\ pc = "restore_saved"
    /\ \/ /\ NoFault /\ patched /\ Exists("saved")
          /\ PutRoot(Payload, disk["saved"]) /\ Put("saved", "Absent") /\ UNCHANGED err
       \/ NoFault /\ ~(patched /\ Exists("saved")) /\ UNCHANGED <<root, disk, err>>
       \/ Fault("read") /\ patched /\ Exists("saved") /\ UNCHANGED <<root, disk, err>>
       \/ /\ Fault("write") /\ patched /\ Exists("saved")
          /\ \E c \in {root[Payload], "Absent"} : PutRoot(Payload, c)
          /\ err' = TRUE /\ UNCHANGED disk
    /\ Enter(IF err' THEN "ROLLBACK_FAILED" ELSE IF patched THEN "rm_aside" ELSE "rm_root")
    /\ goal' = "rollback"
    /\ UNCHANGED <<journal, backup, st, given, crashes>>

\* Errors are ignored here.
RemoveAside ==
    /\ pc = "rm_aside"
    /\ Enter("rm_root")
    /\ \/ NoFault /\ disk' = [disk EXCEPT !["next"] = "Absent", !["live"] = "Absent",
                                          !["saved"] = "Absent"]
       \/ Fault("write") /\ \E f \in {"next", "live", "saved"} :
             disk' = [g \in Files |-> IF g # f /\ g \in {"next", "live", "saved"}
                                      THEN "Absent" ELSE disk[g]]
    /\ UNCHANGED <<journal, root, backup, locals, given, crashes>>

-----------------------------------------------------------------------------
(* Removal of the update's files.  A tree loses its entries in directory   *)
(* order, which is not known, except that `new' was created first.         *)

\* The package loses some of its files: the core files maybe, or, beside them,
\* everything it has under some paths.
Removable == Package \ ({Core} \cup IF patched THEN {Payload} ELSE {})
PartOfNew ==
    /\ Exists("new")
    /\ \/ Put("new", "Stub") /\ UNCHANGED lost
       \/ /\ disk["new"] # "Stub" /\ Put("new", "Torn")
          /\ \E gone \in SUBSET Removable : lost' = lost \cup gone

Entries == {"backup", "ready", "next", "live", "state", "tmp"}

\* The backup loses the paths in gone and part of path t.
PartOfBackup(gone, t, sentinels) ==
    /\ bak' = [p \in Paths |-> IF p \in gone THEN "Absent"
                               ELSE IF p = t /\ bak[p] # "Absent" THEN "Torn" ELSE bak[p]]
    /\ mark' = mark \ sentinels

RemoveEntries(gone) ==
    /\ state' = IF "state" \in gone THEN "Absent" ELSE state
    /\ tmp' = IF "tmp" \in gone THEN "Absent" ELSE tmp
    /\ disk' = [f \in Files |-> IF f = "new" \/ f \in gone \/ (f = "dir" /\ "backup" \in gone)
                                THEN "Absent" ELSE disk[f]]

\* remove_path_silent(UPDATE_ROOT) that stops half way: in `new', in the
\* backup, or between two entries.
PartOfRoot ==
    \/ /\ PartOfNew
       /\ UNCHANGED <<state, tmp, bak, mark>>
    \/ \E gone \in SUBSET Entries :
          /\ RemoveEntries(gone) /\ UNCHANGED lost
          /\ IF "backup" \in gone THEN PartOfBackup(Paths, 0, Paths)
             ELSE \E g \in SUBSET Paths, t \in {0} \cup Paths, m \in SUBSET mark :
                     PartOfBackup(g, t, m)

\* The end of rollback_transaction and of fail_before_changes, which ignores
\* errors.
RemoveRoot ==
    /\ pc = "rm_root"
    /\ \/ /\ NoFault /\ RemoveEntries(Entries) /\ PartOfBackup(Paths, 0, Paths) /\ UNCHANGED lost
          /\ pc' = IF goal = "rollback" THEN "restored" ELSE "unchanged"
       \/ /\ Fault("write") /\ PartOfRoot
          /\ pc' = IF goal = "rollback" THEN "fatal" ELSE "unchanged"
    /\ UNCHANGED <<root, wstep, i, locals, patched, orig, partial, decided, crashes>>

\* fail_before_changes: the payload of a patched console goes back first.
Abort ==
    /\ pc = "abort"
    /\ goal' = "unchanged"
    /\ IF patched /\ Exists("saved")
       THEN /\ pc' = "abort_rename"
            /\ \/ NoFault /\ PutRoot(Payload, "Absent")
               \/ Fault("write") /\ UNCHANGED root
       ELSE pc' = "rm_root" /\ NoFault /\ UNCHANGED root
    /\ UNCHANGED <<journal, backup, disk, i, st, err, history, crashes>>

AbortRename ==
    /\ pc = "abort_rename"
    /\ pc' = "rm_root"
    /\ \/ /\ NoFault /\ root[Payload] = "Absent"
          /\ PutRoot(Payload, disk["saved"]) /\ Put("saved", "Absent")
       \/ NoFault /\ root[Payload] # "Absent" /\ UNCHANGED <<root, disk>>
       \/ Fault("write") /\ UNCHANGED <<root, disk>>
    /\ UNCHANGED <<journal, backup, i, locals, history, crashes>>

-----------------------------------------------------------------------------
(* commit_transaction, and cfwCommitCleanupNative when Horizon starts on   *)
(* the new CFW first.  The first failing removal ends it.                  *)

AfterRemoval(l) ==
    CASE l = "rm_backup" -> "rm_new"
      [] l = "rm_new" -> "rm_ready"
      [] l = "rm_ready" -> "rm_next"
      [] l = "rm_next" -> "rm_live"
      [] l = "rm_live" -> IF goal = "horizon" THEN "rm_tmp" ELSE "rm_saved"
      [] l = "rm_saved" -> IF goal = "horizon" THEN "rm_backup" ELSE "rm_tmp"
      [] l = "rm_tmp" -> "rm_state"
      [] OTHER -> IF goal = "horizon" THEN "home" ELSE "success"
Removed == Enter(AfterRemoval(pc)) /\ NoFault
NotRemoved == /\ Fault("write")
              /\ Enter(IF goal # "horizon" THEN "warning"
                       ELSE IF pc = "rm_saved" THEN "rm_backup" ELSE "home")

RemoveBackup ==
    /\ pc = "rm_backup"
    /\ \/ Removed /\ PartOfBackup(Paths, 0, Paths) /\ Put("dir", "Absent")
       \/ /\ NotRemoved /\ UNCHANGED disk
          /\ \E g \in SUBSET Paths, t \in {0} \cup Paths, m \in SUBSET mark : PartOfBackup(g, t, m)
    /\ UNCHANGED <<journal, root, locals, given, crashes>>

FileOf == [rm_new |-> "new", rm_ready |-> "ready", rm_next |-> "next", rm_live |-> "live",
           rm_saved |-> "saved"]
RemoveFile ==
    /\ pc \in DOMAIN FileOf
    /\ \/ Removed /\ Put(FileOf[pc], "Absent") /\ UNCHANGED lost
       \/ /\ NotRemoved
          /\ \/ UNCHANGED <<disk, lost>>
             \/ pc = "rm_new" /\ PartOfNew
    /\ UNCHANGED <<journal, root, backup, locals, patched, orig, partial, crashes>>

\* Mutant: the record itself stays.
RemoveJournalTmp ==
    /\ pc \in {"rm_tmp", "rm_state"} /\ Removed /\ tmp' = "Absent" /\ UNCHANGED state
    /\ UNCHANGED <<wstep, root, backup, disk, locals, given, crashes>>

\* recovery.bin goes with state.tmp, the empty directory with the record.
RemoveJournal ==
    /\ \/ pc = "rm_tmp" /\ Removed /\ tmp' = "Absent" /\ UNCHANGED state
       \/ pc = "rm_state" /\ Removed /\ state' = "Absent" /\ UNCHANGED tmp
       \/ pc = "rm_tmp" /\ NotRemoved /\ UNCHANGED <<state, tmp>>
       \/ pc = "rm_state" /\ NotRemoved /\ state' \in {state, "Absent"} /\ UNCHANGED tmp
    /\ UNCHANGED <<wstep, root, backup, disk, locals, given, crashes>>

\* Every page ends with a restart or power-off; nothing in memory survives.
Forget == /\ pc' = "off" /\ wstep' = "mkdir" /\ i' = 1
          /\ st' = "none" /\ goal' = "none" /\ err' = FALSE

ResultShown ==
    /\ pc \in Pages
    /\ Forget
    /\ UNCHANGED <<state, tmp, root, backup, disk, history, faults, crashes>>

-----------------------------------------------------------------------------
(* Horizon.                                                                *)

\* finalizeCfwUpdateAfterSuccessfulBoot.
HorizonBoot ==
    /\ pc = "boot"
    /\ LET after == IF patched THEN "rm_saved" ELSE "rm_backup"
       IN  CASE read_state = Commit -> Enter(after) /\ goal' = "horizon"
             [] read_state = "FINALIZE_BOOT_PAYLOAD" -> Enter("hz_commit") /\ goal' = "horizon"
             [] OTHER -> Enter("home") /\ UNCHANGED goal
    /\ UNCHANGED <<journal, root, backup, disk, st, err, given, faults, crashes>>

\* writeCfwUpdateState(COMMIT_IN_PROGRESS).
HorizonCommit ==
    /\ pc = "hz_commit"
    /\ i' = 1
    /\ \/ /\ NoFault /\ state' = Commit /\ tmp' = "Absent"
          /\ pc' = "rm_saved" /\ decided' = TRUE /\ UNCHANGED goal
       \/ /\ Fault("write") /\ state' \in {state, "Absent"} /\ tmp' = "Absent"
          /\ pc' = "home" /\ goal' = "none" /\ UNCHANGED decided
    /\ UNCHANGED <<wstep, root, backup, disk, st, err, given, crashes>>

\* prepareCfwUpdateStaging: refuse while an update is pending, else start over.
\* What is installed is the old CFW from here on.
StageBegin ==
    /\ pc = "home"
    /\ ~Pending
    /\ \A p \in Paths : root[p] \in {"Absent", "Old", "New"}
    /\ pc' = "extract" /\ goal' = "none"
    /\ root' = [p \in Paths |-> IF root[p] = "Absent" THEN "Absent" ELSE "Old"]
    /\ orig' = {p \in Paths : root[p] # "Absent"}
    /\ lost' = {} /\ partial' = FALSE /\ decided' = FALSE
    /\ state' = "Absent" /\ tmp' = "Absent"
    /\ disk' = [f \in Files |-> IF f = "saved" THEN disk[f] ELSE "Absent"]
    /\ UNCHANGED <<wstep, backup, i, st, err, patched, faults, crashes>>

\* Extraction checks the CRC; cancelled or failing it leaves anything, but no
\* record: what it leaves is never copied.
StageExtract ==
    /\ pc = "extract"
    /\ \/ Put("new", "New") /\ pc' = "stage_state"
       \/ \E c \in {"Absent", "Stub", "Torn", "New"} : Put("new", c) /\ pc' = "home"
    /\ UNCHANGED <<journal, root, backup, i, locals, history, faults, crashes>>

\* validateCfwUpdateStaging: the journal, then the marker; clearMarkers removes
\* both when one of them cannot be written.
StageState ==
    /\ pc = "stage_state"
    /\ tmp' = "Absent"
    /\ \/ NoFault /\ state' = "STAGED" /\ pc' = "stage_ready"
       \/ Fault("write") /\ state' = "Absent" /\ pc' = "home"
    /\ UNCHANGED <<wstep, root, backup, disk, i, locals, history, crashes>>

StageReady ==
    /\ pc = "stage_ready"
    /\ \/ NoFault /\ Put("ready", "Here") /\ pc' = "confirm" /\ UNCHANGED state
       \/ Fault("write") /\ state' = "Absent" /\ pc' = "home" /\ UNCHANGED disk
    /\ UNCHANGED <<tmp, wstep, root, backup, i, locals, history, crashes>>

\* ConfirmPage_AmsUpdate: restart into the payload, on a patched console by
\* saving payload.bin and putting the updater in its place.
ConfirmRestart ==
    /\ pc = "confirm"
    /\ pc' = IF patched THEN "save" ELSE "ipl_main"
    /\ UNCHANGED <<journal, root, backup, disk, i, locals, history, faults, crashes>>

TurnOff ==
    /\ pc \in {"home", "confirm"}
    /\ Forget
    /\ UNCHANGED <<state, tmp, root, backup, disk, history, faults, crashes>>

SavePayload ==
    /\ pc = "save"
    /\ \/ NoFault /\ Put("saved", root[Payload]) /\ pc' = "arm"
       \/ Fault("write") /\ Put("saved", "Torn") /\ pc' = "confirm"
    /\ UNCHANGED <<journal, root, backup, i, locals, history, crashes>>

ArmPayload ==
    /\ pc = "arm"
    /\ \/ NoFault /\ PutRoot(Payload, "Updater") /\ pc' = "reboot"
       \/ Fault("write") /\ PutRoot(Payload, "Torn") /\ pc' = "disarm"
    /\ UNCHANGED <<journal, backup, disk, i, locals, history, crashes>>

DisarmPayload ==
    /\ pc = "disarm"
    /\ pc' = "confirm"
    /\ \/ NoFault /\ PutRoot(Payload, disk["saved"])
       \/ Fault("write") /\ PutRoot(Payload, "Torn")
    /\ UNCHANGED <<journal, backup, disk, i, locals, history, crashes>>

\* util::shutDown does not look at the result.
Reboot ==
    /\ pc = "reboot"
    /\ \/ NoFault /\ pc' = "off"
       \/ Fault("reboot") /\ pc' = "confirm"
    /\ UNCHANGED <<journal, root, backup, disk, i, locals, history, crashes>>

-----------------------------------------------------------------------------
(* Power lost: what the operation in flight leaves on the card.            *)

CutInTree ==
    \/ pc = "copy" /\ ToCopy /\ PutRoot(i, Overlay(root[i]))
    \/ pc = "undo" /\ (bak[i] # "Absent" \/ i \in mark) /\ \E c \in Remains(i) : PutRoot(i, c)
    \/ pc = "restore" /\ bak[i] # "Absent" /\ \E c \in Remains(i) : PutRoot(i, c)
    \/ pc = "restore_saved" /\ patched /\ Exists("saved") /\ PutRoot(Payload, "Absent")
    \/ pc = "arm" /\ PutRoot(Payload, "Torn")
    \/ pc = "disarm" /\ PutRoot(Payload, "Torn")
CutInFile ==
    \/ pc = "rm_new" /\ PartOfNew
    \/ /\ UNCHANGED lost
       /\ \/ pc = "fin_copy" /\ Put("next", "Torn")
          \/ pc = "save" /\ Put("saved", "Torn")
          \/ pc = "extract" /\ \E c \in {"Stub", "Torn", "New"} : Put("new", c)
          \/ pc = "stage_ready" /\ Put("ready", "Here")
CutInBackup ==
    /\ pc = "rm_backup"
    /\ \E g \in SUBSET Paths, t \in {0} \cup Paths, m \in SUBSET mark : PartOfBackup(g, t, m)
CutInJournal ==
    LET v == IF pc = "stage_state" THEN "STAGED" ELSE Commit
    IN  /\ pc \in {"stage_state", "hz_commit"}
        /\ \/ state' = state /\ tmp' \in {"Absent", "Empty", v}
           \/ state' = "Absent" /\ tmp' = v
           \/ state' = v /\ tmp' = "Absent"
        /\ decided' = (decided \/ (v = Commit /\ v \in {state', tmp'}))

PowerLoss ==
    /\ pc \notin {"off", "home", "confirm"} \cup Pages
    /\ crashes < MaxCrashes
    /\ crashes' = crashes + 1
    /\ \/ UNCHANGED <<state, tmp, root, backup, disk, lost, decided>>
       \/ CutInTree /\ UNCHANGED <<state, tmp, backup, disk, lost, decided>>
       \/ CutInFile /\ UNCHANGED <<state, tmp, root, backup, decided>>
       \/ CutInBackup /\ UNCHANGED <<state, tmp, root, disk, lost, decided>>
       \/ CutInJournal /\ UNCHANGED <<root, backup, disk, lost>>
       \/ pc = "rm_root" /\ PartOfRoot /\ UNCHANGED <<root, decided>>
    /\ Forget
    /\ UNCHANGED <<patched, orig, partial, faults>>

-----------------------------------------------------------------------------
RollbackStep == UndoPath \/ RestorePath \/ RestoreSaved \/ RemoveAside \/ RemoveRoot
FinalizeStep == Finalize \/ FinalizeCopy \/ FinalizeKeep \/ FinalizeSwap
CommitStep == RemoveBackup \/ RemoveFile \/ RemoveJournal
PayloadStep == \/ IplMain \/ EasyRenameUnlink \/ EasyRename \/ ReadJournal \/ CheckPackage
               \/ WriteState \/ WriteStateDone \/ BackupDir \/ BackupPath \/ CopyPath
               \/ Verify \/ FinalizeStep \/ RollbackStep \/ Abort \/ AbortRename
               \/ CommitStep \/ ResultShown
HorizonStep == \/ HorizonBoot \/ HorizonCommit \/ StageBegin \/ StageExtract \/ StageState
               \/ StageReady \/ ConfirmRestart \/ TurnOff \/ SavePayload \/ ArmPayload
               \/ DisarmPayload \/ Reboot

Next == PowerOn \/ Launch \/ PayloadStep \/ HorizonStep \/ PowerLoss

Spec == Init /\ [][Next]_vars

\* The payload runs on while it has power, and the user acts in the end; however
\* often the old CFW is started in between, the payload is tried some day.
FairSpec == Spec /\ WF_vars(PayloadStep) /\ WF_vars(HorizonStep) /\ SF_vars(Launch)
=============================================================================
