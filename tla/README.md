# TLA+ models of AIO MOD

AIO MOD is a homebrew application for the Nintendo Switch that updates custom
firmware, applications and itself, and installs titles over USB/MTP.  What it
does to the SD card happens in two worlds: under Horizon (the C++ application in
`source/`) and, for whatever cannot be replaced while Horizon runs, in a payload
built from TegraExplorer (`TegraExplorer/source/`).  The two communicate only
through files on the card, and the user can switch the console off at any
moment.  These models are about that: what is on the card at every instant, and
what the next start makes of it.

## 1. Inventory

| Part | State | Operations | Talks to | Hard behaviour |
|---|---|---|---|---|
| App updater payload, `TegraExplorer/source/aio_app_updater.c` | journal `state`/`state.tmp`, staged NRO, backup, marker `ready`, `payload.bin.aio` | run, backup, install, rollback, commit, abort, clean-up | Horizon through the card; `ipl_main` calls it | power cuts at any call, failing I/O, resume |
| Journal, `read_state`/`write_state` (both updaters have a copy) | two files | replace, read with fallback | its updater | torn and lost records |
| App update under Horizon, `utils.cpp` `extractArchive`, `confirm_page.cpp` | staged files, `payload.bin`, `payload.bin.aio` | stage, mark, save/arm/disarm the boot payload, restart | payload | cancellation, refused restart, retry |
| Payload entry, `main.c` | none of its own | choose app update, CFW update or legacy renames | both updaters | order of precedence |
| CFW updater payload, `aio_cfw_updater.c` | journal, backup tree, absent markers, managed paths | backup by rename, copy, rollback, finalise payload, commit | Horizon, `main.c` | resumable rollback |
| CFW staging and finalisation, `utils.cpp` | staging tree, markers | stage, finalise after restart | CFW payload | marker against journal |
| Install stream, `mtp_install_stream.cpp` | ring buffer, flags | push, readExact, closeProducer, cancel, finishConsumer | USB thread, installer worker | blocking, wake-ups, early end |
| MTP server, `mtp_native_server.cpp` | session, pending object, status | one handler per MTP operation | host, installer | stop and cancel at any time |
| NSP installer, `nsp_transaction_installer.cpp` | placeholders, registered contents, meta database, records | install, rollback | MTP server, NCM/NS services | partial failure |
| Worker page and progress event | progress, interrupt, status code | start, cancel, finish, next stage | download, extraction | cancel against completion |
| Download and extraction, `download.cpp`, `extract.cpp`, `utils.cpp` | archive, target files, markers | download, check, measure, extract | worker page | cancellation, partial output, what an earlier visit left |
| File explorer, `file_explorer_ops.cpp`, `file_explorer_page.cpp` | panes, clipboard, one job | copy, move, delete, extract, rename | the card | cancel, errors and power cuts half way |
| Forwarder installer | contents and records | build, delete, install | NCM/NS services | partial failure |
| Catalogue, settings and cheat pages | JSON/INI files | one write at a time | - | little |
| TegraExplorer shell, bdk, borealis, sphaira | - | - | - | third-party |

What makes each part correct:

* **Journal**: what a restarted payload reads is never older than the last
  acknowledged record; replacing a record never passes through "no record".
* **App updater**: there is at every instant a complete installed application
  or a complete backup, the only complete copy is never written, a page that
  reports success tells the truth, an outcome once decided is final, every
  pending update is settled; on a console that starts from `payload.bin`, the
  owner's own payload is never lost.
* **CFW updater**: the same for a set of directories, with "was absent" as a
  state of its own.
* **Install stream**: first in, first out, bounded, no lost wake-up, and nobody
  waits for ever once the other side has stopped.
* **MTP server / NSP installer**: an object is answered exactly once, what is
  reported is what was installed, a failed install leaves what was there before.
* **Worker page, download, extraction**: the home button is released, the next
  stage starts only after a complete and uncancelled one, the last page and the
  update marker tell the truth.
* **File explorer**: nothing of the user's is replaced or lost, a final name never
  stands for half a file or tree, and the page offers only what exists.

## 2. Plan

1. `Journal`, `JournalWriter`, `JournalProofs` - done.
2. `AppUpdater` (composes `Journal`), `AppUpdaterProperties` with the
   refinement of `UpdateTransaction`, `AppUpdaterProofs` - done.
3. `CfwUpdater` (composes `Journal`), `CfwUpdaterProperties`, `CfwUpdaterProofs`,
   `CfwInstallProofs` - done.  Worth adding: an abstract transaction over a set of
   paths that it refines.
4. `InstallStream` with `ByteStream`, and `MtpTransfer` which composes it with the
   USB thread, the installer worker and the flags; `MtpTransferProofs` - done.
5. `NspInstaller`, `NspInstallerProofs` - done.
6. `WorkerPage` with download and extraction, `WorkerPageProofs` - done.
7. `ExplorerJob`, `FileExplorer`, `FileExplorerProofs` - done.
8. In `AppUpdater`: a property for a saved payload left behind by a power cut
   between the two last removals, which makes the confirmation page refuse every
   later update; the fallbacks for a card without `payload.bin`; an app and a CFW
   update pending at the same time, composed over both updaters.

## 3. Modules

| Module | What it is |
|---|---|
| `Journal` | The two journal files and `write_state` as FatFs calls, one action each. |
| `JournalWriter` | An arbitrary client of `Journal`: any writes, errors, power cuts; history variables `acked`, `since`, `solid`; its properties. |
| `JournalProofs` | Theorems about `JournalWriter`. |
| `AppUpdater` | The self-update, both worlds, with `INSTANCE Journal` for its journal. |
| `UpdateTransaction` | The abstract transaction a user of the updater relies on. |
| `AppUpdaterProperties` | Properties, refinement mapping and inductive invariants of `AppUpdater`; TLC runs this module. |
| `AppUpdaterProofs` | Types and `SuccessMeansInstalled`, for all errors and power cuts; recovery, boot payload and refinement, for all power cuts. |
| `CfwUpdater` | The CFW update, both worlds, with `INSTANCE Journal` for its journal. |
| `CfwUpdaterProperties` | Its properties and inductive invariants; TLC runs this module. |
| `CfwUpdaterProofs` | Types for all errors; originals, sentinels and restores for all power cuts. |
| `CfwInstallProofs` | What a success page of the CFW updater means. |
| `ByteStream` | A queue of bytes: what the install stream promises. |
| `InstallStream` | The ring buffer, its mutex and condition variables; its invariants. |
| `MtpTransfer` | The MTP server, extending `InstallStream` with the USB thread, the installer worker, the host, and the caller of `start` and `stop`. |
| `MtpTransferProofs` | Theorems about the stream, its refinement of `ByteStream`, the threads, and the answer to `SendObject`. |
| `NspInstaller`, `MCNsp` | The transactional installer, its journal and its recovery. |
| `NspInstallerProofs` | Its recovery, for all packages, failures and power cuts. |
| `WorkerPage`, `MCWorker` | A staged installation: page, worker thread, download, extraction, user. |
| `WorkerPageProofs` | What page, marker and HOME lock mean, for all archives. |
| `ExplorerJob` | The file explorer's worker. |
| `FileExplorer`, `MCExplorer` | Its page, composed with the worker. |
| `FileExplorerProofs` | Its four promises, for all cards, archives and sequences of jobs. |

Operators whose comment starts with "Mutant" stand before the definition they
are variants of: each is the code with a plausible slip, and the property named
with it in `PROJECT.json` is violated when it takes that definition's place.

### Journal

`state` and `tmp` hold the contents of `state` and `state.tmp`: a record,
`Absent`, `Empty` or `Partial`.  `wstep` is the call `write_state` makes next.
What a call leaves behind comes from FatFs: `f_open` with `FA_CREATE_ALWAYS`
truncates on the card at once; the size of what is written reaches the directory
entry only with `f_sync` or `f_close`, so power lost before leaves an empty
file; a data write that fails is followed by `f_close`, which records the prefix
written so far (`Partial`); `f_unlink` and `f_rename` change one directory and
are taken as atomic, but a failing `f_unlink` may have removed the entry; a
failing `f_rename` is taken to leave both names as they were.
Reading a file that is there can fail (`read` faults), which `read_state` cannot
tell from a missing one: `MisreadState`.  The CFW updater has its own copy of the
code, with one difference: a first `f_write` that returns `FR_OK` but wrote
nothing (card full) is not turned into an error there, so an empty record is
acknowledged.  `CfwUpdater` adds that outcome as `WriteShort`; the theorems
about `JournalWriter` are about the app updater's copy.  A record is shorter than
a sector, which FatFs counts whole, so `CfwUpdater` has no fault that leaves a
`Partial` record: the write fails, or a full card stores nothing.

### AppUpdater

`pc` is where the console is.  It only ever runs one program, so one program
counter covers the payload, Horizon and "off".  While `write_state(v)` runs, `pc`
is `v` itself, and the journal's `wstep` says which call comes next; while a
file is copied, `pc` names the copy (`backup`, `install`, `restore`, `payload`
for the payload; `save`, `arm`, `disarm` for Horizon) and `copying` says whether
the destination has been opened and truncated.  What follows a write or a copy
is tabulated (`AfterWrite`, `AfterFailedWrite`, `AfterCopy`,
`AfterFailedCopy`), one entry per call site.  `commit_transaction`,
`rollback_transaction` and `abort_before_changes` share their tail -
`restore_boot_payload_if_needed`, `cleanup_transaction`, result page - and
`goal` remembers for whom it runs.  `Enter(l)` goes to place `l`, or starts that
tail when `l` is a goal.

| Code | Model |
|---|---|
| `aio_app_update_run`, dispatch on the record | `ReadJournal`, `Dispatch` |
| its checks and their failures | `CheckNew`, `CheckTarget`, `FindBackup`, `CheckBackup` |
| `prepare_backup` | `BackupDir`, `BackupRemoveOld`, copy `backup` |
| `copy_verified`/`FileCopy`, `copyFileVerified` | `CopyOpen`, `CopyClose` |
| `write_state` | `WriteState` (the six actions of `Journal`), `WriteStateDone` |
| `cleanup_transaction`, `FolderDelete` | `RemoveNew` ... `RemoveSaved` |
| result pages, restart | `ResultShown` |
| `ipl_main`, `easy_rename` | `IplMain`, `EasyRenameUnlink`, `EasyRename` |
| `extractArchive(app)` | `StageBegin`, `StageExtract`, `StageMark` |
| `ConfirmPage_AppUpdate` | `ConfirmRestart`, `ConfirmLeave`, copies `save`/`arm`/`disarm`, `Reboot` |
| `ConfirmPage_AmsUpdate` on a patched console | `AmsRestart`, the same copies, `Reboot` |
| power | `PowerOn`, `RcmLaunch`, `PowerLoss` |

Contents are abstract: an NRO is `Old`, `New`, torn or missing; `payload.bin`
holds the owner's payload (`Normal`) or the `Updater`.  The version that runs
when a new update is staged is called `Old` from then on.  `file_sizes_match`
compares lengths only, so it may answer either way for two different non-empty
files (`SizesMatch`).  A copy is exact when it reports success because
`copy_verified` reads it back; when it fails the destination may be empty,
torn, or complete (the verification failed).  `cfwWriteTextFileAtomic` writes
the marker by rename: it is there or not.

Left out of `AppUpdater`: the fallbacks of `ConfirmPage_AppUpdate` for a card
without `payload.bin`; the branch of `ipl_main` for a pending CFW update, which
`CfwUpdater` has (the two are not composed: an app and a CFW update pending at
the same time are not modelled); read errors inside `aio_app_update_pending` (the payload would skip the update this
time and find it again at the next start); the other `.aio` renames of
`ipl_main`, which touch none of these files.

### CfwUpdater

The same layout: one `pc`, `INSTANCE Journal` with `pc` as the record being
written, tables for what follows each write.  The managed paths are `1..N`:
`1` is `atmosphere`, `N` is `payload.bin`; `root[p]` and `bak[p]` say what a path
holds in the root of the card and in the backup, `mark` is the set of paths with
an absent sentinel.  A tree is `Old`, `New`, `Mixed` (new files over an old tree)
or `Torn`; the staged package can also be a `Stub`, which
`staged_package_valid` rejects, while a `Torn` one has the core files and passes:
`lost` is the set of paths of which such a package has nothing left, and
`copy_staged_root`, which walks what is there, leaves them alone; what it copies of
the others is `Part`.
An operation on a tree is one step, since nothing else looks at the card
meanwhile; what a power cut or an error in the middle of it leaves is in
`Remains`, `Overlay`, `PartOfBackup`, `PartOfNew`, `PartOfRoot` and the `CutIn...`
disjuncts of `PowerLoss`.  `orig`, `partial` and `decided` are history: which paths
were there when the update was staged, whether the package that was copied had
lost files, and whether a commit was begun.

| Code | Model |
|---|---|
| `aio_cfw_update_run`, dispatch and fall-through | `ReadJournal`, `Dispatch`, `CheckPackage`, `Resume` |
| `move_managed_to_backup`, sentinels | `BackupDir`, `BackupPath`, `BackUp` |
| `copy_staged_root`, `installed_core_valid` | `CopyPath`, `Verify` |
| `finalize_patched_payload` | `Finalize`, `FinalizeCopy`, `FinalizeKeep`, `FinalizeSwap` |
| `rollback_transaction`, `restore_backup` | `UndoPath`, `RestorePath`, `RestoreSaved`, `RemoveAside`, `RemoveRoot` |
| `fail_before_changes` | `Abort`, `AbortRename`, `RemoveRoot` |
| `commit_transaction`, `cfwCommitCleanupNative` | `RemoveBackup`, `RemoveFile`, `RemoveJournal` |
| `finalizeCfwUpdateAfterSuccessfulBoot` | `HorizonBoot`, `HorizonCommit` |
| `prepareAndValidateCfwUpdateStaging` | `StageBegin`, `StageExtract`, `StageState`, `StageReady` |
| `ConfirmPage_AmsUpdate` | `ConfirmRestart`, `SavePayload`, `ArmPayload`, `DisarmPayload`, `Reboot` |

Left out: the `PENDING_BOOT` record of older builds, which leads to the commit;
package entries outside the managed paths, which are copied and which no
rollback touches; consoles that are Erista for Horizon and patched for the
payload; a failing reset of the staging root; the fallbacks for a card without
`payload.bin`; starting `recovery.bin` by hand on a patched console.
`recovery.bin` itself is not a file of the model.

### InstallStream and MtpTransfer

A step is one critical section.  `pstep` and `cstep` say where the producer and
the consumer are in the stream's methods: waiting for the mutex (`lock`), asleep
on a condition variable, about to notify after the unlock.  A byte is its
position in the object, so a wrong order shows.  `pushed`, `consumed` and `got`
are what the code's counters and the installer have seen.

| Code | Model |
|---|---|
| `push` | `CallPush`, `PushSleeps`, `PushReturns`, `PushCopies`, `PushNotifies` |
| `readExact` | `CallReadExact`, `ReadSleeps`, `ReadFails`, `ReadCopies`, `ReadNotifies` |
| `closeProducer`, `cancel`, `finishConsumer` | `CloseProducer`, `CancelStream`, `ProducerNotifies`, `FinishConsumer`, `ConsumerNotifies` |
| `start`, `stop` | `Start`, `Stop`, `StopJoins` |
| `threadMain`, `commandLoop`, `waitForConfigured` | `InitializeUsb`, `CommandLoopEnds`, `WaitForConfigured`, `ConnectionEnds`, `ThreadEnds` |
| `dispatchCommand`, `preparePendingObject`, `handleDeleteObject` | `OpenOrCloseSession`, `SendObjectInfo`, `DeleteObject`, `SendObject` |
| `serviceClassRequest` | `ClassRequest` |
| `handleSendObject` | `HeaderRefused`, `LengthMismatch`, `BeginTransfer`, `ReceiveChunk`, `ReceiveFails`, `ReceiveEnds`, `PushReturned`, `EndStream`, `JoinInstaller`, `AnswerFailure`, `AnswerOk` |
| its worker lambda | `InstallerStarts` ... `InstallerFinishes` |

The host, the cable and the USB service do anything at any time, or nothing: an
endpoint error ends a transfer at any moment (`ReceiveFails` in `Environment`), and
the poll ends it by itself only when `GivesUp` holds.  `evaluate` times silence
from the first byte on, so a host that sent the data header alone is polled until
`stop`, a cancel or the end of the connection.
Commands that only send data change no state and are left out.  The ring of the
code is at least 64 KiB; nothing depends on the number.

### NspInstaller

A step is one call to a console service or one change of the journal's file.
`storage`, `holders`, `meta` and `records` are what the services keep; the meta
database has a copy in memory (`metaMem`) until it is committed.  Both installers
are one sequence of steps: `stream` tells them apart where they differ, which is
when the title is checked.  `done` is history: a title is in it from the moment
the journal on the card says that its installation is complete.  `ignored` and
`window` name what the properties must exclude because the code does not look
at it (a journal that could not be saved, a rollback call that failed) or cannot
know it (a power cut between a call and the journal's note of it); they are
conditions of single conjuncts, never of a whole property without need.
A save that fails leaves the journal that was there: a torn JSON renamed over a
good journal, after which `recoverStaleRealInstall` fails every time, is not
modelled.  Nor is `cleanLegacyMtpState` of `mtp_install_page.cpp`, which removes the
directory with the journal without a rollback before it starts the separate program
that has replaced this installer.

### WorkerPage

Three actors: the UI thread (`StartWork`, `FinishWork`), the worker (`Download`,
`Extract`, `EndWork`) and the user.  `ProgressEvent` is global; its mutex and its
atomic flag cover one access at a time, and page and worker make several in a row,
so the user's B falls between any two.  The archive and the
extracted files outlive the visit: `Publish` ages them, so that "what this visit
downloaded" and "what an earlier one left" are different things.  One behaviour
is about one kind of content; the kinds use different files.  The worker waits for
the user at two places: `ask` (keep the `.ini` files of a custom pack?) and
`hekate` (start the new hekate on reboot?), which any hekate entry of a custom pack
or a port leads to on Atmosphere.  `removeTemporaryPortArchive` ignores the error of
the removal, so the archive of a port may be there still whenever it was removed.
Left out: the copies of a hekate payload to `update.bin` and `reboot_payload.bin` and
the user's own list of copies after a custom pack (`fs::copyFiles`), whose results
nobody looks at and which are no entries of the archive.

### ExplorerJob and FileExplorer

The card is a function from paths to contents.  Every call of `explorer::run` that
changes the card is a step, after each of which the user may cancel, the next
call may fail, or the power may go.  `before` is the card as the job found it.
Renames and new folders of the user move it along.  A path is a sequence of names,
`<<>>` the root; `Tree` says that what lies above an entry is a directory, and is
assumed of the card a behaviour starts with and proved of every later one.
The handlers of a failed job either remove everything they are to remove (`Unwind`)
or, since they ignore the errors of their removals, leave any part of it
(`UnwindRemains`); the model's result is then `"remains"`, while the user reads the
first error in both cases.

## 4. Runs

`tlc -config <cfg> <module>`; `PROJECT.json` lists them with their module.

| Run | Bounds | Shows |
|---|---|---|
| `journal` | 3 records, 3 errors, unbounded power cuts | `NoStaleRecord`, `ReplaceKeepsJournal`, and that `JournalInv` is an invariant |
| `app_crashes` | both consoles, 5 power cuts, no errors | `Recoverable`, `BackupKept`, `BootPayloadKept`, `PendingSettled`, `ImplementsTransaction`, and the invariants `CrashInv`, `BootInv` |
| `app_faults` | patched, 2 errors of all four kinds, 2 power cuts | `SuccessMeansInstalled` and the invariant `InstallInv` |
| `cfw_crashes` | both consoles, 4 paths (core, in the package, legacy, payload), new payload as long as the updater, 3 power cuts | `OriginalsKept`, `SentinelsTrue`, `RestoredMeansPrevious`, `PendingSettled`, and the invariant `CfwCrashInv` |
| `cfw_faults` | both consoles, 3 paths, 2 errors of all four kinds, a power cut | `SuccessMeansInstalled`, `SuccessMeansBootable`, and the invariant `CfwBootInv` |
| `mtp` | ring of 2 bytes, objects of up to 3, sizes known and unknown, any number of transfers, starts and stops | `StreamInv`, `WorkerInFrame`, `StoppedIsQuiet`, `AnswerHonest`, `StopReturns`, `TransferEnds`, `IsByteStream` |
| `nsp` | a base and a patch sharing a content, 2 failing calls, 2 power cuts, any number of installations | `InstalledKept`, `MetaMeansContents`, `RollbackClean` |
| `worker` | 4 entries (the application itself, an `.ini`, a hekate payload and an ignored file), any number of visits | `HomeBlockedWhileWorking`, `DoneMeansInstalled`, `ReadyMeansStaged`, `FreshExtraction`, `WorkEnds`, `CancelReturns` |
| `explorer` | 4 cards, a ZIP of 3 members, one job, rename or new folder per behaviour, power cuts | `UserFilesKept`, `TargetsWhole`, `ResultTrue`, `PageShowsWhatExists` |

Every subset of the managed paths is tried as the old installation (`Init`), so
each path is present in some behaviours and absent in others.  In the CFW runs
`OriginalsKept`, `SentinelsTrue` and `RestoredMeansPrevious` speak of the time
before a commit is begun.  Three power cuts are the fewest that lose a record (two
inside `write_state`) and then interrupt the recovery.

Two power cuts reach every interesting resumption (one inside the update, one
inside its recovery); five let a recovery be interrupted again and again, and
let a second update start over the remains of the first.  Two errors are one
in the update and one in its recovery or clean-up.  The proofs do not
depend on these bounds.

A ring of two bytes fills, empties and wraps within an object of three, in every
alignment of `push` and `readExact`.  Two titles that share a content are the
least for which a rollback could delete what another title needs; two faults let
the rollback of a failed installation fail as well, and two power cuts interrupt
a recovery.  In `worker` an archive has an entry for each of the ways `extract`
treats one.  One job is enough in `explorer` because the cards already contain
what earlier ones can leave: an occupied target, a directory of the archive's
name, a temporary file of a job cut off by a power cut.

Runs expected to end in a violation check one sentence the program says of
itself:

| Run | The sentence | What the code does |
|---|---|---|
| `app_saved_payload` | "Preserve the current root payload exactly when present." | the second try after a refused restart saves the updater over it |
| `cfw_lost_journal` | "A backup without a journal is never destroyed." | on a full card the commit record is acknowledged empty, and the backup is deleted |
| `nsp_record` | "If it was successfully pushed, the installation itself is complete even if power was lost before journal cleanup." | the push is journalled only afterwards; a power cut in between makes recovery remove the title and leave its record |

Related limits of the code, met while modelling, that have no run of their own:

* A backup of the application torn by a failed copy passes the non-empty test of
  `rollback_transaction`; after a power cut in the abort's clean-up it is restored
  over the intact NRO and reported as a successful restore.  This is why recovery
  is stated for runs without I/O errors.
* A CFW update whose record is lost while `new/` is partly deleted starts over as
  `STAGED`: after a power cut in the removal of the transaction's directory, or
  after a commit cut twice in the replacement of its record (`write_state` removes
  `state.tmp` first even when it is the only record) and again in its clean-up.
  `staged_package_valid` looks at the core files only; what is left of the package
  is copied, paths of which nothing is left are not, and the page says "installed
  and verified".  The run `cfw_faults` reaches such a page with one failing write
  and one power cut.  `SuccessMeansInstalled` excludes it by `~partial` and speaks of
  packages that had lost nothing when they were copied.
* With misreads two power cuts (and a write error) are enough to let the CFW
  updater read a `COPY_COMPLETE` that an earlier run left in `state.tmp`, and report
  a success without a complete copy.  This is why `CfwSuccessMeansInstalled` is
  proved for cards that do not misread, and the run with misreads has one cut.
* A host that sends the header of an object and then nothing, with the cable in,
  keeps the installer waiting until the user stops the server; `TransferEnds`
  begins with the first byte.
* After a hekate entry the worker waits for an answer without a limit, also when
  the user has just cancelled.
* A failed copy or extraction of the explorer whose clean-up fails as well leaves
  its remains without a word about them.
* Between the two renames of `finalize_patched_payload`, in the CFW rollback and in
  the app updater's restore of `payload.bin`, a patched console has nothing to
  start from ("Resume cleanly if power was lost after the previous rename").
* The fatal pages say that the backup was preserved also when there is none;
  `restore_backup` takes an entry it cannot examine for a restored one;
  `finalize_patched_payload` takes a payload of equal length for the new one
  (hence `SameSize = FALSE` in `cfw_faults`).
* `NativeMtpServer::start` after a failed USB initialisation assigns to a thread
  that was never joined, which ends the program (`Start`, `ui = "terminated"`).
* An extraction keeps a file because it exists, also when a cancelled one left it
  torn (`Kept`).

`hazards` in `PROJECT.json` has them with their lines.

Deadlock is checked except in the runs with patched consoles, where a torn
`payload.bin` really stops the machine.

### Fairness

`FairSpec` assumes three things: the payload goes on while it has power
(`WF(PayloadStep)`: it is a single loop without waiting for anyone but the user's
POWER key); a user on a Horizon page eventually acts (`WF(HorizonStep)`); and the
payload is eventually started again (`WF(RcmLaunch)`).  The last is an
assumption about the user: on an unpatched console nothing in the code starts
an interrupted update by itself.  Power cuts are bounded, so they stop.
`PendingSettled` is checked under it on unpatched consoles; on patched ones
a torn or missing `payload.bin` is why it cannot hold.  For the CFW update the
old CFW may start in between, any number of times, so the start of the payload
is not continuously enabled: `SF(Launch)`.  It says that the user who keeps
switching the console on injects the payload some day.

`MtpTransfer` assumes that its three threads are scheduled: the USB thread
(`WF(UsbThread)`, whose endpoint waits all have a timeout or poll the flags), the
installer worker, and the caller once it joins.  An error of the endpoint is no
part of `UsbThread`: nothing promises one.  The host owes nothing; a transfer of
which a byte has come ends although it is silent, because the poll then has a
limit of 20 seconds (`GivesUp`).  `WorkerPage` assumes that the page is drawn
(`WF(UI)`) and the worker scheduled; curl's transfer ends because the callbacks
and the low-speed limit end it.  The user owes nothing, so `WorkEnds` and
`CancelReturns` exempt the time in which the worker waits for the answer to one of
its two questions (`Asking`).


## 5. Proofs

`tlapm` checks all of them; the assumptions are `JournalAssumption`,
`AppAssumption`, `CfwAssumption`, `CapacityAssumption`, `MtpAssumption`,
`NspAssumption`, `WorkerAssumption`, `ExplorerAssumption` and `PageAssumption`
(types of the constants; the ring has at least one byte, an archive at least one
entry, the names in a ZIP are relative and distinct as `extractZip` checks, a
card is a tree).  Where a theorem needs more, its statement says so: `NoErrors`,
`NoMisreads`, `~SameSize`, `FewTitles`, `PlainZip`.

* **`JournalNeverStale`, `JournalReplaceSafe`** (all records, errors, power
  cuts).  `NoStaleRecord` is not inductive: nothing in it says where the two
  files' contents came from.  `JournalInv` adds that (`FilesFromWrites`), how far
  the write in flight has got (`Progress`) and that the old file is kept until
  the new one is complete (`StateKept`).
* **`AppSuccessMeansInstalled`** (all errors, all power cuts, both kinds of
  console).  `InstallInv` adds: a pending update has a complete staged NRO or
  none (`StagedWhole`), the position inside calls (`CallsInOrder`), and that the
  records `COPY_COMPLETE` and `COMMIT_IN_PROGRESS`, in either file or being
  written, tell the truth and are gone before the installed NRO changes
  (`ClaimsTrue`).
* **`AppRecoverable`, `AppBackupKept`, `AppBootPayloadKept`,
  `AppImplementsTransaction`** (no I/O errors - with them the statements are
  false, see the limits above and `app_saved_payload` - and any number of power cuts).
  `CrashInv` relates every record a restart could read to the files it stands
  for: `BackupWhole`, `TargetWhole`, `OpenIntact`, `EndIsDecided`,
  `RunFollowsJournal`.  The refinement maps the phase to the journal and the
  installed version to the backup while the installed NRO is not complete.

* **`JournalAlways`, `InstallAlways`, `CrashAlways`, `BootAlways`** state the
  inductive invariants themselves, which the runs check too.  So do
  `CfwCrashSafe` and `CfwBootAlways` below.  `NspInv`, `WorkerInv` and
  `CfwInstallInv` have theorems and no run: each is a definition of the module
  that the run `nsp`, `worker` or `cfw_crashes` starts from, where TLC can check
  it when one of them is changed.  `ExplorerInv` is in `FileExplorerProofs`; TLC
  finds no violation of it, `OriginInv` and `MembersWhole` in the instance of the
  run `explorer`.
* **`StreamCorrect`** (every capacity and object size).  `StreamInv` is inductive
  for every way the stream can change, whoever calls it (`StreamNext`), and every
  step of `MtpTransfer` is such a step or leaves the stream alone.  Order needs
  that the ring holds exactly the bytes between `consumed` and `pushed`
  (`RingHolds`) and where they end (`RingShape`); the absence of lost wake-ups
  needs that whoever made a sleeper's condition true is about to notify it.
* **`WorkerStaysInFrame`, `StopLeavesNothing`**: with `Threads`, which ties the
  flags to the place of the USB thread, the two are inductive (`FrameInv`).
* **`StreamImplementsQueue`**: the queued bytes, read from `readPos` around the
  ring, are by `StreamInv` the positions that follow what was delivered, so a
  critical section of `push` appends, one of `readExact` removes from the front,
  and nothing else but `finishConsumer` and a new stream changes them.
* **`AnswerIsHonest`**: `TransferInv` (with `StreamInv` and `FrameInv`) is the
  accounting of a transfer: `pushed` is `totalReceived` but for the push in
  progress (`Counted`), a transfer leaves nothing behind (`FreshFrame`), and one of
  known size that was cancelled or failed to read lacks bytes (`ShortFall`).  The
  installer succeeds only after it has consumed all of the size, and cannot
  consume what was not pushed; so at the answer only `stop()` is left to refuse.

* **`CfwTypes`** (all errors and power cuts), and **`CfwCrashSafe`,
  `CfwOriginalsKept`, `CfwSentinelsTrue`, `CfwRestoredMeansPrevious`** (`NoErrors`:
  `Faults = {}`; any managed paths, package, console and number of power cuts).
  `CfwCrashInv` says of every call what a power cut there leaves: no sentinel for
  an original, a backup entry is complete and of an original, a path without an
  original is absent or marked (`CardAccounted`); the saved payload of a patched
  console (`SavedAccounted`); a record from `BACKUP_COMPLETE` on, in either file
  or being written, has every original in the backup and every other path marked
  (`RecordsTrue`); how far the loops have got (`LoopsInOrder`).  With an I/O error
  the statements are false: a misread entry passes for a restored one.
* **`CfwInstallAlways`, `CfwSuccessMeansInstalled`** (`NoMisreads`; writes may be
  refused or short, and power lost).  `CfwInstallInv` follows the records that
  say that the copy is complete: where a path leaves the root of the card, neither
  file of the journal has one, not even an old one (`OldRecords`), what the
  record, the place and the loop say of the copy is so (`CopyTrue`), and a package
  that is complete has lost no path (`PackageWhole`).  Both speak of packages that
  had lost nothing when they were copied (`partial`).
* **`CfwBootAlways`, `CfwSuccessMeansBootable`** (`~SameSize`; all errors and
  power cuts).  The payload of a patched console is started from `payload.bin`, so
  it never meets the record of a commit (`PayloadRuns`): the page is reached
  through `finalize_patched_payload` of this very run.
* **`NspAlways`, `NspInstalledKept`, `NspMetaMeansContents`, `NspRollbackClean`**
  (any titles, packages, failures and power cuts; `FewTitles`: an application has
  at most `MaxRecords` titles, so that the record read back is whole).  `NspInv`:
  the plan loses no content (`PlanSound`), the journal on the card is at most one
  call behind it (`JournalKept`), nothing it would roll back belongs to an
  installed title (`TitlesSafe`), a database entry goes before its contents
  (`MetaSafe`), and everything else on the console is in the plan or the journal
  (`Accounted`).  The parts are conditional on what the code does not look at, each
  on no more than it needs.
* **`WorkerAlways`, `WorkerBlocksHome`, `WorkerDoneMeansInstalled`,
  `WorkerReadyMeansStaged`, `WorkerFreshExtraction`** (any archive, ignore list, kind
  of content and number of visits; no fairness).  `WorkerInv`: one thread behind
  one page (`Threads`), what the archive is at each step (`ArchiveKnown`), and that
  the entries behind the walk are whole or kept unless a failure, a cancel or a
  status was recorded, which stays until the page is left (`WalkSound`).
* **`ExplorerAlways`, `ExplorerUserFilesKept`, `ExplorerResultTrue`,
  `ExplorerPageShows`** (any card, archive, names, number of jobs, failures,
  cancels and power cuts).  None of the three is inductive: a rollback is harmless
  only because of what it holds.  `ExplorerInv` says, for each kind of job, what
  the paths are that the card has and `before` has not (`TargetInv`, `ZipInv`: the
  temporary file, the staging directory, complete targets, or what `createdFiles`
  and `createdDirs` name); which part of a tree is in the staging directory and
  which is still to do (`CopyInv`); what is left of the sources (`MoveInv`,
  `DeleteInv`); that a temporary name was free (`TempInv`).  It rests on lemmas
  about prefixes (`PrefixOrder`, `MovedPath`, `MovedTwice`), about the card
  (`WithTree`, `WithoutTree`, `RenameCard`, `RenameTree`, `AddDirs`: what each call
  leaves and that it leaves a tree) and about names (`TempForFree`,
  `TargetInjective`, `MissingPaths`).  Two steps argue about order: a directory of
  a failed extraction is empty when its turn comes, because the deepest goes
  first and all that is new is in the two lists; and the target of one source
  never lies in that of another, because the sources of a job share a folder.
  A clean-up that fails leaves the invariant's description standing, since what
  stays is still what the lists and the temporary names name; `ExplorerResultTrue`
  reads off it that a copy leaves only paths under a temporary name, and, with the
  origin of every created path (`OriginAlways`), that an extraction leaves only paths
  of the archive.
* **`ExplorerMembersWhole`, `ExplorerTargetsWhole`** (as above, with `PlainZip`: no
  member of the archive lies inside a member that is a file).  For copies and
  moves `ExplorerInv` is enough.  For an extraction `OriginInv` says which member
  each created file and directory comes from.  Without `PlainZip` the statement
  is false: of an archive with `e/x` before `e`, `extractZip` makes the directory
  `e`, finds the name of the file `e` taken, and rolls back, so that for a while a
  directory stands where the archive has a file.  Nothing of it stays unless the
  clean-up fails (`ExplorerResultTrue` needs no such hypothesis).

Only model-checked: liveness (`PendingSettled` of both updaters, `StopReturns`,
`TransferEnds`, `WorkEnds`, `CancelReturns`), which is out of this prover's reach;
and `SuccessMeansInstalled` of the CFW updater on a card that misreads.

## 6. Not modelled

See `components` in `PROJECT.json` for the whole list.  The catalogue, settings and
cheat pages write one small file at a time and hold no protocol.  The forwarder
installer has no journal and no rollback, and what `nsDeleteApplicationEntity`
leaves after a failure is not determined by this code.  Of the MTP server the
replies that only send data are left out, of the installer the parsing of NCA,
CNMT, PFS0 and the journals of older builds, of downloads the Mega links and the
downloads into memory, of the explorer the size scans and the editor.  The
TegraExplorer shell, the hardware code and the vendored libraries (bdk, FatFs,
lvgl, borealis, sphaira) are third-party and make up most of the repository's
lines; what the models need of FatFs and of the console's services is described
where they are used.
