----------------------------- MODULE WorkerPage -----------------------------
(***************************************************************************)
(* A staged installation as the user drives it: confirm, a WorkerPage that *)
(* downloads an archive, a WorkerPage that extracts it, a last page.       *)
(* Three actors share the card and one global ProgressEvent: the UI        *)
(* thread, which draws the page, starts the worker and judges its result;  *)
(* the worker thread, which runs downloadFile or extract; and the user,    *)
(* whose B raises the interrupt flag the worker polls.                     *)
(*                                                                         *)
(* The archive stays on the card from one visit to the next, so a visit    *)
(* meets what an earlier one was cancelled or failed in the middle of.     *)
(* Different kinds of content use different files and share nothing but    *)
(* ProgressEvent, so a behaviour is about one of them.                     *)
(***************************************************************************)
EXTENDS Naturals, Sequences

CONSTANTS
    Kinds,      \* what can be installed: a subset of KindNames
    Entries,    \* entries of an archive, in the order the ZIP lists them
    Inis,       \* the ones that end in .ini
    Ignored,    \* the ones the user's ignore list names
    Own,        \* the ones that are the running application itself
    Hekate      \* the ones named /hekate_ctcaer...

KindNames == {"app", "cheats", "custom", "ports"}

Entry == {Entries[i] : i \in 1 .. Len(Entries)}

ASSUME WorkerAssumption ==
    /\ Kinds \subseteq KindNames
    /\ Entries \in Seq(Entry) /\ Entries # <<>>

VARIABLES
    page,       \* the view in front
    kind,       \* what the staged frame installs
    started,    \* workStarted of the page in front
    finished,   \* workerFinished of it
    home,       \* HOME is blocked: systemLocksActive
    worker,     \* where the worker thread is
    interrupt,  \* ProgressEvent: the user asked to cancel
    failed,     \* ProgressEvent: there is an error message
    status,     \* ProgressEvent: the status code
    archive,    \* the downloaded file
    files,      \* what each entry's target holds; that of package3 and of
                \* stratosphere.romfs has .aio added to its name
    next,       \* index of the entry being extracted
    preserve,   \* extract's preserveInis
    ready,      \* the marker that arms the app update
    version     \* CHEATS_VERSION names the published version

ui == <<page, kind, started, finished, home>>
progress == <<interrupt, failed, status>>
card == <<archive, files, ready, version>>
local == <<next, preserve>>
vars == <<ui, worker, progress, card, local>>

WorkPages == {"download", "extract"}

Init ==
    /\ page = "menu" /\ kind \in Kinds
    /\ started = FALSE /\ finished = FALSE /\ home = FALSE
    /\ worker = "none"
    /\ interrupt = FALSE /\ failed = FALSE /\ status = 0
    /\ archive = "absent"
    /\ files \in {[e \in Entry |-> "none"], [e \in Entry |-> "old"]}
    /\ next = 1 /\ preserve = FALSE
    /\ ready = FALSE /\ version = FALSE

-----------------------------------------------------------------------------
(* The user interface *)

\* The publisher replaces what is downloaded, or the user turns to another port:
\* they share one temporary archive.  The archives and files on the card are those
\* of an older release from then on.
Publish ==
    LET Age(x) == IF x \in {"new", "fresh"} THEN "old" ELSE x IN
    /\ page = "menu"
    /\ archive' = Age(archive)
    /\ files' = [e \in Entry |-> Age(files[e])]
    /\ version' = FALSE
    /\ UNCHANGED <<ui, worker, progress, local, ready>>

Enter(p) ==
    /\ page' = p
    /\ started' = FALSE /\ finished' = FALSE
    /\ worker' = "none"

\* The user opens the staged frame and confirms. Cheats whose version
\* is the installed one, or the console being offline, have no download stage.
Open ==
    /\ page = "menu"
    /\ \/ Enter("download")
       \/ kind = "cheats" /\ Enter("extract")
    /\ UNCHANGED <<kind, home, progress, card, local>>

\* B on the page, maybe the moment before a question of the worker, which takes
\* the keys then, is drawn over it.
Cancel ==
    /\ page \in WorkPages
    /\ interrupt' = TRUE
    /\ UNCHANGED <<ui, worker, failed, status, card, local>>

\* First draw: the locks, ProgressEvent::reset, and the thread, which the
\* system may refuse to create.
StartWork ==
    /\ page \in WorkPages /\ ~started
    /\ started' = TRUE
    /\ home' = TRUE
    /\ interrupt' = FALSE /\ status' = 0
    /\ \/ /\ worker' = CASE page = "download" -> "probe"
                         [] page = "extract" /\ kind # "ports" -> "check"
                         [] OTHER -> "size"
          /\ failed' = FALSE /\ finished' = FALSE
       \/ /\ worker' = "none"
          /\ failed' = TRUE /\ finished' = TRUE
    /\ UNCHANGED <<page, kind, card, local>>

\* Mutant: HOME is not given back.
ReleaseForgotten == UNCHANGED home

\* releaseSystemLocks.
Release == home' = FALSE

\* A draw that finds the worker finished: join, release the locks, and then
\* the error, the status, the interrupt flag, in this order.
Finish(cancelled) ==
    /\ page \in WorkPages /\ started /\ finished
    /\ worker \in {"none", "ended"}
    /\ Release
    /\ \/ /\ failed \/ status > 399
          /\ Enter("menu") /\ status' = 0
       \/ /\ ~failed /\ status <= 399 /\ cancelled
          /\ Enter("menu") /\ UNCHANGED status
       \/ /\ ~failed /\ status <= 399 /\ ~cancelled
          /\ Enter(IF page = "download" THEN "extract" ELSE "done") /\ status' = 0
    /\ UNCHANGED <<kind, interrupt, failed, card, local>>

\* Mutant: the interrupt flag is not looked at.
FinishWorkUncancelled == Finish(FALSE)

FinishWork == Finish(interrupt)

LeaveDone ==
    /\ page = "done"
    /\ Enter("menu")
    /\ UNCHANGED <<kind, home, progress, card, local>>
-----------------------------------------------------------------------------
(* The worker thread: downloadFile and its callers *)

At(p) == worker = p /\ UNCHANGED ui
Goto(p) == worker' = p
Return(ok) == Goto(IF ok THEN "downloaded" ELSE "undownloaded")

\* The error of the removal is ignored: what was there may stay.
removeTemporaryPortArchive == archive' \in {"absent", archive}

\* Curl is set up and the size asked for: no handle, no address or too little
\* space throws. A port's old archive is removed first.
Probe ==
    /\ At("probe")
    /\ status' = 0
    /\ IF kind = "ports" THEN removeTemporaryPortArchive ELSE UNCHANGED archive
    /\ Goto("open") \/ Goto("catch")
    /\ UNCHANGED <<interrupt, failed, files, ready, version, local>>

\* fopen "wb" truncates what an earlier visit downloaded.
OpenOutput ==
    /\ At("open")
    /\ \/ interrupt /\ Return(FALSE) /\ UNCHANGED archive
       \/ ~interrupt /\ Goto("catch") /\ UNCHANGED archive
       \/ ~interrupt /\ Goto("transfer") /\ archive' = "torn"
    /\ UNCHANGED <<progress, files, ready, version, local>>

\* curl_easy_perform, the last fwrite and fclose: everything arrived and was
\* written, or the transfer broke, was refused, was not written or was aborted
\* by the callbacks that poll the interrupt flag. What arrived may be another
\* document than an archive.
Transfer ==
    /\ At("transfer")
    /\ \/ Goto("whole") /\ archive' \in {"fresh", "junk"}
       \/ Goto("broken") /\ UNCHANGED archive
    /\ UNCHANGED <<progress, files, ready, version, local>>

\* The interrupt flag is looked at before the result is.
JudgeTransfer ==
    /\ worker \in {"whole", "broken"}
    /\ \/ interrupt /\ Return(FALSE) /\ UNCHANGED status
       \/ ~interrupt /\ worker = "broken" /\ Goto("catch") /\ UNCHANGED status
       \/ ~interrupt /\ worker = "whole" /\ Return(TRUE) /\ status' = 200
    /\ UNCHANGED <<ui, interrupt, failed, card, local>>

\* Mutant: an error of the download is never told.
CatchDownloadSilent ==
    /\ At("catch")
    /\ Return(FALSE)
    /\ UNCHANGED <<progress, card, local>>

\* The handler of downloadFile: an error of a cancelled download is not told.
CatchDownload ==
    /\ At("catch")
    /\ IF interrupt THEN UNCHANGED <<failed, status>>
       ELSE failed' = TRUE /\ status' \in {0, 404}
    /\ Return(FALSE)
    /\ UNCHANGED <<interrupt, card, local>>

\* downloadArchive stores what downloadFile returned; the ports page removes the
\* archive of a download that was not completed or was cancelled.
Downloaded ==
    /\ worker \in {"downloaded", "undownloaded"}
    /\ LET ok == worker = "downloaded" IN
       IF kind = "ports"
       THEN /\ IF ok /\ ~interrupt THEN UNCHANGED archive ELSE removeTemporaryPortArchive
            /\ UNCHANGED status
       ELSE /\ status' = IF ok THEN 200 ELSE 0
            /\ UNCHANGED archive
    /\ Goto("ending")
    /\ UNCHANGED <<ui, interrupt, failed, files, ready, version, local>>

\* Mutant: a worker that threw does not report that it is finished.
EndWorkThrown ==
    /\ worker = "ending"
    /\ Goto("ended")
    /\ finished' = ~failed
    /\ UNCHANGED <<page, kind, started, home, progress, card, local>>

\* The end of doWork, whatever the worker function did.
EndWork ==
    /\ worker = "ending"
    /\ Goto("ended")
    /\ finished' = TRUE
    /\ UNCHANGED <<page, kind, started, home, progress, card, local>>

Download == Probe \/ OpenOutput \/ Transfer \/ JudgeTransfer \/ CatchDownload \/ Downloaded
-----------------------------------------------------------------------------
(* The worker thread: extractArchive and extract *)

\* An exception reaches doWork, or the worker stores a message and returns.
Fail == failed' = TRUE /\ Goto(IF kind = "ports" THEN "cleanup" ELSE "ending")
Stop == UNCHANGED failed /\ Goto(IF kind = "ports" THEN "cleanup" ELSE "ending")

\* isArchive reads the first four bytes only: a torn archive may pass.
SignatureSeen ==
    CASE archive \in {"absent", "junk"} -> {FALSE}
      [] archive = "torn" -> BOOLEAN
      [] OTHER -> {TRUE}

CheckArchive ==
    /\ At("check")
    /\ \E zip \in SignatureSeen :
          \/ ~zip /\ kind = "app" /\ Fail /\ UNCHANGED status
          \/ ~zip /\ kind # "app" /\ status' = 406 /\ Goto("gate") /\ UNCHANGED failed
          \/ zip /\ Goto("gate") /\ UNCHANGED <<failed, status>>
    /\ UNCHANGED <<interrupt, card, local>>

\* The early return of extractArchive, then what each kind does first: the app
\* refuses while an update is pending and clears the staging directory, the
\* custom pack asks about .ini files.
Gate ==
    /\ At("gate")
    /\ \/ /\ status > 399 \/ failed \/ interrupt
          /\ Stop /\ UNCHANGED files
       \/ /\ status <= 399 /\ ~failed /\ ~interrupt
          /\ \/ kind = "cheats" /\ Goto("size") /\ UNCHANGED <<failed, files>>
             \/ kind = "custom" /\ Goto("ask") /\ UNCHANGED <<failed, files>>
             \/ kind = "app" /\ ready /\ Fail /\ UNCHANGED files
             \/ kind = "app" /\ ~ready /\ Fail
                /\ files' = [e \in Entry |-> IF files[e] = "none" THEN "none" ELSE "torn"]
             \/ /\ kind = "app" /\ ~ready
                /\ files' = [e \in Entry |-> "none"]
                /\ Goto("size") /\ UNCHANGED failed
    /\ UNCHANGED <<interrupt, status, archive, ready, version, local>>

\* showDialogBoxBlocking: the worker sleeps until the user has answered.
AnswerDialog ==
    /\ At("ask")
    /\ preserve' \in BOOLEAN
    /\ Goto("size")
    /\ UNCHANGED <<progress, card, next>>

\* ensureAvailableStorage walks the whole archive: one that lost its end has no
\* directory and cannot be opened, one that is too large for the card is refused.
MeasureArchive ==
    /\ At("size")
    /\ next' = 1
    /\ preserve' = (preserve /\ kind = "custom")
    /\ \/ archive \in {"absent", "junk", "torn"} /\ Fail
       \/ archive \in {"old", "fresh"} /\ Fail
       \/ archive \in {"old", "fresh"} /\ interrupt /\ Stop
       \/ archive \in {"old", "fresh"} /\ Goto("entry") /\ UNCHANGED failed
    /\ UNCHANGED <<interrupt, status, card>>

\* The running application is not extracted; .ini files the user keeps and
\* files of the ignore list are only where there is none yet.
Kept(e) == \/ e \in Own /\ kind \in {"custom", "ports"}
           \/ /\ (e \in Inis /\ preserve) \/ (e \in Ignored /\ kind # "cheats")
              /\ files[e] # "none"

SetFile(x) == files' = [files EXCEPT ![Entries[next]] = x]

\* The head of the loop over the entries.
NextEntry ==
    /\ At("entry")
    /\ IF interrupt \/ next > Len(Entries) THEN Goto("walked") /\ UNCHANGED <<failed, next, files>>
       ELSE \/ Kept(Entries[next]) /\ next' = next + 1 /\ UNCHANGED <<worker, failed, files>>
            \/ ~Kept(Entries[next]) /\ SetFile("torn") /\ Goto("write") /\ UNCHANGED <<failed, next>>
            \/ Fail /\ UNCHANGED <<next, files>>
    /\ UNCHANGED <<interrupt, status, archive, ready, version, preserve>>

\* extractEntry writes over the file itself: it is whole only when the loop was
\* not interrupted and the CRC and the size agree.  A hekate payload in the root of
\* the card is copied to bootloader/update.bin, which is none of the entries here,
\* and on Atmosphere the user is asked whether to start it on reboot.
WriteEntry ==
    /\ At("write")
    /\ \/ interrupt /\ Goto("walked") /\ UNCHANGED <<failed, next, files>>
       \/ /\ ~interrupt /\ UNCHANGED failed
          /\ SetFile(IF archive = "fresh" THEN "new" ELSE "old")
          /\ \/ Goto("entry") /\ next' = next + 1
             \/ /\ Entries[next] \in Hekate /\ kind \in {"custom", "ports"}
                /\ Goto("hekate") /\ UNCHANGED next
       \/ Fail /\ UNCHANGED <<next, files>>
    /\ UNCHANGED <<interrupt, status, archive, ready, version, preserve>>

\* The second blocking question: yes copies update.bin to the reboot payload, and
\* the loop goes on either way.
AnswerHekate ==
    /\ At("hekate")
    /\ Goto("entry") /\ next' = next + 1
    /\ UNCHANGED <<progress, card, preserve>>

\* After the walk: cheats record their version unless the walk was interrupted,
\* the app looks at progress and the staged file and writes its marker.  (A custom
\* pack ends with the user's own list of copies, fs::copyFiles, whose errors nobody
\* looks at.)
Walked(armed) ==
    /\ At("walked")
    /\ \/ kind \in {"custom", "ports"} /\ Stop /\ UNCHANGED <<ready, version>>
       \/ kind = "cheats" /\ interrupt /\ Stop /\ UNCHANGED <<ready, version>>
       \/ /\ kind = "cheats" /\ ~interrupt   \* saveToFile is not checked
          /\ version' \in {version, version \/ archive = "fresh"}
          /\ Stop /\ UNCHANGED ready
       \/ kind = "app" /\ ~armed /\ Stop /\ UNCHANGED <<ready, version>>
       \/ kind = "app" /\ armed /\ Fail /\ ready' \in BOOLEAN /\ UNCHANGED version
       \/ kind = "app" /\ armed /\ ready' = TRUE /\ Stop /\ UNCHANGED version
    /\ UNCHANGED <<interrupt, status, archive, files, local>>

\* Mutant: the app arms the update without looking at progress again.
AfterWalkArms == Walked(TRUE)

AfterWalk == Walked(~failed /\ status <= 399 /\ ~interrupt)

\* TemporaryPortArchiveCleanup, however the extraction ended.
CleanUpPort ==
    /\ At("cleanup")
    /\ removeTemporaryPortArchive
    /\ Goto("ending")
    /\ UNCHANGED <<progress, files, ready, version, local>>

Extract == \/ CheckArchive \/ Gate \/ MeasureArchive \/ NextEntry \/ WriteEntry
           \/ AfterWalk \/ CleanUpPort
-----------------------------------------------------------------------------
UI == StartWork \/ FinishWork
Worker == Download \/ Extract \/ EndWork
User == \/ Publish \/ Open \/ Cancel \/ AnswerDialog \/ AnswerHekate \/ LeaveDone

Next == UI \/ Worker \/ User

\* The UI thread draws every frame, the worker is scheduled and its transfer has
\* an inactivity limit (configureTransfer). The user owes nothing.
Fairness == WF_vars(UI) /\ WF_vars(Worker)

Spec == Init /\ [][Next]_vars /\ Fairness

-----------------------------------------------------------------------------
(* Properties *)

Idle == {"none", "ended"}

Flags ==
    /\ started \in BOOLEAN /\ finished \in BOOLEAN /\ home \in BOOLEAN
    /\ interrupt \in BOOLEAN /\ failed \in BOOLEAN
    /\ preserve \in BOOLEAN /\ ready \in BOOLEAN /\ version \in BOOLEAN

TypeOK ==
    /\ page \in {"menu", "done"} \cup WorkPages
    /\ kind \in Kinds
    /\ Flags
    /\ worker \in Idle \cup {"probe", "open", "transfer", "whole", "broken", "catch",
                             "downloaded", "undownloaded", "ending", "check", "gate", "ask",
                             "size", "entry", "write", "hekate", "walked", "cleanup"}
    /\ status \in {0, 200, 404, 406}
    /\ archive \in {"absent", "junk", "torn", "old", "fresh"}
    /\ files \in [Entry -> {"none", "torn", "old", "new"}]
    /\ next \in 1 .. Len(Entries) + 1

\* HOME is blocked whenever a worker thread is running, and only on a page whose
\* work has begun: the menu and the last page are never reached with the console
\* still trapped (draw, releaseSystemLocks).
HomeBlockedWhileWorking ==
    /\ TypeOK
    /\ worker \notin Idle => home
    /\ home => page \in WorkPages /\ started

\* The last page says that all is done only if every entry the archive and the
\* user's choices call for was extracted whole, from the archive this visit
\* downloaded if it downloaded one: no failure, cancel, torn archive of an
\* earlier visit or late key press ends there. (A file that is kept is not
\* looked at: one a cancelled visit left half written is kept like any other.)
\* The version recorded for the cheats is then that of the cheats on the card.
DoneMeansInstalled ==
    page = "done" =>
        /\ \A e \in Entry : \/ Kept(e)
                            \/ files[e] = "new"
                            \/ files[e] = "old" /\ archive = "old" /\ kind = "cheats"
        /\ version => \A e \in Entry : files[e] = "new"

\* The marker the payload trusts is there only beside a completely extracted
\* application: cancel, failure or a torn download never arms the update.
ReadyMeansStaged ==
    ready => \A e \in Entry : files[e] \in {"old", "new"}

\* Whatever earlier visits left under the archive's name, and although nothing sees
\* to it that they leave nothing, only what this visit downloaded whole is written
\* over the files of the card (downloadFile, extract).  Cheats may be installed from
\* the archive that is there.
FreshExtraction ==
    kind # "cheats" /\ worker \in {"entry", "write", "hekate", "walked"} => archive = "fresh"

\* The worker waits for the user's answer (showDialogBoxBlocking).
Asking == worker \in {"ask", "hekate"}

\* A page that began its work is left again, unless the user never answers one of
\* the worker's questions.
WorkEnds == started ~> ~started \/ Asking

\* A cancel the page has seen leads back to the menu, never to the next stage,
\* although the worker may finish at the same moment; it waits, too, for the answer
\* to a question that came first.
CancelReturns == started /\ interrupt ~> page = "menu" \/ Asking

-----------------------------------------------------------------------------
(* The inductive invariant behind the four invariants.                     *)

Downloading == {"probe", "open", "transfer", "whole", "broken", "catch",
                "downloaded", "undownloaded"}
Extracting == {"check", "gate", "ask", "size", "entry", "write", "hekate", "walked", "cleanup"}

\* One page, one thread: a worker runs only behind the page that started it, and
\* a page that has no thread any more was told so.
Threads ==
    /\ started => page \in WorkPages
    /\ home => started
    /\ worker \in Downloading => page = "download"
    /\ worker \in Extracting => page = "extract"
    /\ worker \notin Idle => home /\ page \in WorkPages
    /\ worker = "ended" => started
    /\ started /\ worker = "none" => failed
    /\ worker \in {"check", "gate"} => kind # "ports"
    /\ worker = "ask" => kind = "custom"
    /\ worker = "hekate" => kind \in {"custom", "ports"}
    /\ worker = "cleanup" => kind = "ports"
    /\ preserve => kind = "custom"

\* What an archive is while it is downloaded, and after: the next page is
\* reached only with what this visit downloaded.
Arrived == archive \in {"fresh", "junk"}
Spoilt == failed \/ interrupt \/ status > 399
ArchiveKnown ==
    /\ worker \in {"whole", "downloaded"} => Arrived
    /\ worker = "undownloaded" => failed \/ interrupt
    /\ page = "download" /\ worker \in {"ending", "ended"} => Arrived \/ Spoilt
    /\ page = "extract" /\ kind # "cheats" => Arrived \/ worker \in {"ending", "ended"}
    /\ worker \in {"entry", "write", "hekate", "walked"} => archive \in {"old", "fresh"}
    /\ version => kind = "cheats" /\ archive # "old"

\* The walk over the entries: the ones behind it are what they should be, and
\* an app that is being staged is not armed.
Extracted(e) == \/ Kept(e)
                \/ files[e] = "new"
                \/ files[e] = "old" /\ archive = "old" /\ kind = "cheats"
WalkSound ==
    /\ worker = "entry" => \A i \in 1 .. next - 1 : Extracted(Entries[i])
    /\ worker = "write" =>
          /\ next <= Len(Entries)
          /\ \A i \in 1 .. next - 1 : Entries[i] = Entries[next] \/ Extracted(Entries[i])
    /\ worker = "hekate" => next <= Len(Entries) /\ \A i \in 1 .. next : Extracted(Entries[i])
    /\ page = "extract" /\ worker \in {"walked", "cleanup", "ending", "ended"} =>
          Spoilt \/ \A e \in Entry : Extracted(e)
    /\ page = "done" => \A e \in Entry : Extracted(e)
    /\ ready => kind = "app" /\ worker \notin {"size", "entry", "write", "walked"}
    /\ kind = "app" /\ (worker \in {"size", "entry"} \/ (worker = "walked" /\ ~Spoilt)) =>
          \A e \in Entry : files[e] # "torn"
    /\ kind = "app" /\ worker = "write" =>
          \A e \in Entry : files[e] = "torn" => e = Entries[next]

\* The worker reports, and the page believes, only what is on the card.
WorkerInv == TypeOK /\ Threads /\ ArchiveKnown /\ WalkSound /\ ReadyMeansStaged

=============================================================================
