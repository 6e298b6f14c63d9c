---------------------------- MODULE MtpTransfer ----------------------------
(***************************************************************************)
(* mtp::NativeMtpServer: the USB thread that answers the host's commands   *)
(* and feeds an object's bytes to the installer worker through an          *)
(* InstallStream, and the caller of start and stop.                        *)
(*                                                                         *)
(* The host, the cable and the console's USB service are the environment:  *)
(* any command, any class request, any error and any silence, and the      *)
(* cable may come and go.  The installer is what the server sees of it: it *)
(* reads `need' bytes in pieces of any size and returns success, or gives  *)
(* up at any point (NspInstaller models what it does to the console).      *)
(***************************************************************************)
EXTENDS InstallStream

CONSTANTS
    MaxObject,          \* bytes in the largest object
    SizeUnknown         \* SendObjectInfo's size 0xFFFFFFFF

ASSUME MtpAssumption == MaxObject \in Nat /\ SizeUnknown \notin Nat

VARIABLES
    ui,                 \* the thread that calls start and stop
    joinable,           \* std::thread worker stands for a thread
    ustep,              \* the USB thread
    running, stopRequested, transferCancelRequested, installerBusy, homeBlocked,
    shown,              \* status.state
    configured,         \* the host has configured the USB device
    session,            \* sessionId # 0
    pendingValid, pendingSize,
    left,               \* bytes of the object the host has not sent yet
    totalReceived, readFailed,
    istep,              \* the installer worker
    need,               \* bytes the installer reads before it can succeed
    installed           \* installResult.ok()

flagvars == <<running, stopRequested, transferCancelRequested, installerBusy>>
objvars == <<pendingValid, pendingSize>>
xfervars == <<left, totalReceived, readFailed>>
instvars == <<istep, need, installed>>
vars == <<svars, ui, joinable, ustep, flagvars, homeBlocked, shown, configured,
          session, objvars, xfervars, instvars>>

\* Variables only the USB thread (and start, while there is none) writes.
usbvars == <<installerBusy, homeBlocked, session, objvars, xfervars>>

Init ==
    /\ StreamInit
    /\ ui = "idle" /\ joinable = FALSE /\ ustep = "none"
    /\ running = FALSE /\ stopRequested = FALSE /\ transferCancelRequested = FALSE
    /\ installerBusy = FALSE /\ homeBlocked = FALSE
    /\ shown = "Stopped" /\ configured = FALSE /\ session = FALSE
    /\ pendingValid = FALSE /\ pendingSize = 0
    /\ left = 0 /\ totalReceived = 0 /\ readFailed = FALSE
    /\ istep = "none" /\ need = 0 /\ installed = FALSE

-----------------------------------------------------------------------------
(* start and stop                                                          *)

\* Assigning a thread to a std::thread that was never joined ends the program.
Start ==
    /\ ui = "idle" /\ ~running
    /\ running' = TRUE
    /\ stopRequested' = FALSE /\ transferCancelRequested' = FALSE
    /\ installerBusy' = FALSE
    /\ shown' = "Starting"
    /\ IF joinable THEN ui' = "terminated" /\ UNCHANGED <<joinable, ustep>>
                   ELSE joinable' = TRUE /\ ustep' = "init" /\ UNCHANGED ui
    /\ UNCHANGED <<svars, homeBlocked, configured, session, objvars, xfervars,
                   instvars>>

\* Mutant: stop does not wait for the USB thread.
StopUnjoined ==
    /\ ui = "idle" /\ (running \/ joinable)
    /\ stopRequested' = TRUE /\ transferCancelRequested' = TRUE
    /\ shown' = "Stopped"
    /\ UNCHANGED <<svars, ui, joinable, ustep, running, usbvars, configured, instvars>>

Stop ==
    /\ ui = "idle" /\ (running \/ joinable)
    /\ stopRequested' = TRUE /\ transferCancelRequested' = TRUE
    /\ ui' = "joining"
    /\ UNCHANGED <<svars, joinable, ustep, running, usbvars, shown, configured, instvars>>

StopJoins ==
    /\ ui = "joining" /\ ustep = "none"
    /\ ui' = "idle" /\ joinable' = FALSE /\ running' = FALSE
    /\ shown' = "Stopped"
    /\ UNCHANGED <<svars, ustep, stopRequested, transferCancelRequested, usbvars,
                   configured, instvars>>

-----------------------------------------------------------------------------
(* The USB thread outside a transfer                                       *)

\* cleanupUsb, running = false, and the state shown last.
ThreadEnds(state) ==
    /\ ustep' = "none"
    /\ homeBlocked' = FALSE
    /\ running' = FALSE
    /\ shown' = state

InitializeUsb ==
    /\ ustep = "init"
    /\ \/ ThreadEnds("Error")
       \/ ustep' = "wait" /\ shown' = "WaitingForHost" /\ UNCHANGED <<running, homeBlocked>>
    /\ UNCHANGED <<svars, ui, joinable, stopRequested, transferCancelRequested,
                   installerBusy, configured, session, objvars, xfervars, instvars>>

resetPendingObject ==
    /\ pendingValid' = FALSE /\ pendingSize' = 0
    /\ transferCancelRequested' = FALSE

\* waitForConfigured gives up when stop is requested: the thread ends.
CommandLoopEnds ==
    /\ ustep = "wait" /\ stopRequested
    /\ ThreadEnds("Stopped")
    /\ UNCHANGED <<svars, ui, joinable, stopRequested, transferCancelRequested,
                   installerBusy, configured, session, objvars, xfervars, instvars>>

\* waitForConfigured: poll until the device is configured; an error stays
\* shown while the host remains.
WaitForConfigured ==
    /\ ustep = "wait" /\ ~stopRequested
    /\ IF configured
       THEN /\ ustep' = "idle"
            /\ shown' = IF shown = "Error" THEN shown ELSE "Connected"
            /\ session' = FALSE
            /\ resetPendingObject
       ELSE /\ shown' = "WaitingForHost"
            /\ UNCHANGED <<ustep, session, objvars, transferCancelRequested>>
    /\ UNCHANGED <<svars, ui, joinable, running, stopRequested, installerBusy, homeBlocked,
                   configured, xfervars, instvars>>

\* The inner loop is left: stop, cable, cancel, an endpoint error or a command
\* container that makes no sense.
ConnectionEnds ==
    /\ ustep = "idle"
    /\ ustep' = "wait"
    /\ homeBlocked' = FALSE
    /\ resetPendingObject
    /\ UNCHANGED <<svars, ui, joinable, running, stopRequested, installerBusy, shown,
                   configured, session, xfervars, instvars>>

\* The USB thread reads a command container.  A cancel that came just before
\* does not stop it if the container is there already.
Listening == ustep = "idle" /\ configured /\ ~stopRequested

OpenOrCloseSession ==
    /\ Listening
    /\ session' = ~session
    /\ UNCHANGED <<svars, ui, joinable, ustep, flagvars, homeBlocked, shown,
                   configured, objvars, xfervars, instvars>>

preparePendingObject(size) ==
    /\ ~installerBusy /\ ~pendingValid
    /\ pendingValid' = TRUE /\ pendingSize' = size
    /\ transferCancelRequested' = FALSE
    /\ shown' = "Connected"

\* SendObjectInfo, and SendObjectPropList, which always knows the size.
SendObjectInfo(size) ==
    /\ Listening /\ session
    /\ preparePendingObject(size)
    /\ UNCHANGED <<svars, ui, joinable, ustep, running, stopRequested, installerBusy,
                   homeBlocked, configured, session, xfervars, instvars>>

DeleteObject ==
    /\ Listening /\ session
    /\ ~installerBusy /\ pendingValid
    /\ resetPendingObject
    /\ UNCHANGED <<svars, ui, joinable, ustep, running, stopRequested, installerBusy,
                   homeBlocked, shown, configured, session, xfervars, instvars>>

\* SendObject is accepted: its data container comes next.
SendObject ==
    /\ Listening /\ session
    /\ ~installerBusy /\ pendingValid
    /\ ustep' = "header"
    /\ UNCHANGED <<svars, ui, joinable, flagvars, homeBlocked, shown, configured,
                   session, objvars, xfervars, instvars>>

\* Mutant: one byte too many is waited for.
CompleteOneMore == IF pendingSize = SizeUnknown THEN left = 0
                                                ELSE totalReceived > pendingSize

\* All of a known size has come, or the short packet that ends an unknown one.
Complete == IF pendingSize = SizeUnknown THEN left = 0
                                         ELSE totalReceived >= pendingSize

\* The receive loop waits for the endpoint: what is known to be all has not come.
AwaitsBytes == ustep = "receive" /\ (pendingSize = SizeUnknown \/ ~Complete)

\* serviceClassRequest: CANCEL and RESET reach the thread while it polls an
\* endpoint; RESET also closes the session.
ClassRequest ==
    /\ configured
    /\ ustep \in {"idle", "header"} \/ AwaitsBytes
    /\ transferCancelRequested' = TRUE
    /\ session' \in {session, FALSE}
    /\ UNCHANGED <<svars, ui, joinable, ustep, running, stopRequested, installerBusy,
                   homeBlocked, shown, configured, objvars, xfervars, instvars>>

-----------------------------------------------------------------------------
(* SendObject                                                              *)

\* The header cannot be read, or is not this object's: the object stays pending.
HeaderRefused ==
    /\ ustep = "header"
    /\ ustep' = "idle"
    /\ UNCHANGED <<svars, ui, joinable, flagvars, homeBlocked, shown, configured,
                   session, objvars, xfervars, instvars>>

\* failTransfer: an error response if the host is still there.
failTransfer ==
    /\ homeBlocked' = FALSE
    /\ shown' = "Error"
    /\ resetPendingObject
    /\ ustep' = "idle"

\* The container's length is not the announced size.
LengthMismatch ==
    /\ ustep = "header" /\ pendingSize # SizeUnknown
    /\ failTransfer
    /\ UNCHANGED <<svars, ui, joinable, running, stopRequested, installerBusy, configured,
                   session, xfervars, instvars>>

\* The transfer begins: a new stream and a worker that installs from it.  The
\* container's length may give the size SendObjectInfo did not know.  The
\* installer knows how much to read from the size, or else from the package.
BeginTransfer(object) ==
    /\ ustep = "header" /\ configured
    /\ pendingSize \in {SizeUnknown, object}
    /\ left' = object
    /\ \E size \in {pendingSize, object} :
          /\ pendingSize' = size
          /\ IF size \in {SizeUnknown, 0} THEN need' \in 1..MaxObject ELSE need' = size
    /\ transferCancelRequested' = FALSE
    /\ installerBusy' = TRUE
    /\ shown' = "Receiving"
    /\ homeBlocked' \in {TRUE, homeBlocked}
    /\ istep' = "start"
    /\ ustep' = "receive"
    /\ UNCHANGED <<svars, ui, joinable, running, stopRequested, configured, session,
                   pendingValid, totalReceived, readFailed, installed>>

\* The receive loop goes on to stream.cancel() or stream.closeProducer().
ReceiveEnds ==
    /\ ustep = "receive"
    /\ stopRequested \/ transferCancelRequested \/ Complete
    /\ ustep' = "close"
    /\ UNCHANGED <<svars, ui, joinable, flagvars, homeBlocked, shown, configured,
                   session, objvars, xfervars, instvars>>

\* Mutant: silence is never timed.
GivesUpUntimed == stopRequested \/ transferCancelRequested \/ ~configured

\* When the poll of the endpoint ends by itself: stop, cancel, no cable, or 20
\* seconds of silence, which evaluate times from the first byte on.  A host that
\* has sent the header alone is waited for without end.
GivesUp == \/ stopRequested \/ transferCancelRequested \/ ~configured
           \/ totalReceived > 0

\* receiveIntoBuffer fails: the poll gives up, or the endpoint returns an error.
ReceiveFails ==
    /\ AwaitsBytes
    /\ ustep' = "close"
    /\ readFailed' = TRUE
    /\ UNCHANGED <<svars, ui, joinable, flagvars, homeBlocked, shown, configured,
                   session, objvars, left, totalReceived, instvars>>

ReceiveChunk(n) ==
    /\ ustep = "receive" /\ configured
    /\ ~stopRequested /\ ~transferCancelRequested /\ ~Complete
    /\ n <= left
    /\ left' = left - n
    /\ CallPush(n)
    /\ ustep' = "push"
    /\ UNCHANGED <<ui, joinable, flagvars, homeBlocked, shown, configured, session,
                   objvars, totalReceived, readFailed, instvars>>

PushReturned ==
    /\ ustep = "push" /\ pstep = "idle"
    /\ IF pok THEN totalReceived' = totalReceived + psize /\ ustep' = "receive"
              ELSE ustep' = "close" /\ UNCHANGED totalReceived
    /\ UNCHANGED <<svars, ui, joinable, flagvars, homeBlocked, shown, configured,
                   session, objvars, left, readFailed, instvars>>

EndStream ==
    /\ ustep = "close"
    /\ IF stopRequested \/ transferCancelRequested \/ ~pok
       THEN CancelStream ELSE CloseProducer
    /\ ustep' = "join"
    /\ UNCHANGED <<ui, joinable, flagvars, homeBlocked, shown, configured, session,
                   objvars, xfervars, instvars>>

\* Mutant: the worker is not joined.
NoJoinInstaller ==
    /\ ustep = "join" /\ pstep = "closed"
    /\ ustep' = "answer"
    /\ homeBlocked' = FALSE
    /\ installerBusy' = FALSE
    /\ UNCHANGED <<svars, ui, joinable, running, stopRequested, transferCancelRequested,
                   shown, configured, session, objvars, xfervars, instvars>>

\* installWorker.join(): the worker reads the stream and pendingName of this frame.
JoinInstaller ==
    /\ ustep = "join" /\ pstep = "closed" /\ istep = "done"
    /\ ustep' = "answer"
    /\ homeBlocked' = FALSE
    /\ installerBusy' = FALSE
    /\ UNCHANGED <<svars, ui, joinable, running, stopRequested, transferCancelRequested,
                   shown, configured, session, objvars, xfervars, instvars>>

Short == pendingSize # SizeUnknown /\ totalReceived # pendingSize

\* SendObject returns: its locals, the stream among them, are gone, and the
\* variables stand for those of the next transfer.
FrameEnds ==
    /\ NewStream
    /\ left' = 0 /\ totalReceived' = 0 /\ readFailed' = FALSE
    /\ istep' = "none" /\ need' = 0 /\ installed' = FALSE

\* Stop, cancel, a failed or short read, or an installer that failed.  (The
\* installer's own failure is answered even when the host has gone.)
AnswerFailure ==
    /\ ustep = "answer"
    /\ \/ stopRequested \/ transferCancelRequested
       \/ readFailed \/ ~pok \/ Short
       \/ ~installed
    /\ failTransfer
    /\ FrameEnds
    /\ UNCHANGED <<ui, joinable, running, stopRequested, installerBusy, configured, session>>

AnswerOk ==
    /\ ustep = "answer"
    /\ ~stopRequested /\ ~transferCancelRequested
    /\ ~readFailed /\ pok /\ ~Short /\ installed
    /\ shown' = "Connected"
    /\ resetPendingObject
    /\ FrameEnds
    /\ ustep' = "idle"
    /\ UNCHANGED <<ui, joinable, running, stopRequested, installerBusy, homeBlocked,
                   configured, session>>

-----------------------------------------------------------------------------
(* The installer worker                                                    *)

notInstaller == <<ui, joinable, ustep, flagvars, homeBlocked, configured, session,
                  objvars, xfervars>>

InstallerStarts ==
    /\ istep = "start"
    /\ istep' = "run"
    /\ shown' = "Installing"
    /\ UNCHANGED <<svars, notInstaller, need, installed>>

InstallerReads(n) ==
    /\ istep = "run" /\ consumed + n <= need
    /\ CallReadExact(n)
    /\ istep' = "reading"
    /\ UNCHANGED <<notInstaller, shown, need, installed>>

InstallerReadReturned ==
    /\ istep = "reading" /\ cstep = "idle"
    /\ istep' = IF cok THEN "run" ELSE "finish"
    /\ UNCHANGED <<svars, notInstaller, shown, need, installed>>

\* The package is refused, the console runs out of space, the user interrupts.
InstallerGivesUp ==
    /\ istep = "run"
    /\ istep' = "finish"
    /\ UNCHANGED <<svars, notInstaller, shown, need, installed>>

InstallerSucceeds ==
    /\ istep = "run" /\ consumed = need
    /\ installed' = TRUE
    /\ istep' = "finish"
    /\ UNCHANGED <<svars, notInstaller, shown, need>>

InstallerFinishes ==
    /\ istep = "finish"
    /\ \/ FinishConsumer /\ UNCHANGED istep
       \/ cstep = "finished" /\ istep' = "done" /\ UNCHANGED svars
    /\ UNCHANGED <<notInstaller, shown, need, installed>>

-----------------------------------------------------------------------------
(* The cable, and the composition                                          *)

Cable ==
    /\ configured' = ~configured
    /\ UNCHANGED <<svars, ui, joinable, ustep, flagvars, homeBlocked, shown, session,
                   objvars, xfervars, instvars>>

notStream == <<ui, joinable, ustep, flagvars, homeBlocked, shown, configured,
               session, objvars, xfervars, instvars>>

HostCommand ==
    \/ OpenOrCloseSession
    \/ \E size \in (0..MaxObject) \cup {SizeUnknown} : SendObjectInfo(size)
    \/ DeleteObject
    \/ SendObject
    \/ ClassRequest

\* What the USB thread does of its own accord.
UsbThread ==
    \/ InitializeUsb \/ CommandLoopEnds \/ WaitForConfigured
    \/ ustep = "idle" /\ (stopRequested \/ ~configured \/ transferCancelRequested)
                      /\ ConnectionEnds
    \/ (stopRequested \/ ~configured \/ transferCancelRequested) /\ HeaderRefused
    \/ ReceiveEnds
    \/ GivesUp /\ ReceiveFails
    \/ (InPush \/ ProducerNotifies) /\ UNCHANGED notStream
    \/ PushReturned \/ EndStream \/ JoinInstaller \/ AnswerFailure \/ AnswerOk

Installer ==
    \/ InstallerStarts
    \/ \E n \in 1..MaxObject : InstallerReads(n)
    \/ InstallerReadReturned \/ InstallerGivesUp \/ InstallerSucceeds
    \/ InstallerFinishes
    \/ (InRead \/ ConsumerNotifies) /\ UNCHANGED notStream

Environment ==
    \/ HostCommand
    \/ Cable
    \/ ConnectionEnds
    \/ HeaderRefused \/ LengthMismatch
    \/ ReceiveFails
    \/ \E object \in 0..MaxObject : BeginTransfer(object)
    \/ \E n \in 1..MaxObject : ReceiveChunk(n)
    \/ SpuriousWakeup /\ UNCHANGED notStream

Caller == Start \/ Stop \/ StopJoins

Terminated == ui = "terminated" /\ UNCHANGED vars

Next == \/ ui # "terminated" /\ (Caller \/ UsbThread \/ Installer \/ Environment)
        \/ Terminated

\* The two threads and the caller are scheduled; the host owes nothing.
Fairness == /\ WF_vars(ui # "terminated" /\ UsbThread)
            /\ WF_vars(ui # "terminated" /\ Installer)
            /\ WF_vars(ui # "terminated" /\ StopJoins)

Spec == Init /\ [][Next]_vars /\ Fairness

-----------------------------------------------------------------------------
(* Properties                                                              *)

\* A package that was installed is reported as installed: a transfer of known
\* size whose installer succeeded is answered RES_OK, unless stop came before
\* the flags were read again after the join.  (With an unknown size the
\* installer may be done before the short packet that ends the object.)
AnswerHonest ==
    [][ustep = "answer" /\ ustep' = "idle" /\ installed =>
          shown' = "Connected" \/ stopRequested \/ pendingSize = SizeUnknown]_vars

\* The worker lives inside SendObject: while it runs, its stream, the pending
\* object it names and installerBusy are in place, and HOME is blocked only then.
WorkerInFrame ==
    /\ istep \notin {"none", "done"} =>
          ustep \in {"receive", "push", "close", "join"} /\ installerBusy /\ pendingValid
    /\ homeBlocked => installerBusy
    /\ installerBusy => ustep \in {"receive", "push", "close", "join"}

\* Once stop has returned nothing of the server is left: no thread, no worker,
\* HOME free, whatever the threads were doing when it was called.
StoppedIsQuiet ==
    ui = "idle" /\ shown = "Stopped" =>
        /\ ustep = "none" /\ ~running /\ ~joinable
        /\ istep \in {"none", "done"} /\ ~installerBusy /\ ~homeBlocked

\* How the caller's view and the USB thread fit together: with the two
\* invariants above, this is inductive.
Threads ==
    /\ ustep # "none" => running /\ joinable
    /\ ustep # "none" /\ stopRequested => ui = "joining"
    /\ ustep = "none" /\ ui # "terminated" => ~running
    /\ ustep \in {"header", "receive", "push", "close", "join"} => pendingValid
    /\ ustep \in {"receive", "push", "close", "join"} => installerBusy

FrameInv == WorkerInFrame /\ StoppedIsQuiet /\ Threads

\* How the counters of a transfer fit together, which AnswerHonest rests on: no
\* transfer has left anything behind; what push has accepted is what the USB
\* thread has counted, but for the push in progress; and a transfer of known
\* size that stopped for any reason but completion or stop() is short of bytes.
Transferring == ustep \in {"receive", "push", "close", "join", "answer"}
Known == pendingSize # SizeUnknown

TransferTypes ==
    /\ pendingSize \in 0..MaxObject \cup {SizeUnknown}
    /\ left \in Nat /\ totalReceived \in Nat /\ need \in Nat

FreshFrame ==
    ~Transferring =>
        /\ pushed = 0 /\ consumed = 0 /\ totalReceived = 0
        /\ pstep = "idle" /\ istep = "none"
        /\ ~cancelledFlag /\ ~readFailed /\ ~installed

PushPlace ==
    /\ pok
    /\ cancelledFlag => pstep \in {"closing", "closed"}
    /\ pstep \in {"closing", "closed"} => ustep \in {"join", "answer"}
    /\ ustep \in {"join", "answer"} => pstep \in {"closing", "closed"}
    /\ pstep \in {"lock", "asleep", "notify"} => ustep = "push"
    /\ pstep = "idle" => pleft = 0
    /\ consumed <= pushed

Counted ==
    Transferring =>
        /\ ustep # "push" => pushed = totalReceived
        /\ ustep = "push" => pushed + pleft = totalReceived + psize
        /\ Known => /\ need = pendingSize \/ (pendingSize = 0 /\ need > 0)
                    /\ totalReceived + left + (IF ustep = "push" THEN psize ELSE 0)
                          = pendingSize

ReaderPlace ==
    /\ cstep \in {"lock", "asleep", "notify"} => istep = "reading"
    /\ installed => istep \in {"finish", "done"} /\ consumed = need

ShortFall ==
    Transferring /\ Known =>
        /\ transferCancelRequested /\ ~stopRequested =>
              totalReceived < pendingSize /\ ustep # "push"
        /\ readFailed => totalReceived < pendingSize /\ ustep \in {"close", "join", "answer"}
        /\ ustep \in {"close", "join", "answer"} =>
              \/ stopRequested \/ transferCancelRequested \/ readFailed
              \/ totalReceived = pendingSize

TransferInv == /\ TransferTypes /\ FreshFrame /\ PushPlace /\ Counted
               /\ ReaderPlace /\ ShortFall

\* stop returns: neither thread can be left asleep or joined forever.
StopReturns == ui = "joining" ~> ui = "idle"

\* A transfer ends: when its first byte has come even if the host falls silent,
\* and when it is cancelled in any case.  (Before the first byte a host that stays
\* connected and says nothing holds it open, until the user stops the server.)
TransferEnds ==
    installerBusy /\ (totalReceived > 0 \/ transferCancelRequested) ~> ~installerBusy

\* The stream is a bounded first-in first-out queue.
IsByteStream == Bytes!Spec
=============================================================================
