------------------------------ MODULE Journal ------------------------------
(***************************************************************************)
(* The update journal of the payload: the pair of files state / state.tmp  *)
(* that write_state replaces and read_state reads (aio_app_updater.c; the  *)
(* copy in aio_cfw_updater.c differs only in taking a short first write    *)
(* for a complete one).  One write is a sequence of FatFs calls, each of   *)
(* which may return an error, and the console may lose power between any   *)
(* two.                                                                    *)
(*                                                                         *)
(* A file is "Absent", "Empty" (created, its size not yet on the card),    *)
(* "Partial" (a proper prefix of a record) or holds one of Values.         *)
(***************************************************************************)
EXTENDS Naturals

CONSTANTS
    Values,     \* the records the journal is given
    Faults,     \* the kinds of I/O error the card may return
    MaxFaults   \* how many of them (a bound for TLC)

\* "write": a call fails and the file it was writing is empty or complete;
\* "partial": a data write fails half way and f_close keeps the prefix;
\* "read": a file that is there cannot be opened, read or examined;
\* "short": the card is full and a data write returns FR_OK with nothing written;
\* "reboot": a restart request is refused.
FaultKinds == {"write", "partial", "read", "short", "reboot"}

Blank == {"Absent", "Empty"}

ASSUME JournalAssumption ==
    /\ Faults \subseteq FaultKinds
    /\ Values \cap (Blank \cup {"Partial", "none"}) = {}
    /\ MaxFaults \in Nat

VARIABLES
    state,      \* contents of  .../state
    tmp,        \* contents of  .../state.tmp
    wstep,      \* the FatFs call write_state makes next, or its result
    wval,       \* the record being written
    faults      \* I/O errors so far

Records == Values \cup Blank \cup {"Partial"}
WriteSteps == {"mkdir", "clear", "open", "sync", "drop", "rename", "ok", "fail"}

Fault(kind) == /\ kind \in Faults
               /\ faults < MaxFaults
               /\ faults' = faults + 1
NoFault == faults' = faults

\* read_state_from: an empty or missing file gives no record, a torn one does.
Readable(file) == file \notin Blank

\* read_state: the journal proper first, then the temporary file.
read_state == IF Readable(state) THEN state
              ELSE IF Readable(tmp) THEN tmp ELSE "none"

\* What read_state returns when opening or reading one of the two files fails.
MisreadState == {IF Readable(tmp) THEN tmp ELSE "none",
                 IF Readable(state) THEN state ELSE "none", "none"}

-----------------------------------------------------------------------------
(* write_state(wval), one action per call.                                 *)

\* A failing call returns at once; a failing removal of state.tmp is ignored.
WriteMkdir ==
    /\ wstep = "mkdir"
    /\ \/ NoFault /\ wstep' = "clear"
       \/ Fault("write") /\ wstep' = "fail"
    /\ UNCHANGED <<state, tmp>>

\* Mutant: both files are cleared first.
WriteClearBoth ==
    /\ wstep = "clear"
    /\ wstep' = "open"
    /\ tmp' = "Absent" /\ state' = "Absent"
    /\ NoFault

WriteClear ==
    /\ wstep = "clear"
    /\ wstep' = "open"
    /\ \/ NoFault /\ tmp' = "Absent"
       \/ Fault("write") /\ tmp' \in {tmp, "Absent"}
    /\ UNCHANGED state

WriteOpen ==
    /\ wstep = "open"
    /\ \/ NoFault /\ tmp' = "Empty" /\ wstep' = "sync"
       \/ Fault("write") /\ tmp' \in {tmp, "Empty"} /\ wstep' = "fail"
    /\ UNCHANGED state

\* Mutant: the result of the data write is not looked at.
WriteSyncUnchecked ==
    /\ wstep = "sync"
    /\ wstep' = "drop"
    /\ \/ NoFault /\ tmp' = wval
       \/ Fault("write") /\ tmp' \in {"Empty", wval}
       \/ Fault("partial") /\ tmp' = "Partial"
    /\ UNCHANGED state

\* The record and its newline, f_sync and f_close.  The size reaches the card
\* with the sync, so a failing write leaves nothing, all of it (the newline or
\* the first sync failed, the close repeated the sync) or a prefix.
WriteSync ==
    /\ wstep = "sync"
    /\ \/ NoFault /\ tmp' = wval /\ wstep' = "drop"
       \/ Fault("write") /\ tmp' \in {"Empty", wval} /\ wstep' = "fail"
       \/ Fault("partial") /\ tmp' = "Partial" /\ wstep' = "fail"
    /\ UNCHANGED state

WriteDrop ==
    /\ wstep = "drop"
    /\ \/ NoFault /\ state' = "Absent" /\ wstep' = "rename"
       \/ Fault("write") /\ state' \in {state, "Absent"} /\ wstep' = "fail"
    /\ UNCHANGED tmp

\* Mutant: the temporary file is copied and not moved.
WriteRenameCopies ==
    /\ wstep = "rename"
    /\ state' = tmp /\ tmp' = tmp /\ wstep' = "ok"
    /\ NoFault

\* A failing f_rename is taken to leave both names as they were.
WriteRename ==
    /\ wstep = "rename"
    /\ \/ NoFault /\ state' = tmp /\ tmp' = "Absent" /\ wstep' = "ok"
       \/ Fault("write") /\ UNCHANGED <<state, tmp>> /\ wstep' = "fail"

WriteStep == WriteMkdir \/ WriteClear \/ WriteOpen \/ WriteSync \/ WriteDrop
                \/ WriteRename

JournalTypeOK ==
    /\ state \in Records
    /\ tmp \in Records
    /\ wstep \in WriteSteps
    /\ faults \in 0..MaxFaults
=============================================================================
