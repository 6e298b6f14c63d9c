--------------------------- MODULE JournalWriter ---------------------------
(***************************************************************************)
(* The journal under an arbitrary client: any sequence of write_state      *)
(* calls, any I/O errors, power lost at any call.  What a restarted        *)
(* payload can read back is all it knows of the interrupted update.        *)
(***************************************************************************)
EXTENDS Journal

VARIABLES
    acked,      \* the last record whose write_state returned FR_OK
    since,      \* the records attempted after it
    solid       \* was `state' itself readable when the last write began?

jvars == <<state, tmp, wstep, wval, faults, acked, since, solid>>

Init ==
    /\ state = "Absent"
    /\ tmp = "Absent"
    /\ wstep = "mkdir"
    /\ wval = "none"
    /\ faults = 0
    /\ acked = "none"
    /\ since = {}
    /\ solid = FALSE

Begin(v) ==
    /\ wval = "none"
    /\ wval' = v
    /\ since' = since \cup {v}
    /\ solid' = Readable(state)
    /\ UNCHANGED <<state, tmp, wstep, faults, acked>>

Step ==
    /\ wval # "none"
    /\ WriteStep
    /\ UNCHANGED <<wval, acked, since, solid>>

Return ==
    /\ wstep \in {"ok", "fail"}
    /\ wval' = "none"
    /\ wstep' = "mkdir"
    /\ IF wstep = "ok" THEN acked' = wval /\ since' = {}
                       ELSE UNCHANGED <<acked, since>>
    /\ UNCHANGED <<state, tmp, faults, solid>>

PowerLoss ==
    /\ wval # "none"
    /\ wval' = "none"
    /\ wstep' = "mkdir"
    /\ UNCHANGED <<state, tmp, faults, acked, since, solid>>

Next == (\E v \in Values : Begin(v)) \/ Step \/ Return \/ PowerLoss

Spec == Init /\ [][Next]_jvars

-----------------------------------------------------------------------------
\* The state of the journal and of its writer.
TypeOK ==
    /\ JournalTypeOK
    /\ wval \in Values \cup {"none"}
    /\ acked \in Values \cup {"none"}
    /\ since \subseteq Values
    /\ solid \in BOOLEAN

\* Whatever the errors and power cuts, read_state never returns a record older
\* than the last acknowledged one: it gives that record, one of the records
\* whose write was tried since, a torn one, or nothing; and exactly the
\* acknowledged record when no write was tried since.
NoStaleRecord ==
    read_state \in IF since = {} THEN {acked}
                   ELSE since \cup {acked, "none", "Partial"}

\* A write_state that starts while `state' is readable leaves a readable
\* journal at every instant, whatever fails and wherever power is lost: the old
\* file goes only after the new one is complete.
ReplaceKeepsJournal == solid => read_state # "none"

-----------------------------------------------------------------------------
(* The inductive invariant behind the two safety properties.               *)

\* Where the two files' contents come from.
FilesFromWrites ==
    /\ state \in since \cup {acked, "Absent"}
    /\ tmp \in since \cup Blank \cup {"Partial"}
    /\ since = {} => tmp = "Absent" /\ state = IF acked = "none" THEN "Absent" ELSE acked

\* How far the write in flight has got.
Progress ==
    /\ wval = "none" => wstep = "mkdir"
    /\ wval # "none" => wval \in since
    /\ wstep \in {"drop", "rename"} => tmp = wval
    /\ wstep = "rename" => state = "Absent"
    /\ wstep = "ok" => state = wval /\ tmp = "Absent"

\* A write that found `state' readable still has it until the drop.
StateKept ==
    solid => /\ Readable(state) \/ Readable(tmp)
             /\ wval # "none" /\ wstep \in {"mkdir", "clear", "open", "sync", "drop"}
                    => Readable(state)

\* Together: what write_state has done to the two files, call by call.
JournalInv == TypeOK /\ FilesFromWrites /\ Progress /\ StateKept
=============================================================================
