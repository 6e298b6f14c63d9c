------------------------- MODULE UpdateTransaction -------------------------
(***************************************************************************)
(* What the self-update promises its user: a transaction on the installed  *)
(* application.  At every instant there is a complete version to run or to *)
(* restore; a transaction ends committed, with the new version, or         *)
(* reverted, and the outcome is final once it is decided.                  *)
(***************************************************************************)
VARIABLES
    phase,      \* "idle", "open", "committed" or "reverted"
    installed   \* the version in place, or the one a restart brings back

Init == phase = "idle" /\ installed = "Old"

\* A new transaction; what is installed is the old version from now on.
Open ==
    /\ phase = "idle"
    /\ phase' \in {"idle", "open"}
    /\ installed' = "Old"

\* While it is open either version may be brought in.
Replace ==
    /\ phase = "open"
    /\ installed' \in {"Old", "New"}
    /\ UNCHANGED phase

Commit ==
    /\ phase = "open"
    /\ installed = "New"
    /\ phase' = "committed"
    /\ UNCHANGED installed

Revert ==
    /\ phase = "open"
    /\ phase' = "reverted"
    /\ UNCHANGED installed

Close ==
    /\ phase \in {"committed", "reverted"}
    /\ phase' = "idle"
    /\ UNCHANGED installed

Next == Open \/ Replace \/ Commit \/ Revert \/ Close

Spec == Init /\ [][Next]_<<phase, installed>>
=============================================================================
