--------------------------- MODULE JournalProofs ---------------------------
(***************************************************************************)
(* The journal's guarantees for every set of records, every kind and       *)
(* number of I/O errors and any number of power cuts.                      *)
(***************************************************************************)
EXTENDS JournalWriter, TLAPS

\* The inductive invariant holds when the card is first used.
LEMMA JournalInit == Init => JournalInv
<1> SUFFICES ASSUME Init PROVE JournalInv
    OBVIOUS
<1>0. solid \in BOOLEAN
      BY Zenon DEF Init
<1>1. TypeOK
  <2>1. JournalTypeOK
        BY JournalAssumption DEF Init, JournalTypeOK, Records, WriteSteps, Blank
  <2> QED BY <1>0, <2>1 DEF Init, TypeOK
<1>2. FilesFromWrites /\ Progress
      BY DEF Init, FilesFromWrites, Progress, Blank
<1>3. StateKept
      BY Zenon DEF Init, StateKept
<1> QED BY <1>1, <1>2, <1>3 DEF JournalInv

\* Each FatFs call of write_state, each return and each power cut keeps it.
LEMMA JournalStep == JournalInv /\ [Next]_jvars => JournalInv'
<1> SUFFICES ASSUME JournalInv, [Next]_jvars PROVE JournalInv'
    OBVIOUS
<1> USE JournalAssumption DEF JournalInv, TypeOK, JournalTypeOK, Records, WriteSteps,
        FilesFromWrites, Progress, StateKept, Blank, Readable, Fault, NoFault
<1>1. ASSUME NEW v \in Values, Begin(v) PROVE JournalInv'
      BY <1>1 DEF Begin
<1>2. CASE Step
  <2> USE <1>2 DEF Step
  <2>1. CASE WriteMkdir  BY <2>1 DEF WriteMkdir
  <2>2. CASE WriteClear  BY <2>2 DEF WriteClear
  <2>3. CASE WriteOpen   BY <2>3 DEF WriteOpen
  <2>4. CASE WriteSync   BY <2>4 DEF WriteSync
  <2>5. CASE WriteDrop   BY <2>5 DEF WriteDrop
  <2>6. CASE WriteRename BY <2>6 DEF WriteRename
  <2> QED BY <2>1, <2>2, <2>3, <2>4, <2>5, <2>6 DEF WriteStep
<1>3. CASE Return
      BY <1>3 DEF Return
<1>4. CASE PowerLoss
      BY <1>4 DEF PowerLoss
<1>5. CASE UNCHANGED jvars
      BY <1>5 DEF jvars
<1> QED BY <1>1, <1>2, <1>3, <1>4, <1>5 DEF Next

\* What the invariant says of read_state.
LEMMA JournalInvImplies == JournalInv => NoStaleRecord /\ ReplaceKeepsJournal
  BY JournalAssumption DEF JournalInv, TypeOK, JournalTypeOK, Records, FilesFromWrites,
     StateKept, NoStaleRecord, ReplaceKeepsJournal, read_state, Readable, Blank

\* write_state: at each of its calls the state file and its temporary hold what
\* the call before left there, for any records, errors and power cuts.
THEOREM JournalAlways == Spec => []JournalInv
  BY JournalInit, JournalStep, PTL DEF Spec

\* write_state and read_state (aio_app_updater.c): no record older
\* than the last acknowledged one is ever read back.
THEOREM JournalNeverStale == Spec => []NoStaleRecord
  BY JournalInit, JournalStep, JournalInvImplies, PTL DEF Spec

\* write_state: replacing a readable journal never leaves none to read.
THEOREM JournalReplaceSafe == Spec => []ReplaceKeepsJournal
  BY JournalInit, JournalStep, JournalInvImplies, PTL DEF Spec

\* The state of the writer stays within its types.
THEOREM JournalTypes == Spec => []TypeOK
<1>1. JournalInv => TypeOK
      BY DEF JournalInv
<1> QED BY <1>1, JournalInit, JournalStep, PTL DEF Spec
=============================================================================
