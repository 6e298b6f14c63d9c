------------------------- MODULE WorkerPageProofs -------------------------
(***************************************************************************)
(* The page and its worker, for any archive: WorkerInv is inductive.       *)
(* Nothing here uses the fairness of the specification.                    *)
(***************************************************************************)
EXTENDS WorkerPage, TLAPS

\* The entries of an archive are a sequence, and it has some.
LEMMA EntryFacts ==
    /\ Len(Entries) \in Nat /\ Len(Entries) > 0
    /\ \A i \in 1 .. Len(Entries) : Entries[i] \in Entry
    /\ \A e \in Entry : \E i \in 1 .. Len(Entries) : Entries[i] = e
  BY WorkerAssumption DEF Entry

\* What is a flag stays one.
LEMMA FlagsKept ==
    ASSUME Flags, [Next]_vars
    PROVE  Flags'
<1> USE DEF Flags, WorkPages, Idle, ui, progress, card, local
<1>1. CASE Publish
  BY <1>1 DEF Publish
<1>2. CASE Open
  BY <1>2 DEF Open, Enter
<1>3. CASE Cancel
  BY <1>3 DEF Cancel
<1>4. CASE StartWork
  BY <1>4 DEF StartWork
<1>5. CASE FinishWork
  BY <1>5 DEF FinishWork, Finish, Enter, Release
<1>6. CASE LeaveDone
  BY <1>6 DEF LeaveDone, Enter
<1>7. CASE Probe
  BY <1>7 DEF Probe, removeTemporaryPortArchive, At, Goto
<1>8. CASE OpenOutput
  BY <1>8 DEF OpenOutput, At, Goto, Return
<1>9. CASE Transfer
  BY <1>9 DEF Transfer, At, Goto
<1>10. CASE JudgeTransfer
  BY <1>10 DEF JudgeTransfer, Goto, Return
<1>11. CASE CatchDownload
  BY <1>11 DEF CatchDownload, At, Goto, Return
<1>12. CASE Downloaded
  BY <1>12 DEF Downloaded, removeTemporaryPortArchive, Goto
<1>13. CASE EndWork
  BY <1>13 DEF EndWork, Goto
<1>14. CASE CheckArchive
  BY <1>14 DEF CheckArchive, At, Goto, Fail, SignatureSeen
<1>15. CASE Gate
  <2>1. failed' \in BOOLEAN
    BY <1>15 DEF Gate, Goto, Fail, Stop
  <2>. QED
    BY <1>15, <2>1 DEF Gate, At
<1>16. CASE AnswerDialog
  BY <1>16 DEF AnswerDialog, At, Goto
<1>17. CASE MeasureArchive
  BY <1>17 DEF MeasureArchive, At, Goto, Fail, Stop
<1>18. CASE NextEntry
  BY <1>18 DEF NextEntry, At, Goto, Fail, SetFile
<1>19. CASE WriteEntry
  BY <1>19 DEF WriteEntry, At, Goto, Fail, SetFile
<1>20. CASE AfterWalk
  <2>1. failed' \in BOOLEAN
    BY <1>20 DEF AfterWalk, Walked, Goto, Fail, Stop
  <2>2. ready' \in BOOLEAN
    BY <1>20 DEF AfterWalk, Walked
  <2>3. version' \in BOOLEAN
    BY <1>20 DEF AfterWalk, Walked
  <2>. QED
    BY <1>20, <2>1, <2>2, <2>3 DEF AfterWalk, Walked, At
<1>21. CASE CleanUpPort
  BY <1>21 DEF CleanUpPort, removeTemporaryPortArchive, At, Goto
<1>22. CASE UNCHANGED vars
  BY <1>22 DEF vars, local
<1>23. CASE AnswerHekate
  BY <1>23 DEF AnswerHekate, At, Goto
<1> HIDE DEF Flags
<1>. QED
  BY <1>1, <1>2, <1>3, <1>4, <1>5, <1>6, <1>7, <1>8, <1>9, <1>10, <1>11, <1>12, <1>13,
      <1>14, <1>15, <1>16, <1>17, <1>18, <1>19, <1>20, <1>21, <1>22, <1>23 DEF Next, UI,
      Worker, Download, Extract, User

\* Every step of the page, the worker and the user keeps the types.
LEMMA WorkTypes ==
    ASSUME TypeOK, Threads, ArchiveKnown, WalkSound, [Next]_vars
    PROVE  TypeOK'
<1> USE EntryFacts, FlagsKept
    DEF TypeOK, WalkSound, WorkPages, Idle, ui, progress, card, local
<1>1. CASE Publish
  BY <1>1 DEF Publish
<1>2. CASE Open
  BY <1>2 DEF Open, Enter
<1>3. CASE Cancel
  BY <1>3 DEF Cancel
<1>4. CASE StartWork
  BY <1>4 DEF StartWork
<1>5. CASE FinishWork
  BY <1>5 DEF FinishWork, Finish, Enter, Release
<1>6. CASE LeaveDone
  BY <1>6 DEF LeaveDone, Enter
<1>7. CASE Probe
  BY <1>7 DEF Probe, removeTemporaryPortArchive, At, Goto
<1>8. CASE OpenOutput
  BY <1>8 DEF OpenOutput, At, Goto, Return
<1>9. CASE Transfer
  BY <1>9 DEF Transfer, At, Goto
<1>10. CASE JudgeTransfer
  BY <1>10 DEF JudgeTransfer, Goto, Return
<1>11. CASE CatchDownload
  BY <1>11 DEF CatchDownload, At, Goto, Return
<1>12. CASE Downloaded
  BY <1>12 DEF Downloaded, removeTemporaryPortArchive, Goto
<1>13. CASE EndWork
  BY <1>13 DEF EndWork, Goto
<1>14. CASE CheckArchive
  BY <1>14 DEF CheckArchive, At, Goto, Fail, SignatureSeen
<1>15. CASE Gate
  BY <1>15 DEF Gate, At, Goto, Fail, Stop
<1>16. CASE AnswerDialog
  BY <1>16 DEF AnswerDialog, At, Goto
<1>17. CASE MeasureArchive
  BY <1>17 DEF MeasureArchive, At, Goto, Fail, Stop
<1>18. CASE NextEntry
  BY <1>18 DEF NextEntry, At, Goto, Fail, SetFile
<1>19. CASE WriteEntry
  BY <1>19 DEF WriteEntry, At, Goto, Fail, SetFile
<1>20. CASE AfterWalk
  BY <1>20 DEF AfterWalk, Walked, At, Goto, Fail, Stop
<1>21. CASE CleanUpPort
  BY <1>21 DEF CleanUpPort, removeTemporaryPortArchive, At, Goto
<1>22. CASE UNCHANGED vars
  BY <1>22 DEF vars, local
<1>23. CASE AnswerHekate
  BY <1>23 DEF AnswerHekate, At, Goto
<1> HIDE DEF TypeOK, WalkSound
<1>. QED
  BY <1>1, <1>2, <1>3, <1>4, <1>5, <1>6, <1>7, <1>8, <1>9, <1>10, <1>11, <1>12, <1>13,
      <1>14, <1>15, <1>16, <1>17, <1>18, <1>19, <1>20, <1>21, <1>22, <1>23 DEF Next, UI,
      Worker, Download, Extract, User

\* A worker runs only behind the page that started it, whose draw joins it before it
\* leaves and gives HOME back.
LEMMA ThreadsKept ==
    ASSUME TypeOK, TypeOK', Threads, [Next]_vars
    PROVE  Threads'
<1> USE EntryFacts
    DEF TypeOK, Flags, Threads, Downloading, Extracting, WorkPages, Idle, ui,
        progress, card, local
<1>1. CASE Publish
  BY <1>1 DEF Publish
<1>2. CASE Open
  BY <1>2 DEF Open, Enter
<1>3. CASE Cancel
  BY <1>3 DEF Cancel
<1>4. CASE StartWork
  BY <1>4 DEF StartWork
<1>5. CASE FinishWork
  BY <1>5 DEF FinishWork, Finish, Enter, Release
<1>6. CASE LeaveDone
  BY <1>6 DEF LeaveDone, Enter
<1>7. CASE Probe
  BY <1>7 DEF Probe, removeTemporaryPortArchive, At, Goto
<1>8. CASE OpenOutput
  BY <1>8 DEF OpenOutput, At, Goto, Return
<1>9. CASE Transfer
  BY <1>9 DEF Transfer, At, Goto
<1>10. CASE JudgeTransfer
  BY <1>10 DEF JudgeTransfer, Goto, Return
<1>11. CASE CatchDownload
  BY <1>11 DEF CatchDownload, At, Goto, Return
<1>12. CASE Downloaded
  BY <1>12 DEF Downloaded, removeTemporaryPortArchive, Goto
<1>13. CASE EndWork
  BY <1>13 DEF EndWork, Goto
<1>14. CASE CheckArchive
  BY <1>14 DEF CheckArchive, At, Goto, Fail, SignatureSeen
<1>15. CASE Gate
  BY <1>15 DEF Gate, At, Goto, Fail, Stop
<1>16. CASE AnswerDialog
  BY <1>16 DEF AnswerDialog, At, Goto
<1>17. CASE MeasureArchive
  BY <1>17 DEF MeasureArchive, At, Goto, Fail, Stop
<1>18. CASE NextEntry
  BY <1>18 DEF NextEntry, At, Goto, Fail, SetFile
<1>19. CASE WriteEntry
  BY <1>19 DEF WriteEntry, At, Goto, Fail, SetFile
<1>20. CASE AfterWalk
  BY <1>20 DEF AfterWalk, Walked, At, Goto, Fail, Stop
<1>21. CASE CleanUpPort
  BY <1>21 DEF CleanUpPort, removeTemporaryPortArchive, At, Goto
<1>22. CASE UNCHANGED vars
  BY <1>22 DEF vars, local
<1>23. CASE AnswerHekate
  BY <1>23 DEF AnswerHekate, At, Goto
<1> HIDE DEF TypeOK, Flags, Threads, Downloading, Extracting
<1>. QED
  BY <1>1, <1>2, <1>3, <1>4, <1>5, <1>6, <1>7, <1>8, <1>9, <1>10, <1>11, <1>12, <1>13,
      <1>14, <1>15, <1>16, <1>17, <1>18, <1>19, <1>20, <1>21, <1>22, <1>23 DEF Next, UI,
      Worker, Download, Extract, User

\* Whatever is cancelled, fails or is published in between, the page that extracts is
\* reached with what this visit downloaded.
LEMMA ArchiveKept ==
    ASSUME TypeOK, TypeOK', Threads, ArchiveKnown, [Next]_vars
    PROVE  ArchiveKnown'
<1> USE EntryFacts
    DEF TypeOK, Flags, Threads, Downloading, Extracting, ArchiveKnown, Arrived,
        Spoilt, WorkPages, Idle, ui, progress, card, local
<1>1. CASE Publish
  BY <1>1 DEF Publish
<1>2. CASE Open
  BY <1>2 DEF Open, Enter
<1>3. CASE Cancel
  BY <1>3 DEF Cancel
<1>4. CASE StartWork
  BY <1>4 DEF StartWork
<1>5. CASE FinishWork
  BY <1>5 DEF FinishWork, Finish, Enter, Release
<1>6. CASE LeaveDone
  BY <1>6 DEF LeaveDone, Enter
<1>7. CASE Probe
  BY <1>7 DEF Probe, removeTemporaryPortArchive, At, Goto
<1>8. CASE OpenOutput
  BY <1>8 DEF OpenOutput, At, Goto, Return
<1>9. CASE Transfer
  BY <1>9 DEF Transfer, At, Goto
<1>10. CASE JudgeTransfer
  BY <1>10 DEF JudgeTransfer, Goto, Return
<1>11. CASE CatchDownload
  BY <1>11 DEF CatchDownload, At, Goto, Return
<1>12. CASE Downloaded
  BY <1>12 DEF Downloaded, removeTemporaryPortArchive, Goto
<1>13. CASE EndWork
  BY <1>13 DEF EndWork, Goto
<1>14. CASE CheckArchive
  BY <1>14 DEF CheckArchive, At, Goto, Fail, SignatureSeen
<1>15. CASE Gate
  BY <1>15 DEF Gate, At, Goto, Fail, Stop
<1>16. CASE AnswerDialog
  BY <1>16 DEF AnswerDialog, At, Goto
<1>17. CASE MeasureArchive
  BY <1>17 DEF MeasureArchive, At, Goto, Fail, Stop
<1>18. CASE NextEntry
  BY <1>18 DEF NextEntry, At, Goto, Fail, SetFile
<1>19. CASE WriteEntry
  BY <1>19 DEF WriteEntry, At, Goto, Fail, SetFile
<1>20. CASE AfterWalk
  BY <1>20 DEF AfterWalk, Walked, At, Goto, Fail, Stop
<1>21. CASE CleanUpPort
  BY <1>21 DEF CleanUpPort, removeTemporaryPortArchive, At, Goto
<1>22. CASE UNCHANGED vars
  BY <1>22 DEF vars, local
<1>23. CASE AnswerHekate
  BY <1>23 DEF AnswerHekate, At, Goto
<1> HIDE DEF TypeOK, Flags, Threads, Downloading, Extracting, ArchiveKnown, Arrived, Spoilt
<1>. QED
  BY <1>1, <1>2, <1>3, <1>4, <1>5, <1>6, <1>7, <1>8, <1>9, <1>10, <1>11, <1>12, <1>13,
      <1>14, <1>15, <1>16, <1>17, <1>18, <1>19, <1>20, <1>21, <1>22, <1>23 DEF Next, UI,
      Worker, Download, Extract, User

\* What the walk over the entries has passed is whole or is kept, until it is spoilt;
\* what is spoilt stays so until the page is left.
LEMMA WalkKept ==
    ASSUME TypeOK, TypeOK', Threads, ArchiveKnown, WalkSound, [Next]_vars
    PROVE  WalkSound'
<1> USE EntryFacts
    DEF TypeOK, Flags, Threads, Downloading, Extracting, ArchiveKnown, Arrived,
        Spoilt, WalkSound, Extracted, Kept, WorkPages, Idle, ui, progress, card, local
<1>1. CASE Publish
  BY <1>1 DEF Publish
<1>2. CASE Open
  BY <1>2 DEF Open, Enter
<1>3. CASE Cancel
  BY <1>3 DEF Cancel
<1>4. CASE StartWork
  BY <1>4 DEF StartWork
<1>5. CASE FinishWork
  BY <1>5 DEF FinishWork, Finish, Enter, Release
<1>6. CASE LeaveDone
  BY <1>6 DEF LeaveDone, Enter
<1>7. CASE Probe
  BY <1>7 DEF Probe, removeTemporaryPortArchive, At, Goto
<1>8. CASE OpenOutput
  BY <1>8 DEF OpenOutput, At, Goto, Return
<1>9. CASE Transfer
  BY <1>9 DEF Transfer, At, Goto
<1>10. CASE JudgeTransfer
  BY <1>10 DEF JudgeTransfer, Goto, Return
<1>11. CASE CatchDownload
  BY <1>11 DEF CatchDownload, At, Goto, Return
<1>12. CASE Downloaded
  BY <1>12 DEF Downloaded, removeTemporaryPortArchive, Goto
<1>13. CASE EndWork
  BY <1>13 DEF EndWork, Goto
<1>14. CASE CheckArchive
  BY <1>14 DEF CheckArchive, At, Goto, Fail, SignatureSeen
<1>15. CASE Gate
  BY <1>15 DEF Gate, At, Goto, Fail, Stop
<1>16. CASE AnswerDialog
  BY <1>16 DEF AnswerDialog, At, Goto
<1>17. CASE MeasureArchive
  BY <1>17 DEF MeasureArchive, At, Goto, Fail, Stop
<1>18. CASE NextEntry
  <2>1. CASE interrupt \/ next > Len(Entries)
    <3>1. next > Len(Entries) => \A e \in Entry : Extracted(e)
      BY <1>18 DEF NextEntry, At
    <3>2. (\A e \in Entry : Extracted(e)) => \A e \in Entry : Extracted(e)'
      BY <1>18, <2>1 DEF NextEntry, At
    <3>3. interrupt => Spoilt'
      BY <1>18 DEF NextEntry
    <3>4. Spoilt' \/ \A e \in Entry : Extracted(e)'
      BY <2>1, <3>1, <3>2, <3>3
    <3>5. worker' = "walked" /\ UNCHANGED <<page, kind, ready, files, next>>
      BY <1>18, <2>1 DEF NextEntry, At, Goto
    <3> HIDE DEF Extracted, Kept, Spoilt, ArchiveKnown
    <3>. QED
      BY <1>18, <3>4, <3>5 DEF NextEntry, At
  <2>2. CASE Kept(Entries[next]) /\ next' = next + 1 /\ UNCHANGED <<worker, failed, files>>
    BY <1>18, <2>2 DEF NextEntry, At
  <2>3. CASE ~Kept(Entries[next]) /\ next <= Len(Entries) /\ SetFile("torn") /\
      Goto("write") /\ UNCHANGED <<failed, next>>
    <3>1. \A e \in Entry : files'[e] = IF e = Entries[next] THEN "torn" ELSE files[e]
      BY <1>18, <2>3 DEF SetFile
    <3>. QED
      BY <1>18, <2>3, <3>1 DEF NextEntry, At, Goto
  <2>4. CASE Fail /\ UNCHANGED <<next, files>>
    BY <1>18, <2>4 DEF NextEntry, At, Goto, Fail
  <2>. HIDE DEF Extracted, Kept, SetFile, WalkSound, TypeOK, Threads, ArchiveKnown
  <2>5. next \in Nat
    BY DEF TypeOK
  <2>. QED
    BY <1>18, <2>1, <2>2, <2>3, <2>4, <2>5 DEF NextEntry
<1>19. CASE WriteEntry
  <2>1. CASE interrupt /\ Goto("walked") /\ UNCHANGED <<failed, next, files>>
    BY <1>19, <2>1 DEF WriteEntry, At, Goto
  <2>2. CASE ~interrupt /\ Goto("entry") /\ next' = next + 1 /\ SetFile(IF archive =
      "fresh" THEN "new" ELSE "old")
    <3>1. \A e \in Entry : files'[e] = IF e = Entries[next] THEN IF archive = "fresh"
        THEN "new" ELSE "old" ELSE files[e]
      BY <1>19, <2>2 DEF SetFile
    <3>2. \A e \in Entry : e = Entries[next] => Extracted(e)'
      <4>1. archive = "fresh" \/ (archive = "old" /\ kind = "cheats")
        BY <1>19 DEF WriteEntry, At
      <4>2. files'[Entries[next]] = IF archive = "fresh" THEN "new" ELSE "old"
        BY <1>19, <3>1 DEF WriteEntry, At
      <4>. QED
        BY <1>19, <4>1, <4>2 DEF WriteEntry, At
    <3>3. \A i \in 1 .. next' - 1 : Extracted(Entries[i])'
      BY <1>19, <2>2, <3>1, <3>2 DEF WriteEntry, At
    <3>. QED
      BY <1>19, <2>2, <3>1, <3>3 DEF WriteEntry, At, Goto
  <2>3. CASE Fail /\ UNCHANGED <<next, files>>
    BY <1>19, <2>3 DEF WriteEntry, At, Goto, Fail
  <2>4. CASE /\ ~interrupt /\ Goto("hekate") /\ UNCHANGED next
             /\ kind \in {"custom", "ports"}
             /\ SetFile(IF archive = "fresh" THEN "new" ELSE "old")
    <3>1. \A e \in Entry : files'[e] = IF e = Entries[next] THEN IF archive = "fresh"
        THEN "new" ELSE "old" ELSE files[e]
      BY <1>19, <2>4 DEF SetFile
    <3>2. \A e \in Entry : e = Entries[next] => Extracted(e)'
      <4>1. archive = "fresh"
        BY <1>19, <2>4 DEF WriteEntry, At
      <4>2. files'[Entries[next]] = "new"
        BY <1>19, <3>1, <4>1 DEF WriteEntry, At
      <4>. QED
        BY <1>19, <4>1, <4>2 DEF WriteEntry, At
    <3>3. \A i \in 1 .. next' : Extracted(Entries[i])'
      BY <1>19, <2>4, <3>1, <3>2 DEF WriteEntry, At
    <3>. QED
      BY <1>19, <2>4, <3>1, <3>3 DEF WriteEntry, At, Goto
  <2>. QED
    BY <1>19, <2>1, <2>2, <2>3, <2>4 DEF WriteEntry
<1>20. CASE AfterWalk
  BY <1>20 DEF AfterWalk, Walked, At, Goto, Fail, Stop
<1>21. CASE CleanUpPort
  BY <1>21 DEF CleanUpPort, removeTemporaryPortArchive, At, Goto
<1>22. CASE UNCHANGED vars
  BY <1>22 DEF vars, local
<1>23. CASE AnswerHekate
  BY <1>23 DEF AnswerHekate, At, Goto
<1> HIDE DEF TypeOK, Flags, Threads, Downloading, Extracting, ArchiveKnown, Arrived,
    Spoilt, WalkSound, Extracted, Kept
<1>. QED
  BY <1>1, <1>2, <1>3, <1>4, <1>5, <1>6, <1>7, <1>8, <1>9, <1>10, <1>11, <1>12, <1>13,
      <1>14, <1>15, <1>16, <1>17, <1>18, <1>19, <1>20, <1>21, <1>22, <1>23 DEF Next, UI,
      Worker, Download, Extract, User

\* The marker is written, and stays, only beside a complete application.
LEMMA ReadyKept ==
    ASSUME TypeOK, TypeOK', Threads, WalkSound, ReadyMeansStaged, [Next]_vars
    PROVE  ReadyMeansStaged'
<1> USE EntryFacts
    DEF TypeOK, Flags, Threads, Extracting, WalkSound, Spoilt, ReadyMeansStaged,
        WorkPages, Idle, ui, progress, card, local
<1>1. CASE Publish
  BY <1>1 DEF Publish
<1>2. CASE Open
  BY <1>2 DEF Open, Enter
<1>3. CASE Cancel
  BY <1>3 DEF Cancel
<1>4. CASE StartWork
  BY <1>4 DEF StartWork
<1>5. CASE FinishWork
  BY <1>5 DEF FinishWork, Finish, Enter, Release
<1>6. CASE LeaveDone
  BY <1>6 DEF LeaveDone, Enter
<1>7. CASE Probe
  BY <1>7 DEF Probe, removeTemporaryPortArchive, At, Goto
<1>8. CASE OpenOutput
  BY <1>8 DEF OpenOutput, At, Goto, Return
<1>9. CASE Transfer
  BY <1>9 DEF Transfer, At, Goto
<1>10. CASE JudgeTransfer
  BY <1>10 DEF JudgeTransfer, Goto, Return
<1>11. CASE CatchDownload
  BY <1>11 DEF CatchDownload, At, Goto, Return
<1>12. CASE Downloaded
  BY <1>12 DEF Downloaded, removeTemporaryPortArchive, Goto
<1>13. CASE EndWork
  BY <1>13 DEF EndWork, Goto
<1>14. CASE CheckArchive
  BY <1>14 DEF CheckArchive, At, Goto, Fail, SignatureSeen
<1>15. CASE Gate
  BY <1>15 DEF Gate, At, Goto, Fail, Stop
<1>16. CASE AnswerDialog
  BY <1>16 DEF AnswerDialog, At, Goto
<1>17. CASE MeasureArchive
  BY <1>17 DEF MeasureArchive, At, Goto, Fail, Stop
<1>18. CASE NextEntry
  BY <1>18 DEF NextEntry, At, Goto, Fail, SetFile
<1>19. CASE WriteEntry
  BY <1>19 DEF WriteEntry, At, Goto, Fail, SetFile
<1>20. CASE AfterWalk
  <2>1. kind = "app" /\ ~Spoilt => \A e \in Entry : files[e] \in {"old", "new"}
    BY <1>20 DEF AfterWalk, Walked, At, Extracted, Kept
  <2>2. CASE kind = "app" /\ ~Spoilt
    BY <1>20, <2>1, <2>2 DEF AfterWalk, Walked
  <2>3. CASE kind # "app"
    BY <1>20, <2>3 DEF AfterWalk, Walked
  <2>4. CASE kind = "app" /\ Spoilt
    <3>1. ~(~failed /\ status <= 399 /\ ~interrupt)
      BY <2>4
    <3>. QED
      BY <1>20, <2>4, <3>1 DEF AfterWalk, Walked
  <2>. QED
    BY <2>2, <2>3, <2>4
<1>21. CASE CleanUpPort
  BY <1>21 DEF CleanUpPort, removeTemporaryPortArchive, At, Goto
<1>22. CASE UNCHANGED vars
  BY <1>22 DEF vars, local
<1>23. CASE AnswerHekate
  BY <1>23 DEF AnswerHekate, At, Goto
<1> HIDE DEF TypeOK, Flags, Threads, Extracting, WalkSound, Spoilt, ReadyMeansStaged
<1>. QED
  BY <1>1, <1>2, <1>3, <1>4, <1>5, <1>6, <1>7, <1>8, <1>9, <1>10, <1>11, <1>12, <1>13,
      <1>14, <1>15, <1>16, <1>17, <1>18, <1>19, <1>20, <1>21, <1>22, <1>23 DEF Next, UI,
      Worker, Download, Extract, User

\* An application that has just been started.
LEMMA WorkInitially ==
    ASSUME Init
    PROVE  WorkerInv
<1> USE EntryFacts, WorkerAssumption DEF Init, WorkPages, Idle
<1>1. Flags
  BY DEF Flags
<1>2. TypeOK
  BY <1>1 DEF TypeOK
<1>3. Threads
  BY DEF Threads, Downloading, Extracting
<1>4. ArchiveKnown
  BY DEF ArchiveKnown
<1>5. WalkSound /\ ReadyMeansStaged
  BY DEF WalkSound, ReadyMeansStaged
<1>. QED
  BY <1>2, <1>3, <1>4, <1>5 DEF WorkerInv

\* Whatever the archive lists and however often the user cancels, comes back and
\* starts again, what the page believes of its worker is what is on the card.
THEOREM WorkerAlways == Spec => []WorkerInv
<1>1. Init => WorkerInv
  BY WorkInitially
<1>2. WorkerInv /\ [Next]_vars => WorkerInv'
  <2> SUFFICES ASSUME WorkerInv, [Next]_vars
               PROVE  WorkerInv'
    OBVIOUS
  <2>1. TypeOK'
    BY WorkTypes DEF WorkerInv
  <2>2. Threads'
    BY <2>1, ThreadsKept DEF WorkerInv
  <2>3. ArchiveKnown'
    BY <2>1, ArchiveKept DEF WorkerInv
  <2>4. WalkSound'
    BY <2>1, WalkKept DEF WorkerInv
  <2>5. ReadyMeansStaged'
    BY <2>1, ReadyKept DEF WorkerInv
  <2>. QED
    BY <2>1, <2>2, <2>3, <2>4, <2>5 DEF WorkerInv
<1>. QED
  BY <1>1, <1>2, PTL DEF Spec

\* HOME is blocked as long as a worker runs, and given back before the page is
\* left.
THEOREM WorkerBlocksHome == Spec => []HomeBlockedWhileWorking
<1>1. WorkerInv => HomeBlockedWhileWorking
  BY DEF WorkerInv, TypeOK, Threads, HomeBlockedWhileWorking
<1>. QED
  BY <1>1, WorkerAlways, PTL

\* The last page is reached only with every entry extracted or kept, and with a
\* recorded version only that of the files on the card.
THEOREM WorkerDoneMeansInstalled == Spec => []DoneMeansInstalled
<1>1. ASSUME WorkerInv
      PROVE  DoneMeansInstalled
  <2> SUFFICES ASSUME page = "done"
               PROVE  /\ \A e \in Entry : Extracted(e)
                      /\ version => \A e \in Entry : files[e] = "new"
    BY DEF DoneMeansInstalled, Extracted
  <2>1. \A e \in Entry : Extracted(e)
    BY <1>1 DEF WorkerInv, WalkSound
  <2>2. version => kind = "cheats" /\ archive # "old" /\ ~preserve
    BY <1>1 DEF WorkerInv, ArchiveKnown, Threads
  <2>. QED
    BY <2>1, <2>2 DEF Extracted, Kept
<1>. QED
  BY <1>1, WorkerAlways, PTL

\* The marker that arms the application's update stands beside a complete
\* application only.
THEOREM WorkerReadyMeansStaged == Spec => []ReadyMeansStaged
<1>1. WorkerInv => ReadyMeansStaged
  BY DEF WorkerInv
<1>. QED
  BY <1>1, WorkerAlways, PTL

\* What is written over the card is what this visit downloaded, whatever earlier
\* visits left there.
THEOREM WorkerFreshExtraction == Spec => []FreshExtraction
<1>1. WorkerInv => FreshExtraction
  BY DEF WorkerInv, Threads, ArchiveKnown, Arrived, FreshExtraction, Extracting
<1>. QED
  BY <1>1, WorkerAlways, PTL
=============================================================================
