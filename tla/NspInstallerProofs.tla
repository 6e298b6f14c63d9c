------------------------ MODULE NspInstallerProofs ------------------------
(***************************************************************************)
(* recoverStaleRealInstall undoes what an interrupted installation did,    *)
(* and nothing else: NspInv is inductive, for any titles and packages, any *)
(* number of failing calls and of power cuts. One lemma per part of the    *)
(* invariant, each with one step per call.                                 *)
(***************************************************************************)
EXTENDS NspInstaller, FiniteSetTheorems, TLAPS

\* The application record holds one entry per title and fits the buffer it is read
\* back into (64 entries).  The code does not check it: of an application with
\* more titles the rest is dropped, and InstalledKept with it.
FewTitles == IsFiniteSet(Titles) /\ Cardinality(Titles) <= MaxRecords

\* The whole record is read back then.
LEMMA WholeRecordListed ==
    ASSUME FewTitles, records \subseteq Titles, NEW kept \in SUBSET records,
           Cardinality(kept) = IF Cardinality(records) > MaxRecords
                               THEN MaxRecords ELSE Cardinality(records)
    PROVE  kept = records
<1>1. IsFiniteSet(records) /\ Cardinality(records) \in Nat /\ Cardinality(Titles) \in Nat
      /\ Cardinality(records) <= Cardinality(Titles)
  BY FS_Subset, FS_CardinalityType DEF FewTitles
<1>2. Cardinality(kept) = Cardinality(records)
  BY <1>1, NspAssumption DEF FewTitles
<1>. QED
  BY <1>1, <1>2, FS_Subset

\* Every call keeps the types, and no content is placeholder and registered at once.
LEMMA TypesKept ==
    ASSUME TypeOK, PlanSound, [Next]_vars
    PROVE  TypeOK'
<1> USE NspAssumption
    DEF TypeOK, PlanSound, At, Steps, console, plan, history, Fault, NoFault
<1>1. CASE \E t \in Titles, s \in BOOLEAN : Begin(t, s)
  BY <1>1 DEF Begin
<1>2. CASE SaveJournal
  <2>1. Record \in Journals
    BY DEF Record, Journals
  <2>2. Committed \subseteq Titles
    BY DEF Committed
  <2>. QED
    BY <1>2, <2>1, <2>2, ZenonT(40) DEF SaveJournal
<1>3. CASE SaveRename
  <2>1. Record \in Journals
    BY DEF Record, Journals
  <2>2. Committed \subseteq Titles
    BY DEF Committed
  <2>. QED
    BY <1>3, <2>1, <2>2 DEF SaveRename
<1>4. CASE RecoverNothing
  BY <1>4 DEF RecoverNothing, Recovered, Return, ForgetPlan
<1>5. CASE RecoverJournal
  BY <1>5 DEF RecoverJournal
<1>6. CASE RecoverFails
  BY <1>6 DEF RecoverFails, Return, ForgetPlan
<1>7. CASE RollbackMeta
  <2>1. CASE pc = "unset"
    BY <1>7, <2>1, ZenonT(40) DEF RollbackMeta
  <2>2. CASE pc = "uncommit"
    BY <1>7, <2>2, ZenonT(40) DEF RollbackMeta
  <2>. QED
    BY <1>7, <2>1, <2>2 DEF RollbackMeta
<1>8. CASE \E c \in Contents : RollbackContent(c)
  BY <1>8, ZenonT(40) DEF RollbackContent
<1>9. CASE ClearJournal
  BY <1>9 DEF ClearJournal, Recovered, Return, ForgetPlan
<1>10. CASE CheckFails
  BY <1>10 DEF CheckFails, Return, ForgetPlan
<1>11. CASE Plan
  BY <1>11 DEF Plan, Save, Refused, Contents
<1>12. CASE InstallFails
  BY <1>12 DEF InstallFails, failRollback
<1>13. CASE \E c \in Contents : SkipContent(c)
  BY <1>13 DEF SkipContent
<1>14. CASE \E c \in Contents : CreatePlaceHolder(c)
  BY <1>14 DEF CreatePlaceHolder, Save
<1>15. CASE WritePlaceHolder
  BY <1>15 DEF WritePlaceHolder
<1>16. CASE Register
  BY <1>16 DEF Register, Save
<1>17. CASE ContentsDone
  BY <1>17 DEF ContentsDone
<1>18. CASE StreamRefused
  BY <1>18 DEF StreamRefused, failRollback, Refused
<1>19. CASE AnnounceMeta
  BY <1>19 DEF AnnounceMeta, Save, Refused
<1>20. CASE SetMeta
  BY <1>20 DEF SetMeta
<1>21. CASE CommitMeta
  BY <1>21 DEF CommitMeta, Save
<1>22. CASE ImportTicket
  BY <1>22 DEF ImportTicket, Save
<1>23. CASE ListRecords
  BY <1>23 DEF ListRecords, Save
<1>24. CASE PushRecord
  BY <1>24 DEF PushRecord, Save
<1>25. CASE SaveComplete
  BY <1>25 DEF SaveComplete, Save
<1>26. CASE Complete
  BY <1>26 DEF Complete, Return, ForgetPlan
<1>27. CASE PowerLoss
  BY <1>27 DEF PowerLoss, ForgetPlan, Unjournalled
<1>28. CASE UNCHANGED vars
  BY <1>28 DEF vars, plan, history
<1> HIDE DEF TypeOK, PlanSound, At
<1>. QED
  BY <1>1, <1>2, <1>3, <1>4, <1>5, <1>6, <1>7, <1>8, <1>9, <1>10, <1>11, <1>12, <1>13,
      <1>14, <1>15, <1>16, <1>17, <1>18, <1>19, <1>20, <1>21, <1>22, <1>23, <1>24,
      <1>25, <1>26, <1>27, <1>28 DEF Next

\* Every call keeps the plan sound: nothing of the package is lost between to do,
\* placeholder and registered, and recovery starts only from a journal that asks for it.
LEMMA PlanKept ==
    ASSUME TypeOK, PlanSound, [Next]_vars
    PROVE  PlanSound'
<1> USE NspAssumption
    DEF TypeOK, PlanSound, At, Open, Steps, console, plan, history, Fault, NoFault
<1>1. CASE \E t \in Titles, s \in BOOLEAN : Begin(t, s)
  BY <1>1 DEF Begin
<1>2. CASE SaveJournal
  BY <1>2 DEF SaveJournal, Committed
<1>3. CASE SaveRename
  BY <1>3 DEF SaveRename, Committed
<1>4. CASE RecoverNothing
  BY <1>4 DEF RecoverNothing, Recovered, Return, ForgetPlan
<1>5. CASE RecoverJournal
  BY <1>5 DEF RecoverJournal
<1>6. CASE RecoverFails
  BY <1>6 DEF RecoverFails, Return, ForgetPlan
<1>7. CASE RollbackMeta
  BY <1>7 DEF RollbackMeta
<1>8. CASE \E c \in Contents : RollbackContent(c)
  BY <1>8 DEF RollbackContent
<1>9. CASE ClearJournal
  BY <1>9 DEF ClearJournal, Recovered, Return, ForgetPlan
<1>10. CASE CheckFails
  BY <1>10 DEF CheckFails, Return, ForgetPlan
<1>11. CASE Plan
  BY <1>11 DEF Plan, Save, Refused, Contents
<1>12. CASE InstallFails
  BY <1>12 DEF InstallFails, failRollback
<1>13. CASE \E c \in Contents : SkipContent(c)
  BY <1>13 DEF SkipContent
<1>14. CASE \E c \in Contents : CreatePlaceHolder(c)
  BY <1>14 DEF CreatePlaceHolder, Save
<1>15. CASE WritePlaceHolder
  BY <1>15 DEF WritePlaceHolder
<1>16. CASE Register
  BY <1>16 DEF Register, Save
<1>17. CASE ContentsDone
  BY <1>17 DEF ContentsDone
<1>18. CASE StreamRefused
  BY <1>18 DEF StreamRefused, failRollback, Refused
<1>19. CASE AnnounceMeta
  BY <1>19 DEF AnnounceMeta, Save, Refused
<1>20. CASE SetMeta
  BY <1>20 DEF SetMeta
<1>21. CASE CommitMeta
  BY <1>21 DEF CommitMeta, Save
<1>22. CASE ImportTicket
  BY <1>22 DEF ImportTicket, Save
<1>23. CASE ListRecords
  BY <1>23 DEF ListRecords, Save
<1>24. CASE PushRecord
  BY <1>24 DEF PushRecord, Save
<1>25. CASE SaveComplete
  BY <1>25 DEF SaveComplete, Save
<1>26. CASE Complete
  BY <1>26 DEF Complete, Return, ForgetPlan
<1>27. CASE PowerLoss
  BY <1>27 DEF PowerLoss, ForgetPlan, Unjournalled
<1>28. CASE UNCHANGED vars
  BY <1>28 DEF vars, plan, history
<1> HIDE DEF TypeOK, PlanSound, At, Open
<1>. QED
  BY <1>1, <1>2, <1>3, <1>4, <1>5, <1>6, <1>7, <1>8, <1>9, <1>10, <1>11, <1>12, <1>13,
      <1>14, <1>15, <1>16, <1>17, <1>18, <1>19, <1>20, <1>21, <1>22, <1>23, <1>24,
      <1>25, <1>26, <1>27, <1>28 DEF Next

\* No ignored failure and no interruption is forgotten: what a later state knows
\* nothing of did not happen earlier.
LEMMA HistoryGrows ==
    ASSUME TypeOK, [Next]_vars
    PROVE  ignored \subseteq ignored' /\ window \subseteq window'
<1> USE NspAssumption
    DEF TypeOK, Steps, console, plan, history, Fault, NoFault
<1>1. CASE \E t \in Titles, s \in BOOLEAN : Begin(t, s)
  BY <1>1 DEF Begin
<1>2. CASE SaveJournal
  BY <1>2 DEF SaveJournal, Committed
<1>3. CASE SaveRename
  BY <1>3 DEF SaveRename, Committed
<1>4. CASE RecoverNothing
  BY <1>4 DEF RecoverNothing, Recovered, Return, ForgetPlan
<1>5. CASE RecoverJournal
  BY <1>5 DEF RecoverJournal
<1>6. CASE RecoverFails
  BY <1>6 DEF RecoverFails, Return, ForgetPlan
<1>7. CASE RollbackMeta
  BY <1>7 DEF RollbackMeta
<1>8. CASE \E c \in Contents : RollbackContent(c)
  BY <1>8 DEF RollbackContent
<1>9. CASE ClearJournal
  BY <1>9 DEF ClearJournal, Recovered, Return, ForgetPlan
<1>10. CASE CheckFails
  BY <1>10 DEF CheckFails, Return, ForgetPlan
<1>11. CASE Plan
  BY <1>11 DEF Plan, Save, Refused, Contents
<1>12. CASE InstallFails
  BY <1>12 DEF InstallFails, failRollback
<1>13. CASE \E c \in Contents : SkipContent(c)
  BY <1>13 DEF SkipContent
<1>14. CASE \E c \in Contents : CreatePlaceHolder(c)
  BY <1>14 DEF CreatePlaceHolder, Save
<1>15. CASE WritePlaceHolder
  BY <1>15 DEF WritePlaceHolder
<1>16. CASE Register
  BY <1>16 DEF Register, Save
<1>17. CASE ContentsDone
  BY <1>17 DEF ContentsDone
<1>18. CASE StreamRefused
  BY <1>18 DEF StreamRefused, failRollback, Refused
<1>19. CASE AnnounceMeta
  BY <1>19 DEF AnnounceMeta, Save, Refused
<1>20. CASE SetMeta
  BY <1>20 DEF SetMeta
<1>21. CASE CommitMeta
  BY <1>21 DEF CommitMeta, Save
<1>22. CASE ImportTicket
  BY <1>22 DEF ImportTicket, Save
<1>23. CASE ListRecords
  BY <1>23 DEF ListRecords, Save
<1>24. CASE PushRecord
  BY <1>24 DEF PushRecord, Save
<1>25. CASE SaveComplete
  BY <1>25 DEF SaveComplete, Save
<1>26. CASE Complete
  BY <1>26 DEF Complete, Return, ForgetPlan
<1>27. CASE PowerLoss
  BY <1>27 DEF PowerLoss, ForgetPlan, Unjournalled
<1>28. CASE UNCHANGED vars
  BY <1>28 DEF vars, plan, history
<1> HIDE DEF TypeOK
<1>. QED
  BY <1>1, <1>2, <1>3, <1>4, <1>5, <1>6, <1>7, <1>8, <1>9, <1>10, <1>11, <1>12, <1>13,
      <1>14, <1>15, <1>16, <1>17, <1>18, <1>19, <1>20, <1>21, <1>22, <1>23, <1>24,
      <1>25, <1>26, <1>27, <1>28 DEF Next

\* saveJournal after every call keeps the journal at most one call behind the plan.
LEMMA JournalStays ==
    ASSUME TypeOK, TypeOK', PlanSound, PlanSound', JournalKept, "save" \notin
           ignored', [Next]_vars
    PROVE  JournalKept'
<1> USE NspAssumption
    DEF TypeOK, PlanSound, JournalKept, At, Open, Record, Noted, Steps, console, plan,
        history, Fault, NoFault
<1>1. CASE \E t \in Titles, s \in BOOLEAN : Begin(t, s)
  BY <1>1 DEF Begin
<1>2. CASE SaveJournal
  BY <1>2 DEF SaveJournal, Committed
<1>3. CASE SaveRename
  BY <1>3 DEF SaveRename, Committed
<1>4. CASE RecoverNothing
  BY <1>4 DEF RecoverNothing, Recovered, Return, ForgetPlan
<1>5. CASE RecoverJournal
  BY <1>5 DEF RecoverJournal
<1>6. CASE RecoverFails
  BY <1>6 DEF RecoverFails, Return, ForgetPlan
<1>7. CASE RollbackMeta
  BY <1>7 DEF RollbackMeta
<1>8. CASE \E c \in Contents : RollbackContent(c)
  BY <1>8 DEF RollbackContent
<1>9. CASE ClearJournal
  BY <1>9 DEF ClearJournal, Recovered, Return, ForgetPlan
<1>10. CASE CheckFails
  BY <1>10 DEF CheckFails, Return, ForgetPlan
<1>11. CASE Plan
  BY <1>11 DEF Plan, Save, Refused, Contents
<1>12. CASE InstallFails
  BY <1>12 DEF InstallFails, failRollback
<1>13. CASE \E c \in Contents : SkipContent(c)
  BY <1>13 DEF SkipContent
<1>14. CASE \E c \in Contents : CreatePlaceHolder(c)
  BY <1>14 DEF CreatePlaceHolder, Save
<1>15. CASE WritePlaceHolder
  BY <1>15 DEF WritePlaceHolder
<1>16. CASE Register
  <2>1. journal = Record /\ placeholderCreated = current /\ registered \cap current = {}
    BY <1>16 DEF Register
  <2>2. registered = registered' \ current
    BY <1>16, <2>1 DEF Register
  <2>3. journal = Noted(current, registered \ current, FALSE, FALSE)'
    BY <1>16, <2>1, <2>2, ZenonT(40) DEF Register
  <2>. QED
    BY <1>16, <2>1, <2>3 DEF Register, Save
<1>17. CASE ContentsDone
  BY <1>17 DEF ContentsDone
<1>18. CASE StreamRefused
  BY <1>18 DEF StreamRefused, failRollback, Refused
<1>19. CASE AnnounceMeta
  <2>1. journal = Record /\ metaSet = FALSE
    BY <1>19 DEF AnnounceMeta
  <2>2. journal = Noted({}, registered, FALSE, FALSE)'
    BY <1>19, <2>1 DEF AnnounceMeta
  <2>. QED
    BY <1>19, <2>1, <2>2 DEF AnnounceMeta, Save
<1>20. CASE SetMeta
  BY <1>20 DEF SetMeta
<1>21. CASE CommitMeta
  BY <1>21 DEF CommitMeta, Save
<1>22. CASE ImportTicket
  BY <1>22 DEF ImportTicket, Save
<1>23. CASE ListRecords
  BY <1>23 DEF ListRecords, Save
<1>24. CASE PushRecord
  <2>1. journal = Record /\ recordPushed = FALSE
    BY <1>24 DEF PushRecord
  <2>2. journal = Noted({}, registered, TRUE, FALSE)'
    BY <1>24, <2>1 DEF PushRecord
  <2>. QED
    BY <1>24, <2>1, <2>2 DEF PushRecord, Save
<1>25. CASE SaveComplete
  BY <1>25 DEF SaveComplete, Save
<1>26. CASE Complete
  BY <1>26 DEF Complete, Return, ForgetPlan
<1>27. CASE PowerLoss
  BY <1>27 DEF PowerLoss, ForgetPlan, Unjournalled
<1>28. CASE UNCHANGED vars
  BY <1>28 DEF vars, plan, history
<1> HIDE DEF TypeOK, PlanSound, JournalKept, At, Open, Record, Noted
<1>. QED
  BY <1>1, <1>2, <1>3, <1>4, <1>5, <1>6, <1>7, <1>8, <1>9, <1>10, <1>11, <1>12, <1>13,
      <1>14, <1>15, <1>16, <1>17, <1>18, <1>19, <1>20, <1>21, <1>22, <1>23, <1>24,
      <1>25, <1>26, <1>27, <1>28 DEF Next

\* No call takes a content, an entry or a record from an installed title, and no
\* journal comes to name what such a title needs.
LEMMA TitlesStay ==
    ASSUME FewTitles, TypeOK, TypeOK', PlanSound, PlanSound', JournalKept,
           JournalKept', TitlesSafe, "save" \notin ignored', [Next]_vars
    PROVE  TitlesSafe'
<1> USE NspAssumption
    DEF TypeOK, PlanSound, JournalKept, TitlesSafe, FirstTime, At, Open, Record,
        Noted, Steps, console, plan, history, Fault, NoFault
<1>1. CASE \E t \in Titles, s \in BOOLEAN : Begin(t, s)
  BY <1>1 DEF Begin
<1>2. CASE SaveJournal
  BY <1>2 DEF SaveJournal, Committed
<1>3. CASE SaveRename
  BY <1>3 DEF SaveRename, Committed
<1>4. CASE RecoverNothing
  BY <1>4 DEF RecoverNothing, Recovered, Return, ForgetPlan
<1>5. CASE RecoverJournal
  BY <1>5 DEF RecoverJournal
<1>6. CASE RecoverFails
  BY <1>6 DEF RecoverFails, Return, ForgetPlan
<1>7. CASE RollbackMeta
  BY <1>7 DEF RollbackMeta
<1>8. CASE \E c \in Contents : RollbackContent(c)
  BY <1>8 DEF RollbackContent
<1>9. CASE ClearJournal
  BY <1>9 DEF ClearJournal, Recovered, Return, ForgetPlan
<1>10. CASE CheckFails
  BY <1>10 DEF CheckFails, Return, ForgetPlan
<1>11. CASE Plan
  BY <1>11 DEF Plan, Save, Refused, Contents
<1>12. CASE InstallFails
  BY <1>12 DEF InstallFails, failRollback
<1>13. CASE \E c \in Contents : SkipContent(c)
  BY <1>13 DEF SkipContent
<1>14. CASE \E c \in Contents : CreatePlaceHolder(c)
  BY <1>14 DEF CreatePlaceHolder, Save
<1>15. CASE WritePlaceHolder
  BY <1>15 DEF WritePlaceHolder
<1>16. CASE Register
  BY <1>16 DEF Register, Save
<1>17. CASE ContentsDone
  BY <1>17 DEF ContentsDone
<1>18. CASE StreamRefused
  BY <1>18 DEF StreamRefused, failRollback, Refused
<1>19. CASE AnnounceMeta
  BY <1>19 DEF AnnounceMeta, Save, Refused
<1>20. CASE SetMeta
  BY <1>20 DEF SetMeta
<1>21. CASE CommitMeta
  BY <1>21 DEF CommitMeta, Save
<1>22. CASE ImportTicket
  BY <1>22 DEF ImportTicket, Save
<1>23. CASE ListRecords
  <2>1. At' = "push" => done \cup {title} \subseteq listed'
    BY <1>23, WholeRecordListed DEF ListRecords
  <2>. QED
    BY <1>23, <2>1 DEF ListRecords, Save
<1>24. CASE PushRecord
  BY <1>24 DEF PushRecord, Save
<1>25. CASE SaveComplete
  BY <1>25 DEF SaveComplete, Save
<1>26. CASE Complete
  BY <1>26 DEF Complete, Return, ForgetPlan
<1>27. CASE PowerLoss
  BY <1>27 DEF PowerLoss, ForgetPlan, Unjournalled
<1>28. CASE UNCHANGED vars
  BY <1>28 DEF vars, plan, history
<1> HIDE DEF TypeOK, PlanSound, JournalKept, TitlesSafe, FirstTime, At, Open, Record, Noted
<1>. QED
  BY <1>1, <1>2, <1>3, <1>4, <1>5, <1>6, <1>7, <1>8, <1>9, <1>10, <1>11, <1>12, <1>13,
      <1>14, <1>15, <1>16, <1>17, <1>18, <1>19, <1>20, <1>21, <1>22, <1>23, <1>24,
      <1>25, <1>26, <1>27, <1>28 DEF Next

\* The entry of a title goes before its contents do, and comes after them.
LEMMA MetaStays ==
    ASSUME FewTitles, TypeOK, TypeOK', PlanSound, PlanSound', JournalKept, JournalKept',
           TitlesSafe, TitlesSafe', MetaSafe, "save" \notin ignored', "meta"
               \notin ignored', [Next]_vars
    PROVE  MetaSafe'
<1> USE NspAssumption
    DEF TypeOK, PlanSound, JournalKept, TitlesSafe, MetaSafe, At, Open, Record, Noted,
        Steps, console, plan, history, Fault, NoFault
<1>1. CASE \E t \in Titles, s \in BOOLEAN : Begin(t, s)
  BY <1>1 DEF Begin
<1>2. CASE SaveJournal
  BY <1>2 DEF SaveJournal, Committed
<1>3. CASE SaveRename
  BY <1>3 DEF SaveRename, Committed
<1>4. CASE RecoverNothing
  BY <1>4 DEF RecoverNothing, Recovered, Return, ForgetPlan
<1>5. CASE RecoverJournal
  BY <1>5 DEF RecoverJournal
<1>6. CASE RecoverFails
  BY <1>6 DEF RecoverFails, Return, ForgetPlan
<1>7. CASE RollbackMeta
  BY <1>7 DEF RollbackMeta
<1>8. CASE \E c \in Contents : RollbackContent(c)
  BY <1>8 DEF RollbackContent
<1>9. CASE ClearJournal
  BY <1>9 DEF ClearJournal, Recovered, Return, ForgetPlan
<1>10. CASE CheckFails
  BY <1>10 DEF CheckFails, Return, ForgetPlan
<1>11. CASE Plan
  BY <1>11 DEF Plan, Save, Refused, Contents
<1>12. CASE InstallFails
  BY <1>12 DEF InstallFails, failRollback
<1>13. CASE \E c \in Contents : SkipContent(c)
  BY <1>13 DEF SkipContent
<1>14. CASE \E c \in Contents : CreatePlaceHolder(c)
  BY <1>14 DEF CreatePlaceHolder, Save
<1>15. CASE WritePlaceHolder
  BY <1>15 DEF WritePlaceHolder
<1>16. CASE Register
  BY <1>16 DEF Register, Save
<1>17. CASE ContentsDone
  BY <1>17 DEF ContentsDone
<1>18. CASE StreamRefused
  BY <1>18 DEF StreamRefused, failRollback, Refused
<1>19. CASE AnnounceMeta
  BY <1>19 DEF AnnounceMeta, Save, Refused
<1>20. CASE SetMeta
  <2>1. Package[title] \subseteq storage /\ metaSet
    BY <1>20 DEF SetMeta
  <2>. QED
    BY <1>20, <2>1 DEF SetMeta
<1>21. CASE CommitMeta
  BY <1>21 DEF CommitMeta, Save
<1>22. CASE ImportTicket
  BY <1>22 DEF ImportTicket, Save
<1>23. CASE ListRecords
  BY <1>23 DEF ListRecords, Save
<1>24. CASE PushRecord
  BY <1>24 DEF PushRecord, Save
<1>25. CASE SaveComplete
  BY <1>25 DEF SaveComplete, Save
<1>26. CASE Complete
  BY <1>26 DEF Complete, Return, ForgetPlan
<1>27. CASE PowerLoss
  BY <1>27 DEF PowerLoss, ForgetPlan, Unjournalled
<1>28. CASE UNCHANGED vars
  BY <1>28 DEF vars, plan, history
<1> HIDE DEF TypeOK, PlanSound, JournalKept, TitlesSafe, MetaSafe, At, Open, Record, Noted
<1>. QED
  BY <1>1, <1>2, <1>3, <1>4, <1>5, <1>6, <1>7, <1>8, <1>9, <1>10, <1>11, <1>12, <1>13,
      <1>14, <1>15, <1>16, <1>17, <1>18, <1>19, <1>20, <1>21, <1>22, <1>23, <1>24,
      <1>25, <1>26, <1>27, <1>28 DEF Next

\* A journal that was written is not an absent one.
LEMMA JournalExists == Record # None /\ Record' # None
  BY DEF Record, None

\* Nor is one of the earlier notes.
LEMMA NoteExists ==
    ASSUME NEW holding, NEW registrations, NEW meant, NEW pushed
    PROVE  Noted(holding, registrations, meant, pushed) # None
  BY DEF Noted, None

\* A title in the database is installed, or the journal names it to be rolled back.
LEMMA MetaAccountStays ==
    ASSUME TypeOK, TypeOK', PlanSound, PlanSound', JournalKept, JournalKept', TitlesSafe,
           TitlesSafe', MetaSafe, MetaSafe', ignored' = {}, "save" \notin window',
           MetaAccounted, [Next]_vars
    PROVE  MetaAccounted'
<1> USE NspAssumption, JournalExists
    DEF TypeOK, PlanSound, JournalKept, TitlesSafe, MetaSafe, MetaAccounted, At, Open,
        Record, Noted, Steps, console, plan, history, Fault, NoFault
<1>1. CASE \E t \in Titles, s \in BOOLEAN : Begin(t, s)
  BY <1>1 DEF Begin
<1>2. CASE SaveJournal
  BY <1>2 DEF SaveJournal, Committed
<1>3. CASE SaveRename
  BY <1>3 DEF SaveRename, Committed
<1>4. CASE RecoverNothing
  BY <1>4 DEF RecoverNothing, Recovered, Return, ForgetPlan
<1>5. CASE RecoverJournal
  BY <1>5 DEF RecoverJournal
<1>6. CASE RecoverFails
  BY <1>6 DEF RecoverFails, Return, ForgetPlan
<1>7. CASE RollbackMeta
  BY <1>7 DEF RollbackMeta
<1>8. CASE \E c \in Contents : RollbackContent(c)
  BY <1>8 DEF RollbackContent
<1>9. CASE ClearJournal
  BY <1>9 DEF ClearJournal, Recovered, Return, ForgetPlan
<1>10. CASE CheckFails
  BY <1>10 DEF CheckFails, Return, ForgetPlan
<1>11. CASE Plan
  BY <1>11 DEF Plan, Save, Refused, Contents
<1>12. CASE InstallFails
  BY <1>12 DEF InstallFails, failRollback
<1>13. CASE \E c \in Contents : SkipContent(c)
  BY <1>13 DEF SkipContent
<1>14. CASE \E c \in Contents : CreatePlaceHolder(c)
  BY <1>14 DEF CreatePlaceHolder, Save
<1>15. CASE WritePlaceHolder
  BY <1>15 DEF WritePlaceHolder
<1>16. CASE Register
  BY <1>16 DEF Register, Save
<1>17. CASE ContentsDone
  BY <1>17 DEF ContentsDone
<1>18. CASE StreamRefused
  BY <1>18 DEF StreamRefused, failRollback, Refused
<1>19. CASE AnnounceMeta
  BY <1>19 DEF AnnounceMeta, Save, Refused
<1>20. CASE SetMeta
  <2>0. journal = Record /\ metaSet /\ ~recordPushed
    BY <1>20 DEF SetMeta
  <2>1. Open /\ journal.metaSet /\ journal.title = title
    BY <2>0, JournalExists
  <2>. QED
    BY <1>20, <2>1 DEF SetMeta
<1>21. CASE CommitMeta
  BY <1>21 DEF CommitMeta, Save
<1>22. CASE ImportTicket
  BY <1>22 DEF ImportTicket, Save
<1>23. CASE ListRecords
  BY <1>23 DEF ListRecords, Save
<1>24. CASE PushRecord
  BY <1>24 DEF PushRecord, Save
<1>25. CASE SaveComplete
  BY <1>25 DEF SaveComplete, Save
<1>26. CASE Complete
  BY <1>26 DEF Complete, Return, ForgetPlan
<1>27. CASE PowerLoss
  BY <1>27 DEF PowerLoss, ForgetPlan, Unjournalled
<1>28. CASE UNCHANGED vars
  BY <1>28 DEF vars, plan, history
<1> HIDE DEF TypeOK, PlanSound, JournalKept, TitlesSafe, MetaSafe, MetaAccounted, At,
    Open, Record, Noted
<1>. QED
  BY <1>1, <1>2, <1>3, <1>4, <1>5, <1>6, <1>7, <1>8, <1>9, <1>10, <1>11, <1>12, <1>13,
      <1>14, <1>15, <1>16, <1>17, <1>18, <1>19, <1>20, <1>21, <1>22, <1>23, <1>24,
      <1>25, <1>26, <1>27, <1>28 DEF Next

\* A placeholder is the plan's, or the journal names it to be deleted.
LEMMA HoldersAccountStays ==
    ASSUME TypeOK, TypeOK', PlanSound, PlanSound', JournalKept, JournalKept', TitlesSafe,
           TitlesSafe', MetaSafe, MetaSafe', ignored' = {}, "save" \notin window',
           "create" \notin window', HoldersAccounted, [Next]_vars
    PROVE  HoldersAccounted'
<1> USE NspAssumption, JournalExists
    DEF TypeOK, PlanSound, JournalKept, HoldersAccounted, At, Open, Record, Noted,
        Steps, console, plan, history, Fault, NoFault
<1>1. CASE \E t \in Titles, s \in BOOLEAN : Begin(t, s)
  BY <1>1 DEF Begin
<1>2. CASE SaveJournal
  BY <1>2 DEF SaveJournal, Committed
<1>3. CASE SaveRename
  BY <1>3 DEF SaveRename, Committed
<1>4. CASE RecoverNothing
  BY <1>4 DEF RecoverNothing, Recovered, Return, ForgetPlan
<1>5. CASE RecoverJournal
  BY <1>5 DEF RecoverJournal
<1>6. CASE RecoverFails
  BY <1>6 DEF RecoverFails, Return, ForgetPlan
<1>7. CASE RollbackMeta
  BY <1>7 DEF RollbackMeta
<1>8. CASE \E c \in Contents : RollbackContent(c)
  BY <1>8 DEF RollbackContent
<1>9. CASE ClearJournal
  BY <1>9 DEF ClearJournal, Recovered, Return, ForgetPlan
<1>10. CASE CheckFails
  BY <1>10 DEF CheckFails, Return, ForgetPlan
<1>11. CASE Plan
  BY <1>11 DEF Plan, Save, Refused, Contents
<1>12. CASE InstallFails
  BY <1>12 DEF InstallFails, failRollback
<1>13. CASE \E c \in Contents : SkipContent(c)
  BY <1>13 DEF SkipContent
<1>14. CASE \E c \in Contents : CreatePlaceHolder(c)
  BY <1>14 DEF CreatePlaceHolder, Save
<1>15. CASE WritePlaceHolder
  BY <1>15 DEF WritePlaceHolder
<1>16. CASE Register
  BY <1>16 DEF Register, Save
<1>17. CASE ContentsDone
  BY <1>17 DEF ContentsDone
<1>18. CASE StreamRefused
  BY <1>18 DEF StreamRefused, failRollback, Refused
<1>19. CASE AnnounceMeta
  BY <1>19 DEF AnnounceMeta, Save, Refused
<1>20. CASE SetMeta
  BY <1>20 DEF SetMeta
<1>21. CASE CommitMeta
  BY <1>21 DEF CommitMeta, Save
<1>22. CASE ImportTicket
  BY <1>22 DEF ImportTicket, Save
<1>23. CASE ListRecords
  BY <1>23 DEF ListRecords, Save
<1>24. CASE PushRecord
  BY <1>24 DEF PushRecord, Save
<1>25. CASE SaveComplete
  BY <1>25 DEF SaveComplete, Save
<1>26. CASE Complete
  BY <1>26 DEF Complete, Return, ForgetPlan
<1>27. CASE PowerLoss
  BY <1>27 DEF PowerLoss, ForgetPlan, Unjournalled
<1>28. CASE UNCHANGED vars
  BY <1>28 DEF vars, plan, history
<1> HIDE DEF TypeOK, PlanSound, JournalKept, HoldersAccounted, At, Open, Record, Noted
<1>. QED
  BY <1>1, <1>2, <1>3, <1>4, <1>5, <1>6, <1>7, <1>8, <1>9, <1>10, <1>11, <1>12, <1>13,
      <1>14, <1>15, <1>16, <1>17, <1>18, <1>19, <1>20, <1>21, <1>22, <1>23, <1>24,
      <1>25, <1>26, <1>27, <1>28 DEF Next

\* A content belongs to an installed title, or the journal names it as registered by
\* the installation it is about.
LEMMA StorageAccountStays ==
    ASSUME TypeOK, TypeOK', PlanSound, PlanSound', JournalKept, JournalKept', TitlesSafe,
           TitlesSafe', MetaSafe, MetaSafe', ignored' = {}, "save" \notin window',
           "register" \notin window', StorageAccounted, [Next]_vars
    PROVE  StorageAccounted'
<1> USE NspAssumption, JournalExists
    DEF TypeOK, PlanSound, JournalKept, TitlesSafe, StorageAccounted, Whole, At, Open,
        Record, Noted, Steps, console, plan, history, Fault, NoFault
<1>1. CASE \E t \in Titles, s \in BOOLEAN : Begin(t, s)
  BY <1>1 DEF Begin
<1>2. CASE SaveJournal
  BY <1>2 DEF SaveJournal, Committed
<1>3. CASE SaveRename
  BY <1>3 DEF SaveRename, Committed
<1>4. CASE RecoverNothing
  BY <1>4 DEF RecoverNothing, Recovered, Return, ForgetPlan
<1>5. CASE RecoverJournal
  BY <1>5 DEF RecoverJournal
<1>6. CASE RecoverFails
  BY <1>6 DEF RecoverFails, Return, ForgetPlan
<1>7. CASE RollbackMeta
  BY <1>7 DEF RollbackMeta
<1>8. CASE \E c \in Contents : RollbackContent(c)
  BY <1>8 DEF RollbackContent
<1>9. CASE ClearJournal
  BY <1>9 DEF ClearJournal, Recovered, Return, ForgetPlan
<1>10. CASE CheckFails
  BY <1>10 DEF CheckFails, Return, ForgetPlan
<1>11. CASE Plan
  BY <1>11 DEF Plan, Save, Refused, Contents
<1>12. CASE InstallFails
  BY <1>12 DEF InstallFails, failRollback
<1>13. CASE \E c \in Contents : SkipContent(c)
  BY <1>13 DEF SkipContent
<1>14. CASE \E c \in Contents : CreatePlaceHolder(c)
  BY <1>14 DEF CreatePlaceHolder, Save
<1>15. CASE WritePlaceHolder
  BY <1>15 DEF WritePlaceHolder
<1>16. CASE Register
  BY <1>16 DEF Register, Save
<1>17. CASE ContentsDone
  BY <1>17 DEF ContentsDone
<1>18. CASE StreamRefused
  BY <1>18 DEF StreamRefused, failRollback, Refused
<1>19. CASE AnnounceMeta
  BY <1>19 DEF AnnounceMeta, Save, Refused
<1>20. CASE SetMeta
  BY <1>20 DEF SetMeta
<1>21. CASE CommitMeta
  BY <1>21 DEF CommitMeta, Save
<1>22. CASE ImportTicket
  BY <1>22 DEF ImportTicket, Save
<1>23. CASE ListRecords
  BY <1>23 DEF ListRecords, Save
<1>24. CASE PushRecord
  BY <1>24 DEF PushRecord, Save
<1>25. CASE SaveComplete
  BY <1>25 DEF SaveComplete, Save
<1>26. CASE Complete
  BY <1>26 DEF Complete, Return, ForgetPlan
<1>27. CASE PowerLoss
  <2>1. CASE pc \notin Steps
    BY <1>27, <2>1 DEF PowerLoss, ForgetPlan
  <2>2. CASE pc \in Steps \ {"save", "rename"}
    <3>1. journal = Record /\ storage = Whole \cup registered
      BY <2>2
    <3>. QED
      BY <1>27, <2>2, <3>1 DEF PowerLoss, ForgetPlan
  <2>3. CASE pc = "rename"
    BY <1>27, <2>3 DEF PowerLoss, Unjournalled
  <2>4. CASE pc = "save" /\ recordPushed
    <3>1. storage = Whole \cup registered /\ registered \cap preExisting = {} /\
        registered \subseteq Package[title]
      BY <2>4
    <3>2. CASE next = "remove"
      <4>1. registered \subseteq Whole
        BY <2>4, <3>1, <3>2
      <4>. QED
        BY <1>27, <2>4, <3>1, <4>1 DEF PowerLoss, ForgetPlan
    <3>3. CASE next = "complete"
      <4>1. Open /\ journal.registered = registered /\ journal.preExisting = preExisting
        BY <2>4, <3>3, NoteExists
      <4>. QED
        BY <1>27, <2>4, <3>1, <4>1 DEF PowerLoss, ForgetPlan
    <3>. QED
      BY <2>4, <3>2, <3>3
  <2>5. CASE pc = "save" /\ ~recordPushed
    <3>1. storage = Whole \cup registered /\ registered \cap preExisting = {}
      BY <2>5
    <3>2. CASE journal = Record
      BY <1>27, <2>5, <3>1, <3>2 DEF PowerLoss, ForgetPlan
    <3>3. CASE journal # Record /\ current = {}
      BY <1>27, <2>5, <3>1, <3>3 DEF PowerLoss, ForgetPlan, Unjournalled
    <3>4. CASE journal # Record /\ current # {}
      <4>1. next # "content"
        BY <1>27, <2>5, <3>4 DEF PowerLoss, Unjournalled
      <4>2. Open /\ journal.registered = registered /\ journal.preExisting = preExisting
        BY <2>5, <3>4, <4>1, NoteExists
      <4>. QED
        BY <1>27, <2>5, <3>1, <4>2 DEF PowerLoss, ForgetPlan
    <3>. QED
      BY <3>2, <3>3, <3>4
  <2>. QED
    BY <2>1, <2>2, <2>3, <2>4, <2>5
<1>28. CASE UNCHANGED vars
  BY <1>28 DEF vars, plan, history
<1> HIDE DEF TypeOK, PlanSound, JournalKept, TitlesSafe, StorageAccounted, Whole, At,
    Open, Record, Noted
<1>. QED
  BY <1>1, <1>2, <1>3, <1>4, <1>5, <1>6, <1>7, <1>8, <1>9, <1>10, <1>11, <1>12, <1>13,
      <1>14, <1>15, <1>16, <1>17, <1>18, <1>19, <1>20, <1>21, <1>22, <1>23, <1>24,
      <1>25, <1>26, <1>27, <1>28 DEF Next

\* The application record names the installed titles, and the one just pushed.
LEMMA RecordsAccountStays ==
    ASSUME FewTitles, TypeOK, TypeOK', PlanSound, PlanSound', JournalKept,
           JournalKept', TitlesSafe,
           TitlesSafe', MetaSafe, MetaSafe', ignored' = {}, "save" \notin window',
           "push" \notin window', RecordsAccounted, [Next]_vars
    PROVE  RecordsAccounted'
<1> USE NspAssumption, JournalExists
    DEF TypeOK, PlanSound, JournalKept, TitlesSafe, RecordsAccounted, Pushed,
        FirstTime, At, Open, Record, Noted, Steps, console, plan, history, Fault,
        NoFault
<1>1. CASE \E t \in Titles, s \in BOOLEAN : Begin(t, s)
  BY <1>1 DEF Begin
<1>2. CASE SaveJournal
  BY <1>2 DEF SaveJournal, Committed
<1>3. CASE SaveRename
  BY <1>3 DEF SaveRename, Committed
<1>4. CASE RecoverNothing
  BY <1>4 DEF RecoverNothing, Recovered, Return, ForgetPlan
<1>5. CASE RecoverJournal
  BY <1>5 DEF RecoverJournal
<1>6. CASE RecoverFails
  BY <1>6 DEF RecoverFails, Return, ForgetPlan
<1>7. CASE RollbackMeta
  BY <1>7 DEF RollbackMeta
<1>8. CASE \E c \in Contents : RollbackContent(c)
  BY <1>8 DEF RollbackContent
<1>9. CASE ClearJournal
  BY <1>9 DEF ClearJournal, Recovered, Return, ForgetPlan
<1>10. CASE CheckFails
  BY <1>10 DEF CheckFails, Return, ForgetPlan
<1>11. CASE Plan
  BY <1>11 DEF Plan, Save, Refused, Contents
<1>12. CASE InstallFails
  BY <1>12 DEF InstallFails, failRollback
<1>13. CASE \E c \in Contents : SkipContent(c)
  BY <1>13 DEF SkipContent
<1>14. CASE \E c \in Contents : CreatePlaceHolder(c)
  BY <1>14 DEF CreatePlaceHolder, Save
<1>15. CASE WritePlaceHolder
  BY <1>15 DEF WritePlaceHolder
<1>16. CASE Register
  BY <1>16 DEF Register, Save
<1>17. CASE ContentsDone
  BY <1>17 DEF ContentsDone
<1>18. CASE StreamRefused
  BY <1>18 DEF StreamRefused, failRollback, Refused
<1>19. CASE AnnounceMeta
  BY <1>19 DEF AnnounceMeta, Save, Refused
<1>20. CASE SetMeta
  BY <1>20 DEF SetMeta
<1>21. CASE CommitMeta
  BY <1>21 DEF CommitMeta, Save
<1>22. CASE ImportTicket
  BY <1>22 DEF ImportTicket, Save
<1>23. CASE ListRecords
  <2>1. listed' = done \cup {title}
    BY <1>23, WholeRecordListed DEF ListRecords
  <2>. QED
    BY <1>23, <2>1 DEF ListRecords, Save
<1>24. CASE PushRecord
  BY <1>24 DEF PushRecord, Save
<1>25. CASE SaveComplete
  BY <1>25 DEF SaveComplete, Save
<1>26. CASE Complete
  BY <1>26 DEF Complete, Return, ForgetPlan
<1>27. CASE PowerLoss
  BY <1>27 DEF PowerLoss, ForgetPlan, Unjournalled
<1>28. CASE UNCHANGED vars
  BY <1>28 DEF vars, plan, history
<1> HIDE DEF TypeOK, PlanSound, JournalKept, TitlesSafe, RecordsAccounted, Pushed,
    FirstTime, At, Open, Record, Noted
<1>. QED
  BY <1>1, <1>2, <1>3, <1>4, <1>5, <1>6, <1>7, <1>8, <1>9, <1>10, <1>11, <1>12, <1>13,
      <1>14, <1>15, <1>16, <1>17, <1>18, <1>19, <1>20, <1>21, <1>22, <1>23, <1>24,
      <1>25, <1>26, <1>27, <1>28 DEF Next

\* An installer that is idle, with or without an installed base.
LEMMA NspInitially ==
    ASSUME Init
    PROVE  NspInv
<1> USE NspAssumption DEF Init, Steps
<1>1. TypeOK
  BY DEF TypeOK, Contents
<1>2. PlanSound
  BY DEF PlanSound
<1>3. JournalKept
  BY DEF JournalKept, Open
<1>4. TitlesSafe
  BY DEF TitlesSafe, Open
<1>5. MetaSafe
  BY DEF MetaSafe, Open
<1>6. Accounted
  BY DEF Accounted, MetaAccounted, HoldersAccounted, StorageAccounted, RecordsAccounted,
         Whole, Pushed
<1>. QED
  BY <1>1, <1>2, <1>3, <1>4, <1>5, <1>6 DEF NspInv

\* Every call, with what it does to the parts of the invariant put together.
LEMMA NspStep ==
    ASSUME FewTitles, NspInv, [Next]_vars
    PROVE  NspInv'
<1>1. TypeOK /\ PlanSound /\ TypeOK' /\ PlanSound'
  BY TypesKept, PlanKept DEF NspInv
<1>2. ignored \subseteq ignored' /\ window \subseteq window'
  BY <1>1, HistoryGrows
<1>3. ASSUME "save" \notin ignored'
      PROVE  JournalKept /\ JournalKept' /\ TitlesSafe /\ TitlesSafe'
  <2>1. JournalKept /\ TitlesSafe
    BY <1>2, <1>3 DEF NspInv
  <2>2. JournalKept'
    BY <1>1, <1>3, <2>1, JournalStays
  <2>. QED
    BY <1>1, <1>3, <2>1, <2>2, TitlesStay
<1>4. ASSUME "save" \notin ignored', "meta" \notin ignored'
      PROVE  MetaSafe /\ MetaSafe'
  <2>1. MetaSafe
    BY <1>2, <1>4 DEF NspInv
  <2>. QED
    BY <1>1, <1>3, <1>4, <2>1, MetaStays
<1>5. ASSUME ignored' = {}, "save" \notin window'
      PROVE  Accounted'
  <2>1. Accounted
    BY <1>2, <1>5 DEF NspInv
  <2>2. MetaAccounted'
    BY <1>1, <1>3, <1>4, <1>5, <2>1, MetaAccountStays DEF Accounted
  <2>3. "create" \notin window' => HoldersAccounted'
    BY <1>1, <1>2, <1>3, <1>4, <1>5, <2>1, HoldersAccountStays DEF Accounted
  <2>4. "register" \notin window' => StorageAccounted'
    BY <1>1, <1>2, <1>3, <1>4, <1>5, <2>1, StorageAccountStays DEF Accounted
  <2>5. "push" \notin window' => RecordsAccounted'
    BY <1>1, <1>2, <1>3, <1>4, <1>5, <2>1, RecordsAccountStays DEF Accounted
  <2>. QED
    BY <2>2, <2>3, <2>4, <2>5 DEF Accounted
<1>. QED
  BY <1>1, <1>3, <1>4, <1>5 DEF NspInv

\* At every call of an installation, a rollback or a restart, the journal that
\* recoverStaleRealInstall would read tells what the installation has done to the
\* console and names nothing an installed title needs, whatever packages there
\* are and however many calls fail and power cuts come.
THEOREM NspAlways ==
    ASSUME FewTitles
    PROVE  Spec => []NspInv
<1>1. Init => NspInv
  BY NspInitially
<1>2. NspInv /\ [Next]_vars => NspInv'
  BY NspStep
<1>. QED
  BY <1>1, <1>2, PTL DEF Spec

\* No rollback takes a content, the database entry or the record of a title that
\* was installed before.
THEOREM NspInstalledKept ==
    ASSUME FewTitles
    PROVE  Spec => []InstalledKept
<1>1. NspInv => InstalledKept
  BY DEF NspInv, TitlesSafe, InstalledKept
<1>. QED
  BY <1>1, NspAlways, PTL

\* The database on the card never names a content that is not in storage, also
\* while a rollback is at work or after the power went.
THEOREM NspMetaMeansContents ==
    ASSUME FewTitles
    PROVE  Spec => []MetaMeansContents
<1>1. NspInv => MetaMeansContents
  BY DEF NspInv, MetaSafe, MetaMeansContents
<1>. QED
  BY <1>1, NspAlways, PTL

\* Once the journal is gone, storage, database and record hold the installed
\* titles and nothing else.
THEOREM NspRollbackClean ==
    ASSUME FewTitles
    PROVE  Spec => []RollbackClean
<1>1. ASSUME NspInv
      PROVE  RollbackClean
  <2>1. TypeOK
    BY <1>1 DEF NspInv
  <2>2. SUFFICES ASSUME pc = "idle", journal = None, ignored = {}, "save" \notin window
                 PROVE  /\ meta = done /\ metaMem = done
                        /\ "create" \notin window => holders = {}
                        /\ "register" \notin window => storage =
                            UNION {Package[t] : t \in done}
                        /\ "push" \notin window => records = done
    BY <2>1 DEF RollbackClean
  <2>3. TitlesSafe /\ Accounted /\ ~Open /\ pc \notin Steps /\ ~Pushed
    BY <1>1, <2>2 DEF NspInv, Open, Steps, Pushed
  <2>4. meta = done /\ metaMem = done
    BY <2>2, <2>3 DEF Accounted, MetaAccounted, TitlesSafe
  <2>5. "create" \notin window => holders = {}
    BY <2>3 DEF Accounted, HoldersAccounted
  <2>6. "register" \notin window => storage = UNION {Package[t] : t \in done}
    BY <2>3 DEF Accounted, StorageAccounted, TitlesSafe, Whole
  <2>7. "push" \notin window => records = done
    BY <2>3 DEF Accounted, RecordsAccounted
  <2>. QED
    BY <2>4, <2>5, <2>6, <2>7
<1>. QED
  BY <1>1, NspAlways, PTL
=============================================================================
