---------------------------- MODULE NspInstaller ----------------------------
(***************************************************************************)
(* nsp_transaction_installer.cpp: the installation of a package into the   *)
(* console's content storage, from a staged file or from the MTP stream,   *)
(* with a journal on the card that recoverStaleRealInstall rolls back.     *)
(*                                                                         *)
(* The console's services are external: the content storage and its        *)
(* placeholders, the content meta database (changes are in memory until    *)
(* Commit) and the application record.  A step is one call to a service or *)
(* one change of the journal's file; calls may fail and the power may go   *)
(* between any two.  A package is the set of its contents, taken in any    *)
(* order.                                                                  *)
(***************************************************************************)
EXTENDS Naturals, FiniteSets

CONSTANTS
    Titles,         \* the titles there are packages of, of one application
    BaseTitle,      \* the one of type Application; the others are patches, DLC
    Package,        \* Package[t]: the contents of title t
    MaxRecords,     \* records the installer can list (64 in the code)
    MaxFaults,      \* failing calls (a bound for TLC)
    MaxCrashes      \* power cuts (a bound for TLC)

ASSUME NspAssumption ==
    /\ BaseTitle \in Titles
    /\ MaxRecords \in Nat /\ MaxFaults \in Nat /\ MaxCrashes \in Nat

Contents == UNION {Package[t] : t \in Titles}

VARIABLES
    \* on the console
    storage,        \* registered contents
    holders,        \* contents with a placeholder
    meta, metaMem,  \* the meta database on the card, and as the service holds it
    records,        \* titles in the application record
    journal,        \* current_install.json
    \* of the installation in progress
    pc, next,       \* the next call; where saveJournal returns to
    rollback,       \* recovery runs to roll this installation back
    stream,         \* from the MTP stream: the CNMT is known only at the end
    title, todo, current,
    preExisting, placeholderCreated, registered, metaSet, recordPushed,
    listed,         \* the record set read back from ns
    \* history
    done,           \* titles whose installation reached its last journal record
    ignored,        \* what the code failed to do without noticing
    window,         \* what a power cut interrupted half way
    faults, crashes

console == <<storage, holders, meta, metaMem, records>>
plan == <<title, todo, current, preExisting, placeholderCreated, registered,
          metaSet, recordPushed, listed>>
history == <<done, ignored, window, crashes>>
vars == <<console, journal, pc, next, rollback, stream, plan, history, faults>>

None == [title |-> "none"]
Journals == [title : Titles, metaSet : BOOLEAN, recordPushed : BOOLEAN,
             preExisting : SUBSET Contents, placeholderCreated : SUBSET Contents,
             registered : SUBSET Contents]

Fault == faults < MaxFaults /\ faults' = faults + 1
NoFault == faults' = faults

\* The base may be installed already.
Init ==
    /\ done \in {{}, {BaseTitle}}
    /\ storage = UNION {Package[t] : t \in done}
    /\ holders = {}
    /\ meta = done /\ metaMem = done /\ records = done
    /\ journal = None
    /\ pc = "idle" /\ next = "idle" /\ rollback = FALSE /\ stream = FALSE
    /\ title = BaseTitle /\ todo = {} /\ current = {}
    /\ preExisting = {} /\ placeholderCreated = {} /\ registered = {}
    /\ metaSet = FALSE /\ recordPushed = FALSE /\ listed = {}
    /\ ignored = {} /\ window = {} /\ faults = 0 /\ crashes = 0

\* An installation returns to its caller.
ForgetPlan ==
    /\ title' = BaseTitle /\ todo' = {} /\ current' = {}
    /\ preExisting' = {} /\ placeholderCreated' = {} /\ registered' = {}
    /\ metaSet' = FALSE /\ recordPushed' = FALSE /\ listed' = {}
    /\ rollback' = FALSE /\ stream' = FALSE /\ next' = "idle"

Return == pc' = "idle" /\ ForgetPlan

\* failRollback: whatever the failure, recovery is run on the journal.
failRollback ==
    /\ pc' = "recover" /\ rollback' = TRUE
    /\ UNCHANGED <<console, journal, next, stream, plan, history>>

-----------------------------------------------------------------------------
(* The journal                                                             *)

\* saveJournal(...) is what comes next; it returns to `then'.
Save(then) == pc' = "save" /\ next' = then

Record == [title |-> title, metaSet |-> metaSet, recordPushed |-> recordPushed,
           preExisting |-> preExisting, placeholderCreated |-> placeholderCreated,
           registered |-> registered]

\* The record that makes recovery leave the installation alone is on the card.
Committed == IF recordPushed THEN done \cup {title} ELSE done

\* The temporary file is written and renamed.  Where rename does not replace,
\* the old journal is removed first.  No result is looked at.  (A save that fails
\* leaves the file as it was: a torn one renamed over it is left out.)
SaveJournal ==
    /\ pc = "save"
    /\ \/ /\ journal' = Record /\ pc' = next
          /\ done' = Committed /\ NoFault /\ UNCHANGED ignored
       \/ /\ journal' = None /\ pc' = "rename"
          /\ NoFault /\ UNCHANGED <<done, ignored>>
       \/ /\ Fault /\ UNCHANGED <<journal, done>> /\ pc' = next
          /\ ignored' = ignored \cup {"save"}
    /\ UNCHANGED <<console, next, rollback, stream, plan, window, crashes>>

SaveRename ==
    /\ pc = "rename"
    /\ pc' = next
    /\ \/ journal' = Record /\ done' = Committed /\ NoFault /\ UNCHANGED ignored
       \/ Fault /\ ignored' = ignored \cup {"save"} /\ UNCHANGED <<journal, done>>
    /\ UNCHANGED <<console, next, rollback, stream, plan, window, crashes>>

-----------------------------------------------------------------------------
(* recoverStaleRealInstall                                                 *)

\* Where recovery leads: on with the installation, or back to the caller.
Recovered == IF rollback THEN Return
             ELSE pc' = "check" /\ UNCHANGED <<next, rollback, stream, plan>>

RecoverNothing ==
    /\ pc = "recover" /\ journal = None
    /\ Recovered
    /\ NoFault
    /\ UNCHANGED <<console, journal, history>>

\* A journal that says the record was pushed is only cleared.
RecoverJournal ==
    /\ pc = "recover" /\ journal # None
    /\ pc' = IF journal.recordPushed THEN "clear"
             ELSE IF journal.metaSet THEN "unset" ELSE "delete"
    /\ todo' = Contents
    /\ NoFault
    /\ UNCHANGED <<console, journal, next, rollback, stream, title, current, preExisting,
                   placeholderCreated, registered, metaSet, recordPushed, listed, history>>

\* The journal or the content services cannot be opened: the journal stays.
RecoverFails ==
    /\ pc = "recover" /\ journal # None
    /\ Fault
    /\ Return
    /\ UNCHANGED <<console, journal, history>>

\* ContentMetaDatabaseRemove and Commit, their results ignored.
RollbackMeta ==
    /\ \/ /\ pc = "unset" /\ pc' = "uncommit"
          /\ \/ metaMem' = metaMem \ {journal.title} /\ NoFault /\ UNCHANGED ignored
             \/ Fault /\ ignored' = ignored \cup {"meta"} /\ UNCHANGED metaMem
          /\ UNCHANGED meta
       \/ /\ pc = "uncommit" /\ pc' = "delete"
          /\ \/ meta' = metaMem /\ NoFault /\ UNCHANGED ignored
             \/ Fault /\ ignored' = ignored \cup {"meta"} /\ UNCHANGED meta
          /\ UNCHANGED metaMem
    /\ UNCHANGED <<storage, holders, records, journal, next, rollback, stream, plan,
                   done, window, crashes>>

\* Mutant: contents that were there before are deleted too.
RollbackContentShared(c) ==
    /\ pc = "delete" /\ c \in todo
    /\ todo' = todo \ {c}
    /\ storage' = IF c \in journal.registered \cup journal.preExisting
                  THEN storage \ {c} ELSE storage
    /\ holders' = IF c \in journal.placeholderCreated THEN holders \ {c} ELSE holders
    /\ NoFault
    /\ UNCHANGED <<meta, metaMem, records, journal, pc, next, rollback, stream, title,
                   current, preExisting, placeholderCreated, registered, metaSet,
                   recordPushed, listed, history>>

\* One content of the journal; a failing deletion is ignored.
RollbackContent(c) ==
    /\ pc = "delete" /\ c \in todo
    /\ todo' = todo \ {c}
    /\ LET own == c \in journal.registered \ journal.preExisting
       IN \/ /\ storage' = IF own THEN storage \ {c} ELSE storage
             /\ holders' = IF ~own /\ c \in journal.placeholderCreated
                           THEN holders \ {c} ELSE holders
             /\ NoFault /\ UNCHANGED ignored
          \/ /\ own \/ c \in journal.placeholderCreated
             /\ Fault /\ ignored' = ignored \cup {"delete"}
             /\ UNCHANGED <<storage, holders>>
    /\ UNCHANGED <<meta, metaMem, records, journal, pc, next, rollback, stream, title,
                   current, preExisting, placeholderCreated, registered, metaSet,
                   recordPushed, listed, done, window, crashes>>

\* removeJournal, at the end of recovery.
ClearJournal ==
    /\ pc = "clear" \/ (pc = "delete" /\ todo = {})
    /\ \/ journal' = None /\ NoFault /\ Recovered
       \/ Fault /\ UNCHANGED journal /\ Return
    /\ UNCHANGED <<console, history>>

-----------------------------------------------------------------------------
(* installNspToSdTransactional and installNspStreamToSdTransactional       *)

Begin(t, fromStream) ==
    /\ pc = "idle"
    /\ pc' = "recover"
    /\ title' = t /\ stream' = fromStream
    /\ NoFault
    /\ UNCHANGED <<console, journal, next, rollback, todo, current, preExisting,
                   placeholderCreated, registered, metaSet, recordPushed, listed, history>>

\* The checks against what is installed: never the same title again, never a
\* patch without its base.
Refused == \/ title \in metaMem
           \/ title # BaseTitle /\ BaseTitle \notin metaMem

\* Bad package, no space, a service that does not open, or (from a file, where
\* the CNMT can be read first) a title that is refused: nothing was changed.
CheckFails ==
    /\ pc = "check"
    /\ Return
    /\ NoFault
    /\ UNCHANGED <<console, journal, history>>

\* The content plan and the first journal record.  (A placeholder that no
\* journal knows of stays on the card; the model follows only this plan's.)
Plan ==
    /\ pc = "check"
    /\ stream \/ ~Refused
    /\ todo' = Package[title]
    /\ preExisting' = Package[title] \cap storage
    /\ holders' = {}
    /\ Save("content")
    /\ NoFault
    /\ UNCHANGED <<storage, meta, metaMem, records, journal, rollback, stream, title, current,
                   placeholderCreated, registered, metaSet, recordPushed, listed, history>>

\* Cancelled by the user, a truncated package or stream, a failing call.
InstallFails ==
    /\ pc \in {"content", "write", "register", "meta", "set", "commit", "ticket",
               "list", "push"}
    /\ Fault
    /\ failRollback

SkipContent(c) ==
    /\ pc = "content" /\ c \in todo /\ c \in preExisting
    /\ todo' = todo \ {c}
    /\ NoFault
    /\ UNCHANGED <<console, journal, pc, next, rollback, stream, title, current, preExisting,
                   placeholderCreated, registered, metaSet, recordPushed, listed, history>>

CreatePlaceHolder(c) ==
    /\ pc = "content" /\ c \in todo \ preExisting
    /\ todo' = todo \ {c} /\ current' = {c}
    /\ holders' = holders \cup {c}
    /\ placeholderCreated' = placeholderCreated \cup {c}
    /\ Save("write")
    /\ NoFault
    /\ UNCHANGED <<storage, meta, metaMem, records, journal, rollback, stream, title,
                   preExisting, registered, metaSet, recordPushed, listed, history>>

WritePlaceHolder ==
    /\ pc = "write"
    /\ pc' = "register"
    /\ NoFault
    /\ UNCHANGED <<console, journal, next, rollback, stream, plan, history>>

\* Mutant: the journal is not told of the registration.
RegisterUnsaved ==
    /\ pc = "register"
    /\ holders' = holders \ current
    /\ storage' = storage \cup current
    /\ placeholderCreated' = placeholderCreated \ current
    /\ registered' = registered \cup current
    /\ pc' = "content"
    /\ NoFault
    /\ UNCHANGED <<meta, metaMem, records, journal, next, rollback, stream, title, todo,
                   current, preExisting, metaSet, recordPushed, listed, history>>

\* The placeholder becomes the registered content.
Register ==
    /\ pc = "register"
    /\ holders' = holders \ current
    /\ storage' = storage \cup current
    /\ placeholderCreated' = placeholderCreated \ current
    /\ registered' = registered \cup current
    /\ Save("content")
    /\ NoFault
    /\ UNCHANGED <<meta, metaMem, records, journal, rollback, stream, title, todo,
                   current, preExisting, metaSet, recordPushed, listed, history>>

ContentsDone ==
    /\ pc = "content" /\ todo = {}
    /\ pc' = "meta"
    /\ NoFault
    /\ UNCHANGED <<console, journal, next, rollback, stream, plan, history>>

\* From a stream, the title is checked only here.
StreamRefused ==
    /\ pc = "meta" /\ stream /\ Refused
    /\ failRollback
    /\ NoFault

\* Mutant: the meta database is changed before the journal says so.
MetaUnannounced ==
    /\ pc = "meta"
    /\ ~(stream /\ Refused)
    /\ metaSet' = TRUE
    /\ pc' = "set"
    /\ NoFault
    /\ UNCHANGED <<console, journal, next, rollback, stream, title, todo, current, preExisting,
                   placeholderCreated, registered, recordPushed, listed, history>>

\* Rollback intent first.
AnnounceMeta ==
    /\ pc = "meta"
    /\ ~(stream /\ Refused)
    /\ metaSet' = TRUE
    /\ Save("set")
    /\ NoFault
    /\ UNCHANGED <<console, journal, rollback, stream, title, todo, current, preExisting,
                   placeholderCreated, registered, recordPushed, listed, history>>

SetMeta ==
    /\ pc = "set"
    /\ metaMem' = metaMem \cup {title}
    /\ pc' = "commit"
    /\ NoFault
    /\ UNCHANGED <<storage, holders, meta, records, journal, next, rollback, stream, plan,
                   history>>

CommitMeta ==
    /\ pc = "commit"
    /\ meta' = metaMem
    /\ Save("ticket")
    /\ NoFault
    /\ UNCHANGED <<storage, holders, metaMem, records, journal, rollback, stream, plan,
                   history>>

\* A ticket, when the contents need one, is imported and journalled; it stays
\* whatever happens next.
ImportTicket ==
    /\ pc = "ticket"
    /\ \/ Save("list")
       \/ pc' = "list" /\ UNCHANGED next
    /\ NoFault
    /\ UNCHANGED <<console, journal, rollback, stream, plan, history>>

\* The record set there is, cut to what fits the buffer, and this title.  For
\* an Application a failure to list counts as an empty set.
ListRecords ==
    /\ pc = "list"
    /\ \/ /\ NoFault
          /\ \E kept \in SUBSET records :
                /\ Cardinality(kept) = IF Cardinality(records) > MaxRecords
                                       THEN MaxRecords ELSE Cardinality(records)
                /\ listed' = kept \cup {title}
       \/ Fault /\ title = BaseTitle /\ listed' = {title}
    /\ Save("push")
    /\ UNCHANGED <<console, journal, rollback, stream, title, todo, current, preExisting,
                   placeholderCreated, registered, metaSet, recordPushed, history>>

PushRecord ==
    /\ pc = "push"
    /\ records' = listed
    /\ recordPushed' = TRUE
    /\ Save("complete")
    /\ NoFault
    /\ UNCHANGED <<storage, holders, meta, metaMem, journal, rollback, stream, title, todo,
                   current, preExisting, placeholderCreated, registered, metaSet, listed,
                   history>>

\* The journal is marked complete and removed; a failing removal is ignored.
SaveComplete ==
    /\ pc = "complete"
    /\ Save("remove")
    /\ NoFault
    /\ UNCHANGED <<console, journal, rollback, stream, plan, history>>

Complete ==
    /\ pc = "remove"
    /\ \/ journal' = None /\ NoFault
       \/ Fault /\ UNCHANGED journal
    /\ Return
    /\ done' = done \cup {title}
    /\ UNCHANGED <<console, ignored, window, crashes>>

-----------------------------------------------------------------------------
\* The calls whose effect the journal on the card does not tell of yet.
Unjournalled == CASE pc = "rename" -> {"save"}
                  [] pc = "save" /\ next = "write" -> {"create"}
                  [] pc = "save" /\ next = "content" /\ current # {} -> {"register"}
                  [] pc = "save" /\ next = "complete" -> {"push"}
                  [] OTHER -> {}

\* Power is lost: what the services and the installer held in memory is gone.
PowerLoss ==
    /\ pc # "idle" /\ crashes < MaxCrashes
    /\ crashes' = crashes + 1
    /\ pc' = "idle" /\ ForgetPlan
    /\ metaMem' = meta
    /\ window' = window \cup Unjournalled
    /\ UNCHANGED <<storage, holders, meta, records, journal, done, ignored, faults>>

Next ==
    \/ \E t \in Titles, s \in BOOLEAN : Begin(t, s)
    \/ SaveJournal \/ SaveRename
    \/ RecoverNothing \/ RecoverJournal \/ RecoverFails
    \/ RollbackMeta \/ (\E c \in Contents : RollbackContent(c)) \/ ClearJournal
    \/ CheckFails \/ Plan \/ InstallFails
    \/ \E c \in Contents : SkipContent(c) \/ CreatePlaceHolder(c)
    \/ WritePlaceHolder \/ Register \/ ContentsDone
    \/ StreamRefused \/ AnnounceMeta \/ SetMeta \/ CommitMeta
    \/ ImportTicket \/ ListRecords \/ PushRecord \/ SaveComplete \/ Complete
    \/ PowerLoss

Spec == Init /\ [][Next]_vars

-----------------------------------------------------------------------------
(* Properties                                                              *)

\* The calls of an installation once its plan is made.
Steps == {"save", "rename", "content", "write", "register", "meta", "set", "commit",
          "ticket", "list", "push", "complete", "remove"}

\* The types of the console's state and of the installation's; a content is a
\* placeholder or registered, never both.
TypeOK ==
    /\ storage \subseteq Contents /\ holders \subseteq Contents
    /\ meta \subseteq Titles /\ metaMem \subseteq Titles /\ records \subseteq Titles
    /\ journal \in Journals \cup {None}
    /\ pc \in Steps \cup {"idle", "recover", "unset", "uncommit", "delete", "clear", "check"}
    /\ next \in Steps \cup {"idle"}
    /\ title \in Titles /\ todo \subseteq Contents /\ current \subseteq Contents
    /\ preExisting \subseteq Contents /\ placeholderCreated \subseteq Contents
    /\ registered \subseteq Contents \ placeholderCreated /\ listed \subseteq Titles
    /\ metaSet \in BOOLEAN /\ recordPushed \in BOOLEAN
    /\ rollback \in BOOLEAN /\ stream \in BOOLEAN
    /\ done \subseteq Titles /\ ignored \subseteq {"save", "meta", "delete"}
    /\ window \subseteq {"save", "create", "register", "push"}

\* An installed title stays whole: whatever later installations share with it,
\* fail at or are interrupted in, no rollback touches its contents, its meta
\* data or its record.  (As long as the journal was saved when it should be.)
InstalledKept ==
    "save" \notin ignored =>
        \A t \in done : Package[t] \subseteq storage /\ t \in meta /\ t \in records

\* Meta data in the database never names a content that is not there, at any
\* instant of an installation, a rollback or a restart.  (As long as the
\* rollback's own calls to the database succeed.)
MetaMeansContents ==
    "meta" \notin ignored /\ "save" \notin ignored =>
        \A t \in meta : Package[t] \subseteq storage

\* With no journal left, an interrupted or failed installation has left nothing:
\* exactly the installed titles are in storage, database and record.  What the
\* journal cannot tell is named: a failure nobody looked at, and a power cut
\* between a call and the journal's note of it.
RollbackClean == TypeOK /\
    (pc = "idle" /\ journal = None /\ ignored = {} /\ "save" \notin window =>
        /\ meta = done /\ metaMem = done
        /\ "create" \notin window => holders = {}
        /\ "register" \notin window => storage = UNION {Package[t] : t \in done}
        /\ "push" \notin window => records = done)

\* A title in the application record is installed (the comment in recovery:
\* "If it was successfully pushed, the installation itself is complete even if
\* power was lost before journal cleanup").
PushedIsInstalled ==
    pc = "idle" /\ journal = None =>
        \A t \in records : t \in meta /\ Package[t] \subseteq storage
-----------------------------------------------------------------------------
(* The inductive invariant behind the first three.                         *)

\* Where the installation is, the saving of the journal apart; does the journal
\* on the card call for a rollback?
At == IF pc \in {"save", "rename"} THEN next ELSE pc
Open == journal # None /\ ~journal.recordPushed

\* The plan: every content of the package is still to do, was there, or is
\* registered, apart from the one in its placeholder.
PlanSound ==
    /\ pc \in {"save", "rename"} => next \in Steps \ {"save", "rename", "register", "meta", "commit"}
    /\ pc = "check" => journal = None /\ ~rollback
    /\ pc \in {"unset", "uncommit", "delete"} => Open
    /\ pc \in {"unset", "uncommit"} => journal.metaSet /\ todo = Contents
    /\ pc = "clear" => ~Open
    /\ pc \notin Steps /\ ~rollback =>
          /\ current = {} /\ placeholderCreated = {} /\ registered = {}
          /\ ~metaSet /\ ~recordPushed
    /\ pc \in Steps =>
          /\ ~rollback
          /\ Package[title] = todo \cup preExisting \cup registered \cup placeholderCreated
          /\ registered \cap preExisting = {} /\ placeholderCreated \cap preExisting = {}
          /\ todo \cap (registered \cup placeholderCreated) = {}
          /\ preExisting \cup registered \subseteq storage
          /\ IF At \in {"write", "register"} THEN placeholderCreated = current
             ELSE placeholderCreated = {} /\ current \subseteq registered
          /\ current = {} => registered = {}
          /\ At \notin {"content", "write", "register"} => todo = {}
          /\ metaSet <=> At \notin {"content", "write", "register", "meta"}
          /\ recordPushed <=> At \in {"complete", "remove"}

\* saveJournal: the journal is at most one step behind the plan.
Noted(holding, registrations, meant, pushed) ==
    [title |-> title, metaSet |-> meant, recordPushed |-> pushed, preExisting |-> preExisting,
     placeholderCreated |-> holding, registered |-> registrations]
JournalKept ==
    /\ pc = "rename" => journal = None
    /\ pc \in Steps \ {"save", "rename"} => journal = Record
    /\ pc = "save" =>
          \/ journal = Record /\ next # "complete"
          \/ journal = None /\ next = "content" /\ current = {}
          \/ next = "content" /\ journal = Noted(current, registered \ current, FALSE, FALSE)
          \/ next = "write" /\ journal = Noted({}, registered, FALSE, FALSE)
          \/ next = "set" /\ journal = Noted({}, registered, FALSE, FALSE)
          \/ next = "complete" /\ journal = Noted({}, registered, TRUE, FALSE)
    /\ Open => journal.registered \cap journal.placeholderCreated = {}

\* The installed titles, and that nothing a rollback would undo is theirs.  A
\* title is not installed again, and the base never under its patches.
FirstTime(t) == t \notin done /\ (t = BaseTitle => done = {})
TitlesSafe ==
    /\ \A t \in done : Package[t] \subseteq storage
    /\ done \subseteq meta /\ done \subseteq metaMem /\ done \subseteq records
    /\ done # {} => BaseTitle \in meta /\ BaseTitle \in metaMem
    /\ Open => /\ \A t \in done : Package[t] \cap journal.registered \subseteq journal.preExisting
               /\ journal.metaSet => FirstTime(journal.title)
    /\ pc \in Steps /\ ~recordPushed =>
          /\ \A t \in done : Package[t] \cap Package[title] \subseteq preExisting
          /\ metaSet \/ ~stream => FirstTime(title) /\ (title = BaseTitle \/ BaseTitle \in metaMem)
    /\ pc \in Steps /\ At \in {"ticket", "list", "push", "complete", "remove"} =>
          meta = metaMem /\ title \in meta /\ BaseTitle \in meta
    /\ pc \in Steps /\ At = "commit" => title \in metaMem
    /\ pc \in Steps /\ At = "push" => done \cup {title} \subseteq listed
    /\ pc \in Steps /\ At \in {"complete", "remove"} => title \in records
    /\ pc \in {"complete", "remove"} \/ (pc \in {"save", "rename"} /\ next = "remove") => title \in done

\* No title in the database loses a content to a rollback, before its own entry.
MetaSafe ==
    /\ \A t \in meta \cup metaMem : Package[t] \subseteq storage
    /\ Open => \A t \in meta \cup metaMem :
          \/ t = journal.title /\ journal.metaSet
          \/ Package[t] \cap journal.registered \subseteq journal.preExisting
    /\ pc \in Steps /\ ~recordPushed => \A t \in meta \cup metaMem :
          \/ t = title /\ metaSet
          \/ Package[t] \cap Package[title] \subseteq preExisting
    /\ pc = "uncommit" => journal.title \notin metaMem
    /\ pc = "delete" /\ journal.metaSet => journal.title \notin meta \cup metaMem

\* What is on the console besides the installed titles is what the plan, or the
\* journal a rollback reads, says.
Whole == UNION {Package[t] : t \in done}
Pushed == pc \in {"save", "rename"} /\ next = "complete"
MetaAccounted ==
    \A t \in (meta \cup metaMem) \ done :
        \/ Open /\ journal.metaSet /\ t = journal.title
        \/ pc = "rename" /\ metaSet /\ t = title
HoldersAccounted ==
    IF pc \in Steps THEN holders = placeholderCreated
    ELSE /\ Open \/ holders = {}
         /\ Open => holders \subseteq journal.placeholderCreated
         /\ pc = "delete" => holders \subseteq todo
StorageAccounted ==
    IF pc \in Steps THEN storage = Whole \cup registered
    ELSE /\ storage \subseteq Whole \cup IF Open THEN journal.registered \ journal.preExisting ELSE {}
         /\ pc = "delete" => storage \subseteq Whole \cup todo
RecordsAccounted ==
    /\ records = done \cup IF Pushed THEN {title} ELSE {}
    /\ pc \in Steps /\ At = "push" => listed = done \cup {title}
Accounted ==
    /\ MetaAccounted
    /\ "create" \notin window => HoldersAccounted
    /\ "register" \notin window => StorageAccounted
    /\ "push" \notin window => RecordsAccounted

\* recoverStaleRealInstall finds in the journal what the installation it rolls
\* back has done, and nothing that an installed title needs.
NspInv ==
    /\ TypeOK /\ PlanSound
    /\ "save" \notin ignored =>
          /\ JournalKept /\ TitlesSafe
          /\ "meta" \notin ignored => MetaSafe
          /\ ignored = {} /\ "save" \notin window => Accounted
=============================================================================
