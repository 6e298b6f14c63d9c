---------------------------- MODULE FileExplorer ----------------------------
(***************************************************************************)
(* FileExplorerView, the page of the file explorer, composed with the      *)
(* worker of ExplorerJob: two panes, a clipboard that outlives jobs and    *)
(* renames, and at most one job, during which the page accepts nothing but *)
(* the cancel key.                                                         *)
(***************************************************************************)
EXTENDS ExplorerJob

CONSTANTS
    Cards,      \* the cards a behaviour may start with
    Names,      \* names the user types
    ZipFile,    \* the path of the ZIP file
    MaxOps,     \* bound: jobs, renames and new folders in a behaviour
    MaxDepth    \* bound: length of a path the user works on

\* Paths are not empty, and what lies above an entry is a directory.
Tree(f) ==
    \A p \in DOMAIN f :
        /\ p \in Path /\ p # <<>>
        /\ \A n \in 1 .. Len(p) - 1 : SubSeq(p, 1, n) \in DOMAIN f /\ f[SubSeq(p, 1, n)] = "dir"

ASSUME PageAssumption ==
    /\ MaxOps \in Nat /\ MaxDepth \in Nat
    /\ Names \subseteq Component
    /\ \A f \in Cards : Tree(f) /\ \A p \in DOMAIN f : f[p] # "torn"

VARIABLES
    panes,      \* the folders shown: <<active, other>>
    clipboard,  \* paths staged by copy or cut
    cut,        \* clipboardCut
    busy,       \* a job was started and its end not yet seen
    ops         \* jobs, renames and new folders so far

page == <<panes, clipboard, cut, busy, ops>>
vars == <<fs, jobVars, cancel, workVars, page>>

Init ==
    /\ fs \in Cards
    /\ JobInit
    /\ panes = << <<>>, <<>> >>
    /\ clipboard = {} /\ cut = FALSE
    /\ busy = FALSE /\ ops = 0

Idle == ~busy
Folder(p) == p = <<>> \/ (p \in Paths /\ fs[p] = "dir")
Children(p) == {q \in Paths : q # <<>> /\ Front(q) = p}
Selection == SUBSET Children(panes[1]) \ {{}}

-----------------------------------------------------------------------------
(* What the user does while no job runs *)

\* open() on a folder, onBack().
Navigate ==
    /\ Idle
    /\ \/ \E q \in Children(panes[1]) : Folder(q) /\ Len(q) < MaxDepth /\ panes' = <<q, panes[2]>>
       \/ panes[1] # <<>> /\ panes' = <<Front(panes[1]), panes[2]>>
    /\ UNCHANGED <<fs, jobVars, cancel, workVars, clipboard, cut, busy, ops>>

SwitchPane ==
    /\ Idle
    /\ panes' = <<panes[2], panes[1]>>
    /\ UNCHANGED <<fs, jobVars, cancel, workVars, clipboard, cut, busy, ops>>

StageClipboard ==
    /\ Idle
    /\ clipboard' \in Selection
    /\ cut' \in BOOLEAN
    /\ UNCHANGED <<fs, jobVars, cancel, workVars, panes, busy, ops>>

\* The user's own change is not a job's: the card the next job is compared with
\* is the one it finds.
Edit(f) ==
    /\ Idle /\ ops < MaxOps
    /\ fs' = f /\ before' = f
    /\ ops' = ops + 1
    /\ UNCHANGED <<job, cancel, workVars, cut, busy>>

\* A clipboard that names the entry or something in it is dropped.
RenamedClipboard(q) == IF \E c \in clipboard : IsPrefix(q, c) THEN {} ELSE clipboard

\* renameEntry; not a folder the other pane shows or is inside of.
RenameEntry ==
    \E q \in Children(panes[1]), n \in Names :
        LET target == Append(Front(q), n) IN
        /\ ~IsPrefix(q, panes[2])
        /\ target \notin Paths
        /\ Edit(Rename(fs, q, target))
        /\ clipboard' = RenamedClipboard(q)
        /\ UNCHANGED panes

CreateFolder ==
    \E n \in Names :
        LET target == Append(panes[1], n) IN
        /\ target \notin Paths /\ Len(target) < MaxDepth
        /\ Edit(With(fs, target, "dir"))
        /\ UNCHANGED <<panes, clipboard>>

\* The worker has nothing in hand.
Rest ==
    /\ left' = {} /\ todo' = {} /\ at' = <<>> /\ member' = 1
    /\ file' = NoFile /\ staging' = <<>> /\ made' = <<>> /\ dirs' = {}
    /\ result' = "none"
    /\ cancel' = FALSE

\* startJob.
Start(op, sources, dest) ==
    /\ Idle /\ ops < MaxOps
    /\ job' = [op |-> op, sources |-> sources, dest |-> dest]
    /\ before' = fs
    /\ busy' = TRUE /\ ops' = ops + 1
    /\ pc' = "preflight" /\ Rest
    /\ UNCHANGED <<fs, panes, clipboard, cut>>

Fits(sources, dest) ==
    \A s \in sources : \A q \in Under(fs, s) : Len(Moved(q, Front(s), dest)) <= MaxDepth

\* paste() into the active folder or a folder in it.
Paste ==
    /\ clipboard # {}
    /\ \E d \in {panes[1]} \cup {q \in Children(panes[1]) : Folder(q)} :
          Fits(clipboard, d) /\ Start(IF cut THEN "move" ELSE "copy", clipboard, d)

\* actions(), entryMenu(): copy and move to the other pane, delete, extract.
ToOtherPane ==
    \E S \in Selection, op \in {"copy", "move"} :
        Fits(S, panes[2]) /\ Start(op, S, panes[2])

Delete == \E S \in Selection : Start("delete", S, <<>>)

ExtractZip ==
    /\ ZipFile \in Children(panes[1])
    /\ \E d \in {panes[1], panes[2]} : Start("zip", {ZipFile}, d)

-----------------------------------------------------------------------------
(* While a job runs, and its end *)

Cancel ==
    /\ busy /\ ~cancel
    /\ cancel' = TRUE
    /\ UNCHANGED <<fs, jobVars, workVars, page>>

WorkStep == Work /\ UNCHANGED page

\* Mutant: only the clipboard of a job that succeeded is looked at.
SettledOnSuccess == IF result = "ok" THEN {c \in clipboard : c \in Paths} ELSE clipboard

\* A job that moved or deleted what the clipboard names drops it; one that
\* failed on the way drops the paths that are gone.
SettledClipboard ==
    IF job.op \notin {"move", "delete"} THEN clipboard
    ELSE IF result = "ok" /\ \E c \in clipboard, s \in job.sources : IsPrefix(s, c) THEN {}
    ELSE {c \in clipboard : c \in Paths}

\* The folder a pane falls back to: the nearest one that still exists.
Nearest(p) == LET ups == {n \in 0 .. Len(p) : Folder(SubSeq(p, 1, n))} IN
              SubSeq(p, 1, CHOOSE n \in ups : \A m \in ups : m <= n)

\* finishJob, from draw().
FinishJob ==
    /\ busy /\ pc = "ended"
    /\ busy' = FALSE /\ pc' = "idle"
    /\ clipboard' = SettledClipboard
    /\ cut' = (cut /\ clipboard' # {})
    /\ panes' = <<Nearest(panes[1]), Nearest(panes[2])>>
    /\ before' = fs /\ job' = NoJob /\ Rest
    /\ UNCHANGED <<fs, ops>>

\* The power goes during a job: the card keeps what is on it, a temporary file
\* that was being written is one more file the user finds.
PowerLoss ==
    /\ busy
    /\ fs' = Settled(fs)
    /\ before' = fs' /\ job' = NoJob
    /\ busy' = FALSE /\ pc' = "idle" /\ Rest
    /\ panes' = << <<>>, <<>> >> /\ clipboard' = {} /\ cut' = FALSE
    /\ UNCHANGED ops

User == \/ Navigate \/ SwitchPane \/ StageClipboard \/ RenameEntry \/ CreateFolder
        \/ Paste \/ ToOtherPane \/ Delete \/ ExtractZip \/ Cancel

Next == User \/ WorkStep \/ FinishJob \/ PowerLoss

Spec == Init /\ [][Next]_vars
-----------------------------------------------------------------------------
(* Properties *)

Sourced(p) == \E s \in job.sources : IsPrefix(s, p)
Temporary(p) == Last(p) \in Range(Temps)

TypeOK ==
    /\ busy = (pc # "idle")
    /\ result \in {"none", "ok", "error", "remains"}
    /\ Tree(fs)
    /\ ~busy => file = NoFile /\ staging = <<>> /\ made = <<>> /\ dirs = {}
    /\ \A p \in Paths : fs[p] = "torn" => p = file.tmp

\* Nothing the user had on the card is replaced, changed or removed, except what
\* a move or a deletion was asked to take away: not by a copy onto an existing
\* name, not by an extraction, not by the rollback of either
\* (file_explorer_ops.hpp: "Existing destinations are never replaced").
UserFilesKept ==
    \A p \in DOMAIN before :
        \/ p \in Paths /\ fs[p] = before[p]
        \/ job.op \in {"move", "delete"} /\ Sourced(p)

\* Whatever stands under a final name is whole, at every moment and therefore
\* after a power cut: a copied tree has all of its files, a moved one is in one
\* of its two places, an extracted file has its content. (A target whose own
\* name is a temporary one, left by a power cut, lends it to the others.)
TargetsWhole == TypeOK /\
    \/ job.op \notin {"copy", "move", "zip"}
    \/ /\ job.op = "zip"
       /\ \A i \in DOMAIN Members : LET t == MemberTarget(Members[i]) IN
             t \in Paths \ DOMAIN before /\ ~Temporary(t) => fs[t] = IF Members[i].dir THEN "dir" ELSE "member"
    \/ /\ job.op \in {"copy", "move"}
       /\ \A s \in job.sources :
             /\ Target(s) \in Paths \ DOMAIN before /\ ~Temporary(Target(s)) =>
                   \A q \in Under(before, s) : LET t == Moved(q, s, Target(s)) IN
                      t \in Paths /\ fs[t] = before[q]
             /\ job.op = "move" /\ s \in DOMAIN before /\ Target(s) \notin DOMAIN before =>
                   ((s \in Paths) # (Target(s) \in Paths))

\* The temporary file or staging directory of a copy, or something in it.
OfCopy(p) == \E t \in Range(Temps) : IsPrefix(Append(job.dest, t), p)

\* A temporary file, a member of the ZIP or a folder above one.
OfZip(p) == Temporary(p) \/ \E i \in DOMAIN Members : IsPrefix(p, MemberTarget(Members[i]))

\* What run reports is what the card holds. Success: every source is at its
\* target, gone, or extracted. Error or cancel: an extraction has left nothing, a
\* copy or a move nothing but complete targets, a deletion nothing new. Where the
\* clean-up failed too, what it left of a copy is beside the targets under a
\* temporary name, and of an extraction what an extraction writes: nothing else
\* in the folder is new.
ResultTrue ==
    LET new == Paths \ DOMAIN before
        whole == UNION {Under(fs, Target(s)) : s \in job.sources} IN
    /\ result = "ok" =>
          CASE job.op \in {"copy", "move"} -> \A s \in job.sources : Target(s) \in Paths
            [] job.op = "delete" -> \A p \in Paths : ~Sourced(p)
            [] OTHER -> \A i \in DOMAIN Members : MemberTarget(Members[i]) \in Paths
    /\ result = "error" =>
          CASE job.op \in {"copy", "move"} -> new \subseteq whole
            [] OTHER -> new = {}
    /\ result = "remains" =>
          CASE job.op = "copy" -> \A p \in new \ whole : OfCopy(p)
            [] job.op = "zip" -> \A p \in new : OfZip(p)
            [] OTHER -> FALSE

\* Between jobs the page only offers what exists: every path on the clipboard and
\* the folder of each pane, after any renames, moves, deletions and failures.
PageShowsWhatExists ==
    ~busy => /\ clipboard \subseteq Paths
             /\ \A i \in 1 .. 2 : Folder(panes[i])

=============================================================================
