---------------------------- MODULE ExplorerJob ----------------------------
(***************************************************************************)
(* explorer::run, the worker of the file explorer: copy, move and delete   *)
(* of a selection and extraction of a ZIP. The card is a function from the *)
(* paths that exist to what is there. Every call that changes the card is  *)
(* a step of its own, between two of which the user may cancel, any call   *)
(* may fail, and the power may go.                                         *)
(*                                                                         *)
(* Selections and directory listings are processed in any order; a parent  *)
(* comes before its children when a tree is copied and after them when it  *)
(* is deleted. The clean-up of a failed job may fail as well: run ignores   *)
(* that, and leaves what it could not remove.                              *)
(***************************************************************************)
EXTENDS Naturals, Sequences, SequencesExt

CONSTANTS
    Component,  \* the names an entry of a folder can have
    Temps,      \* the names .aio-copy-<n>.tmp, in the order tempFor tries them
    Members     \* the ZIP: records [path, dir], in the order it lists them

Path == Seq(Component)

\* The checks extractZip makes of the names are assumed of Members: relative, not
\* the destination itself, no two the same.
ASSUME ExplorerAssumption ==
    /\ Temps \in Seq(Component) /\ IsInjective(Temps)
    /\ Members \in Seq([path : Path, dir : BOOLEAN])
    /\ \A i \in DOMAIN Members :
          /\ Members[i].path # <<>>
          /\ \A j \in DOMAIN Members : Members[i].path = Members[j].path => i = j

VARIABLES
    fs,         \* the card: path |-> "dir", "torn" or the content of a file
    before,     \* the card as it was when the job began
    job,        \* [op, sources, dest]
    pc,         \* where the worker is
    cancel,     \* jobCancel
    left,       \* sources not yet processed
    todo,       \* paths of the current source not yet processed
    at,         \* the current source
    member,     \* index of the current ZIP member
    file,       \* [src, dst, tmp] of the file being written
    staging,    \* directory a tree is copied into, <<>> if there is none
    made,       \* files this extraction created (createdFiles)
    dirs,       \* directories this extraction created (createdDirs)
    result      \* what run returned

walk == <<left, todo, at, member>>
undo == <<made, dirs>>
jobVars == <<before, job>>
workVars == <<pc, walk, file, staging, undo, result>>

-----------------------------------------------------------------------------
(* The card *)

Paths == DOMAIN fs
Under(f, p) == {q \in DOMAIN f : IsPrefix(p, q)}
Without(f, P) == [q \in DOMAIN f \ P |-> f[q]]
With(f, p, x) == [q \in DOMAIN f \cup {p} |-> IF q = p THEN x ELSE f[q]]

\* Mutant: what is not empty stays.
RemoveEmpty(f, p) == IF Under(f, p) = {p} THEN Without(f, {p}) ELSE f

\* std::filesystem::remove_all.
RemoveAll(f, p) == Without(f, Under(f, p))

\* q with its prefix a replaced by b.
Moved(q, a, b) == b \o SubSeq(q, Len(a) + 1, Len(q))

\* std::filesystem::rename: the tree at a is found at b, whatever was there.
Rename(f, a, b) ==
    LET rest == DOMAIN f \ (Under(f, a) \cup Under(f, b)) IN
    [q \in rest \cup {Moved(p, a, b) : p \in Under(f, a)} |->
        IF q \in rest THEN f[q] ELSE f[Moved(q, b, a)]]

\* A file that was being written is, once closed, a file with part of its content.
Settled(f) == [q \in DOMAIN f |-> IF f[q] = "torn" THEN "part" ELSE f[q]]

\* Where run puts a source: destination / source.filename().
Target(s) == Append(job.dest, Last(s))

\* The temporary names beside the target that are free.
FreeTemps(target) == {i \in DOMAIN Temps : LET p == Append(Front(target), Temps[i]) IN
                                             p # target /\ p \notin Paths}
\* Mutant: the target is written in place.
TempForInPlace(target) == target

\* tempFor: the first of them.
TempFor(target) ==
    Append(Front(target), Temps[CHOOSE i \in FreeTemps(target) : \A j \in FreeTemps(target) : i <= j])

NoJob == [op |-> "none", sources |-> {}, dest |-> <<>>]
NoFile == [src |-> <<>>, dst |-> <<>>, tmp |-> <<>>]

JobInit ==
    /\ before = fs
    /\ job = NoJob
    /\ pc = "idle" /\ cancel = FALSE
    /\ left = {} /\ todo = {} /\ at = <<>> /\ member = 1
    /\ file = NoFile /\ staging = <<>>
    /\ made = <<>> /\ dirs = {}
    /\ result = "none"

-----------------------------------------------------------------------------
(* The steps of run *)

Goto(p) == pc' = p

\* An exception: the handlers on the way out clean up.
Throw == Goto("unwind") /\ UNCHANGED <<fs, walk, file, staging, undo, result>>

\* The checks before anything is written. Cancelling stops the count of a
\* deletion here.
Valid(s) ==
    /\ s \in Paths
    /\ job.op \in {"copy", "move"} => ~IsPrefix(s, Target(s)) /\ Target(s) \notin Paths

MemberTarget(m) == job.dest \o m.path

Preflight ==
    /\ pc = "preflight"
    /\ \/ Throw
       \/ /\ \A s \in job.sources : Valid(s)
          /\ job.op # "zip"
          /\ ~(job.op = "delete" /\ cancel)
          /\ left' = job.sources
          /\ Goto("source")
          /\ UNCHANGED <<fs, todo, at, member, file, staging, undo, result>>
       \/ /\ job.op = "zip"
          /\ \A s \in job.sources : Valid(s)
          /\ job.dest = <<>> \/ (job.dest \in Paths /\ fs[job.dest] = "dir")
          /\ \A i \in DOMAIN Members : LET t == MemberTarget(Members[i]) IN
                t \in Paths => Members[i].dir /\ fs[t] = "dir"
          /\ member' = 1
          /\ Goto("member")
          /\ UNCHANGED <<fs, left, todo, at, file, staging, undo, result>>
    /\ UNCHANGED <<jobVars, cancel>>

\* The loop over the sources: a tree to delete, a rename, a tree to copy into a
\* staging directory, or a file to copy.
NextSource ==
    /\ pc = "source" /\ left # {}
    /\ \/ Throw
       \/ ~cancel /\ \E s \in left :
          /\ at' = s /\ left' = left \ {s}
          /\ \/ /\ job.op = "delete"
                /\ todo' = Under(fs, s) /\ Goto("delete")
                /\ UNCHANGED <<fs, file, staging>>
             \/ /\ job.op = "move" /\ Target(s) \notin Paths
                /\ fs' = Rename(fs, s, Target(s))
                /\ UNCHANGED <<pc, todo, file, staging>>
             \/ /\ job.op = "copy" /\ fs[s] = "dir" /\ FreeTemps(Target(s)) # {}
                /\ staging' = TempFor(Target(s))
                /\ fs' = With(fs, staging', "dir")
                /\ todo' = Under(fs, s) \ {s} /\ Goto("tree")
                /\ UNCHANGED file
             \/ /\ job.op = "copy" /\ fs[s] # "dir"
                /\ file' = [src |-> s, dst |-> Target(s), tmp |-> <<>>] /\ Goto("file")
                /\ UNCHANGED <<fs, todo, staging>>
          /\ UNCHANGED <<member, undo, result>>
    /\ UNCHANGED <<jobVars, cancel>>

\* removeTree: one entry, its children gone already.
DeleteNode ==
    /\ pc = "delete"
    /\ \/ Throw
       \/ /\ todo = {} /\ Goto("source")
          /\ UNCHANGED <<fs, walk, file, staging, undo, result>>
       \/ /\ ~cancel
          /\ \E p \in todo :
                /\ \A q \in todo \ {p} : ~IsPrefix(p, q)
                /\ fs' = Without(fs, {p})
                /\ todo' = todo \ {p}
          /\ UNCHANGED <<pc, left, at, member, file, staging, undo, result>>
    /\ UNCHANGED <<jobVars, cancel>>

\* copyTree: the next entry of the source, a directory to create or a file to
\* copy; then the whole staging directory takes the name of the target.
CopyNode ==
    /\ pc = "tree"
    /\ \/ Throw
       \/ /\ ~cancel /\ todo # {}
          /\ \E p \in todo :
                /\ Front(p) \notin todo
                /\ todo' = todo \ {p}
                /\ LET dst == Moved(p, at, staging) IN
                   \/ /\ fs[p] = "dir" /\ dst \notin Paths
                      /\ fs' = With(fs, dst, "dir") /\ UNCHANGED <<pc, file>>
                   \/ /\ fs[p] # "dir" /\ Goto("file")
                      /\ file' = [src |-> p, dst |-> dst, tmp |-> <<>>]
                      /\ UNCHANGED fs
          /\ UNCHANGED <<left, at, member, staging, undo, result>>
       \/ /\ todo = {} /\ ~cancel /\ Target(at) \notin Paths
          /\ fs' = Rename(fs, staging, Target(at))
          /\ staging' = <<>>
          /\ Goto("source")
          /\ UNCHANGED <<walk, file, undo, result>>
    /\ UNCHANGED <<jobVars, cancel>>

\* A file, copied or extracted: its temporary is created ...
OpenTemp ==
    /\ pc = "file"
    /\ \/ Throw
       \/ /\ FreeTemps(file.dst) # {}
          /\ file' = [file EXCEPT !.tmp = TempFor(file.dst)]
          /\ fs' = With(fs, file'.tmp, "torn")
          /\ Goto("fill")
          /\ UNCHANGED <<walk, staging, undo, result>>
    /\ UNCHANGED <<jobVars, cancel>>

\* ... filled, flushed, closed and compared with its size or its CRC ...
FillTemp ==
    /\ pc = "fill"
    /\ \/ Throw
       \/ /\ ~cancel
          /\ fs' = With(fs, file.tmp, IF job.op = "zip" THEN "member" ELSE fs[file.src])
          /\ Goto("commit")
          /\ UNCHANGED <<walk, file, staging, undo, result>>
    /\ UNCHANGED <<jobVars, cancel>>

FileDone ==
    /\ file' = NoFile
    /\ IF job.op = "zip" THEN member' = member + 1 /\ Goto("member")
       ELSE UNCHANGED member /\ Goto(IF staging = <<>> THEN "source" ELSE "tree")
    /\ made' = IF job.op = "zip" THEN Append(made, file.dst) ELSE made

\* ... and renamed to the target, if that is still free.
CommitTemp ==
    /\ pc = "commit"
    /\ \/ Throw
       \/ /\ file.dst \notin Paths
          /\ fs' = Rename(fs, file.tmp, file.dst)
          /\ FileDone
          /\ UNCHANGED <<left, todo, at, staging, dirs, result>>
    /\ UNCHANGED <<jobVars, cancel>>

\* Mutant: directories that exist already are noted as created.
MissingAll(folder) == {SubSeq(folder, 1, n) : n \in Len(job.dest) + 1 .. Len(folder)}

\* extractZip, one member: the missing directories above it are noted, then
\* created, all of them or, when that fails, some.
Missing(folder) == {SubSeq(folder, 1, n) : n \in Len(job.dest) + 1 .. Len(folder)} \ Paths

NextMember ==
    /\ pc = "member" /\ member <= Len(Members)
    /\ \/ cancel /\ Throw
       \/ /\ ~cancel
          /\ LET m == Members[member]
                 target == MemberTarget(m)
                 folder == IF m.dir THEN target ELSE Front(target)
                 blocked == \E q \in Paths : IsPrefix(q, folder) /\ fs[q] # "dir"
             IN
             /\ dirs' = dirs \cup Missing(folder)
             /\ \/ /\ \E n \in 0 .. Len(folder) :
                        LET new == {q \in Missing(folder) : Len(q) <= n /\ ~blocked} IN
                        fs' = [q \in Paths \cup new |-> IF q \in new THEN "dir" ELSE fs[q]]
                   /\ Goto("unwind")
                   /\ UNCHANGED <<member, file>>
                \/ /\ ~blocked
                   /\ fs' = [q \in Paths \cup Missing(folder) |->
                                IF q \in Paths THEN fs[q] ELSE "dir"]
                   /\ IF m.dir THEN member' = member + 1 /\ UNCHANGED <<pc, file>>
                      ELSE /\ file' = [src |-> <<>>, dst |-> target, tmp |-> <<>>]
                           /\ Goto("file") /\ UNCHANGED member
          /\ UNCHANGED <<left, todo, at, staging, made, result>>
    /\ UNCHANGED <<jobVars, cancel>>

\* The handlers: the temporary file goes, then the staging directory or, newest
\* first, the files and the directories the extraction made. A directory that
\* is not empty stays.
Unwind ==
    /\ pc = "unwind"
    /\ \/ /\ file.tmp # <<>>
          /\ fs' = Without(fs, {file.tmp}) /\ file' = NoFile
          /\ UNCHANGED <<pc, walk, staging, undo, result>>
       \/ /\ file.tmp = <<>> /\ staging # <<>>
          /\ fs' = RemoveAll(fs, staging) /\ staging' = <<>>
          /\ UNCHANGED <<pc, walk, file, undo, result>>
       \/ /\ file.tmp = <<>> /\ staging = <<>> /\ made # <<>>
          /\ fs' = Without(fs, {Last(made)}) /\ made' = Front(made)
          /\ UNCHANGED <<pc, walk, file, staging, dirs, result>>
       \/ /\ file.tmp = <<>> /\ staging = <<>> /\ made = <<>> /\ dirs # {}
          /\ \E d \in dirs :
                /\ \A q \in dirs \ {d} : ~IsPrefix(d, q)
                /\ fs' = Without(fs, IF Under(fs, d) = {d} THEN {d} ELSE {})
                /\ dirs' = dirs \ {d}
          /\ UNCHANGED <<pc, walk, file, staging, made, result>>
       \/ /\ file.tmp = <<>> /\ staging = <<>> /\ made = <<>> /\ dirs = {}
          /\ Goto("ended") /\ result' = "error" /\ file' = NoFile
          /\ UNCHANGED <<fs, walk, staging, undo>>
    /\ UNCHANGED <<jobVars, cancel>>

\* What the handlers are to remove.
Litter == Paths \cap ({file.tmp} \cup Range(made) \cup dirs
                     \cup (IF staging = <<>> THEN {} ELSE Under(fs, staging)))

\* They ignore the errors of the card: of what they are to remove any part may
\* stay, what a folder holds keeping the folder. What stays remains in file,
\* staging, made and dirs. The message is that of the first error all the same;
\* "remains" is the model's word. A power cut on the way leaves no other card
\* than one after this step.
UnwindRemains ==
    /\ pc = "unwind"
    /\ \E gone \in SUBSET Litter :
          /\ gone # Litter
          /\ \A p \in gone : Under(fs, p) \subseteq gone
          /\ fs' = Settled(Without(fs, gone))
    /\ file' = IF file.tmp \in DOMAIN fs' THEN file ELSE NoFile
    /\ staging' = IF staging \in DOMAIN fs' THEN staging ELSE <<>>
    /\ Goto("ended") /\ result' = "remains"
    /\ UNCHANGED <<walk, undo, jobVars, cancel>>

\* run returns its message, and the thread raises jobFinished.
Succeed ==
    /\ \/ pc = "source" /\ left = {}
       \/ pc = "member" /\ member > Len(Members)
    /\ Goto("ended") /\ result' = "ok"
    /\ made' = <<>> /\ dirs' = {}
    /\ UNCHANGED <<fs, walk, file, staging, jobVars, cancel>>

Work == \/ Preflight \/ NextSource \/ DeleteNode \/ CopyNode \/ OpenTemp \/ FillTemp
        \/ CommitTemp \/ NextMember \/ Unwind \/ UnwindRemains \/ Succeed

=============================================================================
