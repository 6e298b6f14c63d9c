------------------------- MODULE FileExplorerProofs -------------------------
(***************************************************************************)
(* The four promises of the file explorer, for every card, archive and set *)
(* of names, any number of jobs and any failure, cancellation or power cut *)
(* between their steps. The invariant says, for each kind of job, what the *)
(* paths are that the card has and did not have when the job began, and    *)
(* how much of each source is done.                                        *)
(***************************************************************************)
EXTENDS FileExplorer, SequenceTheorems, NaturalsInduction, WellFoundedInduction, TLAPS

-----------------------------------------------------------------------------
(* The invariant *)

Steps == {"idle", "preflight", "source", "delete", "tree", "file", "fill", "commit",
          "member", "unwind", "ended"}

\* The steps that have a file in hand.
Writing == {"file", "fill", "commit"}

IsFolder(f, p) == p = <<>> \/ (p \in DOMAIN f /\ f[p] = "dir")
Siblings(S) == \A s, t \in S : s # <<>> /\ Front(s) = Front(t)
New == Paths \ DOMAIN before

Types ==
    /\ pc \in Steps /\ busy = (pc # "idle")
    /\ job \in [op : {"none", "copy", "move", "delete", "zip"}, sources : SUBSET Path, dest : Path]
    /\ file \in [src : Path, dst : Path, tmp : Path]
    /\ panes \in Path \X Path
    /\ clipboard \in SUBSET Path /\ Siblings(clipboard)
    /\ Siblings(job.sources)
    /\ left \subseteq job.sources /\ todo \in SUBSET Path /\ at \in Path /\ member \in Nat \ {0}
    /\ staging \in Path /\ made \in Seq(Path) /\ dirs \in SUBSET Path
    /\ result \in {"none", "ok", "error", "remains"} /\ (result # "none") = (pc = "ended")

\* The two cards, and what the user had of the first.
CardInv ==
    /\ Tree(fs) /\ Tree(before)
    /\ \A p \in DOMAIN before : before[p] # "torn"
    /\ \A p \in Paths : fs[p] = "torn" => p = file.tmp
    /\ UserFilesKept

\* What the worker holds at each step.
HandInv ==
    /\ pc \in {"idle", "preflight"} => fs = before
    /\ pc \in {"idle", "preflight"} \/ result \in {"ok", "error"} => staging = <<>> /\ made = <<>> /\ dirs = {}
    /\ pc \notin Writing \cup {"unwind"} => file = NoFile \/ result = "remains"
    /\ pc = "ended" => \A p \in Paths : fs[p] # "torn"
    /\ result = "remains" => job.op \in {"copy", "zip"}
    /\ pc = "file" => file.tmp = <<>>
    /\ pc \in {"fill", "commit"} => file.tmp # <<>>
    /\ pc = "idle" => job = NoJob
    /\ busy => job.op # "none" /\ IsFolder(before, job.dest)
    /\ pc \in {"tree"} \cup Writing => job.op \in {"copy", "zip"}
    /\ pc = "tree" => job.op = "copy" /\ staging # <<>>
    /\ pc = "delete" => job.op = "delete"
    /\ pc = "source" => job.op \in {"copy", "move", "delete"} /\ staging = <<>>
    /\ pc = "member" => job.op = "zip"

\* The temporary file.
TempInv ==
    file.tmp # <<>> =>
        /\ job.op \in {"copy", "zip"}
        /\ file.tmp \in New /\ fs[file.tmp] # "dir"
        /\ Last(file.tmp) \in Range(Temps)
        /\ pc \in {"fill", "commit"} => Front(file.tmp) = Front(file.dst) /\ file.tmp # file.dst
        /\ pc = "commit" => fs[file.tmp] = IF job.op = "zip" THEN "member" ELSE before[file.src]

\* The sources as the checks before the job found them.
SourcesInv ==
    pc \in {"source", "delete", "tree"} \cup Writing /\ job.op # "zip" =>
        \A s \in job.sources :
            /\ s \in DOMAIN before
            /\ job.op \in {"copy", "move"} => ~IsPrefix(s, Target(s)) /\ Target(s) \notin DOMAIN before

\* The tree that was at s is at its target.
Whole(s) == \A q \in Under(before, s) : LET t == Moved(q, s, Target(s)) IN
                t \in Paths /\ fs[t] = before[q]

\* s is the source in hand.
InHand(s) == pc \in {"delete", "tree"} \cup Writing /\ s = at

\* What a copy or a move has put on the card is a target, or will be one or go.
TargetInv ==
    job.op \in {"copy", "move"} =>
        /\ made = <<>> /\ dirs = {}
        /\ \A x \in New : \/ x = file.tmp
                          \/ staging # <<>> /\ IsPrefix(staging, x)
                          \/ \E s \in job.sources : IsPrefix(Target(s), x)
        /\ \A s \in job.sources : Target(s) \in New \ {file.tmp, staging} => Whole(s)
        /\ pc \in {"source", "tree"} \cup Writing \/ result = "ok" =>
              \A s \in job.sources \ left : InHand(s) \/ Target(s) \in Paths \ {file.tmp, staging}
        /\ pc \in {"tree"} \cup Writing => at \in job.sources \ left
        /\ result = "ok" => left = {}

CopyInv ==
    job.op = "copy" =>
        /\ staging # <<>> =>
              /\ staging \in New /\ fs[staging] = "dir"
              /\ Front(staging) = job.dest /\ Last(staging) \in Range(Temps)
              /\ file.tmp # <<>> => IsPrefix(staging, file.tmp)
        /\ staging = <<>> /\ file.tmp # <<>> => Front(file.tmp) = job.dest
        /\ pc \in {"tree"} \cup Writing /\ staging # <<>> =>
              /\ before[at] = "dir"
              /\ todo \subseteq Under(before, at) \ {at}
              /\ \A q \in Under(before, at) \ (todo \cup {file.src}) :
                    LET t == Moved(q, at, staging) IN
                    t \in Paths /\ t # file.tmp /\ fs[t] = before[q]
        /\ pc \in Writing =>
              /\ file.src \in DOMAIN before /\ before[file.src] # "dir"
              /\ IsPrefix(at, file.src)
              /\ staging = <<>> => file.src = at /\ file.dst = Target(at)
              /\ staging # <<>> =>
                    /\ file.src # at /\ Front(file.src) \notin todo
                    /\ file.dst = Moved(file.src, at, staging)

MoveInv ==
    job.op = "move" =>
        /\ staging = <<>>
        /\ pc = "source" => \A s \in left : \A q \in Under(before, s) : q \in Paths /\ fs[q] = before[q]
        /\ \A s \in job.sources : s \in DOMAIN before /\ Target(s) \notin DOMAIN before =>
              ((s \in Paths) # (Target(s) \in Paths))

DeleteInv ==
    job.op = "delete" =>
        /\ Paths \subseteq DOMAIN before
        /\ staging = <<>> /\ made = <<>> /\ dirs = {}
        /\ pc = "delete" => todo = Under(fs, at) /\ at \in job.sources \ left
        /\ pc \in {"source", "delete"} \/ result = "ok" =>
              \A s \in job.sources \ left : InHand(s) \/ Under(fs, s) = {}
        /\ result = "ok" => left = {}

\* What an extraction has put on the card is in the hands of its rollback.
ZipInv ==
    job.op = "zip" =>
        /\ staging = <<>>
        /\ New \subseteq {file.tmp} \cup Range(made) \cup dirs \/ result = "ok"
        /\ \A k \in DOMAIN made :
              /\ made[k] \in Paths \/ result # "remains" =>
                    made[k] \in New \ {file.tmp} /\ fs[made[k]] = "member"
              /\ \A l \in DOMAIN made : made[k] = made[l] => k = l
        /\ dirs \cap DOMAIN before = {}
        /\ \A d \in dirs \cap Paths : fs[d] = "dir"
        /\ pc \in {"member"} \cup Writing => dirs \subseteq Paths
        /\ pc \in {"member"} \cup Writing \/ result = "ok" =>
              \A i \in DOMAIN Members : i < member => MemberTarget(Members[i]) \in Paths \ {file.tmp}
        /\ result = "ok" => member > Len(Members)
        /\ pc \in Writing =>
              /\ member \in DOMAIN Members /\ ~Members[member].dir
              /\ file.dst = MemberTarget(Members[member])
              /\ IsFolder(fs, Front(file.dst))

PageInv ==
    /\ ~busy => clipboard \subseteq Paths /\ Folder(panes[1]) /\ Folder(panes[2])
    /\ busy => clipboard \subseteq DOMAIN before

ExplorerInv ==
    /\ Types /\ CardInv /\ HandInv /\ TempInv /\ SourcesInv /\ TargetInv
    /\ CopyInv /\ MoveInv /\ DeleteInv /\ ZipInv /\ PageInv

-----------------------------------------------------------------------------
(* Paths *)

LEMMA PrefixPoint ==
    ASSUME NEW a \in Path, NEW b \in Path
    PROVE  IsPrefix(a, b) <=> Len(a) <= Len(b) /\ \A i \in 1 .. Len(a) : a[i] = b[i]
<1>0. /\ Len(a) \in Nat /\ Len(b) \in Nat
      /\ \A i \in 1 .. Len(a) : a[i] \in Component
      /\ \A i \in 1 .. Len(b) : b[i] \in Component
  BY DEF Path
<1>1. SubSeq(a, 1, Len(a)) = a
  BY SubSeqFull DEF Path
<1>2. CASE Len(a) <= Len(b)
  <2>1. /\ SubSeq(b, 1, Len(a)) \in Path /\ Len(SubSeq(b, 1, Len(a))) = Len(a)
        /\ \A i \in 1 .. Len(a) : SubSeq(b, 1, Len(a))[i] = b[i]
    <3>1. \A i \in 1 .. Len(a) : b[i] \in Component
      BY <1>0, <1>2
    <3>2. /\ SubSeq(b, 1, Len(a)) \in Seq(Component)
          /\ Len(SubSeq(b, 1, Len(a))) = IF 1 <= Len(a) THEN Len(a) - 1 + 1 ELSE 0
          /\ \A i \in 1 .. Len(a) - 1 + 1 : SubSeq(b, 1, Len(a))[i] = b[1 + i - 1]
      BY <1>0, <3>1, SubSeqProperties
    <3> QED BY <1>0, <3>2 DEF Path
  <2>2. (\A i \in 1 .. Len(a) : a[i] = b[i]) => a = SubSeq(b, 1, Len(a))
    BY <2>1, SeqEqual DEF Path
  <2> QED BY <1>1, <1>2, <2>1, <2>2 DEF IsPrefix
<1>3. CASE ~(Len(a) <= Len(b))
  BY <1>3 DEF IsPrefix
<1> QED BY <1>2, <1>3

\* The order of the paths: what lies above what.
LEMMA PrefixOrder ==
    /\ \A a \in Path : Len(a) \in Nat /\ IsPrefix(a, a) /\ IsPrefix(<<>>, a)
    /\ <<>> \in Path /\ Len(<<>>) = 0
    /\ \A a \in Path : Len(a) = 0 => a = <<>>
    /\ \A a, b \in Path : IsPrefix(a, b) => Len(a) <= Len(b)
    /\ \A a, b \in Path : IsPrefix(a, b) /\ Len(b) <= Len(a) => a = b
    /\ \A a, b, c \in Path : IsPrefix(a, b) /\ IsPrefix(b, c) => IsPrefix(a, c)
    /\ \A a, b, c \in Path : IsPrefix(a, c) /\ IsPrefix(b, c) /\ Len(a) <= Len(b) => IsPrefix(a, b)
<1>0. <<>> \in Path /\ Len(<<>>) = 0 /\ \A a \in Path : Len(a) \in Nat
  BY DEF Path
<1>1. \A a \in Path : IsPrefix(a, a) /\ IsPrefix(<<>>, a)
  BY <1>0, PrefixPoint
<1>2. \A a \in Path : Len(a) = 0 => a = <<>>
  BY <1>0, EmptySeq DEF Path
<1>3. \A a, b \in Path : IsPrefix(a, b) => Len(a) <= Len(b)
  BY PrefixPoint
<1>4. \A a, b \in Path : IsPrefix(a, b) /\ Len(b) <= Len(a) => a = b
  <2> SUFFICES ASSUME NEW a \in Path, NEW b \in Path, IsPrefix(a, b), Len(b) <= Len(a)
               PROVE  a = b
    OBVIOUS
  <2>1. Len(a) = Len(b) /\ \A i \in 1 .. Len(a) : a[i] = b[i]
    BY <1>0, PrefixPoint
  <2> QED BY <2>1, SeqEqual DEF Path
<1>5. \A a, b, c \in Path : IsPrefix(a, b) /\ IsPrefix(b, c) => IsPrefix(a, c)
  <2> SUFFICES ASSUME NEW a \in Path, NEW b \in Path, NEW c \in Path, IsPrefix(a, b), IsPrefix(b, c)
               PROVE  IsPrefix(a, c)
    OBVIOUS
  <2>1. Len(a) <= Len(b) /\ \A i \in 1 .. Len(a) : a[i] = b[i]
    BY PrefixPoint
  <2>2. Len(b) <= Len(c) /\ \A i \in 1 .. Len(b) : b[i] = c[i]
    BY PrefixPoint
  <2>3. Len(a) <= Len(c) /\ \A i \in 1 .. Len(a) : a[i] = c[i]
    BY <1>0, <2>1, <2>2
  <2> QED BY <2>3, PrefixPoint
<1>6. \A a, b, c \in Path : IsPrefix(a, c) /\ IsPrefix(b, c) /\ Len(a) <= Len(b) => IsPrefix(a, b)
  <2> SUFFICES ASSUME NEW a \in Path, NEW b \in Path, NEW c \in Path,
                      IsPrefix(a, c), IsPrefix(b, c), Len(a) <= Len(b)
               PROVE  IsPrefix(a, b)
    OBVIOUS
  <2>1. \A i \in 1 .. Len(a) : a[i] = c[i]
    BY PrefixPoint
  <2>2. \A i \in 1 .. Len(b) : b[i] = c[i]
    BY PrefixPoint
  <2>3. \A i \in 1 .. Len(a) : a[i] = b[i]
    BY <1>0, <2>1, <2>2
  <2> QED BY <2>3, PrefixPoint
<1> QED BY <1>0, <1>1, <1>2, <1>3, <1>4, <1>5, <1>6

\* The folder of a path and its own name.
LEMMA FrontPath ==
    ASSUME NEW p \in Path, p # <<>>
    PROVE  /\ Front(p) \in Path /\ Last(p) \in Component
           /\ Len(p) > 0 /\ Len(Front(p)) = Len(p) - 1
           /\ \A i \in 1 .. Len(p) - 1 : Front(p)[i] = p[i]
           /\ IsPrefix(Front(p), p) /\ Front(p) # p
           /\ \A q \in Path : IsPrefix(q, p) => q = p \/ IsPrefix(q, Front(p))
<1>0. Len(p) \in Nat /\ Len(p) > 0 /\ \A i \in 1 .. Len(p) : p[i] \in Component
  BY PrefixOrder DEF Path
<1>1. /\ Front(p) \in Path /\ Len(Front(p)) = Len(p) - 1
      /\ \A i \in 1 .. Len(p) - 1 : Front(p)[i] = p[i]
  <2>1. /\ SubSeq(p, 1, Len(p) - 1) \in Seq(Component)
        /\ Len(SubSeq(p, 1, Len(p) - 1)) = IF 1 <= Len(p) - 1 THEN Len(p) - 1 - 1 + 1 ELSE 0
        /\ \A i \in 1 .. Len(p) - 1 - 1 + 1 : SubSeq(p, 1, Len(p) - 1)[i] = p[1 + i - 1]
    <3>1. \A i \in 1 .. Len(p) - 1 : p[i] \in Component
      BY <1>0
    <3>2. Len(p) - 1 \in Int /\ 1 \in Int
      BY <1>0
    <3> QED BY <3>1, <3>2, SubSeqProperties
  <2>2. Front(p) = SubSeq(p, 1, Len(p) - 1)
    BY DEF Front
  <2>3. Len(Front(p)) = Len(p) - 1
    <3> DEFINE n == Len(p)
               f == Front(p)
    <3>1. n \in Nat /\ n > 0 /\ Len(f) = IF 1 <= n - 1 THEN n - 1 - 1 + 1 ELSE 0
      BY <1>0, <2>1, <2>2
    <3> HIDE DEF n, f
    <3>2. Len(f) = n - 1
      BY <3>1
    <3> QED BY <3>2 DEF n, f
  <2>4. \A i \in 1 .. Len(p) - 1 : Front(p)[i] = p[i]
    BY <1>0, <2>1, <2>2
  <2> QED BY <2>1, <2>2, <2>3, <2>4 DEF Path
<1>2. Last(p) \in Component
  BY <1>0 DEF Last
<1>3. IsPrefix(Front(p), p)
  BY <1>0, <1>1, PrefixPoint
<1>4. ASSUME NEW q \in Path, IsPrefix(q, p), q # p
      PROVE  IsPrefix(q, Front(p))
  <2>1. Len(q) <= Len(Front(p))
    BY <1>0, <1>1, <1>4, PrefixOrder
  <2> QED BY <1>1, <1>3, <1>4, <2>1, PrefixOrder
<1> QED BY <1>0, <1>1, <1>2, <1>3, <1>4

LEMMA AppendPath ==
    ASSUME NEW p \in Path, NEW n \in Component
    PROVE  /\ Append(p, n) \in Path /\ Append(p, n) # <<>> /\ Len(Append(p, n)) = Len(p) + 1
           /\ Front(Append(p, n)) = p /\ Last(Append(p, n)) = n
<1> DEFINE a == Append(p, n)
<1>1. /\ a \in Path /\ a # <<>> /\ Len(a) = Len(p) + 1
      /\ \A i \in 1 .. Len(p) : a[i] = p[i]
      /\ a[Len(p) + 1] = n
  BY AppendProperties DEF Path
<1>2. Front(a) \in Path /\ Len(Front(a)) = Len(a) - 1 /\ \A i \in 1 .. Len(a) - 1 : Front(a)[i] = a[i]
  BY <1>1, FrontPath
<1>3. Len(p) \in Nat
  BY DEF Path
<1>4. Len(Front(a)) = Len(p) /\ \A i \in 1 .. Len(p) : Front(a)[i] = p[i]
  BY <1>1, <1>2, <1>3
<1>5. Front(a) = p
  BY <1>2, <1>3, <1>4, SeqEqual DEF Path
<1>6. Last(a) = n
  BY <1>1 DEF Last
<1> QED BY <1>1, <1>5, <1>6

LEMMA FrontLast ==
    ASSUME NEW p \in Path, NEW q \in Path, p # <<>>, q # <<>>, Front(p) = Front(q), Last(p) = Last(q)
    PROVE  p = q
<1>1. Len(p) = Len(q) /\ Len(p) \in Nat /\ Len(p) > 0
  BY FrontPath, PrefixOrder
<1>2. ASSUME NEW i \in 1 .. Len(p)
      PROVE  p[i] = q[i]
  <2>1. CASE i = Len(p)
    BY <1>1, <2>1 DEF Last
  <2>2. CASE i \in 1 .. Len(p) - 1
    BY <1>1, <2>2, FrontPath
  <2> QED BY <1>1, <2>1, <2>2
<1> QED BY <1>1, <1>2, SeqEqual DEF Path

LEMMA FrontAppend ==
    ASSUME NEW p \in Path, p # <<>>
    PROVE  p = Append(Front(p), Last(p))
<1> DEFINE a == Append(Front(p), Last(p))
<1>1. Front(p) \in Path /\ Last(p) \in Component
  BY FrontPath
<1>2. a \in Path /\ a # <<>> /\ Front(a) = Front(p) /\ Last(a) = Last(p)
  BY <1>1, AppendPath
<1> HIDE DEF a
<1>3. p = a
  BY <1>2, FrontLast
<1> QED BY <1>3 DEF a

\* The head of a path.
LEMMA SubSeqPath ==
    ASSUME NEW p \in Path, NEW n \in 0 .. Len(p)
    PROVE  /\ SubSeq(p, 1, n) \in Path /\ Len(SubSeq(p, 1, n)) = n
           /\ IsPrefix(SubSeq(p, 1, n), p)
<1>0. Len(p) \in Nat /\ n \in Nat /\ n <= Len(p) /\ \A i \in 1 .. Len(p) : p[i] \in Component
  BY PrefixOrder DEF Path
<1>1. \A i \in 1 .. n : p[i] \in Component
  BY <1>0
<1>2. /\ SubSeq(p, 1, n) \in Seq(Component)
      /\ Len(SubSeq(p, 1, n)) = IF 1 <= n THEN n - 1 + 1 ELSE 0
      /\ \A i \in 1 .. n - 1 + 1 : SubSeq(p, 1, n)[i] = p[1 + i - 1]
  BY <1>0, <1>1, SubSeqProperties
<1>3. Len(SubSeq(p, 1, n)) = n /\ \A i \in 1 .. n : SubSeq(p, 1, n)[i] = p[i]
  BY <1>0, <1>2
<1> QED BY <1>0, <1>2, <1>3, PrefixPoint DEF Path

LEMMA PrefixIsSubSeq ==
    ASSUME NEW p \in Path, NEW q \in Path, IsPrefix(q, p)
    PROVE  Len(q) \in 0 .. Len(p) /\ q = SubSeq(p, 1, Len(q))
<1>1. Len(q) \in 0 .. Len(p)
  BY PrefixOrder
<1>2. /\ SubSeq(p, 1, Len(q)) \in Path /\ Len(SubSeq(p, 1, Len(q))) = Len(q)
      /\ IsPrefix(SubSeq(p, 1, Len(q)), p)
  BY <1>1, SubSeqPath
<1>3. IsPrefix(q, SubSeq(p, 1, Len(q)))
  BY <1>1, <1>2, PrefixOrder
<1> QED BY <1>1, <1>2, <1>3, PrefixOrder

LEMMA MovedPoint ==
    ASSUME NEW q \in Path, NEW a \in Path, NEW b \in Path, Len(a) <= Len(q)
    PROVE  /\ Moved(q, a, b) \in Path
           /\ Len(Moved(q, a, b)) = Len(b) + (Len(q) - Len(a))
           /\ \A i \in 1 .. Len(b) : Moved(q, a, b)[i] = b[i]
           /\ \A i \in 1 .. Len(q) - Len(a) : Moved(q, a, b)[Len(b) + i] = q[Len(a) + i]
<1> DEFINE r == SubSeq(q, Len(a) + 1, Len(q))
<1>0. /\ Len(a) \in Nat /\ Len(b) \in Nat /\ Len(q) \in Nat
      /\ \A i \in 1 .. Len(q) : q[i] \in Component
  BY DEF Path
<1>1. \A i \in Len(a) + 1 .. Len(q) : q[i] \in Component
  BY <1>0
<1>2. /\ r \in Seq(Component)
      /\ Len(r) = IF Len(a) + 1 <= Len(q) THEN Len(q) - (Len(a) + 1) + 1 ELSE 0
      /\ \A i \in 1 .. Len(q) - (Len(a) + 1) + 1 : r[i] = q[(Len(a) + 1) + i - 1]
  <2>1. Len(a) + 1 \in Int /\ Len(q) \in Int
    BY <1>0
  <2> HIDE DEF r
  <2> QED BY <1>1, <2>1, SubSeqProperties DEF r
<1>3. r \in Seq(Component) /\ Len(r) = Len(q) - Len(a) /\ \A i \in 1 .. Len(q) - Len(a) : r[i] = q[Len(a) + i]
  <2> HIDE DEF r
  <2> QED BY <1>0, <1>2
<1>4. /\ b \o r \in Seq(Component)
      /\ Len(b \o r) = Len(b) + Len(r)
      /\ \A i \in 1 .. Len(b) + Len(r) : (b \o r)[i] = IF i <= Len(b) THEN b[i] ELSE r[i - Len(b)]
  <2> HIDE DEF r
  <2> QED BY <1>3, ConcatProperties DEF Path
<1>5. Moved(q, a, b) = b \o r
  BY DEF Moved
<1> HIDE DEF r
<1>6. \A i \in 1 .. Len(b) : Moved(q, a, b)[i] = b[i]
  BY <1>0, <1>3, <1>4, <1>5
<1>7. ASSUME NEW i \in 1 .. Len(q) - Len(a)
      PROVE  Moved(q, a, b)[Len(b) + i] = q[Len(a) + i]
  <2>1. Len(b) + i \in 1 .. Len(b) + Len(r) /\ ~(Len(b) + i <= Len(b)) /\ Len(b) + i - Len(b) = i
    BY <1>0, <1>3
  <2>2. (b \o r)[Len(b) + i] = r[i]
    BY <1>4, <2>1
  <2> QED BY <1>3, <1>5, <2>2
<1> QED BY <1>0, <1>3, <1>4, <1>5, <1>6, <1>7 DEF Path

\* A tree keeps its shape when it is moved.
LEMMA MovedPath ==
    ASSUME NEW a \in Path, NEW b \in Path, NEW q \in Path, IsPrefix(a, q)
    PROVE  /\ Moved(q, a, b) \in Path /\ IsPrefix(b, Moved(q, a, b))
           /\ Len(Moved(q, a, b)) = Len(b) + (Len(q) - Len(a))
           /\ Moved(Moved(q, a, b), b, a) = q
           /\ q = a <=> Moved(q, a, b) = b
<1> DEFINE m == Moved(q, a, b)
<1>0. Len(a) \in Nat /\ Len(b) \in Nat /\ Len(q) \in Nat /\ Len(a) <= Len(q)
  BY PrefixOrder
<1>1. /\ m \in Path /\ Len(m) = Len(b) + (Len(q) - Len(a))
      /\ \A i \in 1 .. Len(b) : m[i] = b[i]
      /\ \A i \in 1 .. Len(q) - Len(a) : m[Len(b) + i] = q[Len(a) + i]
  <2>1. Len(a) <= Len(q)
    BY <1>0
  <2> QED BY <2>1, MovedPoint, ZenonT(30)
<1> HIDE DEF m
<1>2. IsPrefix(b, m)
  BY <1>0, <1>1, PrefixPoint
<1>3. Moved(m, b, a) = q
  <2> DEFINE w == Moved(m, b, a)
  <2>0. Len(m) - Len(b) = Len(q) - Len(a) /\ Len(b) <= Len(m)
    BY <1>0, <1>1
  <2>1. /\ w \in Path /\ Len(w) = Len(a) + (Len(m) - Len(b))
        /\ \A i \in 1 .. Len(a) : w[i] = a[i]
        /\ \A i \in 1 .. Len(m) - Len(b) : w[Len(a) + i] = m[Len(b) + i]
    <3>1. m \in Path /\ Len(b) <= Len(m)
      BY <1>1, <2>0
    <3> QED BY <3>1, MovedPoint, ZenonT(120)
  <2> HIDE DEF w
  <2>2. Len(w) = Len(q)
    BY <1>0, <2>0, <2>1
  <2>3. \A i \in 1 .. Len(a) : w[i] = q[i]
    BY <2>1, PrefixPoint
  <2>4. \A i \in 1 .. Len(q) - Len(a) : w[Len(a) + i] = q[Len(a) + i]
    BY <1>1, <2>0, <2>1
  <2>5. ASSUME NEW i \in 1 .. Len(q)
        PROVE  w[i] = q[i]
    <3>1. CASE i <= Len(a)
      BY <1>0, <2>3, <3>1
    <3>2. CASE ~(i <= Len(a))
      <4>1. i - Len(a) \in 1 .. Len(q) - Len(a) /\ Len(a) + (i - Len(a)) = i
        BY <1>0, <3>2
      <4> QED BY <2>4, <4>1
    <3> QED BY <3>1, <3>2
  <2>6. w = q
    BY <2>1, <2>2, <2>5, SeqEqual DEF Path
  <2> QED BY <2>6 DEF w
<1>4. q = a <=> m = b
  <2>1. q = a => Len(m) <= Len(b)
    BY <1>0, <1>1
  <2>2. m = b => Len(q) <= Len(a)
    BY <1>0, <1>1
  <2> QED BY <1>1, <1>2, <2>1, <2>2, PrefixOrder
<1> QED BY <1>1, <1>2, <1>3, <1>4 DEF m

LEMMA MovedOrder ==
    ASSUME NEW a \in Path, NEW b \in Path, NEW q \in Path, NEW r \in Path,
           IsPrefix(a, q), IsPrefix(a, r), IsPrefix(q, r)
    PROVE  IsPrefix(Moved(q, a, b), Moved(r, a, b))
<1> DEFINE m == Moved(q, a, b)
           n == Moved(r, a, b)
<1>0. /\ Len(a) \in Nat /\ Len(b) \in Nat /\ Len(q) \in Nat /\ Len(r) \in Nat
      /\ Len(a) <= Len(q) /\ Len(a) <= Len(r) /\ Len(q) <= Len(r)
      /\ \A i \in 1 .. Len(q) : q[i] = r[i]
  BY PrefixOrder, PrefixPoint
<1>1. /\ m \in Path /\ Len(m) = Len(b) + (Len(q) - Len(a))
      /\ \A i \in 1 .. Len(b) : m[i] = b[i]
      /\ \A i \in 1 .. Len(q) - Len(a) : m[Len(b) + i] = q[Len(a) + i]
  <2>1. Len(a) <= Len(q)
    BY <1>0
  <2> QED BY <2>1, MovedPoint, ZenonT(30)
<1>2. /\ n \in Path /\ Len(n) = Len(b) + (Len(r) - Len(a))
      /\ \A i \in 1 .. Len(b) : n[i] = b[i]
      /\ \A i \in 1 .. Len(r) - Len(a) : n[Len(b) + i] = r[Len(a) + i]
  <2>1. Len(a) <= Len(r)
    BY <1>0
  <2> QED BY <2>1, MovedPoint, ZenonT(30)
<1> HIDE DEF m, n
<1>3. ASSUME NEW i \in 1 .. Len(m)
      PROVE  m[i] = n[i]
  <2>1. CASE i <= Len(b)
    BY <1>0, <1>1, <1>2, <2>1
  <2>2. CASE ~(i <= Len(b))
    <3> DEFINE j == i - Len(b)
    <3>1. /\ j \in 1 .. Len(q) - Len(a) /\ j \in 1 .. Len(r) - Len(a) /\ Len(b) + j = i
          /\ Len(a) + j \in 1 .. Len(q)
      BY <1>0, <1>1, <2>2
    <3> HIDE DEF j
    <3>2. m[i] = q[Len(a) + j] /\ n[i] = r[Len(a) + j]
      BY <1>1, <1>2, <3>1
    <3> QED BY <1>0, <3>1, <3>2
  <2> QED BY <2>1, <2>2
<1>4. Len(m) <= Len(n)
  BY <1>0, <1>1, <1>2
<1>5. IsPrefix(m, n)
  BY <1>1, <1>2, <1>3, <1>4, PrefixPoint
<1> QED BY <1>5 DEF m, n

LEMMA MovedFront ==
    ASSUME NEW a \in Path, NEW b \in Path, NEW q \in Path, IsPrefix(a, q), q # a
    PROVE  /\ q # <<>> /\ Moved(q, a, b) # <<>> /\ IsPrefix(a, Front(q))
           /\ Front(Moved(q, a, b)) = Moved(Front(q), a, b)
<1> DEFINE m == Moved(q, a, b)
           f == Moved(Front(q), a, b)
<1>1. q # <<>> /\ IsPrefix(a, Front(q)) /\ Front(q) \in Path /\ IsPrefix(Front(q), q)
  BY PrefixOrder, FrontPath
<1>2. m \in Path /\ f \in Path /\ IsPrefix(f, m)
  BY <1>1, MovedPath, MovedOrder
<1>3. Len(m) = Len(f) + 1
  <2>1. Len(m) = Len(b) + (Len(q) - Len(a))
    BY MovedPath
  <2>2. Len(f) = Len(b) + (Len(Front(q)) - Len(a))
    BY <1>1, MovedPath
  <2>3. Len(Front(q)) = Len(q) - 1 /\ Len(q) \in Nat /\ Len(a) \in Nat /\ Len(b) \in Nat
    BY <1>1, FrontPath, PrefixOrder
  <2> HIDE DEF m, f
  <2> QED BY <2>1, <2>2, <2>3
<1>4. m # <<>> /\ Len(Front(m)) = Len(f) /\ Front(m) \in Path
  BY <1>2, <1>3, FrontPath, PrefixOrder
<1>5. IsPrefix(f, Front(m))
  BY <1>2, <1>3, <1>4, FrontPath, PrefixOrder
<1>6. f = Front(m)
  BY <1>2, <1>4, <1>5, PrefixOrder
<1> QED BY <1>1, <1>4, <1>6

\* Moving a tree twice is moving it once.
LEMMA MovedTwice ==
    ASSUME NEW a \in Path, NEW b \in Path, NEW c \in Path, NEW q \in Path, IsPrefix(a, q)
    PROVE  Moved(Moved(q, a, b), b, c) = Moved(q, a, c)
<1> DEFINE m == Moved(q, a, b)
           v == Moved(m, b, c)
           w == Moved(q, a, c)
<1>0. /\ Len(a) \in Nat /\ Len(b) \in Nat /\ Len(c) \in Nat /\ Len(q) \in Nat /\ Len(a) <= Len(q)
  BY PrefixOrder
<1>1. /\ m \in Path /\ Len(m) = Len(b) + (Len(q) - Len(a))
      /\ \A i \in 1 .. Len(q) - Len(a) : m[Len(b) + i] = q[Len(a) + i]
  <2>1. Len(a) <= Len(q)
    BY <1>0
  <2> QED BY <2>1, MovedPoint, ZenonT(30)
<1>2. /\ w \in Path /\ Len(w) = Len(c) + (Len(q) - Len(a))
      /\ \A i \in 1 .. Len(c) : w[i] = c[i]
      /\ \A i \in 1 .. Len(q) - Len(a) : w[Len(c) + i] = q[Len(a) + i]
  <2>1. Len(a) <= Len(q)
    BY <1>0
  <2> QED BY <2>1, MovedPoint, ZenonT(30)
<1> HIDE DEF m, w
<1>3. Len(m) - Len(b) = Len(q) - Len(a) /\ Len(b) <= Len(m)
  BY <1>0, <1>1
<1>4. /\ v \in Path /\ Len(v) = Len(c) + (Len(m) - Len(b))
      /\ \A i \in 1 .. Len(c) : v[i] = c[i]
      /\ \A i \in 1 .. Len(m) - Len(b) : v[Len(c) + i] = m[Len(b) + i]
  <2>1. /\ Moved(m, b, c) \in Path
        /\ Len(Moved(m, b, c)) = Len(c) + (Len(m) - Len(b))
        /\ \A i \in 1 .. Len(c) : Moved(m, b, c)[i] = c[i]
        /\ \A i \in 1 .. Len(m) - Len(b) : Moved(m, b, c)[Len(c) + i] = m[Len(b) + i]
    <3>1. m \in Path /\ Len(b) <= Len(m)
      BY <1>1, <1>3
    <3> HIDE DEF v
    <3> QED BY <3>1, MovedPoint, ZenonT(120)
  <2> QED BY <2>1
<1> HIDE DEF v
<1>5. Len(v) = Len(w)
  BY <1>2, <1>3, <1>4
<1>6. ASSUME NEW i \in 1 .. Len(v)
      PROVE  v[i] = w[i]
  <2>1. CASE i <= Len(c)
    BY <1>0, <1>2, <1>4, <2>1
  <2>2. CASE ~(i <= Len(c))
    <3> DEFINE j == i - Len(c)
    <3>1. j \in 1 .. Len(q) - Len(a) /\ Len(c) + j = i
      BY <1>0, <1>2, <1>5, <2>2
    <3> HIDE DEF j
    <3>2. v[i] = m[Len(b) + j] /\ w[i] = q[Len(a) + j]
      BY <1>2, <1>3, <1>4, <3>1
    <3> QED BY <1>1, <3>1, <3>2
  <2> QED BY <2>1, <2>2
<1>7. v = w
  BY <1>2, <1>4, <1>5, <1>6, SeqEqual DEF Path
<1> QED BY <1>7 DEF m, v, w

\* A list of paths without its last.
LEMMA FrontList ==
    ASSUME NEW S, NEW s \in Seq(S), s # <<>>
    PROVE  /\ Front(s) \in Seq(S) /\ Len(s) \in DOMAIN s /\ Last(s) = s[Len(s)] /\ Last(s) \in S
           /\ DOMAIN Front(s) = DOMAIN s \ {Len(s)}
           /\ \A i \in DOMAIN Front(s) : Front(s)[i] = s[i]
<1> DEFINE n == Len(s)
           f == SubSeq(s, 1, n - 1)
<1>0. n \in Nat /\ n > 0 /\ DOMAIN s = 1 .. n /\ \A i \in 1 .. n : s[i] \in S
  BY EmptySeq, LenProperties, ElementOfSeq
<1>1. Front(s) = f /\ Last(s) = s[n]
  BY DEF Front, Last
<1> HIDE DEF n
<1>2. \A i \in 1 .. n - 1 : s[i] \in S
  BY <1>0
<1>3. n - 1 \in Int /\ 1 \in Int
  BY <1>0
<1>4. /\ f \in Seq(S)
      /\ Len(f) = IF 1 <= n - 1 THEN n - 1 - 1 + 1 ELSE 0
      /\ \A i \in 1 .. n - 1 - 1 + 1 : f[i] = s[1 + i - 1]
  BY <1>2, <1>3, SubSeqProperties
<1> HIDE DEF f
<1>5. Len(f) = n - 1
  BY <1>0, <1>4
<1>6. DOMAIN f = 1 .. n - 1 /\ \A i \in 1 .. n - 1 : f[i] = s[i]
  BY <1>0, <1>4, <1>5, LenProperties
<1>7. DOMAIN f = DOMAIN s \ {n} /\ \A i \in DOMAIN f : f[i] = s[i]
  BY <1>0, <1>6
<1>8. n \in DOMAIN s /\ s[n] \in S
  BY <1>0
<1> QED BY <1>1, <1>4, <1>7, <1>8 DEF n
-----------------------------------------------------------------------------
(* The card *)

\* Tree, in terms of the order of the paths.
LEMMA TreeOrder ==
    ASSUME NEW f
    PROVE  Tree(f) <=> \A p \in DOMAIN f :
               /\ p \in Path /\ p # <<>>
               /\ \A q \in Path : q # <<>> /\ IsPrefix(q, p) /\ q # p => q \in DOMAIN f /\ f[q] = "dir"
<1>1. ASSUME Tree(f), NEW p \in DOMAIN f, NEW q \in Path, q # <<>>, IsPrefix(q, p), q # p
      PROVE  q \in DOMAIN f /\ f[q] = "dir"
  <2>1. p \in Path
    BY <1>1 DEF Tree
  <2>2. Len(q) \in 1 .. Len(p) - 1 /\ q = SubSeq(p, 1, Len(q))
    <3>1. Len(q) \in Nat /\ Len(p) \in Nat /\ Len(q) # 0 /\ Len(q) < Len(p)
      BY <1>1, <2>1, PrefixOrder
    <3> QED BY <1>1, <2>1, <3>1, PrefixIsSubSeq
  <2> QED BY <1>1, <2>2 DEF Tree
<1>2. ASSUME NEW p \in DOMAIN f, p \in Path, NEW n \in 1 .. Len(p) - 1,
             \A q \in Path : q # <<>> /\ IsPrefix(q, p) /\ q # p => q \in DOMAIN f /\ f[q] = "dir"
      PROVE  SubSeq(p, 1, n) \in DOMAIN f /\ f[SubSeq(p, 1, n)] = "dir"
  <2>1. Len(p) \in Nat /\ n \in 0 .. Len(p) /\ n # 0 /\ n # Len(p)
    BY <1>2, PrefixOrder
  <2>2. SubSeq(p, 1, n) \in Path /\ Len(SubSeq(p, 1, n)) = n /\ IsPrefix(SubSeq(p, 1, n), p)
    BY <1>2, <2>1, SubSeqPath
  <2>3. SubSeq(p, 1, n) # <<>> /\ SubSeq(p, 1, n) # p
    BY <2>1, <2>2, PrefixOrder
  <2> QED BY <1>2, <2>2, <2>3
<1> QED BY <1>1, <1>2 DEF Tree

LEMMA TreeFacts ==
    ASSUME NEW f, Tree(f)
    PROVE  /\ \A p \in DOMAIN f : p \in Path /\ p # <<>> /\ IsFolder(f, Front(p))
           /\ \A p \in DOMAIN f, q \in Path :
                 q # <<>> /\ IsPrefix(q, p) => q \in DOMAIN f /\ (q # p => f[q] = "dir")
<1>1. \A p \in DOMAIN f : p \in Path /\ p # <<>>
  BY TreeOrder
<1>2. ASSUME NEW p \in DOMAIN f
      PROVE  IsFolder(f, Front(p))
  <2>1. Front(p) \in Path /\ IsPrefix(Front(p), p) /\ Front(p) # p
    BY <1>1, FrontPath
  <2> QED BY <2>1, TreeOrder DEF IsFolder
<1>3. ASSUME NEW p \in DOMAIN f, NEW q \in Path, q # <<>>, IsPrefix(q, p)
      PROVE  q \in DOMAIN f /\ (q # p => f[q] = "dir")
  BY <1>3, TreeOrder
<1> QED BY <1>1, <1>2, <1>3

\* What lies above a folder of f is a folder of f.
LEMMA FolderUp ==
    ASSUME NEW f, Tree(f), NEW p \in Path, IsFolder(f, p), NEW q \in Path, q # <<>>, IsPrefix(q, p)
    PROVE  q \in DOMAIN f /\ f[q] = "dir"
<1>1. CASE p = <<>>
  <2>1. q = p
    BY <1>1, PrefixOrder
  <2> QED BY <1>1, <2>1
<1>2. CASE p # <<>>
  BY <1>2, TreeFacts DEF IsFolder
<1> QED BY <1>1, <1>2

\* What lies above an entry whose folder exists is a folder.
LEMMA EntryUp ==
    ASSUME NEW f, Tree(f), NEW p \in Path, p # <<>>, IsFolder(f, Front(p)),
           NEW q \in Path, q # <<>>, IsPrefix(q, p), q # p
    PROVE  q \in DOMAIN f /\ f[q] = "dir"
<1>1. Front(p) \in Path /\ IsPrefix(q, Front(p))
  BY FrontPath
<1> QED BY <1>1, FolderUp

LEMMA WithCard ==
    ASSUME NEW f, NEW p, NEW x
    PROVE  /\ DOMAIN With(f, p, x) = DOMAIN f \cup {p}
           /\ With(f, p, x)[p] = x
           /\ \A q \in DOMAIN f : q # p => With(f, p, x)[q] = f[q]
  BY DEF With

LEMMA WithTree ==
    ASSUME NEW f, Tree(f), NEW p \in Path, p # <<>>, NEW x, IsFolder(f, Front(p)),
           p \in DOMAIN f => f[p] # "dir"
    PROVE  Tree(With(f, p, x))
<1> DEFINE g == With(f, p, x)
<1>0. /\ DOMAIN g = DOMAIN f \cup {p} /\ g[p] = x
      /\ \A q \in DOMAIN f : q # p => g[q] = f[q]
  BY DEF With
<1> HIDE DEF g
<1>1. ASSUME NEW r \in DOMAIN g
      PROVE  r \in Path /\ r # <<>>
  BY <1>0, TreeFacts
<1>2. ASSUME NEW r \in DOMAIN g, NEW q \in Path, q # <<>>, IsPrefix(q, r), q # r
      PROVE  q \in DOMAIN g /\ g[q] = "dir"
  <2>1. q \in DOMAIN f /\ f[q] = "dir"
    <3>1. CASE r = p
      BY <1>2, <3>1, EntryUp
    <3>2. CASE r \in DOMAIN f
      BY <1>2, <3>2, TreeFacts
    <3> QED BY <1>0, <3>1, <3>2
  <2>2. q # p
    BY <2>1
  <2> QED BY <1>0, <2>1, <2>2
<1>3. Tree(g)
  BY <1>1, <1>2, TreeOrder
<1> QED BY <1>3 DEF g

LEMMA WithoutCard ==
    ASSUME NEW f, NEW X
    PROVE  /\ DOMAIN Without(f, X) = DOMAIN f \ X
           /\ \A q \in DOMAIN f \ X : Without(f, X)[q] = f[q]
  BY DEF Without

\* A set is removed that holds, with an entry, all that is in it.
LEMMA WithoutTree ==
    ASSUME NEW f, Tree(f), NEW X,
           \A q \in X \cap Path, r \in DOMAIN f : IsPrefix(q, r) => r \in X
    PROVE  Tree(Without(f, X))
<1> DEFINE g == Without(f, X)
<1>0. DOMAIN g = DOMAIN f \ X /\ \A q \in DOMAIN f \ X : g[q] = f[q]
  BY WithoutCard
<1> HIDE DEF g
<1>1. ASSUME NEW r \in DOMAIN g, NEW q \in Path, q # <<>>, IsPrefix(q, r), q # r
      PROVE  q \in DOMAIN g /\ g[q] = "dir"
  <2>1. q \in DOMAIN f /\ f[q] = "dir"
    BY <1>0, <1>1, TreeFacts
  <2>2. q \notin X
    BY <1>0, <1>1
  <2> QED BY <1>0, <2>1, <2>2
<1>2. \A r \in DOMAIN g : r \in Path /\ r # <<>>
  BY <1>0, TreeFacts
<1>3. Tree(g)
  BY <1>1, <1>2, TreeOrder
<1> QED BY <1>3 DEF g

LEMMA WithoutFile ==
    ASSUME NEW f, Tree(f), NEW p \in Path, p # <<>>, p \in DOMAIN f => f[p] # "dir"
    PROVE  Tree(Without(f, {p}))
<1>1. ASSUME NEW r \in DOMAIN f, IsPrefix(p, r)
      PROVE  r = p
  BY <1>1, TreeFacts
<1> QED BY <1>1, WithoutTree

\* The effect of a rename to a name that is free.
LEMMA RenameCard ==
    ASSUME NEW f, Tree(f), NEW a \in Path, NEW b \in Path, b # <<>>, b \notin DOMAIN f
    PROVE  LET g == Rename(f, a, b) IN
           /\ \A q \in DOMAIN f : ~IsPrefix(a, q) => q \in DOMAIN g /\ g[q] = f[q]
           /\ \A p \in Under(f, a) : Moved(p, a, b) \in DOMAIN g /\ g[Moved(p, a, b)] = f[p]
           /\ \A r \in DOMAIN g :
                 \/ r \in DOMAIN f /\ ~IsPrefix(a, r)
                 \/ r \in Path /\ IsPrefix(b, r) /\ \E p \in Under(f, a) : r = Moved(p, a, b)
<1> DEFINE g == Rename(f, a, b)
           rest == DOMAIN f \ (Under(f, a) \cup Under(f, b))
           there == {Moved(p, a, b) : p \in Under(f, a)}
<1>1. Under(f, b) = {}
  BY TreeFacts DEF Under
<1>2. rest = {q \in DOMAIN f : ~IsPrefix(a, q)}
  BY <1>1 DEF Under
<1>3. \A p \in Under(f, a) : /\ p \in Path /\ IsPrefix(a, p) /\ p \in DOMAIN f
                             /\ Moved(p, a, b) \in Path /\ IsPrefix(b, Moved(p, a, b))
                             /\ Moved(Moved(p, a, b), b, a) = p
  BY TreeFacts, MovedPath DEF Under
<1>4. \A p \in Under(f, a) : Moved(p, a, b) \notin rest
  <2> SUFFICES ASSUME NEW p \in Under(f, a), Moved(p, a, b) \in DOMAIN f
               PROVE  FALSE
    BY DEF Under
  <2> QED BY <1>3, TreeFacts
<1>5. g = [q \in rest \cup there |-> IF q \in rest THEN f[q] ELSE f[Moved(q, b, a)]]
  BY DEF Rename
<1>6. DOMAIN g = rest \cup there
  BY <1>5
<1>7. \A q \in rest : g[q] = f[q]
  BY <1>5
<1>8. \A p \in Under(f, a) : Moved(p, a, b) \in DOMAIN g /\ g[Moved(p, a, b)] = f[p]
  <2> SUFFICES ASSUME NEW p \in Under(f, a)
               PROVE  Moved(p, a, b) \in DOMAIN g /\ g[Moved(p, a, b)] = f[p]
    OBVIOUS
  <2>1. Moved(p, a, b) \in there /\ Moved(p, a, b) \notin rest /\ Moved(Moved(p, a, b), b, a) = p
    BY <1>3, <1>4
  <2> HIDE DEF rest, there, g
  <2> QED BY <1>5, <2>1
<1>9. \A r \in DOMAIN g : r \in rest \/ \E p \in Under(f, a) : r = Moved(p, a, b)
  BY <1>6
<1> HIDE DEF g, rest, there
<1>10. \A q \in DOMAIN f : ~IsPrefix(a, q) => q \in DOMAIN g /\ g[q] = f[q]
  BY <1>2, <1>6, <1>7
<1>11. \A r \in DOMAIN g : \/ r \in DOMAIN f /\ ~IsPrefix(a, r)
                           \/ r \in Path /\ IsPrefix(b, r) /\ \E p \in Under(f, a) : r = Moved(p, a, b)
  BY <1>2, <1>3, <1>9
<1>12. g = Rename(f, a, b)
  BY DEF g
<1> QED BY <1>8, <1>10, <1>11, <1>12

LEMMA RenameTree ==
    ASSUME NEW f, Tree(f), NEW a \in Path, NEW b \in Path, b # <<>>, b \notin DOMAIN f,
           IsFolder(f, Front(b)), ~IsPrefix(a, b)
    PROVE  Tree(Rename(f, a, b))
<1> DEFINE g == Rename(f, a, b)
<1>0. /\ \A q \in DOMAIN f : ~IsPrefix(a, q) => q \in DOMAIN g /\ g[q] = f[q]
      /\ \A p \in Under(f, a) : Moved(p, a, b) \in DOMAIN g /\ g[Moved(p, a, b)] = f[p]
      /\ \A r \in DOMAIN g :
            \/ r \in DOMAIN f /\ ~IsPrefix(a, r)
            \/ r \in Path /\ IsPrefix(b, r) /\ \E p \in Under(f, a) : r = Moved(p, a, b)
  BY RenameCard
<1> HIDE DEF g
<1>1. \A r \in DOMAIN g : r \in Path /\ r # <<>>
  BY <1>0, TreeFacts, PrefixOrder
<1>2. ASSUME NEW r \in DOMAIN g, NEW q \in Path, q # <<>>, IsPrefix(q, r), q # r
      PROVE  q \in DOMAIN g /\ g[q] = "dir"
  <2>1. CASE r \in DOMAIN f /\ ~IsPrefix(a, r)
    <3>1. q \in DOMAIN f /\ f[q] = "dir"
      BY <1>2, <2>1, TreeFacts
    <3>2. ~IsPrefix(a, q)
      BY <1>1, <1>2, <2>1, PrefixOrder
    <3> QED BY <1>0, <3>1, <3>2
  <2>2. CASE IsPrefix(b, r) /\ \E p \in Under(f, a) : r = Moved(p, a, b)
    <3>0. r \in Path
      BY <1>1
    <3>1. PICK p \in Under(f, a) : r = Moved(p, a, b)
      BY <2>2
    <3>2. p \in DOMAIN f /\ p \in Path /\ IsPrefix(a, p) /\ p = Moved(r, b, a)
      BY <3>1, TreeFacts, MovedPath DEF Under
    <3>3. CASE IsPrefix(b, q)
      <4> DEFINE o == Moved(q, b, a)
      <4>1. o \in Path /\ IsPrefix(a, o) /\ Moved(o, a, b) = q
        BY <3>3, MovedPath
      <4>2. IsPrefix(o, p)
        BY <1>2, <2>2, <3>0, <3>2, <3>3, MovedOrder
      <4>3. o # p
        BY <1>2, <3>1, <4>1
      <4> HIDE DEF o
      <4>4. o # <<>>
        <5>1. CASE a # <<>>
          BY <4>1, <5>1, PrefixOrder
        <5>2. CASE a = <<>>
          BY <5>2, PrefixOrder
        <5> QED BY <5>1, <5>2
      <4>5. o \in Under(f, a) /\ f[o] = "dir"
        BY <3>2, <4>1, <4>2, <4>3, <4>4, TreeFacts DEF Under
      <4> QED BY <1>0, <4>1, <4>5
    <3>4. CASE ~IsPrefix(b, q)
      <4>1. IsPrefix(q, b) /\ q # b
        BY <1>2, <2>2, <3>0, <3>4, PrefixOrder
      <4>2. q \in DOMAIN f /\ f[q] = "dir"
        BY <1>2, <4>1, EntryUp
      <4>3. ~IsPrefix(a, q)
        BY <1>2, <4>1, PrefixOrder
      <4> QED BY <1>0, <4>2, <4>3
    <3> QED BY <3>3, <3>4
  <2> QED BY <1>0, <2>1, <2>2
<1>3. Tree(g)
  BY <1>1, <1>2, TreeOrder
<1> QED BY <1>3 DEF g

\* A file is renamed.
LEMMA RenameFile ==
    ASSUME NEW f, Tree(f), NEW a \in DOMAIN f, f[a] # "dir", NEW b \in Path, b # <<>>, b \notin DOMAIN f
    PROVE  LET g == Rename(f, a, b) IN
           /\ DOMAIN g = (DOMAIN f \ {a}) \cup {b} /\ g[b] = f[a]
           /\ \A q \in DOMAIN f \ {a} : g[q] = f[q]
<1> DEFINE g == Rename(f, a, b)
<1>0. a \in Path /\ a # <<>>
  BY TreeFacts
<1>1. \A q \in DOMAIN f : IsPrefix(a, q) <=> q = a
  BY <1>0, TreeFacts, PrefixOrder
<1>2. Under(f, a) = {a} /\ Moved(a, a, b) = b
  <2>1. Under(f, a) = {a}
    BY <1>1 DEF Under
  <2>2. Moved(a, a, b) = b
    BY <1>0, MovedPath, PrefixOrder
  <2> QED BY <2>1, <2>2
<1>3. /\ \A q \in DOMAIN f : ~IsPrefix(a, q) => q \in DOMAIN g /\ g[q] = f[q]
      /\ \A p \in Under(f, a) : Moved(p, a, b) \in DOMAIN g /\ g[Moved(p, a, b)] = f[p]
      /\ \A r \in DOMAIN g :
            \/ r \in DOMAIN f /\ ~IsPrefix(a, r)
            \/ r \in Path /\ IsPrefix(b, r) /\ \E p \in Under(f, a) : r = Moved(p, a, b)
  BY <1>0, RenameCard
<1> HIDE DEF g
<1>4. b \in DOMAIN g /\ g[b] = f[a]
  BY <1>2, <1>3
<1>5. \A q \in DOMAIN f \ {a} : q \in DOMAIN g /\ g[q] = f[q]
  BY <1>1, <1>3
<1>6. \A r \in DOMAIN g : r \in DOMAIN f \ {a} \/ r = b
  BY <1>1, <1>2, <1>3
<1>7. DOMAIN g = (DOMAIN f \ {a}) \cup {b}
  BY <1>4, <1>5, <1>6
<1> QED BY <1>4, <1>5, <1>7 DEF g

\* Directories are created, each with what is missing above it.
LEMMA AddDirs ==
    ASSUME NEW f, Tree(f), NEW D \in SUBSET Path, NEW g,
           DOMAIN g = DOMAIN f \cup D, \A q \in DOMAIN f : g[q] = f[q], \A d \in D : g[d] = "dir",
           \A d \in D : d # <<>>,
           \A d \in D, q \in Path : q # <<>> /\ IsPrefix(q, d) => q \in D \/ (q \in DOMAIN f /\ f[q] = "dir")
    PROVE  Tree(g)
<1>1. \A r \in DOMAIN g : r \in Path /\ r # <<>>
  BY TreeFacts
<1>2. ASSUME NEW r \in DOMAIN g, NEW q \in Path, q # <<>>, IsPrefix(q, r), q # r
      PROVE  q \in DOMAIN g /\ g[q] = "dir"
  <2>1. CASE r \in DOMAIN f
    BY <1>2, <2>1, TreeFacts
  <2>2. CASE r \in D
    BY <1>2, <2>2
  <2> QED BY <2>1, <2>2
<1> QED BY <1>1, <1>2, TreeOrder
-----------------------------------------------------------------------------
(* The names the worker chooses *)

LEMMA LeastIndex ==
    ASSUME NEW S \in SUBSET Nat, S # {}
    PROVE  \E i \in S : \A j \in S : i <= j
<1>1. IsWellFoundedOn(OpToRel(<, Nat), Nat)
  BY NatLessThanWellFounded
<1>2. PICK i \in S : \A j \in S : ~(<<j, i>> \in OpToRel(<, Nat))
  BY <1>1, WFMin
<1>3. \A j \in S : j < i => <<j, i>> \in OpToRel(<, Nat)
  BY DEF OpToRel
<1>4. \A j \in S : ~(j < i)
  BY <1>2, <1>3
<1>5. i \in Nat /\ \A j \in S : j \in Nat
  OBVIOUS
<1>6. \A j \in S : i <= j
  BY <1>4, <1>5
<1> QED BY <1>6

\* tempFor returns a free name beside the target, and never the target.
LEMMA TempForFree ==
    ASSUME NEW target \in Path, target # <<>>, FreeTemps(target) # {}
    PROVE  LET t == TempFor(target) IN
           /\ t \in Path /\ t # <<>> /\ t # target /\ t \notin Paths
           /\ Front(t) = Front(target) /\ Last(t) \in Range(Temps)
<1> DEFINE i == CHOOSE k \in FreeTemps(target) : \A j \in FreeTemps(target) : k <= j
<1>0. Temps \in Seq(Component) /\ Len(Temps) \in Nat /\ DOMAIN Temps = 1 .. Len(Temps)
  BY ExplorerAssumption, LenProperties
<1>1. FreeTemps(target) \in SUBSET Nat
  BY <1>0 DEF FreeTemps
<1>2. i \in FreeTemps(target)
  BY <1>1, LeastIndex
<1>3. TempFor(target) = Append(Front(target), Temps[i])
  BY DEF TempFor
<1> HIDE DEF i
<1>4. /\ i \in DOMAIN Temps /\ Append(Front(target), Temps[i]) # target
      /\ Append(Front(target), Temps[i]) \notin Paths
  BY <1>2 DEF FreeTemps
<1>5. Temps[i] \in Component /\ Temps[i] \in Range(Temps)
  BY <1>0, <1>4, ElementOfSeq DEF Range
<1>6. Front(target) \in Path
  BY FrontPath
<1> QED BY <1>3, <1>4, <1>5, <1>6, AppendPath

LEMMA TargetPath ==
    ASSUME NEW s \in Path, s # <<>>, job.dest \in Path
    PROVE  /\ Target(s) \in Path /\ Target(s) # <<>> /\ Front(Target(s)) = job.dest
           /\ Last(Target(s)) = Last(s) /\ Len(Target(s)) = Len(job.dest) + 1
           /\ IsPrefix(job.dest, Target(s))
<1>1. Last(s) \in Component
  BY FrontPath
<1>2. /\ Target(s) \in Path /\ Target(s) # <<>> /\ Front(Target(s)) = job.dest
      /\ Last(Target(s)) = Last(s) /\ Len(Target(s)) = Len(job.dest) + 1
  BY <1>1, AppendPath DEF Target
<1> QED BY <1>2, FrontPath

\* Sources of one folder have targets of their own.
LEMMA TargetInjective ==
    ASSUME NEW s \in Path, NEW t \in Path, s # <<>>, t # <<>>, Front(s) = Front(t),
           job.dest \in Path, Target(s) = Target(t)
    PROVE  s = t
  BY TargetPath, FrontLast

LEMMA MemberPath ==
    ASSUME NEW i \in DOMAIN Members, job.dest \in Path
    PROVE  LET t == MemberTarget(Members[i]) IN
           /\ t \in Path /\ t # <<>> /\ t # job.dest /\ IsPrefix(job.dest, t)
           /\ IsPrefix(job.dest, Front(t))
           /\ Members[i].path \in Path /\ Members[i].dir \in BOOLEAN
<1> DEFINE t == MemberTarget(Members[i])
           m == Members[i].path
<1>1. m \in Path /\ m # <<>> /\ Members[i].dir \in BOOLEAN
  <2>1. Members \in Seq([path : Path, dir : BOOLEAN]) /\ Members[i].path # <<>>
    BY ExplorerAssumption
  <2>2. i \in 1 .. Len(Members)
    BY <2>1, LenProperties
  <2>3. Members[i] \in [path : Path, dir : BOOLEAN]
    BY <2>1, <2>2, ElementOfSeq
  <2> QED BY <2>1, <2>3
<1>2. t = job.dest \o m
  BY DEF MemberTarget
<1> HIDE DEF m
<1>3. /\ t \in Path /\ Len(t) = Len(job.dest) + Len(m)
      /\ \A k \in 1 .. Len(job.dest) + Len(m) :
            t[k] = IF k <= Len(job.dest) THEN job.dest[k] ELSE m[k - Len(job.dest)]
  BY <1>1, <1>2, ConcatProperties DEF Path
<1> HIDE DEF t
<1>4. Len(job.dest) \in Nat /\ Len(m) \in Nat /\ Len(m) # 0
  BY <1>1, PrefixOrder
<1>5. \A k \in 1 .. Len(job.dest) : t[k] = job.dest[k]
  BY <1>3, <1>4
<1>6. IsPrefix(job.dest, t) /\ t # job.dest /\ t # <<>>
  <2>1. Len(job.dest) < Len(t) /\ Len(t) # 0 /\ Len(job.dest) <= Len(t)
    BY <1>3, <1>4
  <2>2. IsPrefix(job.dest, t)
    BY <1>3, <1>5, <2>1, PrefixPoint
  <2>3. t # job.dest
    BY <1>4, <2>1
  <2>4. t # <<>>
    BY <2>1, PrefixOrder
  <2> QED BY <2>2, <2>3, <2>4
<1>7. IsPrefix(job.dest, Front(t))
  BY <1>3, <1>6, FrontPath
<1> QED BY <1>1, <1>3, <1>6, <1>7 DEF t, m

LEMMA MemberOrder ==
    ASSUME NEW i \in DOMAIN Members, NEW j \in DOMAIN Members, job.dest \in Path,
           IsPrefix(MemberTarget(Members[i]), MemberTarget(Members[j]))
    PROVE  IsPrefix(Members[i].path, Members[j].path)
<1> DEFINE d == job.dest
           m == Members[i].path
           n == Members[j].path
<1>1. m \in Path /\ n \in Path /\ d \in Path
  BY MemberPath
<1>2. d \o m \in Path /\ d \o n \in Path /\ IsPrefix(d \o m, d \o n)
  BY <1>1, ConcatProperties DEF MemberTarget, Path
<1> HIDE DEF m, n, d
<1>3. /\ Len(d \o m) = Len(d) + Len(m) /\ Len(d \o n) = Len(d) + Len(n)
      /\ Len(d) \in Nat /\ Len(m) \in Nat /\ Len(n) \in Nat
  BY <1>1, ConcatProperties, PrefixOrder DEF Path
<1>4. Len(m) <= Len(n)
  <2>1. Len(d \o m) <= Len(d \o n)
    BY <1>2, PrefixOrder
  <2> QED BY <1>3, <2>1
<1>5. ASSUME NEW k \in 1 .. Len(m)
      PROVE  m[k] = n[k]
  <2>1. /\ Len(d) + k \in 1 .. Len(d) + Len(m) /\ Len(d) + k \in 1 .. Len(d) + Len(n)
        /\ ~(Len(d) + k <= Len(d)) /\ Len(d) + k - Len(d) = k
    BY <1>3, <1>4
  <2>2. (d \o m)[Len(d) + k] = m[k]
    BY <1>1, <2>1, ConcatProperties DEF Path
  <2>3. (d \o n)[Len(d) + k] = n[k]
    BY <1>1, <2>1, ConcatProperties DEF Path
  <2>4. (d \o m)[Len(d) + k] = (d \o n)[Len(d) + k]
    <3>1. \A l \in 1 .. Len(d \o m) : (d \o m)[l] = (d \o n)[l]
      BY <1>2, PrefixPoint, ZenonT(30)
    <3>2. Len(d) + k \in 1 .. Len(d \o m)
      BY <1>3, <2>1
    <3> QED BY <3>1, <3>2
  <2> QED BY <2>2, <2>3, <2>4
<1>6. IsPrefix(m, n)
  BY <1>1, <1>4, <1>5, PrefixPoint
<1> QED BY <1>6 DEF m, n

\* Two members have different targets.
LEMMA MemberInjective ==
    ASSUME NEW i \in DOMAIN Members, NEW j \in DOMAIN Members, job.dest \in Path,
           MemberTarget(Members[i]) = MemberTarget(Members[j])
    PROVE  i = j
<1>1. MemberTarget(Members[i]) \in Path
  BY MemberPath
<1>2. IsPrefix(MemberTarget(Members[i]), MemberTarget(Members[j]))
  BY <1>1, PrefixOrder
<1>3. IsPrefix(MemberTarget(Members[j]), MemberTarget(Members[i]))
  BY <1>1, PrefixOrder
<1>4. IsPrefix(Members[i].path, Members[j].path)
  BY <1>2, MemberOrder
<1>5. IsPrefix(Members[j].path, Members[i].path)
  BY <1>3, MemberOrder
<1>6. Members[i].path \in Path /\ Members[j].path \in Path
  BY MemberPath
<1>7. Members[i].path = Members[j].path
  BY <1>4, <1>5, <1>6, PrefixOrder
<1> QED BY <1>7, ExplorerAssumption

\* The directories that are missing: those above the folder and in the destination.
LEMMA MissingPaths ==
    ASSUME NEW folder \in Path, job.dest \in Path
    PROVE  \A q : q \in Missing(folder) <=>
                  q \in Path /\ IsPrefix(q, folder) /\ Len(q) > Len(job.dest) /\ q \notin Paths
<1>0. Len(folder) \in Nat /\ Len(job.dest) \in Nat
  BY PrefixOrder
<1>1. ASSUME NEW q, q \in Missing(folder)
      PROVE  q \in Path /\ IsPrefix(q, folder) /\ Len(q) > Len(job.dest) /\ q \notin Paths
  <2>1. PICK n \in Len(job.dest) + 1 .. Len(folder) : q = SubSeq(folder, 1, n)
    BY <1>1 DEF Missing
  <2>2. n \in 0 .. Len(folder) /\ n > Len(job.dest)
    BY <1>0, <2>1
  <2>3. q \notin Paths
    BY <1>1 DEF Missing
  <2> QED BY <2>1, <2>2, <2>3, SubSeqPath
<1>2. ASSUME NEW q \in Path, IsPrefix(q, folder), Len(q) > Len(job.dest), q \notin Paths
      PROVE  q \in Missing(folder)
  <2>1. Len(q) \in 0 .. Len(folder) /\ q = SubSeq(folder, 1, Len(q))
    BY <1>2, PrefixIsSubSeq
  <2>2. Len(q) \in Len(job.dest) + 1 .. Len(folder)
    BY <1>0, <1>2, <2>1
  <2> QED BY <1>2, <2>1, <2>2 DEF Missing
<1> QED BY <1>1, <1>2

\* A pane falls back to a folder that exists.
LEMMA NearestFolder ==
    ASSUME NEW p \in Path
    PROVE  Nearest(p) \in Path /\ Folder(Nearest(p))
<1> DEFINE ups == {n \in 0 .. Len(p) : Folder(SubSeq(p, 1, n))}
           downs == {k \in Nat : \E n \in ups : k = Len(p) - n}
           top == CHOOSE n \in ups : \A m \in ups : m <= n
<1>0. Len(p) \in Nat
  BY PrefixOrder
<1>1. 0 \in ups
  <2>1. 0 \in 0 .. Len(p)
    BY <1>0
  <2>2. SubSeq(p, 1, 0) \in Path /\ Len(SubSeq(p, 1, 0)) = 0
    BY <2>1, SubSeqPath
  <2>3. SubSeq(p, 1, 0) = <<>>
    BY <2>2, PrefixOrder
  <2> QED BY <2>1, <2>3 DEF Folder
<1>2. \A n \in ups : n \in Nat /\ n <= Len(p) /\ Folder(SubSeq(p, 1, n))
  BY <1>0
<1>3. Nearest(p) = SubSeq(p, 1, top)
  BY DEF Nearest
<1> HIDE DEF ups
<1>4. \E n \in ups : \A m \in ups : m <= n
  <2>1. Len(p) - 0 \in downs
    BY <1>0, <1>1
  <2>2. downs \in SUBSET Nat /\ downs # {}
    BY <2>1
  <2>3. PICK k \in downs : \A l \in downs : k <= l
    BY <2>2, LeastIndex
  <2>4. PICK n \in ups : k = Len(p) - n
    BY <2>3
  <2>5. ASSUME NEW m \in ups
        PROVE  m <= n
    <3>1. Len(p) - m \in downs
      BY <1>0, <1>2
    <3>2. k <= Len(p) - m
      BY <2>3, <3>1
    <3> HIDE DEF downs
    <3> QED BY <1>0, <1>2, <2>4, <3>2
  <2> QED BY <2>5
<1>5. top \in ups
  BY <1>4
<1> HIDE DEF top
<1>6. top \in 0 .. Len(p) /\ Folder(SubSeq(p, 1, top))
  BY <1>0, <1>2, <1>5
<1> QED BY <1>3, <1>6, SubSeqPath
-----------------------------------------------------------------------------
(* The steps that leave the card alone *)

\* An exception, from any step that can throw.
LEMMA ThrowStep ==
    ASSUME ExplorerInv, Throw, UNCHANGED <<jobVars, cancel>>, UNCHANGED page,
           pc \notin {"idle", "ended", "unwind"}
    PROVE  ExplorerInv'
<1>0. /\ UNCHANGED <<fs, before, job, cancel, left, todo, at, member, file, staging, made, dirs, result, panes, clipboard, cut, busy, ops>>
      /\ pc' = "unwind"
  BY DEF Throw, Goto, jobVars, walk, undo, page
<1>10. Types'
  BY <1>0 DEF ExplorerInv, Types, Steps, Siblings, Writing
<1>11. CardInv'
  BY <1>0 DEF ExplorerInv, CardInv, Paths, UserFilesKept, Sourced
<1>12. HandInv'
  BY <1>0 DEF ExplorerInv, HandInv, Types, Writing, IsFolder, NoFile, NoJob, Paths
<1>13. TempInv'
  BY <1>0 DEF ExplorerInv, TempInv, Types, HandInv, New, Paths
<1>14. SourcesInv'
  BY <1>0 DEF ExplorerInv, SourcesInv, Types, Writing, Target
<1>15. TargetInv'
  BY <1>0 DEF ExplorerInv, TargetInv, Types, HandInv, Writing, New, Paths, Whole, Target, InHand
<1>16. CopyInv'
  BY <1>0 DEF ExplorerInv, CopyInv, Types, HandInv, Writing, New, Paths, Target, Under
<1>17. MoveInv'
  BY <1>0 DEF ExplorerInv, MoveInv, Types, HandInv, Paths, Target, Under
<1>18. DeleteInv'
  BY <1>0 DEF ExplorerInv, DeleteInv, Types, HandInv, Writing, Paths, InHand, Under
<1>19. ZipInv'
  BY <1>0 DEF ExplorerInv, ZipInv, Types, HandInv, Writing, New, Paths, MemberTarget, IsFolder
<1>20. PageInv'
  BY <1>0 DEF ExplorerInv, PageInv, Types, Paths, Folder
<1> QED BY <1>10, <1>11, <1>12, <1>13, <1>14, <1>15, <1>16, <1>17, <1>18, <1>19, <1>20 DEF ExplorerInv

\* The checks of a copy, a move or a deletion pass.
LEMMA PreflightSourcesStep ==
    ASSUME ExplorerInv, pc = "preflight", UNCHANGED <<jobVars, cancel>>, UNCHANGED page,
           \A s \in job.sources : Valid(s), job.op # "zip",
           left' = job.sources, Goto("source"),
           UNCHANGED <<fs, todo, at, member, file, staging, undo, result>>
    PROVE  ExplorerInv'
<1>0. /\ UNCHANGED <<fs, before, job, cancel, todo, at, member, file, staging, made, dirs, result, panes, clipboard, cut, busy, ops>>
      /\ pc' = "source" /\ left' = job.sources /\ pc = "preflight" /\ job.op # "zip"
  BY DEF Goto, jobVars, walk, undo, page
<1>1. fs = before /\ New = {}
  BY <1>0 DEF ExplorerInv, HandInv, New, Paths
<1>2. \A s \in job.sources : Valid(s)
  OBVIOUS
<1>10. Types'
  BY <1>0, <1>1, <1>2 DEF ExplorerInv, Types, Steps, Siblings, Writing, Valid, Under, Paths
<1>11. CardInv'
  BY <1>0, <1>1, <1>2 DEF ExplorerInv, CardInv, Paths, UserFilesKept, Sourced, Valid, Under
<1>12. HandInv'
  BY <1>0, <1>1, <1>2 DEF ExplorerInv, HandInv, Types, Writing, IsFolder, NoFile, NoJob, Paths, Valid, Under
<1>13. TempInv'
  BY <1>0, <1>1, <1>2 DEF ExplorerInv, TempInv, Types, HandInv, New, Paths, Valid, Under
<1>14. SourcesInv'
  BY <1>0, <1>1, <1>2 DEF ExplorerInv, SourcesInv, Types, Writing, Target, Valid, Under, Paths
<1>15. TargetInv'
  BY <1>0, <1>1, <1>2 DEF ExplorerInv, TargetInv, Types, HandInv, Writing, New, Paths, Whole, Target, InHand, Valid, Under
<1>16. CopyInv'
  BY <1>0, <1>1, <1>2 DEF ExplorerInv, CopyInv, Types, HandInv, Writing, New, Paths, Target, Under, Valid
<1>17. MoveInv'
  BY <1>0, <1>1, <1>2 DEF ExplorerInv, MoveInv, Types, HandInv, Paths, Target, Under, Valid
<1>18. DeleteInv'
  BY <1>0, <1>1, <1>2 DEF ExplorerInv, DeleteInv, Types, HandInv, Writing, Paths, InHand, Under, Valid
<1>19. ZipInv'
  BY <1>0, <1>1, <1>2 DEF ExplorerInv, ZipInv, Types, HandInv, Writing, New, Paths, MemberTarget, IsFolder, Valid, Under
<1>20. PageInv'
  BY <1>0, <1>1, <1>2 DEF ExplorerInv, PageInv, Types, Paths, Folder, Valid, Under
<1> QED BY <1>10, <1>11, <1>12, <1>13, <1>14, <1>15, <1>16, <1>17, <1>18, <1>19, <1>20 DEF ExplorerInv

\* The checks of an extraction pass.
LEMMA PreflightZipStep ==
    ASSUME ExplorerInv, pc = "preflight", UNCHANGED <<jobVars, cancel>>, UNCHANGED page, job.op = "zip", member' = 1, Goto("member"),
           UNCHANGED <<fs, left, todo, at, file, staging, undo, result>>
    PROVE  ExplorerInv'
<1>0. /\ UNCHANGED <<fs, before, job, cancel, left, todo, at, file, staging, made, dirs, result, panes, clipboard, cut, busy, ops>>
      /\ pc' = "member" /\ member' = 1 /\ pc = "preflight" /\ job.op = "zip"
  BY DEF Goto, jobVars, walk, undo, page
<1>1. fs = before /\ New = {} /\ \A i \in DOMAIN Members : ~(i < 1)
  <2>1. \A i \in DOMAIN Members : i \in Nat /\ i >= 1
    BY ExplorerAssumption, LenProperties
  <2> QED BY <1>0, <2>1 DEF ExplorerInv, HandInv, New, Paths
<1>10. Types'
  BY <1>0, <1>1 DEF ExplorerInv, Types, Steps, Siblings, Writing
<1>11. CardInv'
  BY <1>0, <1>1 DEF ExplorerInv, CardInv, Paths, UserFilesKept, Sourced
<1>12. HandInv'
  BY <1>0, <1>1 DEF ExplorerInv, HandInv, Types, Writing, IsFolder, NoFile, NoJob, Paths
<1>13. TempInv'
  BY <1>0, <1>1 DEF ExplorerInv, TempInv, Types, HandInv, New, Paths
<1>14. SourcesInv'
  BY <1>0, <1>1 DEF ExplorerInv, SourcesInv, Types, Writing, Target
<1>15. TargetInv'
  BY <1>0, <1>1 DEF ExplorerInv, TargetInv, Types, HandInv, Writing, New, Paths, Whole, Target, InHand
<1>16. CopyInv'
  BY <1>0, <1>1 DEF ExplorerInv, CopyInv, Types, HandInv, Writing, New, Paths, Target, Under
<1>17. MoveInv'
  BY <1>0, <1>1 DEF ExplorerInv, MoveInv, Types, HandInv, Paths, Target, Under
<1>18. DeleteInv'
  BY <1>0, <1>1 DEF ExplorerInv, DeleteInv, Types, HandInv, Writing, Paths, InHand, Under
<1>19. ZipInv'
  BY <1>0, <1>1 DEF ExplorerInv, ZipInv, Types, HandInv, Writing, New, Paths, MemberTarget, IsFolder
<1>20. PageInv'
  BY <1>0, <1>1 DEF ExplorerInv, PageInv, Types, Paths, Folder
<1> QED BY <1>10, <1>11, <1>12, <1>13, <1>14, <1>15, <1>16, <1>17, <1>18, <1>19, <1>20 DEF ExplorerInv

\* run returns its message.
LEMMA SucceedStep ==
    ASSUME ExplorerInv, Succeed, UNCHANGED page
    PROVE  ExplorerInv'
<1>0. /\ UNCHANGED <<fs, before, job, cancel, left, todo, at, member, file, staging, panes, clipboard, cut, busy, ops>>
      /\ pc' = "ended" /\ result' = "ok" /\ made' = <<>> /\ dirs' = {}
      /\ (pc = "source" /\ left = {}) \/ (pc = "member" /\ member > Len(Members))
  BY DEF Succeed, Goto, jobVars, walk, undo, page
<1>1. made' \in Seq(Path) /\ DOMAIN made' = {} /\ file = NoFile
  BY <1>0 DEF ExplorerInv, HandInv, Types, Writing
<1>2. \A i \in DOMAIN Members : member > Len(Members) => i < member
  <2>1. Len(Members) \in Nat /\ DOMAIN Members = 1 .. Len(Members)
    BY ExplorerAssumption, LenProperties
  <2> QED BY <2>1 DEF ExplorerInv, Types
<1>3. staging = <<>>
  BY <1>0 DEF ExplorerInv, HandInv, ZipInv
<1>4. \A p \in DOMAIN fs : fs[p] # "torn"
  BY <1>1, TreeFacts DEF ExplorerInv, CardInv, NoFile, Paths
<1>10. Types'
  BY <1>0, <1>1, <1>2, <1>3, <1>4 DEF ExplorerInv, Types, Steps, Siblings, Writing
<1>11. CardInv'
  BY <1>0, <1>1, <1>2, <1>3, <1>4 DEF ExplorerInv, CardInv, Paths, UserFilesKept, Sourced
<1>12. HandInv'
  BY <1>0, <1>1, <1>2, <1>3, <1>4 DEF ExplorerInv, HandInv, Types, Writing, IsFolder, NoFile, NoJob, Paths
<1>13. TempInv'
  BY <1>0, <1>1, <1>2, <1>3, <1>4 DEF ExplorerInv, TempInv, Types, HandInv, New, Paths
<1>14. SourcesInv'
  BY <1>0, <1>1, <1>2, <1>3, <1>4 DEF ExplorerInv, SourcesInv, Types, Writing, Target
<1>15. TargetInv'
  BY <1>0, <1>1, <1>2, <1>3, <1>4 DEF ExplorerInv, TargetInv, Types, HandInv, Writing, New, Paths, Whole, Target, InHand
<1>16. CopyInv'
  BY <1>0, <1>1, <1>2, <1>3, <1>4 DEF ExplorerInv, CopyInv, Types, HandInv, Writing, New, Paths, Target, Under
<1>17. MoveInv'
  BY <1>0, <1>1, <1>2, <1>3, <1>4 DEF ExplorerInv, MoveInv, Types, HandInv, Paths, Target, Under
<1>18. DeleteInv'
  BY <1>0, <1>1, <1>2, <1>3, <1>4 DEF ExplorerInv, DeleteInv, Types, HandInv, Writing, Paths, InHand, Under
<1>19. ZipInv'
  BY <1>0, <1>1, <1>2, <1>3, <1>4 DEF ExplorerInv, ZipInv, Types, HandInv, Writing, New, Paths, MemberTarget, IsFolder
<1>20. PageInv'
  BY <1>0, <1>1, <1>2, <1>3, <1>4 DEF ExplorerInv, PageInv, Types, Paths, Folder
<1> QED BY <1>10, <1>11, <1>12, <1>13, <1>14, <1>15, <1>16, <1>17, <1>18, <1>19, <1>20 DEF ExplorerInv

\* The handlers are through.
LEMMA UnwindEndStep ==
    ASSUME ExplorerInv, pc = "unwind", UNCHANGED <<jobVars, cancel>>, UNCHANGED page, file.tmp = <<>>, staging = <<>>, made = <<>>, dirs = {},
           Goto("ended"), result' = "error", file' = NoFile, UNCHANGED <<fs, walk, staging, undo>>
    PROVE  ExplorerInv'
<1>0. /\ UNCHANGED <<fs, before, job, cancel, left, todo, at, member, staging, made, dirs, panes, clipboard, cut, busy, ops>>
      /\ pc' = "ended" /\ result' = "error" /\ file' = NoFile /\ pc = "unwind"
  BY DEF Goto, jobVars, walk, undo, page
<1>1. file'.tmp = <<>> /\ file' \in [src : Path, dst : Path, tmp : Path]
  BY <1>0, PrefixOrder DEF NoFile
<1>2. \A p \in DOMAIN fs : fs[p] # "torn"
  BY <1>1, TreeFacts DEF ExplorerInv, CardInv, Paths
<1>10. Types'
  BY <1>0, <1>1, <1>2 DEF ExplorerInv, Types, Steps, Siblings, Writing
<1>11. CardInv'
  BY <1>0, <1>1, <1>2 DEF ExplorerInv, CardInv, Paths, UserFilesKept, Sourced
<1>12. HandInv'
  BY <1>0, <1>1, <1>2 DEF ExplorerInv, HandInv, Types, Writing, IsFolder, NoFile, NoJob, Paths
<1>13. TempInv'
  BY <1>0, <1>1, <1>2 DEF ExplorerInv, TempInv, Types, HandInv, New, Paths
<1>14. SourcesInv'
  BY <1>0, <1>1, <1>2 DEF ExplorerInv, SourcesInv, Types, Writing, Target
<1>15. TargetInv'
  BY <1>0, <1>1, <1>2 DEF ExplorerInv, TargetInv, Types, HandInv, Writing, New, Paths, Whole, Target, InHand
<1>16. CopyInv'
  BY <1>0, <1>1, <1>2 DEF ExplorerInv, CopyInv, Types, HandInv, Writing, New, Paths, Target, Under
<1>17. MoveInv'
  BY <1>0, <1>1, <1>2 DEF ExplorerInv, MoveInv, Types, HandInv, Paths, Target, Under
<1>18. DeleteInv'
  BY <1>0, <1>1, <1>2 DEF ExplorerInv, DeleteInv, Types, HandInv, Writing, Paths, InHand, Under
<1>19. ZipInv'
  BY <1>0, <1>1, <1>2 DEF ExplorerInv, ZipInv, Types, HandInv, Writing, New, Paths, MemberTarget, IsFolder
<1>20. PageInv'
  BY <1>0, <1>1, <1>2 DEF ExplorerInv, PageInv, Types, Paths, Folder
<1> QED BY <1>10, <1>11, <1>12, <1>13, <1>14, <1>15, <1>16, <1>17, <1>18, <1>19, <1>20 DEF ExplorerInv

\* A source is deleted.
LEMMA DeleteDoneStep ==
    ASSUME ExplorerInv, pc = "delete", UNCHANGED <<jobVars, cancel>>, UNCHANGED page, todo = {}, Goto("source"),
           UNCHANGED <<fs, walk, file, staging, undo, result>>
    PROVE  ExplorerInv'
<1>0. /\ UNCHANGED <<fs, before, job, cancel, left, todo, at, member, file, staging, made, dirs, result, panes, clipboard, cut, busy, ops>>
      /\ pc' = "source" /\ pc = "delete" /\ todo = {}
  BY DEF Goto, jobVars, walk, undo, page
<1>1. job.op = "delete" /\ staging = <<>>
  BY <1>0 DEF ExplorerInv, HandInv, DeleteInv
<1>10. Types'
  BY <1>0, <1>1 DEF ExplorerInv, Types, Steps, Siblings, Writing
<1>11. CardInv'
  BY <1>0, <1>1 DEF ExplorerInv, CardInv, Paths, UserFilesKept, Sourced
<1>12. HandInv'
  BY <1>0, <1>1 DEF ExplorerInv, HandInv, Types, Writing, IsFolder, NoFile, NoJob, Paths
<1>13. TempInv'
  BY <1>0, <1>1 DEF ExplorerInv, TempInv, Types, HandInv, New, Paths
<1>14. SourcesInv'
  BY <1>0, <1>1 DEF ExplorerInv, SourcesInv, Types, Writing, Target
<1>15. TargetInv'
  BY <1>0, <1>1 DEF ExplorerInv, TargetInv, Types, HandInv, Writing, New, Paths, Whole, Target, InHand
<1>16. CopyInv'
  BY <1>0, <1>1 DEF ExplorerInv, CopyInv, Types, HandInv, Writing, New, Paths, Target, Under
<1>17. MoveInv'
  BY <1>0, <1>1 DEF ExplorerInv, MoveInv, Types, HandInv, Paths, Target, Under
<1>18. DeleteInv'
  BY <1>0, <1>1 DEF ExplorerInv, DeleteInv, Types, HandInv, Writing, Paths, InHand, Under
<1>19. ZipInv'
  BY <1>0, <1>1 DEF ExplorerInv, ZipInv, Types, HandInv, Writing, New, Paths, MemberTarget, IsFolder
<1>20. PageInv'
  BY <1>0, <1>1 DEF ExplorerInv, PageInv, Types, Paths, Folder
<1> QED BY <1>10, <1>11, <1>12, <1>13, <1>14, <1>15, <1>16, <1>17, <1>18, <1>19, <1>20 DEF ExplorerInv

\* A source to delete.
LEMMA DeleteSourceStep ==
    ASSUME ExplorerInv, pc = "source", UNCHANGED <<jobVars, cancel>>, UNCHANGED page, job.op = "delete", NEW s \in left, at' = s, left' = left \ {s},
           todo' = Under(fs, s), Goto("delete"), UNCHANGED <<fs, file, staging, member, undo, result>>
    PROVE  ExplorerInv'
<1>0. /\ UNCHANGED <<fs, before, job, cancel, member, file, staging, made, dirs, result, panes, clipboard, cut, busy, ops>>
      /\ pc' = "delete" /\ at' = s /\ left' = left \ {s} /\ todo' = Under(fs, s) /\ pc = "source" /\ job.op = "delete"
  BY DEF Goto, jobVars, walk, undo, page
<1>1. s \in Path /\ s \in job.sources /\ Under(fs, s) \subseteq Path
  BY TreeFacts DEF ExplorerInv, Types, CardInv, Under
<1>10. Types'
  BY <1>0, <1>1 DEF ExplorerInv, Types, Steps, Siblings, Writing
<1>11. CardInv'
  BY <1>0, <1>1 DEF ExplorerInv, CardInv, Paths, UserFilesKept, Sourced
<1>12. HandInv'
  BY <1>0, <1>1 DEF ExplorerInv, HandInv, Types, Writing, IsFolder, NoFile, NoJob, Paths
<1>13. TempInv'
  BY <1>0, <1>1 DEF ExplorerInv, TempInv, Types, HandInv, New, Paths
<1>14. SourcesInv'
  BY <1>0, <1>1 DEF ExplorerInv, SourcesInv, Types, Writing, Target
<1>15. TargetInv'
  BY <1>0, <1>1 DEF ExplorerInv, TargetInv, Types, HandInv, Writing, New, Paths, Whole, Target, InHand
<1>16. CopyInv'
  BY <1>0, <1>1 DEF ExplorerInv, CopyInv, Types, HandInv, Writing, New, Paths, Target, Under
<1>17. MoveInv'
  BY <1>0, <1>1 DEF ExplorerInv, MoveInv, Types, HandInv, Paths, Target, Under
<1>18. DeleteInv'
  BY <1>0, <1>1 DEF ExplorerInv, DeleteInv, Types, HandInv, Writing, Paths, InHand, Under
<1>19. ZipInv'
  BY <1>0, <1>1 DEF ExplorerInv, ZipInv, Types, HandInv, Writing, New, Paths, MemberTarget, IsFolder
<1>20. PageInv'
  BY <1>0, <1>1 DEF ExplorerInv, PageInv, Types, Paths, Folder
<1> QED BY <1>10, <1>11, <1>12, <1>13, <1>14, <1>15, <1>16, <1>17, <1>18, <1>19, <1>20 DEF ExplorerInv

\* A file to copy.
LEMMA FileSourceStep ==
    ASSUME ExplorerInv, pc = "source", UNCHANGED <<jobVars, cancel>>, UNCHANGED page, job.op = "copy", NEW s \in left, at' = s, left' = left \ {s}, fs[s] # "dir",
           file' = [src |-> s, dst |-> Target(s), tmp |-> <<>>], Goto("file"),
           UNCHANGED <<fs, todo, staging, member, undo, result>>
    PROVE  ExplorerInv'
<1>0. /\ UNCHANGED <<fs, before, job, cancel, todo, member, staging, made, dirs, result, panes, clipboard, cut, busy, ops>>
      /\ pc' = "file" /\ at' = s /\ left' = left \ {s} /\ pc = "source" /\ job.op = "copy"
      /\ file' = [src |-> s, dst |-> Target(s), tmp |-> <<>>]
  BY DEF Goto, jobVars, walk, undo, page
<1>1. s \in Path /\ s \in job.sources /\ s # <<>> /\ Target(s) \in Path /\ staging = <<>> /\ file = NoFile
  BY <1>0, TargetPath DEF ExplorerInv, Types, HandInv, Siblings, Writing
<1>2. s \in DOMAIN before /\ before[s] = fs[s] /\ IsPrefix(s, s)
  BY <1>0, <1>1, PrefixOrder DEF ExplorerInv, CardInv, SourcesInv, UserFilesKept
<1>3. file'.tmp = <<>> /\ file.tmp = <<>> /\ file' \in [src : Path, dst : Path, tmp : Path]
  BY <1>0, <1>1, PrefixOrder DEF NoFile
<1>10. Types'
  BY <1>0, <1>1, <1>2, <1>3 DEF ExplorerInv, Types, Steps, Siblings, Writing
<1>11. CardInv'
  BY <1>0, <1>1, <1>2, <1>3 DEF ExplorerInv, CardInv, Paths, UserFilesKept, Sourced
<1>12. HandInv'
  BY <1>0, <1>1, <1>2, <1>3 DEF ExplorerInv, HandInv, Types, Writing, IsFolder, NoFile, NoJob, Paths
<1>13. TempInv'
  BY <1>0, <1>1, <1>2, <1>3 DEF ExplorerInv, TempInv, Types, HandInv, New, Paths
<1>14. SourcesInv'
  BY <1>0, <1>1, <1>2, <1>3 DEF ExplorerInv, SourcesInv, Types, Writing, Target
<1>15. TargetInv'
  BY <1>0, <1>1, <1>2, <1>3 DEF ExplorerInv, TargetInv, Types, HandInv, Writing, New, Paths, Whole, Target, InHand
<1>16. CopyInv'
  BY <1>0, <1>1, <1>2, <1>3 DEF ExplorerInv, CopyInv, Types, HandInv, Writing, New, Paths, Target, Under
<1>17. MoveInv'
  BY <1>0, <1>1, <1>2, <1>3 DEF ExplorerInv, MoveInv, Types, HandInv, Paths, Target, Under
<1>18. DeleteInv'
  BY <1>0, <1>1, <1>2, <1>3 DEF ExplorerInv, DeleteInv, Types, HandInv, Writing, Paths, InHand, Under
<1>19. ZipInv'
  BY <1>0, <1>1, <1>2, <1>3 DEF ExplorerInv, ZipInv, Types, HandInv, Writing, New, Paths, MemberTarget, IsFolder
<1>20. PageInv'
  BY <1>0, <1>1, <1>2, <1>3 DEF ExplorerInv, PageInv, Types, Paths, Folder
<1> QED BY <1>10, <1>11, <1>12, <1>13, <1>14, <1>15, <1>16, <1>17, <1>18, <1>19, <1>20 DEF ExplorerInv

\* A file of the tree to copy.
LEMMA FileNodeStep ==
    ASSUME ExplorerInv, pc = "tree", UNCHANGED <<jobVars, cancel>>, UNCHANGED page, NEW p \in todo, Front(p) \notin todo, todo' = todo \ {p}, fs[p] # "dir", Goto("file"),
           file' = [src |-> p, dst |-> Moved(p, at, staging), tmp |-> <<>>],
           UNCHANGED <<fs, left, at, member, staging, undo, result>>
    PROVE  ExplorerInv'
<1>0. /\ UNCHANGED <<fs, before, job, cancel, left, at, member, staging, made, dirs, result, panes, clipboard, cut, busy, ops>>
      /\ pc' = "file" /\ pc = "tree" /\ todo' = todo \ {p}
      /\ file' = [src |-> p, dst |-> Moved(p, at, staging), tmp |-> <<>>]
  BY DEF Goto, jobVars, walk, undo, page
<1>1. job.op = "copy" /\ staging # <<>> /\ file = NoFile /\ p \in Under(before, at) /\ p # at /\ p \in Path
  BY <1>0 DEF ExplorerInv, Types, HandInv, CopyInv, Writing
<1>2. p \in DOMAIN before /\ before[p] = fs[p] /\ IsPrefix(at, p) /\ Moved(p, at, staging) \in Path
  BY <1>0, <1>1, MovedPath DEF ExplorerInv, Types, CardInv, UserFilesKept, Under
<1>3. file'.tmp = <<>> /\ file.tmp = <<>> /\ file' \in [src : Path, dst : Path, tmp : Path] /\ file'.src = p
  BY <1>0, <1>1, <1>2, PrefixOrder DEF NoFile
<1>4. Front(p) # p
  BY <1>1, <1>2, MovedFront, FrontPath DEF ExplorerInv, Types
<1>5. file.src \notin Under(before, at)
  <2>1. <<>> \notin DOMAIN before
    BY TreeFacts DEF ExplorerInv, CardInv
  <2> QED BY <1>1, <2>1 DEF Under, NoFile
<1>10. Types'
  BY <1>0, <1>1, <1>2, <1>3, <1>4, <1>5 DEF ExplorerInv, Types, Steps, Siblings, Writing
<1>11. CardInv'
  BY <1>0, <1>1, <1>2, <1>3, <1>4, <1>5 DEF ExplorerInv, CardInv, Paths, UserFilesKept, Sourced
<1>12. HandInv'
  BY <1>0, <1>1, <1>2, <1>3, <1>4, <1>5 DEF ExplorerInv, HandInv, Types, Writing, IsFolder, NoFile, NoJob, Paths
<1>13. TempInv'
  BY <1>0, <1>1, <1>2, <1>3, <1>4, <1>5 DEF ExplorerInv, TempInv, Types, HandInv, New, Paths
<1>14. SourcesInv'
  BY <1>0, <1>1, <1>2, <1>3, <1>4, <1>5 DEF ExplorerInv, SourcesInv, Types, Writing, Target
<1>15. TargetInv'
  BY <1>0, <1>1, <1>2, <1>3, <1>4, <1>5 DEF ExplorerInv, TargetInv, Types, HandInv, Writing, New, Paths, Whole, Target, InHand
<1>16. CopyInv'
  BY <1>0, <1>1, <1>2, <1>3, <1>4, <1>5 DEF ExplorerInv, CopyInv, Types, HandInv, Writing, New, Paths, Target, Under
<1>17. MoveInv'
  BY <1>0, <1>1, <1>2, <1>3, <1>4, <1>5 DEF ExplorerInv, MoveInv, Types, HandInv, Paths, Target, Under
<1>18. DeleteInv'
  BY <1>0, <1>1, <1>2, <1>3, <1>4, <1>5 DEF ExplorerInv, DeleteInv, Types, HandInv, Writing, Paths, InHand, Under
<1>19. ZipInv'
  BY <1>0, <1>1, <1>2, <1>3, <1>4, <1>5 DEF ExplorerInv, ZipInv, Types, HandInv, Writing, New, Paths, MemberTarget, IsFolder
<1>20. PageInv'
  BY <1>0, <1>1, <1>2, <1>3, <1>4, <1>5 DEF ExplorerInv, PageInv, Types, Paths, Folder
<1> QED BY <1>10, <1>11, <1>12, <1>13, <1>14, <1>15, <1>16, <1>17, <1>18, <1>19, <1>20 DEF ExplorerInv

\* The cancel key.
LEMMA CancelStep ==
    ASSUME ExplorerInv, Cancel
    PROVE  ExplorerInv'
<1>0. UNCHANGED <<fs, before, job, left, todo, at, member, file, staging, made, dirs, result, panes, clipboard, cut, busy, ops, pc>>
  BY DEF Cancel, workVars, Goto, jobVars, walk, undo, page
<1>10. Types'
  BY <1>0 DEF ExplorerInv, Types, Steps, Siblings, Writing
<1>11. CardInv'
  BY <1>0 DEF ExplorerInv, CardInv, Paths, UserFilesKept, Sourced
<1>12. HandInv'
  BY <1>0 DEF ExplorerInv, HandInv, Types, Writing, IsFolder, NoFile, NoJob, Paths
<1>13. TempInv'
  BY <1>0 DEF ExplorerInv, TempInv, Types, HandInv, New, Paths
<1>14. SourcesInv'
  BY <1>0 DEF ExplorerInv, SourcesInv, Types, Writing, Target
<1>15. TargetInv'
  BY <1>0 DEF ExplorerInv, TargetInv, Types, HandInv, Writing, New, Paths, Whole, Target, InHand
<1>16. CopyInv'
  BY <1>0 DEF ExplorerInv, CopyInv, Types, HandInv, Writing, New, Paths, Target, Under
<1>17. MoveInv'
  BY <1>0 DEF ExplorerInv, MoveInv, Types, HandInv, Paths, Target, Under
<1>18. DeleteInv'
  BY <1>0 DEF ExplorerInv, DeleteInv, Types, HandInv, Writing, Paths, InHand, Under
<1>19. ZipInv'
  BY <1>0 DEF ExplorerInv, ZipInv, Types, HandInv, Writing, New, Paths, MemberTarget, IsFolder
<1>20. PageInv'
  BY <1>0 DEF ExplorerInv, PageInv, Types, Paths, Folder
<1> QED BY <1>10, <1>11, <1>12, <1>13, <1>14, <1>15, <1>16, <1>17, <1>18, <1>19, <1>20 DEF ExplorerInv

-----------------------------------------------------------------------------
(* The page *)

\* What holds when no job runs.
LEMMA IdleFacts ==
    ASSUME ExplorerInv, ~busy
    PROVE  /\ pc = "idle" /\ fs = before /\ job = NoJob /\ file = NoFile /\ staging = <<>>
           /\ made = <<>> /\ dirs = {} /\ left = {} /\ result = "none"
           /\ todo \in SUBSET Path /\ at \in Path /\ member \in Nat \ {0}
           /\ panes \in Path \X Path /\ panes[1] \in Path /\ panes[2] \in Path /\ panes = <<panes[1], panes[2]>>
           /\ clipboard \in SUBSET Paths /\ Siblings(clipboard)
           /\ IsFolder(fs, panes[1]) /\ IsFolder(fs, panes[2])
           /\ Tree(fs) /\ \A p \in Paths : p \in Path /\ p # <<>> /\ fs[p] # "torn"
<1>1. pc = "idle"
  BY DEF ExplorerInv, Types
<1>2. /\ fs = before /\ job = NoJob /\ file = NoFile /\ staging = <<>> /\ made = <<>> /\ dirs = {}
  BY <1>1 DEF ExplorerInv, HandInv, Types, Writing
<1>3. /\ left = {} /\ result = "none" /\ todo \in SUBSET Path /\ at \in Path /\ member \in Nat \ {0}
      /\ panes \in Path \X Path /\ Siblings(clipboard)
  BY <1>1, <1>2 DEF ExplorerInv, Types, NoJob
<1>4. panes[1] \in Path /\ panes[2] \in Path /\ panes = <<panes[1], panes[2]>>
  BY <1>3
<1>5. clipboard \in SUBSET Paths /\ IsFolder(fs, panes[1]) /\ IsFolder(fs, panes[2])
  BY DEF ExplorerInv, PageInv, Folder, IsFolder, Paths
<1>6. Tree(fs) /\ \A p \in Paths : p \in Path /\ p # <<>> /\ fs[p] # "torn"
  BY <1>2, TreeFacts DEF ExplorerInv, CardInv, Paths
<1> QED BY <1>1, <1>2, <1>3, <1>4, <1>5, <1>6

\* A state between jobs satisfies the invariant when its card is a tree without a
\* torn file and the page shows what is there.
LEMMA IdleState ==
    ASSUME pc' = "idle", busy' = FALSE, before' = fs', job' = NoJob, file' = NoFile, staging' = <<>>,
           made' = <<>>, dirs' = {}, left' = {}, result' = "none",
           todo' \in SUBSET Path, at' \in Path, member' \in Nat \ {0},
           Tree(fs'), \A p \in DOMAIN fs' : fs'[p] # "torn",
           panes' \in Path \X Path, IsFolder(fs', panes'[1]), IsFolder(fs', panes'[2]),
           clipboard' \in SUBSET DOMAIN fs', \A s, t \in clipboard' : Front(s) = Front(t)
    PROVE  ExplorerInv'
<1>0. <<>> \in Path /\ file'.tmp = <<>> /\ job'.op = "none" /\ job'.sources = {} /\ job'.dest = <<>>
  BY PrefixOrder DEF NoFile, NoJob
<1>1. \A p \in DOMAIN fs' : p \in Path /\ p # <<>>
  BY TreeFacts
<1>2. Types'
  <2>1. file' \in [src : Path, dst : Path, tmp : Path]
    BY <1>0 DEF NoFile
  <2>2. job' \in [op : {"none", "copy", "move", "delete", "zip"}, sources : SUBSET Path, dest : Path]
    BY <1>0 DEF NoJob
  <2>3. panes' \in Path \X Path
    OBVIOUS
  <2>4. made' \in Seq(Path)
    OBVIOUS
  <2>5. clipboard' \in SUBSET Path /\ Siblings(clipboard)' /\ Siblings(job.sources)'
    BY <1>0, <1>1 DEF Siblings
  <2> QED BY <1>0, <2>1, <2>2, <2>3, <2>4, <2>5 DEF Types, Steps
<1>3. CardInv'
  BY DEF CardInv, UserFilesKept, Paths
<1>4. HandInv'
  BY DEF HandInv, Writing
<1>5. TempInv' /\ SourcesInv' /\ TargetInv' /\ CopyInv' /\ MoveInv' /\ DeleteInv' /\ ZipInv'
  BY <1>0 DEF TempInv, SourcesInv, TargetInv, CopyInv, MoveInv, DeleteInv, ZipInv, Writing
<1>6. PageInv'
  BY DEF PageInv, Folder, IsFolder, Paths
<1> QED BY <1>2, <1>3, <1>4, <1>5, <1>6 DEF ExplorerInv

LEMMA ChildPath ==
    ASSUME Tree(fs), NEW p, NEW q \in Children(p)
    PROVE  q \in Paths /\ q \in Path /\ q # <<>> /\ Front(q) = p
  BY TreeFacts DEF Children, Paths

LEMMA NavigateStep ==
    ASSUME ExplorerInv, Navigate
    PROVE  ExplorerInv'
<1>0. ~busy /\ busy = FALSE
  BY DEF Navigate, Idle, ExplorerInv, Types
<1>1. UNCHANGED <<fs, before, job, left, todo, at, member, file, staging, made, dirs, result, pc, clipboard, busy>>
  BY DEF Navigate, jobVars, workVars, walk, undo
<1>2. \E p1 \in Path : panes' = <<p1, panes[2]>> /\ IsFolder(fs, p1)
  <2>1. CASE \E q \in Children(panes[1]) : Folder(q) /\ panes' = <<q, panes[2]>>
    <3>1. PICK q \in Children(panes[1]) : Folder(q) /\ panes' = <<q, panes[2]>>
      BY <2>1
    <3> QED BY <1>0, <3>1, IdleFacts, ChildPath DEF Folder, IsFolder, Paths
  <2>2. CASE panes[1] # <<>> /\ panes' = <<Front(panes[1]), panes[2]>>
    BY <1>0, <2>2, IdleFacts, TreeFacts, FrontPath DEF IsFolder
  <2> QED BY <2>1, <2>2 DEF Navigate
<1>3. PICK p1 \in Path : panes' = <<p1, panes[2]>> /\ IsFolder(fs, p1)
  BY <1>2
<1>20. /\ pc' = "idle" /\ busy' = FALSE /\ before' = fs' /\ job' = NoJob /\ file' = NoFile /\ staging' = <<>>
       /\ made' = <<>> /\ dirs' = {} /\ left' = {} /\ result' = "none"
       /\ todo' \in SUBSET Path /\ at' \in Path /\ member' \in Nat \ {0}
  BY <1>0, <1>1, IdleFacts
<1>21. Tree(fs') /\ \A p \in DOMAIN fs' : fs'[p] # "torn"
  BY <1>0, <1>1, IdleFacts DEF Paths
<1>22. panes' \in Path \X Path /\ IsFolder(fs', panes'[1]) /\ IsFolder(fs', panes'[2])
  BY <1>0, <1>1, <1>3, IdleFacts
<1>23. clipboard' \in SUBSET DOMAIN fs' /\ \A s, t \in clipboard' : Front(s) = Front(t)
  BY <1>0, <1>1, IdleFacts DEF Paths, Siblings
<1> QED BY <1>20, <1>21, <1>22, <1>23, IdleState

LEMMA SwitchPaneStep ==
    ASSUME ExplorerInv, SwitchPane
    PROVE  ExplorerInv'
<1>0. ~busy /\ busy = FALSE /\ panes' = <<panes[2], panes[1]>>
  BY DEF SwitchPane, Idle, ExplorerInv, Types
<1>1. UNCHANGED <<fs, before, job, left, todo, at, member, file, staging, made, dirs, result, pc, clipboard, busy>>
  BY DEF SwitchPane, jobVars, workVars, walk, undo
<1>20. /\ pc' = "idle" /\ busy' = FALSE /\ before' = fs' /\ job' = NoJob /\ file' = NoFile /\ staging' = <<>>
       /\ made' = <<>> /\ dirs' = {} /\ left' = {} /\ result' = "none"
       /\ todo' \in SUBSET Path /\ at' \in Path /\ member' \in Nat \ {0}
  BY <1>0, <1>1, IdleFacts
<1>21. Tree(fs') /\ \A p \in DOMAIN fs' : fs'[p] # "torn"
  BY <1>0, <1>1, IdleFacts DEF Paths
<1>22. panes' \in Path \X Path /\ IsFolder(fs', panes'[1]) /\ IsFolder(fs', panes'[2])
  BY <1>0, <1>1, IdleFacts
<1>23. clipboard' \in SUBSET DOMAIN fs' /\ \A s, t \in clipboard' : Front(s) = Front(t)
  BY <1>0, <1>1, IdleFacts DEF Paths, Siblings
<1> QED BY <1>20, <1>21, <1>22, <1>23, IdleState

\* A selection is a set of entries of one folder.
LEMMA SelectionFacts ==
    ASSUME Tree(fs), NEW S \in Selection
    PROVE  /\ S \in SUBSET Paths /\ S \in SUBSET Path /\ Siblings(S)
           /\ \A s, t \in S : Front(s) = Front(t)
  BY ChildPath DEF Selection, Siblings

LEMMA StageClipboardStep ==
    ASSUME ExplorerInv, StageClipboard
    PROVE  ExplorerInv'
<1>0. ~busy /\ busy = FALSE /\ clipboard' \in Selection
  BY DEF StageClipboard, Idle, ExplorerInv, Types
<1>1. UNCHANGED <<fs, before, job, left, todo, at, member, file, staging, made, dirs, result, pc, panes, busy>>
  BY DEF StageClipboard, jobVars, workVars, walk, undo
<1>2. clipboard' \in SUBSET DOMAIN fs' /\ \A s, t \in clipboard' : Front(s) = Front(t)
  BY <1>0, <1>1, IdleFacts, SelectionFacts DEF Paths
<1>20. /\ pc' = "idle" /\ busy' = FALSE /\ before' = fs' /\ job' = NoJob /\ file' = NoFile /\ staging' = <<>>
       /\ made' = <<>> /\ dirs' = {} /\ left' = {} /\ result' = "none"
       /\ todo' \in SUBSET Path /\ at' \in Path /\ member' \in Nat \ {0}
  BY <1>0, <1>1, IdleFacts
<1>21. Tree(fs') /\ \A p \in DOMAIN fs' : fs'[p] # "torn"
  BY <1>0, <1>1, IdleFacts DEF Paths
<1>22. panes' \in Path \X Path /\ IsFolder(fs', panes'[1]) /\ IsFolder(fs', panes'[2])
  BY <1>0, <1>1, IdleFacts
<1>23. clipboard' \in SUBSET DOMAIN fs' /\ \A s, t \in clipboard' : Front(s) = Front(t)
  BY <1>2
<1> QED BY <1>20, <1>21, <1>22, <1>23, IdleState

\* The user's own change of the card.
LEMMA EditStep ==
    ASSUME ExplorerInv, NEW f, Edit(f), UNCHANGED panes, Tree(f), \A p \in DOMAIN f : f[p] # "torn",
           IsFolder(f, panes[1]), IsFolder(f, panes[2]),
           clipboard' \in SUBSET clipboard, clipboard' \in SUBSET DOMAIN f
    PROVE  ExplorerInv'
<1>0. ~busy /\ busy = FALSE
  BY DEF Edit, Idle, ExplorerInv, Types
<1>1. /\ fs' = f /\ before' = f
      /\ UNCHANGED <<job, left, todo, at, member, file, staging, made, dirs, result, pc, panes, busy>>
  BY DEF Edit, workVars, walk, undo
<1>2. \A s, t \in clipboard' : Front(s) = Front(t)
  BY <1>0, IdleFacts DEF Siblings
<1>20. /\ pc' = "idle" /\ busy' = FALSE /\ before' = fs' /\ job' = NoJob /\ file' = NoFile /\ staging' = <<>>
       /\ made' = <<>> /\ dirs' = {} /\ left' = {} /\ result' = "none"
       /\ todo' \in SUBSET Path /\ at' \in Path /\ member' \in Nat \ {0}
  BY <1>0, <1>1, IdleFacts
<1>21. Tree(fs') /\ \A p \in DOMAIN fs' : fs'[p] # "torn"
  BY <1>1
<1>22. panes' \in Path \X Path /\ IsFolder(fs', panes'[1]) /\ IsFolder(fs', panes'[2])
  BY <1>0, <1>1, IdleFacts
<1>23. clipboard' \in SUBSET DOMAIN fs' /\ \A s, t \in clipboard' : Front(s) = Front(t)
  BY <1>1, <1>2
<1> QED BY <1>20, <1>21, <1>22, <1>23, IdleState

LEMMA CreateFolderStep ==
    ASSUME ExplorerInv, CreateFolder
    PROVE  ExplorerInv'
<1>1. PICK n \in Names : /\ Append(panes[1], n) \notin Paths /\ UNCHANGED <<panes, clipboard>>
                         /\ Edit(With(fs, Append(panes[1], n), "dir"))
  BY DEF CreateFolder
<1> DEFINE t == Append(panes[1], n)
           f == With(fs, t, "dir")
<1>2. ~busy
  BY <1>1 DEF Edit, Idle
<1>3. n \in Component
  BY PageAssumption
<1>4. t \in Path /\ t # <<>> /\ Front(t) = panes[1] /\ t \notin DOMAIN fs
  BY <1>1, <1>2, <1>3, IdleFacts, AppendPath DEF Paths
<1> HIDE DEF t
<1>5. Tree(f)
  BY <1>2, <1>4, IdleFacts, WithTree
<1>6. DOMAIN f = DOMAIN fs \cup {t} /\ f[t] = "dir" /\ \A q \in DOMAIN fs : q # t => f[q] = fs[q]
  BY DEF With
<1> HIDE DEF f
<1>7. \A p \in DOMAIN f : f[p] # "torn"
  BY <1>2, <1>6, IdleFacts DEF Paths
<1>8. IsFolder(f, panes[1]) /\ IsFolder(f, panes[2])
  BY <1>2, <1>6, IdleFacts DEF IsFolder
<1>9. clipboard' \in SUBSET clipboard /\ clipboard' \in SUBSET DOMAIN f
  BY <1>1, <1>2, <1>6, IdleFacts DEF Paths
<1> QED BY <1>1, <1>5, <1>7, <1>8, <1>9, EditStep DEF t, f

LEMMA RenameEntryStep ==
    ASSUME ExplorerInv, RenameEntry
    PROVE  ExplorerInv'
<1>1. PICK q \in Children(panes[1]), n \in Names :
          /\ ~IsPrefix(q, panes[2]) /\ Append(Front(q), n) \notin Paths
          /\ Edit(Rename(fs, q, Append(Front(q), n)))
          /\ clipboard' = RenamedClipboard(q) /\ UNCHANGED panes
  BY DEF RenameEntry
<1> DEFINE t == Append(Front(q), n)
           f == Rename(fs, q, t)
<1>2. ~busy
  BY <1>1 DEF Edit, Idle
<1>3. n \in Component /\ q \in Path /\ q # <<>> /\ q \in DOMAIN fs /\ Front(q) = panes[1] /\ Tree(fs)
  BY <1>1, <1>2, IdleFacts, ChildPath, PageAssumption DEF Paths
<1>4. t \in Path /\ t # <<>> /\ Front(t) = panes[1] /\ t \notin DOMAIN fs /\ Len(t) = Len(q)
  <2>1. Front(q) \in Path /\ Len(Front(q)) = Len(q) - 1
    BY <1>3, FrontPath
  <2>2. t \in Path /\ t # <<>> /\ Front(t) = Front(q) /\ Len(t) = Len(Front(q)) + 1
    BY <1>3, <2>1, AppendPath
  <2>3. Len(q) \in Nat
    BY <1>3, PrefixOrder
  <2> QED BY <1>1, <1>3, <2>1, <2>2, <2>3 DEF Paths
<1> HIDE DEF t
<1>5. ~IsPrefix(q, t)
  BY <1>3, <1>4, PrefixOrder
<1>6. Tree(f)
  BY <1>2, <1>3, <1>4, <1>5, IdleFacts, RenameTree
<1>7. /\ \A p \in DOMAIN fs : ~IsPrefix(q, p) => p \in DOMAIN f /\ f[p] = fs[p]
      /\ \A p \in Under(fs, q) : f[Moved(p, q, t)] = fs[p]
      /\ \A r \in DOMAIN f : \/ r \in DOMAIN fs /\ ~IsPrefix(q, r)
                             \/ \E p \in Under(fs, q) : r = Moved(p, q, t)
  BY <1>3, <1>4, RenameCard
<1> HIDE DEF f
<1>8. \A p \in DOMAIN f : f[p] # "torn"
  BY <1>2, <1>7, IdleFacts DEF Paths, Under
<1>9. IsFolder(f, panes[1]) /\ IsFolder(f, panes[2])
  <2>1. ~IsPrefix(q, panes[1])
    BY <1>2, <1>3, FrontPath, PrefixOrder, IdleFacts
  <2> QED BY <1>1, <1>2, <1>7, <2>1, IdleFacts DEF IsFolder
<1>10. clipboard' \in SUBSET clipboard /\ clipboard' \in SUBSET DOMAIN f
  BY <1>1, <1>2, <1>7, IdleFacts DEF RenamedClipboard, Paths
<1> QED BY <1>1, <1>6, <1>8, <1>9, <1>10, EditStep DEF t, f

\* startJob on entries of one folder with a folder for destination.
LEMMA StartStep ==
    ASSUME ExplorerInv, NEW op \in {"copy", "move", "delete", "zip"}, NEW S \in SUBSET Path, NEW d \in Path,
           Siblings(S), IsFolder(fs, d), Start(op, S, d)
    PROVE  ExplorerInv'
<1>0. /\ ~busy /\ job' = [op |-> op, sources |-> S, dest |-> d] /\ before' = fs /\ fs' = fs
      /\ busy' = TRUE /\ pc' = "preflight" /\ UNCHANGED <<panes, clipboard>>
      /\ left' = {} /\ todo' = {} /\ at' = <<>> /\ member' = 1 /\ file' = NoFile
      /\ staging' = <<>> /\ made' = <<>> /\ dirs' = {} /\ result' = "none"
  BY DEF Start, Rest, Idle
<1>1. job'.op = op /\ job'.sources = S /\ job'.dest = d /\ file'.tmp = <<>> /\ <<>> \in Path
  BY <1>0, PrefixOrder DEF NoFile
<1>2. /\ panes \in Path \X Path /\ clipboard \in SUBSET Paths /\ Siblings(clipboard)
      /\ Tree(fs) /\ \A p \in Paths : p \in Path /\ p # <<>> /\ fs[p] # "torn"
  BY <1>0, IdleFacts
<1>3. Types'
  <2>1. file' \in [src : Path, dst : Path, tmp : Path]
    BY <1>0, <1>1 DEF NoFile
  <2>2. job' \in [op : {"none", "copy", "move", "delete", "zip"}, sources : SUBSET Path, dest : Path]
    BY <1>0
  <2>3. made' \in Seq(Path)
    BY <1>0
  <2>4. clipboard' \in SUBSET Path /\ Siblings(clipboard)' /\ Siblings(job.sources)'
    BY <1>0, <1>1, <1>2 DEF Siblings
  <2>5. panes' \in Path \X Path
    BY <1>0, <1>2
  <2>6. pc' \in Steps /\ busy' = (pc' # "idle") /\ (result' # "none") = (pc' = "ended")
    BY <1>0 DEF Steps
  <2> QED BY <1>0, <1>1, <2>1, <2>2, <2>3, <2>4, <2>5, <2>6 DEF Types
<1>4. CardInv'
  BY <1>0, <1>2 DEF CardInv, UserFilesKept, Paths
<1>5. HandInv'
  BY <1>0, <1>1 DEF HandInv, Writing, IsFolder
<1>6. TempInv' /\ SourcesInv'
  BY <1>0, <1>1 DEF TempInv, SourcesInv, Writing
<1>7. New' = {}
  BY <1>0 DEF New, Paths
<1>8. TargetInv' /\ CopyInv'
  BY <1>0, <1>1, <1>7 DEF TargetInv, CopyInv, Writing
<1>9. MoveInv' /\ DeleteInv'
  BY <1>0, <1>1 DEF MoveInv, DeleteInv, Writing, Paths
<1>10. ZipInv'
  BY <1>0, <1>1, <1>7 DEF ZipInv, Writing
<1>11. PageInv'
  BY <1>0, <1>2 DEF PageInv, Paths
<1> QED BY <1>3, <1>4, <1>5, <1>6, <1>8, <1>9, <1>10, <1>11 DEF ExplorerInv

LEMMA StartSteps ==
    ASSUME ExplorerInv, Paste \/ ToOtherPane \/ Delete \/ ExtractZip
    PROVE  ExplorerInv'
<1>1. CASE Paste
  <2>1. PICK d \in {panes[1]} \cup {q \in Children(panes[1]) : Folder(q)} :
            Start(IF cut THEN "move" ELSE "copy", clipboard, d)
    BY <1>1 DEF Paste
  <2>2. ~busy
    BY <2>1 DEF Start, Idle
  <2>3. d \in Path /\ IsFolder(fs, d)
    BY <2>1, <2>2, IdleFacts, ChildPath DEF Folder, IsFolder, Paths
  <2>4. clipboard \in SUBSET Path /\ Siblings(clipboard)
    BY <2>2, IdleFacts
  <2> QED BY <2>1, <2>3, <2>4, StartStep
<1>2. CASE ToOtherPane
  <2>1. PICK S \in Selection, op \in {"copy", "move"} : Start(op, S, panes[2])
    BY <1>2 DEF ToOtherPane
  <2>2. ~busy
    BY <2>1 DEF Start, Idle
  <2> QED BY <2>1, <2>2, IdleFacts, SelectionFacts, StartStep
<1>3. CASE Delete
  <2>1. PICK S \in Selection : Start("delete", S, <<>>)
    BY <1>3 DEF Delete
  <2>2. ~busy
    BY <2>1 DEF Start, Idle
  <2>3. <<>> \in Path /\ IsFolder(fs, <<>>)
    BY PrefixOrder DEF IsFolder
  <2> QED BY <2>1, <2>2, <2>3, IdleFacts, SelectionFacts, StartStep
<1>4. CASE ExtractZip
  <2>1. PICK d \in {panes[1], panes[2]} : Start("zip", {ZipFile}, d) /\ ZipFile \in Children(panes[1])
    BY <1>4 DEF ExtractZip
  <2>2. ~busy
    BY <2>1 DEF Start, Idle
  <2>3. {ZipFile} \in SUBSET Path /\ Siblings({ZipFile})
    BY <2>1, <2>2, IdleFacts, ChildPath DEF Siblings
  <2> QED BY <2>1, <2>2, <2>3, IdleFacts, StartStep
<1> QED BY <1>1, <1>2, <1>3, <1>4

LEMMA FinishJobStep ==
    ASSUME ExplorerInv, FinishJob
    PROVE  ExplorerInv'
<1>0. /\ pc = "ended" /\ busy /\ busy' = FALSE /\ pc' = "idle" /\ clipboard' = SettledClipboard
      /\ panes' = <<Nearest(panes[1]), Nearest(panes[2])>> /\ before' = fs /\ job' = NoJob /\ fs' = fs
      /\ left' = {} /\ todo' = {} /\ at' = <<>> /\ member' = 1 /\ file' = NoFile
      /\ staging' = <<>> /\ made' = <<>> /\ dirs' = {} /\ result' = "none"
  BY DEF FinishJob, Rest
<1>1. panes[1] \in Path /\ panes[2] \in Path /\ clipboard \in SUBSET Path /\ Siblings(clipboard)
  BY DEF ExplorerInv, Types
<1>2. Nearest(panes[1]) \in Path /\ Folder(Nearest(panes[1]))
  BY <1>1, NearestFolder
<1>3. Nearest(panes[2]) \in Path /\ Folder(Nearest(panes[2]))
  BY <1>1, NearestFolder
<1>4. Tree(fs) /\ \A p \in DOMAIN fs : fs[p] # "torn"
  BY <1>0, TreeFacts DEF ExplorerInv, CardInv, HandInv, NoFile, Paths, Writing
<1>5. SettledClipboard \in SUBSET DOMAIN fs /\ SettledClipboard \in SUBSET clipboard
  <2>1. CASE job.op \notin {"move", "delete"}
    <3>1. clipboard \subseteq DOMAIN before
      BY <1>0 DEF ExplorerInv, PageInv
    <3>2. DOMAIN before \subseteq DOMAIN fs
      BY <2>1 DEF ExplorerInv, CardInv, UserFilesKept, Paths
    <3> QED BY <2>1, <3>1, <3>2 DEF SettledClipboard
  <2>2. CASE job.op \in {"move", "delete"}
    BY <2>2 DEF SettledClipboard, Paths
  <2> QED BY <2>1, <2>2
<1>6. \A s, t \in clipboard' : Front(s) = Front(t)
  BY <1>0, <1>1, <1>5 DEF Siblings
<1>7. <<>> \in Path
  BY PrefixOrder
<1>8. IsFolder(fs', Nearest(panes[1])) /\ IsFolder(fs', Nearest(panes[2]))
  BY <1>0, <1>2, <1>3 DEF Folder, IsFolder, Paths
<1>20. /\ pc' = "idle" /\ busy' = FALSE /\ before' = fs' /\ job' = NoJob /\ file' = NoFile /\ staging' = <<>>
       /\ made' = <<>> /\ dirs' = {} /\ left' = {} /\ result' = "none"
       /\ todo' \in SUBSET Path /\ at' \in Path /\ member' \in Nat \ {0}
  BY <1>0, <1>7
<1>21. Tree(fs') /\ \A p \in DOMAIN fs' : fs'[p] # "torn"
  BY <1>0, <1>4
<1>22. panes' \in Path \X Path /\ IsFolder(fs', panes'[1]) /\ IsFolder(fs', panes'[2])
  BY <1>0, <1>2, <1>3, <1>8
<1>23. clipboard' \in SUBSET DOMAIN fs' /\ \A s, t \in clipboard' : Front(s) = Front(t)
  BY <1>0, <1>5, <1>6
<1> QED BY <1>20, <1>21, <1>22, <1>23, IdleState

LEMMA PowerLossStep ==
    ASSUME ExplorerInv, PowerLoss
    PROVE  ExplorerInv'
<1>0. /\ fs' = [q \in DOMAIN fs |-> IF fs[q] = "torn" THEN "part" ELSE fs[q]]
      /\ before' = fs' /\ job' = NoJob /\ busy' = FALSE /\ pc' = "idle"
      /\ panes' = << <<>>, <<>> >> /\ clipboard' = {}
      /\ left' = {} /\ todo' = {} /\ at' = <<>> /\ member' = 1 /\ file' = NoFile
      /\ staging' = <<>> /\ made' = <<>> /\ dirs' = {} /\ result' = "none"
  BY DEF PowerLoss, Rest, Settled, Paths
<1>1. Tree(fs)
  BY DEF ExplorerInv, CardInv
<1>2. DOMAIN fs' = DOMAIN fs /\ \A q \in DOMAIN fs : fs'[q] # "torn" /\ (fs[q] = "dir" => fs'[q] = "dir")
  BY <1>0 DEF Paths
<1>3. Tree(fs')
  BY <1>1, <1>2, TreeOrder
<1>4. <<>> \in Path /\ IsFolder(fs', <<>>)
  BY PrefixOrder DEF IsFolder
<1>20. /\ pc' = "idle" /\ busy' = FALSE /\ before' = fs' /\ job' = NoJob /\ file' = NoFile /\ staging' = <<>>
       /\ made' = <<>> /\ dirs' = {} /\ left' = {} /\ result' = "none"
       /\ todo' \in SUBSET Path /\ at' \in Path /\ member' \in Nat \ {0}
  BY <1>0, <1>4
<1>21. Tree(fs') /\ \A p \in DOMAIN fs' : fs'[p] # "torn"
  BY <1>2, <1>3
<1>22. panes' \in Path \X Path /\ IsFolder(fs', panes'[1]) /\ IsFolder(fs', panes'[2])
  BY <1>0, <1>4
<1>23. clipboard' \in SUBSET DOMAIN fs' /\ \A s, t \in clipboard' : Front(s) = Front(t)
  BY <1>0
<1> QED BY <1>20, <1>21, <1>22, <1>23, IdleState

LEMMA InitHolds ==
    ASSUME Init
    PROVE  ExplorerInv
<1>0. /\ fs \in Cards /\ before = fs /\ job = NoJob /\ pc = "idle" /\ left = {} /\ todo = {} /\ at = <<>>
      /\ member = 1 /\ file = NoFile /\ staging = <<>> /\ made = <<>> /\ dirs = {} /\ result = "none"
      /\ panes = << <<>>, <<>> >> /\ clipboard = {} /\ busy = FALSE
  BY DEF Init, JobInit
<1>1. Tree(fs) /\ \A p \in DOMAIN fs : fs[p] # "torn"
  BY <1>0, PageAssumption
<1>2. <<>> \in Path /\ file.tmp = <<>> /\ job.op = "none" /\ job.sources = {} /\ job.dest = <<>>
  BY <1>0, PrefixOrder DEF NoFile, NoJob
<1>3. Types
  <2>1. file \in [src : Path, dst : Path, tmp : Path]
    BY <1>0, <1>2 DEF NoFile
  <2>2. job \in [op : {"none", "copy", "move", "delete", "zip"}, sources : SUBSET Path, dest : Path]
    BY <1>0, <1>2 DEF NoJob
  <2>3. made \in Seq(Path) /\ panes \in Path \X Path
    BY <1>0, <1>2
  <2>4. Siblings(clipboard) /\ Siblings(job.sources)
    BY <1>0, <1>2 DEF Siblings
  <2>5. pc \in Steps /\ busy = (pc # "idle") /\ (result # "none") = (pc = "ended")
    BY <1>0 DEF Steps
  <2> QED BY <1>0, <1>2, <2>1, <2>2, <2>3, <2>4, <2>5 DEF Types
<1>4. CardInv
  BY <1>0, <1>1 DEF CardInv, UserFilesKept, Paths
<1>5. HandInv
  BY <1>0 DEF HandInv, Writing
<1>6. TempInv /\ SourcesInv /\ TargetInv /\ CopyInv /\ MoveInv /\ DeleteInv /\ ZipInv
  BY <1>0, <1>2 DEF TempInv, SourcesInv, TargetInv, CopyInv, MoveInv, DeleteInv, ZipInv, Writing
<1>7. PageInv
  BY <1>0 DEF PageInv, Folder
<1> QED BY <1>3, <1>4, <1>5, <1>6, <1>7 DEF ExplorerInv

-----------------------------------------------------------------------------
(* The steps of a move and of a deletion *)

\* A source is renamed.
LEMMA MoveSourceStep ==
    ASSUME ExplorerInv, pc = "source", UNCHANGED <<jobVars, cancel>>, UNCHANGED page, job.op = "move", NEW s \in left, at' = s, left' = left \ {s},
           Target(s) \notin Paths, fs' = Rename(fs, s, Target(s)),
           UNCHANGED <<pc, todo, file, staging, member, undo, result>>
    PROVE  ExplorerInv'
<1> DEFINE T == Target(s)
<1>0. /\ UNCHANGED <<before, job, cancel, todo, member, file, staging, made, dirs, result, panes, clipboard, cut, busy, ops, pc>>
      /\ at' = s /\ left' = left \ {s} /\ pc = "source" /\ job.op = "move" /\ s \in job.sources
      /\ fs' = Rename(fs, s, T) /\ T \notin DOMAIN fs
  BY DEF Goto, jobVars, walk, undo, page, Paths, ExplorerInv, Types
<1>1. /\ job.dest \in Path /\ Tree(fs) /\ Tree(before) /\ file = NoFile /\ file.tmp = <<>> /\ staging = <<>>
      /\ \A r \in job.sources : /\ r \in Path /\ r # <<>> /\ Front(r) = Front(s)
                                /\ r \in DOMAIN before /\ ~IsPrefix(r, Target(r)) /\ Target(r) \notin DOMAIN before
  BY <1>0 DEF ExplorerInv, Types, CardInv, HandInv, SourcesInv, MoveInv, Siblings, Writing, NoFile
<1>2. /\ \A r \in job.sources : Target(r) \in Path /\ Target(r) # <<>> /\ Front(Target(r)) = job.dest
                                /\ Last(Target(r)) = Last(r) /\ IsPrefix(job.dest, Target(r))
                                /\ Len(Target(r)) = Len(job.dest) + 1
      /\ \A r \in job.sources : ~IsPrefix(r, job.dest)
  <2>1. ASSUME NEW r \in job.sources
        PROVE  /\ Target(r) \in Path /\ Target(r) # <<>> /\ Front(Target(r)) = job.dest
               /\ Last(Target(r)) = Last(r) /\ IsPrefix(job.dest, Target(r))
               /\ Len(Target(r)) = Len(job.dest) + 1
    BY <1>1, TargetPath
  <2>2. ASSUME NEW r \in job.sources
        PROVE  ~IsPrefix(r, job.dest)
    BY <1>1, <2>1, PrefixOrder
  <2> QED BY <2>1, <2>2
<1>3. IsFolder(fs, job.dest)
  BY <1>0, <1>2 DEF ExplorerInv, Types, CardInv, HandInv, UserFilesKept, Sourced, IsFolder, Paths
<1>4. s \in Path /\ T \in Path /\ T # <<>> /\ ~IsPrefix(s, T) /\ Front(T) = job.dest
  BY <1>0, <1>1, <1>2
<1> HIDE DEF T
<1>5. Tree(fs')
  BY <1>0, <1>1, <1>3, <1>4, RenameTree
<1>6. /\ \A q \in DOMAIN fs : ~IsPrefix(s, q) => q \in DOMAIN fs' /\ fs'[q] = fs[q]
      /\ \A p \in Under(fs, s) : Moved(p, s, T) \in DOMAIN fs' /\ fs'[Moved(p, s, T)] = fs[p]
      /\ \A r \in DOMAIN fs' :
            \/ r \in DOMAIN fs /\ ~IsPrefix(s, r)
            \/ r \in Path /\ IsPrefix(T, r) /\ \E p \in Under(fs, s) : r = Moved(p, s, T)
  BY <1>0, <1>1, <1>4, RenameCard
<1>7. \A r \in job.sources : r # s => /\ ~IsPrefix(s, r) /\ Target(r) # T /\ ~IsPrefix(T, Target(r))
                                      /\ \A q \in Path : IsPrefix(r, q) => ~IsPrefix(s, q)
  <2> SUFFICES ASSUME NEW r \in job.sources, r # s
               PROVE  /\ Target(r) # T /\ ~IsPrefix(T, Target(r))
                      /\ \A q \in Path : IsPrefix(r, q) => ~IsPrefix(s, q)
    BY <1>1, PrefixOrder
  <2>1. Target(r) # T
    BY <1>0, <1>1, TargetInjective DEF T
  <2>2. Len(r) = Len(s) /\ Len(T) = Len(Target(r))
    BY <1>0, <1>1, <1>2, FrontPath, PrefixOrder DEF T
  <2>3. r \in Path /\ s \in Path /\ Target(r) \in Path /\ T \in Path
    BY <1>1, <1>2, <1>4
  <2> QED BY <2>1, <2>2, <2>3, PrefixOrder
<1>8. \A r \in job.sources : ~IsPrefix(s, Target(r))
  <2> SUFFICES ASSUME NEW r \in job.sources, IsPrefix(s, Target(r))
               PROVE  FALSE
    OBVIOUS
  <2>1. s = Target(r)
    BY <1>0, <1>1, <1>2, FrontPath
  <2>2. s = T
    BY <1>0, <1>1, <1>2, <2>1, FrontLast DEF T
  <2> QED BY <1>4, <2>2, PrefixOrder
<1>9. \A r, v \in job.sources : ~IsPrefix(Target(r), v)
  BY <1>1, <1>2, TreeFacts
<1>20. Types'
  BY <1>0, <1>1 DEF ExplorerInv, Types, Steps, Siblings, Writing
<1>21. CardInv'
  <2>1. \A p \in DOMAIN fs' : fs'[p] # "torn"
    BY <1>1, <1>6, TreeFacts DEF ExplorerInv, CardInv, Under, Paths
  <2>2. UserFilesKept'
    BY <1>0, <1>6 DEF ExplorerInv, CardInv, UserFilesKept, Sourced, Paths
  <2> QED BY <1>0, <1>5, <2>1, <2>2 DEF ExplorerInv, CardInv, Paths
<1>22. HandInv'
  BY <1>0, <1>1 DEF ExplorerInv, HandInv, Types, Writing, IsFolder, NoFile, NoJob, Paths
<1>23. TempInv'
  BY <1>0, <1>1 DEF TempInv
<1>24. SourcesInv'
  BY <1>0, <1>1 DEF ExplorerInv, SourcesInv, Types, Writing, Target
<1>25. TargetInv'
  <2>1. \A x \in New' : \E r \in job.sources : IsPrefix(Target(r), x)
    <3> SUFFICES ASSUME NEW x \in DOMAIN fs', x \notin DOMAIN before
                 PROVE  \E r \in job.sources : IsPrefix(Target(r), x)
      BY <1>0 DEF New, Paths
    <3>1. CASE x \in DOMAIN fs
      BY <1>0, <1>1, <3>1, TreeFacts DEF ExplorerInv, TargetInv, New, Paths
    <3>2. CASE IsPrefix(T, x)
      BY <1>0, <3>2 DEF T
    <3> QED BY <1>6, <3>1, <3>2
  <2>2. ASSUME NEW r \in job.sources, Target(r) \in New', NEW q \in Under(before, r)
        PROVE  Moved(q, r, Target(r)) \in DOMAIN fs' /\ fs'[Moved(q, r, Target(r))] = before[q]
    <3>1. CASE r = s
      <4>1. q \in Under(fs, s) /\ fs[q] = before[q]
        BY <1>0, <2>2, <3>1 DEF ExplorerInv, MoveInv, Under, Paths
      <4> QED BY <1>6, <3>1, <4>1 DEF T
    <3>2. CASE r # s
      <4> DEFINE t == Moved(q, r, Target(r))
      <4>1. q \in Path /\ IsPrefix(r, q) /\ r \in Path /\ Target(r) \in Path
        BY <1>1, <1>2, <2>2, TreeFacts DEF Under
      <4>2. t \in Path /\ IsPrefix(Target(r), t)
        BY <4>1, MovedPath
      <4>3. Target(r) \in New \ {file.tmp, staging}
        BY <1>0, <1>1, <1>2, <1>6, <1>7, <2>2, <3>2 DEF New, Paths
      <4>4. t \in DOMAIN fs /\ fs[t] = before[q]
        BY <1>0, <2>2, <4>3 DEF ExplorerInv, TargetInv, Whole, Paths
      <4>5. ~IsPrefix(s, t)
        BY <1>0, <1>4, <1>8, <1>9, <4>1, <4>2, PrefixOrder
      <4> QED BY <1>6, <4>4, <4>5
    <3> QED BY <3>1, <3>2
  <2>3. ASSUME NEW r \in job.sources \ left'
        PROVE  Target(r) \in DOMAIN fs' /\ Target(r) # <<>>
    <3>1. CASE r = s
      <4>1. s \in Under(before, s)
        BY <1>0, <1>1, PrefixOrder DEF Under
      <4>2. s \in Under(fs, s)
        BY <1>0, <1>1, <4>1, PrefixOrder DEF ExplorerInv, MoveInv, Under, Paths
      <4>3. Moved(s, s, T) = T
        BY <1>4, MovedPath, PrefixOrder
      <4> QED BY <1>2, <1>6, <3>1, <4>2, <4>3 DEF T
    <3>2. CASE r # s
      <4>1. Target(r) \in DOMAIN fs
        BY <1>0, <2>3, <3>2 DEF ExplorerInv, TargetInv, InHand, Paths, Writing
      <4> QED BY <1>2, <1>6, <1>8, <4>1
    <3> QED BY <3>1, <3>2
  <2>4. made = <<>> /\ dirs = {} /\ result = "none"
    BY <1>0 DEF ExplorerInv, TargetInv, Types
  <2> QED BY <1>0, <1>1, <2>1, <2>2, <2>3, <2>4 DEF TargetInv, Whole, Target, Paths, Under, Writing
<1>26. CopyInv'
  BY <1>0, <1>1 DEF ExplorerInv, CopyInv, Types, HandInv, Writing, New, Paths, Target, Under
<1>27. MoveInv'
  <2>1. ASSUME NEW r \in left', NEW q \in Under(before, r)
        PROVE  q \in DOMAIN fs' /\ fs'[q] = before[q]
    <3>1. r \in job.sources /\ r # s /\ q \in Path /\ IsPrefix(r, q)
      BY <1>0, <1>1, <2>1, TreeFacts DEF ExplorerInv, Types, Under
    <3>2. q \in DOMAIN fs /\ fs[q] = before[q]
      BY <1>0, <2>1 DEF ExplorerInv, MoveInv, Paths
    <3> QED BY <1>6, <1>7, <3>1, <3>2
  <2>2. ASSUME NEW r \in job.sources
        PROVE  (r \in DOMAIN fs') # (Target(r) \in DOMAIN fs')
    <3>1. CASE r = s
      <4>1. s \in DOMAIN fs
        <5>1. s \in Under(before, s)
          BY <1>0, <1>1, PrefixOrder DEF Under
        <5> QED BY <1>0, <5>1 DEF ExplorerInv, MoveInv, Paths
      <4>2. s \in Under(fs, s) /\ Moved(s, s, T) = T /\ IsPrefix(s, s)
        BY <1>4, <4>1, MovedPath, PrefixOrder DEF Under
      <4>3. T \in DOMAIN fs'
        BY <1>6, <4>2
      <4>4. s \notin DOMAIN fs'
        BY <1>0, <1>6, <1>9, <4>2 DEF T
      <4> QED BY <3>1, <4>3, <4>4 DEF T
    <3>2. CASE r # s
      <4>1. r \in DOMAIN fs' <=> r \in DOMAIN fs
        BY <1>0, <1>6, <1>7, <1>9, <3>2 DEF T
      <4>2. Target(r) \in DOMAIN fs' <=> Target(r) \in DOMAIN fs
        BY <1>6, <1>7, <1>8, <3>2
      <4>3. (r \in DOMAIN fs) # (Target(r) \in DOMAIN fs)
        BY <1>0, <1>1 DEF ExplorerInv, MoveInv, Paths
      <4> QED BY <4>1, <4>2, <4>3
    <3> QED BY <3>1, <3>2
  <2>3. \A r \in job.sources : ((r \in Paths) # (Target(r) \in Paths))'
    BY <1>0, <2>2 DEF Target, Paths
  <2> QED BY <1>0, <1>1, <2>1, <2>3 DEF MoveInv, Paths, Under, Target
<1>28. DeleteInv'
  BY <1>0, <1>1 DEF ExplorerInv, DeleteInv, Types, HandInv, Writing, Paths, InHand, Under
<1>29. ZipInv'
  BY <1>0, <1>1 DEF ExplorerInv, ZipInv, Types, HandInv, Writing, New, Paths, MemberTarget, IsFolder
<1>30. PageInv'
  BY <1>0 DEF ExplorerInv, PageInv, Types
<1> QED BY <1>20, <1>21, <1>22, <1>23, <1>24, <1>25, <1>26, <1>27, <1>28, <1>29, <1>30 DEF ExplorerInv

\* An entry is deleted, its children gone already.
LEMMA DeleteNodeStep ==
    ASSUME ExplorerInv, pc = "delete", UNCHANGED <<jobVars, cancel>>, UNCHANGED page, NEW p \in todo, \A q \in todo \ {p} : ~IsPrefix(p, q),
           fs' = Without(fs, {p}), todo' = todo \ {p},
           UNCHANGED <<pc, left, at, member, file, staging, undo, result>>
    PROVE  ExplorerInv'
<1>0. /\ UNCHANGED <<before, job, cancel, left, at, member, file, staging, made, dirs, result, panes, clipboard, cut, busy, ops, pc>>
      /\ todo' = todo \ {p} /\ pc = "delete"
      /\ DOMAIN fs' = DOMAIN fs \ {p} /\ \A q \in DOMAIN fs \ {p} : fs'[q] = fs[q]
  BY DEF Goto, jobVars, walk, undo, page, Without
<1>1. /\ job.op = "delete" /\ todo = Under(fs, at) /\ at \in job.sources /\ Tree(fs) /\ at \in Path
      /\ file = NoFile /\ file.tmp = <<>>
  BY <1>0 DEF ExplorerInv, Types, CardInv, HandInv, DeleteInv, Writing, NoFile
<1>2. p \in DOMAIN fs /\ p \in Path /\ IsPrefix(at, p) /\ p # <<>>
  BY <1>1, TreeFacts DEF Under
<1>3. \A r \in DOMAIN fs : IsPrefix(p, r) => r = p
  <2> SUFFICES ASSUME NEW r \in DOMAIN fs, IsPrefix(p, r)
               PROVE  r = p
    OBVIOUS
  <2>1. r \in Path /\ IsPrefix(at, r)
    BY <1>1, <1>2, TreeFacts, PrefixOrder
  <2> QED BY <1>1, <2>1 DEF Under
<1>4. Tree(fs')
  BY <1>1, <1>3, WithoutTree
<1>20. Types'
  BY <1>0, <1>1 DEF ExplorerInv, Types, Steps, Siblings, Writing
<1>21. CardInv'
  <2>1. UserFilesKept'
    BY <1>0, <1>1, <1>2 DEF ExplorerInv, CardInv, UserFilesKept, Sourced, Paths
  <2> QED BY <1>0, <1>4, <2>1 DEF ExplorerInv, CardInv, Paths
<1>22. HandInv'
  BY <1>0, <1>1 DEF ExplorerInv, HandInv, Types, Writing, IsFolder, NoFile, NoJob, Paths
<1>23. TempInv'
  BY <1>0, <1>1 DEF TempInv
<1>24. SourcesInv'
  BY <1>0, <1>1 DEF ExplorerInv, SourcesInv, Types, Writing, Target
<1>25. TargetInv'
  BY <1>0, <1>1 DEF ExplorerInv, TargetInv, Types, HandInv, Writing, New, Paths, Whole, Target, InHand
<1>26. CopyInv'
  BY <1>0, <1>1 DEF ExplorerInv, CopyInv, Types, HandInv, Writing, New, Paths, Target, Under
<1>27. MoveInv'
  BY <1>0, <1>1 DEF ExplorerInv, MoveInv, Types, HandInv, Paths, Target, Under
<1>28. DeleteInv'
  <2>1. todo' = Under(fs, at)'
    BY <1>0, <1>1, <1>2 DEF Under
  <2>2. \A r \in job.sources : Under(fs, r) = {} => Under(fs, r)' = {}
    BY <1>0 DEF Under
  <2>3. result = "none" /\ at \in job.sources \ left
    BY <1>0, <1>1 DEF ExplorerInv, Types, DeleteInv
  <2>4. \A r \in job.sources \ left : InHand(r)' \/ Under(fs, r)' = {}
    BY <1>0, <1>1, <2>2 DEF ExplorerInv, DeleteInv, InHand
  <2> QED BY <1>0, <1>1, <2>1, <2>3, <2>4 DEF ExplorerInv, DeleteInv, Paths
<1>29. ZipInv'
  BY <1>0, <1>1 DEF ExplorerInv, ZipInv, Types, HandInv, Writing, New, Paths, MemberTarget, IsFolder
<1>30. PageInv'
  BY <1>0 DEF ExplorerInv, PageInv, Types, HandInv
<1> QED BY <1>20, <1>21, <1>22, <1>23, <1>24, <1>25, <1>26, <1>27, <1>28, <1>29, <1>30 DEF ExplorerInv

-----------------------------------------------------------------------------
(* The steps of a copy *)

\* A job that copies or extracts leaves the user's card as it was.
LEMMA BeforeKept ==
    ASSUME ExplorerInv, job.op \notin {"move", "delete"}
    PROVE  /\ Tree(fs) /\ Tree(before) /\ job.dest \in Path
           /\ \A p \in DOMAIN before : p \in DOMAIN fs /\ fs[p] = before[p] /\ p \in Path /\ p # <<>> /\ fs[p] # "torn"
           /\ busy => IsFolder(fs, job.dest)
<1>1. Tree(fs) /\ Tree(before) /\ job.dest \in Path
  BY DEF ExplorerInv, CardInv, Types
<1>2. \A p \in DOMAIN before : p \in DOMAIN fs /\ fs[p] = before[p] /\ p \in Path /\ p # <<>> /\ fs[p] # "torn"
  BY <1>1, TreeFacts DEF ExplorerInv, CardInv, UserFilesKept, Paths
<1>3. busy => IsFolder(fs, job.dest)
  BY <1>2 DEF ExplorerInv, HandInv, IsFolder
<1> QED BY <1>1, <1>2, <1>3

\* The sources of a copy and their targets.
LEMMA SourceFacts ==
    ASSUME ExplorerInv, job.op \in {"copy", "move"}
    PROVE  /\ job.dest \in Path
           /\ \A r \in job.sources :
                 /\ r \in Path /\ r # <<>> /\ Target(r) \in Path /\ Target(r) # <<>>
                 /\ Front(Target(r)) = job.dest /\ Len(Target(r)) = Len(job.dest) + 1
                 /\ IsPrefix(job.dest, Target(r))
           /\ \A r, v \in job.sources : Target(r) = Target(v) => r = v
<1>1. job.dest \in Path /\ \A r, v \in job.sources : r \in Path /\ r # <<>> /\ Front(r) = Front(v)
  BY DEF ExplorerInv, Types, Siblings
<1>2. \A r \in job.sources :
                 /\ r \in Path /\ r # <<>> /\ Target(r) \in Path /\ Target(r) # <<>>
                 /\ Front(Target(r)) = job.dest /\ Len(Target(r)) = Len(job.dest) + 1
                 /\ IsPrefix(job.dest, Target(r))
  BY <1>1, TargetPath
<1>3. \A r, v \in job.sources : Target(r) = Target(v) => r = v
  BY <1>1, TargetInjective
<1> QED BY <1>1, <1>2, <1>3

\* What is in a finished target is neither the temporary file nor in the staging
\* directory.
LEMMA TargetApart ==
    ASSUME ExplorerInv, job.op = "copy", NEW r \in job.sources, Target(r) \notin {file.tmp, staging},
           NEW t \in Path, IsPrefix(Target(r), t)
    PROVE  (file.tmp # <<>> => t # file.tmp) /\ (staging # <<>> => ~IsPrefix(staging, t))
<1>1. /\ Target(r) \in Path /\ Len(Target(r)) = Len(job.dest) + 1 /\ job.dest \in Path
      /\ staging \in Path /\ file.tmp \in Path
  BY SourceFacts DEF ExplorerInv, Types
<1>2. ASSUME NEW u \in Path, u # <<>>, Front(u) = job.dest, u # Target(r)
      PROVE  ~IsPrefix(u, t)
  <2>1. Len(u) = Len(Target(r))
    BY <1>1, <1>2, FrontPath, PrefixOrder
  <2> QED BY <1>1, <1>2, <2>1, PrefixOrder
<1>3. staging # <<>> => ~IsPrefix(staging, t)
  BY <1>1, <1>2 DEF ExplorerInv, CopyInv
<1>4. ASSUME file.tmp # <<>>, t = file.tmp
      PROVE  FALSE
  <2>1. CASE staging # <<>>
    BY <1>3, <1>4, <2>1 DEF ExplorerInv, CopyInv
  <2>2. CASE staging = <<>>
    <3>1. Front(file.tmp) = job.dest
      BY <1>4, <2>2 DEF ExplorerInv, CopyInv
    <3> QED BY <1>1, <1>2, <1>4, <3>1, PrefixOrder
  <2> QED BY <2>1, <2>2
<1> QED BY <1>3, <1>4

\* A finished target is still whole when its paths are as they were.
LEMMA WholeKept ==
    ASSUME ExplorerInv, job.op = "copy", NEW r \in job.sources, Target(r) \in New \ {file.tmp, staging},
           UNCHANGED <<before, job>>,
           \A t \in DOMAIN fs : IsPrefix(Target(r), t) /\ t # file.tmp /\ (staging # <<>> => ~IsPrefix(staging, t))
                               => t \in DOMAIN fs' /\ fs'[t] = fs[t]
    PROVE  Whole(r)'
<1>1. Whole(r)
  BY DEF ExplorerInv, TargetInv
<1>2. ASSUME NEW q \in Under(before, r)
      PROVE  Moved(q, r, Target(r)) \in DOMAIN fs' /\ fs'[Moved(q, r, Target(r))] = before[q]
  <2> DEFINE t == Moved(q, r, Target(r))
  <2>1. t \in DOMAIN fs /\ fs[t] = before[q]
    BY <1>1, <1>2 DEF Whole, Paths
  <2>2. q \in Path /\ IsPrefix(r, q) /\ r \in Path /\ Target(r) \in Path
    BY <1>2, SourceFacts, TreeFacts DEF ExplorerInv, CardInv, Under
  <2>3. t \in Path /\ IsPrefix(Target(r), t) /\ t # <<>>
    BY <2>1, <2>2, MovedPath, TreeFacts DEF ExplorerInv, CardInv
  <2> HIDE DEF t
  <2>4. t # file.tmp /\ (staging # <<>> => ~IsPrefix(staging, t))
    BY <2>3, TargetApart
  <2>5. t \in DOMAIN fs' /\ fs'[t] = before[q]
    BY <2>1, <2>3, <2>4
  <2> QED BY <2>5 DEF t
<1> QED BY <1>2 DEF Whole, Target, Paths, Under

\* A folder to copy: its staging directory is created.
LEMMA TreeSourceStep ==
    ASSUME ExplorerInv, pc = "source", UNCHANGED <<jobVars, cancel>>, UNCHANGED page, job.op = "copy", NEW s \in left, at' = s, left' = left \ {s}, fs[s] = "dir",
           FreeTemps(Target(s)) # {}, staging' = TempFor(Target(s)), fs' = With(fs, staging', "dir"),
           todo' = Under(fs, s) \ {s}, Goto("tree"), UNCHANGED <<file, member, undo, result>>
    PROVE  ExplorerInv'
<1> DEFINE u == TempFor(Target(s))
<1>0. /\ UNCHANGED <<before, job, cancel, member, file, made, dirs, result, panes, clipboard, cut, busy, ops>>
      /\ at' = s /\ left' = left \ {s} /\ pc = "source" /\ job.op = "copy" /\ s \in job.sources
      /\ staging' = u /\ pc' = "tree" /\ todo' = Under(fs, s) \ {s}
  BY DEF Goto, jobVars, walk, undo, page, ExplorerInv, Types
<1>1. DOMAIN fs' = DOMAIN fs \cup {u} /\ fs'[u] = "dir" /\ \A q \in DOMAIN fs : q # u => fs'[q] = fs[q]
  BY <1>0 DEF With
<1>2. s \in Path /\ s # <<>> /\ Target(s) \in Path /\ Target(s) # <<>> /\ Front(Target(s)) = job.dest
  BY <1>0, SourceFacts
<1>3. /\ u \in Path /\ u # <<>> /\ u # Target(s) /\ u \notin DOMAIN fs
      /\ Front(u) = job.dest /\ Last(u) \in Range(Temps)
  BY <1>2, TempForFree DEF Paths
<1>4. /\ Tree(fs) /\ Tree(before) /\ IsFolder(fs, job.dest) /\ staging = <<>> /\ file = NoFile /\ file.tmp = <<>>
      /\ \A p \in DOMAIN before : p \in DOMAIN fs /\ fs[p] = before[p] /\ p # <<>> /\ p \in Path
      /\ file.src = <<>> /\ result = "none"
  <2>1. busy /\ result = "none" /\ staging = <<>> /\ file = NoFile
    BY <1>0 DEF ExplorerInv, Types, HandInv, Writing
  <2>2. file.tmp = <<>> /\ file.src = <<>>
    BY <2>1 DEF NoFile
  <2> QED BY <1>0, <2>1, <2>2, BeforeKept
<1>5. Tree(fs')
  BY <1>0, <1>3, <1>4, WithTree
<1>6. s \in DOMAIN before /\ ~IsPrefix(s, Target(s)) /\ \A r \in job.sources : Target(r) \notin DOMAIN before
  BY <1>0 DEF ExplorerInv, SourcesInv
<1> HIDE DEF u
<1>7. Under(fs, s) = Under(before, s)
  <2>1. ASSUME NEW x \in DOMAIN fs, x \notin DOMAIN before, IsPrefix(s, x)
        PROVE  FALSE
    <3>1. x \in Path /\ x # <<>>
      BY <1>4, TreeFacts
    <3>2. PICK r \in job.sources : IsPrefix(Target(r), x)
      BY <1>0, <1>4, <2>1, <3>1 DEF ExplorerInv, TargetInv, New, Paths
    <3>3. Target(r) \in Path /\ Target(r) # <<>> /\ Front(Target(r)) = job.dest /\ job.dest \in Path
      BY <1>0, SourceFacts
    <3>4. ~IsPrefix(Target(r), s)
      BY <1>4, <1>6, <3>3, TreeFacts
    <3>5. IsPrefix(s, Target(r))
      BY <1>2, <2>1, <3>1, <3>2, <3>3, <3>4, PrefixOrder
    <3>6. IsPrefix(s, job.dest)
      BY <1>2, <1>6, <3>3, <3>5, FrontPath
    <3> QED BY <1>0, <1>2, <1>6, <3>3, <3>6, SourceFacts, PrefixOrder
  <2> QED BY <1>4, <2>1 DEF Under
<1>20. Types'
  <2>1. todo' \in SUBSET Path
    BY <1>0, <1>4, TreeFacts DEF Under
  <2> QED BY <1>0, <1>2, <1>3, <2>1 DEF ExplorerInv, Types, Siblings, Steps
<1>21. CardInv'
  <2>1. UserFilesKept'
    BY <1>0, <1>1, <1>3, <1>4 DEF UserFilesKept, Paths
  <2> QED BY <1>0, <1>1, <1>5, <2>1 DEF ExplorerInv, CardInv, Paths
<1>22. HandInv'
  BY <1>0, <1>3, <1>4 DEF ExplorerInv, HandInv, Types, Writing
<1>23. TempInv'
  BY <1>0, <1>4 DEF TempInv
<1>24. SourcesInv'
  BY <1>0, <1>4 DEF ExplorerInv, SourcesInv, Types, Writing, Target
<1>25. TargetInv'
  <2>1. ASSUME NEW x \in New'
        PROVE  IsPrefix(u, x) \/ \E r \in job.sources : IsPrefix(Target(r), x)
    BY <1>0, <1>1, <1>3, <1>4, TreeFacts, PrefixOrder DEF ExplorerInv, TargetInv, New, Paths
  <2>2. ASSUME NEW r \in job.sources, Target(r) \in New' \ {u}
        PROVE  Whole(r)'
    <3>1. Target(r) \in New \ {file.tmp, staging}
      BY <1>0, <1>1, <1>4, <2>2, SourceFacts DEF New, Paths
    <3> QED BY <1>0, <1>1, <1>3, <3>1, WholeKept
  <2>3. ASSUME NEW r \in job.sources \ left', r # s
        PROVE  Target(r) \in DOMAIN fs' /\ Target(r) # u /\ Target(r) # <<>>
    <3>1. Target(r) \in DOMAIN fs /\ Target(r) # <<>>
      BY <1>0, <1>4, <2>3 DEF ExplorerInv, TargetInv, InHand, Paths, Writing
    <3> QED BY <1>1, <1>3, <3>1
  <2>4. made = <<>> /\ dirs = {}
    BY <1>0 DEF ExplorerInv, TargetInv
  <2> QED BY <1>0, <1>3, <1>4, <2>1, <2>2, <2>3, <2>4 DEF TargetInv, Target, Paths, InHand
<1>26. CopyInv'
  <2>1. before[s] = "dir" /\ s \in Under(before, s) /\ Moved(s, s, u) = u
    BY <1>2, <1>3, <1>4, <1>6, MovedPath, PrefixOrder DEF Under
  <2>2. \A q \in Under(before, s) \ todo' : q = s
    BY <1>0, <1>7
  <2>3. u \in DOMAIN fs' /\ u \notin DOMAIN before
    BY <1>1, <1>3, <1>4
  <2>4. \A q \in Under(before, s) \ todo' :
           Moved(q, s, u) \in DOMAIN fs' /\ Moved(q, s, u) # <<>> /\ fs'[Moved(q, s, u)] = before[q]
    BY <1>1, <1>3, <2>1, <2>2, <2>3
  <2>5. todo' \subseteq Under(before, s) \ {s}
    BY <1>0, <1>7
  <2> QED BY <1>0, <1>1, <1>3, <1>4, <2>1, <2>3, <2>4, <2>5 DEF CopyInv, New, Paths, Under, Writing
<1>27. MoveInv'
  BY <1>0, <1>4 DEF ExplorerInv, MoveInv, Types, HandInv, Paths, Target, Under
<1>28. DeleteInv'
  BY <1>0, <1>4 DEF ExplorerInv, DeleteInv, Types, HandInv, Writing, Paths, InHand, Under
<1>29. ZipInv'
  BY <1>0, <1>4 DEF ExplorerInv, ZipInv, Types, HandInv, Writing, New, Paths, MemberTarget, IsFolder
<1>30. PageInv'
  BY <1>0 DEF ExplorerInv, PageInv, Types, HandInv
<1> QED BY <1>20, <1>21, <1>22, <1>23, <1>24, <1>25, <1>26, <1>27, <1>28, <1>29, <1>30 DEF ExplorerInv

\* A directory of the tree is created in the staging directory.
LEMMA DirNodeStep ==
    ASSUME ExplorerInv, pc = "tree", UNCHANGED <<jobVars, cancel>>, UNCHANGED page, NEW p \in todo, Front(p) \notin todo, todo' = todo \ {p}, fs[p] = "dir",
           Moved(p, at, staging) \notin Paths, fs' = With(fs, Moved(p, at, staging), "dir"),
           UNCHANGED <<pc, file, left, at, member, staging, undo, result>>
    PROVE  ExplorerInv'
<1> DEFINE dst == Moved(p, at, staging)
<1>0. /\ UNCHANGED <<before, job, cancel, left, at, member, file, staging, made, dirs, result, panes, clipboard, cut, busy, ops, pc>>
      /\ pc = "tree" /\ todo' = todo \ {p} /\ job.op = "copy" /\ staging # <<>> /\ file = NoFile
      /\ file.tmp = <<>> /\ file.src = <<>> /\ dst \notin DOMAIN fs /\ fs' = With(fs, dst, "dir")
  BY DEF Goto, jobVars, walk, undo, page, ExplorerInv, HandInv, Types, Writing, NoFile, Paths
<1>1. DOMAIN fs' = DOMAIN fs \cup {dst} /\ fs'[dst] = "dir" /\ \A q \in DOMAIN fs : q # dst => fs'[q] = fs[q]
  BY <1>0 DEF With
<1>2. /\ Tree(fs) /\ Tree(before) /\ staging \in Path /\ at \in Path /\ result = "none"
      /\ \A q \in DOMAIN before : q \in DOMAIN fs /\ fs[q] = before[q] /\ q # <<>> /\ q \in Path
      /\ p \in DOMAIN before /\ IsPrefix(at, p) /\ p # at /\ p \in Path
  BY <1>0, BeforeKept DEF ExplorerInv, Types, CopyInv, Under
<1>3. /\ dst \in Path /\ dst # <<>> /\ IsPrefix(staging, dst) /\ IsPrefix(at, Front(p)) /\ Front(p) \in Path
      /\ Front(dst) = Moved(Front(p), at, staging)
  <2>1. dst \in Path /\ IsPrefix(staging, dst)
    BY <1>2, MovedPath
  <2>2. p # <<>> /\ dst # <<>> /\ IsPrefix(at, Front(p)) /\ Front(dst) = Moved(Front(p), at, staging)
    BY <1>2, MovedFront
  <2> QED BY <1>2, <2>1, <2>2, FrontPath
<1> HIDE DEF dst
<1>4. IsFolder(fs, Front(dst))
  <2>1. Front(p) \in DOMAIN before /\ before[Front(p)] = "dir"
    <3>1. IsPrefix(Front(p), p) /\ Front(p) # p
      BY <1>2, FrontPath
    <3>2. at \in job.sources /\ at # <<>>
      BY <1>0, SourceFacts DEF ExplorerInv, TargetInv
    <3>3. Front(p) # <<>>
      BY <1>2, <1>3, <3>2, PrefixOrder
    <3> QED BY <1>2, <1>3, <3>1, <3>3, TreeFacts
  <2>2. Front(p) \in Under(before, at) \ (todo \cup {file.src})
    BY <1>0, <1>2, <1>3, <2>1 DEF Under
  <2> QED BY <1>0, <1>3, <2>1, <2>2 DEF ExplorerInv, CopyInv, IsFolder, Paths
<1>5. Tree(fs')
  BY <1>0, <1>2, <1>3, <1>4, WithTree
<1>20. Types'
  BY <1>0, <1>2 DEF ExplorerInv, Types, Steps, Siblings, Writing
<1>21. CardInv'
  <2>1. UserFilesKept'
    BY <1>0, <1>1, <1>2 DEF UserFilesKept, Paths
  <2> QED BY <1>0, <1>1, <1>5, <2>1 DEF ExplorerInv, CardInv, Paths
<1>22. HandInv'
  BY <1>0, <1>2 DEF ExplorerInv, HandInv, Types, Writing, IsFolder, NoFile, NoJob, Paths
<1>23. TempInv'
  BY <1>0 DEF TempInv
<1>24. SourcesInv'
  BY <1>0, <1>2 DEF ExplorerInv, SourcesInv, Types, Writing, Target
<1>25. TargetInv'
  <2>1. ASSUME NEW x \in New'
        PROVE  IsPrefix(staging, x) \/ \E r \in job.sources : IsPrefix(Target(r), x)
    BY <1>0, <1>1, <1>2, <1>3, TreeFacts DEF ExplorerInv, TargetInv, New, Paths
  <2>2. ASSUME NEW r \in job.sources, Target(r) \in New' \ {staging}
        PROVE  Whole(r)'
    <3>1. Target(r) # dst
      <4>1. Len(staging) = Len(Target(r))
        BY <1>0, <1>2, SourceFacts, FrontPath, PrefixOrder DEF ExplorerInv, CopyInv
      <4>2. staging \in DOMAIN fs
        BY <1>0 DEF ExplorerInv, CopyInv, New, Paths
      <4> QED BY <1>0, <1>2, <1>3, <2>2, <4>1, <4>2, PrefixOrder
    <3>2. Target(r) \in New \ {file.tmp, staging}
      BY <1>0, <1>1, <2>2, <3>1, SourceFacts DEF New, Paths
    <3> QED BY <1>0, <1>1, <3>2, WholeKept
  <2>3. /\ \A r \in job.sources \ left : r = at \/ Target(r) \in DOMAIN fs \ {<<>>, staging}
        /\ made = <<>> /\ dirs = {} /\ at \in job.sources \ left
    BY <1>0 DEF ExplorerInv, TargetInv, InHand, Paths
  <2> QED BY <1>0, <1>1, <1>2, <2>1, <2>2, <2>3 DEF TargetInv, Target, Paths, InHand
<1>26. CopyInv'
  <2>1. ASSUME NEW q \in Under(before, at) \ todo'
        PROVE  Moved(q, at, staging) \in DOMAIN fs' /\ Moved(q, at, staging) # <<>>
               /\ fs'[Moved(q, at, staging)] = before[q]
    <3>1. CASE q = p
      BY <1>1, <1>2, <1>3, <3>1 DEF dst
    <3>2. CASE q # p
      <4>1. q \in Under(before, at) \ (todo \cup {file.src})
        BY <1>0, <1>2, <2>1, <3>2 DEF Under
      <4> QED BY <1>0, <1>1, <4>1 DEF ExplorerInv, CopyInv, Paths
    <3> QED BY <3>1, <3>2
  <2>2. /\ staging \in DOMAIN fs /\ staging \notin DOMAIN before /\ fs[staging] = "dir"
        /\ Front(staging) = job.dest /\ Last(staging) \in Range(Temps)
        /\ before[at] = "dir" /\ todo \subseteq Under(before, at) \ {at}
    BY <1>0 DEF ExplorerInv, CopyInv, New, Paths
  <2> QED BY <1>0, <1>1, <2>1, <2>2 DEF CopyInv, New, Paths, Under, Writing
<1>27. MoveInv'
  BY <1>0, <1>2 DEF ExplorerInv, MoveInv, Types, HandInv, Paths, Target, Under
<1>28. DeleteInv'
  BY <1>0, <1>2 DEF ExplorerInv, DeleteInv, Types, HandInv, Writing, Paths, InHand, Under
<1>29. ZipInv'
  BY <1>0, <1>2 DEF ExplorerInv, ZipInv, Types, HandInv, Writing, New, Paths, MemberTarget, IsFolder
<1>30. PageInv'
  BY <1>0 DEF ExplorerInv, PageInv, Types, HandInv
<1> QED BY <1>20, <1>21, <1>22, <1>23, <1>24, <1>25, <1>26, <1>27, <1>28, <1>29, <1>30 DEF ExplorerInv

\* The staging directory takes the name of the target.
LEMMA TreeDoneStep ==
    ASSUME ExplorerInv, pc = "tree", UNCHANGED <<jobVars, cancel>>, UNCHANGED page, todo = {}, Target(at) \notin Paths, fs' = Rename(fs, staging, Target(at)),
           staging' = <<>>, Goto("source"), UNCHANGED <<walk, file, undo, result>>
    PROVE  ExplorerInv'
<1> DEFINE T == Target(at)
           u == staging
<1>0. /\ UNCHANGED <<before, job, cancel, left, todo, at, member, file, made, dirs, result, panes, clipboard, cut, busy, ops>>
      /\ pc = "tree" /\ pc' = "source" /\ todo = {} /\ job.op = "copy" /\ u # <<>> /\ file = NoFile
      /\ file.tmp = <<>> /\ file.src = <<>> /\ T \notin DOMAIN fs /\ fs' = Rename(fs, u, T) /\ staging' = <<>>
  BY DEF Goto, jobVars, walk, undo, page, ExplorerInv, HandInv, Types, Writing, NoFile, Paths
<1>1. at \in job.sources \ left /\ at \in job.sources
  BY <1>0 DEF ExplorerInv, TargetInv
<1>2. /\ Tree(fs) /\ Tree(before) /\ u \in Path /\ at \in Path /\ result = "none" /\ IsFolder(fs, job.dest)
      /\ \A q \in DOMAIN before : q \in DOMAIN fs /\ fs[q] = before[q] /\ q # <<>> /\ q \in Path /\ fs[q] # "torn"
  <2>1. busy /\ result = "none" /\ u \in Path /\ at \in Path
    BY <1>0 DEF ExplorerInv, Types
  <2> QED BY <1>0, <2>1, BeforeKept
<1>3. /\ T \in Path /\ T # <<>> /\ Front(T) = job.dest /\ u \in DOMAIN fs /\ u \notin DOMAIN before
      /\ \A r \in job.sources : Target(r) \in Path /\ Target(r) # <<>> /\ Len(u) = Len(Target(r)) /\ (Target(r) = T => r = at)
  <2>1. Front(u) = job.dest /\ u \in DOMAIN fs /\ u \notin DOMAIN before
    BY <1>0 DEF ExplorerInv, CopyInv, New, Paths
  <2>2. Len(u) = Len(job.dest) + 1
    BY <1>0, <1>2, <2>1, FrontPath, PrefixOrder
  <2>3. \A r \in job.sources : Target(r) \in Path /\ Target(r) # <<>> /\ Len(u) = Len(Target(r)) /\ (Target(r) = T => r = at)
    BY <1>0, <1>1, <2>2, SourceFacts
  <2> QED BY <1>0, <1>1, <2>1, <2>3, SourceFacts
<1>4. ~IsPrefix(u, T)
  BY <1>0, <1>1, <1>2, <1>3, PrefixOrder
<1> HIDE DEF T, u
<1>5. Tree(fs')
  BY <1>0, <1>2, <1>3, <1>4, RenameTree
<1>6. /\ \A q \in DOMAIN fs : ~IsPrefix(u, q) => q \in DOMAIN fs' /\ fs'[q] = fs[q]
      /\ \A p \in Under(fs, u) : Moved(p, u, T) \in DOMAIN fs' /\ fs'[Moved(p, u, T)] = fs[p]
      /\ \A r \in DOMAIN fs' :
            \/ r \in DOMAIN fs /\ ~IsPrefix(u, r)
            \/ r \in Path /\ IsPrefix(T, r) /\ \E p \in Under(fs, u) : r = Moved(p, u, T)
  BY <1>0, <1>2, <1>3, RenameCard
<1>7. \A q \in DOMAIN before : q \in DOMAIN fs' /\ fs'[q] = before[q]
  <2>1. \A q \in DOMAIN before : ~IsPrefix(u, q)
    BY <1>0, <1>2, <1>3, TreeFacts
  <2> QED BY <1>2, <1>6, <2>1
<1>8. \A p \in DOMAIN fs' : fs'[p] # "torn"
  BY <1>0, <1>2, <1>6, TreeFacts DEF ExplorerInv, CardInv, Under, Paths
<1>9. \A r \in job.sources : r # at => ~IsPrefix(T, Target(r))
  <2>1. Len(u) = Len(T)
    BY <1>1, <1>3 DEF T
  <2> QED BY <1>3, <2>1, PrefixOrder
<1>20. Types'
  BY <1>0, PrefixOrder DEF ExplorerInv, Types, Siblings, Steps
<1>21. CardInv'
  <2>1. UserFilesKept'
    BY <1>0, <1>7 DEF UserFilesKept, Paths
  <2> QED BY <1>0, <1>5, <1>8, <2>1 DEF ExplorerInv, CardInv, Paths
<1>22. HandInv'
  BY <1>0, <1>2 DEF ExplorerInv, HandInv, Types, Writing, IsFolder, NoFile, NoJob, Paths
<1>23. TempInv'
  BY <1>0 DEF TempInv
<1>24. SourcesInv'
  BY <1>0, <1>2 DEF ExplorerInv, SourcesInv, Types, Writing, Target
<1>25. TargetInv'
  <2>1. ASSUME NEW x \in New'
        PROVE  \E r \in job.sources : IsPrefix(Target(r), x)
    <3>1. CASE x \in DOMAIN fs /\ ~IsPrefix(u, x)
      BY <1>0, <1>2, <2>1, <3>1, TreeFacts DEF ExplorerInv, TargetInv, New, Paths, u
    <3>2. CASE IsPrefix(T, x)
      BY <1>1, <3>2 DEF T
    <3> QED BY <1>6, <2>1, <3>1, <3>2 DEF New, Paths
  <2>2. ASSUME NEW r \in job.sources, Target(r) \in New'
        PROVE  Whole(r)'
    <3>1. CASE r = at
      <4>1. ASSUME NEW q \in Under(before, at)
            PROVE  Moved(q, at, T) \in DOMAIN fs' /\ fs'[Moved(q, at, T)] = before[q]
        <5>1. q \in Path /\ IsPrefix(at, q) /\ q \in Under(before, at) \ (todo \cup {file.src})
          BY <1>0, <1>2, <4>1 DEF Under
        <5>2. Moved(q, at, u) \in DOMAIN fs /\ fs[Moved(q, at, u)] = before[q]
          BY <1>0, <5>1 DEF ExplorerInv, CopyInv, Paths, u
        <5>3. Moved(q, at, u) \in Under(fs, u)
          BY <1>2, <5>1, <5>2, MovedPath DEF Under
        <5>4. Moved(Moved(q, at, u), u, T) = Moved(q, at, T)
          BY <1>2, <1>3, <5>1, MovedTwice
        <5> QED BY <1>6, <5>2, <5>3, <5>4
      <4> QED BY <1>0, <3>1, <4>1 DEF Whole, Target, Paths, Under, T
    <3>2. CASE r # at
      <4>1. Target(r) \in DOMAIN fs /\ ~IsPrefix(u, Target(r))
        BY <1>6, <1>9, <2>2, <3>2 DEF New, Paths
      <4>2. Target(r) \in New \ {file.tmp, staging}
        BY <1>0, <1>2, <1>3, <2>2, <4>1, PrefixOrder DEF New, Paths, u
      <4> QED BY <1>0, <1>6, <4>2, WholeKept DEF u
    <3> QED BY <3>1, <3>2
  <2>3. ASSUME NEW r \in job.sources \ left
        PROVE  Target(r) \in DOMAIN fs' /\ Target(r) # <<>>
    <3>1. CASE r = at
      <4>1. u \in Under(fs, u) /\ Moved(u, u, T) = T
        BY <1>2, <1>3, MovedPath, PrefixOrder DEF Under
      <4> QED BY <1>3, <1>6, <3>1, <4>1 DEF T
    <3>2. CASE r # at
      <4>1. Target(r) \in DOMAIN fs \ {staging}
        BY <1>0, <2>3, <3>2 DEF ExplorerInv, TargetInv, InHand, Paths
      <4>2. ~IsPrefix(u, Target(r))
        BY <1>2, <1>3, <4>1, PrefixOrder DEF u
      <4> QED BY <1>3, <1>6, <4>1, <4>2
    <3> QED BY <3>1, <3>2
  <2>4. made = <<>> /\ dirs = {}
    BY <1>0 DEF ExplorerInv, TargetInv
  <2> QED BY <1>0, <1>2, <2>1, <2>2, <2>3, <2>4 DEF TargetInv, Target, Paths, Writing
<1>26. CopyInv'
  BY <1>0, <1>2 DEF ExplorerInv, CopyInv, Types, HandInv, Writing, New, Paths, Target, Under
<1>27. MoveInv'
  BY <1>0, <1>2 DEF ExplorerInv, MoveInv, Types, HandInv, Paths, Target, Under
<1>28. DeleteInv'
  BY <1>0, <1>2 DEF ExplorerInv, DeleteInv, Types, HandInv, Writing, Paths, InHand, Under
<1>29. ZipInv'
  BY <1>0, <1>2 DEF ExplorerInv, ZipInv, Types, HandInv, Writing, New, Paths, MemberTarget, IsFolder
<1>30. PageInv'
  BY <1>0 DEF ExplorerInv, PageInv, Types, HandInv
<1> QED BY <1>20, <1>21, <1>22, <1>23, <1>24, <1>25, <1>26, <1>27, <1>28, <1>29, <1>30 DEF ExplorerInv

\* The target of the file in hand, and its folder.
LEMMA DstFacts ==
    ASSUME ExplorerInv, pc \in Writing
    PROVE  /\ file.dst \in Path /\ file.dst # <<>> /\ IsFolder(fs, Front(file.dst)) /\ busy /\ result = "none"
           /\ job.op = "copy" => \/ staging = <<>> /\ Front(file.dst) = job.dest
                                 \/ staging # <<>> /\ IsPrefix(staging, Front(file.dst))
<1>0. busy /\ result = "none" /\ at \in Path /\ staging \in Path /\ file.dst \in Path /\ job.dest \in Path
  BY DEF ExplorerInv, Types, Writing
<1>1. job.op \in {"copy", "zip"}
  BY DEF ExplorerInv, HandInv
<1>2. CASE job.op = "zip"
  <2>1. member \in DOMAIN Members /\ file.dst = MemberTarget(Members[member]) /\ IsFolder(fs, Front(file.dst))
    BY <1>2 DEF ExplorerInv, ZipInv
  <2> QED BY <1>0, <1>2, <2>1, MemberPath
<1>3. CASE job.op = "copy" /\ staging = <<>>
  <2>1. file.dst = Target(at) /\ at \in job.sources
    BY <1>3 DEF ExplorerInv, CopyInv, TargetInv
  <2>2. IsFolder(fs, job.dest)
    BY <1>0, <1>3, BeforeKept
  <2> QED BY <1>0, <1>3, <2>1, <2>2, SourceFacts
<1>4. CASE job.op = "copy" /\ staging # <<>>
  <2> DEFINE s == file.src
             f == Front(file.src)
  <2>1. /\ s \in DOMAIN before /\ IsPrefix(at, s) /\ s # at /\ f \notin todo
        /\ file.dst = Moved(s, at, staging)
    BY <1>4 DEF ExplorerInv, CopyInv
  <2>2. s \in Path /\ s # <<>> /\ Tree(before)
    BY <2>1, TreeFacts DEF ExplorerInv, CardInv
  <2>3. IsPrefix(at, f) /\ Front(file.dst) = Moved(f, at, staging) /\ file.dst # <<>>
    BY <1>0, <2>1, <2>2, MovedFront
  <2>4. f \in Path /\ IsPrefix(f, s) /\ f # s
    BY <2>2, FrontPath
  <2>5. f # <<>>
    <3>1. at \in job.sources /\ at # <<>>
      BY <1>4, SourceFacts DEF ExplorerInv, TargetInv
    <3> QED BY <1>0, <2>3, <2>4, <3>1, PrefixOrder
  <2>6. f \in Under(before, at) \ (todo \cup {file.src}) /\ before[f] = "dir"
    BY <2>1, <2>2, <2>3, <2>4, <2>5, TreeFacts DEF Under
  <2>7. IsPrefix(staging, Moved(f, at, staging))
    BY <1>0, <2>3, <2>4, MovedPath
  <2>8. Moved(f, at, staging) \in DOMAIN fs /\ fs[Moved(f, at, staging)] = "dir"
    BY <1>4, <2>6 DEF ExplorerInv, CopyInv, Paths
  <2> QED BY <1>0, <1>4, <2>3, <2>7, <2>8 DEF IsFolder
<1> QED BY <1>1, <1>2, <1>3, <1>4

\* The temporary file is created.
LEMMA OpenTempStep ==
    ASSUME ExplorerInv, pc = "file", UNCHANGED <<jobVars, cancel>>, UNCHANGED page, FreeTemps(file.dst) # {}, file' = [file EXCEPT !.tmp = TempFor(file.dst)],
           fs' = With(fs, file'.tmp, "torn"), Goto("fill"), UNCHANGED <<walk, staging, undo, result>>
    PROVE  ExplorerInv'
<1> DEFINE w == TempFor(file.dst)
<1>0. /\ UNCHANGED <<before, job, cancel, left, todo, at, member, staging, made, dirs, result, panes, clipboard, cut, busy, ops>>
      /\ pc = "file" /\ pc' = "fill" /\ pc \in Writing
  BY DEF Goto, jobVars, walk, undo, page, Writing
<1>1. /\ file.dst \in Path /\ file.dst # <<>> /\ IsFolder(fs, Front(file.dst)) /\ busy /\ result = "none"
      /\ job.op = "copy" => \/ staging = <<>> /\ Front(file.dst) = job.dest
                            \/ staging # <<>> /\ IsPrefix(staging, Front(file.dst))
  BY <1>0, DstFacts
<1>2. /\ w \in Path /\ w # <<>> /\ w # file.dst /\ w \notin DOMAIN fs
      /\ Front(w) = Front(file.dst) /\ Last(w) \in Range(Temps)
  BY <1>1, TempForFree DEF Paths
<1>3. /\ file'.src = file.src /\ file'.dst = file.dst /\ file'.tmp = w /\ file.tmp = <<>>
      /\ file' \in [src : Path, dst : Path, tmp : Path] /\ job.op \in {"copy", "zip"}
  <2>1. file \in [src : Path, dst : Path, tmp : Path]
    BY DEF ExplorerInv, Types
  <2>2. file.tmp = <<>> /\ job.op \in {"copy", "zip"}
    BY <1>0 DEF ExplorerInv, HandInv, Writing
  <2> QED BY <1>2, <2>1, <2>2
<1> HIDE DEF w
<1>4. DOMAIN fs' = DOMAIN fs \cup {w} /\ fs'[w] = "torn" /\ \A q \in DOMAIN fs : q # w => fs'[q] = fs[q]
  BY <1>3 DEF With
<1>5. /\ Tree(fs) /\ Tree(before)
      /\ \A q \in DOMAIN before : q \in DOMAIN fs /\ fs[q] = before[q] /\ q # <<>> /\ q \in Path
  BY <1>3, BeforeKept
<1>6. Tree(fs')
  BY <1>1, <1>2, <1>3, <1>5, WithTree
<1>7. w \notin DOMAIN before /\ \A q \in DOMAIN fs : q # <<>>
  BY <1>2, <1>5, TreeFacts
<1>20. Types'
  BY <1>0, <1>1, <1>3 DEF ExplorerInv, Types, Steps, Siblings, Writing
<1>21. CardInv'
  <2>1. UserFilesKept'
    BY <1>0, <1>4, <1>5, <1>7 DEF UserFilesKept, Paths
  <2>2. \A p \in DOMAIN fs' : fs'[p] = "torn" => p = w
    BY <1>3, <1>4, <1>7 DEF ExplorerInv, CardInv, Paths
  <2> QED BY <1>0, <1>3, <1>6, <2>1, <2>2 DEF ExplorerInv, CardInv, Paths
<1>22. HandInv'
  BY <1>0, <1>2, <1>3 DEF ExplorerInv, HandInv, Writing
<1>23. TempInv'
  BY <1>0, <1>2, <1>3, <1>4, <1>7 DEF TempInv, New, Paths
<1>24. SourcesInv'
  BY <1>0 DEF ExplorerInv, SourcesInv, Writing, Target
<1>25. TargetInv'
  <2> SUFFICES ASSUME job.op = "copy"
               PROVE  TargetInv'
    BY <1>0, <1>3 DEF TargetInv
  <2>1. ASSUME NEW x \in New'
        PROVE  x = w \/ (staging # <<>> /\ IsPrefix(staging, x)) \/ \E r \in job.sources : IsPrefix(Target(r), x)
    BY <1>0, <1>3, <1>4, <1>7 DEF ExplorerInv, TargetInv, New, Paths
  <2>2. ASSUME NEW r \in job.sources, Target(r) \in New' \ {w, staging}
        PROVE  Whole(r)'
    <3>1. Target(r) \in New \ {file.tmp, staging}
      BY <1>0, <1>3, <1>4, <2>2, SourceFacts DEF New, Paths
    <3> QED BY <1>0, <1>2, <1>4, <3>1, WholeKept
  <2>3. /\ \A r \in job.sources \ left : r = at \/ Target(r) \in DOMAIN fs \ {staging}
        /\ made = <<>> /\ dirs = {} /\ at \in job.sources \ left
    BY <1>0 DEF ExplorerInv, TargetInv, InHand, Paths
  <2>4. \A r \in job.sources \ left : r = at \/ Target(r) \in DOMAIN fs' \ {w, staging}
    BY <1>2, <1>4, <2>3
  <2>5. result # "ok"
    BY <1>1
  <2> QED BY <1>0, <1>3, <2>1, <2>2, <2>3, <2>4, <2>5 DEF TargetInv, Target, Paths, InHand, Writing
<1>26. CopyInv'
  <2> SUFFICES ASSUME job.op = "copy"
               PROVE  CopyInv'
    BY <1>0 DEF CopyInv
  <2>1. staging # <<>> => IsPrefix(staging, w)
    <3>1. Front(w) \in Path /\ IsPrefix(Front(w), w) /\ staging \in Path
      BY <1>2, FrontPath DEF ExplorerInv, Types
    <3> QED BY <1>1, <1>2, <3>1, PrefixOrder
  <2>2. staging = <<>> => Front(w) = job.dest
    BY <1>1, <1>2
  <2> QED BY <1>0, <1>2, <1>3, <1>4, <2>1, <2>2 DEF ExplorerInv, CopyInv, New, Paths, Under, Target, Writing
<1>27. MoveInv'
  BY <1>0, <1>1, <1>3 DEF ExplorerInv, MoveInv, Types, HandInv, Paths, Target, Under
<1>28. DeleteInv'
  BY <1>0, <1>1, <1>3 DEF ExplorerInv, DeleteInv, Types, HandInv, Writing, Paths, InHand, Under
<1>29. ZipInv'
  <2> SUFFICES ASSUME job.op = "zip"
               PROVE  ZipInv'
    BY <1>0 DEF ZipInv
  <2>1. IsFolder(fs', Front(file.dst))
    BY <1>1, <1>2, <1>4 DEF IsFolder
  <2>2. New' \subseteq {w} \cup Range(made) \cup dirs
    BY <1>0, <1>1, <1>3, <1>4, <1>7 DEF ExplorerInv, ZipInv, New, Paths
  <2>3. \A k \in DOMAIN made : made[k] \in New' \ {w} /\ fs'[made[k]] = "member"
    BY <1>0, <1>1, <1>2, <1>4 DEF ExplorerInv, ZipInv, New, Paths
  <2>4. \A d \in dirs : d \in DOMAIN fs' /\ fs'[d] = "dir"
    BY <1>0, <1>2, <1>4 DEF ExplorerInv, ZipInv, Paths
  <2>5. \A i \in DOMAIN Members : i < member => MemberTarget(Members[i]) \in DOMAIN fs' \ {w}
    BY <1>0, <1>2, <1>4 DEF ExplorerInv, ZipInv, Paths
  <2>6. /\ staging = <<>> /\ dirs \cap DOMAIN before = {}
        /\ \A k, l \in DOMAIN made : made[k] = made[l] => k = l
        /\ member \in DOMAIN Members /\ ~Members[member].dir /\ file.dst = MemberTarget(Members[member])
    BY <1>0 DEF ExplorerInv, ZipInv
  <2> QED BY <1>0, <1>1, <1>3, <2>1, <2>2, <2>3, <2>4, <2>5, <2>6 DEF ZipInv, MemberTarget, Paths, Writing
<1>30. PageInv'
  BY <1>0 DEF ExplorerInv, PageInv, Types, HandInv
<1> QED BY <1>20, <1>21, <1>22, <1>23, <1>24, <1>25, <1>26, <1>27, <1>28, <1>29, <1>30 DEF ExplorerInv

\* The temporary file gets its content.
LEMMA FillTempStep ==
    ASSUME ExplorerInv, pc = "fill", UNCHANGED <<jobVars, cancel>>, UNCHANGED page, fs' = With(fs, file.tmp, IF job.op = "zip" THEN "member" ELSE fs[file.src]),
           Goto("commit"), UNCHANGED <<walk, file, staging, undo, result>>
    PROVE  ExplorerInv'
<1> DEFINE w == file.tmp
<1>0. /\ UNCHANGED <<before, job, cancel, left, todo, at, member, file, staging, made, dirs, result, panes, clipboard, cut, busy, ops>>
      /\ pc = "fill" /\ pc' = "commit" /\ pc \in Writing
  BY DEF Goto, jobVars, walk, undo, page, Writing
<1>1. /\ file.dst \in Path /\ file.dst # <<>> /\ IsFolder(fs, Front(file.dst)) /\ busy /\ result = "none"
  BY <1>0, DstFacts
<1>2. /\ w \in Path /\ w # <<>> /\ w # file.dst /\ w \in DOMAIN fs /\ w \notin DOMAIN before /\ fs[w] # "dir"
      /\ Front(w) = Front(file.dst) /\ Last(w) \in Range(Temps) /\ job.op \in {"copy", "zip"}
  <2>1. w # <<>> /\ w \in Path
    BY <1>0 DEF ExplorerInv, HandInv, Types
  <2> QED BY <1>0, <2>1 DEF ExplorerInv, TempInv, New, Paths
<1>3. /\ DOMAIN fs' = DOMAIN fs /\ fs'[w] = IF job.op = "zip" THEN "member" ELSE fs[file.src]
      /\ \A q \in DOMAIN fs : q # w => fs'[q] = fs[q]
  BY <1>2 DEF With
<1> HIDE DEF w
<1>4. /\ Tree(fs) /\ Tree(before)
      /\ \A q \in DOMAIN before : q \in DOMAIN fs /\ fs[q] = before[q] /\ q # <<>> /\ q \in Path
  BY <1>2, BeforeKept
<1>5. Tree(fs')
  BY <1>1, <1>2, <1>4, WithTree DEF w
<1>20. Types'
  BY <1>0, <1>1, <1>2 DEF ExplorerInv, Types, Steps, Siblings, Writing
<1>21. CardInv'
  <2>1. UserFilesKept'
    BY <1>0, <1>2, <1>3, <1>4 DEF UserFilesKept, Paths
  <2>2. \A p \in DOMAIN fs' : fs'[p] = "torn" => p = w
    BY <1>3 DEF ExplorerInv, CardInv, Paths, w
  <2> QED BY <1>0, <1>5, <2>1, <2>2 DEF ExplorerInv, CardInv, Paths, w
<1>22. HandInv'
  BY <1>0, <1>1, <1>2 DEF ExplorerInv, HandInv, Types, Writing, IsFolder, NoFile, NoJob, Paths
<1>23. TempInv'
  <2>1. job.op = "copy" => file.src \in DOMAIN before
    BY <1>0 DEF ExplorerInv, CopyInv
  <2>2. fs'[w] = (IF job.op = "zip" THEN "member" ELSE before[file.src]) /\ fs'[w] # "dir"
    <3>1. job.op = "copy" => before[file.src] # "dir"
      BY <1>0 DEF ExplorerInv, CopyInv
    <3> QED BY <1>2, <1>3, <1>4, <2>1, <3>1
  <2> QED BY <1>0, <1>2, <1>3, <2>2 DEF TempInv, New, Paths, w
<1>24. SourcesInv'
  BY <1>0 DEF ExplorerInv, SourcesInv, Writing, Target
<1>25. TargetInv'
  <2> SUFFICES ASSUME job.op = "copy"
               PROVE  TargetInv'
    BY <1>0, <1>2 DEF TargetInv
  <2>1. ASSUME NEW x \in New'
        PROVE  x = w \/ (staging # <<>> /\ IsPrefix(staging, x)) \/ \E r \in job.sources : IsPrefix(Target(r), x)
    BY <1>0, <1>3 DEF ExplorerInv, TargetInv, New, Paths, w
  <2>2. ASSUME NEW r \in job.sources, Target(r) \in New' \ {w, staging}
        PROVE  Whole(r)'
    <3>1. Target(r) \in New \ {file.tmp, staging}
      BY <1>0, <1>3, <2>2 DEF New, Paths, w
    <3> QED BY <1>0, <1>3, <3>1, WholeKept DEF w
  <2>3. /\ \A r \in job.sources \ left : r = at \/ Target(r) \in DOMAIN fs \ {w, staging}
        /\ made = <<>> /\ dirs = {} /\ at \in job.sources \ left
    BY <1>0 DEF ExplorerInv, TargetInv, InHand, Paths, w
  <2>5. result # "ok"
    BY <1>1
  <2> QED BY <1>0, <1>3, <2>1, <2>2, <2>3, <2>5 DEF TargetInv, Target, Paths, InHand, Writing, w
<1>26. CopyInv'
  <2> SUFFICES ASSUME job.op = "copy"
               PROVE  CopyInv'
    BY <1>0 DEF CopyInv
  <2>1. staging # <<>> => staging \in DOMAIN fs' /\ fs'[staging] = "dir"
    BY <1>2, <1>3 DEF ExplorerInv, CopyInv, New, Paths
  <2> QED BY <1>0, <1>3, <2>1 DEF ExplorerInv, CopyInv, New, Paths, Under, Target, Writing, w
<1>27. MoveInv'
  BY <1>0, <1>1, <1>2 DEF ExplorerInv, MoveInv, Types, HandInv, Paths, Target, Under
<1>28. DeleteInv'
  BY <1>0, <1>1, <1>2 DEF ExplorerInv, DeleteInv, Types, HandInv, Writing, Paths, InHand, Under
<1>29. ZipInv'
  <2> SUFFICES ASSUME job.op = "zip"
               PROVE  ZipInv'
    BY <1>0 DEF ZipInv
  <2>1. IsFolder(fs', Front(file.dst))
    BY <1>1, <1>2, <1>3 DEF IsFolder
  <2>2. New' \subseteq {w} \cup Range(made) \cup dirs
    BY <1>0, <1>1, <1>3 DEF ExplorerInv, ZipInv, New, Paths, w
  <2>3. \A k \in DOMAIN made : made[k] \in New' \ {w} /\ fs'[made[k]] = "member"
    BY <1>0, <1>1, <1>2, <1>3 DEF ExplorerInv, ZipInv, New, Paths, w
  <2>4. \A d \in dirs : d \in DOMAIN fs' /\ fs'[d] = "dir"
    BY <1>0, <1>2, <1>3 DEF ExplorerInv, ZipInv, Paths
  <2>5. \A i \in DOMAIN Members : i < member => MemberTarget(Members[i]) \in DOMAIN fs' \ {w}
    BY <1>0, <1>2, <1>3 DEF ExplorerInv, ZipInv, Paths, w
  <2>6. /\ staging = <<>> /\ dirs \cap DOMAIN before = {}
        /\ \A k, l \in DOMAIN made : made[k] = made[l] => k = l
        /\ member \in DOMAIN Members /\ ~Members[member].dir /\ file.dst = MemberTarget(Members[member])
    BY <1>0 DEF ExplorerInv, ZipInv
  <2> QED BY <1>0, <1>1, <2>1, <2>2, <2>3, <2>4, <2>5, <2>6 DEF ZipInv, MemberTarget, Paths, Writing, w
<1>30. PageInv'
  BY <1>0 DEF ExplorerInv, PageInv, Types, HandInv
<1> QED BY <1>20, <1>21, <1>22, <1>23, <1>24, <1>25, <1>26, <1>27, <1>28, <1>29, <1>30 DEF ExplorerInv

\* The temporary file takes the name of the target.
LEMMA CommitTempStep ==
    ASSUME ExplorerInv, pc = "commit", UNCHANGED <<jobVars, cancel>>, UNCHANGED page, file.dst \notin Paths, fs' = Rename(fs, file.tmp, file.dst), FileDone,
           UNCHANGED <<left, todo, at, staging, dirs, result>>
    PROVE  ExplorerInv'
<1> DEFINE w == file.tmp
           d == file.dst
<1>0. /\ UNCHANGED <<before, job, cancel, left, todo, at, staging, dirs, result, panes, clipboard, cut, busy, ops>>
      /\ pc = "commit" /\ pc \in Writing /\ file' = NoFile /\ file'.tmp = <<>> /\ file'.src = <<>> /\ d \notin DOMAIN fs
      /\ job.op = "zip" => pc' = "member" /\ member' = member + 1 /\ made' = Append(made, d)
      /\ job.op # "zip" => pc' = (IF staging = <<>> THEN "source" ELSE "tree") /\ member' = member /\ made' = made
  BY DEF Goto, jobVars, walk, undo, page, Writing, FileDone, NoFile, Paths
<1>1. /\ d \in Path /\ d # <<>> /\ IsFolder(fs, Front(d)) /\ busy /\ result = "none"
  BY <1>0, DstFacts
<1>2. /\ w \in Path /\ w # <<>> /\ w # d /\ w \in DOMAIN fs /\ w \notin DOMAIN before /\ fs[w] # "dir"
      /\ Front(w) = Front(d) /\ job.op \in {"copy", "zip"}
      /\ fs[w] = IF job.op = "zip" THEN "member" ELSE before[file.src]
  <2>1. w # <<>> /\ w \in Path
    BY <1>0 DEF ExplorerInv, HandInv, Types
  <2> QED BY <1>0, <2>1 DEF ExplorerInv, TempInv, New, Paths
<1>3. /\ Tree(fs) /\ Tree(before) /\ \A q \in DOMAIN fs : q \in Path /\ q # <<>>
      /\ \A q \in DOMAIN before : q \in DOMAIN fs /\ fs[q] = before[q] /\ q # <<>> /\ q \in Path /\ fs[q] # "torn"
  BY <1>2, BeforeKept, TreeFacts
<1>4. DOMAIN fs' = (DOMAIN fs \ {w}) \cup {d} /\ fs'[d] = fs[w] /\ \A q \in DOMAIN fs \ {w} : fs'[q] = fs[q]
  <2> DEFINE g == Rename(fs, w, d)
  <2>0. Tree(fs) /\ w \in DOMAIN fs /\ fs[w] # "dir" /\ d \in Path /\ d # <<>> /\ d \notin DOMAIN fs
    BY <1>0, <1>1, <1>2, <1>3
  <2>2. fs' = g
    OBVIOUS
  <2> HIDE DEF w, d
  <2>1. DOMAIN g = (DOMAIN fs \ {w}) \cup {d} /\ g[d] = fs[w] /\ \A q \in DOMAIN fs \ {w} : g[q] = fs[q]
    BY <2>0, RenameFile
  <2> HIDE DEF g
  <2> QED BY <2>1, <2>2
<1>5. Tree(fs')
  <2>1. Len(w) = Len(d) /\ ~IsPrefix(w, d)
    <3>1. Len(w) = Len(d)
      BY <1>1, <1>2, FrontPath, PrefixOrder
    <3> QED BY <1>1, <1>2, <3>1, PrefixOrder
  <2> QED BY <1>0, <1>1, <1>2, <1>3, <2>1, RenameTree
<1>6. d \notin DOMAIN before
  BY <1>0, <1>3
<1>7. ASSUME job.op = "copy"
      PROVE  /\ file.src \in DOMAIN before /\ before[file.src] # "dir" /\ IsPrefix(at, file.src)
             /\ fs[w] = before[file.src] /\ at \in job.sources \ left /\ at \in Path /\ staging \in Path
             /\ staging = <<>> => file.src = at /\ d = Target(at)
             /\ staging # <<>> => /\ file.src # at /\ d = Moved(file.src, at, staging)
                                  /\ staging \in DOMAIN fs /\ staging \notin DOMAIN before /\ fs[staging] = "dir"
                                  /\ Front(staging) = job.dest
  BY <1>0, <1>2, <1>7 DEF ExplorerInv, CopyInv, TargetInv, Types, New, Paths
<1>8. ASSUME job.op = "copy", staging # <<>>
      PROVE  IsPrefix(staging, d) /\ \A r \in job.sources : Target(r) # d
  <2>1. IsPrefix(staging, d)
    BY <1>3, <1>7, <1>8, MovedPath
  <2>2. IsPrefix(staging, Front(d)) /\ Len(staging) <= Len(Front(d))
    BY <1>0, <1>1, <1>7, <1>8, <2>1, FrontPath, PrefixOrder
  <2>3. ASSUME Front(d) = job.dest
        PROVE  FALSE
    BY <1>7, <1>8, <2>2, <2>3, FrontPath, PrefixOrder
  <2> QED BY <1>8, <2>1, <2>3, SourceFacts
<1> HIDE DEF w, d
<1>20. Types'
  <2>1. made' \in Seq(Path) /\ member' \in Nat \ {0}
    <3>1. made \in Seq(Path) /\ member \in Nat \ {0} /\ d \in Path
      BY <1>1 DEF ExplorerInv, Types
    <3>2. Append(made, d) \in Seq(Path)
      BY <3>1, AppendProperties
    <3>3. member + 1 \in Nat \ {0}
      BY <3>1
    <3> QED BY <1>0, <1>2, <3>1, <3>2, <3>3
  <2>2. file' \in [src : Path, dst : Path, tmp : Path]
    BY <1>0, PrefixOrder DEF NoFile
  <2>3. pc' \in {"member", "source", "tree"}
    BY <1>0, <1>2
  <2> QED BY <1>0, <1>1, <2>1, <2>2, <2>3 DEF ExplorerInv, Types, Siblings, Steps
<1>21. CardInv'
  <2>1. UserFilesKept'
    BY <1>0, <1>2, <1>3, <1>4 DEF UserFilesKept, Paths
  <2>2. fs[w] # "torn"
    BY <1>2, <1>3, <1>7
  <2>3. \A p \in DOMAIN fs' : fs'[p] # "torn"
    BY <1>4, <2>2 DEF ExplorerInv, CardInv, Paths, w
  <2> QED BY <1>0, <1>5, <2>1, <2>3 DEF ExplorerInv, CardInv, Paths
<1>22. HandInv'
  <2>1. pc' \in {"member", "source", "tree"}
    BY <1>0, <1>2
  <2> QED BY <1>0, <1>1, <1>2, <2>1 DEF ExplorerInv, HandInv, Writing
<1>23. TempInv'
  BY <1>0 DEF TempInv
<1>24. SourcesInv'
  BY <1>0, <1>2 DEF ExplorerInv, SourcesInv, Writing, Target
<1>25. TargetInv'
  <2> SUFFICES ASSUME job.op = "copy"
               PROVE  TargetInv'
    BY <1>0, <1>2 DEF TargetInv
  <2>1. ASSUME NEW x \in New'
        PROVE  (staging # <<>> /\ IsPrefix(staging, x)) \/ \E r \in job.sources : IsPrefix(Target(r), x)
    <3>1. CASE x = d
      <4>1. IsPrefix(d, d)
        BY <1>1, PrefixOrder
      <4> QED BY <1>7, <1>8, <3>1, <4>1
    <3>2. CASE x # d
      BY <1>0, <1>4, <2>1, <3>2 DEF ExplorerInv, TargetInv, New, Paths, w
    <3> QED BY <3>1, <3>2
  <2>2. ASSUME NEW r \in job.sources, Target(r) \in New' \ {staging}
        PROVE  Whole(r)'
    <3>1. CASE Target(r) = d
      <4>1. staging = <<>> /\ r = at
        BY <1>7, <1>8, <3>1, SourceFacts
      <4>2. \A q \in Under(before, at) : q = at
        BY <1>3, <1>7, <4>1, TreeFacts DEF Under
      <4>3. Moved(at, at, d) = d
        BY <1>1, <1>7, MovedPath, PrefixOrder
      <4>4. fs'[d] = before[at] /\ d \in DOMAIN fs'
        BY <1>4, <1>7, <4>1
      <4> QED BY <1>0, <3>1, <4>1, <4>2, <4>3, <4>4 DEF Whole, Target, Paths, Under
    <3>2. CASE Target(r) # d
      <4>1. Target(r) \in New \ {file.tmp, staging}
        BY <1>0, <1>4, <2>2, <3>2 DEF New, Paths, w
      <4> QED BY <1>0, <1>4, <4>1, WholeKept DEF w
    <3> QED BY <3>1, <3>2
  <2>3. /\ \A r \in job.sources \ left : r = at \/ Target(r) \in DOMAIN fs \ {w, staging}
        /\ made = <<>> /\ dirs = {}
    BY <1>0 DEF ExplorerInv, TargetInv, InHand, Paths, w
  <2>4. \A r \in job.sources \ left :
           /\ Target(r) # <<>>
           /\ (r = at /\ staging # <<>>) \/ Target(r) \in DOMAIN fs' \ {staging}
    <3>1. \A r \in job.sources : Target(r) # <<>>
      BY SourceFacts
    <3>2. staging = <<>> => Target(at) \in DOMAIN fs'
      BY <1>4, <1>7
    <3> QED BY <1>4, <2>3, <3>1, <3>2
  <2>5. result # "ok" /\ job.op # "zip"
    BY <1>1
  <2> QED BY <1>0, <1>7, <2>1, <2>2, <2>3, <2>4, <2>5 DEF TargetInv, Target, Paths, InHand, Writing
<1>26. CopyInv'
  <2> SUFFICES ASSUME job.op = "copy"
               PROVE  CopyInv'
    BY <1>0 DEF CopyInv
  <2>1. ASSUME staging # <<>>
        PROVE  /\ staging \in New' /\ fs'[staging] = "dir" /\ Front(staging) = job.dest
               /\ Last(staging) \in Range(Temps) /\ before[at] = "dir" /\ todo \subseteq Under(before, at) \ {at}
    BY <1>0, <1>2, <1>4, <1>7, <2>1 DEF ExplorerInv, CopyInv, New, Paths
  <2>2. ASSUME staging # <<>>, NEW q \in Under(before, at) \ todo
        PROVE  LET t == Moved(q, at, staging) IN t \in DOMAIN fs' /\ t # <<>> /\ fs'[t] = before[q]
    <3>1. CASE q = file.src
      BY <1>1, <1>4, <1>7, <2>2, <3>1
    <3>2. CASE q # file.src
      <4>1. LET t == Moved(q, at, staging) IN t \in DOMAIN fs /\ t # w /\ fs[t] = before[q]
        BY <1>0, <2>2, <3>2 DEF ExplorerInv, CopyInv, Paths, w
      <4> QED BY <1>3, <1>4, <4>1
    <3> QED BY <3>1, <3>2
  <2>3. pc' = (IF staging = <<>> THEN "source" ELSE "tree")
    BY <1>0
  <2> QED BY <1>0, <2>1, <2>2, <2>3 DEF CopyInv, Paths, Under, Writing
<1>27. MoveInv'
  BY <1>0, <1>2 DEF MoveInv
<1>28. DeleteInv'
  BY <1>0, <1>2 DEF DeleteInv
<1>29. ZipInv'
  <2> SUFFICES ASSUME job.op = "zip"
               PROVE  ZipInv'
    BY <1>0 DEF ZipInv
  <2>0. /\ made \in Seq(Path) /\ DOMAIN made' = DOMAIN made \cup {Len(made) + 1} /\ Len(made) + 1 \notin DOMAIN made
        /\ made'[Len(made) + 1] = d /\ \A k \in DOMAIN made : made'[k] = made[k]
    <3>1. made \in Seq(Path) /\ Len(made) \in Nat /\ DOMAIN made = 1 .. Len(made)
      BY DEF ExplorerInv, Types
    <3> QED BY <1>0, <1>1, <3>1, AppendProperties
  <2>1. Range(made') = Range(made) \cup {d}
    BY <2>0 DEF Range
  <2>2. New' \subseteq Range(made') \cup dirs
    BY <1>0, <1>1, <1>4, <2>1 DEF ExplorerInv, ZipInv, New, Paths, w
  <2>3. \A k \in DOMAIN made : made[k] \in DOMAIN fs \ ({w} \cup DOMAIN before) /\ fs[made[k]] = "member"
    BY <1>0, <1>1 DEF ExplorerInv, ZipInv, New, Paths, w
  <2>4. \A k \in DOMAIN made' : made'[k] \in DOMAIN fs' \ DOMAIN before /\ made'[k] # <<>> /\ fs'[made'[k]] = "member"
    BY <1>1, <1>2, <1>3, <1>4, <1>6, <2>0, <2>3
  <2>5. \A k, l \in DOMAIN made' : made'[k] = made'[l] => k = l
    <3>1. \A k, l \in DOMAIN made : made[k] = made[l] => k = l
      BY DEF ExplorerInv, ZipInv
    <3> QED BY <1>0, <2>0, <2>3, <3>1
  <2>6. \A x \in dirs : x \in DOMAIN fs' /\ fs'[x] = "dir"
    <3>1. \A x \in dirs : x \in DOMAIN fs /\ fs[x] = "dir"
      BY <1>0 DEF ExplorerInv, ZipInv, Paths
    <3> QED BY <1>2, <1>4, <3>1
  <2>7. \A i \in DOMAIN Members : i < member' => MemberTarget(Members[i]) \in DOMAIN fs' /\ MemberTarget(Members[i]) # <<>>
    <3>1. \A i \in DOMAIN Members : i < member => MemberTarget(Members[i]) \in DOMAIN fs \ {w}
      BY <1>0 DEF ExplorerInv, ZipInv, Paths, w
    <3>2. MemberTarget(Members[member]) = d /\ member \in Nat
      BY <1>0 DEF ExplorerInv, ZipInv, Types, d
    <3>3. \A i \in DOMAIN Members : i \in Nat
      BY ExplorerAssumption, LenProperties
    <3> QED BY <1>0, <1>1, <1>3, <1>4, <3>1, <3>2, <3>3
  <2>8. staging = <<>> /\ dirs \cap DOMAIN before = {}
    BY DEF ExplorerInv, ZipInv
  <2> QED BY <1>0, <1>1, <2>2, <2>4, <2>5, <2>6, <2>7, <2>8 DEF ZipInv, MemberTarget, New, Paths, Writing
<1>30. PageInv'
  <2>1. busy /\ busy'
    BY <1>0, <1>1
  <2> QED BY <1>0, <2>1 DEF ExplorerInv, PageInv
<1> QED BY <1>20, <1>21, <1>22, <1>23, <1>24, <1>25, <1>26, <1>27, <1>28, <1>29, <1>30 DEF ExplorerInv

-----------------------------------------------------------------------------
(* The extraction of a member *)

MemberFolder == LET m == Members[member] IN IF m.dir THEN MemberTarget(m) ELSE Front(MemberTarget(m))
Blocked(folder) == \E q \in Paths : IsPrefix(q, folder) /\ fs[q] # "dir"

\* The member in hand, and the folder it needs.
LEMMA MemberFacts ==
    ASSUME ExplorerInv, pc = "member", member <= Len(Members)
    PROVE  /\ member \in DOMAIN Members /\ job.op = "zip" /\ busy /\ result = "none" /\ file = NoFile /\ file.tmp = <<>>
           /\ MemberFolder \in Path /\ IsPrefix(job.dest, MemberFolder) /\ job.dest \in Path
           /\ MemberTarget(Members[member]) \in Path /\ MemberTarget(Members[member]) # <<>>
           /\ MemberTarget(Members[member]) # job.dest
           /\ (\A d \in DOMAIN before : d \in DOMAIN fs) /\ (\A d \in DOMAIN fs : d # <<>>)
           /\ Missing(MemberFolder) \subseteq Path /\ Missing(MemberFolder) \cap DOMAIN fs = {}
<1>1. job.op = "zip" /\ busy /\ result = "none" /\ file = NoFile /\ file.tmp = <<>> /\ job.dest \in Path /\ member \in Nat \ {0}
  <2>1. job.op = "zip" /\ busy /\ result = "none" /\ file = NoFile /\ job.dest \in Path /\ member \in Nat \ {0}
    BY DEF ExplorerInv, Types, HandInv, Writing
  <2> QED BY <2>1 DEF NoFile
<1>2. member \in DOMAIN Members
  <2>1. Len(Members) \in Nat /\ DOMAIN Members = 1 .. Len(Members)
    BY ExplorerAssumption, LenProperties
  <2> QED BY <1>1, <2>1
<1> DEFINE t == MemberTarget(Members[member])
<1>3. t \in Path /\ t # <<>> /\ t # job.dest /\ IsPrefix(job.dest, t) /\ IsPrefix(job.dest, Front(t))
  BY <1>1, <1>2, MemberPath
<1>4. MemberFolder \in Path /\ IsPrefix(job.dest, MemberFolder)
  BY <1>3, FrontPath DEF MemberFolder
<1>5. Missing(MemberFolder) \subseteq Path /\ Missing(MemberFolder) \cap DOMAIN fs = {}
  BY <1>1, <1>4, MissingPaths DEF Paths
<1> QED BY <1>1, <1>2, <1>3, <1>4, <1>5, BeforeKept, TreeFacts

\* Some of the missing directories are made, the outer ones first.
LEMMA MakeDirs ==
    ASSUME ExplorerInv, job.op = "zip", busy, NEW folder \in Path, IsPrefix(job.dest, folder), NEW D, NEW g,
           D \subseteq Missing(folder), D # {} => ~Blocked(folder),
           \A d \in D, q \in Missing(folder) : Len(q) <= Len(d) => q \in D,
           DOMAIN g = DOMAIN fs \cup D, \A q \in DOMAIN fs : g[q] = fs[q], \A d \in D : g[d] = "dir"
    PROVE  Tree(g)
<1>1. /\ Tree(fs) /\ job.dest \in Path /\ IsFolder(fs, job.dest)
  BY BeforeKept
<1>2. \A d \in D : d \in Path /\ IsPrefix(d, folder) /\ Len(d) > Len(job.dest) /\ d # <<>>
  BY <1>1, MissingPaths, PrefixOrder
<1>3. ASSUME NEW d \in D, NEW q \in Path, q # <<>>, IsPrefix(q, d)
      PROVE  q \in D \/ (q \in DOMAIN fs /\ fs[q] = "dir")
  <2>1. IsPrefix(q, folder) /\ Len(q) <= Len(d)
    BY <1>2, <1>3, PrefixOrder
  <2>2. CASE q \in DOMAIN fs
    BY <1>3, <2>1, <2>2 DEF Blocked, Paths
  <2>3. CASE q \notin DOMAIN fs /\ Len(q) > Len(job.dest)
    BY <1>1, <1>3, <2>1, <2>3, MissingPaths DEF Paths
  <2>4. CASE Len(q) <= Len(job.dest)
    <3>1. IsPrefix(q, job.dest)
      BY <1>1, <1>3, <2>1, <2>4, PrefixOrder
    <3> QED BY <1>1, <1>3, <3>1, FolderUp
  <2>5. Len(q) \in Nat /\ Len(job.dest) \in Nat
    BY <1>1, <1>3, PrefixOrder
  <2> QED BY <2>2, <2>3, <2>4, <2>5
<1>4. D \in SUBSET Path
  BY <1>2
<1> QED BY <1>1, <1>2, <1>3, <1>4, AddDirs

\* A directory above the member cannot be made: some of those outside of it were.
LEMMA MemberFailStep ==
    ASSUME ExplorerInv, pc = "member", member <= Len(Members), UNCHANGED <<jobVars, cancel>>, UNCHANGED page, NEW n \in 0 .. Len(MemberFolder), NEW D,
           D = {q \in Missing(MemberFolder) : Len(q) <= n /\ ~Blocked(MemberFolder)},
           fs' = [q \in Paths \cup D |-> IF q \in D THEN "dir" ELSE fs[q]],
           Goto("unwind"), UNCHANGED <<member, file>>,
           dirs' = dirs \cup Missing(MemberFolder), UNCHANGED <<left, todo, at, staging, made, result>>
    PROVE  ExplorerInv'
<1>0. /\ UNCHANGED <<before, job, cancel, left, todo, at, member, file, staging, made, result, panes, clipboard, cut, busy, ops>>
      /\ pc = "member" /\ pc' = "unwind"
  BY DEF Goto, jobVars, walk, undo, page, NoFile
<1>1. /\ member \in DOMAIN Members /\ job.op = "zip" /\ busy /\ result = "none" /\ file = NoFile /\ file.tmp = <<>>
      /\ MemberFolder \in Path /\ IsPrefix(job.dest, MemberFolder) /\ job.dest \in Path
      /\ MemberTarget(Members[member]) \in Path /\ MemberTarget(Members[member]) # <<>>
      /\ MemberTarget(Members[member]) # job.dest
      /\ (\A d \in DOMAIN before : d \in DOMAIN fs) /\ (\A d \in DOMAIN fs : d # <<>>)
      /\ Missing(MemberFolder) \subseteq Path /\ Missing(MemberFolder) \cap DOMAIN fs = {}
  BY MemberFacts
<1>2. /\ DOMAIN fs' = DOMAIN fs \cup D /\ (\A q \in DOMAIN fs : fs'[q] = fs[q]) /\ (\A d \in D : fs'[d] = "dir")
      /\ D \subseteq Missing(MemberFolder) /\ dirs' = dirs \cup Missing(MemberFolder)
  BY <1>1 DEF Paths
<1>3. Tree(fs')
  <2>1. D # {} => ~Blocked(MemberFolder)
    OBVIOUS
  <2>2. \A d \in D, q \in Missing(MemberFolder) : Len(q) <= Len(d) => q \in D
    <3>1. \A q \in Missing(MemberFolder) : Len(q) \in Nat
      BY <1>1, PrefixOrder
    <3>2. n \in Nat
      BY <1>1, PrefixOrder
    <3> QED BY <1>2, <3>1, <3>2
  <2>3. job.op = "zip" /\ busy /\ MemberFolder \in Path /\ IsPrefix(job.dest, MemberFolder)
    BY <1>1
  <2> QED BY <1>2, <2>1, <2>2, <2>3, MakeDirs
<1>20. Types'
  BY <1>0, <1>1, <1>2 DEF ExplorerInv, Types, Steps, Siblings, Writing
<1>21. CardInv'
  <2>1. UserFilesKept'
    BY <1>0, <1>1, <1>2 DEF ExplorerInv, CardInv, UserFilesKept, Paths
  <2>2. \A p \in DOMAIN fs' : fs'[p] # "torn"
    BY <1>1, <1>2, TreeFacts DEF ExplorerInv, CardInv, Paths, NoFile
  <2> QED BY <1>0, <1>3, <2>1, <2>2 DEF ExplorerInv, CardInv, Paths
<1>22. HandInv'
  BY <1>0, <1>1, <1>2 DEF ExplorerInv, HandInv, Types, Writing, IsFolder, NoFile, NoJob, Paths
<1>23. TempInv'
  BY <1>0, <1>1, <1>2 DEF ExplorerInv, TempInv, Types, HandInv, New, Paths
<1>24. SourcesInv'
  BY <1>0, <1>1 DEF SourcesInv
<1>25. TargetInv'
  BY <1>0, <1>1 DEF TargetInv
<1>26. CopyInv'
  BY <1>0, <1>1 DEF CopyInv
<1>27. MoveInv'
  BY <1>0, <1>1 DEF MoveInv
<1>28. DeleteInv'
  BY <1>0, <1>1 DEF DeleteInv
<1>29. ZipInv'
  <2>1. New' \subseteq Range(made) \cup dirs'
    BY <1>0, <1>1, <1>2 DEF ExplorerInv, ZipInv, New, Paths
  <2>2. \A k \in DOMAIN made :
           /\ made[k] \in DOMAIN fs' \ DOMAIN before /\ fs'[made[k]] = "member" /\ made[k] # <<>>
           /\ \A l \in DOMAIN made : made[k] = made[l] => k = l
    BY <1>1, <1>2 DEF ExplorerInv, ZipInv, New, Paths
  <2>3. dirs' \cap DOMAIN before = {} /\ staging = <<>>
    BY <1>1, <1>2 DEF ExplorerInv, ZipInv
  <2>4. \A d \in dirs' \cap DOMAIN fs' : fs'[d] = "dir"
    BY <1>1, <1>2 DEF ExplorerInv, ZipInv, Paths
  <2>9. /\ result' = "none" /\ file'.tmp = <<>> /\ made' = made /\ staging' = staging /\ before' = before
        /\ pc' = "unwind"
    BY <1>0, <1>1
  <2>11. pc' \notin Writing /\ pc' # "member" /\ result' # "ok"
    BY <2>9 DEF Writing
  <2>12. (\A k \in DOMAIN made :
              /\ made[k] \in New \ {file.tmp} /\ fs[made[k]] = "member"
              /\ \A l \in DOMAIN made : made[k] = made[l] => k = l)'
    BY <2>2, <2>9 DEF New, Paths
  <2>13. (staging = <<>> /\ New \subseteq {file.tmp} \cup Range(made) \cup dirs /\ dirs \cap DOMAIN before = {})'
    BY <2>1, <2>3, <2>9
  <2>14. (\A d \in dirs \cap Paths : fs[d] = "dir")'
    BY <2>4 DEF Paths
  <2> QED BY <2>11, <2>12, <2>13, <2>14, <2>9 DEF ZipInv
<1>30. PageInv'
  BY <1>0, <1>1 DEF ExplorerInv, PageInv
<1> QED BY <1>20, <1>21, <1>22, <1>23, <1>24, <1>25, <1>26, <1>27, <1>28, <1>29, <1>30 DEF ExplorerInv

\* A member that is a directory is made with those above it.
LEMMA MemberDirStep ==
    ASSUME ExplorerInv, pc = "member", member <= Len(Members), UNCHANGED <<jobVars, cancel>>, UNCHANGED page, ~Blocked(MemberFolder),
           fs' = [q \in Paths \cup Missing(MemberFolder) |-> IF q \in Paths THEN fs[q] ELSE "dir"], Members[member].dir, member' = member + 1, UNCHANGED <<pc, file>>,
           dirs' = dirs \cup Missing(MemberFolder), UNCHANGED <<left, todo, at, staging, made, result>>
    PROVE  ExplorerInv'
<1> DEFINE D == Missing(MemberFolder)
<1>0. /\ UNCHANGED <<before, job, cancel, left, todo, at, file, staging, made, result, panes, clipboard, cut, busy, ops, pc>>
      /\ pc = "member" /\ member' = member + 1
  BY DEF Goto, jobVars, walk, undo, page, NoFile
<1>1. /\ member \in DOMAIN Members /\ job.op = "zip" /\ busy /\ result = "none" /\ file = NoFile /\ file.tmp = <<>>
      /\ MemberFolder \in Path /\ IsPrefix(job.dest, MemberFolder) /\ job.dest \in Path
      /\ MemberTarget(Members[member]) \in Path /\ MemberTarget(Members[member]) # <<>>
      /\ MemberTarget(Members[member]) # job.dest
      /\ (\A d \in DOMAIN before : d \in DOMAIN fs) /\ (\A d \in DOMAIN fs : d # <<>>)
      /\ Missing(MemberFolder) \subseteq Path /\ Missing(MemberFolder) \cap DOMAIN fs = {}
  BY MemberFacts
<1>2. /\ DOMAIN fs' = DOMAIN fs \cup D /\ (\A q \in DOMAIN fs : fs'[q] = fs[q]) /\ (\A d \in D : fs'[d] = "dir")
      /\ D \subseteq Missing(MemberFolder) /\ dirs' = dirs \cup Missing(MemberFolder)
  BY <1>1 DEF Paths
<1>3. Tree(fs')
  <2>1. D # {} => ~Blocked(MemberFolder)
    OBVIOUS
  <2>2. \A d \in D, q \in Missing(MemberFolder) : Len(q) <= Len(d) => q \in D
    OBVIOUS
  <2> HIDE DEF D
  <2>3. job.op = "zip" /\ busy /\ MemberFolder \in Path /\ IsPrefix(job.dest, MemberFolder)
    BY <1>1
  <2> QED BY <1>2, <2>1, <2>2, <2>3, MakeDirs
<1> HIDE DEF D
<1>4. MemberFolder = job.dest \/ MemberFolder \in DOMAIN fs'
  <2>1. MemberFolder # job.dest => Len(MemberFolder) > Len(job.dest)
    BY <1>1, PrefixOrder
  <2>2. IsPrefix(MemberFolder, MemberFolder)
    BY <1>1, PrefixOrder
  <2> QED BY <1>1, <1>2, <2>1, <2>2, MissingPaths DEF D, Paths
<1>5. \A i \in DOMAIN Members : i \in Nat
  BY ExplorerAssumption, LenProperties
<1>20. Types'
  BY <1>0, <1>1, <1>2 DEF ExplorerInv, Types, Steps, Siblings, Writing
<1>21. CardInv'
  <2>1. UserFilesKept'
    BY <1>0, <1>1, <1>2 DEF ExplorerInv, CardInv, UserFilesKept, Paths
  <2>2. \A p \in DOMAIN fs' : fs'[p] # "torn"
    BY <1>1, <1>2, TreeFacts DEF ExplorerInv, CardInv, Paths, NoFile
  <2> QED BY <1>0, <1>3, <2>1, <2>2 DEF ExplorerInv, CardInv, Paths
<1>22. HandInv'
  BY <1>0, <1>1, <1>2 DEF ExplorerInv, HandInv, Types, Writing, IsFolder, NoFile, NoJob, Paths
<1>23. TempInv'
  BY <1>0, <1>1, <1>2 DEF ExplorerInv, TempInv, Types, HandInv, New, Paths
<1>24. SourcesInv'
  BY <1>0, <1>1 DEF SourcesInv
<1>25. TargetInv'
  BY <1>0, <1>1 DEF TargetInv
<1>26. CopyInv'
  BY <1>0, <1>1 DEF CopyInv
<1>27. MoveInv'
  BY <1>0, <1>1 DEF MoveInv
<1>28. DeleteInv'
  BY <1>0, <1>1 DEF DeleteInv
<1>29. ZipInv'
  <2>1. New' \subseteq Range(made) \cup dirs'
    BY <1>0, <1>1, <1>2 DEF ExplorerInv, ZipInv, New, Paths
  <2>2. \A k \in DOMAIN made :
           /\ made[k] \in DOMAIN fs' \ DOMAIN before /\ fs'[made[k]] = "member" /\ made[k] # <<>>
           /\ \A l \in DOMAIN made : made[k] = made[l] => k = l
    BY <1>1, <1>2 DEF ExplorerInv, ZipInv, New, Paths
  <2>3. dirs' \cap DOMAIN before = {} /\ staging = <<>>
    BY <1>1, <1>2 DEF ExplorerInv, ZipInv
  <2>4. \A d \in dirs' \cap DOMAIN fs' : fs'[d] = "dir"
    BY <1>1, <1>2 DEF ExplorerInv, ZipInv, Paths
  <2>5. dirs' \subseteq DOMAIN fs'
    BY <1>0, <1>1, <1>2 DEF ExplorerInv, ZipInv, Paths, D
  <2>6. \A i \in DOMAIN Members : i < member => MemberTarget(Members[i]) \in DOMAIN fs' /\ MemberTarget(Members[i]) # <<>>
    BY <1>0, <1>1, <1>2, MemberPath DEF ExplorerInv, ZipInv, Paths
  <2>7. MemberTarget(Members[member]) \in DOMAIN fs'
    BY <1>1, <1>4 DEF MemberFolder
  <2>8. \A i \in DOMAIN Members : i < member + 1 => MemberTarget(Members[i]) \in DOMAIN fs' /\ MemberTarget(Members[i]) # <<>>
    <3>1. member \in Nat
      BY DEF ExplorerInv, Types
    <3> QED BY <1>1, <1>5, <2>6, <2>7, <3>1
  <2>9. /\ result' = "none" /\ file'.tmp = <<>> /\ made' = made /\ staging' = staging /\ before' = before
        /\ job' = job /\ pc' = "member" /\ member' = member + 1
    BY <1>0, <1>1
  <2>10. (\A i \in DOMAIN Members : i < member => MemberTarget(Members[i]) \in Paths \ {file.tmp})'
    BY <2>8, <2>9 DEF MemberTarget, Paths
  <2>11. pc' \notin Writing /\ result' # "ok"
    BY <2>9 DEF Writing
  <2>12. (\A k \in DOMAIN made :
              /\ made[k] \in New \ {file.tmp} /\ fs[made[k]] = "member"
              /\ \A l \in DOMAIN made : made[k] = made[l] => k = l)'
    BY <2>2, <2>9 DEF New, Paths
  <2>13. (staging = <<>> /\ New \subseteq {file.tmp} \cup Range(made) \cup dirs /\ dirs \cap DOMAIN before = {})'
    BY <2>1, <2>3, <2>9
  <2>14. (dirs \subseteq Paths /\ \A d \in dirs \cap Paths : fs[d] = "dir")'
    BY <2>4, <2>5 DEF Paths
  <2> QED BY <2>10, <2>11, <2>12, <2>13, <2>14 DEF ZipInv
<1>30. PageInv'
  BY <1>0, <1>1 DEF ExplorerInv, PageInv
<1> QED BY <1>20, <1>21, <1>22, <1>23, <1>24, <1>25, <1>26, <1>27, <1>28, <1>29, <1>30 DEF ExplorerInv

\* The directories above a member that is a file are there: the file is next.
LEMMA MemberFileStep ==
    ASSUME ExplorerInv, pc = "member", member <= Len(Members), UNCHANGED <<jobVars, cancel>>, UNCHANGED page, ~Blocked(MemberFolder),
           fs' = [q \in Paths \cup Missing(MemberFolder) |-> IF q \in Paths THEN fs[q] ELSE "dir"], ~Members[member].dir,
           file' = [src |-> <<>>, dst |-> MemberTarget(Members[member]), tmp |-> <<>>], Goto("file"), UNCHANGED member,
           dirs' = dirs \cup Missing(MemberFolder), UNCHANGED <<left, todo, at, staging, made, result>>
    PROVE  ExplorerInv'
<1> DEFINE D == Missing(MemberFolder)
<1>0. /\ UNCHANGED <<before, job, cancel, left, todo, at, member, staging, made, result, panes, clipboard, cut, busy, ops>>
      /\ pc = "member" /\ pc' = "file" /\ ~Members[member].dir
      /\ file'.tmp = <<>> /\ file'.dst = MemberTarget(Members[member])
  BY DEF Goto, jobVars, walk, undo, page, NoFile
<1>1. /\ member \in DOMAIN Members /\ job.op = "zip" /\ busy /\ result = "none" /\ file = NoFile /\ file.tmp = <<>>
      /\ MemberFolder \in Path /\ IsPrefix(job.dest, MemberFolder) /\ job.dest \in Path
      /\ MemberTarget(Members[member]) \in Path /\ MemberTarget(Members[member]) # <<>>
      /\ MemberTarget(Members[member]) # job.dest
      /\ (\A d \in DOMAIN before : d \in DOMAIN fs) /\ (\A d \in DOMAIN fs : d # <<>>)
      /\ Missing(MemberFolder) \subseteq Path /\ Missing(MemberFolder) \cap DOMAIN fs = {}
  BY MemberFacts
<1>2. /\ DOMAIN fs' = DOMAIN fs \cup D /\ (\A q \in DOMAIN fs : fs'[q] = fs[q]) /\ (\A d \in D : fs'[d] = "dir")
      /\ D \subseteq Missing(MemberFolder) /\ dirs' = dirs \cup Missing(MemberFolder)
  BY <1>1 DEF Paths
<1>3. Tree(fs')
  <2>1. D # {} => ~Blocked(MemberFolder)
    OBVIOUS
  <2>2. \A d \in D, q \in Missing(MemberFolder) : Len(q) <= Len(d) => q \in D
    OBVIOUS
  <2> HIDE DEF D
  <2>3. job.op = "zip" /\ busy /\ MemberFolder \in Path /\ IsPrefix(job.dest, MemberFolder)
    BY <1>1
  <2> QED BY <1>2, <2>1, <2>2, <2>3, MakeDirs
<1> HIDE DEF D
<1>4. MemberFolder = job.dest \/ MemberFolder \in DOMAIN fs'
  <2>1. MemberFolder # job.dest => Len(MemberFolder) > Len(job.dest)
    BY <1>1, PrefixOrder
  <2>2. IsPrefix(MemberFolder, MemberFolder)
    BY <1>1, PrefixOrder
  <2> QED BY <1>1, <1>2, <2>1, <2>2, MissingPaths DEF D, Paths
<1>5. \A i \in DOMAIN Members : i \in Nat
  BY ExplorerAssumption, LenProperties
<1>20. Types'
  <2>1. file' \in [src : Path, dst : Path, tmp : Path]
    BY <1>1, PrefixOrder
  <2> QED BY <1>0, <1>1, <1>2, <2>1 DEF ExplorerInv, Types, Steps, Siblings
<1>21. CardInv'
  <2>1. UserFilesKept'
    BY <1>0, <1>1, <1>2 DEF ExplorerInv, CardInv, UserFilesKept, Paths
  <2>2. \A p \in DOMAIN fs' : fs'[p] # "torn"
    BY <1>1, <1>2, TreeFacts DEF ExplorerInv, CardInv, Paths, NoFile
  <2> QED BY <1>0, <1>3, <2>1, <2>2 DEF ExplorerInv, CardInv, Paths
<1>22. HandInv'
  BY <1>0, <1>1, <1>2 DEF ExplorerInv, HandInv, Types, Writing, IsFolder, NoFile, NoJob, Paths
<1>23. TempInv'
  BY <1>0, <1>1, <1>2 DEF ExplorerInv, TempInv, Types, HandInv, New, Paths
<1>24. SourcesInv'
  BY <1>0, <1>1 DEF SourcesInv
<1>25. TargetInv'
  BY <1>0, <1>1 DEF TargetInv
<1>26. CopyInv'
  BY <1>0, <1>1 DEF CopyInv
<1>27. MoveInv'
  BY <1>0, <1>1 DEF MoveInv
<1>28. DeleteInv'
  BY <1>0, <1>1 DEF DeleteInv
<1>29. ZipInv'
  <2>1. New' \subseteq Range(made) \cup dirs'
    BY <1>0, <1>1, <1>2 DEF ExplorerInv, ZipInv, New, Paths
  <2>2. \A k \in DOMAIN made :
           /\ made[k] \in DOMAIN fs' \ DOMAIN before /\ fs'[made[k]] = "member" /\ made[k] # <<>>
           /\ \A l \in DOMAIN made : made[k] = made[l] => k = l
    BY <1>1, <1>2 DEF ExplorerInv, ZipInv, New, Paths
  <2>3. dirs' \cap DOMAIN before = {} /\ staging = <<>>
    BY <1>1, <1>2 DEF ExplorerInv, ZipInv
  <2>4. \A d \in dirs' \cap DOMAIN fs' : fs'[d] = "dir"
    BY <1>1, <1>2 DEF ExplorerInv, ZipInv, Paths
  <2>5. dirs' \subseteq DOMAIN fs'
    BY <1>0, <1>1, <1>2 DEF ExplorerInv, ZipInv, Paths, D
  <2>6. \A i \in DOMAIN Members : i < member => MemberTarget(Members[i]) \in DOMAIN fs' /\ MemberTarget(Members[i]) # <<>>
    BY <1>0, <1>1, <1>2, MemberPath DEF ExplorerInv, ZipInv, Paths
  <2>7. IsFolder(fs', Front(MemberTarget(Members[member])))
    <3>1. MemberFolder = Front(MemberTarget(Members[member])) /\ IsFolder(fs, job.dest)
      BY <1>1, BeforeKept DEF MemberFolder
    <3>2. IsPrefix(MemberFolder, MemberFolder)
      BY <1>1, PrefixOrder
    <3>3. ~Blocked(MemberFolder)
      OBVIOUS
    <3> QED BY <1>2, <1>4, <3>1, <3>2, <3>3 DEF IsFolder, Blocked, Paths
  <2>9. /\ result' = "none" /\ file'.tmp = <<>> /\ made' = made /\ staging' = staging /\ before' = before
        /\ job' = job /\ pc' = "file" /\ member' = member /\ member \in DOMAIN Members /\ ~Members[member].dir
        /\ file'.dst = MemberTarget(Members[member])
    BY <1>0, <1>1
  <2>10. (\A i \in DOMAIN Members : i < member => MemberTarget(Members[i]) \in Paths \ {file.tmp})'
    BY <2>6, <2>9 DEF MemberTarget, Paths
  <2>11. (member \in DOMAIN Members /\ ~Members[member].dir /\ file.dst = MemberTarget(Members[member]) /\ IsFolder(fs, Front(file.dst)))'
    BY <2>7, <2>9 DEF MemberTarget
  <2>12. (\A k \in DOMAIN made :
              /\ made[k] \in New \ {file.tmp} /\ fs[made[k]] = "member"
              /\ \A l \in DOMAIN made : made[k] = made[l] => k = l)'
    BY <2>2, <2>9 DEF New, Paths
  <2>13. (staging = <<>> /\ New \subseteq {file.tmp} \cup Range(made) \cup dirs /\ dirs \cap DOMAIN before = {})'
    BY <2>1, <2>3, <2>9
  <2>14. (dirs \subseteq Paths /\ \A d \in dirs \cap Paths : fs[d] = "dir")'
    BY <2>4, <2>5 DEF Paths
  <2> QED BY <2>9, <2>10, <2>11, <2>12, <2>13, <2>14 DEF ZipInv
<1>30. PageInv'
  BY <1>0, <1>1 DEF ExplorerInv, PageInv
<1> QED BY <1>20, <1>21, <1>22, <1>23, <1>24, <1>25, <1>26, <1>27, <1>28, <1>29, <1>30 DEF ExplorerInv

-----------------------------------------------------------------------------
(* The clean-up of a job that failed *)

\* The temporary file is removed.
LEMMA UnwindTempStep ==
    ASSUME ExplorerInv, pc = "unwind", UNCHANGED <<jobVars, cancel>>, UNCHANGED page, file.tmp # <<>>, fs' = Without(fs, {file.tmp}), file' = NoFile,
           UNCHANGED <<pc, walk, staging, undo, result>>
    PROVE  ExplorerInv'
<1> DEFINE w == file.tmp
<1>0. /\ UNCHANGED <<before, job, cancel, left, todo, at, member, staging, made, dirs, result, panes, clipboard, cut, busy, ops, pc>>
      /\ pc = "unwind" /\ file' = NoFile /\ file'.tmp = <<>>
  BY DEF Goto, jobVars, walk, undo, page, NoFile
<1>1. /\ w \in Path /\ w # <<>> /\ w \in DOMAIN fs /\ w \notin DOMAIN before /\ fs[w] # "dir"
      /\ job.op \in {"copy", "zip"} /\ busy /\ result = "none"
  BY <1>0 DEF ExplorerInv, TempInv, Types, New, Paths
<1>2. DOMAIN fs' = DOMAIN fs \ {w} /\ \A q \in DOMAIN fs \ {w} : fs'[q] = fs[q]
  BY WithoutCard
<1>3. /\ Tree(fs) /\ \A q \in DOMAIN before : q \in DOMAIN fs /\ fs[q] = before[q]
  BY <1>1, BeforeKept
<1>4. Tree(fs')
  BY <1>1, <1>3, WithoutFile
<1>20. Types'
  <2>1. file' \in [src : Path, dst : Path, tmp : Path]
    BY <1>0, PrefixOrder DEF NoFile
  <2> QED BY <1>0, <2>1 DEF ExplorerInv, Types, Siblings
<1>21. CardInv'
  <2>1. UserFilesKept'
    BY <1>0, <1>1, <1>2, <1>3 DEF UserFilesKept, Paths
  <2>2. \A p \in DOMAIN fs' : fs'[p] # "torn"
    BY <1>1, <1>2 DEF ExplorerInv, CardInv, Paths
  <2> QED BY <1>0, <1>4, <2>1, <2>2 DEF ExplorerInv, CardInv, Paths
<1>22. HandInv'
  BY <1>0, <1>1 DEF ExplorerInv, HandInv, Writing
<1>23. TempInv'
  BY <1>0 DEF TempInv
<1>24. SourcesInv'
  BY <1>0 DEF SourcesInv, Writing
<1>25. TargetInv'
  <2> SUFFICES ASSUME job.op = "copy"
               PROVE  TargetInv'
    BY <1>0, <1>1 DEF TargetInv
  <2>1. ASSUME NEW x \in New'
        PROVE  (staging # <<>> /\ IsPrefix(staging, x)) \/ \E r \in job.sources : IsPrefix(Target(r), x)
    BY <1>0, <1>2 DEF ExplorerInv, TargetInv, New, Paths
  <2>2. ASSUME NEW r \in job.sources, Target(r) \in New' \ {staging}
        PROVE  Whole(r)'
    <3>1. Target(r) \in New \ {file.tmp, staging}
      BY <1>0, <1>2, <2>2 DEF New, Paths
    <3> QED BY <1>0, <1>2, <3>1, WholeKept
  <2>3. made = <<>> /\ dirs = {}
    BY DEF ExplorerInv, TargetInv
  <2> QED BY <1>0, <1>1, <2>1, <2>2, <2>3 DEF TargetInv, Target, Writing
<1>26. CopyInv'
  <2> SUFFICES ASSUME job.op = "copy"
               PROVE  CopyInv'
    BY <1>0 DEF CopyInv
  <2>1. staging # <<>> => /\ staging \in DOMAIN fs' \ DOMAIN before /\ fs'[staging] = "dir"
                         /\ Front(staging) = job.dest /\ Last(staging) \in Range(Temps)
    BY <1>1, <1>2 DEF ExplorerInv, CopyInv, New, Paths
  <2> QED BY <1>0, <2>1 DEF CopyInv, New, Paths, Writing
<1>27. MoveInv'
  BY <1>0, <1>1 DEF MoveInv
<1>28. DeleteInv'
  BY <1>0, <1>1 DEF DeleteInv
<1>29. ZipInv'
  <2> SUFFICES ASSUME job.op = "zip"
               PROVE  ZipInv'
    BY <1>0 DEF ZipInv
  <2>1. New' \subseteq Range(made) \cup dirs
    BY <1>0, <1>1, <1>2 DEF ExplorerInv, ZipInv, New, Paths
  <2>2. \A k \in DOMAIN made :
           /\ made[k] \in DOMAIN fs' \ DOMAIN before /\ fs'[made[k]] = "member" /\ made[k] # <<>>
           /\ \A l \in DOMAIN made : made[k] = made[l] => k = l
    BY <1>1, <1>2, <1>3, TreeFacts DEF ExplorerInv, ZipInv, New, Paths
  <2>3. \A d \in dirs \cap DOMAIN fs' : fs'[d] = "dir"
    BY <1>2 DEF ExplorerInv, ZipInv, Paths
  <2>4. staging = <<>> /\ dirs \cap DOMAIN before = {}
    BY DEF ExplorerInv, ZipInv
  <2> QED BY <1>0, <1>1, <2>1, <2>2, <2>3, <2>4 DEF ZipInv, New, Paths, Writing
<1>30. PageInv'
  BY <1>0, <1>1 DEF ExplorerInv, PageInv
<1> QED BY <1>20, <1>21, <1>22, <1>23, <1>24, <1>25, <1>26, <1>27, <1>28, <1>29, <1>30 DEF ExplorerInv

\* The staging directory is removed.
LEMMA UnwindStagingStep ==
    ASSUME ExplorerInv, pc = "unwind", UNCHANGED <<jobVars, cancel>>, UNCHANGED page, file.tmp = <<>>, staging # <<>>, fs' = RemoveAll(fs, staging), staging' = <<>>,
           UNCHANGED <<pc, walk, file, undo, result>>
    PROVE  ExplorerInv'
<1> DEFINE u == staging
<1>0. /\ UNCHANGED <<before, job, cancel, left, todo, at, member, file, made, dirs, result, panes, clipboard, cut, busy, ops, pc>>
      /\ pc = "unwind" /\ staging' = <<>> /\ file.tmp = <<>> /\ u # <<>>
  BY DEF Goto, jobVars, walk, undo, page
<1>1. busy /\ result = "none" /\ job.op = "copy" /\ u \in Path /\ u \in DOMAIN fs /\ u \notin DOMAIN before
  <2>1. busy /\ result = "none" /\ u \in Path /\ job.op \in {"copy", "move", "delete", "zip"}
    BY <1>0 DEF ExplorerInv, Types, HandInv
  <2>2. job.op = "copy"
    BY <1>0, <2>1 DEF ExplorerInv, MoveInv, DeleteInv, ZipInv
  <2> QED BY <1>0, <2>1, <2>2 DEF ExplorerInv, CopyInv, New, Paths
<1>2. DOMAIN fs' = DOMAIN fs \ Under(fs, u) /\ \A q \in DOMAIN fs \ Under(fs, u) : fs'[q] = fs[q]
  BY WithoutCard DEF RemoveAll
<1>3. /\ Tree(fs) /\ Tree(before) /\ \A q \in DOMAIN before : q \in DOMAIN fs /\ fs[q] = before[q]
  BY <1>1, BeforeKept
<1>4. Tree(fs')
  <2>1. ASSUME NEW q \in Under(fs, u) \cap Path, NEW r \in DOMAIN fs, IsPrefix(q, r)
        PROVE  r \in Under(fs, u)
    BY <1>1, <1>3, <2>1, TreeFacts, PrefixOrder DEF Under
  <2> QED BY <1>3, <2>1, WithoutTree DEF RemoveAll
<1>5. \A q \in DOMAIN before : q \notin Under(fs, u)
  BY <1>0, <1>1, <1>3, TreeFacts DEF Under
<1>20. Types'
  BY <1>0, PrefixOrder DEF ExplorerInv, Types, Siblings
<1>21. CardInv'
  <2>1. UserFilesKept'
    BY <1>0, <1>2, <1>3, <1>5 DEF UserFilesKept, Paths
  <2>2. \A p \in DOMAIN fs' : fs'[p] = "torn" => p = file.tmp
    BY <1>2 DEF ExplorerInv, CardInv, Paths
  <2> QED BY <1>0, <1>4, <2>1, <2>2 DEF ExplorerInv, CardInv, Paths
<1>22. HandInv'
  BY <1>0, <1>1 DEF ExplorerInv, HandInv, Writing
<1>23. TempInv'
  BY <1>0 DEF TempInv
<1>24. SourcesInv'
  BY <1>0 DEF SourcesInv, Writing
<1>25. TargetInv'
  <2>1. ASSUME NEW x \in New'
        PROVE  \E r \in job.sources : IsPrefix(Target(r), x)
    BY <1>0, <1>1, <1>2, <1>3, TreeFacts DEF ExplorerInv, TargetInv, New, Paths, Under
  <2>2. ASSUME NEW r \in job.sources, Target(r) \in New'
        PROVE  Whole(r)'
    <3>1. Target(r) \in New \ {file.tmp, staging}
      BY <1>0, <1>1, <1>2, <1>3, <2>2, TreeFacts, PrefixOrder DEF New, Paths, Under
    <3> QED BY <1>0, <1>1, <1>2, <3>1, WholeKept DEF Under
  <2>3. made = <<>> /\ dirs = {}
    BY <1>1 DEF ExplorerInv, TargetInv
  <2> QED BY <1>0, <1>1, <2>1, <2>2, <2>3 DEF TargetInv, Target, Writing
<1>26. CopyInv'
  BY <1>0 DEF CopyInv, Writing
<1>27. MoveInv'
  BY <1>0, <1>1 DEF MoveInv
<1>28. DeleteInv'
  BY <1>0, <1>1 DEF DeleteInv
<1>29. ZipInv'
  BY <1>0, <1>1 DEF ZipInv
<1>30. PageInv'
  BY <1>0, <1>1 DEF ExplorerInv, PageInv
<1> QED BY <1>20, <1>21, <1>22, <1>23, <1>24, <1>25, <1>26, <1>27, <1>28, <1>29, <1>30 DEF ExplorerInv

\* The newest file the extraction made is removed.
LEMMA UnwindMadeStep ==
    ASSUME ExplorerInv, pc = "unwind", UNCHANGED <<jobVars, cancel>>, UNCHANGED page, file.tmp = <<>>, staging = <<>>, made # <<>>,
           fs' = Without(fs, {Last(made)}), made' = Front(made), UNCHANGED <<pc, walk, file, staging, dirs, result>>
    PROVE  ExplorerInv'
<1> DEFINE w == Last(made)
<1>0. /\ UNCHANGED <<before, job, cancel, left, todo, at, member, file, staging, dirs, result, panes, clipboard, cut, busy, ops, pc>>
      /\ pc = "unwind" /\ made' = Front(made) /\ file.tmp = <<>> /\ made # <<>>
  BY DEF Goto, jobVars, walk, undo, page
<1>1. busy /\ result = "none" /\ job.op = "zip" /\ made \in Seq(Path) /\ dirs \in SUBSET Path
  <2>1. /\ busy /\ result = "none" /\ job.op \in {"copy", "move", "delete", "zip"}
        /\ made \in Seq(Path) /\ dirs \in SUBSET Path
    BY <1>0 DEF ExplorerInv, Types, HandInv
  <2> QED BY <1>0, <2>1 DEF ExplorerInv, TargetInv, DeleteInv
<1>5. /\ made' \in Seq(Path) /\ Len(made) \in DOMAIN made /\ w = made[Len(made)] /\ w \in Path
      /\ DOMAIN made' = DOMAIN made \ {Len(made)} /\ \A i \in DOMAIN made' : made'[i] = made[i]
  <2>1. /\ Front(made) \in Seq(Path) /\ Len(made) \in DOMAIN made /\ w = made[Len(made)] /\ w \in Path
        /\ DOMAIN Front(made) = DOMAIN made \ {Len(made)} /\ \A i \in DOMAIN Front(made) : Front(made)[i] = made[i]
    BY <1>0, <1>1, FrontList
  <2> QED BY <1>0, <2>1
<1>6. /\ w \in DOMAIN fs /\ w \notin DOMAIN before /\ fs[w] = "member"
      /\ \A i \in DOMAIN made' : made[i] # w
  BY <1>1, <1>5 DEF ExplorerInv, ZipInv, New, Paths
<1>2. DOMAIN fs' = DOMAIN fs \ {w} /\ \A q \in DOMAIN fs \ {w} : fs'[q] = fs[q]
  BY WithoutCard
<1>3. /\ Tree(fs) /\ (\A q \in DOMAIN before : q \in DOMAIN fs /\ fs[q] = before[q]) /\ \A q \in DOMAIN fs : q # <<>>
  BY <1>1, BeforeKept, TreeFacts
<1>4. Tree(fs')
  <2>1. w # <<>> /\ fs[w] # "dir"
    BY <1>3, <1>6
  <2> QED BY <1>3, <1>5, <2>1, WithoutFile
<1>20. Types'
  BY <1>0, <1>5 DEF ExplorerInv, Types, Siblings
<1>21. CardInv'
  <2>1. UserFilesKept'
    BY <1>0, <1>2, <1>3, <1>6 DEF UserFilesKept, Paths
  <2>2. \A p \in DOMAIN fs' : fs'[p] = "torn" => p = file.tmp
    BY <1>2 DEF ExplorerInv, CardInv, Paths
  <2> QED BY <1>0, <1>4, <2>1, <2>2 DEF ExplorerInv, CardInv, Paths
<1>22. HandInv'
  BY <1>0, <1>1 DEF ExplorerInv, HandInv, Writing
<1>23. TempInv'
  BY <1>0 DEF TempInv
<1>24. SourcesInv'
  BY <1>0 DEF SourcesInv, Writing
<1>25. TargetInv'
  BY <1>0, <1>1 DEF TargetInv
<1>26. CopyInv'
  BY <1>0, <1>1 DEF CopyInv
<1>27. MoveInv'
  BY <1>0, <1>1 DEF MoveInv
<1>28. DeleteInv'
  BY <1>0, <1>1 DEF DeleteInv
<1>29. ZipInv'
  <2>1. New' \subseteq Range(made') \cup dirs
    <3>1. \A x \in Range(made) : x = w \/ x \in Range(made')
      BY <1>5 DEF Range
    <3>2. New \subseteq {<<>>} \cup Range(made) \cup dirs
      BY <1>0, <1>1 DEF ExplorerInv, ZipInv
    <3> QED BY <1>0, <1>2, <1>3, <3>1, <3>2 DEF New, Paths
  <2>2. \A k \in DOMAIN made' :
           /\ made'[k] \in DOMAIN fs' \ DOMAIN before /\ fs'[made'[k]] = "member" /\ made'[k] # <<>>
           /\ \A l \in DOMAIN made' : made'[k] = made'[l] => k = l
    <3>1. \A k \in DOMAIN made :
             /\ made[k] \in DOMAIN fs \ DOMAIN before /\ fs[made[k]] = "member"
             /\ \A l \in DOMAIN made : made[k] = made[l] => k = l
      BY <1>1 DEF ExplorerInv, ZipInv, New, Paths
    <3>2. \A k \in DOMAIN made' : made'[k] = made[k] /\ k \in DOMAIN made /\ made[k] # w
      BY <1>5, <1>6
    <3> HIDE DEF w
    <3>3. \A k \in DOMAIN made' : made[k] \in DOMAIN fs' \ DOMAIN before /\ fs'[made[k]] = "member" /\ made[k] # <<>>
      BY <1>2, <1>3, <3>1, <3>2
    <3>4. \A k, l \in DOMAIN made' : made'[k] = made'[l] => k = l
      BY <3>1, <3>2
    <3>5. \A k \in DOMAIN made' : made'[k] \in DOMAIN fs' \ DOMAIN before /\ fs'[made'[k]] = "member" /\ made'[k] # <<>>
      BY <3>2, <3>3
    <3> QED BY <3>4, <3>5
  <2>3. \A d \in dirs \cap DOMAIN fs' : fs'[d] = "dir"
    BY <1>1, <1>2 DEF ExplorerInv, ZipInv, Paths
  <2>4. staging = <<>> /\ dirs \cap DOMAIN before = {}
    BY <1>1 DEF ExplorerInv, ZipInv
  <2>9. /\ result' = "none" /\ file'.tmp = <<>> /\ staging' = staging /\ before' = before /\ dirs' = dirs /\ pc' = "unwind"
    BY <1>0, <1>1
  <2>11. pc' \notin Writing /\ pc' # "member" /\ result' # "ok"
    BY <2>9 DEF Writing
  <2>12. (\A k \in DOMAIN made :
              /\ made[k] \in New \ {file.tmp} /\ fs[made[k]] = "member"
              /\ \A l \in DOMAIN made : made[k] = made[l] => k = l)'
    BY <2>2, <2>9 DEF New, Paths
  <2>13. (staging = <<>> /\ New \subseteq {file.tmp} \cup Range(made) \cup dirs /\ dirs \cap DOMAIN before = {})'
    BY <2>1, <2>4, <2>9
  <2>14. (\A d \in dirs \cap Paths : fs[d] = "dir")'
    BY <2>3, <2>9 DEF Paths
  <2> QED BY <2>9, <2>11, <2>12, <2>13, <2>14 DEF ZipInv
<1>30. PageInv'
  BY <1>0, <1>1 DEF ExplorerInv, PageInv
<1> QED BY <1>20, <1>21, <1>22, <1>23, <1>24, <1>25, <1>26, <1>27, <1>28, <1>29, <1>30 DEF ExplorerInv

\* The innermost directory the extraction made is removed.
LEMMA UnwindDirStep ==
    ASSUME ExplorerInv, pc = "unwind", UNCHANGED <<jobVars, cancel>>, UNCHANGED page, file.tmp = <<>>, staging = <<>>, made = <<>>, NEW d \in dirs,
           \A q \in dirs \ {d} : ~IsPrefix(d, q),
           fs' = Without(fs, IF Under(fs, d) = {d} THEN {d} ELSE {}), dirs' = dirs \ {d},
           UNCHANGED <<pc, walk, file, staging, made, result>>
    PROVE  ExplorerInv'
<1>0. /\ UNCHANGED <<before, job, cancel, left, todo, at, member, file, staging, made, result, panes, clipboard, cut, busy, ops, pc>>
      /\ pc = "unwind" /\ dirs' = dirs \ {d} /\ file.tmp = <<>> /\ made = <<>> /\ dirs # {}
  BY DEF Goto, jobVars, walk, undo, page
<1>1. busy /\ result = "none" /\ job.op = "zip" /\ made \in Seq(Path) /\ dirs \in SUBSET Path
  <2>1. /\ busy /\ result = "none" /\ job.op \in {"copy", "move", "delete", "zip"}
        /\ made \in Seq(Path) /\ dirs \in SUBSET Path
    BY <1>0 DEF ExplorerInv, Types, HandInv
  <2> QED BY <1>0, <2>1 DEF ExplorerInv, TargetInv, DeleteInv
<1>3. /\ Tree(fs) /\ Tree(before) /\ (\A q \in DOMAIN before : q \in DOMAIN fs /\ fs[q] = before[q])
      /\ \A q \in DOMAIN fs : q # <<>> /\ q \in Path
  BY <1>1, BeforeKept, TreeFacts
<1>5. DOMAIN fs \ DOMAIN before \subseteq dirs /\ dirs \cap DOMAIN before = {} /\ d \in Path
  BY <1>0, <1>1, <1>3 DEF ExplorerInv, ZipInv, New, Paths, Range
<1>6. ASSUME d \in DOMAIN fs
      PROVE  Under(fs, d) = {d}
  <2>1. ASSUME NEW r \in Under(fs, d)
        PROVE  r = d
    <3>1. r \in DOMAIN fs /\ IsPrefix(d, r) /\ d # <<>>
      BY <1>3, <1>6, <2>1 DEF Under
    <3>2. r \notin DOMAIN before
      BY <1>3, <1>5, <3>1, TreeFacts
    <3> QED BY <1>5, <3>1, <3>2
  <2>2. d \in Under(fs, d)
    BY <1>5, <1>6, PrefixOrder DEF Under
  <2> QED BY <2>1, <2>2
<1>2. DOMAIN fs' = DOMAIN fs \ {d} /\ \A q \in DOMAIN fs \ {d} : fs'[q] = fs[q]
  <2>1. CASE d \in DOMAIN fs
    <3>1. fs' = Without(fs, {d})
      BY <1>6, <2>1
    <3>2. DOMAIN Without(fs, {d}) = DOMAIN fs \ {d} /\ \A q \in DOMAIN fs \ {d} : Without(fs, {d})[q] = fs[q]
      BY WithoutCard
    <3> QED BY <3>1, <3>2
  <2>2. CASE d \notin DOMAIN fs
    <3>1. fs' = Without(fs, {})
      BY <2>2 DEF Under
    <3>2. DOMAIN Without(fs, {}) = DOMAIN fs /\ \A q \in DOMAIN fs : Without(fs, {})[q] = fs[q]
      BY DEF Without
    <3> QED BY <2>2, <3>1, <3>2
  <2> QED BY <2>1, <2>2
<1>4. Tree(fs')
  <2> DEFINE X == IF Under(fs, d) = {d} THEN {d} ELSE {}
  <2>1. \A q \in X \cap Path, r \in DOMAIN fs : IsPrefix(q, r) => r \in X
    BY DEF Under
  <2>2. fs' = Without(fs, X)
    OBVIOUS
  <2> HIDE DEF X
  <2> QED BY <1>3, <2>1, <2>2, WithoutTree
<1>20. Types'
  BY <1>0, <1>1 DEF ExplorerInv, Types, Siblings
<1>21. CardInv'
  <2>1. UserFilesKept'
    BY <1>0, <1>2, <1>3, <1>5 DEF UserFilesKept, Paths
  <2>2. \A p \in DOMAIN fs' : fs'[p] = "torn" => p = file.tmp
    BY <1>2 DEF ExplorerInv, CardInv, Paths
  <2> QED BY <1>0, <1>4, <2>1, <2>2 DEF ExplorerInv, CardInv, Paths
<1>22. HandInv'
  BY <1>0, <1>1 DEF ExplorerInv, HandInv, Writing
<1>23. TempInv'
  BY <1>0 DEF TempInv
<1>24. SourcesInv'
  BY <1>0 DEF SourcesInv, Writing
<1>25. TargetInv'
  BY <1>0, <1>1 DEF TargetInv
<1>26. CopyInv'
  BY <1>0, <1>1 DEF CopyInv
<1>27. MoveInv'
  BY <1>0, <1>1 DEF MoveInv
<1>28. DeleteInv'
  BY <1>0, <1>1 DEF DeleteInv
<1>29. ZipInv'
  <2>1. New' \subseteq dirs'
    BY <1>0, <1>2, <1>5 DEF New, Paths
  <2>2. DOMAIN made = {}
    BY <1>0
  <2>3. \A x \in dirs' \cap DOMAIN fs' : fs'[x] = "dir"
    BY <1>0, <1>1, <1>2 DEF ExplorerInv, ZipInv, Paths
  <2>4. staging = <<>> /\ dirs' \cap DOMAIN before = {}
    BY <1>0, <1>1, <1>5 DEF ExplorerInv, ZipInv
  <2> QED BY <1>0, <1>1, <2>1, <2>2, <2>3, <2>4 DEF ZipInv, New, Paths, Writing
<1>30. PageInv'
  BY <1>0, <1>1 DEF ExplorerInv, PageInv
<1> QED BY <1>20, <1>21, <1>22, <1>23, <1>24, <1>25, <1>26, <1>27, <1>28, <1>29, <1>30 DEF ExplorerInv

\* The handlers leave some of what they were to remove.
LEMMA UnwindRemainsStep ==
    ASSUME ExplorerInv, pc = "unwind", UNCHANGED <<jobVars, cancel>>, UNCHANGED page, NEW gone \in SUBSET Litter, gone # Litter,
           \A p \in gone : Under(fs, p) \subseteq gone, fs' = Settled(Without(fs, gone)),
           file' = IF file.tmp \in DOMAIN fs' THEN file ELSE NoFile,
           staging' = IF staging \in DOMAIN fs' THEN staging ELSE <<>>,
           Goto("ended"), result' = "remains", UNCHANGED <<walk, undo>>
    PROVE  ExplorerInv'
<1>0. /\ UNCHANGED <<before, job, cancel, left, todo, at, member, made, dirs, panes, clipboard, cut, busy, ops>>
      /\ pc = "unwind" /\ pc' = "ended" /\ result' = "remains"
  BY DEF Goto, jobVars, walk, undo, page
<1>1. busy /\ result = "none" /\ job.op \in {"copy", "zip"}
  <2>1. busy /\ result = "none" /\ job.op \in {"copy", "move", "delete", "zip"}
    BY <1>0 DEF ExplorerInv, Types, HandInv
  <2>2. PICK x \in Litter : x \notin gone
    OBVIOUS
  <2>3. x \in DOMAIN fs /\ x # <<>>
    BY <2>2, TreeFacts DEF Litter, Paths, ExplorerInv, CardInv
  <2>4. ASSUME job.op \in {"move", "delete"}
        PROVE  file.tmp = <<>> /\ staging = <<>> /\ made = <<>> /\ dirs = {}
    BY <2>4 DEF ExplorerInv, TempInv, TargetInv, MoveInv, DeleteInv
  <2> QED BY <2>1, <2>2, <2>3, <2>4 DEF Litter, Range
<1>2. /\ DOMAIN fs' = DOMAIN fs \ gone
      /\ \A q \in DOMAIN fs \ gone : fs'[q] = IF fs[q] = "torn" THEN "part" ELSE fs[q]
  <2> DEFINE g == Without(fs, gone)
  <2>1. DOMAIN g = DOMAIN fs \ gone /\ \A q \in DOMAIN fs \ gone : g[q] = fs[q]
    BY WithoutCard
  <2>2. fs' = [q \in DOMAIN g |-> IF g[q] = "torn" THEN "part" ELSE g[q]]
    BY DEF Settled
  <2> HIDE DEF g
  <2> QED BY <2>1, <2>2
<1>3. /\ Tree(fs) /\ Tree(before)
      /\ \A q \in DOMAIN before : q \in DOMAIN fs /\ fs[q] = before[q] /\ q \in Path /\ fs[q] # "torn"
      /\ \A q \in DOMAIN fs : q \in Path /\ q # <<>>
  BY <1>1, BeforeKept, TreeFacts
<1>4. Tree(fs')
  <2> DEFINE g == Without(fs, gone)
  <2>1. ASSUME NEW q \in gone \cap Path, NEW r \in DOMAIN fs, IsPrefix(q, r)
        PROVE  r \in gone
    BY <2>1 DEF Under
  <2>2. Tree(g)
    BY <1>3, <2>1, WithoutTree
  <2>3. DOMAIN g = DOMAIN fs \ gone /\ \A q \in DOMAIN fs \ gone : g[q] = fs[q]
    BY WithoutCard
  <2> HIDE DEF g
  <2>4. DOMAIN fs' = DOMAIN g /\ \A q \in DOMAIN g : g[q] = "dir" => fs'[q] = "dir"
    BY <1>2, <2>3
  <2> QED BY <2>2, <2>4, TreeOrder
<1>5. \A q \in DOMAIN before : q \notin gone
  <2>1. \A x \in gone : x \in {file.tmp} \cup Range(made) \cup dirs \/ (staging # <<>> /\ IsPrefix(staging, x))
    BY DEF Litter, Under
  <2>2. \A x \in gone : x \in DOMAIN fs
    BY DEF Litter, Paths
  <2>3. file.tmp # <<>> => file.tmp \notin DOMAIN before
    BY DEF ExplorerInv, TempInv, New
  <2>4. CASE job.op = "copy"
    <3>1. made = <<>> /\ dirs = {} /\ (staging # <<>> => staging \in Path /\ staging \notin DOMAIN before)
      BY <2>4 DEF ExplorerInv, TargetInv, CopyInv, New, Types
    <3>2. \A q \in DOMAIN before : staging # <<>> => ~IsPrefix(staging, q)
      BY <1>3, <3>1, TreeFacts
    <3> QED BY <1>3, <2>1, <2>2, <2>3, <3>1, <3>2 DEF Range
  <2>5. CASE job.op = "zip"
    <3>1. staging = <<>> /\ dirs \cap DOMAIN before = {} /\ \A x \in Range(made) : x \notin DOMAIN before
      BY <1>1, <2>5 DEF ExplorerInv, ZipInv, New, Range
    <3> QED BY <1>3, <2>1, <2>2, <2>3, <3>1
  <2> QED BY <1>1, <2>4, <2>5
<1>6. /\ file \in [src : Path, dst : Path, tmp : Path] /\ file' \in [src : Path, dst : Path, tmp : Path]
      /\ file.tmp \in DOMAIN fs' => file' = file
      /\ file.tmp \notin DOMAIN fs' => file'.tmp = <<>>
  <2>1. NoFile \in [src : Path, dst : Path, tmp : Path] /\ NoFile.tmp = <<>>
    BY PrefixOrder DEF NoFile
  <2> QED BY <2>1 DEF ExplorerInv, Types
<1>7. /\ staging \in Path /\ staging' \in Path
      /\ staging \in DOMAIN fs' => staging' = staging
      /\ staging \notin DOMAIN fs' => staging' = <<>>
  BY PrefixOrder DEF ExplorerInv, Types
<1>8. /\ \A q \in DOMAIN fs' : q \in DOMAIN fs /\ q # <<>> /\ fs'[q] # "torn" /\ (q # file.tmp => fs'[q] = fs[q])
      /\ file.tmp \in DOMAIN fs' /\ fs[file.tmp] # "dir" => fs'[file.tmp] # "dir"
  <2>1. \A q \in DOMAIN fs : fs[q] = "torn" => q = file.tmp
    BY DEF ExplorerInv, CardInv, Paths
  <2> QED BY <1>2, <1>3, <2>1
<1>9. \A x \in DOMAIN fs' : staging # <<>> /\ IsPrefix(staging, x) => staging' = staging
  BY <1>4, <1>7, TreeFacts
<1>20. Types'
  BY <1>0, <1>1, <1>6, <1>7 DEF ExplorerInv, Types, Siblings, Steps
<1>21. CardInv'
  <2>1. UserFilesKept'
    BY <1>0, <1>2, <1>3, <1>5 DEF UserFilesKept, Paths
  <2>2. \A p \in DOMAIN fs' : fs'[p] # "torn"
    BY <1>8
  <2> QED BY <1>0, <1>4, <2>1, <2>2 DEF ExplorerInv, CardInv, Paths
<1>22. HandInv'
  <2>1. \A p \in DOMAIN fs' : fs'[p] # "torn"
    BY <1>8
  <2>2. job.op # "none" /\ IsFolder(before, job.dest)
    BY <1>1 DEF ExplorerInv, HandInv
  <2> QED BY <1>0, <1>1, <2>1, <2>2 DEF HandInv, Writing, IsFolder, Paths
<1>23. TempInv'
  <2> SUFFICES ASSUME file'.tmp # <<>>
               PROVE  TempInv'
    BY DEF TempInv
  <2>1. file' = file /\ file.tmp \in DOMAIN fs' /\ file.tmp # <<>>
    BY <1>6
  <2>2. file.tmp \notin DOMAIN before /\ fs[file.tmp] # "dir" /\ Last(file.tmp) \in Range(Temps)
    BY <2>1 DEF ExplorerInv, TempInv, New
  <2>3. fs'[file.tmp] # "dir"
    BY <1>8, <2>1, <2>2
  <2> QED BY <1>0, <1>1, <2>1, <2>2, <2>3 DEF TempInv, New, Paths
<1>24. SourcesInv'
  BY <1>0 DEF SourcesInv, Writing
<1>25. TargetInv'
  <2> SUFFICES ASSUME job.op = "copy"
               PROVE  TargetInv'
    BY <1>0, <1>1 DEF TargetInv
  <2>0. made = <<>> /\ dirs = {}
    BY DEF ExplorerInv, TargetInv
  <2>1. ASSUME NEW x \in New'
        PROVE  \/ x = file'.tmp
               \/ staging' # <<>> /\ IsPrefix(staging', x)
               \/ \E r \in job.sources : IsPrefix(Target(r), x)
    <3>1. x \in DOMAIN fs' /\ x \in New
      BY <1>0, <1>8, <2>1 DEF New, Paths
    <3>2. CASE x = file.tmp
      BY <1>6, <3>1, <3>2
    <3>3. CASE staging # <<>> /\ IsPrefix(staging, x)
      BY <1>9, <3>1, <3>3
    <3> QED BY <3>1, <3>2, <3>3 DEF ExplorerInv, TargetInv
  <2>2. ASSUME NEW r \in job.sources, Target(r) \in New' \ {file'.tmp, staging'}
        PROVE  Whole(r)'
    <3>1. Target(r) \in New \ {file.tmp, staging}
      BY <1>0, <1>6, <1>7, <1>8, <2>2 DEF New, Paths
    <3>2. ASSUME NEW t \in DOMAIN fs, t # file.tmp, staging # <<>> => ~IsPrefix(staging, t)
          PROVE  t \in DOMAIN fs' /\ fs'[t] = fs[t]
      <4>1. t \notin Litter
        BY <2>0, <3>2 DEF Litter, Under, Range
      <4> QED BY <1>2, <1>8, <3>2, <4>1
    <3> QED BY <1>0, <3>1, <3>2, WholeKept
  <2> QED BY <1>0, <1>1, <2>0, <2>1, <2>2 DEF TargetInv, Target, Writing
<1>26. CopyInv'
  <2> SUFFICES ASSUME job.op = "copy"
               PROVE  CopyInv'
    BY <1>0 DEF CopyInv
  <2>1. ASSUME staging' # <<>>
        PROVE  /\ staging' \in DOMAIN fs' \ DOMAIN before /\ fs'[staging'] = "dir"
               /\ Front(staging') = job.dest /\ Last(staging') \in Range(Temps)
               /\ file'.tmp # <<>> => IsPrefix(staging', file'.tmp)
    <3>1. staging' = staging /\ staging \in DOMAIN fs'
      BY <1>7, <2>1
    <3>2. /\ staging \notin DOMAIN before /\ fs[staging] = "dir"
          /\ Front(staging) = job.dest /\ Last(staging) \in Range(Temps)
          /\ file.tmp # <<>> => IsPrefix(staging, file.tmp) /\ fs[file.tmp] # "dir"
      BY <2>1, <3>1 DEF ExplorerInv, CopyInv, TempInv, New
    <3>3. fs'[staging] = "dir"
      BY <1>8, <2>1, <3>1, <3>2
    <3> QED BY <1>6, <3>1, <3>2, <3>3
  <2>2. ASSUME staging' = <<>>, file'.tmp # <<>>
        PROVE  Front(file'.tmp) = job.dest
    <3>1. file' = file /\ file.tmp \in DOMAIN fs'
      BY <1>6, <2>2
    <3>2. staging = <<>>
      BY <1>9, <2>2, <3>1 DEF ExplorerInv, CopyInv
    <3> QED BY <2>2, <3>1, <3>2 DEF ExplorerInv, CopyInv
  <2> QED BY <1>0, <2>1, <2>2 DEF CopyInv, New, Paths, Writing
<1>27. MoveInv'
  BY <1>0, <1>1 DEF MoveInv
<1>28. DeleteInv'
  BY <1>0, <1>1 DEF DeleteInv
<1>29. ZipInv'
  <2> SUFFICES ASSUME job.op = "zip"
               PROVE  ZipInv'
    BY <1>0 DEF ZipInv
  <2>1. staging' = <<>>
    BY <1>7 DEF ExplorerInv, ZipInv
  <2>2. ASSUME NEW x \in New'
        PROVE  x \in {file'.tmp} \cup Range(made) \cup dirs
    <3>1. x \in DOMAIN fs' /\ x \in New
      BY <1>0, <1>8, <2>2 DEF New, Paths
    <3>2. x \in {file.tmp} \cup Range(made) \cup dirs
      BY <1>1, <3>1 DEF ExplorerInv, ZipInv
    <3> QED BY <1>6, <3>1, <3>2
  <2>3. ASSUME NEW k \in DOMAIN made
        PROVE  /\ made[k] \in DOMAIN fs' => /\ made[k] \notin DOMAIN before /\ made[k] # file'.tmp
                                            /\ fs'[made[k]] = "member"
               /\ \A l \in DOMAIN made : made[k] = made[l] => k = l
    <3>1. /\ made[k] \in New \ {file.tmp} /\ fs[made[k]] = "member"
          /\ \A l \in DOMAIN made : made[k] = made[l] => k = l
      BY <1>1 DEF ExplorerInv, ZipInv
    <3>2. file'.tmp \in {file.tmp, <<>>}
      BY <1>6
    <3> QED BY <1>8, <3>1, <3>2 DEF New
  <2>4. \A d \in dirs \cap DOMAIN fs' : fs'[d] = "dir"
    <3>1. \A d \in dirs \cap DOMAIN fs : fs[d] = "dir"
      BY DEF ExplorerInv, ZipInv, Paths
    <3>2. file.tmp # <<>> => fs[file.tmp] # "dir"
      BY DEF ExplorerInv, TempInv
    <3> QED BY <1>8, <3>1, <3>2
  <2>5. dirs \cap DOMAIN before = {}
    BY DEF ExplorerInv, ZipInv
  <2> QED BY <1>0, <1>1, <2>1, <2>2, <2>3, <2>4, <2>5 DEF ZipInv, New, Paths, Writing
<1>30. PageInv'
  BY <1>0, <1>1 DEF ExplorerInv, PageInv
<1> QED BY <1>20, <1>21, <1>22, <1>23, <1>24, <1>25, <1>26, <1>27, <1>28, <1>29, <1>30 DEF ExplorerInv

-----------------------------------------------------------------------------
(* Every step *)

LEMMA PreflightSteps ==
    ASSUME ExplorerInv, Preflight, UNCHANGED page
    PROVE  ExplorerInv'
<1>0. pc = "preflight" /\ UNCHANGED <<jobVars, cancel>>
  BY DEF Preflight
<1>1. CASE Throw
  BY <1>0, <1>1, ThrowStep
<1>2. CASE /\ \A s \in job.sources : Valid(s)
           /\ job.op # "zip" /\ left' = job.sources /\ Goto("source")
           /\ UNCHANGED <<fs, todo, at, member, file, staging, undo, result>>
  BY <1>0, <1>2, PreflightSourcesStep
<1>3. CASE /\ job.op = "zip" /\ member' = 1 /\ Goto("member")
           /\ UNCHANGED <<fs, left, todo, at, file, staging, undo, result>>
  BY <1>0, <1>3, PreflightZipStep
<1> QED BY <1>1, <1>2, <1>3 DEF Preflight

LEMMA NextSourceSteps ==
    ASSUME ExplorerInv, NextSource, UNCHANGED page
    PROVE  ExplorerInv'
<1>0. pc = "source" /\ UNCHANGED <<jobVars, cancel>>
  BY DEF NextSource
<1>1. CASE Throw
  BY <1>0, <1>1, ThrowStep
<1>2. CASE ~Throw
  <2>1. PICK s \in left :
          /\ at' = s /\ left' = left \ {s}
          /\ \/ /\ job.op = "delete"
                /\ todo' = Under(fs, s) /\ Goto("delete")
                /\ UNCHANGED <<fs, file, staging>>
             \/ /\ job.op = "move" /\ Target(s) \notin Paths
                /\ fs' = Rename(fs, s, Target(s))
                /\ UNCHANGED <<pc, todo, file, staging>>
             \/ /\ job.op = "copy" /\ fs[s] = "dir" /\ FreeTemps(Target(s)) # {}
                /\ staging' = TempFor(Target(s))
                /\ fs' = With(fs, staging', "dir")
                /\ todo' = Under(fs, s) \ {s} /\ Goto("tree")
                /\ UNCHANGED file
             \/ /\ job.op = "copy" /\ fs[s] # "dir"
                /\ file' = [src |-> s, dst |-> Target(s), tmp |-> <<>>] /\ Goto("file")
                /\ UNCHANGED <<fs, todo, staging>>
          /\ UNCHANGED <<member, undo, result>>
    BY <1>2 DEF NextSource
  <2>2. CASE job.op = "delete"
    BY <1>0, <2>1, <2>2, DeleteSourceStep
  <2>3. CASE job.op = "move"
    BY <1>0, <2>1, <2>3, MoveSourceStep
  <2>4. CASE job.op = "copy" /\ fs[s] = "dir"
    BY <1>0, <2>1, <2>4, TreeSourceStep
  <2>5. CASE job.op = "copy" /\ fs[s] # "dir"
    BY <1>0, <2>1, <2>5, FileSourceStep
  <2> QED BY <2>1, <2>2, <2>3, <2>4, <2>5
<1> QED BY <1>1, <1>2

LEMMA DeleteNodeSteps ==
    ASSUME ExplorerInv, DeleteNode, UNCHANGED page
    PROVE  ExplorerInv'
<1>0. pc = "delete" /\ UNCHANGED <<jobVars, cancel>>
  BY DEF DeleteNode
<1>1. CASE Throw
  BY <1>0, <1>1, ThrowStep
<1>2. CASE todo = {} /\ Goto("source") /\ UNCHANGED <<fs, walk, file, staging, undo, result>>
  BY <1>0, <1>2, DeleteDoneStep
<1>3. CASE /\ \E p \in todo :
                /\ \A q \in todo \ {p} : ~IsPrefix(p, q)
                /\ fs' = Without(fs, {p})
                /\ todo' = todo \ {p}
           /\ UNCHANGED <<pc, left, at, member, file, staging, undo, result>>
  BY <1>0, <1>3, DeleteNodeStep
<1> QED BY <1>1, <1>2, <1>3 DEF DeleteNode

LEMMA CopyNodeSteps ==
    ASSUME ExplorerInv, CopyNode, UNCHANGED page
    PROVE  ExplorerInv'
<1>0. pc = "tree" /\ UNCHANGED <<jobVars, cancel>>
  BY DEF CopyNode
<1>1. CASE Throw
  BY <1>0, <1>1, ThrowStep
<1>2. CASE /\ \E p \in todo : LET dst == Moved(p, at, staging) IN
                /\ Front(p) \notin todo /\ todo' = todo \ {p}
                /\ \/ /\ fs[p] = "dir" /\ dst \notin Paths
                      /\ fs' = With(fs, dst, "dir") /\ UNCHANGED <<pc, file>>
                   \/ /\ fs[p] # "dir" /\ Goto("file")
                      /\ file' = [src |-> p, dst |-> dst, tmp |-> <<>>]
                      /\ UNCHANGED fs
           /\ UNCHANGED <<left, at, member, staging, undo, result>>
  <2>1. PICK p \in todo :
                /\ Front(p) \notin todo /\ todo' = todo \ {p}
                /\ \/ /\ fs[p] = "dir" /\ Moved(p, at, staging) \notin Paths
                      /\ fs' = With(fs, Moved(p, at, staging), "dir") /\ UNCHANGED <<pc, file>>
                   \/ /\ fs[p] # "dir" /\ Goto("file")
                      /\ file' = [src |-> p, dst |-> Moved(p, at, staging), tmp |-> <<>>]
                      /\ UNCHANGED fs
    BY <1>2
  <2>2. CASE fs[p] = "dir"
    BY <1>0, <1>2, <2>1, <2>2, DirNodeStep
  <2>3. CASE fs[p] # "dir"
    BY <1>0, <1>2, <2>1, <2>3, FileNodeStep
  <2> QED BY <2>2, <2>3
<1>3. CASE /\ todo = {} /\ Target(at) \notin Paths
           /\ fs' = Rename(fs, staging, Target(at)) /\ staging' = <<>>
           /\ Goto("source") /\ UNCHANGED <<walk, file, undo, result>>
  BY <1>0, <1>3, TreeDoneStep
<1> QED BY <1>1, <1>2, <1>3 DEF CopyNode

LEMMA FileSteps ==
    ASSUME ExplorerInv, OpenTemp \/ FillTemp \/ CommitTemp, UNCHANGED page
    PROVE  ExplorerInv'
<1>0. pc \in {"file", "fill", "commit"} /\ UNCHANGED <<jobVars, cancel>>
  BY DEF OpenTemp, FillTemp, CommitTemp
<1>1. CASE Throw
  BY <1>0, <1>1, ThrowStep
<1>2. CASE OpenTemp /\ ~Throw
  BY <1>0, <1>2, OpenTempStep DEF OpenTemp
<1>3. CASE FillTemp /\ ~Throw
  BY <1>0, <1>3, FillTempStep DEF FillTemp
<1>4. CASE CommitTemp /\ ~Throw
  BY <1>0, <1>4, CommitTempStep DEF CommitTemp
<1> QED BY <1>1, <1>2, <1>3, <1>4

LEMMA NextMemberSteps ==
    ASSUME ExplorerInv, NextMember, UNCHANGED page
    PROVE  ExplorerInv'
<1>0. pc = "member" /\ member <= Len(Members) /\ UNCHANGED <<jobVars, cancel>>
  BY DEF NextMember
<1>1. CASE Throw
  BY <1>0, <1>1, ThrowStep
<1>2. CASE ~Throw
  <2> DEFINE folder == MemberFolder
             new(n) == {q \in Missing(folder) : Len(q) <= n /\ ~Blocked(folder)}
  <2>1. /\ dirs' = dirs \cup Missing(folder)
        /\ \/ /\ \E n \in 0 .. Len(folder) :
                    fs' = [q \in Paths \cup new(n) |-> IF q \in new(n) THEN "dir" ELSE fs[q]]
              /\ Goto("unwind") /\ UNCHANGED <<member, file>>
           \/ /\ ~Blocked(folder)
              /\ fs' = [q \in Paths \cup Missing(folder) |-> IF q \in Paths THEN fs[q] ELSE "dir"]
              /\ IF Members[member].dir THEN member' = member + 1 /\ UNCHANGED <<pc, file>>
                 ELSE /\ file' = [src |-> <<>>, dst |-> MemberTarget(Members[member]), tmp |-> <<>>]
                      /\ Goto("file") /\ UNCHANGED member
        /\ UNCHANGED <<left, todo, at, staging, made, result>>
    BY <1>2, Zenon DEF NextMember, MemberFolder, Blocked
  <2>2. CASE /\ \E n \in 0 .. Len(folder) :
                    fs' = [q \in Paths \cup new(n) |-> IF q \in new(n) THEN "dir" ELSE fs[q]]
             /\ Goto("unwind") /\ UNCHANGED <<member, file>>
    <3>1. PICK n \in 0 .. Len(folder) :
                    fs' = [q \in Paths \cup new(n) |-> IF q \in new(n) THEN "dir" ELSE fs[q]]
      BY <2>2
    <3> DEFINE D == new(n)
    <3>2. /\ D = {q \in Missing(MemberFolder) : Len(q) <= n /\ ~Blocked(MemberFolder)}
          /\ fs' = [q \in Paths \cup D |-> IF q \in D THEN "dir" ELSE fs[q]]
      BY <3>1
    <3>3. /\ n \in 0 .. Len(MemberFolder) /\ dirs' = dirs \cup Missing(MemberFolder)
          /\ Goto("unwind") /\ UNCHANGED <<member, file>> /\ UNCHANGED <<left, todo, at, staging, made, result>>
      BY <2>1, <2>2
    <3> HIDE DEF D
    <3> QED BY <1>0, <3>2, <3>3, MemberFailStep
  <2>3. CASE /\ ~Blocked(folder)
             /\ fs' = [q \in Paths \cup Missing(folder) |-> IF q \in Paths THEN fs[q] ELSE "dir"]
             /\ Members[member].dir /\ member' = member + 1 /\ UNCHANGED <<pc, file>>
    BY <1>0, <2>1, <2>3, MemberDirStep
  <2>4. CASE /\ ~Blocked(folder)
             /\ fs' = [q \in Paths \cup Missing(folder) |-> IF q \in Paths THEN fs[q] ELSE "dir"]
             /\ ~Members[member].dir
             /\ file' = [src |-> <<>>, dst |-> MemberTarget(Members[member]), tmp |-> <<>>]
             /\ Goto("file") /\ UNCHANGED member
    BY <1>0, <2>1, <2>4, MemberFileStep
  <2> QED BY <2>1, <2>2, <2>3, <2>4
<1> QED BY <1>1, <1>2

LEMMA UnwindSteps ==
    ASSUME ExplorerInv, Unwind, UNCHANGED page
    PROVE  ExplorerInv'
<1>0. pc = "unwind" /\ UNCHANGED <<jobVars, cancel>>
  BY DEF Unwind
<1>1. CASE file.tmp # <<>>
  BY <1>0, <1>1, UnwindTempStep DEF Unwind
<1>2. CASE file.tmp = <<>> /\ staging # <<>>
  BY <1>0, <1>2, UnwindStagingStep DEF Unwind
<1>3. CASE file.tmp = <<>> /\ staging = <<>> /\ made # <<>>
  BY <1>0, <1>3, UnwindMadeStep DEF Unwind
<1>4. CASE file.tmp = <<>> /\ staging = <<>> /\ made = <<>> /\ dirs # {}
  <2>1. /\ \E d \in dirs :
                /\ \A q \in dirs \ {d} : ~IsPrefix(d, q)
                /\ fs' = Without(fs, IF Under(fs, d) = {d} THEN {d} ELSE {})
                /\ dirs' = dirs \ {d}
        /\ UNCHANGED <<pc, walk, file, staging, made, result>>
    BY <1>4 DEF Unwind
  <2> QED BY <1>0, <1>4, <2>1, UnwindDirStep
<1>5. CASE file.tmp = <<>> /\ staging = <<>> /\ made = <<>> /\ dirs = {}
  BY <1>0, <1>5, UnwindEndStep DEF Unwind
<1> QED BY <1>1, <1>2, <1>3, <1>4, <1>5

LEMMA RemainsSteps ==
    ASSUME ExplorerInv, UnwindRemains, UNCHANGED page
    PROVE  ExplorerInv'
<1>1. PICK gone \in SUBSET Litter :
         /\ gone # Litter /\ \A p \in gone : Under(fs, p) \subseteq gone
         /\ fs' = Settled(Without(fs, gone))
  BY DEF UnwindRemains
<1>2. /\ pc = "unwind" /\ file' = IF file.tmp \in DOMAIN fs' THEN file ELSE NoFile
      /\ staging' = IF staging \in DOMAIN fs' THEN staging ELSE <<>>
      /\ Goto("ended") /\ result' = "remains" /\ UNCHANGED <<walk, undo>> /\ UNCHANGED <<jobVars, cancel>>
  BY DEF UnwindRemains
<1> QED BY <1>1, <1>2, UnwindRemainsStep

LEMMA StutterStep ==
    ASSUME ExplorerInv, UNCHANGED vars
    PROVE  ExplorerInv'
<1>0. UNCHANGED <<fs, before, job, cancel, left, todo, at, member, file, staging, made, dirs, result,
                  panes, clipboard, cut, busy, ops, pc>>
  BY DEF vars, jobVars, workVars, walk, undo, page
<1>1. (Types /\ CardInv /\ HandInv /\ TempInv)'
  BY <1>0 DEF ExplorerInv, Types, CardInv, HandInv, TempInv, Siblings, Paths, UserFilesKept, Sourced, New
<1>2. (SourcesInv /\ TargetInv /\ CopyInv)'
  BY <1>0 DEF ExplorerInv, SourcesInv, TargetInv, CopyInv, Target, New, Paths, Whole, InHand, Under
<1>3. (MoveInv /\ DeleteInv)'
  BY <1>0 DEF ExplorerInv, MoveInv, DeleteInv, Target, New, Paths, InHand, Under
<1>4. ZipInv'
  BY <1>0 DEF ExplorerInv, ZipInv, New, Paths, MemberTarget
<1>5. PageInv'
  BY <1>0 DEF ExplorerInv, PageInv, Paths, Folder
<1> QED BY <1>1, <1>2, <1>3, <1>4, <1>5 DEF ExplorerInv

LEMMA InvStep ==
    ASSUME ExplorerInv, [Next]_vars
    PROVE  ExplorerInv'
<1>1. CASE User
  <2>1. CASE Navigate \/ SwitchPane \/ StageClipboard \/ RenameEntry \/ CreateFolder \/ Cancel
    BY <2>1, NavigateStep, SwitchPaneStep, StageClipboardStep, RenameEntryStep, CreateFolderStep, CancelStep
  <2>2. CASE Paste \/ ToOtherPane \/ Delete \/ ExtractZip
    BY <2>2, StartSteps
  <2> QED BY <1>1, <2>1, <2>2 DEF User
<1>2. CASE WorkStep
  <2>1. UNCHANGED page
    BY <1>2 DEF WorkStep
  <2>2. CASE Preflight \/ NextSource \/ DeleteNode \/ CopyNode
    BY <2>1, <2>2, PreflightSteps, NextSourceSteps, DeleteNodeSteps, CopyNodeSteps
  <2>3. CASE OpenTemp \/ FillTemp \/ CommitTemp
    BY <2>1, <2>3, FileSteps
  <2>4. CASE NextMember \/ Unwind \/ UnwindRemains \/ Succeed
    BY <2>1, <2>4, NextMemberSteps, UnwindSteps, RemainsSteps, SucceedStep
  <2> QED BY <1>2, <2>2, <2>3, <2>4 DEF WorkStep, Work
<1>3. CASE FinishJob \/ PowerLoss
  BY <1>3, FinishJobStep, PowerLossStep
<1>4. CASE UNCHANGED vars
  BY <1>4, StutterStep
<1> QED BY <1>1, <1>2, <1>3, <1>4 DEF Next

\* The invariant of the explorer holds throughout: a job of explorer::run has put
\* on the card what its handlers know of, and nothing else.
THEOREM ExplorerAlways == Spec => []ExplorerInv
<1>1. Init => ExplorerInv
  BY InitHolds
<1>2. ExplorerInv /\ [Next]_vars => ExplorerInv'
  BY InvStep
<1> QED BY <1>1, <1>2, PTL DEF Spec

-----------------------------------------------------------------------------
(* The promises *)

\* Nothing the user had is replaced, changed or removed, except what a move or a
\* deletion was asked to take: by no copy, extraction or rollback of explorer::run,
\* failed, cancelled or cut off at any step.
THEOREM ExplorerUserFilesKept == Spec => []UserFilesKept
<1>1. ExplorerInv => UserFilesKept
  BY DEF ExplorerInv, CardInv
<1> QED BY <1>1, ExplorerAlways, PTL

\* Between jobs the panes and the clipboard of the page name what exists, after
\* any sequence of renames, jobs and failures.
THEOREM ExplorerPageShows == Spec => []PageShowsWhatExists
<1>1. ExplorerInv => PageShowsWhatExists
  BY DEF ExplorerInv, PageInv, PageShowsWhatExists
<1> QED BY <1>1, ExplorerAlways, PTL

-----------------------------------------------------------------------------
(* What the members of an archive become *)

\* No member lies inside a member that is a file. (An archive where one does is
\* extracted up to there, refused and rolled back; on the way the directory made
\* for the inner one may stand under the name of the outer one.)
PlainZip == \A i, j \in DOMAIN Members :
                IsPrefix(Members[i].path, Members[j].path) => i = j \/ Members[i].dir

\* What the rollback holds comes from the members.
OriginInv ==
    job.op = "zip" =>
        /\ \A x \in Range(made) : \E j \in DOMAIN Members :
              ~Members[j].dir /\ x = MemberTarget(Members[j])
        /\ \A d \in dirs : \E j \in DOMAIN Members :
              IsPrefix(d, MemberTarget(Members[j])) /\ (d = MemberTarget(Members[j]) => Members[j].dir)

MembersWhole ==
    job.op = "zip" =>
        \A i \in DOMAIN Members : LET t == MemberTarget(Members[i]) IN
            t \in New \ {file.tmp} => fs[t] = IF Members[i].dir THEN "dir" ELSE "member"

WholeSoFar == result # "ok" => MembersWhole

LEMMA OriginWhole ==
    ASSUME PlainZip, ExplorerInv, OriginInv, result # "ok"
    PROVE  MembersWhole
<1> SUFFICES ASSUME job.op = "zip", NEW i \in DOMAIN Members,
                    MemberTarget(Members[i]) \in New \ {file.tmp}
             PROVE  fs[MemberTarget(Members[i])] = IF Members[i].dir THEN "dir" ELSE "member"
  BY DEF MembersWhole
<1> DEFINE t == MemberTarget(Members[i])
<1>0. job.dest \in Path /\ t \in Path
  BY MemberPath DEF ExplorerInv, Types
<1>1. t \in Range(made) \cup dirs
  BY DEF ExplorerInv, ZipInv
<1>2. CASE t \in Range(made)
  <2>1. PICK j \in DOMAIN Members : ~Members[j].dir /\ t = MemberTarget(Members[j])
    BY <1>2 DEF OriginInv
  <2>2. i = j
    BY <1>0, <2>1, MemberInjective
  <2>3. fs[t] = "member"
    BY <1>2 DEF ExplorerInv, ZipInv, Range, New
  <2> QED BY <2>1, <2>2, <2>3
<1>3. CASE t \in dirs
  <2>1. PICK j \in DOMAIN Members :
          IsPrefix(t, MemberTarget(Members[j])) /\ (t = MemberTarget(Members[j]) => Members[j].dir)
    BY <1>3 DEF OriginInv
  <2>2. IsPrefix(Members[i].path, Members[j].path)
    BY <1>0, <2>1, MemberOrder
  <2>3. Members[i].dir
    BY <2>1, <2>2 DEF PlainZip
  <2>4. fs[t] = "dir"
    BY <1>3 DEF ExplorerInv, ZipInv, New
  <2> QED BY <2>3, <2>4
<1> QED BY <1>1, <1>2, <1>3

LEMMA OriginStep ==
    ASSUME ExplorerInv, Next, job'.op = "zip"
    PROVE  \/ made' = <<>> /\ dirs' = {}
           \/ /\ job' = job
              /\ Range(made') \subseteq Range(made) \/ (pc = "commit" /\ Range(made') \subseteq Range(made) \cup {file.dst})
              /\ dirs' \subseteq dirs \/ (pc = "member" /\ member <= Len(Members) /\ dirs' \subseteq dirs \cup Missing(MemberFolder))
<1>1. CASE UNCHANGED <<job, made, dirs>>
  BY <1>1
<1>2. CASE made' = <<>> /\ dirs' = {}
  BY <1>2
<1>3. CASE User \/ FinishJob \/ PowerLoss
  <2>1. CASE Navigate \/ SwitchPane \/ StageClipboard \/ Cancel
    BY <1>1, <2>1 DEF Navigate, SwitchPane, StageClipboard, Cancel, jobVars, workVars, undo
  <2>2. CASE RenameEntry \/ CreateFolder
    BY <1>1, <2>2 DEF RenameEntry, CreateFolder, Edit, workVars, undo
  <2>3. CASE Paste \/ ToOtherPane \/ Delete \/ ExtractZip
    BY <1>2, <2>3 DEF Paste, ToOtherPane, Delete, ExtractZip, Start, Rest
  <2>4. CASE FinishJob \/ PowerLoss
    BY <1>2, <2>4 DEF FinishJob, PowerLoss, Rest
  <2> QED BY <1>3, <2>1, <2>2, <2>3, <2>4 DEF User
<1>4. CASE Work
  <2>1. CASE Throw /\ UNCHANGED <<jobVars, cancel>>
    BY <1>1, <2>1 DEF Throw, jobVars, undo
  <2>2. CASE (Preflight \/ NextSource \/ DeleteNode \/ CopyNode \/ OpenTemp \/ FillTemp) /\ ~Throw
    BY <1>1, <2>2 DEF Preflight, NextSource, DeleteNode, CopyNode, OpenTemp, FillTemp, jobVars, undo
  <2>3. CASE Succeed
    BY <1>2, <2>3 DEF Succeed
  <2>4. CASE CommitTemp /\ ~Throw
    <3>1. pc = "commit" /\ job' = job /\ dirs' = dirs /\ made' = IF job.op = "zip" THEN Append(made, file.dst) ELSE made
      BY <2>4 DEF CommitTemp, FileDone, jobVars
    <3>2. made \in Seq(Path) /\ file.dst \in Path
      BY DEF ExplorerInv, Types
    <3>3. Range(Append(made, file.dst)) \subseteq Range(made) \cup {file.dst}
      <4>1. /\ Len(made) \in Nat /\ DOMAIN made = 1 .. Len(made)
            /\ DOMAIN Append(made, file.dst) = 1 .. Len(made) + 1
            /\ Append(made, file.dst)[Len(made) + 1] = file.dst
            /\ \A k \in 1 .. Len(made) : Append(made, file.dst)[k] = made[k]
        BY <3>2, AppendProperties
      <4> QED BY <4>1 DEF Range
    <3> QED BY <3>1, <3>3
  <2>5. CASE NextMember /\ ~Throw
    <3>1. dirs' = dirs \cup Missing(MemberFolder) /\ made' = made /\ job' = job
      BY <2>5, Zenon DEF NextMember, MemberFolder, jobVars
    <3>2. pc = "member" /\ member <= Len(Members)
      BY <2>5 DEF NextMember
    <3> QED BY <3>1, <3>2
  <2>6. CASE Unwind
    <3>1. CASE made # <<>> /\ made' = Front(made)
      <4>1. made \in Seq(Path)
        BY DEF ExplorerInv, Types
      <4>2. DOMAIN Front(made) \subseteq DOMAIN made /\ \A k \in DOMAIN Front(made) : Front(made)[k] = made[k]
        BY <3>1, <4>1, FrontList
      <4>3. Range(made') \subseteq Range(made)
        BY <3>1, <4>2 DEF Range
      <4>4. job' = job /\ dirs' \subseteq dirs
        BY <2>6 DEF Unwind, jobVars, undo
      <4> QED BY <4>3, <4>4
    <3>2. CASE made' = made
      BY <2>6, <3>2 DEF Unwind, jobVars, undo
    <3> QED BY <2>6, <3>1, <3>2 DEF Unwind, undo
  <2>7. CASE UnwindRemains
    BY <1>1, <2>7 DEF UnwindRemains, jobVars, undo
  <2> QED BY <1>4, <2>1, <2>2, <2>3, <2>4, <2>5, <2>6, <2>7 DEF Work, Preflight, NextSource, DeleteNode, CopyNode, OpenTemp, FillTemp, CommitTemp, NextMember
<1> QED BY <1>3, <1>4 DEF Next, WorkStep

LEMMA OriginKept ==
    ASSUME ExplorerInv, OriginInv, Next
    PROVE  OriginInv'
<1> SUFFICES ASSUME job'.op = "zip"
             PROVE  OriginInv'
  BY DEF OriginInv
<1>1. CASE made' = <<>> /\ dirs' = {}
  BY <1>1 DEF OriginInv, Range
<1>2. CASE /\ job' = job
           /\ Range(made') \subseteq Range(made) \/ (pc = "commit" /\ Range(made') \subseteq Range(made) \cup {file.dst})
           /\ dirs' \subseteq dirs \/ (pc = "member" /\ member <= Len(Members) /\ dirs' \subseteq dirs \cup Missing(MemberFolder))
  <2>0. job.op = "zip" /\ \A m : MemberTarget(m)' = MemberTarget(m)
    BY <1>2 DEF MemberTarget
  <2>1. ASSUME NEW x \in Range(made')
        PROVE  \E j \in DOMAIN Members : ~Members[j].dir /\ x = MemberTarget(Members[j])
    <3>1. CASE x \in Range(made)
      BY <2>0, <3>1 DEF OriginInv
    <3>2. CASE pc = "commit" /\ x = file.dst
      BY <2>0, <3>2 DEF ExplorerInv, ZipInv, Writing
    <3> QED BY <1>2, <2>1, <3>1, <3>2
  <2>2. ASSUME NEW d \in dirs'
        PROVE  \E j \in DOMAIN Members :
                  IsPrefix(d, MemberTarget(Members[j])) /\ (d = MemberTarget(Members[j]) => Members[j].dir)
    <3>1. CASE d \in dirs
      BY <2>0, <3>1 DEF OriginInv
    <3>2. CASE pc = "member" /\ member <= Len(Members) /\ d \in Missing(MemberFolder)
      <4> DEFINE t == MemberTarget(Members[member])
      <4>1. member \in DOMAIN Members /\ MemberFolder \in Path /\ job.dest \in Path /\ t \in Path /\ t # <<>>
        BY <3>2, MemberFacts
      <4>2. d \in Path /\ IsPrefix(d, MemberFolder)
        BY <3>2, <4>1, MissingPaths
      <4>3. CASE Members[member].dir
        BY <4>1, <4>2, <4>3 DEF MemberFolder
      <4>4. CASE ~Members[member].dir
        <5>1. MemberFolder = Front(t)
          BY <4>4 DEF MemberFolder
        <5>2. Front(t) \in Path /\ IsPrefix(Front(t), t) /\ Len(Front(t)) < Len(t)
          BY <4>1, FrontPath, PrefixOrder
        <5>3. IsPrefix(d, t) /\ d # t
          BY <4>1, <4>2, <5>1, <5>2, PrefixOrder
        <5> QED BY <4>1, <5>3
      <4> QED BY <4>3, <4>4
    <3> QED BY <1>2, <2>2, <3>1, <3>2
  <2> QED BY <2>0, <2>1, <2>2 DEF OriginInv
<1> QED BY <1>1, <1>2, OriginStep

\* What the rollback of extractZip holds, and so what a failed one can leave, comes
\* from the archive.
LEMMA OriginAlways == Spec => []OriginInv
<1>1. Init => OriginInv
  BY DEF Init, JobInit, NoJob, OriginInv
<1>2. ExplorerInv /\ OriginInv /\ [Next]_vars => OriginInv'
  <2>1. ASSUME ExplorerInv, OriginInv, UNCHANGED vars
        PROVE  OriginInv'
    <3>1. UNCHANGED <<job, made, dirs>>
      BY <2>1 DEF vars, jobVars, workVars, undo
    <3> QED BY <2>1, <3>1 DEF OriginInv, MemberTarget
  <2> QED BY <2>1, OriginKept
<1> QED BY <1>1, <1>2, ExplorerAlways, PTL DEF Spec

\* What explorer::run reports is what the card holds: after success every source is
\* at its target, gone or extracted; after an error nothing is left of an
\* extraction, and of a copy or a move nothing but targets; and where the clean-up
\* failed as well, what it left is under a temporary name or of the archive.
THEOREM ExplorerResultTrue == Spec => []ResultTrue
<1>1. ASSUME ExplorerInv, result = "ok"
      PROVE  CASE job.op \in {"copy", "move"} -> \A s \in job.sources : Target(s) \in Paths
               [] job.op = "delete" -> \A p \in Paths : ~Sourced(p)
               [] OTHER -> \A i \in DOMAIN Members : MemberTarget(Members[i]) \in Paths
  <2>0. pc = "ended" /\ busy /\ job.op \in {"copy", "move", "delete", "zip"}
    BY <1>1 DEF ExplorerInv, Types, HandInv
  <2>1. CASE job.op \in {"copy", "move"}
    <3>1. \A s \in job.sources : Target(s) \in Paths
      BY <1>1, <2>0, <2>1 DEF ExplorerInv, TargetInv, InHand, Writing
    <3> QED BY <2>1, <3>1
  <2>2. CASE job.op = "delete"
    <3>1. \A s \in job.sources : Under(fs, s) = {}
      BY <1>1, <2>0, <2>2 DEF ExplorerInv, DeleteInv, InHand, Writing
    <3>2. \A p \in Paths : ~Sourced(p)
      BY <3>1 DEF Sourced, Under, Paths
    <3> QED BY <2>2, <3>2
  <2>3. CASE job.op = "zip"
    <3>1. ASSUME NEW i \in DOMAIN Members
          PROVE  MemberTarget(Members[i]) \in Paths
      <4>1. i \in Nat /\ Len(Members) \in Nat /\ i <= Len(Members)
        BY <3>1, ExplorerAssumption, LenProperties
      <4>2. member \in Nat /\ member > Len(Members)
        BY <1>1, <2>3 DEF ExplorerInv, ZipInv, Types
      <4> QED BY <1>1, <2>3, <3>1, <4>1, <4>2 DEF ExplorerInv, ZipInv
    <3> QED BY <2>3, <3>1
  <2> QED BY <2>0, <2>1, <2>2, <2>3
<1>2. ASSUME ExplorerInv, result = "error"
      PROVE  CASE job.op \in {"copy", "move"} ->
                     Paths \ DOMAIN before \subseteq UNION {Under(fs, Target(s)) : s \in job.sources}
               [] OTHER -> Paths \ DOMAIN before = {}
  <2>0. /\ pc = "ended" /\ busy /\ job.op \in {"copy", "move", "delete", "zip"}
        /\ staging = <<>> /\ made = <<>> /\ dirs = {} /\ file.tmp = <<>> /\ \A p \in Paths : p # <<>>
    <3>1. pc = "ended" /\ busy
      BY <1>2 DEF ExplorerInv, Types
    <3>2. /\ job.op \in {"copy", "move", "delete", "zip"} /\ staging = <<>> /\ made = <<>> /\ dirs = {}
          /\ file = NoFile
      BY <1>2, <3>1 DEF ExplorerInv, Types, HandInv, Writing
    <3>3. \A p \in Paths : p # <<>>
      BY <1>2, TreeFacts DEF ExplorerInv, CardInv, Paths
    <3> QED BY <3>1, <3>2, <3>3 DEF NoFile
  <2>1. CASE job.op \in {"copy", "move"}
    <3>1. \A x \in New : \E s \in job.sources : IsPrefix(Target(s), x)
      BY <1>2, <2>0, <2>1 DEF ExplorerInv, TargetInv, New
    <3>2. Paths \ DOMAIN before \subseteq UNION {Under(fs, Target(s)) : s \in job.sources}
      BY <3>1 DEF New, Under, Paths
    <3> QED BY <2>1, <3>2
  <2>2. CASE job.op = "delete"
    BY <1>2, <2>2 DEF ExplorerInv, DeleteInv
  <2>3. CASE job.op = "zip"
    <3>1. New = {}
      BY <1>2, <2>0, <2>3 DEF ExplorerInv, ZipInv, Range, New
    <3> QED BY <2>3, <3>1 DEF New
  <2> QED BY <2>0, <2>1, <2>2, <2>3
<1>3. ASSUME ExplorerInv, OriginInv, result = "remains"
      PROVE  CASE job.op = "copy" ->
                     \A p \in (Paths \ DOMAIN before) \ UNION {Under(fs, Target(s)) : s \in job.sources} : OfCopy(p)
               [] job.op = "zip" -> \A p \in Paths \ DOMAIN before : OfZip(p)
               [] OTHER -> FALSE
  <2>0. /\ job.op \in {"copy", "zip"} /\ job.dest \in Path /\ staging \in Path /\ file.tmp \in Path
        /\ \A p \in Paths : p \in Path /\ p # <<>>
    <3>1. job.op \in {"copy", "zip"} /\ job.dest \in Path /\ staging \in Path /\ file.tmp \in Path
      BY <1>3 DEF ExplorerInv, Types, HandInv
    <3> QED BY <1>3, <3>1, TreeFacts DEF ExplorerInv, CardInv, Paths
  <2>1. ASSUME job.op = "copy",
               NEW p \in (Paths \ DOMAIN before) \ UNION {Under(fs, Target(s)) : s \in job.sources}
        PROVE  OfCopy(p)
    <3>1. p = file.tmp \/ (staging # <<>> /\ IsPrefix(staging, p))
      BY <1>3, <2>1 DEF ExplorerInv, TargetInv, New, Under, Paths
    <3>2. CASE staging # <<>> /\ IsPrefix(staging, p)
      <4>1. Front(staging) = job.dest /\ Last(staging) \in Range(Temps)
        BY <1>3, <2>1, <3>2 DEF ExplorerInv, CopyInv
      <4>2. staging = Append(job.dest, Last(staging))
        BY <2>0, <3>2, <4>1, FrontAppend
      <4> QED BY <3>2, <4>1, <4>2 DEF OfCopy
    <3>3. CASE p = file.tmp /\ staging = <<>>
      <4>1. Front(p) = job.dest /\ Last(p) \in Range(Temps) /\ p \in Path /\ p # <<>>
        BY <1>3, <2>0, <2>1, <3>3 DEF ExplorerInv, CopyInv, TempInv
      <4>2. p = Append(job.dest, Last(p))
        BY <4>1, FrontAppend
      <4>3. IsPrefix(p, p)
        BY <4>1, PrefixOrder
      <4> QED BY <4>1, <4>2, <4>3 DEF OfCopy
    <3>4. CASE p = file.tmp /\ staging # <<>>
      BY <1>3, <2>0, <2>1, <3>2, <3>4 DEF ExplorerInv, CopyInv
    <3> QED BY <3>1, <3>2, <3>3, <3>4
  <2>2. ASSUME job.op = "zip", NEW p \in Paths \ DOMAIN before
        PROVE  OfZip(p)
    <3>1. p \in {file.tmp} \cup Range(made) \cup dirs /\ p \in Path /\ p # <<>>
      BY <1>3, <2>0, <2>2 DEF ExplorerInv, ZipInv, New
    <3>2. CASE p = file.tmp
      BY <1>3, <3>1, <3>2 DEF ExplorerInv, TempInv, OfZip, Temporary
    <3>3. CASE p \in Range(made)
      <4>1. PICK j \in DOMAIN Members : p = MemberTarget(Members[j])
        BY <1>3, <2>2, <3>3 DEF OriginInv
      <4>2. IsPrefix(p, MemberTarget(Members[j]))
        BY <3>1, <4>1, PrefixOrder
      <4> QED BY <4>2 DEF OfZip
    <3>4. CASE p \in dirs
      BY <1>3, <2>2, <3>4 DEF OriginInv, OfZip
    <3> QED BY <3>1, <3>2, <3>3, <3>4
  <2> QED BY <2>0, <2>1, <2>2
<1>4. ExplorerInv /\ OriginInv => ResultTrue
  BY <1>1, <1>2, <1>3 DEF ResultTrue
<1> QED BY <1>4, ExplorerAlways, OriginAlways, PTL

\* A job that has succeeded is not changed before its end is seen.
LEMMA SuccessStep ==
    ASSUME ExplorerInv, Next, result' = "ok"
    PROVE  UNCHANGED <<fs, before, job, file>>
<1>1. CASE User
  <2>1. CASE Navigate \/ SwitchPane \/ StageClipboard \/ RenameEntry \/ CreateFolder \/ Paste \/ ToOtherPane \/ Delete \/ ExtractZip
    <3>1. ~busy
      BY <2>1 DEF Navigate, SwitchPane, StageClipboard, RenameEntry, CreateFolder, Edit, Paste, ToOtherPane,
                  Delete, ExtractZip, Start, Idle
    <3>2. result = "none"
      BY <3>1, IdleFacts
    <3>3. result' = "none"
      BY <2>1, <3>2 DEF Navigate, SwitchPane, StageClipboard, RenameEntry, CreateFolder, Edit, Paste, ToOtherPane,
                  Delete, ExtractZip, Start, Rest, workVars
    <3> QED BY <3>3
  <2>2. CASE Cancel
    BY <2>2 DEF Cancel, jobVars, workVars
  <2> QED BY <1>1, <2>1, <2>2 DEF User
<1>2. CASE FinishJob \/ PowerLoss
  BY <1>2 DEF FinishJob, PowerLoss, Rest
<1>3. CASE Succeed
  BY <1>3 DEF Succeed, jobVars
<1>4. CASE Work /\ ~Succeed
  <2>1. pc # "ended"
    BY <1>4 DEF Work, Preflight, NextSource, DeleteNode, CopyNode, OpenTemp, FillTemp, CommitTemp, NextMember, Unwind,
              UnwindRemains
  <2>2. result # "ok"
    BY <2>1 DEF ExplorerInv, Types
  <2>3. result' \in {result, "error", "remains"}
    BY <1>4 DEF Work, Preflight, NextSource, DeleteNode, CopyNode, OpenTemp, FillTemp, CommitTemp, NextMember, Unwind,
              UnwindRemains, Throw
  <2> QED BY <2>2, <2>3
<1> QED BY <1>1, <1>2, <1>3, <1>4 DEF Next, WorkStep

\* In an archive without a file inside a file, what stands under the name of a
\* member is that member: extractZip renames a file to its name only when it is
\* complete, and makes directories only above members.
THEOREM ExplorerMembersWhole == PlainZip /\ Spec => [](OriginInv /\ MembersWhole)
<1> SUFFICES ASSUME PlainZip
             PROVE  Spec => [](OriginInv /\ MembersWhole)
  OBVIOUS
<1>1. Init => MembersWhole
  BY DEF Init, JobInit, NoJob, MembersWhole
<1>2. ExplorerInv /\ OriginInv => WholeSoFar
  BY OriginWhole DEF WholeSoFar
<1>4. ExplorerInv /\ MembersWhole /\ [Next]_vars /\ WholeSoFar' => MembersWhole'
  <2> SUFFICES ASSUME ExplorerInv, MembersWhole, [Next]_vars, result' = "ok"
               PROVE  MembersWhole'
    BY DEF WholeSoFar
  <2>1. UNCHANGED <<fs, before, job, file>>
    BY SuccessStep DEF vars, jobVars, workVars
  <2> QED BY <2>1 DEF MembersWhole, MemberTarget, New, Paths
<1> QED BY <1>1, <1>2, <1>4, ExplorerAlways, OriginAlways, PTL DEF Spec

\* Whatever stands under a final name is whole at every moment, and so after a
\* power cut: a copied tree has all of its files, a moved one is in one of its two
\* places, an extracted file has its content.
THEOREM ExplorerTargetsWhole == PlainZip /\ Spec => []TargetsWhole
<1>1. ExplorerInv => TypeOK
  BY DEF ExplorerInv, Types, CardInv, HandInv, TypeOK, Writing
<1>2. ASSUME ExplorerInv, job.op \in {"copy", "move"}, NEW s \in job.sources
      PROVE  /\ Target(s) \in Paths \ DOMAIN before /\ ~Temporary(Target(s)) =>
                   \A q \in Under(before, s) : LET t == Moved(q, s, Target(s)) IN
                      t \in Paths /\ fs[t] = before[q]
             /\ job.op = "move" /\ s \in DOMAIN before /\ Target(s) \notin DOMAIN before =>
                   ((s \in Paths) # (Target(s) \in Paths))
  <2>1. ASSUME Target(s) \in Paths \ DOMAIN before, ~Temporary(Target(s))
        PROVE  Whole(s)
    <3>1. Target(s) # <<>>
      BY <1>2, SourceFacts
    <3>2. Target(s) # file.tmp
      BY <1>2, <2>1, <3>1 DEF ExplorerInv, TempInv, Temporary
    <3>3. Target(s) # staging
      <4>1. CASE job.op = "copy"
        BY <1>2, <2>1, <3>1, <4>1 DEF ExplorerInv, CopyInv, Temporary
      <4>2. CASE job.op = "move"
        BY <1>2, <3>1, <4>2 DEF ExplorerInv, MoveInv
      <4> QED BY <1>2, <4>1, <4>2
    <3> QED BY <1>2, <2>1, <3>2, <3>3 DEF ExplorerInv, TargetInv, New
  <2>2. job.op = "move" /\ s \in DOMAIN before /\ Target(s) \notin DOMAIN before =>
           ((s \in Paths) # (Target(s) \in Paths))
    BY <1>2 DEF ExplorerInv, MoveInv
  <2> QED BY <2>1, <2>2 DEF Whole
<1>3. ASSUME ExplorerInv, MembersWhole, job.op = "zip", NEW i \in DOMAIN Members
      PROVE  LET t == MemberTarget(Members[i]) IN
             t \in Paths \ DOMAIN before /\ ~Temporary(t) => fs[t] = IF Members[i].dir THEN "dir" ELSE "member"
  <2> SUFFICES ASSUME MemberTarget(Members[i]) \in Paths \ DOMAIN before, ~Temporary(MemberTarget(Members[i]))
               PROVE  fs[MemberTarget(Members[i])] = IF Members[i].dir THEN "dir" ELSE "member"
    OBVIOUS
  <2>1. MemberTarget(Members[i]) # <<>>
    BY <1>3, MemberPath DEF ExplorerInv, Types
  <2>2. MemberTarget(Members[i]) # file.tmp
    BY <1>3, <2>1 DEF ExplorerInv, TempInv, Temporary
  <2> QED BY <1>3, <2>2 DEF MembersWhole, New
<1>4. ExplorerInv /\ MembersWhole => TargetsWhole
  BY <1>1, <1>2, <1>3 DEF TargetsWhole
<1> QED BY <1>4, ExplorerAlways, ExplorerMembersWhole, PTL

=============================================================================
