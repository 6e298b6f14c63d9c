----------------------------- MODULE ByteStream -----------------------------
(***************************************************************************)
(* What mtp::InstallStream promises: a bounded first-in first-out queue of *)
(* bytes.  A byte is named by its position in the object being sent, so    *)
(* `Accept' says that nothing is lost, repeated or reordered on the way in *)
(* and `Deliver' the same on the way out.                                  *)
(***************************************************************************)
EXTENDS Integers, Sequences

CONSTANT Capacity

VARIABLES
    queue,      \* accepted and not yet delivered
    got         \* delivered to the installer

Accept(n) ==
    /\ Len(queue) + n <= Capacity
    /\ queue' = queue \o [k \in 1..n |-> Len(got) + Len(queue) + k - 1]
    /\ UNCHANGED got

Deliver(n) ==
    /\ got' = got \o SubSeq(queue, 1, n)
    /\ queue' = SubSeq(queue, n + 1, Len(queue))

\* The installer has returned: what is still queued is not needed.
Discard == queue' = <<>> /\ UNCHANGED got

\* The next transfer has a stream of its own.
Renew == queue' = <<>> /\ got' = <<>>

Init == queue = <<>> /\ got = <<>>

Next == \/ \E n \in 1..Capacity : Accept(n)
        \/ \E n \in 1..Len(queue) : Deliver(n)
        \/ Discard
        \/ Renew

Spec == Init /\ [][Next]_<<queue, got>>
=============================================================================
