--------------------------- MODULE InstallStream ---------------------------
(***************************************************************************)
(* mtp::InstallStream: the bounded ring of bytes between the MTP USB       *)
(* thread (push, closeProducer, cancel) and the installer worker           *)
(* (readExact, finishConsumer).  A step is one critical section; the       *)
(* notification that follows it, outside the mutex, is a step of its own,  *)
(* and a thread whose wait predicate is false sleeps until it is notified  *)
(* or wakes for no reason.  A byte is its position in the object.          *)
(***************************************************************************)
EXTENDS Integers, Sequences

CONSTANT Capacity       \* bytes in the ring

ASSUME CapacityAssumption == Capacity \in Nat \ {0}

VARIABLES
    buffer, readPos, writePos, used,
    producerDone, consumerDone, cancelledFlag,
    pushed,             \* bytes push has accepted
    consumed,           \* bytes readExact has copied out
    got,                \* those bytes, in the order the installer saw them
    pstep,              \* where the producer stands in the stream's methods
    psize, pleft,       \* push: its size argument and what of it is left
    pok,                \* what the last push returned
    cstep, cleft, cok   \* the consumer and its readExact

ring == <<buffer, readPos, writePos, used>>
flags == <<producerDone, consumerDone, cancelledFlag>>
pvars == <<pstep, psize, pleft, pok>>
cvars == <<cstep, cleft, cok>>
svars == <<buffer, readPos, writePos, used, producerDone, consumerDone,
           cancelledFlag, pushed, consumed, got, pstep, psize, pleft, pok,
           cstep, cleft, cok>>

Slots == 0..Capacity - 1
Least(a, b) == IF a <= b THEN a ELSE b

\* A new stream with no call in progress.
StreamInit ==
    /\ buffer = [i \in Slots |-> 0]
    /\ readPos = 0 /\ writePos = 0 /\ used = 0
    /\ producerDone = FALSE /\ consumerDone = FALSE /\ cancelledFlag = FALSE
    /\ pushed = 0 /\ consumed = 0 /\ got = <<>>
    /\ pstep = "idle" /\ psize = 0 /\ pleft = 0 /\ pok = TRUE
    /\ cstep = "idle" /\ cleft = 0 /\ cok = TRUE

\* InstallStream::InstallStream, as a step of the thread that creates it.
NewStream ==
    /\ buffer' = [i \in Slots |-> 0]
    /\ readPos' = 0 /\ writePos' = 0 /\ used' = 0
    /\ producerDone' = FALSE /\ consumerDone' = FALSE /\ cancelledFlag' = FALSE
    /\ pushed' = 0 /\ consumed' = 0 /\ got' = <<>>
    /\ pstep' = "idle" /\ psize' = 0 /\ pleft' = 0 /\ pok' = TRUE
    /\ cstep' = "idle" /\ cleft' = 0 /\ cok' = TRUE

\* notify_one / notify_all on a condition variable with one possible waiter.
Wake(step) == IF step = "asleep" THEN "lock" ELSE step

-----------------------------------------------------------------------------
(* push                                                                    *)

CallPush(n) ==
    /\ pstep = "idle"
    /\ pstep' = "lock" /\ psize' = n /\ pleft' = n
    /\ UNCHANGED <<ring, flags, pushed, consumed, got, pok, cvars>>

PushSleeps ==
    /\ pstep = "lock"
    /\ ~cancelledFlag /\ ~consumerDone /\ used = Capacity
    /\ pstep' = "asleep"
    /\ UNCHANGED <<ring, flags, pushed, consumed, got, psize, pleft, pok, cvars>>

\* A cancelled stream refuses the rest; one whose installer has returned takes
\* it without keeping it.
PushReturns ==
    /\ pstep = "lock"
    /\ cancelledFlag \/ consumerDone
    /\ pok' = ~cancelledFlag
    /\ pushed' = IF cancelledFlag THEN pushed ELSE pushed + pleft
    /\ pstep' = "idle" /\ pleft' = 0
    /\ UNCHANGED <<ring, flags, consumed, got, psize, cvars>>

\* Mutant: the free room is taken as one run although it wraps.
PushCopiesPastEnd ==
    /\ pstep = "lock"
    /\ ~cancelledFlag /\ ~consumerDone /\ used < Capacity
    /\ LET chunk == Least(pleft, Capacity - used)
       IN /\ buffer' = [i \in Slots |-> IF i \in writePos..writePos + chunk - 1
                                        THEN pushed + i - writePos ELSE buffer[i]]
          /\ writePos' = (writePos + chunk) % Capacity
          /\ used' = used + chunk
          /\ pushed' = pushed + chunk
          /\ pleft' = pleft - chunk
    /\ pstep' = "notify"
    /\ UNCHANGED <<readPos, flags, consumed, got, psize, pok, cvars>>

PushCopies ==
    /\ pstep = "lock"
    /\ ~cancelledFlag /\ ~consumerDone /\ used < Capacity
    /\ LET contiguous == Least(Capacity - writePos, Capacity - used)
           chunk == Least(pleft, contiguous)
       IN /\ buffer' = [i \in Slots |-> IF i \in writePos..writePos + chunk - 1
                                        THEN pushed + i - writePos ELSE buffer[i]]
          /\ writePos' = (writePos + chunk) % Capacity
          /\ used' = used + chunk
          /\ pushed' = pushed + chunk
          /\ pleft' = pleft - chunk
    /\ pstep' = "notify"
    /\ UNCHANGED <<readPos, flags, consumed, got, psize, pok, cvars>>

PushNotifies ==
    /\ pstep = "notify"
    /\ cstep' = Wake(cstep)
    /\ pstep' = IF pleft = 0 THEN "idle" ELSE "lock"
    /\ pok' = TRUE
    /\ UNCHANGED <<ring, flags, pushed, consumed, got, psize, pleft, cleft, cok>>

-----------------------------------------------------------------------------
(* readExact                                                               *)

CallReadExact(n) ==
    /\ cstep = "idle"
    /\ cstep' = "lock" /\ cleft' = n
    /\ UNCHANGED <<ring, flags, pushed, consumed, got, pvars, cok>>

ReadSleeps ==
    /\ cstep = "lock"
    /\ ~cancelledFlag /\ used = 0 /\ ~producerDone
    /\ cstep' = "asleep"
    /\ UNCHANGED <<ring, flags, pushed, consumed, got, pvars, cleft, cok>>

ReadFails ==
    /\ cstep = "lock"
    /\ cancelledFlag \/ (used = 0 /\ producerDone)
    /\ cok' = FALSE
    /\ cstep' = "idle" /\ cleft' = 0
    /\ UNCHANGED <<ring, flags, pushed, consumed, got, pvars>>

ReadCopies ==
    /\ cstep = "lock"
    /\ ~cancelledFlag /\ used > 0
    /\ LET contiguous == Least(Capacity - readPos, used)
           chunk == Least(cleft, contiguous)
       IN /\ got' = got \o [k \in 1..chunk |-> buffer[readPos + k - 1]]
          /\ readPos' = (readPos + chunk) % Capacity
          /\ used' = used - chunk
          /\ consumed' = consumed + chunk
          /\ cleft' = cleft - chunk
    /\ cstep' = "notify"
    /\ UNCHANGED <<buffer, writePos, flags, pushed, pvars, cok>>

ReadNotifies ==
    /\ cstep = "notify"
    /\ pstep' = Wake(pstep)
    /\ cstep' = IF cleft = 0 THEN "idle" ELSE "lock"
    /\ cok' = TRUE
    /\ UNCHANGED <<ring, flags, pushed, consumed, got, psize, pleft, pok, cleft>>

-----------------------------------------------------------------------------
(* Ending a stream: a flag under the mutex, then both notify_all.          *)

CloseProducer ==
    /\ pstep = "idle"
    /\ producerDone' = TRUE
    /\ pstep' = "closing"
    /\ UNCHANGED <<ring, consumerDone, cancelledFlag, pushed, consumed, got,
                   psize, pleft, pok, cvars>>

CancelStream ==
    /\ pstep = "idle"
    /\ cancelledFlag' = TRUE
    /\ pstep' = "closing"
    /\ UNCHANGED <<ring, producerDone, consumerDone, pushed, consumed, got,
                   psize, pleft, pok, cvars>>

ProducerNotifies ==
    /\ pstep = "closing"
    /\ pstep' = "closed"
    /\ cstep' = Wake(cstep)
    /\ UNCHANGED <<ring, flags, pushed, consumed, got, psize, pleft, pok,
                   cleft, cok>>

FinishConsumer ==
    /\ cstep = "idle"
    /\ consumerDone' = TRUE
    /\ used' = 0 /\ readPos' = writePos
    /\ cstep' = "finishing"
    /\ UNCHANGED <<buffer, writePos, producerDone, cancelledFlag, pushed,
                   consumed, got, pvars, cleft, cok>>

\* Mutant: finishConsumer notifies only its own condition variable.
ConsumerNotifiesNobody ==
    /\ cstep = "finishing"
    /\ cstep' = "finished"
    /\ UNCHANGED <<ring, flags, pushed, consumed, got, pvars, cleft, cok>>

ConsumerNotifies ==
    /\ cstep = "finishing"
    /\ cstep' = "finished"
    /\ pstep' = Wake(pstep)
    /\ UNCHANGED <<ring, flags, pushed, consumed, got, psize, pleft, pok,
                   cleft, cok>>

\* A condition variable may wake its waiter without a notification.
SpuriousWakeup ==
    /\ pstep = "asleep" \/ cstep = "asleep"
    /\ pstep' \in {pstep, Wake(pstep)}
    /\ cstep' = IF pstep' = pstep THEN Wake(cstep) ELSE cstep
    /\ UNCHANGED <<ring, flags, pushed, consumed, got, psize, pleft, pok,
                   cleft, cok>>

-----------------------------------------------------------------------------
\* What the two threads do inside the stream's methods.
InPush == PushSleeps \/ PushReturns \/ PushCopies \/ PushNotifies
InRead == ReadSleeps \/ ReadFails \/ ReadCopies \/ ReadNotifies

\* Every way the stream changes, whoever calls it.
StreamNext ==
    \/ NewStream
    \/ \E n \in Nat \ {0} : CallPush(n) \/ CallReadExact(n)
    \/ InPush \/ InRead
    \/ CloseProducer \/ CancelStream \/ ProducerNotifies
    \/ FinishConsumer \/ ConsumerNotifies
    \/ SpuriousWakeup

-----------------------------------------------------------------------------
\* The k-th byte still queued is at this slot.
Slot(k) == IF readPos + k < Capacity THEN readPos + k ELSE readPos + k - Capacity

StreamTypeOK ==
    /\ buffer \in [Slots -> Nat]
    /\ readPos \in Slots /\ writePos \in Slots /\ used \in 0..Capacity
    /\ producerDone \in BOOLEAN /\ consumerDone \in BOOLEAN /\ cancelledFlag \in BOOLEAN
    /\ pushed \in Nat /\ consumed \in Nat /\ got \in Seq(Nat)
    /\ pstep \in {"idle", "lock", "asleep", "notify", "closing", "closed"}
    /\ psize \in Nat /\ pleft \in 0..psize /\ pok \in BOOLEAN
    /\ cstep \in {"idle", "lock", "asleep", "notify", "finishing", "finished"}
    /\ cleft \in Nat /\ cok \in BOOLEAN

\* The write position is where the queued bytes end.
RingShape == writePos = Slot(used)

\* The ring holds exactly the next bytes of the object, in order.
RingHolds ==
    /\ ~consumerDone => pushed = consumed + used
    /\ \A k \in 0..used - 1 : buffer[Slot(k)] = consumed + k

\* The installer sees every byte of the object once and in order, however
\* push and readExact cut the object up and wherever the ring wraps.
InOrder == Len(got) = consumed /\ \A i \in 1..Len(got) : got[i] = i - 1

\* Nothing is left to a returned consumer, and nobody waits for it.
AfterConsumer ==
    /\ consumerDone => used = 0 /\ cstep \in {"finishing", "finished"}
    /\ cstep \in {"finishing", "finished"} => consumerDone
    /\ pstep \in {"lock", "asleep"} => pleft > 0
    /\ cstep \in {"lock", "asleep"} => cleft > 0

\* A sleeping thread has a reason: nothing it waits for has happened, or the
\* thread that made it happen is about to notify it.  (No wake-up is lost.)
NoLostWakeup ==
    /\ pstep = "asleep" =>
          (used = Capacity /\ ~consumerDone) \/ cstep \in {"notify", "finishing"}
    /\ cstep = "asleep" =>
          \/ used = 0 /\ ~producerDone /\ ~cancelledFlag
          \/ pstep \in {"notify", "closing"}

\* push and readExact, interleaved at every unlock, keep the ring a window on
\* the object: bytes arrive once and in order, and nobody sleeps through the
\* notification that is meant for it.
StreamInv == /\ StreamTypeOK /\ RingShape /\ RingHolds /\ InOrder
             /\ AfterConsumer /\ NoLostWakeup

\* The bytes queued in the ring, as the abstract stream sees them.
Bytes == INSTANCE ByteStream
             WITH queue <- [k \in 1..used |-> buffer[Slot(k - 1)]]
=============================================================================
