------------------------- MODULE MtpTransferProofs -------------------------
(***************************************************************************)
(* The install stream under the MTP server, for every ring capacity and    *)
(* every object size: its inductive invariant, and with it that the        *)
(* installer sees the object's bytes in order and that no wake-up is lost. *)
(***************************************************************************)
EXTENDS MtpTransfer, TLAPS

\* A position that has just reached the end of the ring wraps to its start.
LEMMA Wrap == ASSUME NEW x \in 0..Capacity
              PROVE  x % Capacity = IF x = Capacity THEN 0 ELSE x
<1>1. CASE x = Capacity
      BY <1>1, CapacityAssumption
<1>2. CASE x < Capacity
      BY <1>2, CapacityAssumption
<1> QED BY <1>1, <1>2, CapacityAssumption

\* A new stream satisfies the invariant.
LEMMA StreamStart == StreamInit => StreamInv
<1> SUFFICES ASSUME StreamInit PROVE StreamInv
    OBVIOUS
<1> USE CapacityAssumption DEF StreamInit, Slots
<1>1. StreamTypeOK
  <2>1. /\ buffer \in [Slots -> Nat]
        /\ readPos \in Slots /\ writePos \in Slots /\ used \in 0..Capacity
        /\ pushed \in Nat /\ consumed \in Nat /\ got \in Seq(Nat)
        OBVIOUS
  <2>2. /\ producerDone \in BOOLEAN /\ consumerDone \in BOOLEAN /\ cancelledFlag \in BOOLEAN
        /\ pok \in BOOLEAN /\ cok \in BOOLEAN
        BY Zenon
  <2>3. /\ pstep \in {"idle", "lock", "asleep", "notify", "closing", "closed"}
        /\ psize \in Nat /\ pleft \in 0..psize
        /\ cstep \in {"idle", "lock", "asleep", "notify", "finishing", "finished"}
        /\ cleft \in Nat
        OBVIOUS
  <2> QED BY <2>1, <2>2, <2>3 DEF StreamTypeOK
<1>2. RingShape /\ RingHolds /\ InOrder
      BY DEF RingShape, RingHolds, InOrder, Slot
<1>3. AfterConsumer /\ NoLostWakeup
      BY DEF AfterConsumer, NoLostWakeup
<1> QED BY <1>1, <1>2, <1>3 DEF StreamInv

\* push's critical section keeps it: the chunk goes behind the queued bytes.
LEMMA PushCopiesKeeps == StreamInv /\ PushCopies => StreamInv'
<1> SUFFICES ASSUME StreamInv, PushCopies PROVE StreamInv'
    OBVIOUS
<1> DEFINE contiguous == Least(Capacity - writePos, Capacity - used)
           chunk == Least(pleft, contiguous)
<1> USE CapacityAssumption
<1>t. StreamTypeOK /\ RingShape /\ RingHolds /\ InOrder /\ AfterConsumer /\ NoLostWakeup
      BY DEF StreamInv
<1>a. /\ chunk \in 1..Capacity /\ chunk <= pleft
      /\ writePos + chunk \in 0..Capacity /\ used + chunk \in 0..Capacity
      BY <1>t DEF StreamTypeOK, AfterConsumer, PushCopies, Slots, Least
<1>b. /\ buffer' = [i \in Slots |-> IF i \in writePos..writePos + chunk - 1
                                    THEN pushed + i - writePos ELSE buffer[i]]
      /\ writePos' = (writePos + chunk) % Capacity
      /\ used' = used + chunk /\ pushed' = pushed + chunk /\ pleft' = pleft - chunk
      /\ pstep' = "notify"
      /\ ~cancelledFlag /\ ~consumerDone /\ used < Capacity
      /\ readPos' = readPos /\ consumed' = consumed /\ got' = got
      /\ psize' = psize /\ pok' = pok /\ UNCHANGED flags /\ UNCHANGED cvars
      BY DEF PushCopies
<1>c. writePos' = IF writePos + chunk = Capacity THEN 0 ELSE writePos + chunk
      BY <1>a, <1>b, Wrap
<1> HIDE DEF contiguous, chunk
<1>1. StreamTypeOK'
  <2>1. buffer' \in [Slots -> Nat]
        BY <1>t, <1>a, <1>b DEF StreamTypeOK, Slots
  <2>2. /\ readPos' \in Slots /\ writePos' \in Slots /\ used' \in 0..Capacity
        /\ pushed' \in Nat /\ consumed' \in Nat /\ got' \in Seq(Nat)
        BY <1>t, <1>a, <1>b, <1>c DEF StreamTypeOK, Slots
  <2>3. /\ pstep' \in {"idle", "lock", "asleep", "notify", "closing", "closed"}
        /\ psize' \in Nat /\ pleft' \in 0..psize' /\ pok' \in BOOLEAN
        BY <1>t, <1>a, <1>b DEF StreamTypeOK
  <2>4. /\ producerDone' \in BOOLEAN /\ consumerDone' \in BOOLEAN /\ cancelledFlag' \in BOOLEAN
        /\ cstep' \in {"idle", "lock", "asleep", "notify", "finishing", "finished"}
        /\ cleft' \in Nat /\ cok' \in BOOLEAN
        BY <1>t, <1>b DEF StreamTypeOK, flags, cvars
  <2> QED BY <2>1, <2>2, <2>3, <2>4 DEF StreamTypeOK
<1>2. RingShape'
  <2>1. /\ readPos \in 0..Capacity - 1 /\ writePos \in 0..Capacity - 1 /\ used \in 0..Capacity - 1
        /\ writePos = IF readPos + used < Capacity THEN readPos + used
                      ELSE readPos + used - Capacity
        BY <1>t, <1>b DEF StreamTypeOK, RingShape, Slot, Slots
  <2>2. RingShape' <=> writePos' = IF readPos + (used + chunk) < Capacity
                                   THEN readPos + (used + chunk)
                                   ELSE readPos + (used + chunk) - Capacity
        BY <1>b DEF RingShape, Slot
  <2> QED BY <1>a, <1>c, <2>1, <2>2
<1>3. RingHolds'
  <2>1. (~consumerDone => pushed = consumed + used)'
        BY <1>t, <1>a, <1>b DEF StreamTypeOK, RingHolds, flags
  <2>2. ASSUME NEW k \in 0..used' - 1
        PROVE  (buffer[Slot(k)] = consumed + k)'
    <3>1. CASE k < used
      <4>1. Slot(k) \in Slots /\ Slot(k) \notin writePos..writePos + chunk - 1
            BY <1>t, <1>a, <2>2, <3>1 DEF StreamTypeOK, RingShape, Slot, Slots
      <4>2. buffer[Slot(k)] = consumed + k
            BY <1>t, <1>a, <1>b, <2>2, <3>1 DEF StreamTypeOK, RingHolds
      <4>3. Slot(k)' = Slot(k)
            BY <1>b DEF Slot
      <4> QED BY <1>b, <4>1, <4>2, <4>3
    <3>2. CASE k >= used
      <4>1. Slot(k) = writePos + (k - used)
            BY <1>t, <1>a, <1>b, <2>2, <3>2 DEF StreamTypeOK, RingShape, Slot, Slots
      <4>2. Slot(k) \in Slots /\ Slot(k) \in writePos..writePos + chunk - 1
            BY <1>t, <1>a, <1>b, <2>2, <3>2, <4>1 DEF StreamTypeOK, Slots
      <4>3. pushed + (k - used) = consumed + k
            BY <1>t, <1>a, <1>b, <2>2 DEF StreamTypeOK, RingHolds
      <4>4. Slot(k)' = Slot(k)
            BY <1>b DEF Slot
      <4>5. buffer'[Slot(k)] = pushed + Slot(k) - writePos
            BY <1>b, <4>2
      <4> QED BY <1>t, <1>a, <1>b, <2>2, <4>1, <4>3, <4>4, <4>5 DEF StreamTypeOK, Slots
    <3> QED BY <1>t, <1>a, <1>b, <2>2, <3>1, <3>2 DEF StreamTypeOK
  <2> QED BY <2>1, <2>2 DEF RingHolds
<1>4. InOrder'
      BY <1>t, <1>b DEF InOrder
<1>5. AfterConsumer' /\ NoLostWakeup'
      BY <1>t, <1>b DEF AfterConsumer, NoLostWakeup, flags, cvars
<1> QED BY <1>1, <1>2, <1>3, <1>4, <1>5 DEF StreamInv

\* readExact's critical section keeps it: the chunk is the oldest queued bytes.
LEMMA ReadCopiesKeeps == StreamInv /\ ReadCopies => StreamInv'
<1> SUFFICES ASSUME StreamInv, ReadCopies PROVE StreamInv'
    OBVIOUS
<1> DEFINE contiguous == Least(Capacity - readPos, used)
           chunk == Least(cleft, contiguous)
<1> USE CapacityAssumption
<1>t. StreamTypeOK /\ RingShape /\ RingHolds /\ InOrder /\ AfterConsumer /\ NoLostWakeup
      BY DEF StreamInv
<1>a. /\ chunk \in 1..Capacity /\ chunk <= cleft /\ chunk <= used
      /\ readPos + chunk \in 0..Capacity
      BY <1>t DEF StreamTypeOK, AfterConsumer, ReadCopies, Slots, Least
<1>b. /\ got' = got \o [k \in 1..chunk |-> buffer[readPos + k - 1]]
      /\ readPos' = (readPos + chunk) % Capacity
      /\ used' = used - chunk /\ consumed' = consumed + chunk /\ cleft' = cleft - chunk
      /\ cstep' = "notify" /\ cstep = "lock"
      /\ ~cancelledFlag /\ used > 0
      /\ buffer' = buffer /\ writePos' = writePos /\ pushed' = pushed
      /\ cok' = cok /\ UNCHANGED flags /\ UNCHANGED pvars
      BY DEF ReadCopies
<1>c. readPos' = IF readPos + chunk = Capacity THEN 0 ELSE readPos + chunk
      BY <1>a, <1>b, Wrap
<1> HIDE DEF contiguous, chunk
<1>d. \A k \in 1..chunk : /\ readPos + k - 1 \in Slots
                           /\ buffer[readPos + k - 1] = consumed + k - 1
  <2> SUFFICES ASSUME NEW k \in 1..chunk
               PROVE  /\ readPos + k - 1 \in Slots
                      /\ buffer[readPos + k - 1] = consumed + k - 1
      OBVIOUS
  <2>1. k - 1 \in 0..used - 1 /\ Slot(k - 1) = readPos + k - 1 /\ readPos + k - 1 \in Slots
        BY <1>t, <1>a DEF StreamTypeOK, Slot, Slots
  <2>2. buffer[Slot(k - 1)] = consumed + (k - 1)
        BY <1>t, <2>1 DEF RingHolds
  <2> QED BY <1>t, <2>1, <2>2 DEF StreamTypeOK
<1>e. [k \in 1..chunk |-> buffer[readPos + k - 1]] \in Seq(Nat)
  <2>1. [k \in 1..chunk |-> buffer[readPos + k - 1]] \in [1..chunk -> Nat]
        BY <1>t, <1>a, <1>d DEF StreamTypeOK
  <2> QED BY <1>a, <2>1
<1>1. StreamTypeOK'
  <2>1. /\ buffer' \in [Slots -> Nat]
        /\ readPos' \in Slots /\ writePos' \in Slots /\ used' \in 0..Capacity
        /\ pushed' \in Nat /\ consumed' \in Nat
        BY <1>t, <1>a, <1>b, <1>c DEF StreamTypeOK, Slots
  <2>2. got' \in Seq(Nat)
        BY <1>t, <1>b, <1>e DEF StreamTypeOK
  <2>3. /\ cstep' \in {"idle", "lock", "asleep", "notify", "finishing", "finished"}
        /\ cleft' \in Nat /\ cok' \in BOOLEAN
        BY <1>t, <1>a, <1>b DEF StreamTypeOK
  <2>4. /\ producerDone' \in BOOLEAN /\ consumerDone' \in BOOLEAN /\ cancelledFlag' \in BOOLEAN
        /\ pstep' \in {"idle", "lock", "asleep", "notify", "closing", "closed"}
        /\ psize' \in Nat /\ pleft' \in 0..psize' /\ pok' \in BOOLEAN
        BY <1>t, <1>b DEF StreamTypeOK, flags, pvars
  <2> QED BY <2>1, <2>2, <2>3, <2>4 DEF StreamTypeOK
<1>s. /\ readPos \in 0..Capacity - 1 /\ writePos \in 0..Capacity - 1 /\ used \in 1..Capacity
      /\ writePos = IF readPos + used < Capacity THEN readPos + used
                    ELSE readPos + used - Capacity
      BY <1>t, <1>b DEF StreamTypeOK, RingShape, Slot, Slots
<1>2. RingShape'
  <2>1. RingShape' <=> writePos = IF readPos' + (used - chunk) < Capacity
                                  THEN readPos' + (used - chunk)
                                  ELSE readPos' + (used - chunk) - Capacity
        BY <1>b DEF RingShape, Slot
  <2> QED BY <1>a, <1>c, <1>s, <2>1
<1>3. RingHolds'
  <2>1. (~consumerDone => pushed = consumed + used)'
        BY <1>t, <1>a, <1>b DEF StreamTypeOK, RingHolds, flags
  <2>2. ASSUME NEW k \in 0..used' - 1
        PROVE  (buffer[Slot(k)] = consumed + k)'
    <3>1. k + chunk \in 0..used - 1
          BY <1>t, <1>a, <1>b, <2>2 DEF StreamTypeOK
    <3>2. Slot(k)' = IF readPos' + k < Capacity THEN readPos' + k ELSE readPos' + k - Capacity
          BY DEF Slot
    <3>3. Slot(k)' = Slot(k + chunk)
          BY <1>a, <1>c, <1>s, <3>1, <3>2, <2>2 DEF Slot
    <3>4. buffer[Slot(k + chunk)] = consumed + (k + chunk)
          BY <1>t, <3>1 DEF RingHolds
    <3> QED BY <1>t, <1>a, <1>b, <2>2, <3>3, <3>4 DEF StreamTypeOK
  <2> QED BY <2>1, <2>2 DEF RingHolds
<1>4. InOrder'
  <2> DEFINE new == [k \in 1..chunk |-> buffer[readPos + k - 1]]
  <2>1. Len(new) = chunk
        BY <1>a, <1>e
  <2>2. got' = got \o new /\ new \in Seq(Nat) /\ got \in Seq(Nat) /\ Len(got) = consumed
        BY <1>t, <1>b, <1>e DEF StreamTypeOK, InOrder
  <2>3. \A k \in 1..chunk : new[k] = consumed + k - 1
        BY <1>d
  <2> HIDE DEF new
  <2>4. Len(got') = consumed'
        BY <1>b, <2>1, <2>2
  <2>5. ASSUME NEW i \in 1..Len(got') PROVE got'[i] = i - 1
    <3>1. CASE i <= Len(got)
          BY <1>t, <2>2, <2>5, <3>1 DEF InOrder
    <3>2. CASE i > Len(got)
      <4>1. i - Len(got) \in 1..chunk
            BY <1>a, <2>1, <2>2, <2>5, <3>2
      <4>2. got'[i] = new[i - Len(got)]
            BY <2>1, <2>2, <2>5, <3>2
      <4> QED BY <1>t, <2>2, <2>3, <4>1, <4>2 DEF StreamTypeOK
    <3> QED BY <2>2, <2>5, <3>1, <3>2
  <2> QED BY <2>4, <2>5 DEF InOrder
<1>5. AfterConsumer' /\ NoLostWakeup'
      BY <1>t, <1>b DEF AfterConsumer, NoLostWakeup, flags, pvars
<1> QED BY <1>1, <1>2, <1>3, <1>4, <1>5 DEF StreamInv

\* The steps that move no bytes keep it: flags, sleeping, waking, returning.
LEMMA StreamControlKeeps ==
    ASSUME StreamInv,
           \/ \E n \in Nat \ {0} : CallPush(n) \/ CallReadExact(n)
           \/ PushSleeps \/ PushReturns \/ PushNotifies
           \/ ReadSleeps \/ ReadFails \/ ReadNotifies
           \/ CloseProducer \/ CancelStream \/ ProducerNotifies
           \/ FinishConsumer \/ ConsumerNotifies
           \/ SpuriousWakeup
    PROVE  StreamInv'
<1> USE CapacityAssumption
<1>t. StreamTypeOK /\ RingShape /\ RingHolds /\ InOrder /\ AfterConsumer /\ NoLostWakeup
      BY DEF StreamInv
<1>1. ASSUME NEW n \in Nat \ {0}, CallPush(n) \/ CallReadExact(n) PROVE StreamInv'
  <2> USE <1>1 DEF CallPush, CallReadExact, ring, flags, pvars, cvars
  <2>1. StreamTypeOK'
        BY <1>t, SMTT(30) DEF StreamTypeOK
  <2>2. RingShape' /\ RingHolds' /\ InOrder'
        BY <1>t DEF RingShape, RingHolds, InOrder, Slot
  <2>3. AfterConsumer' /\ NoLostWakeup'
        BY <1>t DEF AfterConsumer, NoLostWakeup
  <2> QED BY <2>1, <2>2, <2>3 DEF StreamInv
<1>2. ASSUME PushSleeps \/ PushNotifies \/ ReadSleeps \/ ReadNotifies \/ ProducerNotifies
             \/ ConsumerNotifies \/ SpuriousWakeup
      PROVE  StreamInv'
  <2> USE <1>2 DEF PushSleeps, PushNotifies, ReadSleeps, ReadNotifies, ProducerNotifies,
                   ConsumerNotifies, SpuriousWakeup, ring, flags, pvars, cvars
  <2>1. StreamTypeOK'
    <3>1. /\ buffer' = buffer /\ readPos' = readPos /\ writePos' = writePos /\ used' = used
          /\ producerDone' = producerDone /\ consumerDone' = consumerDone
          /\ cancelledFlag' = cancelledFlag
          /\ pushed' = pushed /\ consumed' = consumed /\ got' = got
          /\ psize' = psize /\ pleft' = pleft /\ cleft' = cleft
          OBVIOUS
    <3>2. pok' \in BOOLEAN /\ cok' \in BOOLEAN
          BY <1>t DEF StreamTypeOK
    <3>3. pstep' \in {"idle", "lock", "asleep", "notify", "closing", "closed"}
          BY <1>t DEF StreamTypeOK, Wake
    <3>4. cstep' \in {"idle", "lock", "asleep", "notify", "finishing", "finished"}
          BY <1>t DEF StreamTypeOK, Wake
    <3> QED BY <1>t, <3>1, <3>2, <3>3, <3>4, SMT DEF StreamTypeOK
  <2>2. RingShape' /\ RingHolds' /\ InOrder'
        BY <1>t DEF RingShape, RingHolds, InOrder, Slot
  <2>3. AfterConsumer'
        BY <1>t DEF StreamTypeOK, AfterConsumer, Wake
  <2>4. NoLostWakeup'
        BY <1>t DEF StreamTypeOK, AfterConsumer, NoLostWakeup, Wake
  <2> QED BY <2>1, <2>2, <2>3, <2>4 DEF StreamInv
<1>3. ASSUME PushReturns \/ ReadFails \/ CloseProducer \/ CancelStream PROVE StreamInv'
  <2> USE <1>3 DEF PushReturns, ReadFails, CloseProducer, CancelStream, ring, flags, pvars, cvars
  <2>1. StreamTypeOK'
    <3>1. /\ buffer' \in [Slots -> Nat]
          /\ readPos' \in Slots /\ writePos' \in Slots /\ used' \in 0..Capacity
          /\ pushed' \in Nat /\ consumed' \in Nat /\ got' \in Seq(Nat)
          BY <1>t DEF StreamTypeOK
    <3>2. /\ pstep' \in {"idle", "lock", "asleep", "notify", "closing", "closed"}
          /\ psize' \in Nat /\ pleft' \in 0..psize'
          /\ cstep' \in {"idle", "lock", "asleep", "notify", "finishing", "finished"}
          /\ cleft' \in Nat
          BY <1>t DEF StreamTypeOK
    <3>3. /\ producerDone' \in BOOLEAN /\ consumerDone' \in BOOLEAN /\ cancelledFlag' \in BOOLEAN
          /\ pok' \in BOOLEAN /\ cok' \in BOOLEAN
          BY <1>t, Zenon DEF StreamTypeOK
    <3> QED BY <3>1, <3>2, <3>3 DEF StreamTypeOK
  <2>2. RingShape' /\ RingHolds' /\ InOrder'
        BY <1>t DEF RingShape, RingHolds, InOrder, Slot
  <2>3. AfterConsumer' /\ NoLostWakeup'
        BY <1>t DEF AfterConsumer, NoLostWakeup
  <2> QED BY <2>1, <2>2, <2>3 DEF StreamInv
<1>4. ASSUME FinishConsumer PROVE StreamInv'
  <2> USE <1>4 DEF FinishConsumer, pvars
  <2>1. StreamTypeOK'
        BY <1>t DEF StreamTypeOK, Slots
  <2>2. RingShape' /\ RingHolds' /\ InOrder'
        BY <1>t DEF StreamTypeOK, RingShape, RingHolds, InOrder, Slot, Slots
  <2>3. AfterConsumer' /\ NoLostWakeup'
        BY <1>t DEF AfterConsumer, NoLostWakeup
  <2> QED BY <2>1, <2>2, <2>3 DEF StreamInv
<1> QED BY <1>1, <1>2, <1>3, <1>4

\* Every step of the stream keeps the invariant, whoever its two threads are.
LEMMA StreamKeeps == StreamInv /\ [StreamNext]_svars => StreamInv'
<1> SUFFICES ASSUME StreamInv, [StreamNext]_svars PROVE StreamInv'
    OBVIOUS
<1>1. CASE NewStream
  <2>1. StreamInit'
        BY <1>1, Zenon DEF NewStream, StreamInit
  <2>2. StreamInit' => StreamInv'
        BY StreamStart, PTL
  <2> QED BY <2>1, <2>2
<1>2. CASE PushCopies \/ ReadCopies
      BY <1>2, PushCopiesKeeps, ReadCopiesKeeps
<1>3. CASE \/ \E n \in Nat \ {0} : CallPush(n) \/ CallReadExact(n)
           \/ PushSleeps \/ PushReturns \/ PushNotifies
           \/ ReadSleeps \/ ReadFails \/ ReadNotifies
           \/ CloseProducer \/ CancelStream \/ ProducerNotifies
           \/ FinishConsumer \/ ConsumerNotifies
           \/ SpuriousWakeup
      BY <1>3, StreamControlKeeps
<1>4. CASE UNCHANGED svars
      BY <1>4 DEF StreamInv, StreamTypeOK, RingShape, RingHolds, InOrder, Slot,
                  AfterConsumer, NoLostWakeup, svars
<1> QED BY <1>1, <1>2, <1>3, <1>4 DEF StreamNext, InPush, InRead

\* Whatever the server, its caller and the host do, the stream takes one of its
\* own steps or none.
LEMMA ServerUsesStream == Next => [StreamNext]_svars
<1> SUFFICES ASSUME Next PROVE StreamNext \/ UNCHANGED svars
    OBVIOUS
<1>1. CASE Caller \/ Terminated
      BY <1>1 DEF Caller, Start, Stop, StopJoins, Terminated, vars
<1>2. CASE UsbThread
  <2>1. CASE AnswerFailure \/ AnswerOk
        BY <2>1 DEF AnswerFailure, AnswerOk, FrameEnds, StreamNext
  <2>2. CASE EndStream
        BY <2>2 DEF EndStream, StreamNext
  <2>3. CASE InPush \/ ProducerNotifies
        BY <2>3 DEF StreamNext
  <2>4. CASE InitializeUsb \/ CommandLoopEnds \/ WaitForConfigured
        BY <2>4 DEF InitializeUsb, CommandLoopEnds, WaitForConfigured
  <2>5. CASE ConnectionEnds \/ HeaderRefused \/ ReceiveEnds \/ ReceiveFails
             \/ PushReturned \/ JoinInstaller
        BY <2>5 DEF ConnectionEnds, HeaderRefused, ReceiveEnds, ReceiveFails,
                    PushReturned, JoinInstaller
  <2> QED BY <1>2, <2>1, <2>2, <2>3, <2>4, <2>5 DEF UsbThread
<1>3. CASE Installer
  <2>1. ASSUME NEW n \in 1..MaxObject, InstallerReads(n) PROVE StreamNext
        BY <2>1, MtpAssumption DEF InstallerReads, StreamNext
  <2>2. CASE InstallerFinishes \/ InRead \/ ConsumerNotifies
        BY <2>2 DEF InstallerFinishes, StreamNext
  <2>3. CASE InstallerStarts \/ InstallerReadReturned \/ InstallerGivesUp \/ InstallerSucceeds
        BY <2>3 DEF InstallerStarts, InstallerReadReturned, InstallerGivesUp, InstallerSucceeds
  <2> QED BY <1>3, <2>1, <2>2, <2>3 DEF Installer
<1>4. CASE Environment
  <2>1. ASSUME NEW n \in 1..MaxObject, ReceiveChunk(n) PROVE StreamNext
        BY <2>1, MtpAssumption DEF ReceiveChunk, StreamNext
  <2>2. CASE SpuriousWakeup
        BY <2>2 DEF StreamNext
  <2>3. CASE HostCommand
        BY <2>3 DEF HostCommand, OpenOrCloseSession, SendObjectInfo, preparePendingObject,
                    DeleteObject, SendObject, ClassRequest
  <2>4. CASE Cable \/ ConnectionEnds \/ HeaderRefused \/ LengthMismatch \/ ReceiveFails
        BY <2>4 DEF Cable, ConnectionEnds, HeaderRefused, LengthMismatch, ReceiveFails
  <2>5. ASSUME NEW object \in 0..MaxObject, BeginTransfer(object) PROVE UNCHANGED svars
        BY <2>5 DEF BeginTransfer
  <2> QED BY <1>4, <2>1, <2>2, <2>3, <2>4, <2>5 DEF Environment
<1> QED BY <1>1, <1>2, <1>3, <1>4 DEF Next

\* For every capacity and object size the ring holds exactly the next bytes of
\* the object, the installer sees every byte once and in order, and a sleeping
\* thread is never one that was already notified.
THEOREM StreamCorrect == Spec => []StreamInv
<1>1. Init => StreamInv
      BY StreamStart DEF Init
<1>2. StreamInv /\ [Next]_vars => StreamInv'
  <2> SUFFICES ASSUME StreamInv, [Next]_vars PROVE StreamInv'
      OBVIOUS
  <2>1. CASE Next
        BY <2>1, ServerUsesStream, StreamKeeps
  <2>2. CASE UNCHANGED vars
    <3>1. UNCHANGED svars
          BY <2>2 DEF vars
    <3> QED BY <3>1, StreamKeeps
  <2> QED BY <2>1, <2>2
<1> QED BY <1>1, <1>2, PTL DEF Spec

\* The queued bytes, as the abstract stream sees them.
Queue == [k \in 1..used |-> buffer[Slot(k - 1)]]

\* In order, they are the positions that follow what was delivered.
QueueWindow == /\ used \in 0..Capacity /\ consumed \in Nat /\ got \in Seq(Nat)
               /\ Len(got) = consumed
               /\ Queue = [k \in 1..used |-> consumed + k - 1]

\* StreamInv says that the queue is that window.
LEMMA QueueIsWindow == StreamInv => QueueWindow
<1> SUFFICES ASSUME StreamInv PROVE QueueWindow
    OBVIOUS
<1>1. used \in 0..Capacity /\ consumed \in Nat /\ got \in Seq(Nat)
      BY DEF StreamInv, StreamTypeOK
<1>2. Len(got) = consumed
      BY DEF StreamInv, InOrder
<1>3. ASSUME NEW k \in 1..used PROVE buffer[Slot(k - 1)] = consumed + k - 1
  <2>1. k - 1 \in 0..used - 1
        BY <1>1, <1>3, CapacityAssumption
  <2>2. buffer[Slot(k - 1)] = consumed + (k - 1)
        BY <2>1 DEF StreamInv, RingHolds
  <2> QED BY <1>1, <1>3, <2>2, CapacityAssumption
<1>4. Queue = [k \in 1..used |-> consumed + k - 1]
      BY <1>3 DEF Queue
<1> QED BY <1>1, <1>2, <1>4 DEF QueueWindow

\* push's critical section accepts a chunk.
LEMMA PushAccepts ==
    ASSUME StreamInv, StreamInv', PushCopies
    PROVE  \E n \in 1..Capacity :
              /\ Len(Queue) + n <= Capacity
              /\ Queue' = Queue \o [k \in 1..n |-> Len(got) + Len(Queue) + k - 1]
              /\ UNCHANGED got
<1> DEFINE contiguous == Least(Capacity - writePos, Capacity - used)
           n == Least(pleft, contiguous)
<1> USE CapacityAssumption
<1>1. n \in 1..Capacity /\ used + n <= Capacity
      BY DEF StreamInv, StreamTypeOK, AfterConsumer, PushCopies, Slots, Least
<1>2. used' = used + n /\ consumed' = consumed /\ got' = got
      BY DEF PushCopies
<1> HIDE DEF contiguous, n
<1>3. /\ used \in 0..Capacity /\ consumed \in Nat /\ Len(got) = consumed
      /\ Queue = [k \in 1..used |-> consumed + k - 1]
      BY QueueIsWindow DEF QueueWindow
<1>4. Queue' = [k \in 1..used' |-> consumed' + k - 1]
  <2>1. StreamInv' => QueueWindow'
        BY QueueIsWindow, PTL
  <2> QED BY <2>1 DEF QueueWindow
<1>5. Len(Queue) = used /\ Queue \in Seq(Nat)
      BY <1>3
<1> DEFINE new == [k \in 1..n |-> Len(got) + Len(Queue) + k - 1]
<1>6. new \in Seq(Nat) /\ Len(new) = n
      BY <1>1, <1>3, <1>5
<1>7. Queue' = Queue \o new
      BY <1>1, <1>2, <1>3, <1>4, <1>5, <1>6
<1> QED BY <1>1, <1>2, <1>5, <1>7

\* readExact's delivers one.
LEMMA ReadDelivers ==
    ASSUME StreamInv, StreamInv', ReadCopies
    PROVE  \E n \in 1..Len(Queue) :
              /\ got' = got \o SubSeq(Queue, 1, n)
              /\ Queue' = SubSeq(Queue, n + 1, Len(Queue))
<1> DEFINE contiguous == Least(Capacity - readPos, used)
           n == Least(cleft, contiguous)
<1> USE CapacityAssumption
<1>1. n \in 1..used /\ readPos + n <= Capacity /\ readPos \in Nat
      BY DEF StreamInv, StreamTypeOK, AfterConsumer, ReadCopies, Slots, Least
<1>2. /\ got' = got \o [k \in 1..n |-> buffer[readPos + k - 1]]
      /\ used' = used - n /\ consumed' = consumed + n
      BY DEF ReadCopies
<1> HIDE DEF contiguous, n
<1>3. /\ used \in 0..Capacity /\ consumed \in Nat /\ Len(got) = consumed
      /\ Queue = [k \in 1..used |-> consumed + k - 1]
      BY QueueIsWindow DEF QueueWindow
<1>4. Queue' = [k \in 1..used' |-> consumed' + k - 1]
  <2>1. StreamInv' => QueueWindow'
        BY QueueIsWindow, PTL
  <2> QED BY <2>1 DEF QueueWindow
<1>5. Len(Queue) = used /\ Queue \in Seq(Nat)
      BY <1>3
<1>6. SubSeq(Queue, 1, n) = [k \in 1..n |-> buffer[readPos + k - 1]]
  <2>1. ASSUME NEW k \in 1..n PROVE Queue[k] = buffer[readPos + k - 1]
        BY <1>1, <1>3, <2>1 DEF Queue, Slot
  <2>2. SubSeq(Queue, 1, n) = [k \in 1..n |-> Queue[k]]
        BY <1>1, <1>3, <1>5
  <2> QED BY <2>1, <2>2
<1>7. Queue' = SubSeq(Queue, n + 1, Len(Queue))
      BY <1>1, <1>2, <1>3, <1>4, <1>5
<1> QED BY <1>1, <1>2, <1>5, <1>6, <1>7

\* The install stream is a bounded first-in first-out queue of bytes, whatever
\* the server, the installer and the host do with it.
THEOREM StreamImplementsQueue == Spec => IsByteStream
<1>1. Init => Bytes!Init
  <2> SUFFICES ASSUME Init PROVE Queue = <<>> /\ got = <<>>
      BY DEF Bytes!Init, Queue
  <2> QED BY DEF Init, StreamInit, Queue
<1>2. StreamInv /\ StreamInv' /\ [Next]_vars => [Bytes!Next]_<<Queue, got>>
  <2> SUFFICES ASSUME StreamInv, StreamInv', [Next]_vars
               PROVE  Bytes!Next \/ UNCHANGED <<Queue, got>>
      OBVIOUS
  <2>0. StreamNext \/ UNCHANGED svars
        BY ServerUsesStream DEF vars
  <2>1. CASE PushCopies
        BY <2>1, PushAccepts DEF Bytes!Next, Bytes!Accept, Queue
  <2>2. CASE ReadCopies
        BY <2>2, ReadDelivers DEF Bytes!Next, Bytes!Deliver, Queue
  <2>3. CASE FinishConsumer
        BY <2>3 DEF FinishConsumer, Bytes!Next, Bytes!Discard, Queue
  <2>4. CASE NewStream
        BY <2>4 DEF NewStream, Bytes!Next, Bytes!Renew, Queue
  <2>5. ASSUME UNCHANGED <<ring, got>> PROVE UNCHANGED <<Queue, got>>
        BY <2>5 DEF ring, Queue, Slot
  <2>6. ASSUME NEW n \in Nat \ {0}, CallPush(n) \/ CallReadExact(n)
        PROVE  UNCHANGED <<ring, got>>
        BY <2>6 DEF CallPush, CallReadExact
  <2>7. CASE PushSleeps \/ PushReturns \/ PushNotifies \/ ReadSleeps \/ ReadFails
             \/ ReadNotifies
    <3>1. UNCHANGED <<ring, got>>
          BY <2>7 DEF PushSleeps, PushReturns, PushNotifies, ReadSleeps, ReadFails,
                      ReadNotifies
    <3> QED BY <2>5, <3>1
  <2>8. CASE CloseProducer \/ CancelStream \/ ProducerNotifies \/ ConsumerNotifies
             \/ SpuriousWakeup
    <3>1. UNCHANGED <<ring, got>>
          BY <2>8 DEF CloseProducer, CancelStream, ProducerNotifies, ConsumerNotifies,
                      SpuriousWakeup
    <3> QED BY <2>5, <3>1
  <2>9. CASE UNCHANGED svars
    <3>1. UNCHANGED <<ring, got>>
          BY <2>9 DEF svars, ring
    <3> QED BY <2>5, <3>1
  <2> QED BY <2>0, <2>1, <2>2, <2>3, <2>4, <2>5, <2>6, <2>7, <2>8, <2>9
          DEF StreamNext, InPush, InRead
<1>3. Spec => []StreamInv
      BY StreamCorrect
<1> QED BY <1>1, <1>2, <1>3, PTL DEF Spec, IsByteStream, Bytes!Spec, Queue

\* start and stop keep the worker inside its frame.
LEMMA CallerKeepsFrame == FrameInv /\ Caller => FrameInv'
<1> USE DEF FrameInv, WorkerInFrame, StoppedIsQuiet, Threads,
            flagvars, objvars, xfervars, instvars, usbvars
<1>1. FrameInv /\ Start => FrameInv'
      BY DEF Start
<1>2. FrameInv /\ (Stop \/ StopJoins) => FrameInv'
      BY DEF Stop, StopJoins
<1> QED BY <1>1, <1>2 DEF Caller

\* So does the USB thread: it leaves SendObject only after the join.
LEMMA UsbKeepsFrame == FrameInv /\ UsbThread => FrameInv'
<1> USE DEF FrameInv, WorkerInFrame, StoppedIsQuiet, Threads,
            flagvars, objvars, xfervars, instvars, usbvars, resetPendingObject
<1>1. FrameInv /\ (InitializeUsb \/ CommandLoopEnds) => FrameInv'
      BY DEF InitializeUsb, CommandLoopEnds, ThreadEnds
<1>2. FrameInv /\ (WaitForConfigured \/ ConnectionEnds \/ HeaderRefused) => FrameInv'
      BY DEF WaitForConfigured, ConnectionEnds, HeaderRefused
<1>3. FrameInv /\ (ReceiveEnds \/ ReceiveFails \/ PushReturned) => FrameInv'
      BY DEF ReceiveEnds, ReceiveFails, PushReturned, AwaitsBytes
<1>4. FrameInv /\ EndStream => FrameInv'
      BY DEF EndStream
<1>5. FrameInv /\ JoinInstaller => FrameInv'
      BY DEF JoinInstaller
<1>6. FrameInv /\ (AnswerFailure \/ AnswerOk) => FrameInv'
      BY DEF AnswerFailure, AnswerOk, failTransfer, FrameEnds
<1>7. FrameInv /\ UNCHANGED notStream => FrameInv'
      BY DEF notStream
<1> QED BY <1>1, <1>2, <1>3, <1>4, <1>5, <1>6, <1>7 DEF UsbThread

\* And the worker, the host and the cable.
LEMMA OthersKeepFrame == FrameInv /\ ui # "terminated" /\ (Installer \/ Environment) => FrameInv'
<1> USE DEF FrameInv, WorkerInFrame, StoppedIsQuiet, Threads,
            flagvars, objvars, xfervars, instvars, usbvars, resetPendingObject
<1>1. FrameInv /\ Installer => FrameInv'
  <2>1. FrameInv /\ (\/ InstallerStarts \/ InstallerReadReturned \/ InstallerGivesUp
                     \/ InstallerSucceeds \/ InstallerFinishes) => FrameInv'
        BY DEF InstallerStarts, InstallerReadReturned, InstallerGivesUp,
               InstallerSucceeds, InstallerFinishes, notInstaller
  <2>2. FrameInv /\ (\E n \in 1..MaxObject : InstallerReads(n)) => FrameInv'
        BY DEF InstallerReads, notInstaller
  <2>3. FrameInv /\ UNCHANGED notStream => FrameInv'
        BY DEF notStream
  <2> QED BY <2>1, <2>2, <2>3 DEF Installer
<1>2. FrameInv /\ HostCommand => FrameInv'
  <2>1. FrameInv /\ OpenOrCloseSession => FrameInv'
        BY DEF OpenOrCloseSession
  <2>2. FrameInv /\ (\E size \in (0..MaxObject) \cup {SizeUnknown} : SendObjectInfo(size))
            => FrameInv'
        BY DEF SendObjectInfo, preparePendingObject, Listening
  <2>3. FrameInv /\ (DeleteObject \/ SendObject) => FrameInv'
        BY DEF DeleteObject, SendObject, Listening
  <2>4. FrameInv /\ ClassRequest => FrameInv'
        BY DEF ClassRequest
  <2> QED BY <2>1, <2>2, <2>3, <2>4 DEF HostCommand
<1>3. FrameInv /\ (\/ Cable \/ ConnectionEnds \/ HeaderRefused \/ LengthMismatch
                    \/ ReceiveFails) => FrameInv'
      BY DEF Cable, ConnectionEnds, HeaderRefused, LengthMismatch, failTransfer, ReceiveFails,
             AwaitsBytes
<1>4. ASSUME FrameInv, NEW object \in 0..MaxObject, BeginTransfer(object) PROVE FrameInv'
      BY <1>4 DEF BeginTransfer
<1>5. ASSUME FrameInv, NEW n \in 1..MaxObject, ReceiveChunk(n) PROVE FrameInv'
      BY <1>5 DEF ReceiveChunk
<1>6. FrameInv /\ UNCHANGED notStream => FrameInv'
      BY DEF notStream
<1> QED BY <1>1, <1>2, <1>3, <1>4, <1>5, <1>6 DEF Environment

\* The inductive invariant of the server's threads.
LEMMA FrameKept == Spec => []FrameInv
<1>1. Init => FrameInv
      BY DEF Init, FrameInv, WorkerInFrame, StoppedIsQuiet, Threads
<1>2. FrameInv /\ [Next]_vars => FrameInv'
  <2> SUFFICES ASSUME FrameInv, [Next]_vars PROVE FrameInv'
      OBVIOUS
  <2>1. CASE UNCHANGED vars
        BY <2>1 DEF FrameInv, WorkerInFrame, StoppedIsQuiet, Threads, vars, flagvars,
                    objvars, xfervars, instvars
  <2>2. CASE Next
        BY <2>1, <2>2, CallerKeepsFrame, UsbKeepsFrame, OthersKeepFrame DEF Next, Terminated
  <2> QED BY <2>1, <2>2
<1> QED BY <1>1, <1>2, PTL DEF Spec

\* While the installer worker runs, the USB thread is inside SendObject with the
\* stream and the pending object in place, for every capacity and object size.
THEOREM WorkerStaysInFrame == Spec => []WorkerInFrame
<1>1. FrameInv => WorkerInFrame
      BY DEF FrameInv
<1> QED BY <1>1, FrameKept, PTL

\* After stop has returned nothing of the server is left running or blocked.
THEOREM StopLeavesNothing == Spec => []StoppedIsQuiet
<1>1. FrameInv => StoppedIsQuiet
      BY DEF FrameInv
<1> QED BY <1>1, FrameKept, PTL

-----------------------------------------------------------------------------
(* The answer to SendObject: a package of known size that was installed is   *)
(* reported as installed unless stop() came first.                           *)

\* What the steps need of the stream: types, and that nothing is consumed that
\* was not pushed.
StreamFacts ==
    /\ pushed \in Nat /\ consumed \in Nat /\ psize \in Nat /\ pleft \in 0..psize
    /\ used \in Nat /\ writePos \in 0..Capacity
    /\ cstep \in {"idle", "lock", "asleep", "notify", "finishing", "finished"}
    /\ consumerDone => cstep \in {"finishing", "finished"}
    /\ ~consumerDone => pushed = consumed + used

\* StreamInv gives them.
LEMMA StreamGives == StreamInv => StreamFacts
BY CapacityAssumption DEF StreamInv, StreamTypeOK, RingHolds, AfterConsumer, StreamFacts, Slots

\* The caller of start and stop keeps the accounts.
LEMMA CallerKeepsAccounts ==
    ASSUME StreamFacts, StreamFacts', FrameInv, TransferInv, Caller
    PROVE  TransferInv'
<1> USE DEF StreamFacts, FrameInv, Threads, TransferInv, TransferTypes, FreshFrame, PushPlace,
            Counted, ReaderPlace, ShortFall, Transferring, Known,
            svars, flagvars, objvars, xfervars, instvars, usbvars
<1>1. CASE Start
      BY <1>1 DEF Start
<1>2. CASE Stop
      BY <1>2 DEF Stop
<1>3. CASE StopJoins
      BY <1>3 DEF StopJoins
<1> QED BY <1>1, <1>2, <1>3 DEF Caller

\* So does the USB thread.
LEMMA UsbKeepsAccounts ==
    ASSUME StreamFacts, StreamFacts', FrameInv, TransferInv, UsbThread
    PROVE  TransferInv'
<1> USE DEF StreamFacts, TransferInv, TransferTypes, FreshFrame, PushPlace,
            Counted, ReaderPlace, ShortFall, Transferring, Known,
            svars, flagvars, objvars, xfervars, instvars, usbvars, resetPendingObject
<1>1. CASE InitializeUsb
      BY <1>1 DEF InitializeUsb, ThreadEnds
<1>2. CASE CommandLoopEnds
      BY <1>2 DEF CommandLoopEnds, ThreadEnds
<1>3. CASE WaitForConfigured
      BY <1>3, MtpAssumption DEF WaitForConfigured
<1>4. CASE ConnectionEnds
      BY <1>4, MtpAssumption DEF ConnectionEnds
<1>5. CASE HeaderRefused
      BY <1>5 DEF HeaderRefused
<1>6. CASE ReceiveEnds
      BY <1>6, MtpAssumption DEF ReceiveEnds, Complete
<1>7. CASE ReceiveFails
      BY <1>7, MtpAssumption DEF ReceiveFails, AwaitsBytes, Complete
<1>8. CASE PushReturned
      BY <1>8, MtpAssumption DEF PushReturned
<1>9. CASE EndStream
      BY <1>9 DEF EndStream, CancelStream, CloseProducer, ring, cvars
<1>10. CASE JoinInstaller
      BY <1>10 DEF JoinInstaller
<1>11. CASE AnswerFailure \/ AnswerOk
      BY <1>11, MtpAssumption DEF AnswerFailure, AnswerOk, failTransfer, FrameEnds, NewStream
<1>12. CASE PushSleeps /\ UNCHANGED notStream
      BY <1>12 DEF PushSleeps, notStream, ring, flags, cvars
<1>13. CASE PushReturns /\ UNCHANGED notStream
  <2>1. ~cancelledFlag
        BY <1>13 DEF PushReturns
  <2>2. pok'
        BY <1>13, <2>1, Zenon DEF PushReturns
  <2>3. /\ pushed' = pushed + pleft /\ pleft' = 0 /\ pstep = "lock" /\ pstep' = "idle"
        /\ consumed' = consumed /\ psize' = psize
        /\ UNCHANGED flags /\ UNCHANGED cvars /\ UNCHANGED notStream
        BY <1>13, <2>1 DEF PushReturns
  <2> QED BY <2>2, <2>3 DEF notStream, flags, cvars
<1>14. CASE PushCopies /\ UNCHANGED notStream
  <2> DEFINE contiguous == Least(Capacity - writePos, Capacity - used)
             chunk == Least(pleft, contiguous)
  <2>1. chunk \in Nat /\ chunk <= pleft
        BY <1>14, CapacityAssumption DEF Least, PushCopies
  <2>2. /\ pushed' = pushed + chunk /\ pleft' = pleft - chunk
        /\ pstep = "lock" /\ pstep' = "notify" /\ consumed' = consumed /\ psize' = psize
        /\ pok' = pok /\ UNCHANGED flags /\ UNCHANGED cvars /\ UNCHANGED notStream
        BY <1>14 DEF PushCopies
  <2> HIDE DEF contiguous, chunk
  <2>3. /\ pushed' + pleft' = pushed + pleft /\ consumed' <= pushed'
        /\ consumed' \in Nat /\ pushed' \in Nat
        BY <2>1, <2>2
  <2>4. FreshFrame' /\ PushPlace'
        BY <2>2, <2>3 DEF notStream, flags, cvars
  <2>5. Counted'
    <3>1. ustep = "push" /\ ustep' = "push"
          BY <2>2 DEF notStream
    <3>2. /\ totalReceived' = totalReceived /\ left' = left
          /\ pendingSize' = pendingSize /\ need' = need
          BY <2>2 DEF notStream
    <3> QED BY <2>2, <2>3, <3>1, <3>2
  <2>6. TransferTypes' /\ ReaderPlace' /\ ShortFall'
        BY <2>2 DEF notStream, flags, cvars
  <2> QED BY <2>4, <2>5, <2>6
<1>15. CASE PushNotifies /\ UNCHANGED notStream
      BY <1>15 DEF PushNotifies, notStream, ring, flags, Wake
<1>16. CASE ProducerNotifies /\ UNCHANGED notStream
      BY <1>16 DEF ProducerNotifies, notStream, ring, flags, Wake
<1> QED BY <1>1, <1>2, <1>3, <1>4, <1>5, <1>6, <1>7, <1>8, <1>9, <1>10, <1>11, <1>12,
           <1>13, <1>14, <1>15, <1>16 DEF UsbThread, InPush

\* The installer worker.
LEMMA InstallerKeepsAccounts ==
    ASSUME StreamFacts, StreamFacts', FrameInv, TransferInv, Installer
    PROVE  TransferInv'
<1> USE DEF StreamFacts, TransferInv, TransferTypes, FreshFrame, PushPlace,
            Counted, ReaderPlace, ShortFall, Transferring, Known,
            svars, flagvars, objvars, xfervars, instvars, notInstaller
<1>1. CASE InstallerStarts
      BY <1>1 DEF InstallerStarts
<1>2. CASE InstallerGivesUp
      BY <1>2 DEF InstallerGivesUp
<1>3. CASE InstallerSucceeds
      BY <1>3 DEF InstallerSucceeds
<1>4. ASSUME NEW n \in 1..MaxObject, InstallerReads(n) PROVE TransferInv'
      BY <1>4 DEF InstallerReads, CallReadExact, ring, flags, pvars
<1>5. CASE InstallerReadReturned
      BY <1>5 DEF InstallerReadReturned
<1>6. CASE InstallerFinishes /\ FinishConsumer
      BY <1>6 DEF InstallerFinishes, FinishConsumer, pvars
<1>7. CASE InstallerFinishes /\ ~FinishConsumer
  <2>1. /\ UNCHANGED svars /\ istep = "finish" /\ istep' = "done"
        /\ UNCHANGED <<notInstaller, need, installed>>
        BY <1>7 DEF InstallerFinishes
  <2> QED BY <2>1
<1>8. CASE ReadSleeps /\ UNCHANGED notStream
      BY <1>8 DEF ReadSleeps, notStream, ring, flags, pvars
<1>9. CASE ReadFails /\ UNCHANGED notStream
      BY <1>9 DEF ReadFails, notStream, ring, flags, pvars
<1>10. CASE ReadCopies /\ UNCHANGED notStream
      BY <1>10 DEF ReadCopies, notStream, flags, pvars
<1>11. CASE ReadNotifies /\ UNCHANGED notStream
      BY <1>11 DEF ReadNotifies, notStream, ring, flags, Wake
<1>12. CASE ConsumerNotifies /\ UNCHANGED notStream
      BY <1>12 DEF ConsumerNotifies, notStream, ring, flags, Wake
<1> QED BY <1>1, <1>2, <1>3, <1>4, <1>5, <1>6, <1>7, <1>8, <1>9, <1>10, <1>11, <1>12
        DEF Installer, InRead

\* The host and the cable.
LEMMA EnvironmentKeepsAccounts ==
    ASSUME StreamFacts, StreamFacts', FrameInv, TransferInv, Environment
    PROVE  TransferInv'
<1> USE DEF StreamFacts, TransferInv, TransferTypes, FreshFrame, PushPlace,
            Counted, ReaderPlace, ShortFall, Transferring, Known,
            svars, flagvars, objvars, xfervars, instvars, resetPendingObject
<1>1. CASE OpenOrCloseSession
      BY <1>1 DEF OpenOrCloseSession, Listening
<1>2. CASE SendObject
      BY <1>2 DEF SendObject, Listening
<1>3. CASE Cable
      BY <1>3 DEF Cable
<1>4. ASSUME NEW size \in (0..MaxObject) \cup {SizeUnknown}, SendObjectInfo(size)
      PROVE  TransferInv'
      BY <1>4 DEF SendObjectInfo, preparePendingObject, Listening
<1>5. CASE DeleteObject
      BY <1>5, MtpAssumption DEF DeleteObject, Listening
<1>6. CASE ClassRequest
      BY <1>6, MtpAssumption DEF ClassRequest, AwaitsBytes, Complete
<1>7. CASE ConnectionEnds
      BY <1>7, MtpAssumption DEF ConnectionEnds
<1>8. CASE HeaderRefused
      BY <1>8 DEF HeaderRefused
<1>9. CASE LengthMismatch
      BY <1>9, MtpAssumption DEF LengthMismatch, failTransfer
<1>10. ASSUME NEW object \in 0..MaxObject, BeginTransfer(object) PROVE TransferInv'
      BY <1>10, MtpAssumption DEF BeginTransfer
<1>11. ASSUME NEW n \in 1..MaxObject, ReceiveChunk(n) PROVE TransferInv'
      BY <1>11, MtpAssumption DEF ReceiveChunk, CallPush, ring, flags, cvars
<1>12. CASE SpuriousWakeup /\ UNCHANGED notStream
      BY <1>12 DEF SpuriousWakeup, notStream, ring, flags, Wake
<1>13. CASE ReceiveFails
      BY <1>13, MtpAssumption DEF ReceiveFails, AwaitsBytes, Complete
<1> QED BY <1>1, <1>2, <1>3, <1>4, <1>5, <1>6, <1>7, <1>8, <1>9, <1>10, <1>11, <1>12, <1>13
        DEF Environment, HostCommand

\* The accounts are right in every state.
LEMMA AccountsKept == Spec => []TransferInv
<1>1. Init => TransferInv
      BY MtpAssumption DEF Init, StreamInit, TransferInv, TransferTypes, FreshFrame, PushPlace,
                           Counted, ReaderPlace, ShortFall, Transferring, Known
<1>2. StreamFacts /\ StreamFacts' /\ FrameInv /\ TransferInv /\ [Next]_vars => TransferInv'
  <2> SUFFICES ASSUME StreamFacts, StreamFacts', FrameInv, TransferInv, [Next]_vars
               PROVE  TransferInv'
      OBVIOUS
  <2>1. CASE UNCHANGED vars
        BY <2>1 DEF TransferInv, TransferTypes, FreshFrame, PushPlace, Counted, ReaderPlace,
                    ShortFall, Transferring, Known, vars, svars, flagvars, objvars,
                    xfervars, instvars
  <2>2. CASE Next
        BY <2>1, <2>2, CallerKeepsAccounts, UsbKeepsAccounts, InstallerKeepsAccounts,
           EnvironmentKeepsAccounts DEF Next, Terminated
  <2> QED BY <2>1, <2>2
<1>3. StreamInv => StreamFacts
      BY StreamGives
<1> QED BY <1>1, <1>2, <1>3, StreamCorrect, FrameKept, PTL DEF Spec

\* An installed package of known size was received whole: when the answer is
\* due, nothing but stop() speaks against it.
LEMMA InstalledIsWhole ==
    ASSUME StreamFacts, TransferInv, ustep = "answer", installed, Known, ~stopRequested
    PROVE  ~transferCancelRequested /\ ~readFailed /\ pok /\ ~Short
<1> USE DEF TransferInv, StreamFacts
<1>1. /\ consumed = need /\ consumed <= pushed /\ pushed = totalReceived
      /\ need = pendingSize \/ (pendingSize = 0 /\ need > 0)
      BY DEF ReaderPlace, PushPlace, Counted, Transferring
<1>2. left \in Nat /\ totalReceived \in Nat /\ need \in Nat /\ pendingSize \in Nat
      BY MtpAssumption DEF TransferTypes, Known
<1>3. totalReceived = pendingSize
  <2>1. totalReceived + left + 0 = pendingSize
        BY DEF Counted, Transferring
  <2> QED BY <1>1, <1>2, <2>1
<1>4. ~transferCancelRequested /\ ~readFailed
      BY <1>2, <1>3 DEF ShortFall, Transferring
<1> QED BY <1>3, <1>4 DEF PushPlace, Short

\* For every capacity and object size: a package of known size that the worker
\* has installed is answered with success, unless stop() was called first.
THEOREM AnswerIsHonest == Spec => AnswerHonest
<1> DEFINE Honest == ustep = "answer" /\ ustep' = "idle" /\ installed =>
                        shown' = "Connected" \/ stopRequested \/ pendingSize = SizeUnknown
<1>1. StreamFacts /\ TransferInv /\ [Next]_vars => [Honest]_vars
  <2> SUFFICES ASSUME StreamFacts, TransferInv, Next, ustep = "answer", ustep' = "idle",
                      installed, ~stopRequested, Known
               PROVE  shown' = "Connected"
      BY DEF Known
  <2>1. ~AnswerFailure
        BY InstalledIsWhole DEF AnswerFailure
  <2>2. AnswerFailure \/ AnswerOk
    <3>1. CASE Caller \/ Terminated
          BY <3>1 DEF Caller, Start, Stop, StopJoins, Terminated, vars
    <3>2. CASE UsbThread
          BY <3>2 DEF UsbThread, InitializeUsb, CommandLoopEnds, WaitForConfigured,
                      ConnectionEnds, HeaderRefused, ReceiveEnds, ReceiveFails, AwaitsBytes,
                      PushReturned, EndStream, JoinInstaller, notStream
    <3>3. CASE Installer
          BY <3>3 DEF Installer, InstallerStarts, InstallerReads, InstallerReadReturned,
                      InstallerGivesUp, InstallerSucceeds, InstallerFinishes, notInstaller,
                      notStream
    <3>4. CASE Environment
          BY <3>4 DEF Environment, HostCommand, OpenOrCloseSession, SendObjectInfo,
                      DeleteObject, SendObject, ClassRequest, Listening, Cable,
                      ConnectionEnds, HeaderRefused, LengthMismatch, BeginTransfer,
                      ReceiveFails, AwaitsBytes, ReceiveChunk, notStream
    <3> QED BY <3>1, <3>2, <3>3, <3>4 DEF Next
  <2> QED BY <2>1, <2>2 DEF AnswerOk
<1>2. StreamInv => StreamFacts
      BY StreamGives
<1> QED BY <1>1, <1>2, StreamCorrect, AccountsKept, PTL DEF Spec, AnswerHonest
=============================================================================
