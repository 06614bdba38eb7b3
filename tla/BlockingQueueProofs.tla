------------------------ MODULE BlockingQueueProofs ------------------------
(***************************************************************************)
(* Theorems about BlockingQueue, for any limit of at least 1 and any       *)
(* finite sets of pushers and poppers.                                     *)
(***************************************************************************)
EXTENDS BlockingQueue, FiniteSetTheorems, SequenceTheorems, TLAPS

(* Removing the first picture gives a shorter list of pictures.             *)
LEMMA TailOfQueue ==
    ASSUME NEW q \in Seq(Image), q # <<>>
    PROVE  /\ Head(q) \in Image
           /\ Tail(q) \in Seq(Image)
           /\ Len(q) \in Nat \ {0}
           /\ Len(Tail(q)) = Len(q) - 1
  BY HeadTailProperties, EmptySeq, LenProperties

(* Adding a picture gives a list longer by one.                             *)
LEMMA AppendToQueue ==
    ASSUME NEW q \in Seq(Image), NEW x \in Image
    PROVE  /\ Append(q, x) \in Seq(Image)
           /\ Len(q) \in Nat
           /\ Len(Append(q, x)) = Len(q) + 1
  BY AppendProperties, LenProperties

(* Taking the first picture, or looking at it, respects the types.          *)
LEMMA TakeTyped ==
    ASSUME TypeOK, NEW c \in Takers, Take(c) \/ Look(c)
    PROVE  /\ queue' \in Seq(Image)
           /\ got' \in [Takers -> Seq(Image)]
<1>1. /\ queue \in Seq(Image) \ {<<>>}
      /\ got \in [Takers -> Seq(Image)]
      /\ queue' = Tail(queue) \/ queue' = queue
      /\ got' = [got EXCEPT ![c] = <<Head(queue)>>]
  BY DEF TypeOK, Take, Look
<1>2. Head(queue) \in Image /\ Tail(queue) \in Seq(Image)
  BY <1>1, TailOfQueue
<1>3. <<Head(queue)>> \in Seq(Image)
  BY <1>2
<1> QED
  BY <1>1, <1>2, <1>3

-----------------------------------------------------------------------------
(* Every variable keeps its type: what the queue holds, where the threads   *)
(* are, who waits and what was handed out.                                  *)
THEOREM TypeCorrect == Spec => []TypeOK
<1>1. Init => TypeOK
  BY DEF Init, TypeOK, Thread
<1>2. TypeOK /\ [Next]_vars => TypeOK'
  <2> SUFFICES ASSUME TypeOK, [Next]_vars
               PROVE  TypeOK'
    OBVIOUS
  <2> USE DEF TypeOK, At, Goto, Thread, Takers
  <2>1. ASSUME NEW p \in Pushers, NEW x \in Image, Push(p, x)
        PROVE  TypeOK'
    BY <2>1, AppendToQueue DEF Push
  <2>2. ASSUME NEW p \in Pushers, PushRetry(p) \/ PushNotify(p)
        PROVE  TypeOK'
    BY <2>2 DEF PushRetry, PushNotify
  <2>3. ASSUME NEW c \in Poppers, Pop(c)
        PROVE  TypeOK'
    <3>1. CASE Take(c)
      BY <2>3, <3>1, TakeTyped DEF Pop, Take
    <3>2. CASE ~ Take(c)
      BY <2>3, <3>2 DEF Pop
    <3> QED
      BY <3>1, <3>2
  <2>4. ASSUME NEW c \in Poppers, PopRetry(c)
        PROVE  TypeOK'
    <3>1. CASE Take(c)
      BY <2>4, <3>1, TakeTyped DEF PopRetry, Take
    <3>2. CASE ~ Take(c)
      BY <2>4, <3>2 DEF PopRetry
    <3> QED
      BY <3>1, <3>2
  <2>5. ASSUME NEW t \in TryPoppers, TryPop(t)
        PROVE  TypeOK'
    BY <2>5, TakeTyped DEF TryPop
  <2>6. ASSUME NEW t \in Peekers, TryPeek(t) \/ PeekRetry(t)
        PROVE  TypeOK'
    BY <2>6, TakeTyped DEF TryPeek, PeekRetry
  <2>7. ASSUME NEW t \in Peekers, PeekWait(t)
        PROVE  TypeOK'
    BY <2>7 DEF PeekWait
  <2>8. ASSUME NEW t \in Clearers, Clear(t)
        PROVE  TypeOK'
    BY <2>8 DEF Clear
  <2>9. ASSUME NEW t \in Thread, SpuriousWake(t)
        PROVE  TypeOK'
    BY <2>9 DEF SpuriousWake
  <2>10. CASE UNCHANGED vars
    BY <2>10 DEF vars
  <2> QED
    BY <2>1, <2>2, <2>3, <2>4, <2>5, <2>6, <2>7, <2>8, <2>9, <2>10 DEF Next
<1> QED
  BY <1>1, <1>2, PTL DEF Spec

-----------------------------------------------------------------------------
(* No wake-up is lost to a popper: the invariant is inductive as it stands, *)
(* because whoever adds the first picture has still to notify, and whoever  *)
(* starts to wait does so on an empty queue.                                *)
THEOREM PoppersAreWoken == Spec => []NoPopperSleepsOnPicture
<1>1. Init => NoPopperSleepsOnPicture
  BY DEF Init, NoPopperSleepsOnPicture
<1>2. TypeOK /\ NoPopperSleepsOnPicture /\ [Next]_vars
        => NoPopperSleepsOnPicture'
  <2> SUFFICES ASSUME TypeOK, NoPopperSleepsOnPicture, [Next]_vars
               PROVE  NoPopperSleepsOnPicture'
    OBVIOUS
  <2> USE DEF TypeOK, NoPopperSleepsOnPicture, At, Goto, Thread, Takers
  <2>1. ASSUME NEW p \in Pushers, NEW x \in Image, Push(p, x)
        PROVE  NoPopperSleepsOnPicture'
    <3>1. CASE queue = <<>>
      <4>1. Len(queue') = 1
        BY <2>1, <3>1, AppendToQueue, EmptySeq DEF Push
      <4>2. pc'[p] = "notify"
        BY <2>1, <4>1, BlockingQueueAssumption DEF Push
      <4> QED
        BY <4>2
    <3>2. CASE queue # <<>>
      BY <2>1, <3>2 DEF Push
    <3> QED
      BY <3>1, <3>2
  <2>2. ASSUME NEW p \in Pushers, PushRetry(p)
        PROVE  NoPopperSleepsOnPicture'
    BY <2>2 DEF PushRetry
  <2>3. ASSUME NEW p \in Pushers, PushNotify(p)
        PROVE  NoPopperSleepsOnPicture'
    BY <2>3 DEF PushNotify
  <2>4. ASSUME NEW c \in Poppers, Pop(c)
        PROVE  NoPopperSleepsOnPicture'
    BY <2>4 DEF Pop, Take
  <2>5. ASSUME NEW c \in Poppers, PopRetry(c)
        PROVE  NoPopperSleepsOnPicture'
    BY <2>5 DEF PopRetry, Take
  <2>6. ASSUME NEW t \in TryPoppers, TryPop(t)
        PROVE  NoPopperSleepsOnPicture'
    BY <2>6 DEF TryPop, Take
  <2>7. ASSUME NEW t \in Peekers, TryPeek(t) \/ PeekRetry(t)
        PROVE  NoPopperSleepsOnPicture'
    BY <2>7 DEF TryPeek, PeekRetry, Look
  <2>8. ASSUME NEW t \in Peekers, PeekWait(t)
        PROVE  NoPopperSleepsOnPicture'
    BY <2>8 DEF PeekWait
  <2>9. ASSUME NEW t \in Clearers, Clear(t)
        PROVE  NoPopperSleepsOnPicture'
    BY <2>9 DEF Clear
  <2>10. ASSUME NEW t \in Thread, SpuriousWake(t)
         PROVE  NoPopperSleepsOnPicture'
    BY <2>10 DEF SpuriousWake
  <2>11. CASE UNCHANGED vars
    BY <2>11 DEF vars
  <2> QED
    BY <2>1, <2>2, <2>3, <2>4, <2>5, <2>6, <2>7, <2>8, <2>9, <2>10, <2>11
       DEF Next
<1> QED
  BY <1>1, <1>2, TypeCorrect, PTL DEF Spec

-----------------------------------------------------------------------------
(* What each step does to the set of blocked pushers.                       *)
LEMMA BlockedPushersStep ==
    ASSUME TypeOK, Next
    PROVE  \/ BlockedPushers' = BlockedPushers
           \/ \E p \in Pushers : \/ /\ BlockedPushers' = BlockedPushers \union {p}
                                    /\ p \notin BlockedPushers
                                    /\ \E x \in Image : Push(p, x)
                                    /\ Len(queue') > Limit
                                 \/ /\ BlockedPushers' = BlockedPushers \ {p}
                                    /\ p \in BlockedPushers
                                    /\ PushRetry(p)
                                    /\ ~ Len(queue) > Limit
<1> USE DEF TypeOK, BlockedPushers, At, Goto, Thread, Takers
<1>1. ASSUME NEW p \in Pushers, NEW x \in Image, Push(p, x)
      PROVE  \/ BlockedPushers' = BlockedPushers
             \/ /\ BlockedPushers' = BlockedPushers \union {p}
                /\ p \notin BlockedPushers
                /\ Len(queue') > Limit
  BY <1>1 DEF Push
<1>2. ASSUME NEW p \in Pushers, PushRetry(p)
      PROVE  \/ BlockedPushers' = BlockedPushers
             \/ /\ BlockedPushers' = BlockedPushers \ {p}
                /\ p \in BlockedPushers
                /\ ~ Len(queue) > Limit
  BY <1>2 DEF PushRetry
<1>3. ASSUME NEW p \in Pushers, PushNotify(p)
      PROVE  BlockedPushers' = BlockedPushers
  BY <1>3 DEF PushNotify
<1>4. ASSUME NEW c \in Poppers, Pop(c) \/ PopRetry(c)
      PROVE  BlockedPushers' = BlockedPushers
  BY <1>4 DEF Pop, PopRetry
<1>5. ASSUME NEW t \in Peekers, TryPeek(t) \/ PeekWait(t) \/ PeekRetry(t)
      PROVE  BlockedPushers' = BlockedPushers
  BY <1>5 DEF TryPeek, PeekWait, PeekRetry
<1>6. ASSUME NEW t, TryPop(t) \/ Clear(t) \/ SpuriousWake(t)
      PROVE  BlockedPushers' = BlockedPushers
  BY <1>6 DEF TryPop, Clear, SpuriousWake
<1> QED
  BY <1>1, <1>2, <1>3, <1>4, <1>5, <1>6 DEF Next

(* What each step does to the number of queued pictures.                    *)
LEMMA QueueLengthStep ==
    ASSUME TypeOK, Next
    PROVE  /\ Len(queue) \in Nat
           /\ Len(queue') \in Nat
           /\ \/ Len(queue') <= Len(queue)
              \/ \E p \in Pushers, x \in Image : /\ Push(p, x)
                                                 /\ Len(queue') = Len(queue) + 1
<1> USE DEF TypeOK
<1>1. ASSUME NEW p \in Pushers, NEW x \in Image, Push(p, x)
      PROVE  Len(queue') = Len(queue) + 1 /\ Len(queue) \in Nat
  BY <1>1, AppendToQueue DEF Push
<1>2. ASSUME NEW c, Take(c)
      PROVE  Len(queue) \in Nat /\ Len(queue') \in Nat /\ Len(queue') <= Len(queue)
  BY <1>2, TailOfQueue DEF Take
<1>3. ASSUME queue' = <<>> \/ queue' = queue
      PROVE  Len(queue) \in Nat /\ Len(queue') \in Nat /\ Len(queue') <= Len(queue)
  BY <1>3, EmptySeq, LenProperties
<1>4. \/ \E p \in Pushers, x \in Image : Push(p, x)
      \/ \E c : Take(c)
      \/ queue' = <<>> \/ queue' = queue
  BY DEF Next, PushRetry, PushNotify, Pop, PopRetry, TryPop, TryPeek, PeekWait,
         PeekRetry, Look, Clear, SpuriousWake
<1> QED
  BY <1>1, <1>2, <1>3, <1>4

(* push overshoots the limit by no more than the pictures of the pushers    *)
(* that are still blocked in it (blocking_queue.cpp:51-55).                 *)
THEOREM OvershootBounded == Spec => []OvershootIsHeldBack
<1>1. Init => OvershootIsHeldBack
  <2> SUFFICES ASSUME Init
               PROVE  OvershootIsHeldBack
    OBVIOUS
  <2>1. BlockedPushers = {}
    BY DEF Init, BlockedPushers, Thread
  <2>2. Cardinality(BlockedPushers) = 0
    BY <2>1, FS_EmptySet
  <2>3. Len(queue) = 0
    BY EmptySeq DEF Init
  <2> QED
    BY <2>2, <2>3, BlockingQueueAssumption DEF OvershootIsHeldBack
<1>2. TypeOK /\ OvershootIsHeldBack /\ [Next]_vars => OvershootIsHeldBack'
  <2> SUFFICES ASSUME TypeOK, OvershootIsHeldBack, [Next]_vars
               PROVE  OvershootIsHeldBack'
    OBVIOUS
  <2> DEFINE B == Cardinality(BlockedPushers)
  <2>1. IsFiniteSet(BlockedPushers) /\ B \in Nat /\ Limit \in Nat
    BY FS_Subset, FS_CardinalityType, BlockingQueueAssumption
       DEF BlockedPushers
  <2>2. CASE UNCHANGED vars
    BY <2>2 DEF vars, OvershootIsHeldBack, BlockedPushers
  <2>3. CASE Next
    <3>1. CASE BlockedPushers' = BlockedPushers
      <4>1. CASE Len(queue') <= Len(queue)
        BY <2>1, <2>3, <3>1, <4>1, QueueLengthStep DEF OvershootIsHeldBack
      <4>2. ASSUME NEW p \in Pushers, NEW x \in Image, Push(p, x)
            PROVE  Len(queue') <= Limit
        <5>1. p \notin BlockedPushers /\ p \in Thread
          BY <4>2 DEF Push, At, BlockedPushers, Thread
        <5>2. pc'[p] # "push"
          BY <3>1, <5>1 DEF BlockedPushers
        <5>3. Len(queue') \in Nat
          BY <2>3, QueueLengthStep
        <5> QED
          BY <2>1, <4>2, <5>1, <5>2, <5>3 DEF Push, Goto, TypeOK
      <4> QED
        BY <2>1, <2>3, <3>1, <4>1, <4>2, QueueLengthStep
           DEF OvershootIsHeldBack
    <3>2. ASSUME NEW p \in Pushers,
                 BlockedPushers' = BlockedPushers \union {p},
                 p \notin BlockedPushers
          PROVE  OvershootIsHeldBack'
      <4>1. Cardinality(BlockedPushers') = B + 1
        BY <2>1, <3>2, FS_AddElement
      <4>2. Len(queue') <= Len(queue) + 1
        BY <2>3, QueueLengthStep
      <4> QED
        BY <2>1, <2>3, <4>1, <4>2, QueueLengthStep DEF OvershootIsHeldBack
    <3>3. ASSUME NEW p \in Pushers, PushRetry(p), ~ Len(queue) > Limit,
                 BlockedPushers' = BlockedPushers \ {p}
          PROVE  OvershootIsHeldBack'
      <4>1. Cardinality(BlockedPushers') \in Nat
        BY <2>1, <3>3, FS_RemoveElement, FS_CardinalityType
      <4>2. queue' = queue
        BY <3>3 DEF PushRetry
      <4> QED
        BY <2>1, <2>3, <3>3, <4>1, <4>2, QueueLengthStep
           DEF OvershootIsHeldBack
    <3> QED
      BY <2>3, <3>1, <3>2, <3>3, BlockedPushersStep
  <2> QED
    BY <2>2, <2>3
<1> QED
  BY <1>1, <1>2, TypeCorrect, PTL DEF Spec

-----------------------------------------------------------------------------
(* The poppers that are not inside pop.                                     *)
Outside == {c \in Poppers : pc[c] # "pop"}

(* The inductive invariant behind SleepingPusherHasPicture.  A pusher goes  *)
(* to sleep above the limit.  While it sleeps no popper enters pop, for it  *)
(* would notify; so each picture that is missing to Limit + 1 was taken by  *)
(* a popper that was inside pop already and is outside now.                 *)
SleepingPusherInv ==
    (TryPoppers = {} /\ \E p \in waiting : pc[p] = "push")
        => Len(queue) + Cardinality(Outside) > Limit

(* What each step does to the number of poppers outside pop.                *)
LEMMA OutsideStep ==
    ASSUME TypeOK, Next, ~ \E c \in Poppers : Pop(c)
    PROVE  /\ Cardinality(Outside) \in Nat
           /\ Cardinality(Outside') \in Nat
           /\ \/ Outside' = Outside
              \/ \E c \in Poppers : /\ PopRetry(c)
                                    /\ Take(c)
                                    /\ Cardinality(Outside') = Cardinality(Outside) + 1
<1>1. IsFiniteSet(Outside) /\ IsFiniteSet(Outside')
  BY FS_Subset, BlockingQueueAssumption DEF Outside
<1>2. ASSUME NEW c \in Poppers, PopRetry(c), Take(c)
      PROVE  Outside' = Outside \union {c} /\ c \notin Outside
  BY <1>2, TailOfQueue
     DEF TypeOK, PopRetry, Take, Outside, At, Goto, Thread, Takers
<1>3. ASSUME NEW c \in Poppers, PopRetry(c), ~ Take(c)
      PROVE  Outside' = Outside
  BY <1>3 DEF PopRetry, Outside
<1>4. ASSUME ~ \E c \in Poppers : PopRetry(c)
      PROVE  Outside' = Outside
  BY <1>4 DEF TypeOK, Outside, At, Goto, Thread, Takers, Next, Push, PushRetry,
     PushNotify, TryPop, TryPeek, PeekWait, PeekRetry, Clear, SpuriousWake
<1> QED
  BY <1>1, <1>2, <1>3, <1>4, FS_AddElement, FS_CardinalityType

(* A pusher asleep with the list back within its limit is not lost, for any *)
(* number of poppers up to Limit: there is a picture left for an agency to  *)
(* pop, and pop notifies.  (1H8-PS runs 4 agencies and a limit of 5.)       *)
THEOREM SleepingPusherNotLost == Spec => []SleepingPusherHasPicture
<1>1. Init => SleepingPusherInv
  BY DEF Init, SleepingPusherInv
<1>2. TypeOK /\ SleepingPusherInv /\ [Next]_vars => SleepingPusherInv'
  <2> SUFFICES ASSUME TypeOK, SleepingPusherInv, [Next]_vars, TryPoppers = {},
                      NEW q \in waiting', pc'[q] = "push"
               PROVE  Len(queue') + Cardinality(Outside') > Limit
    BY DEF SleepingPusherInv
  <2>1. CASE UNCHANGED vars
    BY <2>1 DEF vars, SleepingPusherInv, Outside
  <2>2. CASE Next
    <3>1. ~ \E c \in Poppers : Pop(c)
      BY DEF Pop, Goto, TypeOK, Thread, Takers
    <3>2. CASE Len(queue') > Limit
      BY <2>2, <3>1, <3>2, OutsideStep, QueueLengthStep, BlockingQueueAssumption
    <3>3. CASE ~ Len(queue') > Limit
      <4>1. q \in waiting /\ pc[q] = "push"
        BY <2>2, <3>1, <3>3 DEF TypeOK, At, Goto, Thread, Takers, Next, Push,
           PushRetry, PushNotify, PopRetry, TryPop, TryPeek, PeekWait,
           PeekRetry, Clear, SpuriousWake
      <4>2. Len(queue) + Cardinality(Outside) > Limit
        BY <4>1 DEF SleepingPusherInv
      <4>3. CASE \E c \in Poppers : PopRetry(c) /\ Take(c)
        <5>1. Cardinality(Outside') = Cardinality(Outside) + 1
          BY <2>2, <3>1, <4>3, OutsideStep, TailOfQueue
             DEF TypeOK, PopRetry, Take, Outside, At, Goto, Thread, Takers
        <5>2. Len(queue') = Len(queue) - 1
          BY <4>3, TailOfQueue DEF TypeOK, Take
        <5> QED
          BY <2>2, <3>1, <4>2, <5>1, <5>2, OutsideStep, QueueLengthStep,
             BlockingQueueAssumption
      <4>4. CASE ~ \E c \in Poppers : PopRetry(c) /\ Take(c)
        <5>1. Outside' = Outside
          BY <2>2, <3>1, <4>4, OutsideStep
        <5>2. Len(queue') >= Len(queue)
          <6>1. queue' = queue \/ \E p \in Pushers, x \in Image : Push(p, x)
            <7>1. ~ \E t \in Clearers : Clear(t)
              BY DEF Clear
            <7> QED
              BY <2>2, <3>1, <4>4, <7>1 DEF Next, PushRetry, PushNotify,
                 PopRetry, TryPeek, PeekWait, PeekRetry, Look, SpuriousWake
          <6>2. ASSUME NEW p \in Pushers, NEW x \in Image, Push(p, x)
                PROVE  Len(queue') = Len(queue) + 1
            BY <6>2, AppendToQueue DEF Push, TypeOK
          <6> QED
            BY <2>2, <6>1, <6>2, QueueLengthStep
        <5> QED
          BY <2>2, <3>1, <4>2, <5>1, <5>2, OutsideStep, QueueLengthStep,
             BlockingQueueAssumption
      <4> QED
        BY <4>3, <4>4
    <3> QED
      BY <3>2, <3>3
  <2> QED
    BY <2>1, <2>2
<1>3. TypeOK /\ SleepingPusherInv => SleepingPusherHasPicture
  <2> SUFFICES ASSUME TypeOK, SleepingPusherInv,
                      Cardinality(Poppers) <= Limit, TryPoppers = {},
                      NEW p \in waiting, pc[p] = "push", queue = <<>>
               PROVE  FALSE
    BY DEF SleepingPusherHasPicture
  <2>1. Len(queue) = 0 /\ Len(queue) + Cardinality(Outside) > Limit
    BY EmptySeq DEF SleepingPusherInv
  <2>2. /\ Cardinality(Outside) <= Cardinality(Poppers)
        /\ Cardinality(Outside) \in Nat
        /\ Cardinality(Poppers) \in Nat
    BY FS_Subset, FS_CardinalityType, BlockingQueueAssumption DEF Outside
  <2> QED
    BY <2>1, <2>2, BlockingQueueAssumption
<1> QED
  BY <1>1, <1>2, <1>3, TypeCorrect, PTL DEF Spec

-----------------------------------------------------------------------------
(* The queue implements the abstract list: pictures are handed out in the   *)
(* order they were pushed, each to one popper, and a push returns only when *)
(* the list is within its limit.                                            *)
THEOREM QueueImplementsFifo == Spec => ImplementsFifo
<1>1. Init => Fifo!Init
  BY DEF Init, Fifo!Init, BlockedPushers, Thread
<1>2. TypeOK /\ [Next]_vars => [Fifo!Next]_Fifo!vars
  <2> SUFFICES ASSUME TypeOK, [Next]_vars
               PROVE  Fifo!Next \/ UNCHANGED Fifo!vars
    OBVIOUS
  <2> USE DEF Fifo!vars
  <2>1. ASSUME NEW p \in Pushers, NEW x \in Image, Push(p, x)
        PROVE  Fifo!Enqueue(p, x)
    <3>1. Len(queue') = Len(queue) + 1 /\ Len(queue) \in Nat
      BY <2>1, AppendToQueue DEF Push, TypeOK
    <3>2. BlockedPushers' = BlockedPushers \union IF Len(queue) < Limit THEN {} ELSE {p}
      BY <2>1, <3>1, BlockingQueueAssumption
         DEF Push, At, Goto, BlockedPushers, TypeOK, Thread
    <3> QED
      BY <2>1, <3>2 DEF Fifo!Enqueue, Push, At, BlockedPushers
  <2>2. ASSUME NEW p \in Pushers, PushRetry(p)
        PROVE  Fifo!Release(p) \/ UNCHANGED Fifo!vars
    <3>1. Len(queue) \in Nat
      BY LenProperties DEF TypeOK
    <3>2. CASE Len(queue) > Limit
      BY <2>2, <3>2 DEF PushRetry, BlockedPushers
    <3>3. CASE ~ Len(queue) > Limit
      BY <2>2, <3>1, <3>3, BlockingQueueAssumption
         DEF Fifo!Release, PushRetry, At, Goto, BlockedPushers, TypeOK, Thread
    <3> QED
      BY <3>2, <3>3
  <2>3. ASSUME NEW c \in Poppers, Pop(c) \/ PopRetry(c)
        PROVE  Fifo!Deliver(c) \/ UNCHANGED Fifo!vars
    <3>1. BlockedPushers' = BlockedPushers
      BY <2>3 DEF Pop, PopRetry, At, Goto, BlockedPushers, TypeOK, Thread
    <3> QED
      BY <2>3, <3>1 DEF Fifo!Deliver, Pop, PopRetry, Take
  <2>4. ASSUME NEW t \in TryPoppers, TryPop(t)
        PROVE  Fifo!Deliver(t)
    BY <2>4 DEF Fifo!Deliver, TryPop, Take, BlockedPushers
  <2>5. ASSUME NEW t \in Peekers, TryPeek(t) \/ PeekWait(t) \/ PeekRetry(t)
        PROVE  Fifo!Show(t) \/ UNCHANGED Fifo!vars
    <3>1. BlockedPushers' = BlockedPushers
      BY <2>5 DEF TryPeek, PeekWait, PeekRetry, At, Goto, BlockedPushers,
                  TypeOK, Thread
    <3> QED
      BY <2>5, <3>1 DEF Fifo!Show, TryPeek, PeekWait, PeekRetry, Look
  <2>6. ASSUME NEW t \in Clearers, Clear(t)
        PROVE  Fifo!Discard
    BY <2>6 DEF Fifo!Discard, Clear, BlockedPushers
  <2>7. ASSUME \/ \E p \in Pushers : PushNotify(p)
               \/ \E t \in Thread : SpuriousWake(t)
               \/ UNCHANGED vars
        PROVE  UNCHANGED Fifo!vars
    BY <2>7 DEF PushNotify, SpuriousWake, vars, At, Goto, BlockedPushers,
                TypeOK, Thread
  <2> QED
    BY <2>1, <2>2, <2>3, <2>4, <2>5, <2>6, <2>7 DEF Next, Fifo!Next, Takers
<1> QED
  BY <1>1, <1>2, TypeCorrect, PTL DEF Spec, ImplementsFifo, Fifo!Spec
=============================================================================
