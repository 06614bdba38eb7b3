--------------------------- MODULE BlockingQueue ---------------------------
(***************************************************************************)
(* BlockingQueue<T> of 1H8-PS (blocking_queue.cpp): a std::queue under one *)
(* mutex and ONE condition variable, on which blocked pushers (list above  *)
(* its limit) and blocked poppers (list empty) both wait.                  *)
(*                                                                         *)
(* The code under the mutex, from an acquisition to the next release or    *)
(* wait, is one step.  A thread inside condition_.wait is in `waiting`;    *)
(* notify_all empties that set, and a thread that left it has still to     *)
(* take the mutex and look again (its Retry step).  Boost may also wake a  *)
(* waiting thread for no reason (SpuriousWake).                            *)
(*                                                                         *)
(* push adds its picture BEFORE it waits, and notifies after it released   *)
(* the mutex; pop notifies BEFORE it looks for a picture and never again;  *)
(* try_pop removes a picture and notifies nobody.  What follows from that  *)
(* order is the subject of the properties below.                           *)
(***************************************************************************)
EXTENDS Integers, Sequences, FiniteSets

CONSTANTS Image,       \* the queued pictures (PictureInfor)
          Limit,       \* 5 in the code
          Pushers,     \* threads that call push: loader, reinforcement
          Poppers,     \* threads that call pop: the four agencies
          TryPoppers,  \* threads that call try_pop (none in this program)
          Peekers,     \* threads that call peek, try_peek (none either)
          Clearers     \* threads that call clear: the mode switch

Takers == Poppers \union TryPoppers \union Peekers
Thread == Pushers \union Takers \union Clearers

ASSUME BlockingQueueAssumption ==
    /\ Limit \in Nat \ {0}
    /\ IsFiniteSet(Pushers)
    /\ IsFiniteSet(Poppers)

VARIABLES queue,      \* queue_: the pictures, oldest first
          pc,         \* where each thread is: outside, or in which operation
          waiting,    \* the threads blocked in condition_.wait
          got         \* what each taker's last pop, try_pop or peek returned

vars == <<queue, pc, waiting, got>>

TypeOK ==
    /\ queue \in Seq(Image)
    /\ pc \in [Thread -> {"idle", "push", "notify", "pop", "peek"}]
    /\ waiting \subseteq Thread
    /\ got \in [Takers -> Seq(Image)]

Init ==
    /\ queue = <<>>
    /\ pc = [t \in Thread |-> "idle"]
    /\ waiting = {}
    /\ got = [t \in Takers |-> <<>>]

At(t, here) == pc[t] = here /\ t \notin waiting
Goto(t, there) == pc' = [pc EXCEPT ![t] = there]

-----------------------------------------------------------------------------
(* Faulty push: one picture more than the limit before it waits.            *)
Push_LimitOffByOne(p, x) ==
    /\ At(p, "idle")
    /\ queue' = Append(queue, x)
    /\ IF Len(queue') > Limit + 1
       THEN Goto(p, "push") /\ waiting' = waiting \union {p}
       ELSE Goto(p, "notify") /\ UNCHANGED waiting
    /\ UNCHANGED got

(* Faulty push: returns without a notification.                             *)
Push_NoNotify(p, x) ==
    /\ At(p, "idle")
    /\ queue' = Append(queue, x)
    /\ IF Len(queue') > Limit
       THEN Goto(p, "push") /\ waiting' = waiting \union {p}
       ELSE UNCHANGED <<pc, waiting>>
    /\ UNCHANGED got

(* push: the picture is in before the limit is looked at.                   *)
Push(p, x) ==
    /\ At(p, "idle")
    /\ queue' = Append(queue, x)
    /\ IF Len(queue') > Limit
       THEN Goto(p, "push") /\ waiting' = waiting \union {p}
       ELSE Goto(p, "notify") /\ UNCHANGED waiting
    /\ UNCHANGED got

(* push: woken, the pusher looks again: `while (size > 5) wait`.            *)
PushRetry(p) ==
    /\ At(p, "push")
    /\ IF Len(queue) > Limit
       THEN waiting' = waiting \union {p} /\ UNCHANGED pc
       ELSE Goto(p, "notify") /\ UNCHANGED waiting
    /\ UNCHANGED <<queue, got>>

(* Faulty push: notify_one, the line that the code has commented out.       *)
PushNotify_One(p) ==
    /\ At(p, "notify")
    /\ \/ waiting = {} /\ UNCHANGED waiting
       \/ \E t \in waiting : waiting' = waiting \ {t}
    /\ Goto(p, "idle")
    /\ UNCHANGED <<queue, got>>

(* push: notify_all, after the mutex was released.                          *)
PushNotify(p) ==
    /\ At(p, "notify")
    /\ waiting' = {}
    /\ Goto(p, "idle")
    /\ UNCHANGED <<queue, got>>

(* Faulty removal: the newest picture.                                      *)
Take_Newest(c) ==
    /\ queue # <<>>
    /\ queue' = SubSeq(queue, 1, Len(queue) - 1)
    /\ got' = [got EXCEPT ![c] = <<queue[Len(queue)]>>]

(* Remove the oldest picture, and return it to c.                           *)
Take(c) ==
    /\ queue # <<>>
    /\ queue' = Tail(queue)
    /\ got' = [got EXCEPT ![c] = <<Head(queue)>>]

(* Faulty pop: without the notify_all at its start.                         *)
Pop_NoNotify(c) ==
    /\ At(c, "idle")
    /\ \/ /\ Take(c)
          /\ UNCHANGED <<pc, waiting>>
       \/ /\ queue = <<>>
          /\ waiting' = waiting \union {c}
          /\ Goto(c, "pop")
          /\ UNCHANGED <<queue, got>>

(* pop: notify_all comes first; the threads it wakes run after this step.   *)
Pop(c) ==
    /\ At(c, "idle")
    /\ \/ /\ Take(c)
          /\ waiting' = {}
          /\ UNCHANGED pc
       \/ /\ queue = <<>>
          /\ waiting' = {c}
          /\ Goto(c, "pop")
          /\ UNCHANGED <<queue, got>>

(* pop: woken, the popper looks again; it notifies nobody.                  *)
PopRetry(c) ==
    /\ At(c, "pop")
    /\ \/ Take(c) /\ Goto(c, "idle") /\ UNCHANGED waiting
       \/ /\ queue = <<>>
          /\ waiting' = waiting \union {c}
          /\ UNCHANGED <<queue, pc, got>>

(* try_pop: with a picture; without one it only returns false.              *)
TryPop(t) ==
    /\ At(t, "idle")
    /\ Take(t)
    /\ UNCHANGED <<pc, waiting>>

(* Faulty look: returns the queue's length instead of a picture.            *)
Look_Length(t) ==
    /\ queue # <<>>
    /\ got' = [got EXCEPT ![t] = <<Len(queue)>>]
    /\ UNCHANGED queue

(* Return the oldest picture to t, and leave it in the queue.               *)
Look(t) ==
    /\ queue # <<>>
    /\ got' = [got EXCEPT ![t] = <<Head(queue)>>]
    /\ UNCHANGED queue

(* try_peek and peek, when there is a picture.                              *)
TryPeek(t) ==
    /\ At(t, "idle")
    /\ Look(t)
    /\ UNCHANGED <<pc, waiting>>

(* peek: no picture, wait for one.                                          *)
PeekWait(t) ==
    /\ pc[t] \in {"idle", "peek"}
    /\ t \notin waiting
    /\ queue = <<>>
    /\ waiting' = waiting \union {t}
    /\ Goto(t, "peek")
    /\ UNCHANGED <<queue, got>>

(* peek: woken with a picture there.                                        *)
PeekRetry(t) ==
    /\ At(t, "peek")
    /\ Look(t)
    /\ Goto(t, "idle")
    /\ UNCHANGED waiting

(* clear: swap with an empty queue, notify_all.  The size it reads after    *)
(* the unlock is only its return value, which its one caller logs.          *)
Clear(t) ==
    /\ At(t, "idle")
    /\ queue' = <<>>
    /\ waiting' = {}
    /\ UNCHANGED <<pc, got>>

(* condition_.wait may return without a notification.                       *)
SpuriousWake(t) ==
    /\ t \in waiting
    /\ waiting' = waiting \ {t}
    /\ UNCHANGED <<queue, pc, got>>

Next ==
    \/ \E p \in Pushers : \/ \E x \in Image : Push(p, x)
                          \/ PushRetry(p)
                          \/ PushNotify(p)
    \/ \E c \in Poppers : Pop(c) \/ PopRetry(c)
    \/ \E t \in TryPoppers : TryPop(t)
    \/ \E t \in Peekers : TryPeek(t) \/ PeekWait(t) \/ PeekRetry(t)
    \/ \E t \in Clearers : Clear(t)
    \/ \E t \in Thread : SpuriousWake(t)

Spec == Init /\ [][Next]_vars

(***************************************************************************)
(* Fairness: a thread that is not blocked goes on (the kernel schedules it *)
(* and the mutex is free between steps), and an agency asks for a picture  *)
(* again and again while there is one (a connected board polls for ever,   *)
(* and DataDeal calls pop when size() > 0).  Nothing obliges a loader to   *)
(* push, and no spurious wake-up is owed to anybody.                       *)
(***************************************************************************)
Fairness ==
    /\ \A p \in Pushers : WF_vars(PushRetry(p)) /\ WF_vars(PushNotify(p))
    /\ \A c \in Poppers : /\ WF_vars(PopRetry(c))
                          /\ WF_vars(queue # <<>> /\ Pop(c))
    /\ \A t \in Peekers : WF_vars(PeekRetry(t))

FairSpec == Spec /\ Fairness

-----------------------------------------------------------------------------
BlockedPushers == {p \in Pushers : pc[p] = "push"}

(* push adds first and waits afterwards (blocking_queue.cpp:51-55), so the  *)
(* limit is soft: every picture above it belongs to a push that has not     *)
(* returned yet.                                                            *)
OvershootIsHeldBack == Len(queue) <= Limit + Cardinality(BlockedPushers)

(* No popper (or peeker) sleeps on a picture: if one waits while there is   *)
(* a picture, a push past its own wait (51-55) has yet to notify (59).      *)
NoPopperSleepsOnPicture ==
    (queue # <<>> /\ \E t \in waiting : pc[t] \in {"pop", "peek"})
        => \E p \in Pushers : pc[p] = "notify"

(* pop never notifies after it took a picture (76-94), so a pusher may      *)
(* sleep though the list is back within its limit.  It is not lost while    *)
(* there are at most Limit poppers and nobody calls try_pop: there is then  *)
(* a picture left, so the agency that asks for it calls pop and notifies.   *)
SleepingPusherHasPicture ==
    (Cardinality(Poppers) <= Limit /\ TryPoppers = {})
        => ((\E p \in waiting : pc[p] = "push") => queue # <<>>)

(* A pop or peek that is blocked while there is a picture goes on, or       *)
(* another thread takes the pictures first: no wake-up is lost to it.       *)
PopperGoesOn ==
    \A t \in Poppers \union Peekers :
        (pc[t] \in {"pop", "peek"} /\ queue # <<>>)
            ~> (pc[t] = "idle" \/ queue = <<>>)

-----------------------------------------------------------------------------
(* The queue implements the abstract list; with one loader and pollers that *)
(* keep asking it implements it fairly too.                                 *)
Fifo == INSTANCE PictureFifo
          WITH items <- queue, held <- BlockedPushers, handed <- got

(* Every step is an Enqueue, Release, Deliver, Show or Discard of the list. *)
ImplementsFifo == Fifo!Spec

(* A loader is never held back for ever by a list within its limit.         *)
ImplementsFairFifo == Fifo!FairSpec
=============================================================================
