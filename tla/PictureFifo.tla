---------------------------- MODULE PictureFifo ----------------------------
(***************************************************************************)
(* What the picture list between the loader and the board agencies of the  *)
(* 1H8 processing system (1H8-PS) promises: a first-in first-out list with *)
(* a soft limit.  A loader may overshoot the limit by the one picture it   *)
(* is adding, and is then held back until the list is within its limit.    *)
(* BlockingQueue implements this with one mutex and one condition.         *)
(***************************************************************************)
EXTENDS Integers, Sequences, FiniteSets

CONSTANTS Image,     \* the pictures
          Limit,     \* pictures the list may hold while no loader is held back
          Pushers,   \* threads that add pictures
          Takers     \* threads that remove, or look at, the first picture

VARIABLES items,     \* the list, oldest picture first
          held,      \* the loaders whose picture is in, but who may not go on
          handed     \* what each taker was handed last (at most one picture)

vars == <<items, held, handed>>

TypeOK ==
    /\ items \in Seq(Image)
    /\ held \subseteq Pushers
    /\ handed \in [Takers -> Seq(Image)]

Init ==
    /\ items = <<>>
    /\ held = {}
    /\ handed = [t \in Takers |-> <<>>]

(* A loader adds a picture; it is held back if that oversteps the limit.    *)
Enqueue(p, x) ==
    /\ p \notin held
    /\ items' = Append(items, x)
    /\ held' = held \union IF Len(items) < Limit THEN {} ELSE {p}
    /\ UNCHANGED handed

(* A loader goes on: the list is within its limit again.                    *)
Release(p) ==
    /\ p \in held
    /\ Len(items) <= Limit
    /\ held' = held \ {p}
    /\ UNCHANGED <<items, handed>>

(* The oldest picture goes to one taker.                                    *)
Deliver(t) ==
    /\ items # <<>>
    /\ items' = Tail(items)
    /\ handed' = [handed EXCEPT ![t] = <<Head(items)>>]
    /\ UNCHANGED held

(* A taker looks at the oldest picture.                                     *)
Show(t) ==
    /\ items # <<>>
    /\ handed' = [handed EXCEPT ![t] = <<Head(items)>>]
    /\ UNCHANGED <<items, held>>

(* All pictures are dropped at once.                                        *)
Discard ==
    /\ items' = <<>>
    /\ UNCHANGED <<held, handed>>

Next ==
    \/ \E p \in Pushers : Release(p) \/ \E x \in Image : Enqueue(p, x)
    \/ \E t \in Takers : Deliver(t) \/ Show(t)
    \/ Discard

Spec == Init /\ [][Next]_vars

(* No loader is held back for ever once the list is within its limit.       *)
FairSpec == Spec /\ \A p \in Pushers : WF_vars(Release(p))
=============================================================================
