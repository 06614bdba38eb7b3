-------------------------- MODULE MCBlockingQueue --------------------------
(***************************************************************************)
(* BlockingQueue on small sets of threads.  Limit is 2 here and 5 in the   *)
(* code: what matters is that it is at least 1, that pushers can overstep  *)
(* it while poppers wait, and that there are no more poppers than Limit.   *)
(* No bound is needed: a pusher that oversteps Limit is blocked, so the    *)
(* queue never holds more than Limit pictures and one per pusher.          *)
(***************************************************************************)
EXTENDS BlockingQueue, TLC

(* Threads of one kind and pictures are interchangeable (safety runs only). *)
Symmetry ==
    UNION {Permutations(S) : S \in {Pushers, Poppers, Image}}
=============================================================================
