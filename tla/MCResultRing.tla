---------------------------- MODULE MCResultRing ----------------------------
(***************************************************************************)
(* ResultRing for TLC.  A ring of 3 slots (20 in the code) with twice as   *)
(* many results wraps around more than once and overflows; what an agency  *)
(* does depends on the slots only through Succ.                            *)
(***************************************************************************)
EXTENDS ResultRing, TLC

(* The agencies are interchangeable.                                        *)
Symmetry == Permutations(Agency)
=============================================================================
