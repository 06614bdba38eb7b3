--------------------------- MODULE MCBatchNumbers ---------------------------
(***************************************************************************)
(* BatchNumbers for TLC.  Three tests: the third takes a number from       *)
(* records of two others.                                                  *)
(***************************************************************************)
EXTENDS BatchNumbers, TLC
Symmetry == Permutations(Test)
=============================================================================
