------------------------- MODULE MCPictureDispatch -------------------------
(***************************************************************************)
(* PictureDispatch for TLC.                                                *)
(***************************************************************************)
EXTENDS PictureDispatch, TLC

(* The boards are interchangeable (safety runs only).                       *)
Symmetry == Permutations(Board)
=============================================================================
