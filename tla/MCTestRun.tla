----------------------------- MODULE MCTestRun -----------------------------
(***************************************************************************)
(* TestRun for TLC.  Two requests are enough for one test to disturb, or   *)
(* to leave something behind for, another; MaxTests = 1 lines them up and  *)
(* MaxTests = 2 lets them overlap.  One device is a two-core 1H8 (without  *)
(* support for models 3 and 4) and one an MLU device.                      *)
(***************************************************************************)
EXTENDS TestRun
=============================================================================
