---------------------------- MODULE MCWebSession ----------------------------
(***************************************************************************)
(* WebSession for TLC: two requests at a time, and as a part of it one at  *)
(* a time.                                                                 *)
(***************************************************************************)
EXTENDS WebSession, TLC
Symmetry == Permutations(Request) \union Permutations(User)
            \union Permutations(Browser)
=============================================================================
