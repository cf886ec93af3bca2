----------------------------- MODULE MCTracker -----------------------------
(***************************************************************************)
(* The tracker for TLC.  Tabs and paths are only compared.                 *)
(***************************************************************************)
EXTENDS Tracker, TLC

Symmetry == Permutations(Tabs) \cup Permutations(Paths)
=============================================================================
