------------------------------ MODULE MCRollup ------------------------------
(***************************************************************************)
(* Rollup for TLC: no project and no handler differs from another, so TLC  *)
(* may take them for one another (only invariants are checked).            *)
(***************************************************************************)
EXTENDS Rollup, TLC

Symmetry == Permutations(Projects) \cup Permutations(Tasks)
=============================================================================
