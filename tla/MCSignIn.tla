------------------------------ MODULE MCSignIn ------------------------------
(***************************************************************************)
(* Signing in for TLC.                                                     *)
(***************************************************************************)
EXTENDS SignIn, TLC
Symmetry == Permutations(Tabs)
=============================================================================
