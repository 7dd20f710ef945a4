---------------------------- MODULE MCUserRegistry ----------------------------
(***************************************************************************)
(* The run on module UserRegistry, symmetric in the accounts and codes.    *)
(***************************************************************************)
EXTENDS UserRegistry, TLC

Symmetry == Permutations(Accounts) \cup Permutations(Codes)
=============================================================================
