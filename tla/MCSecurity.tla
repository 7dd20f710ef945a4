------------------------------ MODULE MCSecurity ------------------------------
(***************************************************************************)
(* The runs on module SecurityScript: the sets are small and symmetric.    *)
(***************************************************************************)
EXTENDS SecurityProperties, TLC

Symmetry == Permutations(Handlers) \cup Permutations(Devices) \cup Permutations(Networks)
=============================================================================
