------------------------------ MODULE MCRecovery ------------------------------
(***************************************************************************)
(* Values of the constants for the runs on module Recovery.                *)
(***************************************************************************)
EXTENDS RecoveryProperties, TLC

CONSTANTS para1p, para1s, para2p, para2s, NotHexUsers

MCPrimary == <<para1p, para2p>>
MCSecondary == <<para1s, para2s>>
MCCanonical == [u \in Users |-> IF u \in NotHexUsers THEN NotHex ELSE u]
Symmetry == Permutations(Keys) \cup Permutations(IPs)
=============================================================================
