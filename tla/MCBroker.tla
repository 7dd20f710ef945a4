------------------------------ MODULE MCBroker ------------------------------
(***************************************************************************)
(* Values of the constants for the runs on module Broker.  A user id is    *)
(* the canonical spelling of its own number, as the registration triggers  *)
(* produce it, except the ids in NotHexUsers, which ParseUint refuses.     *)
(***************************************************************************)
EXTENDS BrokerProperties, TLC

CONSTANTS para1p, para1s, para2p, para2s, NotHexUsers

MCPrimary == <<para1p, para2p>>
MCSecondary == <<para1s, para2s>>
MCCanonical == [u \in Users |-> IF u \in NotHexUsers THEN NotHex ELSE u]
Symmetry == Permutations(Workers) \cup Permutations(Keys) \cup Permutations(IPs)
=============================================================================
