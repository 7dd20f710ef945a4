-------------------------- MODULE MCBrokerIsolation --------------------------
EXTENDS ClientEnd, TLC

CONSTANTS para1p, para1s, para2p, para2s

MCPrimary == <<para1p, para2p>>
MCSecondary == <<para1s, para2s>>
MCCanonical == [u \in Users |-> u]
(* Bound: not followed are behaviours after more than MaxTroubled ids met  *)
(* trouble, or after one did while MaxFaults failures are still to come.   *)
CONSTANT MaxTroubled
FewTroubled == Cardinality(troubled) <= IF faults = MaxFaults THEN MaxTroubled ELSE 0

Symmetry == Permutations(Workers) \cup Permutations(Keys) \cup Permutations(IPs)
=============================================================================
