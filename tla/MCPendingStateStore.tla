------------------------- MODULE MCPendingStateStore -------------------------
(* Values for the model checker: three sessions that compete for a store that *)
(* is smaller than the sum of their limits.                                 *)
EXTENDS PendingStateStore, TLC

CONSTANTS s1, s2, s3, v1, v2, v3

MCSessions == {s1, s2, s3}
MCVerifiers == {v1, v2, v3}

\* Sessions and verifiers are only compared for equality.
MCSymmetry == Permutations(MCSessions) \cup Permutations(MCVerifiers)
=============================================================================
