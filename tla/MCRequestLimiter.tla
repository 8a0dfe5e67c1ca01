-------------------------- MODULE MCRequestLimiter --------------------------
(* Values for the model checker. *)
EXTENDS RequestLimiter, TLC

CONSTANTS k1, k2, k3, k4

\* Clients are only compared for equality.
MCSymmetry == Permutations({k1, k2, k3, k4})
=============================================================================
