------------------------------ MODULE MCKeyFile ------------------------------
(* Values for the model checker. *)
EXTENDS KeyFile, TLC

CONSTANTS p1, p2, p3

\* Processes are only compared for equality.
MCSymmetry == Permutations({p1, p2, p3})

=============================================================================
