---------------------------- MODULE MCLoginFlow ----------------------------
(* Values for the model checker. *)
EXTENDS LoginFlow, TLC

CONSTANTS botA, botB, l1, l2, l3, c1, c2, b1, b2

\* Logins, callbacks and browsers are only compared for equality.
MCSymmetry ==
  Permutations({l1, l2, l3}) \cup Permutations({c1, c2}) \cup Permutations({b1, b2})
=============================================================================
