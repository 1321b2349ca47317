-------------------------- MODULE MCHealthCircuit ---------------------------
(***************************************************************************)
(* Instances of HealthCircuit for TLC.                                     *)
(***************************************************************************)
EXTENDS HealthCircuit, TLC

CONSTANTS p, m1, m2, l1, l2

MCModel == {m1, m2}
MCOneModel == {m1}
MCLease == {l1, l2}
MCTerm == {1, 2}
MCRetryAfter == {2}

MCSymmetry == Permutations(MCModel) \cup Permutations(MCLease)
=============================================================================
