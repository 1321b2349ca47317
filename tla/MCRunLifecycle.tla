--------------------------- MODULE MCRunLifecycle ---------------------------
(***************************************************************************)
(* Instances of RunLifecycle for TLC.                                      *)
(***************************************************************************)
EXTENDS RunLifecycle, TLC

CONSTANTS n1, n2, n3, q1, why1, why2

MCNode == {n1, n2, n3}
MCSingleNode == {n1}
MCRequest == {q1}
MCReason == {why1}
MCTwoReasons == {why1, why2}

MCSymmetry == Permutations(MCNode)
=============================================================================
