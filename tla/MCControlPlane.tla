--------------------------- MODULE MCControlPlane ---------------------------
(***************************************************************************)
(* An instance of ControlPlane for TLC.                                    *)
(***************************************************************************)
EXTENDS ControlPlane, TLC

CONSTANTS r1, r2, n1, n2, p1, s1, q1

MCRun == {r1, r2}
MCNode == {n1, n2}
MCProvider == {p1}
MCSweeper == {s1}
MCRequest == {q1}
MCAsOf == {1}
MCToolUser == {n1}

\* Two independent nodes, tried once, or the second waiting for the first,
\* which may be tried twice.
MCGraph ==
  {[deps |-> [n \in MCNode |-> {}], limit |-> [n \in MCNode |-> 1]],
   [deps |-> [n \in MCNode |-> IF n = n2 THEN {n1} ELSE {}],
    limit |-> [n \in MCNode |-> IF n = n1 THEN 2 ELSE 1]]}

MCSymmetry == Permutations(MCRun)
=============================================================================
