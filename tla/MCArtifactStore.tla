-------------------------- MODULE MCArtifactStore --------------------------
(* Two publications of one digest and two readers that share one grant.    *)
EXTENDS ArtifactStore, TLC

CONSTANTS p1, p2, d1, g1, r1, r2

MCOf == (p1 :> d1) @@ (p2 :> d1)
MCFor == (g1 :> d1)
=============================================================================
