--------------------------- MODULE MCProviderCalls ---------------------------
(***************************************************************************)
(* An instance of ProviderCalls for TLC.                                   *)
(***************************************************************************)
EXTENDS ProviderCalls, TLC

CONSTANTS a1, c1, c2, i1, i2, h1, h2

MCCall == {c1, c2}
MCAttempt == {a1}
MCAttemptOf == [c \in MCCall |-> a1]
MCInvoker == {i1, i2}
MCReconciler == {h1, h2}
MCUsage == {1, 2}
MCTime == {1, 2}
=============================================================================
