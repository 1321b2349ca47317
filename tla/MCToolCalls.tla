----------------------------- MODULE MCToolCalls -----------------------------
(***************************************************************************)
(* Instance of ToolCalls for TLC.                                          *)
(***************************************************************************)
EXTENDS ToolCalls, TLC

CONSTANTS q1, q2, q3

MCRequest == {q1, q2, q3}
MCDeniedPolicy == {1}
MCSymmetry == Permutations(MCRequest)
=============================================================================
