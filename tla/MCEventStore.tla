---------------------------- MODULE MCEventStore ----------------------------
(***************************************************************************)
(* Instance of EventStore for TLC.                                         *)
(***************************************************************************)
EXTENDS EventStore, TLC

CONSTANTS tA, tB, x, k1, k2, k3, once, many, p1, p2

MCType == {tA, tB}
MCId == {x}
MCKey == {k1, k2, k3}
MCBody == {once, many}
MCOneShot == {once}
MCDrafts == {<<once>>, <<many, many>>}
MCProcess == {p1, p2}

MCSymmetry == Permutations(MCKey) \cup Permutations(MCProcess) \cup Permutations(MCType)
=============================================================================
