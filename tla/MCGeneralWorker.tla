-------------------------- MODULE MCGeneralWorker --------------------------
(* Two calls of one process, or one call beside another process.           *)
EXTENDS GeneralWorker

CONSTANTS c1, c2, p1, p2

OneProcess == [c \in {c1, c2} |-> p1]
TwoProcesses == [c \in {c1} |-> p1]

=============================================================================
