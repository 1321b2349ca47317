--------------------------- MODULE MCSandboxUnit ---------------------------
(* One launcher thread and two stops of the same unit.                     *)
EXTENDS SandboxUnit

=============================================================================
