--------------------------- MODULE MCProcSessions ---------------------------
(***************************************************************************)
(* Instances of ProcSessions.                                              *)
(***************************************************************************)
EXTENDS ProcSessions

\* Every other pair may overlap.
Harmless == {{a, b} : a, b \in Ops} \ Harmful

=============================================================================
