-------------------------- MODULE MCFloorSessions ---------------------------
(***************************************************************************)
(* Instances of FloorSessions.                                             *)
(***************************************************************************)
EXTENDS FloorSessions

\* Every pair that does no harm may overlap.
Harmless == {{f, g} : f, g \in Ops} \ Harmful

=============================================================================
