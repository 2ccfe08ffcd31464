----------------------------- MODULE MCMaintDesk ----------------------------
(***************************************************************************)
(* Instances of MaintDesk.                                                 *)
(***************************************************************************)
EXTENDS MaintDesk, TLC

CONSTANTS p1

FewParts == (p1 :> 2)

=============================================================================
