--------------------------- MODULE MCSpareBridge ----------------------------
(***************************************************************************)
(* Instances of SpareBridge.                                               *)
(***************************************************************************)
EXTENDS SpareBridge, TLC

CONSTANTS p1, p2, l1

OwnCode == (l1 :> {p1})

=============================================================================
