---------------------------- MODULE MCWarehouse -----------------------------
(***************************************************************************)
(* Instances of WarehouseSessions.                                         *)
(***************************************************************************)
EXTENDS WarehouseSessions

MCRolls == {1, 2}
MCClaims == {11, 12}

\* The two rolls are of two shade lots, so a lay of three metres mixes them.
MCLot == [r \in MCRolls |-> r]
MCMaxStock == [i \in Items |-> IF i = 1 THEN 2 ELSE 1]
MCLength == [r \in MCRolls |-> IF r = 1 THEN 2 ELSE 1]

\* Two pickers at once; a cutter's end-bit comes back while another cuts.
Pickers == {{"reserve"}}
Cutters == {{"issue", "return"}}

=============================================================================
