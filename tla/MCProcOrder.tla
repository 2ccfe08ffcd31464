---------------------------- MODULE MCProcOrder ----------------------------
(***************************************************************************)
(* Instances of ProcOrder: one or two lines, of one or two suppliers.      *)
(***************************************************************************)
EXTENDS ProcOrder

\* Line "a" is cheap, line "b" dear; 5 percent of 20 units is one unit.
Twenty    == [l \in Lines |-> 20]
Prices    == [l \in Lines |-> IF l = "a" THEN 40 ELSE 1000]
BigPrices == [l \in Lines |-> 30000]
OneVendor == [l \in Lines |-> "alpha"]
TwoVendors == [l \in Lines |-> IF l = "a" THEN "alpha" ELSE "gamma"]
=============================================================================
