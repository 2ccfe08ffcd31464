----------------------------- MODULE ProcLadder -----------------------------
(***************************************************************************)
(* The signing ladder of a purchase request: which stages a commitment of  *)
(* a given value has to collect, and which extra stage each control adds.  *)
(*                                                                         *)
(* app/approvals/constants.py holds these rules as tables and pure         *)
(* functions.  A ladder is a set of stages here: the code keeps its lists  *)
(* sorted by DOAM_LADDER, so the order is Rank and carries no information  *)
(* of its own.  Amounts are EGP, as in the tables.  The per-department     *)
(* responsibility matrix and the thresholds an administrator may override  *)
(* are left at their defaults (an empty matrix, the DOAM numbers).         *)
(***************************************************************************)
EXTENDS Integers, FiniteSets

DOAM_LADDER == << "warehouse", "warehouse_manager", "purchasing",
                  "factory_manager", "scd", "cfo", "ceo", "bod" >>

Stages == {DOAM_LADDER[i] : i \in 1..8}

NoStage == "none"                      \* Python's None where a stage is asked for

Rank == [s \in Stages |-> CHOOSE i \in 1..8 : DOAM_LADDER[i] = s]

Lowest(S)  == CHOOSE s \in S : \A t \in S : Rank[s] <= Rank[t]
Highest(S) == CHOOSE s \in S : \A t \in S : Rank[t] <= Rank[s]

-----------------------------------------------------------------------------
(* Authority levels, LEVEL_ORDER = L4 < L3 < L2 < L1 < BOD.                *)

L4 == 1
L3 == 2
L2 == 3
L1 == 4
BOD == 5

DOAM_LEVEL ==
  [s \in Stages |-> CASE s \in {"warehouse", "warehouse_manager", "purchasing"} -> L4
                      [] s \in {"factory_manager", "scd"}                       -> L2
                      [] s \in {"cfo", "ceo"}                                   -> L1
                      [] s = "bod"                                              -> BOD]

\* The next level some stage is staffed at; nothing is above the Board.
LevelAbove(level) ==
  LET staffed == {DOAM_LEVEL[s] : s \in Stages}
      above   == {l \in staffed : l > level}
  IN  IF above = {} THEN BOD ELSE CHOOSE l \in above : \A m \in above : l <= m

-----------------------------------------------------------------------------
(* The two value matrices and the ladder they build.                       *)

Kinds == {"opex", "capex"}

OPEX_MATRIX ==
  [s \in Stages |-> CASE s \in {"warehouse", "warehouse_manager", "purchasing"} -> 0
                      [] s \in {"factory_manager", "scd"} -> 10000
                      [] s = "cfo" -> 500000
                      [] s = "ceo" -> 2000000
                      [] s = "bod" -> 5000000]

CAPEX_MATRIX ==
  [s \in Stages \ {"warehouse", "warehouse_manager"} |->
     CASE s = "ceo" -> 250000 [] s = "bod" -> 2000000 [] OTHER -> 0]

Matrix(kind) == IF kind = "capex" THEN CAPEX_MATRIX ELSE OPEX_MATRIX

\* A rung is in when its threshold is 0 or the total EXCEEDS it ("up to 10,000").
BuildLadder(total, kind) ==
  {s \in DOMAIN Matrix(kind) : Matrix(kind)[s] = 0 \/ total > Matrix(kind)[s]}

\* Mutant: the directors' rungs are left out of the reconciliation.
ValueStagesAboveDirectors == {s \in Stages : OPEX_MATRIX[s] > 10000}

\* Value rungs are reconciled when the price moves; demand rungs never are.
VALUE_STAGES == {s \in Stages : OPEX_MATRIX[s] > 0}

PRICING_GATE_STAGE == "purchasing"

-----------------------------------------------------------------------------
(* DOAM Table 4: an OPEX request whose domain is clear needs one of the    *)
(* two L2 directors, not both.                                             *)

Domains == {"plant", "supply_chain", "unclear"}

L2_DOMAIN_STAGE == [d \in {"plant", "supply_chain"} |->
                      IF d = "plant" THEN "factory_manager" ELSE "scd"]

ApplyL2Domain(ladder, domain) ==
  IF domain \in DOMAIN L2_DOMAIN_STAGE /\ {"factory_manager", "scd"} \subseteq ladder
  THEN ladder \ ({"factory_manager", "scd"} \ {L2_DOMAIN_STAGE[domain]})
  ELSE ladder

\* dept_ladder for a saved request.
DeptLadder(total, kind, domain) ==
  IF kind = "capex" THEN BuildLadder(total, kind)
                    ELSE ApplyL2Domain(BuildLadder(total, kind), domain)

-----------------------------------------------------------------------------
(* The controls that add a signature on top of the value ladder.           *)

\* DOAM 4.3: waiving competition is signed one level above `top`, the stage
\* the caller's list ends with.
SingleSourceStage(ladder, top, kind) ==
  LET free   == DOMAIN Matrix(kind) \ ladder
      exact  == {s \in free : DOAM_LEVEL[s] = LevelAbove(DOAM_LEVEL[top])}
      higher == {s \in free : DOAM_LEVEL[s] > DOAM_LEVEL[top]}
  IN  IF exact # {} THEN Lowest(exact)
      ELSE IF higher # {} THEN Lowest(higher) ELSE NoStage

\* Mutant: a director's rung counts as unbudgeted authority.
UnbudgetedStageFromL2(ladder, kind) ==
  LET authority == {s \in DOMAIN Matrix(kind) : DOAM_LEVEL[s] = L1}
  IN  IF (\E s \in ladder : DOAM_LEVEL[s] >= L2) \/ authority = {}
      THEN NoStage ELSE Lowest(authority)

\* DOAM Table 4: unbudgeted spend is an L1 commitment whatever its size.
UnbudgetedStage(ladder, kind) ==
  LET authority == {s \in DOMAIN Matrix(kind) : DOAM_LEVEL[s] = L1}
  IN  IF (\E s \in ladder : DOAM_LEVEL[s] >= L1) \/ authority = {}
      THEN NoStage ELSE Lowest(authority)

\* DOAM 4.4: the grade of the worst line, from how far its price sits above the
\* target and how its quantity sits against the plan and the stock ceiling.
PriceGrades == {"on_target", "price_5", "price_15", "price_over_15"}
QtyGrades   == {"on_plan", "over_plan", "over_ceiling"}

DeviationStages(price, qty) ==
  (CASE price = "price_15"      -> {"cfo"}
     [] price = "price_over_15" -> {"cfo", "ceo"}
     [] OTHER                   -> {})
  \cup
  (CASE qty = "over_ceiling" -> {"factory_manager", "scd"}
     [] qty = "over_plan"    -> {"factory_manager"}
     [] OTHER                -> {})

DeviationMemo(price, qty) == price # "on_target" \/ qty # "on_plan"
DeviationQuotes(price)    == price # "on_target"

\* DOAM 4.3 sourcing bands: one quotation up to 50,000, three above.
QuotesRequired(total) == IF total > 50000 THEN 3 ELSE 1

BUSINESS_CASE_OVER == 10000000
=============================================================================
