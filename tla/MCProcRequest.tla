--------------------------- MODULE MCProcRequest ---------------------------
(***************************************************************************)
(* Instances of ProcRequest: the seeded roles, stage roles, levels and     *)
(* escalation chain, and one account per role.                             *)
(***************************************************************************)
EXTENDS ProcRequest

SeededRoles == {"employee", "storekeeper", "warehouse_manager", "purchasing_manager",
                "factory_manager", "supply_chain_director", "cfo", "ceo", "board", "proc_admin"}

SeededStageRoles ==
  [s \in Stages |-> CASE s = "warehouse"         -> {"storekeeper", "warehouse_manager"}
                      [] s = "warehouse_manager" -> {"warehouse_manager"}
                      [] s = "purchasing"        -> {"purchasing_manager"}
                      [] s = "factory_manager"   -> {"factory_manager"}
                      [] s = "scd"               -> {"supply_chain_director"}
                      [] s = "cfo"               -> {"cfo"}
                      [] s = "ceo"               -> {"ceo"}
                      [] s = "bod"               -> {"board"}]

SeededSuperior ==
  [r \in SeededRoles |-> CASE r = "storekeeper"           -> "warehouse_manager"
                           [] r = "warehouse_manager"     -> "factory_manager"
                           [] r = "factory_manager"       -> "ceo"
                           [] r = "supply_chain_director" -> "ceo"
                           [] r = "purchasing_manager"    -> "cfo"
                           [] r = "cfo"                   -> "ceo"
                           [] OTHER                       -> ""]

SeededLevels ==
  [r \in SeededRoles |-> CASE r \in {"storekeeper", "warehouse_manager", "purchasing_manager"} -> L4
                           [] r \in {"factory_manager", "supply_chain_director"} -> L2
                           [] r \in {"cfo", "ceo"} -> L1
                           [] r = "board" -> BOD
                           [] OTHER -> 0]

AllApprovers == SeededRoles \ {"employee"}

\* One account per role; "req" raises the request.
Accounts == {"req", "sk", "wm", "pm", "pd", "sc", "cf", "ce", "bo"}
AccountRole ==
  [u \in Accounts |-> CASE u = "req" -> "employee"  [] u = "sk" -> "storekeeper"
                        [] u = "wm"  -> "warehouse_manager" [] u = "pm" -> "purchasing_manager"
                        [] u = "pd"  -> "factory_manager"   [] u = "sc" -> "supply_chain_director"
                        [] u = "cf"  -> "cfo" [] u = "ce" -> "ceo" [] u = "bo" -> "board"]
OneEach == {[role |-> AccountRole, staff |-> Accounts, deleg |-> {}]}

MoneyTotals == {0, 20000, 600000}
Budgets == {NoBudget, 100000}

\* The supply chain director raises the request.  While it circulates the factory
\* manager leaves and comes back, and the director lends the role to the purchasing
\* manager and takes it back.
StoreAccounts == Accounts \ {"req"}
StoreRole == [u \in StoreAccounts |-> AccountRole[u]]
StoreOrgs ==
  {[role |-> StoreRole, staff |-> StoreAccounts, deleg |-> {}],
   [role |-> StoreRole, staff |-> StoreAccounts \ {"pd"}, deleg |-> {<<"sc", "pm">>}]}
=============================================================================
