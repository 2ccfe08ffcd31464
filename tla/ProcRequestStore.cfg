SPECIFICATION Spec
CONSTANTS
  Users <- StoreAccounts
  Roles <- SeededRoles
  StageRoles <- SeededStageRoles
  Superior <- SeededSuperior
  RoleLevel <- SeededLevels
  AdminRoles = {"proc_admin"}
  ApproveRoles <- AllApprovers
  NoRole = ""
  Requester = "sc"
  NoUser = "nobody"
  PurchasingRoles = {"purchasing_manager"}
  Totals = {0, 20000, 300000}
  Related = {0}
  Headrooms = {1000000}
  PriceSet = {"on_target"}
  QtySet = {"on_plan"}
  OrgSet <- StoreOrgs
  KindSet = {"opex", "capex"}
  DomainSet = {"unclear"}
  MaxQuotes = 0
  SodAdminExempt = FALSE
  Acts = {"edit","fx","revise","waive","stock","back","reject","hold","cancel"}
INVARIANTS FourEyes 
