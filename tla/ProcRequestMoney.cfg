SPECIFICATION Spec
CONSTANTS
  Users <- Accounts
  Roles <- SeededRoles
  StageRoles <- SeededStageRoles
  Superior <- SeededSuperior
  RoleLevel <- SeededLevels
  AdminRoles = {"proc_admin"}
  ApproveRoles <- AllApprovers
  NoRole = ""
  Requester = "req"
  NoUser = "nobody"
  PurchasingRoles = {"purchasing_manager"}
  Totals <- MoneyTotals
  Related = {0}
  Headrooms <- Budgets
  PriceSet = {"on_target"}
  QtySet = {"on_plan"}
  OrgSet <- OneEach
  KindSet = {"opex"}
  DomainSet = {"unclear"}
  MaxQuotes = 1
  SodAdminExempt = FALSE
  Acts = {"waive", "quote", "choose", "back"}
INVARIANTS LadderSplit ApprovedCovered UnbudgetedSigned
PROPERTIES WithdrawnFromTheTop
