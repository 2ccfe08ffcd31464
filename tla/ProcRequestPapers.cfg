SPECIFICATION Spec
CONSTANTS
  Users <- Accounts
  Roles <- SeededRoles
  StageRoles <- SeededStageRoles
  Superior <- SeededSuperior
  RoleLevel <- SeededLevels
  AdminRoles = {"proc_admin"}
  ApproveRoles <- AllApprovers
  NoRole = ""
  Requester = "req"
  NoUser = "nobody"
  PurchasingRoles = {"purchasing_manager"}
  Totals = {0, 600000}
  Related = {0}
  Headrooms = {1000000}
  PriceSet = {"on_target", "price_15"}
  QtySet = {"on_plan", "over_ceiling"}
  OrgSet <- OneEach
  KindSet = {"opex"}
  DomainSet = {"plant"}
  MaxQuotes = 3
  SodAdminExempt = FALSE
  Acts = {"quote","papers","back"}
INVARIANTS TypeOK QuotesOnFile
PROPERTIES DeviationAnswered
