SPECIFICATION Spec
CONSTANTS
  Lines = {"b"}
  Vendors = {"alpha"}
  SupplierOf <- OneVendor
  HeadVendor = "alpha"
  NoPo = "none"
  OnList = {"alpha"}
  Ordered <- Twenty
  Price <- BigPrices
  AddSet = {0, 20, 21}
  RejSet = {0, 5}
  Decisions = {"return", "accept", "accept_tolerance"}
  InvoiceNos = {"i1"}
  BillSet = {300000}
  PaySet = {150000}
  AdvanceSet = {20, 50}
  Overrides = {TRUE, FALSE}
  MaxHeld = 2
  MaxNotes = 2
  MaxBills = 1
  MaxPaid = 450000
INVARIANTS GoodsAccounted CancelledEmpty
PROPERTY AdvanceBounded
