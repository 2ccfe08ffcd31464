SPECIFICATION Spec
CONSTANTS
  Lines = {"a", "b"}
  Vendors = {"alpha", "gamma"}
  SupplierOf <- TwoVendors
  HeadVendor = "alpha"
  NoPo = "none"
  OnList = {"alpha", "gamma"}
  Ordered <- Twenty
  Price <- Prices
  AddSet = {0, 10, 20}
  RejSet = {0, 10}
  Decisions = {}
  InvoiceNos = {"i1", "i2"}
  BillSet = {800, 20000}
  PaySet = {400, 20400}
  AdvanceSet = {}
  Overrides = {FALSE}
  MaxHeld = 0
  MaxNotes = 1
  MaxBills = 2
  MaxPaid = 30000
INVARIANTS PaidForReceived SplitPaid MatchStays
