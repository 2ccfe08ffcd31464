SPECIFICATION Spec
CONSTANTS
    Sessions = {s1, s2}
    Bundles = {b1}
    Shipments = {h1}
    Cartons = {k1, k2}
    Store = Store
    Sections = {"cutting", "sewing", "dispatch"}
    Last = "dispatch"
    Cut = 2
    CartonSizes = {1, 2}
    MaxPacked = 2
    Prices = {p1, p2}
    MaxRows = 1
    MaxScans = 3
    Together <- Harmless
INVARIANTS BundlesTrue StoreTrue
PROPERTIES  Settles
CHECK_DEADLOCK FALSE
