SPECIFICATION Spec
CONSTANTS
    Sessions = {s1, s2}
    Rolls <- MCRolls
    Lot <- MCLot
    Length <- MCLength
    Trims = {thread}
    Header = Header
    Claims <- MCClaims
    Orders = {1}
    Qtys = {1, 3}
    Bits = {1}
    MaxStock <- MCMaxStock
    Together <- Guarded
INVARIANTS RowsTrue Backed
PROPERTIES KeepsThePromise Finishes
CHECK_DEADLOCK FALSE
