SPECIFICATION BridgeSpec
CONSTANTS
    p1 = p1
    p2 = p2
    l1 = l1
    Spares = {p1, p2}
    Orders = {o1, o2}
    Checkers = {c1}
    Lines = {l1}
    Codes <- OwnCode
    ReorderLevel = 1
    MaxLevel = 2
    Wanted = 2
    Moved = {p1}
    MaxStock = 2
    MaxFaults = 1
 
PROPERTIES  LowIsOrdered
CHECK_DEADLOCK FALSE
