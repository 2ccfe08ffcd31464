SPECIFICATION Spec
CONSTANTS
    p1 = p1
    Tickets = {t1}
    Machines = {m1}
    Requests = {r1, r2}
    Spares = {p1}
    InStock <- FewParts
    MaxStock = 3
    Quantities = {1, 2}
    Critical = 2
INVARIANTS ReservedTrue TicketsTrue
PROPERTIES KeepsThePromise
CHECK_DEADLOCK FALSE
