SPECIFICATION Spec
CONSTANTS
    Sessions = {s1, s2}
    Request = Request
    Line = Line
    Steps = {1, 2, 3, 4, 5, 6}
    Ordered = 2
    Prices = {1, 2}
    Deliveries = {1, 2}
    Amount = 2
    Together <- Harmless
INVARIANTS LadderSound BooksTrue
PROPERTIES StatusSteps Finishes
CHECK_DEADLOCK FALSE
