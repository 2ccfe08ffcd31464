SPECIFICATION DesksSpec
CONSTANTS
    Sessions = {s1, s2}
    Approval = Approval
    Ladders <- TwoLevels
    ItemRequests = {q1, q2}
    Codes = {c1, c2}
    Line = Line
    MaxCases = 2
    MaxReopens = 1
    Sheets = {x1, x2}
    Report = Report
    Engineers = {e1, e2, e3}
    Versions = {v1, v2}
    Baths = {k1, k2}
    Dips = {d1, d2}
    MaxDips = 1
    Verdicts = {"approved", "resubmit"}
    Together <- Harmless
    Part = Part
    Ticket = Ticket
    Machine = Machine
    Asked = Asked
    Given = Given
    Rungs = {g1, g2}
    Need = 1
    InStock = 2
    MaxStock = 2
    SparesTogether <- SparesHarmless
INVARIANTS DesksBacked ReviewsTrue SparesTrue
PROPERTIES  Answers
CHECK_DEADLOCK FALSE
