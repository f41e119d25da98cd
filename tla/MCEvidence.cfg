SPECIFICATION Spec
CONSTANTS
    s1 = s1
    p1 = p1
    p2 = p2
    Scans = {s1}
    Photos = {p1, p2}
    Notes = {n1}
    Weight <- MCWeight
    Budget = 2
    Baseline <- MCBaseline
    Ladder <- MCLadder
    Inherited <- MCInherited
    Drains = {"d1", "d2"}
    DrainLimit = 1
    Native = TRUE
    MaxFaults = 2
INVARIANTS  PairsWhole
 
CHECK_DEADLOCK FALSE
