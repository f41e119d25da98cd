SPECIFICATION Spec
CONSTANTS
    h1 = h1
    l1 = l1
    l2 = l2
    u1 = u1
    w1 = w1
    p1 = p1
    p2 = p2
    Houses = {h1}
    Loans = {l1}
    Fleet = {u1}
    NoUnit = NoUnit
    Walkins = {w1}
    Crew = {p1}
    Dates = {1}
    Roles = {"manager", "desk"}
    MaxActs = 4
    MaxMoves = 1
INVARIANTS HouseMirrors SentHomeIsGone
CHECK_DEADLOCK FALSE
