CONSTANTS
    u1 = u1  u2 = u2  b1 = b1  b2 = b2  d1 = d1  d2 = d2
    Ids = {b1, b2}
    Units = {u1, u2}
    NoUnit = NoUnit
    Desks = {d1, d2}
    Nobody = Nobody
    Mortal = {b1}
    Asks <- Asked
    MaxLines = 2
    MaxSlot = 2
    MaxTurn = 0
    OnHand = 3
SPECIFICATION Spec
SYMMETRY SymmetryUnits
INVARIANTS NoClash StockHolds ConfirmedIsAllocated
