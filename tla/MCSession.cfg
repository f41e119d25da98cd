SPECIFICATION Spec
CONSTANTS
    People = {p, q}
    HasPin = {p}
    NoOne = NoOne
    MaxScans = 1
    MaxEnrols = 2
    MaxRows = 1
    MaxRestarts = 1
INVARIANTS CountedIsKept HolderVouched CursorHonest LeftIsRevoked
CHECK_DEADLOCK FALSE
