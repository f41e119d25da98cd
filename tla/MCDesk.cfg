SPECIFICATION Spec
CONSTANTS
    u1 = u1
    u2 = u2
    m1 = m1
    r1 = r1
    Bookings = {m1, r1}
    Mine = {m1}
    Units = {u1, u2}
    Stock = Stock
    OnHand = 1
    Prep = 0
    Turn = 1
    Ttl = 1
    Asks <- SmallAsks
    Windows <- OneWindow
    Statuses = {"pencil"}
    Ends = {3}
    MaxNow = 1
    MaxActs = 3
    MaxMoves = 2
INVARIANTS DeskMirrors RefusalEndsTheStory PhonePromisesOnce
CHECK_DEADLOCK FALSE
