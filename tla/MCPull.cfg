CONSTANTS
    a = a  b = b  p = p  t1 = t1  t2 = t2  floor = floor  desk = desk
    Rows <- MCRows
    Tables <- MCTables
    Writers = {t1, t2}
    Nobody = Nobody
    PriceList = {p}
    Roles = {floor, desk}
    Office = {desk}
    PageLimit = 1
    MaxSeq = 3
    MaxXid = 2
SPECIFICATION PullFairSpec
INVARIANTS CursorSound
PROPERTIES EveryRowArrives
CHECK_DEADLOCK FALSE
