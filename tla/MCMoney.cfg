CONSTANTS
    desk = desk  office = office  j1 = j1
    Desks <- MCDesks
    Phone = desk
    Other = office
    NewCharge = {"damage_charge"}
    Amounts = {1}
    Taken = {2}
    Jobs = {j1}
    MaxOps = 4
    MaxOther = 1
    Refusing = TRUE
    Spends = {3}
    FromBooking = {j1}
SPECIFICATION HisaabSpec
INVARIANTS NeverOverspent FiguresAgree OffersCanBeTaken HouseBooksAgree
PROPERTIES ImplementsMoneyServer
CHECK_DEADLOCK FALSE
