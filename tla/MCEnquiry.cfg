SPECIFICATION Spec
CONSTANTS
    b1 = b1
    b2 = b2
    DayLength = 2
    Zone = 1
    Noise <- NoiseWords
    Chatter <- ChatterWords
    MaxQuantity = 3
    NoCode = NoCode
    StartCatalogue <- TwoCameras
    StartUnits <- ThreeUnits
    Starts <- FiveStarts
    Messages <- Lists
    Files <- TwoFiles
    Windows <- TwoWindows
    NoWindow = NoWindow
    Rates = {20}
    Percents = {150}
    Holidays = {1}
    Knobs <- OneCard
    Bookings = {b1, b2}
INVARIANTS QuotesStand AnswersAreBacked ImportsStayApart
PROPERTIES NeverSilentlyGuesses
CHECK_DEADLOCK FALSE
