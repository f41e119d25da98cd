SPECIFICATION Spec
CONSTANTS
    Assets = {a, b}
    OutAtFirst = {a}
    Jobs = {j}
    NoJob = NoJob
    PhoneVerbs = {"found"}
    OtherVerbs = {"mark_lost"}
    MaxDays = 1
    MaxActs = 2
    MaxOthers = 1
INVARIANTS OwnScansStand CaughtUpAgrees LogStands
CHECK_DEADLOCK FALSE
