SPECIFICATION FloorSpec
CONSTANTS
  e1 = e1
  e2 = e2
  Eyes = {e1, e2}
  j1 = j1
  j2 = j2
  Jobs = {j1, j2}
  NoJob = NoJob
  amp = amp
  cable = cable
  Items = {amp, cable}
  NoItem = NoItem
  Listed = {amp}
  Case = amp
  Kit = {cable}
  code = code
  spare = spare
  Labels = {code, spare}
  Stuck <- MCStuck
  Away = {cable}
  Days <- MCDays
SYMMETRY Symmetry
INVARIANTS RecordedOnce ReturnMissesNothing  EyeShut
CHECK_DEADLOCK FALSE
