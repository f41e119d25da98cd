SPECIFICATION Spec
CONSTANTS
  MaxOps = 3
  Limit = 2
  a1 = a1
  Assets = {a1}
  out = out
  in = in
  Events = {out, in}
  Kinds = {"scan", "void", "rpc"}
  s1 = s1
  s2 = s2
  Slots = {s1, s2}
  Poison = {2}
  Gated = {1}
  Sessions = {"full", "floor", "dead"}
  Naming = FALSE
SYMMETRY Symmetry
INVARIANTS ParentFirst AtMostOnce
CHECK_DEADLOCK FALSE
