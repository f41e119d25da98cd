SPECIFICATION FairSpec
CONSTANTS
  MaxOps = 3
  Limit = 3
  a1 = a1
  Assets = {a1}
  out = out
  in = in
  Events = {out}
  Kinds = {"scan", "void", "rpc"}
  s1 = s1
  s2 = s2
  Slots = {s1, s2}
  Poison = {2}
  Gated = {}
  Sessions = {"full"}
  Naming = FALSE
INVARIANTS ParkedNeverLanded 
PROPERTIES KeepsThePromise QueueDrains FailureTakesTheSubtree
CHECK_DEADLOCK FALSE
