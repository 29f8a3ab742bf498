\* Do clients have what the backend has, of every kind of topic?
CONSTANTS
  Slots = {s1, s2}
  Kinds = {"value", "state", "kline", "depth", "deals"}
  Prices = {1, 2, 3}
  Amounts = {1, 2}
  Limit = 2
  Null = Null
  MaxChanges = 3
  MaxPolls = 2
  MaxFaults = 1
  Faults = {"lost", "error", "pending"}
SPECIFICATION FairSpec
INVARIANTS SessionsExact CopiesRight
PROPERTIES CatchesUp
CHECK_DEADLOCK FALSE
