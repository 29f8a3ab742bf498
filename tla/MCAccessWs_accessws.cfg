\* Are the right clients told about everything, whatever becomes of sessions and logins?
CONSTANTS
  Users = {u1, u2}
  Slots = {s1, s2}
  Topics <- MCTopics
  Legs <- MCLegs
  Params <- MCParams
  None = None
  All = All
  Bad = Bad
  MaxConns = 2
  MaxRequests = 4
  MaxUpdates = 2
  MaxFaults = 1
  Faults = {"send", "lost"}
  u1 = u1
  u2 = u2
  s1 = s1
  s2 = s2
  m1 = m1
  a1 = a1
  a2 = a2
  p1 = p1
SPECIFICATION Spec
INVARIANTS SubscriptionsExact NothingMissed
SYMMETRY MCSymmetry
CHECK_DEADLOCK FALSE
