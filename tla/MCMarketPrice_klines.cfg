\* Are k-lines a function of the deals, in memory, in Redis and in answers?  Is
\* every client answered, with what it asked for, recent enough?
CONSTANTS
  Minute = 2
  Hour = 8
  Day = 16
  SecMax = 17
  MinMax = 9
  HourMax = 1
  DaysBefore = 2
  Months = {0, 1, 3, 6}
  Prices = {1, 2}
  Amounts = {1}
  Clock = {5, 20}
  MaxDeals = 2
  FetchLimit = 2
  DealsMax = 1
  MaxFaults = 1
  Faults = {"crash", "redis", "reload", "update"}
  u1 = u1
  u2 = u2
  s1 = s1
  Users = {u1, u2}
  Slots = {s1}
  Null = Null
  BadParams = BadParams
  CacheTimeout = 1
  ServiceTimeout = 1
  BackendTimeout = 1
  MaxConns = 2
  MaxRequests = 2
  MaxLost = 1
SPECIFICATION MCSpec
INVARIANTS InOrder MemoryExact StoredExact AtLeastOnce 
PROPERTIES EventuallyServed
