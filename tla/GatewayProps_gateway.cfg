\* Do answers come, and to those who asked, when links break and processes restart?
CONSTANTS
  Workers = {w1}
  Backends = {matchengine, readhistory}
  ReadHistory = readhistory
  ClientSlots = {s1}
  Slots = {s1}
  WorkerNum = 1
  MaxPendingJob = 1
  MaxConns = 2
  MaxRequests = 2
  MaxFaults = 1
  Faults = {"cut", "refused", "silent", "worker", "backend"}
SPECIFICATION FairSpec
INVARIANTS GatewayTypeOK AnswersAsker Woken
PROPERTIES Answered Reconnects
CHECK_DEADLOCK FALSE
