\* Does everything that happened reach the database and Kafka?
CONSTANTS
  Kinds = {"balance", "order"}
  Topics = {"orders"}
  Users = {1}
  HISTORY_HASH_NUM = 1
  QUERY_LIMIT = 2
  history_thread = 2
  MAX_PENDING_HISTORY = 1
  MAX_PENDING_MESSAGE = 1
  QueueMax = 1
  LoadedOrders <- MCLoaded
  MaxCommands = 2
  MaxFaults = 1
  MaxRestarts = 1
SPECIFICATION FairSpec
INVARIANTS HistoryKept MessagesInOrder Backpressure
PROPERTIES HistoryStored
CHECK_DEADLOCK FALSE
