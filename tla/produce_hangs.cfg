SPECIFICATION FairSpec
CONSTANTS
  c1 = c1 c2 = c2 reaper = reaper orders = orders dlq = dlq g1 = g1 nil = nil
  Clients <- MCClients
  Reaper = reaper
  Topics <- MCTopics
  Consumed <- MCConsumed
  Groups = {g1}
  Dlq <- MCDlq
  Requests <- ProduceAndPoll
  None = nil
  MaxRedeliveries = 1
  SyncEveryWrite = TRUE
  IOMayFail = FALSE
  PersistMayFail = FALSE
  CanClose = FALSE
  MaxProduced = 1
  MaxNacked = 2
  MaxCrashes = 0
CHECK_DEADLOCK FALSE
PROPERTIES
  ProduceReturns
