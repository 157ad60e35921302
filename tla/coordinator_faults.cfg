SPECIFICATION Spec
CONSTANTS
  c1 = c1 c2 = c2 reaper = reaper orders = orders dlq = dlq g1 = g1 nil = nil
  Clients <- MCClients
  Reaper = reaper
  Topics <- MCTopics
  Consumed <- MCConsumed
  Groups = {g1}
  Dlq <- MCDlq
  Requests <- LongPolls
  None = nil
  MaxRedeliveries = 1
  SyncEveryWrite = FALSE
  IOMayFail = TRUE
  PersistMayFail = TRUE
  CanClose = TRUE
  MaxProduced = 1
  MaxNacked = 2
  MaxCrashes = 1
CHECK_DEADLOCK FALSE
INVARIANTS
  LeaseWindow
  QueueSound
PROPERTIES
  NoEarlyRedelivery
