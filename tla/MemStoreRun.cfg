SPECIFICATION FairSpec
CONSTANTS
  Client = {w1, w2}
  Stopper = {w1}
  Notifier = {n1, n2}
  Key = {k1, k2}
  Value = {v1, v2}
  Absent = Absent
  NoClient = NoClient
  MaxID = 0
  Capacity = 1
  Closing = TRUE
  MaxOps = 2
INVARIANTS MemStoreTypeOK IDsPartitioned NeverSendsOnClosed ViewsConverge
PROPERTIES OperationReturns WatchReturns StopReturns
CHECK_DEADLOCK FALSE
