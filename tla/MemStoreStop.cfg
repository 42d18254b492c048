SPECIFICATION FairSpec
CONSTANTS
  Client = {w1}
  Stopper = {w1}
  Notifier = {n1}
  Key = {k1}
  Value = {v1, v2}
  Absent = Absent
  NoClient = NoClient
  MaxID = 0
  Capacity = 1
  Closing = TRUE
  MaxOps = 3
PROPERTY StopReleases
CHECK_DEADLOCK FALSE
