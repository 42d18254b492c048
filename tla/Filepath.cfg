SPECIFICATION Spec
CONSTANTS
  Client = {w1, w2}
  Stopper = {w1}
  Notifier = {n1, n2}
  Key = {1, 2}
  Value = {v1, v2}
  Absent = Absent
  NoClient = NoClient
  Empty = Empty
  Mixed = Mixed
  Capacity = 1
  MaxOps = 2
  MaxFaults = 1
INVARIANTS FilepathTypeOK FilesWhole DeafOnlyAfterStop ViewsConverge
SYMMETRY Symmetry
CHECK_DEADLOCK FALSE
