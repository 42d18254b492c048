SPECIFICATION Spec
CONSTANTS
  Client = {w1, w2}
  Stopper = {w1}
  Notifier = {n1, n2}
  Key = {k1, kn}
  Nested = {kn}
  Value = {v1, v2}
  Absent = Absent
  NoClient = NoClient
  Empty = Empty
  Mixed = Mixed
  MaxID = 0
  Capacity = 1
  MaxOps = 3
  MaxFaults = 1
INVARIANTS FileStoreTypeOK FilesWhole ViewsConverge
SYMMETRY Symmetry
CHECK_DEADLOCK FALSE
