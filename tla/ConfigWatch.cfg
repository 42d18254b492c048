SPECIFICATION Spec
CONSTANTS
  t1 = t1
  t2 = t2
  b1 = b1
  Client = {w1}
  Stopper = {w1}
  Notifier = {n1, n2}
  Key = {k1}
  Value = {a1, a2}
  Absent = Absent
  NoClient = NoClient
  MaxID = 0
  Capacity = 1
  Closing = FALSE
  Target = {t1}
  DataServer = {d1, d2}
  NoCtx = NoCtx
  TargetOf <- Labels
  NoServer = NoServer
  MaxOps = 2
  MaxFaults = 1
SYMMETRY Symmetry
INVARIANTS ViewsConverge InSync
CHECK_DEADLOCK FALSE
