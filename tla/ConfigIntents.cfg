SPECIFICATION Spec
CONSTANTS
  t1 = t1
  t2 = t2
  b1 = b1
  Client = {}
  Stopper = {}
  Notifier = {n1, n2}
  Key = {k1}
  Value = {a1, b1}
  Absent = Absent
  NoClient = NoClient
  MaxID = 0
  Capacity = 1
  Closing = FALSE
  Target = {t1, t2}
  DataServer = {d1}
  NoCtx = NoCtx
  TargetOf <- Labels
  NoServer = NoServer
  MaxOps = 3
  MaxFaults = 1
SYMMETRY Symmetry
INVARIANTS ConfigTypeOK InSync
CHECK_DEADLOCK FALSE
