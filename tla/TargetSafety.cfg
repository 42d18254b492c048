SPECIFICATION Spec
CONSTANTS
  Target = {t1, t2}
  DataServer = {d1, d2}
  TargetSpec = {s1, s2}
  Unaddressed = {s2}
  ConnProfile = {c1, c2}
  SyncProfile = {y1, y2}
  NoTarget = NoTarget
  NoSpec = NoSpec
  NoCtx = NoCtx
  NoReq = NoReq
  MaxEdits = 4
  MaxFaults = 1
SYMMETRY Symmetry
INVARIANTS TypeOK BoundHoldsFinalizer StoresAgree OneTargetPerServer NoLeak InductiveInv
PROPERTY ImplementsLifecycle
CHECK_DEADLOCK FALSE
