SPECIFICATION Spec
CONSTANTS
  Target = {t1}
  DataServer = {d1}
  TargetSpec = {s1}
  Unaddressed = {}
  ConnProfile = {c1}
  SyncProfile = {y1}
  NoTarget = NoTarget
  NoSpec = NoSpec
  NoCtx = NoCtx
  NoReq = NoReq
  MaxEdits = 2
  MaxFaults = 1
INVARIANT DatastoreDeletedBeforeFinalizer
CHECK_DEADLOCK FALSE
