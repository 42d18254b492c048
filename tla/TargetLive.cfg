SPECIFICATION FairSpec
CONSTANTS
  Target = {t1, t2}
  DataServer = {d1}
  TargetSpec = {s1, s2}
  Unaddressed = {s2}
  ConnProfile = {c1, c2}
  SyncProfile = {y1}
  NoTarget = NoTarget
  NoSpec = NoSpec
  NoCtx = NoCtx
  NoReq = NoReq
  MaxEdits = 3
  MaxFaults = 1
PROPERTIES DeletionCompletes Converges
CHECK_DEADLOCK FALSE
