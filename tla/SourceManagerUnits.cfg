CONSTANTS
  ju = ju
  jw = jw
  jx = jx
  u1 = u1
  u2 = u2
  None = None
  Jobs = {ju}
  Units = {u1, u2}
  UnitJobs = {ju}
  Targeted = {}
  UnitJob <- TwoUnits
  UnitID <- Distinct
  Limits = {}
  SourceLimit = 1
  TargetLimit = 1
  ConcurrentUnits = 0
  OutCap = 1
  MetricsCap = 1
  MaxChunks = 1
  MaxInjected = 0
  HookInstalled = TRUE
  MayCancel = {ju}
  ParentMayCancel = FALSE
SPECIFICATION Spec
INVARIANTS NoSilentLoss CountsAhead DoneMeansQuiet UnitMetricsExact
