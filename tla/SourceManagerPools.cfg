CONSTANTS
  ju = ju
  jw = jw
  jx = jx
  u1 = u1
  u2 = u2
  None = None
  Jobs = {jw, jx}
  Units = {}
  UnitJobs = {}
  Targeted = {jx}
  UnitJob <- NoUnitMap
  UnitID <- Distinct
  Limits = {0, 2}
  SourceLimit = 1
  TargetLimit = 1
  ConcurrentUnits = 1
  OutCap = 1
  MetricsCap = 1
  MaxChunks = 1
  MaxInjected = 1
  HookInstalled = TRUE
  MayCancel = {jw}
  ParentMayCancel = TRUE
SPECIFICATION Spec
INVARIANTS RunningHoldsSlot NoWriterAfterClose
PROPERTY LifecycleSpec
