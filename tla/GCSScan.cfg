CONSTANTS
  b1 = b1
  b2 = b2
  o1 = o1
  o2 = o2
  o3 = o3
  o4 = o4
  Buckets = {b1, b2}
  Objects = {o1, o2, o3, o4}
  BucketOf <- Bucket
  KeyOf <- Key
  Archives = {o1}
  PersistIncrement = 2
  Concurrency = 1
  ChCap = 1
  ObjCap = 1
  MaxStops = 1
SPECIFICATION FairSpec
INVARIANTS LossBounded FinishedWasScanned NothingPassedOver
PROPERTIES ChunksReturns
CHECK_DEADLOCK FALSE
