CONSTANTS
  Listings <- OneListing
  Concurrency = 3
  MaxProcesses = 3
SPECIFICATION Spec
INVARIANTS ResumedAsDocumented BegunIsResumed NothingSkipped CompletedMeansScanned
