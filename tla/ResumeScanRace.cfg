CONSTANTS
  Listings <- OneListing
  Concurrency = 2
  MaxProcesses = 2
SPECIFICATION Spec
INVARIANT NothingEverSkipped
