\* Three requests against one queue slot, one lease and two workers.
SPECIFICATION FairSpec
CONSTANTS
  Downloads = {d1, d2, d3}
  Free = Free
  NoRequest = NoRequest
  MaxOpens = 1
  MaxThreads = 2
  MaxQueuedRequests = 1
  MaxConcurrentDownloads = 1
  MaxLeaks = 1
INVARIANTS PreparedFilesBounded
PROPERTIES RequestsAnswered ServerStops
CHECK_DEADLOCK FALSE
