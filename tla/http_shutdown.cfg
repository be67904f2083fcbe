SPECIFICATION FairSpec
CONSTANTS
  Downloads = {d1}
  Free = Free
  NoRequest = NoRequest
  MaxOpens = 1
  MaxThreads = 1
  MaxQueuedRequests = 1
  MaxConcurrentDownloads = 1
  MaxLeaks = 0
INVARIANT ShutdownCancelsConversions
CHECK_DEADLOCK FALSE
