\* Two request threads against a queue of one: every call of the coordinator can
\* meet a full queue.
SPECIFICATION FairSpec
CONSTANTS
    Requests = {r1, r2}
    None = None
    MaxJobs = 2
    MaxQueueDepth = 1
    MaxRequests = 4
    MaxBoots = 1
INVARIANTS  ReportedResultMatches
PROPERTIES ImplementsLedger CancelTakesEffect ShutdownEnds RequestsAnswered
CHECK_DEADLOCK FALSE
