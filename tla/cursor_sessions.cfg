\* Two sessions and six ids for a browser that pages through lists of one to five books and
\* changes its mind.
SPECIFICATION WebSpec
CONSTANTS
  q1 = q1
  q2 = q2
  Browsers = {w1}
  Nobody = Nobody
  MaxChanges = 2
  Readers = {r1, r2}
  Queries = {q1, q2}
  ResultSize <- Sizes
  Limit = 1
  AggregateIdCapacity = 6
  GMaxSearchSessions = 2
  GSearchSessionTtl = 2
  NoCursor = NoCursor
  MaxRequests = 4
  MaxClock = 2
SYMMETRY RequestSymmetry
INVARIANTS CursorMemoryBounded PagesOfOneCatalog ListFollowsSource
PROPERTY CurrentCursorsKept
CHECK_DEADLOCK FALSE
