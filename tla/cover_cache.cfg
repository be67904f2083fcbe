\* Two books share covers over three scans; the budget holds the large cover
\* or the two small ones.  Offsets of files fit in 0..4.
SPECIFICATION ReadersSpec
CONSTANTS
  b1 = b1
  b2 = b2
  c1 = c1
  c2 = c2
  c3 = c3
  Books = {b1, b2}
  Covers = {c1, c2, c3}
  SizeOf <- CoverSizes
  NoCover = NoCover
  NoRow = NoRow
  MaxCoverBytes = 2
  MaxScans = 3
  MaxFailures = 1
  Readers = {r1}
  MaxOffset = 4
  MaxRangeCount = 4
SYMMETRY BookSymmetry
INVARIANTS ReferencedCoversExist CoverStatisticsExact SteadyCoverDelivered RangesExact
PROPERTIES RollbackRestoresFiles CollectionComplete
CHECK_DEADLOCK FALSE
