SPECIFICATION FairSpec
CONSTANTS
  a1 = a1
  a2 = a2
  NoArchive = NoArchive
  SizeOf <- Sizes
  ArchiveOf <- TwoArchives
  MaxInFlight = 3
  MaxInFlightBytes = 4
INVARIANTS PayloadMemoryBounded NoTaskOutlivesScan EveryRecordWrittenOnce
PROPERTY ScanLeaves
CHECK_DEADLOCK FALSE
