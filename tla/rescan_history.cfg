SPECIFICATION Spec
CONSTANTS
  s1 = s1
  s2 = s2
  s3 = s3
  b1 = b1
  b2 = b2
  a1 = a1
  a2 = a2
  t1 = t1
  t2 = t2
  Segments = {s1, s2, s3}
  LibIds = {b1}
  Archives = {a1}
  ArchiveOf <- SharedArchive
  RecordTexts = {t1}
  Manifests = {m1}
  NoRecord = NoRecord
  NoSegment = NoSegment
  NoArchive = NoArchive
  NoManifest = NoManifest
  Sources <- AllFiles
  MaxScans = 3
  MaxSourceEdits = 2
  MaxArchiveEdits = 0
  MaxRaces = 0
INVARIANT CatalogIsFullScan
INVARIANT StatisticsExact
CHECK_DEADLOCK FALSE
