SPECIFICATION FairSpec
CONSTANTS
  s1 = s1
  s2 = s2
  s3 = s3
  b1 = b1
  b2 = b2
  a1 = a1
  a2 = a2
  t1 = t1
  t2 = t2
  Segments = {s1, s2, s3}
  LibIds = {b1, b2}
  Archives = {a1, a2}
  ArchiveOf <- TwoArchives
  RecordTexts = {t1, t2}
  Manifests = {m1, m2}
  NoRecord = NoRecord
  NoSegment = NoSegment
  NoArchive = NoArchive
  NoManifest = NoManifest
  Sources <- FewFiles
  MaxScans = 2
  MaxSourceEdits = 1
  MaxArchiveEdits = 2
  MaxRaces = 1
INVARIANT PublishedPayloadsAdmitted
PROPERTY ImplementsPublication
PROPERTY ScanEnds
CHECK_DEADLOCK FALSE
