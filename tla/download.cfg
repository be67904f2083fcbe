SPECIFICATION FairSpec
CONSTANTS
  Sources = {x1, x2}
  Stats = {t1, t2}
  Manifests = {m1, m2}
  Formats = {"fb2", "epub"}
  SourceFormat = "fb2"
  Absent = Absent
  Previous = Previous
  MaxInodes = 2
  MaxEdits = 3
INVARIANTS DeliveredMatchesCatalog DestinationRecoverable
PROPERTY StaleNeverDelivered
CHECK_DEADLOCK FALSE
