-------------------------- MODULE InpxRescan_proofs --------------------------
(***************************************************************************)
(* Proofs about InpxRescan for every set of segments, books and archives,  *)
(* every collection the owner may publish and any number of scans.         *)
(***************************************************************************)
EXTENDS InpxRescan, FiniteSetTheorems, TLAPS

-----------------------------------------------------------------------------
(* The inductive invariant                                                 *)

\* The row is in a segment that the index still lists.
InCurrentSegment(d, l) ==
    /\ d.loc[l].seg # NoSegment
    /\ d.loc[l].present
    /\ d.seg[d.loc[l].seg].state = "Available"

\* Such a row is an active record of its segment, with that record's metadata.
RowsComeFromSegments(d) ==
    \A l \in LibIds : InCurrentSegment(d, l) =>
        /\ l \in Active(d.seg[d.loc[l].seg].inp)
        /\ d.loc[l].rec = d.seg[d.loc[l].seg].inp.rec[l]

\* ... and its payload comes from the archive content the segment names.
PayloadsComeFromArchives(d) ==
    \A l \in LibIds : InCurrentSegment(d, l) => d.loc[l].man = d.seg[d.loc[l].seg].man

\* Every active record of a listed segment has its row there.
SegmentsHaveTheirRows(d) ==
    \A s \in Segments : \A l \in LibIds :
        d.seg[s].state = "Available" /\ l \in Active(d.seg[s].inp) =>
            d.loc[l].seg = s /\ d.loc[l].present

MarkersComeFromSegments(d) ==
    \A s \in Segments : d.seg[s].state = "Available" => d.seg[s].del = d.seg[s].inp.del

AvailabilityReconciled(d) ==
    \A l \in LibIds : d.loc[l].avail <=> InCurrentSegment(d, l) /\ ~WithdrawnLater(d.seg, d.loc, l)

SegmentsComeFromSource(d, f) ==
    \A s \in Segments :
        /\ d.seg[s].state = "Available" <=> s \in f.segs
        /\ s \in f.segs => d.seg[s].inp = f.content[s] /\ d.seg[s].pos = f.pos[s]

\* The pair was true of the archive once: if the file state is still the same,
\* so is the content.
Witnessed(a, stat, man) ==
    /\ stat <= archive[a].stat
    /\ stat = archive[a].stat => man = archive[a].man

ArchivesWitnessed(d) ==
    \A s \in Segments : d.seg[s].state = "Available" /\ RequiresArchive(d.seg[s].inp) =>
        Witnessed(ArchiveOf[s], d.seg[s].stat, d.seg[s].man)

CatalogInv ==
    /\ RowsComeFromSegments(db)
    /\ PayloadsComeFromArchives(db)
    /\ SegmentsHaveTheirRows(db)
    /\ MarkersComeFromSegments(db)
    /\ AvailabilityReconciled(db)
    /\ SegmentsComeFromSource(db, db.src)
    /\ ArchivesWitnessed(db)

\* Between scans the locals of RunScan hold nothing.
RestInv ==
    pc \in {"idle", "snapshot"} =>
        /\ plans = [s \in Segments |-> NoPlan]
        /\ guards = [a \in Archives |-> NoGuard]
        /\ written = {}
        /\ validated = {}

GuardInv ==
    \A a \in Archives :
        /\ guards[a].phase # "NoGuard" => guards[a].stat <= archive[a].stat
        /\ guards[a].phase \in {"ManifestRead", "PayloadsValidated"} =>
               Witnessed(a, guards[a].stat, guards[a].man)

Reusable(s) ==
    /\ db.seg[s].state = "Available"
    /\ db.seg[s].inp = expected.content[s]

\* A plan for segment s of the snapshot, and where its archive data come from.
PlanOK(s) ==
    /\ plans[s].change \in {"Unchanged", "Added", "Changed"}
    /\ plans[s].change = "Unchanged" => Reusable(s)
    /\ RequiresArchive(expected.content[s]) =>
          LET g == guards[ArchiveOf[s]]
          IN  /\ g.phase # "NoGuard"
              /\ plans[s].stat = g.stat
              /\ plans[s].change = "Unchanged" => plans[s].man = db.seg[s].man
              /\ \/ /\ g.phase \in {"ManifestRead", "PayloadsValidated"}
                    /\ plans[s].man = g.man
                 \/ /\ plans[s].change = "Unchanged"
                    /\ plans[s].stat = db.seg[s].stat

PlanningInv ==
    pc \in {"plan", "manifest", "payloads"} =>
        /\ \A s \in Segments \ expected.segs : plans[s] = NoPlan
        /\ \A s \in expected.segs : plans[s] # NoPlan => PlanOK(s)
        /\ written = {}
        /\ validated = {}

ExaminingInv ==
    pc \in {"manifest", "payloads"} =>
        /\ current \in expected.segs
        /\ plans[current] = NoPlan
        /\ RequiresArchive(expected.content[current])
        /\ guards[ArchiveOf[current]].phase # "NoGuard"

PayloadsInv ==
    pc = "payloads" =>
        /\ Reusable(current)
        /\ db.seg[current].man = guards[ArchiveOf[current]].man
        /\ guards[ArchiveOf[current]].phase \in {"ManifestRead", "PayloadsValidated"}

\* The plans are complete and the segments of the transaction follow them.
TransactionInv ==
    pc \in {"index", "validate", "commit"} =>
        /\ \A s \in expected.segs : PlanOK(s)
        /\ \A s \in Segments \ expected.segs : plans[s].change \in {"NoPlan", "Removed"}
        /\ SegmentsComeFromSource(txn, expected)
        /\ MarkersComeFromSegments(txn)
        /\ \A s \in expected.segs :
              txn.seg[s].stat = plans[s].stat /\ txn.seg[s].man = plans[s].man

\* Rows not written yet are the committed ones; a written row is the record of
\* a parsed segment, and nothing overwrites it.
IndexInv ==
    pc = "index" =>
        /\ validated = {}
        /\ \A l \in LibIds \ written : txn.loc[l] = db.loc[l]
        /\ \A l \in written :
              /\ l \in processed
              /\ ~(/\ db.loc[l].present
                   /\ db.loc[l].seg # NoSegment
                   /\ plans[db.loc[l].seg].change = "Unchanged")
              /\ txn.loc[l].seg \in expected.segs
              /\ Parsed(txn.loc[l].seg)
              /\ l \in Active(expected.content[txn.loc[l].seg])
              /\ txn.loc[l].present
              /\ txn.loc[l].rec = expected.content[txn.loc[l].seg].rec[l]
        /\ ReadActiveIds(plans) \subseteq processed
        /\ \A s \in Segments : todo[s] # {} =>
              Parsed(s) /\ todo[s] \subseteq Active(expected.content[s])
        /\ \A s \in expected.segs : \A l \in Active(expected.content[s]) : Parsed(s) =>
              l \in todo[s] \/ (l \in written /\ txn.loc[l].seg = s)

\* A payload that is not the planned one was read after the archive was
\* replaced: the guard's file state is no longer the archive's.
PayloadsGuarded ==
    pc \in {"index", "validate", "commit"} =>
        \A l \in written :
            LET s == txn.loc[l].seg
                a == ArchiveOf[s]
            IN  \/ txn.loc[l].man = plans[s].man
                \/ a \notin validated /\ guards[a].stat < archive[a].stat

ClosingInv ==
    pc \in {"validate", "commit"} =>
        /\ txn.completed /\ txn.src = expected
        /\ RowsComeFromSegments(txn)
        /\ SegmentsHaveTheirRows(txn)
        /\ AvailabilityReconciled(txn)
        /\ \A l \in LibIds : InCurrentSegment(txn, l) /\ l \notin written =>
              txn.loc[l].man = txn.seg[txn.loc[l].seg].man
        /\ \A l \in written : txn.loc[l].seg \in expected.segs
        /\ pc = "commit" =>
              \A a \in Archives : guards[a].phase # "NoGuard" => a \in validated

ScanInv ==
    /\ ~Idle => expected \in Sources
    /\ RestInv /\ GuardInv /\ PlanningInv /\ ExaminingInv /\ PayloadsInv
    /\ TransactionInv /\ IndexInv /\ PayloadsGuarded /\ ClosingInv

IInv == TypeOK /\ CatalogInv /\ ScanInv

-----------------------------------------------------------------------------
(* Types                                                                   *)

\* The bootstrapped catalog, of which no INPX file was published, is well formed.
LEMMA EmptyTypes == EmptyCatalog \in CatalogType /\ NoSource \in SourceType
  <1>1. EmptyContent \in Contents
    BY DEF EmptyContent, Contents
  <1>2. NoSource \in SourceType
    BY <1>1 DEF NoSource, SourceType
  <1> QED
    BY <1>1, <1>2 DEF EmptyCatalog, CatalogType, SegmentRow, BookRow

\* The parts of an INPX file, and of the one StartInpxScan handed over.
LEMMA SourceFields ==
    ASSUME NEW f \in Sources \cup {NoSource}
    PROVE  /\ f \in SourceType
           /\ f.segs \subseteq Segments
           /\ f.pos \in [Segments -> Nat]
           /\ f.content \in [Segments -> Contents]
           /\ \A s \in Segments : /\ f.content[s].del \in SUBSET LibIds
                                  /\ f.content[s].rec \in [LibIds -> RecordTexts \cup {NoRecord}]
  BY SourcesAssumption, EmptyTypes DEF SourceType, Contents

\* The parts of a well-formed catalog.
LEMMA CatalogFields ==
    ASSUME NEW d \in CatalogType
    PROVE  /\ d.seg \in [Segments -> SegmentRow]
           /\ d.loc \in [LibIds -> BookRow]
           /\ d.books \in Int /\ d.unavailable \in Int
           /\ d.completed \in BOOLEAN /\ d.src \in SourceType
  BY DEF CatalogType

\* UpsertSegment writes well-formed rows for every plan.
LEMMA UpsertType ==
    ASSUME NEW d \in CatalogType, NEW p \in [Segments -> PlanType],
           expected \in Sources \cup {NoSource}
    PROVE  UpsertSegments(d, p) \in CatalogType
  <1>1. \A s \in Segments : UpsertedRow(d.seg[s], p[s], s) \in SegmentRow
    BY CatalogFields, SourceFields DEF UpsertedRow, SegmentRow, PlanType, Changes
  <1> QED
    BY <1>1 DEF UpsertSegments, CatalogType

\* WriteParsedRecord writes a well-formed row.
LEMMA WriteType ==
    ASSUME NEW d \in CatalogType, NEW s \in Segments, NEW l \in LibIds,
           NEW text \in RecordTexts \cup {NoRecord},
           NEW man \in Manifests \cup {NoManifest}
    PROVE  WriteParsedRecord(d, s, l, text, man) \in CatalogType
  <1> DEFINE row == [seg |-> s, present |-> TRUE, avail |-> TRUE, rec |-> text, man |-> man]
  <1>1. row \in BookRow
    BY DEF BookRow
  <1>2. [d.loc EXCEPT ![l] = row] \in [LibIds -> BookRow]
    BY <1>1, CatalogFields
  <1> HIDE DEF row
  <1> QED
    BY <1>2 DEF WriteParsedRecord, UpsertedBook, CatalogType, row

\* The counts that Finish adds to and takes from the statistics are numbers.
LEMMA CardinalityOfBooks ==
    ASSUME NEW L, L \subseteq LibIds
    PROVE  Cardinality(L) \in Nat
  BY FS_Subset, FS_CardinalityType, ConstantsAssumption

\* What Reconciled does to one row.
LEMMA ReconciledRow ==
    ASSUME NEW d \in CatalogType, NEW l \in LibIds
    PROVE  LET r == Reconciled(d).loc[l]
           IN  /\ r \in BookRow
               /\ r.seg = d.loc[l].seg /\ r.rec = d.loc[l].rec /\ r.man = d.loc[l].man
               /\ r.present <=> /\ d.loc[l].present
                                /\ ~(/\ d.loc[l].seg # NoSegment
                                     /\ Parsed(d.loc[l].seg)
                                     /\ l \notin written)
               /\ r.avail <=> IF r.seg = NoSegment
                                THEN d.loc[l].avail
                                ELSE /\ r.present
                                     /\ d.seg[r.seg].state = "Available"
                                     /\ ~WithdrawnLater(d.seg, Reconciled(d).loc, l)
  <1> DEFINE seen     == ClearUnseen(d.loc)
             marked   == MarkedUnavailable(d.seg, seen)
             hidden   == SetAvailability(seen, marked, FALSE)
             restored == RestoredAvailable(d.seg, hidden)
             final    == SetAvailability(hidden, restored, TRUE)
  <1>0. d.loc[l] \in BookRow
    BY CatalogFields
  <1>1. /\ seen[l] \in BookRow
        /\ seen[l].seg = d.loc[l].seg /\ seen[l].rec = d.loc[l].rec
        /\ seen[l].man = d.loc[l].man /\ seen[l].avail = d.loc[l].avail
        /\ seen[l].present <=> /\ d.loc[l].present
                               /\ ~(/\ d.loc[l].seg # NoSegment
                                    /\ Parsed(d.loc[l].seg)
                                    /\ l \notin written)
    BY <1>0 DEF ClearUnseen, BookRow
  <1> HIDE DEF seen
  <1>2. /\ hidden[l] \in BookRow
        /\ hidden[l].seg = seen[l].seg /\ hidden[l].rec = seen[l].rec
        /\ hidden[l].man = seen[l].man /\ hidden[l].present = seen[l].present
        /\ hidden[l].avail <=> seen[l].avail /\ l \notin marked
    BY <1>1 DEF SetAvailability, BookRow
  <1> HIDE DEF hidden
  <1>3. /\ final[l] \in BookRow
        /\ final[l].seg = hidden[l].seg /\ final[l].rec = hidden[l].rec
        /\ final[l].man = hidden[l].man /\ final[l].present = hidden[l].present
        /\ final[l].avail <=> hidden[l].avail \/ l \in restored
    BY <1>2 DEF SetAvailability, BookRow
  <1> HIDE DEF final
  <1>4. /\ WithdrawnLater(d.seg, final, l) <=> WithdrawnLater(d.seg, seen, l)
        /\ WithdrawnLater(d.seg, final, l) <=> WithdrawnLater(d.seg, hidden, l)
    BY <1>2, <1>3 DEF WithdrawnLater
  <1>5. Reconciled(d).loc = final
    BY DEF Reconciled, final, hidden, seen
  <1>6. l \in marked <=> /\ seen[l].seg # NoSegment
                         /\ seen[l].avail
                         /\ \/ ~seen[l].present
                            \/ d.seg[seen[l].seg].state # "Available"
                            \/ WithdrawnLater(d.seg, seen, l)
    BY DEF MarkedUnavailable
  <1>7. l \in restored <=> /\ hidden[l].seg # NoSegment
                           /\ ~hidden[l].avail
                           /\ hidden[l].present
                           /\ d.seg[hidden[l].seg].state = "Available"
                           /\ ~WithdrawnLater(d.seg, hidden, l)
    BY DEF RestoredAvailable
  <1> HIDE DEF marked, restored
  <1>8. final[l].avail <=> IF final[l].seg = NoSegment
                                THEN d.loc[l].avail
                                ELSE /\ final[l].present
                                     /\ d.seg[final[l].seg].state = "Available"
                                     /\ ~WithdrawnLater(d.seg, final, l)
    BY <1>1, <1>2, <1>3, <1>4, <1>6, <1>7
  <1> QED
    BY <1>1, <1>2, <1>3, <1>5, <1>8

\* Finish leaves the segments alone and records the INPX file it ran for.
LEMMA ReconciledFields ==
    ASSUME NEW d \in CatalogType
    PROVE  LET r == Reconciled(d)
           IN  /\ r.completed = TRUE /\ r.src = expected /\ r.seg = d.seg
               /\ expected \in SourceType => r \in CatalogType
  <1> DEFINE r == Reconciled(d)
             marked == MarkedUnavailable(d.seg, ClearUnseen(d.loc))
             hidden == SetAvailability(ClearUnseen(d.loc), marked, FALSE)
             restored == RestoredAvailable(d.seg, hidden)
  <1>1. Cardinality(marked) \in Nat /\ Cardinality(restored) \in Nat
    <2>1. marked \subseteq LibIds
      BY DEF MarkedUnavailable
    <2> HIDE DEF hidden
    <2>2. restored \subseteq LibIds
      BY DEF RestoredAvailable
    <2> QED
      BY <2>1, <2>2, CardinalityOfBooks
  <1>2. /\ r.completed = TRUE /\ r.src = expected /\ r.seg = d.seg /\ r.books = d.books
        /\ r.unavailable = d.unavailable + Cardinality(marked) - Cardinality(restored)
        /\ r = [completed |-> r.completed, src |-> r.src, seg |-> r.seg, loc |-> r.loc,
                books |-> r.books, unavailable |-> r.unavailable]
        /\ r.loc = SetAvailability(hidden, restored, TRUE)
    BY DEF Reconciled
  <1> HIDE DEF marked, restored, hidden
  <1>3. r.unavailable \in Int /\ r.books \in Int
    BY <1>1, <1>2, CatalogFields
  <1>4. r.loc \in [LibIds -> BookRow]
    <2>1. r.loc = [l \in LibIds |-> r.loc[l]]
      BY <1>2 DEF SetAvailability
    <2> QED
      BY <2>1, ReconciledRow
  <1> HIDE DEF r
  <1>5. expected \in SourceType => r \in CatalogType
    BY <1>2, <1>3, <1>4, CatalogFields DEF CatalogType
  <1> QED
    BY <1>2, <1>5 DEF r

\* The cache starts well formed.
LEMMA TypeInit == Init => TypeOK
  <1> USE DEF TypeOK
  <1> SUFFICES ASSUME Init PROVE TypeOK
    OBVIOUS
  <1>1. db \in CatalogType /\ txn \in CatalogType /\ expected \in Sources \cup {NoSource}
    BY EmptyTypes DEF Init
  <1>2. archive \in [Archives -> [stat: Nat, man: Manifests]]
    BY DEF Init
  <1>3. plans \in [Segments -> PlanType] /\ guards \in [Archives -> GuardType]
    BY DEF Init, NoPlan, NoGuard, PlanType, GuardType, Changes, Phases
  <1> QED
    BY <1>1, <1>2, <1>3 DEF Init, NothingToDo

\* No step of the owner or of the scan breaks a type.
LEMMA TypeStep == TypeOK /\ [Next]_vars => TypeOK'
  <1> USE DEF TypeOK
  <1> SUFFICES ASSUME TypeOK, [Next]_vars PROVE TypeOK'
    OBVIOUS
  <1> USE DEF envVars, planVars, writeVars
  <1>0. LeaveScan /\ UNCHANGED <<envVars, scans>> /\ db' \in CatalogType => TypeOK'
    <2> SUFFICES ASSUME LeaveScan, UNCHANGED <<envVars, scans>>, db' \in CatalogType
                 PROVE  TypeOK'
      OBVIOUS
    <2>1. plans' \in [Segments -> PlanType] /\ guards' \in [Archives -> GuardType]
      BY DEF LeaveScan, NoPlan, NoGuard, PlanType, GuardType, Changes, Phases
    <2> QED
      BY <2>1, EmptyTypes DEF LeaveScan, NothingToDo
  <1>1. EndScan => TypeOK'
    BY <1>0 DEF EndScan
  <1>2. CASE ReplaceSource
    BY <1>2 DEF ReplaceSource, Race
  <1>3. CASE ReplaceArchive
    <2>1. archive' \in [Archives -> [stat: Nat, man: Manifests]]
      BY <1>3 DEF ReplaceArchive
    <2> QED
      BY <1>3, <2>1 DEF ReplaceArchive, Race
  <1>4. CASE StartScan
    BY <1>4 DEF StartScan
  <1>5. CASE CopySnapshot
    BY <1>5, <1>1 DEF CopySnapshot
  <1>6. ASSUME NEW s \in Segments, NEW c \in Changes, NEW n \in Nat,
               NEW m \in Manifests \cup {NoManifest}, SetPlan(s, c, n, m)
        PROVE  plans' \in [Segments -> PlanType]
    BY <1>6 DEF SetPlan, PlanType
  <1>7. \A s \in Segments : ParsedChange(s) \in Changes
    BY DEF ParsedChange, Changes
  <1>8. ASSUME NEW s \in Segments, PlanWithoutArchive(s) PROVE TypeOK'
    <2>1. plans' \in [Segments -> PlanType]
      BY <1>6, <1>7, <1>8 DEF PlanWithoutArchive, Changes
    <2> QED
      BY <1>8, <2>1 DEF PlanWithoutArchive
  <1>9. \A a \in Archives : /\ guards[a].stat \in Nat /\ archive[a].stat \in Nat
                            /\ guards[a].man \in Manifests \cup {NoManifest}
                            /\ archive[a].man \in Manifests
    BY DEF GuardType
  <1>10. \A s \in Segments : db.seg[s].man \in Manifests \cup {NoManifest}
    BY CatalogFields DEF SegmentRow
  <1>11. ASSUME NEW s \in Segments, ReadArchiveState(s) PROVE TypeOK'
    <2> DEFINE a == ArchiveOf[s]
               stat == IF guards[a].phase = "NoGuard" THEN archive[a].stat ELSE guards[a].stat
    <2>1. a \in Archives /\ stat \in Nat
      BY <1>9, ConstantsAssumption
    <2>2. guards' \in [Archives -> GuardType]
      BY <1>11, <2>1 DEF ReadArchiveState, GuardType, Phases
    <2>3. plans' \in [Segments -> PlanType]
      BY <1>6, <1>10, <1>11, <2>1 DEF ReadArchiveState, Changes
    <2> QED
      BY <1>11, <2>2, <2>3 DEF ReadArchiveState
  <1>12. CASE ReadArchiveManifest
    <2> DEFINE a == ArchiveOf[current]
               man == IF guards[a].phase = "FileStateRead" THEN archive[a].man ELSE guards[a].man
    <2>0. current \in Segments
      BY <1>12 DEF ReadArchiveManifest
    <2>1. a \in Archives /\ man \in Manifests \cup {NoManifest} /\ guards[a].stat \in Nat
      BY <1>9, <2>0, ConstantsAssumption
    <2>2. guards' \in [Archives -> GuardType]
      BY <1>12, <2>1 DEF ReadArchiveManifest, GuardType, Phases
    <2>3. plans' \in [Segments -> PlanType]
      BY <1>6, <1>7, <1>12, <2>0, <2>1 DEF ReadArchiveManifest
    <2> QED
      BY <1>12, <2>2, <2>3 DEF ReadArchiveManifest
  <1>13. CASE ValidateArchivePayloads
    <2> DEFINE a == ArchiveOf[current]
    <2>0. current \in Segments
      BY <1>13 DEF ValidateArchivePayloads
    <2>1. a \in Archives /\ guards[a].stat \in Nat /\ guards[a].man \in Manifests \cup {NoManifest}
      BY <1>9, <2>0, ConstantsAssumption
    <2>2. CASE EndScan
      BY <2>2, <1>1
    <2>3. CASE ~EndScan
      <3>2. guards' \in [Archives -> GuardType]
        BY <1>13, <2>1, <2>3 DEF ValidateArchivePayloads, GuardType, Phases
      <3>3. plans' \in [Segments -> PlanType]
        BY <1>6, <1>13, <2>0, <2>1, <2>3 DEF ValidateArchivePayloads, Changes
      <3> QED
        BY <1>13, <2>3, <3>2, <3>3 DEF ValidateArchivePayloads
    <2> QED
      BY <2>2, <2>3
  <1>14. CASE BeginTransaction
    <2>1. WithRemoved \in [Segments -> PlanType]
      <3>1. \A s \in Segments : WithRemoved[s] \in PlanType
        BY CatalogFields DEF WithRemoved, PlanType, Changes, SegmentRow
      <3> QED
        BY <3>1 DEF WithRemoved
    <2>2. txn' \in CatalogType
      BY <1>14, <2>1, UpsertType DEF BeginTransaction
    <2>3. todo' \in [Segments -> SUBSET LibIds] /\ processed' \in SUBSET LibIds
      BY <1>14 DEF BeginTransaction, Active, ReadActiveIds
    <2> QED
      BY <1>14, <2>1, <2>2, <2>3 DEF BeginTransaction
  <1>15. ASSUME NEW a \in Archives, OpenArchive(a) PROVE TypeOK'
    BY <1>15, <1>1 DEF OpenArchive
  <1>16. ASSUME NEW s \in Segments, NEW l \in LibIds, IndexRecord(s, l) PROVE TypeOK'
    <2>1. CASE l \in processed
      BY <1>16, <1>1, <2>1 DEF IndexRecord
    <2>2. CASE l \notin processed
      <3>1. reader \in Archives
        BY <1>16, <2>2, ConstantsAssumption DEF IndexRecord
      <3> DEFINE text == expected.content[s].rec[l]
      <3>2. txn' \in CatalogType
        <4>1. PICK man \in ReadableContents(reader) : txn' = WriteParsedRecord(txn, s, l, text, man)
          BY <1>16, <2>2 DEF IndexRecord
        <4>2. text \in RecordTexts \cup {NoRecord} /\ man \in Manifests \cup {NoManifest}
          BY <3>1, <1>9, SourceFields DEF ReadableContents, GuardType
        <4> HIDE DEF text
        <4> QED
          BY <4>1, <4>2, WriteType
      <3>3. /\ todo' \in [Segments -> SUBSET LibIds]
            /\ processed' \in SUBSET LibIds /\ written' \in SUBSET LibIds
        BY <1>16, <2>2 DEF IndexRecord
      <3> QED
        BY <1>16, <2>2, <3>2, <3>3 DEF IndexRecord
    <2> QED
      BY <2>1, <2>2
  <1>17. CASE Reconcile
    BY <1>17, ReconciledFields, SourceFields DEF Reconcile
  <1>18. ASSUME NEW a \in Archives, ValidateArchiveGuard(a) PROVE TypeOK'
    BY <1>18, <1>1 DEF ValidateArchiveGuard
  <1>19. CASE VerifySource
    BY <1>19, <1>1 DEF VerifySource
  <1>20. CASE Commit
    BY <1>20, <1>0 DEF Commit
  <1>21. CASE AbandonScan
    BY <1>21, <1>1 DEF AbandonScan
  <1>22. CASE UNCHANGED vars
    BY <1>22 DEF vars
  <1> QED
    BY <1>2, <1>3, <1>4, <1>5, <1>8, <1>11, <1>12, <1>13, <1>14, <1>15, <1>16, <1>17,
       <1>18, <1>19, <1>20, <1>21, <1>22 DEF Next, ScanStep

\* Every variable keeps its type: rows, plans and guards are well formed in
\* every reachable state, whatever the collection looks like.
THEOREM TypeCorrect == Spec => []TypeOK
  BY TypeInit, TypeStep, PTL DEF Spec

-----------------------------------------------------------------------------
(* The invariant is inductive                                              *)

\* Whatever ends a scan leaves nothing of it behind.
LEMMA LeaveStep == LeaveScan => ScanInv'
  <1> SUFFICES ASSUME LeaveScan PROVE ScanInv'
    OBVIOUS
  <1>1. pc' = "idle"
    BY DEF LeaveScan
  <1>2. RestInv' /\ GuardInv'
    BY DEF LeaveScan, RestInv, GuardInv, NoGuard
  <1>3. PlanningInv' /\ ExaminingInv' /\ PayloadsInv'
    BY <1>1 DEF PlanningInv, ExaminingInv, PayloadsInv
  <1>4. TransactionInv' /\ IndexInv'
    BY <1>1 DEF TransactionInv, IndexInv
  <1>5. PayloadsGuarded' /\ ClosingInv'
    BY <1>1 DEF PayloadsGuarded, ClosingInv
  <1> QED
    BY <1>1, <1>2, <1>3, <1>4, <1>5 DEF ScanInv, Idle

\* The committed rows satisfy their part as long as nobody commits.
LEMMA CatalogFrame == CatalogInv /\ UNCHANGED <<db, archive>> => CatalogInv'
  <1> SUFFICES ASSUME CatalogInv, UNCHANGED <<db, archive>> PROVE CatalogInv'
    OBVIOUS
  <1>1. RowsComeFromSegments(db)' /\ PayloadsComeFromArchives(db)' /\ SegmentsHaveTheirRows(db)'
    BY DEF CatalogInv, RowsComeFromSegments, PayloadsComeFromArchives, SegmentsHaveTheirRows,
           InCurrentSegment, Witnessed
  <1>2. MarkersComeFromSegments(db)' /\ AvailabilityReconciled(db)'
    BY DEF CatalogInv, MarkersComeFromSegments, AvailabilityReconciled, InCurrentSegment,
           WithdrawnLater
  <1>3. SegmentsComeFromSource(db, db.src)' /\ ArchivesWitnessed(db)'
    BY DEF CatalogInv, SegmentsComeFromSource, ArchivesWitnessed, Witnessed
  <1> QED
    BY <1>1, <1>2, <1>3 DEF CatalogInv

\* A scan that fails, is cancelled or dies with the process leaves the committed rows.
LEMMA EndStep == CatalogInv /\ EndScan => CatalogInv' /\ ScanInv'
  BY CatalogFrame, LeaveStep DEF EndScan, envVars

\* An empty catalog satisfies the invariant.
LEMMA InvInit == Init => CatalogInv /\ ScanInv
  <1> SUFFICES ASSUME Init PROVE CatalogInv /\ ScanInv
    OBVIOUS
  <1>1. db = EmptyCatalog /\ pc = "idle"
    BY DEF Init
  <1>2. /\ \A l \in LibIds : db.loc[l].seg = NoSegment /\ ~db.loc[l].avail
        /\ \A s \in Segments : db.seg[s].state = "NoRow"
        /\ db.src.segs = {}
    BY <1>1 DEF EmptyCatalog, NoSource
  <1>3. CatalogInv
    BY <1>2 DEF CatalogInv, RowsComeFromSegments, PayloadsComeFromArchives,
         SegmentsHaveTheirRows, MarkersComeFromSegments, AvailabilityReconciled,
         SegmentsComeFromSource, ArchivesWitnessed, InCurrentSegment
  <1>4. RestInv /\ GuardInv
    BY DEF Init, RestInv, GuardInv, NoGuard
  <1> QED
    BY <1>1, <1>3, <1>4 DEF ScanInv, Idle, PlanningInv, ExaminingInv, PayloadsInv,
         TransactionInv, IndexInv, PayloadsGuarded, ClosingInv

\* What the owner does touches neither the database nor the scan.
LEMMA ScanFrame ==
    ASSUME UNCHANGED <<db, txn, pc, planVars, writeVars>>
    PROVE  /\ (~Idle => expected \in Sources) => (~Idle => expected \in Sources)'
           /\ RestInv => RestInv'
           /\ PlanningInv => PlanningInv'
           /\ ExaminingInv => ExaminingInv'
           /\ PayloadsInv => PayloadsInv'
           /\ TransactionInv => TransactionInv'
           /\ IndexInv => IndexInv'
           /\ ClosingInv => ClosingInv'
  <1> USE DEF planVars, writeVars
  <1>1. (~Idle => expected \in Sources) => (~Idle => expected \in Sources)'
    BY DEF Idle
  <1>2. RestInv => RestInv'
    BY DEF RestInv
  <1>3. \A s : PlanOK(s) <=> PlanOK(s)'
    BY DEF PlanOK, Reusable
  <1>4. PlanningInv => PlanningInv'
    BY <1>3 DEF PlanningInv
  <1>5. ExaminingInv => ExaminingInv'
    BY DEF ExaminingInv
  <1>6. PayloadsInv => PayloadsInv'
    BY DEF PayloadsInv, Reusable
  <1>7. TransactionInv => TransactionInv'
    BY <1>3 DEF TransactionInv, SegmentsComeFromSource, MarkersComeFromSegments
  <1>8. IndexInv => IndexInv'
    BY DEF IndexInv, Parsed, ReadActiveIds
  <1>9. ClosingInv => ClosingInv'
    BY DEF ClosingInv, RowsComeFromSegments, SegmentsHaveTheirRows, AvailabilityReconciled,
           InCurrentSegment, WithdrawnLater
  <1> QED
    BY <1>1, <1>2, <1>4, <1>5, <1>6, <1>7, <1>8, <1>9

\* A replaced archive has a file state it never had, so a witnessed pair stays one.
LEMMA ReplaceArchiveStep ==
    TypeOK /\ CatalogInv /\ ScanInv /\ ReplaceArchive => CatalogInv' /\ ScanInv'
  <1> SUFFICES ASSUME TypeOK, CatalogInv, ScanInv, ReplaceArchive PROVE CatalogInv' /\ ScanInv'
    OBVIOUS
  <1> USE DEF TypeOK, planVars, writeVars
  <1>0. \A a \in Archives : archive[a].stat \in Nat
    OBVIOUS
  <1>1. PICK b \in Archives, m \in Manifests :
            archive' = [archive EXCEPT ![b] = [stat |-> @.stat + 1, man |-> m]]
    BY DEF ReplaceArchive
  <1>2. \A a \in Archives : \/ archive'[a] = archive[a]
                            \/ archive'[a].stat = archive[a].stat + 1
    BY <1>1
  <1>3. UNCHANGED <<db, txn, pc, planVars, writeVars>>
    BY DEF ReplaceArchive
  <1>4. ASSUME NEW a \in Archives, NEW n \in Nat, NEW c, Witnessed(a, n, c)
        PROVE  n <= archive'[a].stat /\ (n = archive'[a].stat => c = archive'[a].man)
    BY <1>0, <1>2, <1>4 DEF Witnessed
  <1>5. CatalogInv'
    <2>1. ArchivesWitnessed(db)'
      <3> SUFFICES ASSUME NEW s \in Segments, db.seg[s].state = "Available",
                          RequiresArchive(db.seg[s].inp)
                   PROVE  /\ db.seg[s].stat <= archive'[ArchiveOf[s]].stat
                          /\ db.seg[s].stat = archive'[ArchiveOf[s]].stat =>
                                db.seg[s].man = archive'[ArchiveOf[s]].man
        BY <1>3 DEF ArchivesWitnessed, Witnessed
      <3>1. db.seg[s].stat \in Nat /\ ArchiveOf[s] \in Archives
        BY CatalogFields, ConstantsAssumption DEF SegmentRow
      <3>2. Witnessed(ArchiveOf[s], db.seg[s].stat, db.seg[s].man)
        BY DEF CatalogInv, ArchivesWitnessed
      <3> QED
        BY <3>1, <3>2, <1>4
    <2> QED
      BY <1>3, <2>1 DEF CatalogInv, RowsComeFromSegments, PayloadsComeFromArchives,
         SegmentsHaveTheirRows, MarkersComeFromSegments, AvailabilityReconciled,
         SegmentsComeFromSource, InCurrentSegment, WithdrawnLater
  <1>6. GuardInv'
    <2> SUFFICES ASSUME NEW a \in Archives
                 PROVE  /\ guards[a].phase # "NoGuard" => guards[a].stat <= archive'[a].stat
                        /\ guards[a].phase \in {"ManifestRead", "PayloadsValidated"} =>
                             /\ guards[a].stat <= archive'[a].stat
                             /\ guards[a].stat = archive'[a].stat => guards[a].man = archive'[a].man
      BY <1>3 DEF GuardInv, Witnessed
    <2>1. guards[a].stat \in Nat
      BY DEF GuardType
    <2>2. GuardInv
      BY DEF ScanInv
    <2> QED
      BY <1>0, <1>2, <1>4, <2>1, <2>2 DEF GuardInv
  <1>7. PayloadsGuarded'
    <2> SUFFICES ASSUME pc \in {"index", "validate", "commit"}, NEW l \in written
                 PROVE  \/ txn.loc[l].man = plans[txn.loc[l].seg].man
                        \/ /\ ArchiveOf[txn.loc[l].seg] \notin validated
                           /\ guards[ArchiveOf[txn.loc[l].seg]].stat < archive'[ArchiveOf[txn.loc[l].seg]].stat
      BY <1>3 DEF PayloadsGuarded
    <2> DEFINE s == txn.loc[l].seg
               a == ArchiveOf[s]
    <2>1. \/ txn.loc[l].man = plans[s].man
          \/ a \notin validated /\ guards[a].stat < archive[a].stat
      BY DEF ScanInv, PayloadsGuarded
    <2>2. s \in Segments
      <3>1. pc = "index" => s \in expected.segs
        BY DEF ScanInv, IndexInv
      <3>2. pc # "index" => s \in expected.segs
        BY DEF ScanInv, ClosingInv
      <3> QED
        BY <3>1, <3>2, SourceFields
    <2>3. a \in Archives
      BY <2>2, ConstantsAssumption
    <2>4. guards[a].stat \in Nat
      BY <2>3 DEF GuardType
    <2> HIDE DEF a, s
    <2>5. \/ txn.loc[l].man = plans[s].man
          \/ a \notin validated /\ guards[a].stat < archive'[a].stat
      BY <1>0, <1>2, <2>1, <2>3, <2>4
    <2> QED
      BY <2>5 DEF a, s
  <1>8. /\ (~Idle => expected \in Sources)' /\ RestInv' /\ PlanningInv' /\ ExaminingInv'
        /\ PayloadsInv' /\ TransactionInv' /\ IndexInv' /\ ClosingInv'
    BY <1>3, ScanFrame DEF ScanInv
  <1> QED
    BY <1>5, <1>6, <1>7, <1>8 DEF ScanInv

\* The INPX file is replaced, at rest or during a scan.
LEMMA ReplaceSourceStep == CatalogInv /\ ScanInv /\ ReplaceSource => CatalogInv' /\ ScanInv'
  <1> SUFFICES ASSUME CatalogInv, ScanInv, ReplaceSource PROVE CatalogInv' /\ ScanInv'
    OBVIOUS
  <1>1. UNCHANGED <<db, txn, pc, planVars, writeVars>> /\ UNCHANGED archive
    BY DEF ReplaceSource
  <1>2. GuardInv' /\ PayloadsGuarded'
    BY <1>1 DEF ScanInv, GuardInv, PayloadsGuarded, Witnessed, planVars, writeVars
  <1> QED
    BY <1>1, <1>2, ScanFrame, CatalogFrame DEF ScanInv

\* The scan starts from the file whose digest it was handed.
LEMMA StartScanStep == TypeOK /\ CatalogInv /\ ScanInv /\ StartScan => CatalogInv' /\ ScanInv'
  <1> SUFFICES ASSUME TypeOK, CatalogInv, ScanInv, StartScan PROVE CatalogInv' /\ ScanInv'
    OBVIOUS
  <1>1. /\ pc = "idle" /\ pc' = "snapshot" /\ expected' = source
        /\ UNCHANGED <<db, archive, plans, guards, written, validated>>
    BY DEF StartScan, Idle, envVars, writeVars
  <1>2. GuardInv' /\ RestInv'
    BY <1>1 DEF ScanInv, GuardInv, RestInv, Witnessed
  <1>3. (~Idle => expected \in Sources)'
    BY <1>1 DEF TypeOK
  <1> QED
    BY <1>1, <1>2, <1>3, CatalogFrame
       DEF ScanInv, PlanningInv, ExaminingInv, PayloadsInv, TransactionInv, IndexInv,
           PayloadsGuarded, ClosingInv

\* While segments are planned the parts about the transaction say nothing.
LEMMA PlanningFrame ==
    ASSUME pc' \in {"plan", "manifest", "payloads"}
    PROVE  RestInv' /\ TransactionInv' /\ IndexInv' /\ PayloadsGuarded' /\ ClosingInv'
  BY DEF RestInv, TransactionInv, IndexInv, PayloadsGuarded, ClosingInv

\* The snapshot is the expected file, or the scan ends.
LEMMA CopySnapshotStep ==
    CatalogInv /\ ScanInv /\ CopySnapshot => CatalogInv' /\ ScanInv'
  <1> SUFFICES ASSUME CatalogInv, ScanInv, CopySnapshot PROVE CatalogInv' /\ ScanInv'
    OBVIOUS
  <1>1. CASE EndScan
    BY <1>1, EndStep
  <1>2. CASE ~EndScan
    <2>1. /\ pc = "snapshot" /\ pc' = "plan"
          /\ UNCHANGED <<db, archive, expected, plans, guards, written, validated>>
      BY <1>2 DEF CopySnapshot, envVars, planVars, writeVars
    <2>2. GuardInv'
      BY <2>1 DEF ScanInv, GuardInv, Witnessed
    <2>3. PlanningInv'
      <3>1. plans' = [s \in Segments |-> NoPlan] /\ written' = {} /\ validated' = {}
        BY <2>1 DEF ScanInv, RestInv
      <3>2. expected \in Sources
        BY <2>1 DEF ScanInv, Idle
      <3> QED
        BY <2>1, <3>1, <3>2, SourceFields DEF PlanningInv
    <2>4. (~Idle => expected \in Sources)'
      BY <2>1 DEF ScanInv, Idle
    <2> QED
      BY <2>1, <2>2, <2>3, <2>4, CatalogFrame, PlanningFrame
         DEF ScanInv, ExaminingInv, PayloadsInv
  <1> QED
    BY <1>1, <1>2

\* A guard only gains: its file state is fixed when it is created and its
\* manifest when it is read.
GuardsAdvance ==
    \A a \in Archives : guards[a].phase # "NoGuard" =>
        /\ guards'[a].phase # "NoGuard"
        /\ guards'[a].stat = guards[a].stat
        /\ guards[a].phase \in {"ManifestRead", "PayloadsValidated"} =>
              /\ guards'[a].phase \in {"ManifestRead", "PayloadsValidated"}
              /\ guards'[a].man = guards[a].man

\* So a plan made earlier stays justified.
LEMMA PlanStays ==
    ASSUME GuardsAdvance, UNCHANGED <<db, expected>>, NEW s \in Segments,
           plans'[s] = plans[s], PlanOK(s)
    PROVE  PlanOK(s)'
  <1>1. ArchiveOf[s] \in Archives
    BY ConstantsAssumption
  <1> QED
    BY <1>1 DEF GuardsAdvance, PlanOK, Reusable

\* A planning step that settles segment s, or none.
LEMMA PlanningStep ==
    ASSUME TypeOK, ScanInv, pc \in {"plan", "manifest", "payloads"}, GuardsAdvance,
           UNCHANGED <<db, expected, written, validated>>,
           pc' \in {"plan", "manifest", "payloads"},
           NEW s \in expected.segs,
           \A t \in Segments : t # s => plans'[t] = plans[t],
           plans'[s] = plans[s] \/ PlanOK(s)'
    PROVE  PlanningInv'
  <1>1. expected \in Sources /\ expected.segs \subseteq Segments
    BY SourceFields DEF ScanInv, Idle
  <1>2. PlanningInv
    BY DEF ScanInv
  <1>3. ASSUME NEW t \in expected.segs, plans'[t] # NoPlan PROVE PlanOK(t)'
    <2>1. CASE plans'[t] = plans[t]
      BY <1>1, <1>2, <1>3, <2>1, PlanStays DEF PlanningInv
    <2>2. CASE plans'[t] # plans[t]
      BY <1>1, <2>2
    <2> QED
      BY <2>1, <2>2
  <1> QED
    BY <1>1, <1>2, <1>3 DEF PlanningInv

\* A segment without active records is planned without an archive.
LEMMA PlanWithoutArchiveStep ==
    ASSUME TypeOK, CatalogInv, ScanInv, NEW s \in Segments, PlanWithoutArchive(s)
    PROVE  CatalogInv' /\ ScanInv'
  <1>1. /\ pc = "plan" /\ pc' = "plan" /\ s \in expected.segs
        /\ UNCHANGED <<db, archive, expected, guards, written, validated>>
        /\ ~RequiresArchive(expected.content[s])
    BY DEF PlanWithoutArchive, NextToPlan, envVars, writeVars
  <1>2. PICK c : /\ c = (IF CanReuseExisting(s) THEN "Unchanged" ELSE ParsedChange(s))
                 /\ plans' = [plans EXCEPT ![s] = [change |-> c, stat |-> 0, man |-> NoManifest]]
    BY DEF PlanWithoutArchive, SetPlan
  <1>3. plans'[s].change = c /\ \A t \in Segments : t # s => plans'[t] = plans[t]
    BY <1>2 DEF TypeOK
  <1>4. PlanOK(s)'
    <2>1. c \in {"Unchanged", "Added", "Changed"} /\ (c = "Unchanged" => Reusable(s))
      BY <1>2 DEF CanReuseExisting, ParsedChange, Reusable
    <2> QED
      BY <1>1, <1>3, <2>1 DEF PlanOK, Reusable
  <1>5. GuardsAdvance /\ GuardInv'
    BY <1>1 DEF GuardsAdvance, ScanInv, GuardInv, Witnessed
  <1>6. PlanningInv'
    BY <1>1, <1>3, <1>4, <1>5, PlanningStep
  <1>7. (~Idle => expected \in Sources)'
    BY <1>1 DEF ScanInv, Idle
  <1> QED
    BY <1>1, <1>5, <1>6, <1>7, CatalogFrame, PlanningFrame DEF ScanInv, ExaminingInv, PayloadsInv

\* The file state is read once per archive and settles a reusable segment.
LEMMA ReadArchiveStateStep ==
    ASSUME TypeOK, CatalogInv, ScanInv, NEW s \in Segments, ReadArchiveState(s)
    PROVE  CatalogInv' /\ ScanInv'
  <1> DEFINE a == ArchiveOf[s]
             stat == IF guards[a].phase = "NoGuard" THEN archive[a].stat ELSE guards[a].stat
             reused == CanReuseExisting(s) /\ db.seg[s].stat = stat
  <1>1. /\ pc = "plan" /\ s \in expected.segs /\ plans[s] = NoPlan
        /\ UNCHANGED <<db, archive, expected, written, validated>>
        /\ RequiresArchive(expected.content[s])
    BY DEF ReadArchiveState, NextToPlan, envVars, writeVars
  <1>2. a \in Archives /\ stat \in Nat /\ archive[a].stat \in Nat
    BY ConstantsAssumption DEF TypeOK, GuardType
  <1>3. /\ guards' = IF guards[a].phase = "NoGuard"
                       THEN [guards EXCEPT ![a] =
                               [phase |-> "FileStateRead", stat |-> stat, man |-> NoManifest]]
                       ELSE guards
        /\ reused => /\ plans' = [plans EXCEPT ![s] =
                                    [change |-> "Unchanged", stat |-> stat, man |-> db.seg[s].man]]
                     /\ pc' = "plan"
        /\ ~reused => pc' = "manifest" /\ current' = s /\ plans' = plans
    BY <1>1 DEF ReadArchiveState, SetPlan
  <1>4. /\ guards'[a].phase # "NoGuard" /\ guards'[a].stat = stat
        /\ \A b \in Archives : b # a => guards'[b] = guards[b]
        /\ guards[a].phase # "NoGuard" => guards' = guards
        /\ guards[a].phase = "NoGuard" => guards'[a].phase = "FileStateRead" /\ stat = archive[a].stat
    BY <1>2, <1>3 DEF TypeOK
  <1>5. GuardsAdvance /\ GuardInv'
    <2>1. GuardsAdvance
      BY <1>4 DEF GuardsAdvance
    <2>2. GuardInv'
      BY <1>1, <1>2, <1>4 DEF ScanInv, GuardInv, Witnessed
    <2> QED
      BY <2>1, <2>2
  <1>6. /\ \A t \in Segments : t # s => plans'[t] = plans[t]
        /\ reused => /\ plans'[s].change = "Unchanged" /\ plans'[s].stat = stat
                     /\ plans'[s].man = db.seg[s].man
    BY <1>3 DEF TypeOK
  <1> HIDE DEF reused, stat
  <1>7. plans'[s] = plans[s] \/ PlanOK(s)'
    <2>1. CASE reused
      <3>1. Reusable(s) /\ db.seg[s].stat = stat
        BY <2>1 DEF reused, CanReuseExisting, Reusable
      <3> QED
        BY <1>1, <1>4, <1>6, <2>1, <3>1 DEF PlanOK, Reusable
    <2>2. CASE ~reused
      BY <1>3, <2>2
    <2> QED
      BY <2>1, <2>2
  <1>8. pc' \in {"plan", "manifest"}
    BY <1>3
  <1>9. PlanningInv'
    BY <1>1, <1>5, <1>6, <1>7, <1>8, PlanningStep
  <1>10. ExaminingInv' /\ PayloadsInv'
    BY <1>1, <1>3, <1>4 DEF ExaminingInv, PayloadsInv
  <1>11. (~Idle => expected \in Sources)'
    BY <1>1 DEF ScanInv, Idle
  <1> QED
    BY <1>1, <1>5, <1>8, <1>9, <1>10, <1>11, CatalogFrame, PlanningFrame DEF ScanInv

\* The manifest is read after the file state: if the latter is unchanged, the
\* manifest belongs to it.
LEMMA ReadArchiveManifestStep ==
    ASSUME TypeOK, CatalogInv, ScanInv, ReadArchiveManifest
    PROVE  CatalogInv' /\ ScanInv'
  <1>0. PICK s : s = current
    OBVIOUS
  <1> DEFINE a == ArchiveOf[s]
             man == IF guards[a].phase = "FileStateRead" THEN archive[a].man ELSE guards[a].man
             matches == CanReuseExisting(s) /\ db.seg[s].man = man
  <1>1. /\ pc = "manifest"
        /\ UNCHANGED <<db, archive, expected, written, validated>>
    BY DEF ReadArchiveManifest, envVars, writeVars
  <1>2. /\ s \in expected.segs /\ s \in Segments
        /\ plans[s] = NoPlan /\ RequiresArchive(expected.content[s])
        /\ guards[a].phase # "NoGuard"
    BY <1>0, <1>1 DEF ScanInv, ExaminingInv, TypeOK
  <1>3. a \in Archives /\ archive[a].stat \in Nat /\ guards[a].stat \in Nat
    BY <1>2, ConstantsAssumption DEF TypeOK, GuardType
  <1>4. /\ guards' = IF guards[a].phase = "FileStateRead"
                       THEN [guards EXCEPT ![a].phase = "ManifestRead", ![a].man = man]
                       ELSE guards
        /\ matches => pc' = "payloads" /\ plans' = plans /\ current' = current
        /\ ~matches => /\ plans' = [plans EXCEPT ![s] =
                             [change |-> ParsedChange(s), stat |-> guards[a].stat, man |-> man]]
                       /\ pc' = "plan"
    BY <1>0 DEF ReadArchiveManifest, SetPlan
  <1>5. /\ guards'[a].phase \in {"ManifestRead", "PayloadsValidated"}
        /\ guards'[a].stat = guards[a].stat /\ guards'[a].man = man
        /\ \A b \in Archives : b # a => guards'[b] = guards[b]
        /\ guards[a].phase # "FileStateRead" => guards' = guards
    BY <1>2, <1>3, <1>4 DEF TypeOK, GuardType, Phases
  <1>6. GuardsAdvance
    BY <1>5 DEF GuardsAdvance
  <1>7. GuardInv'
    <2>1. Witnessed(a, guards[a].stat, man)
      BY <1>2, <1>3, <1>5 DEF ScanInv, GuardInv, Witnessed
    <2> HIDE DEF man, a
    <2> QED
      BY <1>1, <1>3, <1>5, <2>1 DEF ScanInv, GuardInv, Witnessed
  <1>8. /\ \A t \in Segments : t # s => plans'[t] = plans[t]
        /\ ~matches => /\ plans'[s].change = ParsedChange(s) /\ plans'[s].stat = guards[a].stat
                       /\ plans'[s].man = man
    BY <1>2, <1>4 DEF TypeOK
  <1>9. plans'[s] = plans[s] \/ PlanOK(s)'
    <2>1. CASE ~matches
      <3>1. ParsedChange(s) \in {"Added", "Changed"}
        BY DEF ParsedChange
      <3> HIDE DEF man
      <3> QED
        BY <1>1, <1>2, <1>5, <1>8, <2>1, <3>1 DEF PlanOK
    <2>2. CASE matches
      BY <1>4, <2>2
    <2> QED
      BY <2>1, <2>2
  <1>10. matches => Reusable(s) /\ db.seg[s].man = man
    BY DEF CanReuseExisting, Reusable
  <1> HIDE DEF man, matches
  <1>11. pc' \in {"plan", "payloads"}
    BY <1>4
  <1>12. PlanningInv'
    BY <1>1, <1>2, <1>6, <1>8, <1>9, <1>11, PlanningStep
  <1>13. ExaminingInv' /\ PayloadsInv'
    BY <1>0, <1>1, <1>2, <1>4, <1>5, <1>10 DEF ExaminingInv, PayloadsInv, Reusable
  <1>14. (~Idle => expected \in Sources)'
    BY <1>1 DEF ScanInv, Idle
  <1> QED
    BY <1>1, <1>7, <1>11, <1>12, <1>13, <1>14, CatalogFrame, PlanningFrame DEF ScanInv

\* A segment whose manifest did not change is reused after its payloads are read.
LEMMA ValidateArchivePayloadsStep ==
    ASSUME TypeOK, CatalogInv, ScanInv, ValidateArchivePayloads
    PROVE  CatalogInv' /\ ScanInv'
  <1>1. CASE EndScan
    BY <1>1, EndStep
  <1>2. CASE ~EndScan
    <2>0. PICK s : s = current
      OBVIOUS
    <2> DEFINE a == ArchiveOf[s]
    <2>1. /\ pc = "payloads" /\ pc' = "plan"
          /\ UNCHANGED <<db, archive, expected, written, validated>>
          /\ guards' = [guards EXCEPT ![a].phase = "PayloadsValidated"]
          /\ plans' = [plans EXCEPT ![s] =
                         [change |-> "Unchanged", stat |-> guards[a].stat, man |-> guards[a].man]]
      BY <1>2, <2>0 DEF ValidateArchivePayloads, SetPlan, envVars, writeVars
    <2>2. /\ s \in expected.segs /\ s \in Segments /\ RequiresArchive(expected.content[s])
          /\ Reusable(s) /\ db.seg[s].man = guards[a].man
          /\ guards[a].phase \in {"ManifestRead", "PayloadsValidated"}
      BY <2>0, <2>1 DEF ScanInv, ExaminingInv, PayloadsInv, TypeOK
    <2>3. a \in Archives
      BY <2>2, ConstantsAssumption
    <2>4. /\ guards'[a].phase = "PayloadsValidated"
          /\ guards'[a].stat = guards[a].stat /\ guards'[a].man = guards[a].man
          /\ \A b \in Archives : b # a => guards'[b] = guards[b]
      BY <2>1, <2>3 DEF TypeOK, GuardType
    <2>5. GuardsAdvance
      BY <2>4 DEF GuardsAdvance
    <2>6. GuardInv'
      BY <2>1, <2>2, <2>3, <2>4 DEF ScanInv, GuardInv, Witnessed
    <2>7. /\ \A t \in Segments : t # s => plans'[t] = plans[t]
          /\ plans'[s].change = "Unchanged" /\ plans'[s].stat = guards[a].stat
          /\ plans'[s].man = guards[a].man
      BY <2>1, <2>2 DEF TypeOK
    <2>8. PlanOK(s)'
      BY <2>1, <2>2, <2>4, <2>7 DEF PlanOK, Reusable
    <2>9. PlanningInv'
      BY <2>1, <2>2, <2>5, <2>7, <2>8, PlanningStep
    <2>10. (~Idle => expected \in Sources)'
      BY <2>1 DEF ScanInv, Idle
    <2> QED
      BY <2>1, <2>6, <2>9, <2>10, CatalogFrame, PlanningFrame DEF ScanInv, ExaminingInv, PayloadsInv
  <1> QED
    BY <1>1, <1>2

\* What UpsertSegment stores for each kind of plan.
LEMMA UpsertedFields ==
    ASSUME NEW row, NEW plan, NEW s
    PROVE  LET r == UpsertedRow(row, plan, s)
           IN  /\ plan.change = "NoPlan" => r.state = row.state
               /\ plan.change = "Removed" => r.state = "MissingFromIndex"
               /\ plan.change \in {"Unchanged", "Added", "Changed"} =>
                     /\ r.state = "Available" /\ r.inp = expected.content[s]
                     /\ r.pos = expected.pos[s] /\ r.stat = plan.stat /\ r.man = plan.man
                     /\ plan.change = "Unchanged" => r.del = row.del
                     /\ plan.change # "Unchanged" => r.del = expected.content[s].del
  <1>1. CASE plan.change = "NoPlan"
    BY <1>1 DEF UpsertedRow
  <1>2. CASE plan.change = "Removed"
    BY <1>2 DEF UpsertedRow
  <1>3. CASE plan.change \in {"Unchanged", "Added", "Changed"}
    BY <1>3 DEF UpsertedRow
  <1> QED
    BY <1>1, <1>2, <1>3

\* The segments of the transaction are the ones of the snapshot, with the
\* markers a parse of them would give.
LEMMA BeginTransactionStep ==
    ASSUME TypeOK, CatalogInv, ScanInv, BeginTransaction
    PROVE  CatalogInv' /\ ScanInv'
  <1>1. /\ pc = "plan" /\ pc' = "index"
        /\ UNCHANGED <<db, archive, expected, guards, written, validated>>
        /\ \A s \in expected.segs : plans[s] # NoPlan
        /\ plans' = WithRemoved
        /\ txn' = UpsertSegments(db, plans')
        /\ processed' = ReadActiveIds(plans')
        /\ todo' = [s \in Segments |-> IF plans'[s].change \in {"Added", "Changed"}
                                         THEN Active(expected.content[s]) ELSE {}]
    BY DEF BeginTransaction, envVars
  <1>2. expected \in Sources /\ expected.segs \subseteq Segments
    BY <1>1, SourceFields DEF ScanInv, Idle
  <1>3. written' = {} /\ validated' = {}
    BY <1>1 DEF ScanInv, PlanningInv
  <1>4. /\ \A s \in expected.segs : plans'[s] = plans[s]
        /\ \A s \in Segments \ expected.segs :
              \/ plans'[s].change = "NoPlan" /\ db.seg[s].state = "NoRow"
              \/ plans'[s].change = "Removed"
    BY <1>1, <1>2 DEF WithRemoved, ScanInv, PlanningInv, NoPlan
  <1>5. GuardsAdvance /\ GuardInv'
    BY <1>1 DEF GuardsAdvance, ScanInv, GuardInv, Witnessed
  <1>6. \A s \in expected.segs : PlanOK(s) /\ PlanOK(s)'
    <2> SUFFICES ASSUME NEW s \in expected.segs PROVE PlanOK(s) /\ PlanOK(s)'
      OBVIOUS
    <2>1. PlanOK(s)
      BY <1>1 DEF ScanInv, PlanningInv
    <2> QED
      BY <1>1, <1>2, <1>4, <1>5, <2>1, PlanStays
  <1>7. \A s \in Segments : txn'.seg[s] = UpsertedRow(db.seg[s], plans'[s], s)
    BY <1>1 DEF UpsertSegments
  <1>8. ASSUME NEW s \in expected.segs
        PROVE  /\ txn'.seg[s].state = "Available" /\ txn'.seg[s].inp = expected.content[s]
               /\ txn'.seg[s].pos = expected.pos[s]
               /\ txn'.seg[s].stat = plans'[s].stat /\ txn'.seg[s].man = plans'[s].man
               /\ txn'.seg[s].del = expected.content[s].del
    <2>1. /\ plans[s].change \in {"Unchanged", "Added", "Changed"}
          /\ plans[s].change = "Unchanged" => db.seg[s].del = expected.content[s].del
      BY <1>2, <1>6 DEF PlanOK, Reusable, CatalogInv, MarkersComeFromSegments
    <2>2. plans'[s].change = plans[s].change
      BY <1>4
    <2> QED
      BY <1>2, <1>7, <2>1, <2>2, UpsertedFields
  <1>9. \A s \in Segments \ expected.segs : txn'.seg[s].state # "Available"
    BY <1>4, <1>7, UpsertedFields
  <1>10. TransactionInv'
    BY <1>1, <1>2, <1>4, <1>6, <1>8, <1>9
       DEF TransactionInv, SegmentsComeFromSource, MarkersComeFromSegments
  <1>11. IndexInv'
    <2>1. txn'.loc = db.loc
      BY <1>1 DEF UpsertSegments
    <2>2. ReadActiveIds(plans)' = processed'
      BY <1>1 DEF ReadActiveIds
    <2> QED
      BY <1>1, <1>2, <1>3, <2>1, <2>2 DEF IndexInv, Parsed
  <1>12. PayloadsGuarded'
    BY <1>3 DEF PayloadsGuarded
  <1>13. (~Idle => expected \in Sources)'
    BY <1>1, <1>2
  <1> QED
    BY <1>1, <1>5, <1>10, <1>11, <1>12, <1>13, CatalogFrame
       DEF ScanInv, RestInv, PlanningInv, ExaminingInv, PayloadsInv, ClosingInv

\* Opening an archive for indexing writes nothing.
LEMMA OpenArchiveStep ==
    ASSUME CatalogInv, ScanInv, NEW a \in Archives, OpenArchive(a)
    PROVE  CatalogInv' /\ ScanInv'
  <1>1. CASE EndScan
    BY <1>1, EndStep
  <1>2. CASE ~EndScan
    <2>1. /\ UNCHANGED <<db, txn, pc, mode, expected, plans, guards, current, archive>>
          /\ UNCHANGED <<todo, processed, written, validated>>
          /\ pc = "index"
      BY <1>2 DEF OpenArchive, envVars, planVars
    <2>2. GuardInv' /\ PayloadsGuarded'
      BY <2>1 DEF ScanInv, GuardInv, PayloadsGuarded, Witnessed
    <2>3. \A s : PlanOK(s) <=> PlanOK(s)'
      BY <2>1 DEF PlanOK, Reusable
    <2>4. TransactionInv'
      BY <2>1, <2>3 DEF ScanInv, TransactionInv, SegmentsComeFromSource, MarkersComeFromSegments
    <2>5. IndexInv'
      BY <2>1 DEF ScanInv, IndexInv, Parsed, ReadActiveIds
    <2>6. (~Idle => expected \in Sources)'
      BY <2>1 DEF ScanInv, Idle
    <2> QED
      BY <2>1, <2>2, <2>4, <2>5, <2>6, CatalogFrame
         DEF ScanInv, RestInv, PlanningInv, ExaminingInv, PayloadsInv, ClosingInv
  <1> QED
    BY <1>1, <1>2

\* The payload is the planned one, or the archive was replaced after its guard
\* was taken.
LEMMA IndexRecordStep ==
    ASSUME TypeOK, CatalogInv, ScanInv, NEW s \in Segments, NEW l \in LibIds, IndexRecord(s, l)
    PROVE  CatalogInv' /\ ScanInv'
  <1>1. CASE l \in processed
    BY <1>1, EndStep DEF IndexRecord
  <1>2. CASE l \notin processed
    <2>0. PICK man \in ReadableContents(reader) :
                 txn' = WriteParsedRecord(txn, s, l, expected.content[s].rec[l], man)
      BY <1>2 DEF IndexRecord
    <2> DEFINE row == [seg |-> s, present |-> TRUE, avail |-> TRUE,
                       rec |-> expected.content[s].rec[l], man |-> man]
    <2>1. /\ pc = "index" /\ pc' = "index" /\ l \in todo[s] /\ reader = ArchiveOf[s]
          /\ UNCHANGED <<db, archive, expected, plans, guards, validated>>
          /\ processed' = processed \cup {l} /\ written' = written \cup {l}
          /\ todo' = [todo EXCEPT ![s] = @ \ {l}]
      BY <1>2 DEF IndexRecord, envVars, planVars
    <2>2. txn.loc \in [LibIds -> BookRow] /\ written \subseteq LibIds /\ todo \in [Segments -> SUBSET LibIds]
      BY CatalogFields DEF TypeOK
    <2>3. txn'.seg = txn.seg /\ txn'.loc = [txn.loc EXCEPT ![l] = row]
      BY <2>0 DEF WriteParsedRecord, UpsertedBook
    <2>4. txn'.loc[l] = row /\ \A m \in LibIds : m # l => txn'.loc[m] = txn.loc[m]
      BY <2>2, <2>3
    <2>5. /\ row.seg = s /\ row.present /\ row.rec = expected.content[s].rec[l]
          /\ row.man = man
      BY <2>1
    <2> HIDE DEF row
    <2>6. IndexInv /\ TransactionInv
      BY DEF ScanInv
    <2>7. Parsed(s) /\ l \in Active(expected.content[s])
      BY <2>1, <2>6 DEF IndexInv
    <2>8. s \in expected.segs /\ PlanOK(s)
      BY <2>1, <2>6, <2>7 DEF TransactionInv, Parsed
    <2>9. l \notin written
      BY <1>2, <2>1, <2>6 DEF IndexInv
    <2>10. IndexInv'
      <3>1. validated' = {} /\ \A m \in LibIds \ written' : txn'.loc[m] = db'.loc[m]
        BY <2>1, <2>4, <2>6 DEF IndexInv
      <3>2. ASSUME NEW m \in written'
            PROVE  /\ m \in processed'
                   /\ ~(/\ db'.loc[m].present
                        /\ db'.loc[m].seg # NoSegment
                        /\ plans'[db'.loc[m].seg].change = "Unchanged")
                   /\ txn'.loc[m].seg \in expected'.segs
                   /\ Parsed(txn.loc[m].seg)'
                   /\ m \in Active(expected'.content[txn'.loc[m].seg])
                   /\ txn'.loc[m].present
                   /\ txn'.loc[m].rec = expected'.content[txn'.loc[m].seg].rec[m]
        <4>1. CASE m = l
          <5>1. l \notin ReadActiveIds(plans)
            BY <1>2, <2>1, <2>6 DEF IndexInv
          <5>2. ~(/\ db.loc[l].present
                  /\ db.loc[l].seg # NoSegment
                  /\ plans[db.loc[l].seg].change = "Unchanged")
            BY <5>1 DEF ReadActiveIds
          <5> QED
            BY <4>1, <5>2, <2>1, <2>4, <2>5, <2>7, <2>8 DEF Parsed
        <4>2. CASE m # l
          <5>1. m \in written /\ m \in LibIds
            BY <2>1, <2>2, <4>2
          <5>2. /\ m \in processed
                /\ ~(/\ db.loc[m].present
                     /\ db.loc[m].seg # NoSegment
                     /\ plans[db.loc[m].seg].change = "Unchanged")
                /\ txn.loc[m].seg \in expected.segs
                /\ Parsed(txn.loc[m].seg)
                /\ m \in Active(expected.content[txn.loc[m].seg])
                /\ txn.loc[m].present
                /\ txn.loc[m].rec = expected.content[txn.loc[m].seg].rec[m]
            BY <5>1, <2>1, <2>6 DEF IndexInv
          <5>3. /\ txn'.loc[m] = txn.loc[m] /\ m \in processed'
                /\ db' = db /\ plans' = plans /\ expected' = expected
            BY <5>1, <5>2, <4>2, <2>1, <2>4
          <5>4. Parsed(txn.loc[m].seg)'
            BY <5>2, <5>3 DEF Parsed
          <5> QED
            BY <5>2, <5>3, <5>4
        <4> QED
          BY <4>1, <4>2
      <3>3. ReadActiveIds(plans)' \subseteq processed'
        BY <2>1, <2>6 DEF IndexInv, ReadActiveIds
      <3>4. \A t \in Segments : todo'[t] # {} =>
              Parsed(t)' /\ todo'[t] \subseteq Active(expected'.content[t])
        BY <2>1, <2>2, <2>6 DEF IndexInv, Parsed
      <3>5. ASSUME NEW t \in expected'.segs, NEW m \in Active(expected'.content[t]), Parsed(t)'
            PROVE  m \in todo'[t] \/ (m \in written' /\ txn'.loc[m].seg = t)
        <4>1. m \in LibIds /\ t \in Segments
          BY <2>1, SourceFields DEF Active, TypeOK
        <4>2. m \in todo[t] \/ (m \in written /\ txn.loc[m].seg = t)
          BY <2>1, <2>6, <3>5 DEF IndexInv, Parsed
        <4>3. m # l \/ t # s \/ (m \in written' /\ txn'.loc[m].seg = t)
          BY <2>1, <2>4, <2>5
        <4> QED
          BY <4>1, <4>2, <4>3, <2>1, <2>2, <2>4, <2>9
      <3> QED
        BY <3>1, <3>2, <3>3, <3>4, <3>5 DEF IndexInv
    <2>11. TransactionInv'
      <3>1. \A t : PlanOK(t) <=> PlanOK(t)'
        BY <2>1 DEF PlanOK, Reusable
      <3> QED
        BY <2>1, <2>3, <2>6, <3>1 DEF TransactionInv, SegmentsComeFromSource, MarkersComeFromSegments
    <2>12. GuardInv'
      BY <2>1 DEF ScanInv, GuardInv, Witnessed
    <2>13. PayloadsGuarded'
      <3> DEFINE a == ArchiveOf[s]
      <3>1. \/ man = plans[s].man
            \/ guards[a].stat < archive[a].stat
        <4>1. a \in Archives /\ guards[a].stat \in Nat /\ archive[a].stat \in Nat
          BY ConstantsAssumption DEF TypeOK, GuardType
        <4>2. RequiresArchive(expected.content[s])
          BY <2>7 DEF RequiresArchive
        <4>3. /\ guards[a].phase \in {"ManifestRead", "PayloadsValidated"}
              /\ plans[s].man = guards[a].man
          BY <2>7, <2>8, <4>2 DEF PlanOK, Parsed
        <4>4. man \in {guards[a].man, archive[a].man}
          BY <2>0, <2>1 DEF ReadableContents
        <4> QED
          BY <4>1, <4>3, <4>4 DEF ScanInv, GuardInv, Witnessed
      <3>2. validated = {}
        BY <2>1, <2>6 DEF IndexInv
      <3> HIDE DEF a
      <3>3. ASSUME NEW m \in written'
            PROVE  \/ txn'.loc[m].man = plans[txn'.loc[m].seg].man
                   \/ guards[ArchiveOf[txn'.loc[m].seg]].stat < archive[ArchiveOf[txn'.loc[m].seg]].stat
        <4>1. CASE m = l
          BY <4>1, <2>4, <2>5, <3>1 DEF a
        <4>2. CASE m # l
          <5>1. m \in written /\ txn'.loc[m] = txn.loc[m]
            BY <2>1, <2>2, <2>4, <4>2
          <5> QED
            BY <5>1, <2>1 DEF ScanInv, PayloadsGuarded
        <4> QED
          BY <4>1, <4>2
      <3>4. validated' = {} /\ plans' = plans /\ guards' = guards /\ archive' = archive
        BY <2>1, <3>2
      <3> QED
        BY <3>3, <3>4 DEF PayloadsGuarded
    <2>14. (~Idle => expected \in Sources)'
      BY <2>1 DEF ScanInv, Idle
    <2> QED
      BY <2>1, <2>10, <2>11, <2>12, <2>13, <2>14, CatalogFrame
         DEF ScanInv, RestInv, PlanningInv, ExaminingInv, PayloadsInv, ClosingInv
  <1> QED
    BY <1>1, <1>2

\* A row that is left in an unchanged segment is the committed row, and rows
\* of parsed segments were all written: reconciling both gives the same.
LEMMA ReconcileStep ==
    ASSUME TypeOK, CatalogInv, ScanInv, Reconcile
    PROVE  CatalogInv' /\ ScanInv'
  <1>1. /\ pc = "index" /\ pc' = "validate" /\ todo = NothingToDo
        /\ txn' = Reconciled(txn)
        /\ UNCHANGED <<db, archive, expected, plans, guards, written, validated>>
    BY DEF Reconcile, envVars, planVars, writeVars
  <1>2. IndexInv /\ TransactionInv
    BY DEF ScanInv
  <1>3. expected \in Sources /\ expected.segs \subseteq Segments
    BY <1>1, SourceFields DEF ScanInv, Idle
  <1>4. txn \in CatalogType /\ written \subseteq LibIds
    BY DEF TypeOK
  <1>5. txn'.completed = TRUE /\ txn'.src = expected /\ txn'.seg = txn.seg
    BY <1>1, <1>4, ReconciledFields
  <1>6. ASSUME NEW l \in LibIds
        PROVE  /\ txn'.loc[l].seg = txn.loc[l].seg /\ txn'.loc[l].rec = txn.loc[l].rec
               /\ txn'.loc[l].man = txn.loc[l].man
               /\ txn'.loc[l].present <=>
                     txn.loc[l].present /\ ~(/\ txn.loc[l].seg # NoSegment
                                             /\ Parsed(txn.loc[l].seg) /\ l \notin written)
               /\ txn'.loc[l].avail <=>
                     IF txn'.loc[l].seg = NoSegment
                       THEN txn.loc[l].avail
                       ELSE /\ txn'.loc[l].present
                            /\ txn.seg[txn'.loc[l].seg].state = "Available"
                            /\ ~WithdrawnLater(txn.seg, txn'.loc, l)
    BY <1>1, <1>4, ReconciledRow
  <1>7. /\ \A s \in expected.segs : /\ txn.seg[s].state = "Available"
                                    /\ txn.seg[s].inp = expected.content[s]
                                    /\ PlanOK(s) /\ txn.seg[s].man = plans[s].man
        /\ \A s \in Segments : txn.seg[s].state = "Available" => s \in expected.segs
    BY <1>1, <1>2, <1>3 DEF TransactionInv, SegmentsComeFromSource
  <1>8. ASSUME NEW l \in LibIds, l \in written
        PROVE  /\ txn.loc[l].seg \in expected.segs
               /\ l \in Active(expected.content[txn.loc[l].seg])
               /\ txn.loc[l].present
               /\ txn.loc[l].rec = expected.content[txn.loc[l].seg].rec[l]
               /\ ~(/\ db.loc[l].present
                    /\ db.loc[l].seg # NoSegment
                    /\ plans[db.loc[l].seg].change = "Unchanged")
    BY <1>1, <1>2, <1>8 DEF IndexInv
  <1>9. \A l \in LibIds \ written : txn.loc[l] = db.loc[l]
    BY <1>1, <1>2 DEF IndexInv
  <1>10. ASSUME NEW l \in LibIds, InCurrentSegment(txn, l)'
         PROVE  LET s == txn'.loc[l].seg
                IN  /\ s \in expected.segs /\ l \in Active(expected.content[s])
                    /\ txn'.loc[l].rec = expected.content[s].rec[l]
                    /\ l \notin written => txn'.loc[l].man = txn.seg[s].man
    <2> DEFINE s == txn.loc[l].seg
    <2>1. s # NoSegment /\ txn'.loc[l].present /\ txn.seg[s].state = "Available"
      BY <1>5, <1>6, <1>10 DEF InCurrentSegment
    <2>2. s \in Segments /\ s \in expected.segs
      <3>1. s \in Segments
        BY <1>4, <2>1, CatalogFields DEF BookRow
      <3> QED
        BY <1>7, <2>1, <3>1
    <2>3. CASE l \in written
      BY <1>6, <1>8, <2>2, <2>3
    <2>4. CASE l \notin written
      <3>1. txn.loc[l] = db.loc[l] /\ txn.loc[l].present /\ ~Parsed(s)
        BY <1>6, <1>9, <2>1, <2>4
      <3>2. PlanOK(s) /\ plans[s].change = "Unchanged"
        BY <1>7, <2>2, <3>1 DEF PlanOK, Parsed
      <3>3. Reusable(s)
        BY <3>2 DEF PlanOK
      <3>4. InCurrentSegment(db, l)
        BY <2>1, <3>1, <3>3 DEF InCurrentSegment, Reusable
      <3>5. /\ l \in Active(expected.content[s]) /\ db.loc[l].rec = expected.content[s].rec[l]
            /\ db.loc[l].man = db.seg[s].man
        BY <3>1, <3>3, <3>4
           DEF CatalogInv, RowsComeFromSegments, PayloadsComeFromArchives, Reusable
      <3>6. plans[s].man = db.seg[s].man
        BY <3>2, <3>5 DEF PlanOK, RequiresArchive
      <3>7. /\ txn'.loc[l].seg = s /\ txn'.loc[l].rec = db.loc[l].rec
            /\ txn'.loc[l].man = db.loc[l].man
        BY <1>6, <3>1
      <3>8. txn.seg[s].man = plans[s].man
        BY <1>7, <2>2
      <3> QED
        BY <2>2, <3>5, <3>6, <3>7, <3>8
    <2> QED
      BY <2>3, <2>4
  <1>11. RowsComeFromSegments(txn)'
    BY <1>5, <1>7, <1>10 DEF RowsComeFromSegments
  <1>12. SegmentsHaveTheirRows(txn)'
    <2> SUFFICES ASSUME NEW s \in Segments, NEW l \in LibIds, txn.seg[s].state = "Available",
                        l \in Active(txn.seg[s].inp)
                 PROVE  txn'.loc[l].seg = s /\ txn'.loc[l].present
      BY <1>5 DEF SegmentsHaveTheirRows
    <2>1. s \in expected.segs /\ l \in Active(expected.content[s]) /\ PlanOK(s)
      BY <1>7
    <2>2. CASE Parsed(s)
      <3>1. l \in written /\ txn.loc[l].seg = s
        BY <1>1, <1>2, <2>1, <2>2 DEF IndexInv, NothingToDo
      <3>2. txn.loc[l].present
        BY <1>8, <3>1
      <3> QED
        BY <1>6, <3>1, <3>2
    <2>3. CASE ~Parsed(s)
      <3>1. plans[s].change = "Unchanged" /\ Reusable(s)
        BY <2>1, <2>3 DEF PlanOK, Parsed
      <3>2. db.loc[l].seg = s /\ db.loc[l].present
        BY <2>1, <3>1 DEF CatalogInv, SegmentsHaveTheirRows, Reusable
      <3>3. s # NoSegment
        BY ConstantsAssumption
      <3>4. l \notin written
        BY <1>8, <3>1, <3>2, <3>3
      <3>5. txn.loc[l] = db.loc[l]
        BY <1>9, <3>4
      <3> QED
        BY <1>6, <2>3, <3>2, <3>5
    <2> QED
      BY <2>2, <2>3
  <1>13. AvailabilityReconciled(txn)'
    <2> SUFFICES ASSUME NEW l \in LibIds
                 PROVE  txn'.loc[l].avail <=>
                           InCurrentSegment(txn, l)' /\ ~WithdrawnLater(txn.seg, txn'.loc, l)
      BY <1>5 DEF AvailabilityReconciled, WithdrawnLater
    <2>1. CASE txn.loc[l].seg = NoSegment
      <3>1. l \notin written
        BY <1>3, <1>8, <2>1, ConstantsAssumption
      <3>2. db.loc[l].seg = NoSegment /\ txn.loc[l].avail = db.loc[l].avail
        BY <1>9, <2>1, <3>1
      <3>3. ~db.loc[l].avail
        BY <3>2 DEF CatalogInv, AvailabilityReconciled, InCurrentSegment
      <3> QED
        BY <1>6, <2>1, <3>2, <3>3 DEF InCurrentSegment
    <2>2. CASE txn.loc[l].seg # NoSegment
      BY <1>5, <1>6, <2>2 DEF InCurrentSegment
    <2> QED
      BY <2>1, <2>2
  <1>14. ClosingInv'
    <2>1. \A l \in written : txn'.loc[l].seg \in expected.segs
      BY <1>4, <1>6, <1>8
    <2>2. \A l \in LibIds : InCurrentSegment(txn, l)' /\ l \notin written =>
              txn'.loc[l].man = txn'.seg[txn'.loc[l].seg].man
      BY <1>5, <1>10
    <2> QED
      BY <1>1, <1>5, <1>11, <1>12, <1>13, <2>1, <2>2 DEF ClosingInv
  <1>15. TransactionInv'
    <2>1. \A s : PlanOK(s) <=> PlanOK(s)'
      BY <1>1 DEF PlanOK, Reusable
    <2> QED
      BY <1>1, <1>2, <1>5, <2>1 DEF TransactionInv, SegmentsComeFromSource, MarkersComeFromSegments
  <1>16. PayloadsGuarded'
    <2> SUFFICES ASSUME NEW l \in written
                 PROVE  \/ txn'.loc[l].man = plans[txn'.loc[l].seg].man
                        \/ /\ ArchiveOf[txn'.loc[l].seg] \notin validated
                           /\ guards[ArchiveOf[txn'.loc[l].seg]].stat < archive[ArchiveOf[txn'.loc[l].seg]].stat
      BY <1>1 DEF PayloadsGuarded
    <2>1. txn'.loc[l].seg = txn.loc[l].seg /\ txn'.loc[l].man = txn.loc[l].man
      BY <1>4, <1>6
    <2> QED
      BY <1>1, <2>1 DEF ScanInv, PayloadsGuarded
  <1>17. GuardInv'
    BY <1>1 DEF ScanInv, GuardInv, Witnessed
  <1>18. (~Idle => expected \in Sources)'
    BY <1>1, <1>3
  <1> QED
    BY <1>1, <1>14, <1>15, <1>16, <1>17, <1>18, CatalogFrame
       DEF ScanInv, RestInv, PlanningInv, ExaminingInv, PayloadsInv, IndexInv

\* The closing checks change nothing but their own progress.
LEMMA ClosingFrame ==
    ASSUME ScanInv, pc = "validate", pc' \in {"validate", "commit"},
           UNCHANGED <<db, txn, archive, expected, plans, guards, written>>,
           pc' = "commit" => \A a \in Archives : guards[a].phase # "NoGuard" => a \in validated',
           PayloadsGuarded'
    PROVE  ScanInv'
  <1>1. GuardInv'
    BY DEF ScanInv, GuardInv, Witnessed
  <1>2. TransactionInv'
    <2>1. \A s : PlanOK(s) <=> PlanOK(s)'
      BY DEF PlanOK, Reusable
    <2> QED
      BY <2>1 DEF ScanInv, TransactionInv, SegmentsComeFromSource, MarkersComeFromSegments
  <1>3. ClosingInv'
    <2>1. ClosingInv
      BY DEF ScanInv
    <2>2. /\ RowsComeFromSegments(txn)' <=> RowsComeFromSegments(txn)
          /\ SegmentsHaveTheirRows(txn)' <=> SegmentsHaveTheirRows(txn)
          /\ AvailabilityReconciled(txn)' <=> AvailabilityReconciled(txn)
          /\ \A l \in LibIds : InCurrentSegment(txn, l)' <=> InCurrentSegment(txn, l)
      BY DEF RowsComeFromSegments, SegmentsHaveTheirRows, AvailabilityReconciled,
             InCurrentSegment, WithdrawnLater
    <2> QED
      BY <2>1, <2>2 DEF ClosingInv
  <1>4. (~Idle => expected \in Sources)'
    BY DEF ScanInv, Idle
  <1> QED
    BY <1>1, <1>2, <1>3, <1>4
       DEF ScanInv, RestInv, PlanningInv, ExaminingInv, PayloadsInv, IndexInv

\* An archive that passes its closing check was not replaced since its guard was taken.
LEMMA ValidateArchiveGuardStep ==
    ASSUME TypeOK, CatalogInv, ScanInv, NEW a \in Archives, ValidateArchiveGuard(a)
    PROVE  CatalogInv' /\ ScanInv'
  <1>1. CASE EndScan
    BY <1>1, EndStep
  <1>2. CASE ~EndScan
    <2>1. /\ pc = "validate" /\ pc' = "validate" /\ GuardHolds(a)
          /\ validated' = validated \cup {a}
          /\ UNCHANGED <<db, txn, archive, expected, plans, guards, written>>
      BY <1>2 DEF ValidateArchiveGuard, envVars, planVars
    <2>2. ~(guards[a].stat < archive[a].stat)
      BY <2>1 DEF GuardHolds, TypeOK, GuardType
    <2>3. PayloadsGuarded'
      <3> SUFFICES ASSUME NEW l \in written
                   PROVE  LET b == ArchiveOf[txn.loc[l].seg]
                          IN  \/ txn.loc[l].man = plans[txn.loc[l].seg].man
                              \/ b \notin validated' /\ guards[b].stat < archive[b].stat
        BY <2>1 DEF PayloadsGuarded
      <3>1. LET b == ArchiveOf[txn.loc[l].seg]
            IN  \/ txn.loc[l].man = plans[txn.loc[l].seg].man
                \/ b \notin validated /\ guards[b].stat < archive[b].stat
        BY <2>1 DEF ScanInv, PayloadsGuarded
      <3> QED
        BY <2>1, <2>2, <3>1
    <2> QED
      BY <2>1, <2>3, ClosingFrame, CatalogFrame
  <1> QED
    BY <1>1, <1>2

\* The INPX file is the expected one after every archive was checked.
LEMMA VerifySourceStep ==
    ASSUME CatalogInv, ScanInv, VerifySource
    PROVE  CatalogInv' /\ ScanInv'
  <1>1. CASE EndScan
    BY <1>1, EndStep
  <1>2. CASE ~EndScan
    <2>1. /\ pc = "validate" /\ pc' = "commit"
          /\ \A a \in Archives : guards[a].phase # "NoGuard" => a \in validated
          /\ UNCHANGED <<db, txn, archive, expected, plans, guards, written, validated>>
      BY <1>2 DEF VerifySource, envVars, planVars, writeVars
    <2>2. PayloadsGuarded'
      BY <2>1 DEF ScanInv, PayloadsGuarded
    <2> QED
      BY <2>1, <2>2, ClosingFrame, CatalogFrame
  <1> QED
    BY <1>1, <1>2

\* Every archive was validated after the last payload was read from it.
LEMMA CommitStep ==
    ASSUME TypeOK, CatalogInv, ScanInv, Commit
    PROVE  CatalogInv' /\ ScanInv'
  <1>1. pc = "commit" /\ db' = txn /\ archive' = archive /\ LeaveScan
    BY DEF Commit, envVars
  <1>2. ClosingInv /\ TransactionInv /\ PayloadsGuarded /\ GuardInv
    BY DEF ScanInv
  <1>3. /\ txn.src = expected
        /\ RowsComeFromSegments(txn) /\ SegmentsHaveTheirRows(txn) /\ AvailabilityReconciled(txn)
        /\ \A l \in LibIds : InCurrentSegment(txn, l) /\ l \notin written =>
              txn.loc[l].man = txn.seg[txn.loc[l].seg].man
        /\ \A l \in written : txn.loc[l].seg \in expected.segs
        /\ \A a \in Archives : guards[a].phase # "NoGuard" => a \in validated
    BY <1>1, <1>2 DEF ClosingInv
  <1>4. /\ \A s \in expected.segs : PlanOK(s)
        /\ SegmentsComeFromSource(txn, expected) /\ MarkersComeFromSegments(txn)
        /\ \A s \in expected.segs :
              txn.seg[s].stat = plans[s].stat /\ txn.seg[s].man = plans[s].man
    BY <1>1, <1>2 DEF TransactionInv
  <1>5. expected.segs \subseteq Segments
    BY SourceFields DEF TypeOK
  <1>6. PayloadsComeFromArchives(txn)
    <2> SUFFICES ASSUME NEW l \in LibIds, InCurrentSegment(txn, l), l \in written
                 PROVE  txn.loc[l].man = txn.seg[txn.loc[l].seg].man
      BY <1>3 DEF PayloadsComeFromArchives
    <2> DEFINE s == txn.loc[l].seg
               a == ArchiveOf[s]
    <2>1. s \in expected.segs /\ a \in Archives
      BY <1>3, <1>5, ConstantsAssumption
    <2>2. RequiresArchive(expected.content[s])
      BY <1>3, <1>4, <1>5, <2>1 DEF RowsComeFromSegments, SegmentsComeFromSource, RequiresArchive
    <2>3. a \in validated
      BY <1>3, <1>4, <2>1, <2>2 DEF PlanOK
    <2>4. txn.loc[l].man = plans[s].man
      BY <1>1, <1>2, <2>3 DEF PayloadsGuarded
    <2> QED
      BY <1>4, <2>1, <2>4
  <1>7. ArchivesWitnessed(txn)
    <2> SUFFICES ASSUME NEW s \in Segments, txn.seg[s].state = "Available",
                        RequiresArchive(txn.seg[s].inp)
                 PROVE  Witnessed(ArchiveOf[s], txn.seg[s].stat, txn.seg[s].man)
      BY DEF ArchivesWitnessed
    <2> DEFINE a == ArchiveOf[s]
    <2>1. s \in expected.segs /\ txn.seg[s].inp = expected.content[s] /\ a \in Archives
      BY <1>4, ConstantsAssumption DEF SegmentsComeFromSource
    <2>2. /\ plans[s].stat = guards[a].stat
          /\ plans[s].change = "Unchanged" => plans[s].man = db.seg[s].man /\ Reusable(s)
          /\ \/ /\ guards[a].phase \in {"ManifestRead", "PayloadsValidated"}
                /\ plans[s].man = guards[a].man
             \/ plans[s].change = "Unchanged" /\ plans[s].stat = db.seg[s].stat
      BY <1>4, <2>1 DEF PlanOK
    <2>3. CASE guards[a].phase \in {"ManifestRead", "PayloadsValidated"} /\ plans[s].man = guards[a].man
      BY <1>2, <1>4, <2>1, <2>2, <2>3 DEF GuardInv
    <2>4. CASE plans[s].change = "Unchanged" /\ plans[s].stat = db.seg[s].stat
      <3>1. Witnessed(a, db.seg[s].stat, db.seg[s].man)
        BY <2>1, <2>2, <2>4 DEF CatalogInv, ArchivesWitnessed, Reusable
      <3> QED
        BY <1>4, <2>1, <2>2, <2>4, <3>1
    <2> QED
      BY <2>2, <2>3, <2>4
  <1>8. CatalogInv'
    <2>1. /\ RowsComeFromSegments(db)' /\ PayloadsComeFromArchives(db)'
          /\ SegmentsHaveTheirRows(db)' /\ MarkersComeFromSegments(db)'
      BY <1>1, <1>3, <1>4, <1>6
         DEF RowsComeFromSegments, PayloadsComeFromArchives, SegmentsHaveTheirRows,
             MarkersComeFromSegments, InCurrentSegment
    <2>2. AvailabilityReconciled(db)'
      BY <1>1, <1>3 DEF AvailabilityReconciled, InCurrentSegment, WithdrawnLater
    <2>3. SegmentsComeFromSource(db, db.src)'
      BY <1>1, <1>3, <1>4 DEF SegmentsComeFromSource
    <2>4. ArchivesWitnessed(db)'
      BY <1>1, <1>7 DEF ArchivesWitnessed, Witnessed
    <2> QED
      BY <2>1, <2>2, <2>3, <2>4 DEF CatalogInv
  <1> QED
    BY <1>1, <1>8, LeaveStep

\* Every step keeps the invariant.
LEMMA InvStep == TypeOK /\ CatalogInv /\ ScanInv /\ [Next]_vars => CatalogInv' /\ ScanInv'
  <1> SUFFICES ASSUME TypeOK, CatalogInv, ScanInv, [Next]_vars PROVE CatalogInv' /\ ScanInv'
    OBVIOUS
  <1>1. CASE UNCHANGED vars
    <2>1. UNCHANGED <<db, txn, pc, planVars, writeVars>> /\ UNCHANGED archive
      BY <1>1 DEF vars, planVars, writeVars
    <2>2. GuardInv' /\ PayloadsGuarded'
      BY <2>1 DEF ScanInv, GuardInv, PayloadsGuarded, Witnessed, planVars, writeVars
    <2> QED
      BY <2>1, <2>2, ScanFrame, CatalogFrame DEF ScanInv
  <1>2. CASE AbandonScan
    BY <1>2, EndStep DEF AbandonScan
  <1> QED
    BY <1>1, <1>2, ReplaceSourceStep, ReplaceArchiveStep, StartScanStep, CopySnapshotStep,
       PlanWithoutArchiveStep, ReadArchiveStateStep, ReadArchiveManifestStep,
       ValidateArchivePayloadsStep, BeginTransactionStep, OpenArchiveStep, IndexRecordStep,
       ReconcileStep, ValidateArchiveGuardStep, VerifySourceStep, CommitStep
       DEF Next, ScanStep

\* The inductive invariant holds in every reachable state.
THEOREM Invariance == Spec => []IInv
  <1>1. Init => IInv
    BY TypeInit, InvInit DEF IInv
  <1>2. IInv /\ [Next]_vars => IInv'
    BY TypeStep, InvStep DEF IInv
  <1> QED
    BY <1>1, <1>2, PTL DEF Spec

-----------------------------------------------------------------------------
(* What the invariant gives                                                *)

\* Skipped segments reconcile identically to parsed ones: after any history of
\* scans the published catalog is the one a scan from scratch would publish.
THEOREM CatalogIsAlwaysFullScan == Spec => []CatalogIsFullScan
  <1>1. IInv => CatalogIsFullScan
    <2> SUFFICES ASSUME IInv, NEW l \in LibIds
                 PROVE  /\ db.loc[l].avail <=> \E s \in Segments : Listed(db.src, s, l)
                        /\ \A s \in Segments : Listed(db.src, s, l) =>
                              /\ db.loc[l].seg = s
                              /\ db.loc[l].rec = db.src.content[s].rec[l]
      BY DEF CatalogIsFullScan
    <2>1. db.loc[l] \in BookRow /\ db.src \in SourceType
      BY CatalogFields DEF IInv, TypeOK
    <2>2. /\ SegmentsComeFromSource(db, db.src) /\ MarkersComeFromSegments(db)
          /\ RowsComeFromSegments(db) /\ SegmentsHaveTheirRows(db) /\ AvailabilityReconciled(db)
      BY DEF IInv, CatalogInv
    <2>3. ASSUME NEW s \in Segments, s \in db.src.segs, db.loc[l].seg = s
          PROVE  WithdrawnLater(db.seg, db.loc, l) <=>
                    \E t \in db.src.segs : l \in db.src.content[t].del /\ db.src.pos[t] > db.src.pos[s]
      BY <2>1, <2>2, <2>3
         DEF WithdrawnLater, SegmentsComeFromSource, MarkersComeFromSegments, SourceType
    <2>4. \A s, t \in db.src.segs : (db.src.pos[t] <= db.src.pos[s]) <=> ~(db.src.pos[t] > db.src.pos[s])
      BY <2>1 DEF SourceType
    <2>5. ASSUME NEW s \in Segments, Listed(db.src, s, l)
          PROVE  /\ db.loc[l].seg = s /\ db.loc[l].avail
                 /\ db.loc[l].rec = db.src.content[s].rec[l]
      <3>1. s \in db.src.segs /\ l \in Active(db.src.content[s]) /\ s # NoSegment
        BY <2>5, ConstantsAssumption DEF Listed
      <3>2. db.seg[s].state = "Available" /\ db.seg[s].inp = db.src.content[s]
        BY <2>2, <3>1 DEF SegmentsComeFromSource
      <3>3. db.loc[l].seg = s /\ db.loc[l].present
        BY <2>2, <3>1, <3>2 DEF SegmentsHaveTheirRows
      <3>4. InCurrentSegment(db, l)
        BY <3>1, <3>2, <3>3 DEF InCurrentSegment
      <3>5. ~WithdrawnLater(db.seg, db.loc, l)
        BY <2>3, <2>4, <2>5, <3>1, <3>3 DEF Listed
      <3>6. db.loc[l].rec = db.src.content[s].rec[l]
        BY <2>2, <3>2, <3>3, <3>4 DEF RowsComeFromSegments
      <3>7. db.loc[l].avail
        BY <2>2, <3>4, <3>5 DEF AvailabilityReconciled
      <3> QED
        BY <3>3, <3>6, <3>7
    <2>6. ASSUME db.loc[l].avail PROVE Listed(db.src, db.loc[l].seg, l) /\ db.loc[l].seg \in Segments
      <3> DEFINE s == db.loc[l].seg
      <3>1. InCurrentSegment(db, l) /\ ~WithdrawnLater(db.seg, db.loc, l)
        BY <2>2, <2>6 DEF AvailabilityReconciled
      <3>2. s \in Segments /\ s # NoSegment /\ db.seg[s].state = "Available"
        BY <2>1, <3>1 DEF InCurrentSegment, BookRow
      <3>3. s \in db.src.segs /\ db.seg[s].inp = db.src.content[s]
        BY <2>2, <3>2 DEF SegmentsComeFromSource
      <3>4. l \in Active(db.src.content[s])
        BY <2>2, <3>1, <3>3 DEF RowsComeFromSegments
      <3> QED
        BY <2>3, <2>4, <3>1, <3>2, <3>3, <3>4 DEF Listed
    <2> QED
      BY <2>5, <2>6
  <1> QED
    BY <1>1, Invariance, PTL

\* A published payload comes from the archive content the segment names, also
\* when the archive is replaced while the scan plans, reads or validates it.
THEOREM PayloadsAlwaysAdmitted == Spec => []PublishedPayloadsAdmitted
  <1>1. IInv => PublishedPayloadsAdmitted
    <2> SUFFICES ASSUME IInv, NEW l \in LibIds, db.loc[l].avail
                 PROVE  /\ db.loc[l].man = db.seg[db.loc[l].seg].man
                        /\ archive[ArchiveOf[db.loc[l].seg]].stat = db.seg[db.loc[l].seg].stat =>
                              archive[ArchiveOf[db.loc[l].seg]].man = db.loc[l].man
      BY DEF PublishedPayloadsAdmitted
    <2> DEFINE s == db.loc[l].seg
    <2>1. InCurrentSegment(db, l)
      BY DEF IInv, CatalogInv, AvailabilityReconciled
    <2>2. s \in Segments /\ db.seg[s].state = "Available"
      BY <2>1, CatalogFields DEF IInv, TypeOK, InCurrentSegment, BookRow
    <2>3. RequiresArchive(db.seg[s].inp) /\ db.loc[l].man = db.seg[s].man
      BY <2>1 DEF IInv, CatalogInv, RowsComeFromSegments, PayloadsComeFromArchives, RequiresArchive
    <2>4. Witnessed(ArchiveOf[s], db.seg[s].stat, db.seg[s].man)
      BY <2>2, <2>3 DEF IInv, CatalogInv, ArchivesWitnessed
    <2> QED
      BY <2>3, <2>4 DEF Witnessed
  <1> QED
    BY <1>1, Invariance, PTL

-----------------------------------------------------------------------------
(* The statistics and the publication                                      *)

\* The rows that catalog_statistics counts, and those of them it counts as unavailable.
Rows(d)        == {l \in LibIds : d.loc[l].seg # NoSegment}
Unavailable(d) == {l \in LibIds : d.loc[l].seg # NoSegment /\ ~d.loc[l].avail}

Counted(d) ==
    /\ d.books = Cardinality(Rows(d))
    /\ d.unavailable = Cardinality(Unavailable(d))

\* StatisticsExact speaks of the published catalog only; the increments are made in the
\* transaction, which must be exact after every one of them and must keep every row.
StatisticsInv ==
    /\ Counted(db)
    /\ pc \in {"index", "validate", "commit"} => Counted(txn) /\ Rows(db) \subseteq Rows(txn)
    /\ pc = "commit" => txn.src = expected

\* The counted rows are finitely many.
LEMMA RowsFinite ==
    ASSUME NEW d
    PROVE  /\ IsFiniteSet(Rows(d)) /\ Cardinality(Rows(d)) \in Nat
           /\ IsFiniteSet(Unavailable(d)) /\ Cardinality(Unavailable(d)) \in Nat
  <1>1. Rows(d) \in SUBSET LibIds /\ Unavailable(d) \in SUBSET LibIds
    BY DEF Rows, Unavailable
  <1> QED
    BY <1>1, FS_Subset, FS_CardinalityType, ConstantsAssumption

\* A written row is counted once, and no longer as unavailable.
LEMMA WriteCounted ==
    ASSUME NEW d \in CatalogType, NEW s \in Segments, NEW l \in LibIds, NEW text, NEW man,
           Counted(d)
    PROVE  LET w == WriteParsedRecord(d, s, l, text, man)
           IN  Counted(w) /\ Rows(w) = Rows(d) \cup {l}
  <1> DEFINE w == WriteParsedRecord(d, s, l, text, man)
  <1>1. d.loc \in [LibIds -> BookRow]
    BY CatalogFields
  <1>2. /\ w.loc[l].seg = s /\ w.loc[l].avail
        /\ \A k \in LibIds \ {l} : w.loc[k] = d.loc[k]
        /\ w.books = IF l \in Rows(d) THEN d.books ELSE d.books + 1
        /\ w.unavailable = IF l \in Unavailable(d) THEN d.unavailable - 1 ELSE d.unavailable
    BY <1>1 DEF WriteParsedRecord, UpsertedBook, Rows, Unavailable
  <1> HIDE DEF w
  <1>3. Rows(w) = Rows(d) \cup {l}
    BY <1>2, ConstantsAssumption DEF Rows
  <1>4. Unavailable(w) = Unavailable(d) \ {l}
    BY <1>2 DEF Unavailable
  <1>5. w.books = Cardinality(Rows(w))
    <2>1. IsFiniteSet(Rows(d))
      BY RowsFinite
    <2>2. Cardinality(Rows(w)) =
             IF l \in Rows(d) THEN Cardinality(Rows(d)) ELSE Cardinality(Rows(d)) + 1
      BY <1>3, <2>1, FS_AddElement
    <2> QED
      BY <1>2, <2>2 DEF Counted
  <1>6. w.unavailable = Cardinality(Unavailable(w))
    <2>1. IsFiniteSet(Unavailable(d))
      BY RowsFinite
    <2>2. Cardinality(Unavailable(w)) =
             IF l \in Unavailable(d) THEN Cardinality(Unavailable(d)) - 1
                                     ELSE Cardinality(Unavailable(d))
      BY <1>4, <2>1, FS_RemoveElement
    <2> QED
      BY <1>2, <2>2 DEF Counted
  <1> QED
    BY <1>3, <1>5, <1>6 DEF Counted, w

\* The cardinality of a union of disjoint sets.
LEMMA DisjointUnion ==
    ASSUME NEW S, NEW T, IsFiniteSet(S), IsFiniteSet(T), T \cap S = {}
    PROVE  Cardinality(S \cup T) = Cardinality(S) + Cardinality(T)
  <1>1. Cardinality(S \cap T) = 0
    <2>1. S \cap T = {}
      OBVIOUS
    <2> QED
      BY <2>1, FS_EmptySet
  <1>2. Cardinality(S \cup T) = Cardinality(S) + Cardinality(T) - Cardinality(S \cap T)
    BY FS_Union
  <1>3. Cardinality(S) \in Nat /\ Cardinality(T) \in Nat
    BY FS_CardinalityType
  <1> QED
    BY <1>1, <1>2, <1>3

\* Finish keeps the rows; what it adds to the count of the unavailable ones are rows that were
\* available, what it takes from it are rows that are unavailable then.
LEMMA ReconcileCounted ==
    ASSUME NEW d \in CatalogType, Counted(d)
    PROVE  Counted(Reconciled(d)) /\ Rows(Reconciled(d)) = Rows(d)
  <1> DEFINE r        == Reconciled(d)
             seen     == ClearUnseen(d.loc)
             marked   == MarkedUnavailable(d.seg, seen)
             hidden   == SetAvailability(seen, marked, FALSE)
             restored == RestoredAvailable(d.seg, hidden)
  <1>1. \A l \in LibIds : seen[l].seg = d.loc[l].seg /\ seen[l].avail = d.loc[l].avail
                          /\ seen[l] \in BookRow
    <2>1. ASSUME NEW l \in LibIds
          PROVE  /\ seen[l].seg = d.loc[l].seg /\ seen[l].avail = d.loc[l].avail
                 /\ seen[l] \in BookRow
      <3>1. d.loc[l] \in BookRow
        BY CatalogFields
      <3> QED
        BY <3>1 DEF ClearUnseen, BookRow
    <2> HIDE DEF seen
    <2> QED
      BY <2>1
  <1>2. /\ r.loc = SetAvailability(hidden, restored, TRUE) /\ r.books = d.books
        /\ r.unavailable = d.unavailable + Cardinality(marked) - Cardinality(restored)
    BY DEF Reconciled
  <1> HIDE DEF seen, r
  <1>3. marked \subseteq {l \in LibIds : seen[l].seg # NoSegment /\ seen[l].avail}
    BY DEF MarkedUnavailable
  <1> HIDE DEF marked
  <1>4. \A l \in LibIds : /\ hidden[l].seg = seen[l].seg /\ hidden[l] \in BookRow
                          /\ hidden[l].avail <=> seen[l].avail /\ l \notin marked
    BY <1>1 DEF SetAvailability, BookRow
  <1> HIDE DEF hidden
  <1>5. restored \subseteq {l \in LibIds : hidden[l].seg # NoSegment /\ ~hidden[l].avail}
    BY DEF RestoredAvailable
  <1> HIDE DEF restored
  <1>6. \A l \in LibIds : /\ r.loc[l].seg = hidden[l].seg
                          /\ r.loc[l].avail <=> hidden[l].avail \/ l \in restored
    BY <1>2, <1>4 DEF SetAvailability, BookRow
  <1>7. Rows(r) = Rows(d)
    BY <1>1, <1>4, <1>6 DEF Rows
  <1>8. /\ marked \cap Unavailable(d) = {}
        /\ restored \cap Unavailable(r) = {}
        /\ Unavailable(d) \cup marked = Unavailable(r) \cup restored
    <2>1. \A l \in LibIds : l \in Unavailable(d) <=> seen[l].seg # NoSegment /\ ~seen[l].avail
      BY <1>1 DEF Unavailable
    <2>2. \A l \in LibIds : l \in Unavailable(d) \/ l \in marked
                              <=> hidden[l].seg # NoSegment /\ ~hidden[l].avail
      BY <1>3, <1>4, <2>1
    <2>3. \A l \in LibIds : l \in Unavailable(r)
                              <=> hidden[l].seg # NoSegment /\ ~hidden[l].avail /\ l \notin restored
      BY <1>6 DEF Unavailable
    <2>4. Unavailable(d) \subseteq LibIds /\ Unavailable(r) \subseteq LibIds
      BY DEF Unavailable
    <2> QED
      BY <1>3, <1>5, <2>1, <2>2, <2>3, <2>4
  <1>9. /\ IsFiniteSet(marked) /\ Cardinality(marked) \in Nat
        /\ IsFiniteSet(restored) /\ Cardinality(restored) \in Nat
    <2>1. marked \in SUBSET LibIds /\ restored \in SUBSET LibIds
      BY <1>3, <1>5
    <2> QED
      BY <2>1, FS_Subset, FS_CardinalityType, ConstantsAssumption
  <1>10. Cardinality(Unavailable(d) \cup marked)
           = Cardinality(Unavailable(d)) + Cardinality(marked)
    BY <1>8, <1>9, RowsFinite, DisjointUnion
  <1>11. Cardinality(Unavailable(r) \cup restored)
           = Cardinality(Unavailable(r)) + Cardinality(restored)
    BY <1>8, <1>9, RowsFinite, DisjointUnion
  <1>12. r.unavailable = Cardinality(Unavailable(r))
    <2>1. /\ Cardinality(Unavailable(d)) \in Nat /\ Cardinality(Unavailable(r)) \in Nat
          /\ d.unavailable = Cardinality(Unavailable(d))
      BY RowsFinite DEF Counted
    <2>2. Cardinality(Unavailable(d)) + Cardinality(marked)
            = Cardinality(Unavailable(r)) + Cardinality(restored)
      BY <1>8, <1>10, <1>11
    <2> QED
      BY <1>2, <1>9, <2>1, <2>2
  <1>13. r.books = Cardinality(Rows(r))
    BY <1>2, <1>7 DEF Counted
  <1> QED
    BY <1>7, <1>12, <1>13 DEF Counted, r

\* The empty catalog is counted right.
LEMMA StatisticsInit == Init => StatisticsInv
  <1> SUFFICES ASSUME Init PROVE StatisticsInv
    OBVIOUS
  <1>1. Rows(db) = {} /\ Unavailable(db) = {} /\ db.books = 0 /\ db.unavailable = 0
    BY DEF Init, EmptyCatalog, Rows, Unavailable
  <1> QED
    BY <1>1, FS_EmptySet DEF Init, StatisticsInv, Counted

\* Every increment follows the rows it is made for.
LEMMA StatisticsStep == IInv /\ StatisticsInv /\ [Next]_vars => StatisticsInv'
  <1> SUFFICES ASSUME IInv, StatisticsInv, [Next]_vars PROVE StatisticsInv'
    OBVIOUS
  <1> USE DEF StatisticsInv
  <1>1. db \in CatalogType /\ txn \in CatalogType
    BY DEF IInv, TypeOK
  <1>2. UNCHANGED <<db, txn, pc, expected>> => StatisticsInv'
    BY DEF Counted, Rows, Unavailable
  <1>3. UNCHANGED db /\ pc' \notin {"index", "validate", "commit"} => StatisticsInv'
    BY DEF Counted, Rows, Unavailable
  <1>4. EndScan => StatisticsInv'
    BY <1>3 DEF EndScan, LeaveScan
  <1>5. CASE BeginTransaction
    <2>1. /\ UNCHANGED db /\ pc' = "index"
          /\ txn'.loc = db.loc /\ txn'.books = db.books /\ txn'.unavailable = db.unavailable
      BY <1>5 DEF BeginTransaction, UpsertSegments
    <2> QED
      BY <2>1 DEF Counted, Rows, Unavailable
  <1>6. ASSUME NEW s \in Segments, NEW l \in LibIds, IndexRecord(s, l) PROVE StatisticsInv'
    <2>1. CASE EndScan
      BY <1>4, <2>1
    <2>2. CASE ~EndScan
      <3>1. /\ UNCHANGED <<db, pc, expected>> /\ pc = "index"
            /\ \E man : txn' = WriteParsedRecord(txn, s, l, expected.content[s].rec[l], man)
        BY <1>6, <2>2 DEF IndexRecord, planVars
      <3>2. Counted(txn)' /\ Rows(txn)' = Rows(txn) \cup {l}
        BY <1>1, <3>1, WriteCounted
      <3>3. Counted(db)' /\ Rows(db)' = Rows(db)
        BY <3>1 DEF Counted, Rows, Unavailable
      <3> QED
        BY <3>1, <3>2, <3>3
    <2> QED
      BY <2>1, <2>2
  <1>7. CASE Reconcile
    <2>1. /\ UNCHANGED <<db, expected>> /\ pc = "index" /\ pc' = "validate"
          /\ txn' = Reconciled(txn)
      BY <1>7 DEF Reconcile, planVars
    <2>2. Counted(txn)' /\ Rows(txn)' = Rows(txn)
      BY <1>1, <2>1, ReconcileCounted
    <2>3. Counted(db)' /\ Rows(db)' = Rows(db)
      BY <2>1 DEF Counted, Rows, Unavailable
    <2> QED
      BY <2>1, <2>2, <2>3
  <1>8. CASE Commit
    BY <1>8 DEF Commit, LeaveScan, Counted, Rows, Unavailable
  <1>9. CASE VerifySource
    <2>1. CASE EndScan
      BY <1>4, <2>1
    <2>2. CASE ~EndScan
      <3>1. UNCHANGED <<db, txn, expected>> /\ pc = "validate" /\ pc' = "commit"
        BY <1>9, <2>2 DEF VerifySource, planVars
      <3>2. txn.src = expected
        BY <3>1 DEF IInv, ScanInv, ClosingInv
      <3> QED
        BY <3>1, <3>2 DEF Counted, Rows, Unavailable
    <2> QED
      BY <2>1, <2>2
  <1>10. CASE ReplaceSource \/ ReplaceArchive \/ UNCHANGED vars
    BY <1>2, <1>10 DEF ReplaceSource, ReplaceArchive, planVars, vars
  <1>11. CASE StartScan \/ CopySnapshot
    BY <1>3, <1>4, <1>11 DEF StartScan, CopySnapshot
  <1>12. ASSUME NEW s \in Segments, PlanWithoutArchive(s) \/ ReadArchiveState(s)
         PROVE  StatisticsInv'
    BY <1>2, <1>3, <1>12 DEF PlanWithoutArchive, ReadArchiveState, NextToPlan
  <1>13. CASE ReadArchiveManifest \/ ValidateArchivePayloads
    BY <1>3, <1>4, <1>13 DEF ReadArchiveManifest, ValidateArchivePayloads
  <1>14. ASSUME NEW a \in Archives, OpenArchive(a) \/ ValidateArchiveGuard(a)
         PROVE  StatisticsInv'
    BY <1>2, <1>4, <1>14 DEF OpenArchive, ValidateArchiveGuard, planVars
  <1>15. CASE AbandonScan
    BY <1>4, <1>15 DEF AbandonScan
  <1> QED
    BY <1>5, <1>6, <1>7, <1>8, <1>9, <1>10, <1>11, <1>12, <1>13, <1>14, <1>15
    DEF Next, ScanStep

\* The counters are exact in the transaction too.
LEMMA StatisticsInvariance == Spec => []StatisticsInv
  BY StatisticsInit, StatisticsStep, Invariance, PTL DEF Spec

\* The counters of catalog_statistics, which are never recounted, agree with the rows of the
\* published catalog after any history of scans.
THEOREM StatisticsAlwaysExact == Spec => []StatisticsExact
  <1>1. StatisticsInv => StatisticsExact
    BY DEF StatisticsInv, StatisticsExact, Counted, Rows, Unavailable
  <1> QED
    BY <1>1, StatisticsInvariance, PTL

-----------------------------------------------------------------------------
(* The abstract specification                                              *)

\* Members of the shelf and of the listing of an INPX file.
LEMMA ShelfMembers ==
    ASSUME NEW d
    PROVE  \A b : b \in Shelf(d) <=>
              \E l \in LibIds : d.loc[l].avail /\ b = BookOf(l, d.loc[l].seg, d.loc[l].rec)
  BY DEF Shelf

LEMMA ListedMembers ==
    ASSUME NEW f
    PROVE  \A b : b \in ListedBooks(f) <=>
              \E s \in Segments, l \in LibIds :
                  Listed(f, s, l) /\ b = BookOf(l, s, f.content[s].rec[l])
  <1> SUFFICES ASSUME NEW b
               PROVE  b \in ListedBooks(f) <=>
                        \E s \in Segments, l \in LibIds :
                            Listed(f, s, l) /\ b = BookOf(l, s, f.content[s].rec[l])
    OBVIOUS
  <1>1. ASSUME b \in ListedBooks(f)
        PROVE  \E s \in Segments, l \in LibIds :
                  Listed(f, s, l) /\ b = BookOf(l, s, f.content[s].rec[l])
    BY <1>1 DEF ListedBooks
  <1>2. ASSUME NEW s \in Segments, NEW l \in LibIds,
               Listed(f, s, l), b = BookOf(l, s, f.content[s].rec[l])
        PROVE  b \in ListedBooks(f)
    <2>1. <<s, l>> \in {q \in Segments \X LibIds : Listed(f, q[1], q[2])}
      BY <1>2
    <2>2. b = BookOf(<<s, l>>[2], <<s, l>>[1], f.content[<<s, l>>[1]].rec[<<s, l>>[2]])
      BY <1>2
    <2> QED
      BY <2>1, <2>2 DEF ListedBooks
  <1> QED
    BY <1>1, <1>2

\* Cardinality means the same in the abstract module.
LEMMA PublicationCount == \A S : Publication!Cardinality(S) = Cardinality(S)
  BY DEF Publication!Cardinality, Cardinality

\* A catalog that is a full scan of its source has that source's books on its
\* shelf, none of them twice, and its counters give their number.
LEMMA FullScanShelf ==
    ASSUME NEW d, Counted(d),
           \A l \in LibIds :
              /\ d.loc[l].avail <=> \E s \in Segments : Listed(d.src, s, l)
              /\ \A s \in Segments : Listed(d.src, s, l) =>
                     /\ d.loc[l].seg = s
                     /\ d.loc[l].rec = d.src.content[s].rec[l]
    PROVE  /\ Shelf(d) = ListedBooks(d.src)
           /\ \A b, c \in ListedBooks(d.src) : b.lib = c.lib => b = c
           /\ d.books - d.unavailable = Cardinality({b.lib : b \in ListedBooks(d.src)})
  <1> DEFINE On == {l \in LibIds : d.loc[l].avail}
  <1>1. \A b : b \in Shelf(d) <=> b \in ListedBooks(d.src)
    BY ShelfMembers, ListedMembers
  <1>2. Shelf(d) = ListedBooks(d.src)
    BY <1>1
  <1>3. \A b, c \in Shelf(d) : b.lib = c.lib => b = c
    BY ShelfMembers DEF BookOf
  <1>4. {b.lib : b \in Shelf(d)} = On
    <2>1. \A b \in Shelf(d) : b.lib \in On
      BY ShelfMembers DEF BookOf
    <2>2. ASSUME NEW l \in On PROVE \E b \in Shelf(d) : b.lib = l
      <3>1. BookOf(l, d.loc[l].seg, d.loc[l].rec) \in Shelf(d)
        BY ShelfMembers
      <3>2. BookOf(l, d.loc[l].seg, d.loc[l].rec).lib = l
        BY DEF BookOf
      <3> QED
        BY <3>1, <3>2
    <2> HIDE DEF On
    <2> QED
      BY <2>1, <2>2
  <1>5. d.books - d.unavailable = Cardinality(On)
    <2>1. \A l \in LibIds : d.loc[l].avail => d.loc[l].seg # NoSegment
      BY ConstantsAssumption
    <2>2. Rows(d) = On \cup Unavailable(d) /\ Unavailable(d) \cap On = {}
      BY <2>1 DEF Rows, Unavailable
    <2>3. On \subseteq LibIds /\ Unavailable(d) \subseteq LibIds
      BY DEF Unavailable
    <2> HIDE DEF On
    <2>4. IsFiniteSet(On) /\ IsFiniteSet(Unavailable(d))
      BY <2>3, FS_Subset, ConstantsAssumption
    <2>5. Cardinality(Rows(d)) = Cardinality(On) + Cardinality(Unavailable(d))
      BY <2>2, <2>4, DisjointUnion
    <2>6. Cardinality(On) \in Nat /\ Cardinality(Unavailable(d)) \in Nat
      BY <2>4, FS_CardinalityType
    <2> QED
      BY <2>5, <2>6 DEF Counted
  <1> HIDE DEF On
  <1>6. d.books - d.unavailable = Cardinality({b.lib : b \in ListedBooks(d.src)})
    BY <1>2, <1>4, <1>5, Zenon
  <1>7. \A b, c \in ListedBooks(d.src) : b.lib = c.lib => b = c
    BY <1>2, <1>3
  <1> QED
    BY <1>2, <1>6, <1>7, Zenon

\* No INPX file is the one the bootstrapped row stands for.
LEMMA NoSourceIsNoFile == NoSource \notin Sources
  BY SourcesAssumption DEF NoSource

\* Between scans no digest is handed over.
RestSource == Idle => expected = NoSource

LEMMA RestSourceInvariance == Spec => []RestSource
  <1>1. Init => RestSource
    BY DEF Init, RestSource
  <1>2. RestSource /\ [Next]_vars => RestSource'
    <2> SUFFICES ASSUME RestSource, [Next]_vars PROVE RestSource'
      OBVIOUS
    <2> USE DEF RestSource, Idle
    <2>1. EndScan \/ Commit => RestSource'
      BY DEF EndScan, Commit, LeaveScan
    <2>2. UNCHANGED <<pc, expected>> \/ pc' # "idle" => RestSource'
      OBVIOUS
    <2>3. CASE UNCHANGED vars \/ ReplaceSource \/ ReplaceArchive \/ StartScan
      BY <2>2, <2>3 DEF vars, ReplaceSource, ReplaceArchive, StartScan, planVars
    <2>4. CASE CopySnapshot \/ ReadArchiveManifest \/ ValidateArchivePayloads
      BY <2>1, <2>2, <2>4 DEF CopySnapshot, ReadArchiveManifest, ValidateArchivePayloads
    <2>5. ASSUME NEW s \in Segments, PlanWithoutArchive(s) \/ ReadArchiveState(s)
          PROVE  RestSource'
      BY <2>2, <2>5 DEF PlanWithoutArchive, ReadArchiveState
    <2>6. CASE BeginTransaction \/ Reconcile \/ VerifySource \/ AbandonScan
      BY <2>1, <2>2, <2>6 DEF BeginTransaction, Reconcile, VerifySource, AbandonScan
    <2>7. ASSUME NEW a \in Archives, OpenArchive(a) \/ ValidateArchiveGuard(a)
          PROVE  RestSource'
      BY <2>1, <2>2, <2>7 DEF OpenArchive, ValidateArchiveGuard, planVars
    <2>8. ASSUME NEW s \in Segments, NEW l \in LibIds, IndexRecord(s, l)
          PROVE  RestSource'
      BY <2>1, <2>2, <2>8 DEF IndexRecord, planVars
    <2> QED
      BY <2>1, <2>3, <2>4, <2>5, <2>6, <2>7, <2>8 DEF Next, ScanStep
  <1> QED
    BY <1>1, <1>2, PTL DEF Spec

\* The initial states are those of the abstract specification.
LEMMA PublicationInit == Init => Publication!Init
  <1> SUFFICES ASSUME Init PROVE Publication!Init
    OBVIOUS
  <1>1. /\ source \in Sources /\ expected = NoSource /\ pc = "idle"
        /\ db.src = NoSource /\ db.books = 0 /\ db.unavailable = 0
        /\ \A l \in LibIds : db.loc[l].avail = FALSE /\ db.loc[l].seg = NoSegment
    BY DEF Init, EmptyCatalog
  <1>2. Shelf(db) = {} /\ KnownBooks(db) = {}
    BY <1>1, ShelfMembers DEF KnownBooks
  <1>3. (pc = "commit") = FALSE
    BY <1>1
  <1> QED
    BY <1>1, <1>2, <1>3 DEF Publication!Init

\* A step that leaves the file, the request and the published rows alone, and
\* does not enter or leave the closing phase, does not show.
LEMMA PublicationStutters ==
    ASSUME UNCHANGED <<source, expected, db>>, pc # "commit", pc' # "commit"
    PROVE  UNCHANGED Publication!catalogVars
  <1>1. (pc = "commit")' = (pc = "commit")
    OBVIOUS
  <1>2. UNCHANGED <<Shelf(db), db.src, db.books - db.unavailable, KnownBooks(db)>>
    BY DEF Shelf, KnownBooks
  <1> QED
    BY <1>1, <1>2 DEF Publication!catalogVars

\* A scan that ends without a commit is dropped.
LEMMA EndIsDrop ==
    ASSUME IInv, ~Idle, EndScan
    PROVE  Publication!Drop
  <1>1. expected # NoSource
    BY NoSourceIsNoFile DEF IInv, ScanInv
  <1>2. expected' = NoSource /\ (pc = "commit")' = FALSE /\ source' = source /\ db' = db
    BY DEF EndScan, LeaveScan, envVars
  <1>3. UNCHANGED <<Shelf(db), db.src, db.books - db.unavailable, KnownBooks(db)>>
    BY <1>2 DEF Shelf, KnownBooks
  <1> QED
    BY <1>1, <1>2, <1>3 DEF Publication!Drop

\* The commit publishes the requested file as a whole.
LEMMA CommitIsPublish ==
    ASSUME IInv, StatisticsInv, CatalogIsFullScan', StatisticsExact', Commit
    PROVE  Publication!Publish
  <1>1. /\ pc = "commit" /\ db' = txn /\ source' = source
        /\ expected' = NoSource /\ pc' = "idle"
    BY DEF Commit, LeaveScan, envVars
  <1>2. expected \in Sources /\ txn.completed /\ txn.src = expected
    BY <1>1 DEF IInv, ScanInv, ClosingInv, Idle
  <1>3. db'.completed /\ db'.src = expected
    BY <1>1, <1>2
  <1>4. \A l \in LibIds :
          /\ db'.loc[l].avail <=> \E s \in Segments : Listed(db'.src, s, l)
          /\ \A s \in Segments : Listed(db'.src, s, l) =>
                 /\ db'.loc[l].seg = s
                 /\ db'.loc[l].rec = db'.src.content[s].rec[l]
    BY <1>3 DEF CatalogIsFullScan, Listed
  <1>5. Counted(db')
    BY DEF StatisticsExact, Counted, Rows, Unavailable
  <1>6. /\ Shelf(db') = ListedBooks(expected)
        /\ \A b, c \in ListedBooks(expected) : b.lib = c.lib => b = c
        /\ db'.books - db'.unavailable = Cardinality({b.lib : b \in ListedBooks(expected)})
    <2> DEFINE d == db'
    <2>1. Counted(d) /\ d.src = expected
      BY <1>3, <1>5
    <2>2. \A l \in LibIds :
             /\ d.loc[l].avail <=> \E s \in Segments : Listed(d.src, s, l)
             /\ \A s \in Segments : Listed(d.src, s, l) =>
                    /\ d.loc[l].seg = s
                    /\ d.loc[l].rec = d.src.content[s].rec[l]
      BY <1>4
    <2> HIDE DEF d
    <2>3. /\ Shelf(d) = ListedBooks(d.src)
          /\ \A b, c \in ListedBooks(d.src) : b.lib = c.lib => b = c
          /\ d.books - d.unavailable = Cardinality({b.lib : b \in ListedBooks(d.src)})
      BY <2>1, <2>2, FullScanShelf
    <2> QED
      BY <2>1, <2>3 DEF d
  <1> DEFINE books == ListedBooks(expected)
             lists == [f \in Sources |-> ListedBooks(f)]
  <1>7. lists[expected] = books
    BY <1>2
  <1>8. (pc = "commit") = TRUE /\ (pc = "commit")' = FALSE
    BY <1>1
  <1>9. Shelf(db)' = Shelf(db')
    BY DEF Shelf
  <1>10. Publication!LibIdsOf(lists[expected]) = {b.lib : b \in books}
    BY <1>7 DEF Publication!LibIdsOf
  <1>11. Publication!Cardinality(Publication!LibIdsOf(lists[expected]))
           = Cardinality({b.lib : b \in books})
    BY <1>10, PublicationCount
  <1> HIDE DEF lists
  <1>12. KnownBooks(db) \subseteq KnownBooks(db)'
    BY <1>1 DEF StatisticsInv, Rows, KnownBooks
  <1>13. {b.lib : b \in books} \subseteq KnownBooks(db)'
    <2> SUFFICES ASSUME NEW b \in books PROVE b.lib \in KnownBooks(db)'
      OBVIOUS
    <2>1. PICK l \in LibIds, s \in Segments : b = BookOf(l, s, expected.content[s].rec[l])
                                               /\ Listed(expected, s, l)
      BY ListedMembers
    <2>2. b.lib = l /\ s # NoSegment
      BY <2>1, ConstantsAssumption DEF BookOf
    <2>3. db'.loc[l].seg = s
      BY <1>3, <1>4, <2>1
    <2> QED
      BY <2>2, <2>3 DEF KnownBooks
  <1>14. KnownBooks(db) \cup Publication!LibIdsOf(lists[expected]) \subseteq KnownBooks(db)'
    <2> HIDE DEF books
    <2> QED
      BY <1>10, <1>12, <1>13
  <1> HIDE DEF books
  <1>15. /\ \A b, c \in lists[expected] : b.lib = c.lib => b = c
         /\ Shelf(db)' = lists[expected]
         /\ (db.books - db.unavailable)'
              = Publication!Cardinality(Publication!LibIdsOf(lists[expected]))
    BY <1>6, <1>7, <1>9, <1>11 DEF books
  <1> QED
    BY <1>1, <1>3, <1>8, <1>15, <1>14 DEF Publication!Publish, lists

\* Every other step of the scan.
LEMMA ScanStepPublication ==
    ASSUME IInv, ScanStep, ~Commit
    PROVE  [Publication!Next]_(Publication!catalogVars)
  <1>1. ASSUME ~Idle, EndScan PROVE [Publication!Next]_(Publication!catalogVars)
    BY <1>1, EndIsDrop DEF Publication!Next
  <1>2. ASSUME UNCHANGED <<source, expected, db>>, pc # "commit", pc' # "commit"
        PROVE  [Publication!Next]_(Publication!catalogVars)
    BY <1>2, PublicationStutters
  <1>3. CASE VerifySource
    <2>1. CASE EndScan
      BY <1>1, <1>3, <2>1 DEF VerifySource, Idle
    <2>2. CASE ~EndScan
      <3>1. /\ pc = "validate" /\ source = expected /\ pc' = "commit"
            /\ UNCHANGED <<source, expected, db>>
        BY <1>3, <2>2 DEF VerifySource, envVars, planVars
      <3>2. expected # NoSource
        BY <3>1, NoSourceIsNoFile DEF IInv, ScanInv, Idle
      <3>3. UNCHANGED <<Shelf(db), db.src, db.books - db.unavailable, KnownBooks(db)>>
        BY <3>1 DEF Shelf, KnownBooks
      <3>4. (pc = "commit")' = TRUE
        BY <3>1
      <3>5. Publication!Confirm
        BY <3>1, <3>2, <3>3, <3>4 DEF Publication!Confirm
      <3> QED
        BY <3>5 DEF Publication!Next
    <2> QED
      BY <2>1, <2>2
  <1>4. CASE CopySnapshot \/ ValidateArchivePayloads
    <2>1. ~Idle /\ pc # "commit"
      BY <1>4 DEF CopySnapshot, ValidateArchivePayloads, Idle
    <2>2. EndScan \/ (UNCHANGED <<source, expected, db>> /\ pc' # "commit")
      BY <1>4 DEF CopySnapshot, ValidateArchivePayloads, envVars, planVars
    <2> QED
      BY <1>1, <1>2, <2>1, <2>2
  <1>5. CASE ReadArchiveManifest \/ BeginTransaction \/ Reconcile
    <2>1. UNCHANGED <<source, expected, db>> /\ pc # "commit" /\ pc' # "commit"
      BY <1>5 DEF ReadArchiveManifest, BeginTransaction, Reconcile, envVars, planVars
    <2> QED
      BY <1>2, <2>1
  <1>6. ASSUME NEW s \in Segments, PlanWithoutArchive(s) \/ ReadArchiveState(s)
        PROVE  [Publication!Next]_(Publication!catalogVars)
    <2>1. UNCHANGED <<source, expected, db>> /\ pc # "commit" /\ pc' # "commit"
      BY <1>6 DEF PlanWithoutArchive, ReadArchiveState, NextToPlan, envVars
    <2> QED
      BY <1>2, <2>1
  <1>7. ASSUME NEW a \in Archives, OpenArchive(a) \/ ValidateArchiveGuard(a)
        PROVE  [Publication!Next]_(Publication!catalogVars)
    <2>1. ~Idle /\ pc # "commit"
      BY <1>7 DEF OpenArchive, ValidateArchiveGuard, Idle
    <2>2. EndScan \/ (UNCHANGED <<source, expected, db>> /\ pc' # "commit")
      BY <1>7, <2>1 DEF OpenArchive, ValidateArchiveGuard, envVars, planVars
    <2> QED
      BY <1>1, <1>2, <2>1, <2>2
  <1>8. ASSUME NEW s \in Segments, NEW l \in LibIds, IndexRecord(s, l)
        PROVE  [Publication!Next]_(Publication!catalogVars)
    <2>1. ~Idle /\ pc # "commit"
      BY <1>8 DEF IndexRecord, Idle
    <2>2. EndScan \/ (UNCHANGED <<source, expected, db>> /\ pc' # "commit")
      BY <1>8, <2>1 DEF IndexRecord, envVars, planVars
    <2> QED
      BY <1>1, <1>2, <2>1, <2>2
  <1> QED
    BY <1>3, <1>4, <1>5, <1>6, <1>7, <1>8 DEF ScanStep

\* The incremental scan implements the abstract publication: dropped without a trace, or
\* published in one step, complete, counted and for the file it was asked for, after that
\* file was seen again.
THEOREM ScanImplementsPublication == Spec => ImplementsPublication
  <1>1. /\ IInv /\ StatisticsInv /\ RestSource /\ CatalogIsFullScan' /\ StatisticsExact'
        /\ [Next]_vars
        => [Publication!Next]_(Publication!catalogVars)
    <2> SUFFICES ASSUME IInv, StatisticsInv, RestSource, CatalogIsFullScan', StatisticsExact',
                        [Next]_vars
                 PROVE  [Publication!Next]_(Publication!catalogVars)
      OBVIOUS
    <2>1. CASE UNCHANGED vars
      <3>1. UNCHANGED <<source, expected, db, pc>>
        BY <2>1 DEF vars
      <3>2. UNCHANGED <<Shelf(db), db.src, db.books - db.unavailable, KnownBooks(db)>>
        BY <3>1 DEF Shelf, KnownBooks
      <3>3. (pc = "commit")' = (pc = "commit")
        BY <3>1
      <3> QED
        BY <3>1, <3>2, <3>3 DEF Publication!catalogVars
    <2>2. CASE ReplaceSource \/ ReplaceArchive
      <3>1. UNCHANGED <<expected, db, pc>> /\ source' \in Sources
        BY <2>2 DEF ReplaceSource, ReplaceArchive, planVars, IInv, TypeOK
      <3>2. UNCHANGED <<Shelf(db), db.src, db.books - db.unavailable, KnownBooks(db)>>
        BY <3>1 DEF Shelf, KnownBooks
      <3>3. (pc = "commit")' = (pc = "commit")
        BY <3>1
      <3>4. Publication!Replace
        BY <3>1, <3>2, <3>3 DEF Publication!Replace
      <3> QED
        BY <3>4 DEF Publication!Next
    <2>3. CASE StartScan
      <3>1. /\ pc = "idle" /\ pc' = "snapshot" /\ expected = NoSource /\ expected' = source
            /\ UNCHANGED <<source, db>>
        BY <2>3 DEF StartScan, Idle, RestSource, envVars
      <3>2. UNCHANGED <<Shelf(db), db.src, db.books - db.unavailable, KnownBooks(db)>>
        BY <3>1 DEF Shelf, KnownBooks
      <3>3. (pc = "commit")' = (pc = "commit")
        BY <3>1
      <3>4. Publication!Ask
        BY <3>1, <3>2, <3>3 DEF Publication!Ask
      <3> QED
        BY <3>4 DEF Publication!Next
    <2>4. CASE Commit
      BY <2>4, CommitIsPublish DEF Publication!Next
    <2>5. CASE ScanStep /\ ~Commit
      BY <2>5, ScanStepPublication
    <2>6. CASE AbandonScan
      BY <2>6, EndIsDrop DEF AbandonScan, Publication!Next
    <2> QED
      BY <2>1, <2>2, <2>3, <2>4, <2>5, <2>6 DEF Next
  <1> QED
    BY <1>1, PublicationInit, Invariance, StatisticsInvariance, RestSourceInvariance,
       CatalogIsAlwaysFullScan, StatisticsAlwaysExact, PTL DEF Spec, ImplementsPublication, Publication!Spec
=============================================================================
