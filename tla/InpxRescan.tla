----------------------------- MODULE InpxRescan -----------------------------
(***************************************************************************)
(* The incremental scan of one INPX collection into the SQLite catalog:    *)
(* RunScan and CInpxCatalogStreamWriter of libs/App/InpxScanJobService.cpp. *)
(*                                                                         *)
(* An INPX file lists segments; a segment lists records (active books and  *)
(* deletion markers, both named by LibId) whose payloads live in one       *)
(* archive.  A rescan does not parse a segment whose INP bytes and archive *)
(* did not change since the committed catalog was built: it reuses the     *)
(* rows the catalog has.  All writes go into one transaction `txn' that is *)
(* committed, or dropped, as a whole.                                      *)
(*                                                                         *)
(* The collection is edited by somebody else at any time, during a scan    *)
(* too.  A digest (SHA-256 of the INPX file, of one INP entry, of an       *)
(* archive's entry list) is modelled by what it is taken of.               *)
(***************************************************************************)
EXTENDS Integers, FiniteSets

CONSTANTS
    Segments,      \* INP entry names
    LibIds,        \* LibId values of the records
    Archives,      \* archive files under the archive root
    ArchiveOf,     \* the archive that a segment's records are read from
    RecordTexts,   \* the metadata a record line can carry
    Manifests,     \* archive contents told apart by the manifest fingerprint
    NoRecord,      \* the segment has no active FB2 record for that LibId
    NoSegment,     \* the catalog has no row for that LibId
    NoArchive,     \* no archive reader is open
    NoManifest,    \* archive_manifest_fingerprint IS NULL
    Sources,       \* the INPX files the owner of the collection may publish
    MaxScans,      \* bound: scans started
    MaxSourceEdits,  \* bound: replacements of the INPX file
    MaxArchiveEdits, \* bound: replacements of an archive
    MaxRaces       \* bound: edits of either kind made while a scan runs

Contents == [rec: [LibIds -> RecordTexts \cup {NoRecord}], del: SUBSET LibIds]

SourceType == [segs: SUBSET Segments, pos: [Segments -> Nat],
               content: [Segments -> Contents]]

ASSUME ConstantsAssumption ==
    /\ IsFiniteSet(LibIds)
    /\ ArchiveOf \in [Segments -> Archives]
    /\ NoRecord \notin RecordTexts
    /\ NoSegment \notin Segments
    /\ NoArchive \notin Archives
    /\ NoManifest \notin Manifests

\* ReadSegments numbers the .inp entries in the order of the INPX file; a file
\* without any, or with one name twice, is refused.
ASSUME SourcesAssumption ==
    /\ Sources \subseteq SourceType
    /\ \A f \in Sources :
          /\ f.segs # {}
          /\ \A s, t \in f.segs : f.pos[s] = f.pos[t] => s = t

ASSUME BoundsAssumption ==
    /\ MaxScans \in Nat
    /\ MaxSourceEdits \in Nat
    /\ MaxArchiveEdits \in Nat
    /\ MaxRaces \in Nat

VARIABLES
    \* the collection, edited by its owner
    source,     \* the INPX file
    archive,    \* archive -> [stat: size and mtime, man: entry list]
    \* the cache database
    db,         \* committed rows: what every reader sees
    txn,        \* the rows as the scan's open transaction sees them
    \* the scan worker
    pc,         \* where RunScan stands
    mode,       \* EInpxScanMode of the request
    expected,   \* the INPX file whose digest StartInpxScan handed over
    plans,      \* segment -> SInpxSegmentPlan
    guards,     \* archive -> SInpxArchiveScanGuard
    current,    \* the segment whose archive is being examined
    reader,     \* the archive that currentArchiveReader has open
    todo,       \* segment -> records of its Added or Changed plan still to index
    processed,  \* processedActiveIds
    written,    \* LibIds whose row carries this scan's last_seen_scan_id
    validated,  \* archives ValidateArchiveGuards has accepted
    \* counters of the bounds
    scans, sourceEdits, archiveEdits, races

envVars   == <<source, archive, sourceEdits, archiveEdits, races>>
planVars  == <<mode, expected, plans, guards, current>>
writeVars == <<reader, todo, processed, written, validated>>
vars == <<source, archive, db, txn, pc, mode, expected, plans, guards, current,
          reader, todo, processed, written, validated,
          scans, sourceEdits, archiveEdits, races>>

-----------------------------------------------------------------------------
(* Shapes                                                                  *)

EmptyContent == [rec |-> [l \in LibIds |-> NoRecord], del |-> {}]

Active(c) == {l \in LibIds : c.rec[l] # NoRecord}

\* RequiresArchive: the segment has at least one active FB2 record.
RequiresArchive(c) == Active(c) # {}

\* The tables inpx_sources, inpx_segments, inpx_deletions and
\* inpx_book_locations (with the book row it belongs to), and the counters of
\* catalog_statistics.
SegmentRow ==
    [state: {"NoRow", "Available", "MissingFromIndex"},
     pos:   Nat,                             \* segment_order
     inp:   Contents,                        \* inp_fingerprint
     stat:  Nat,                             \* archive size and mtime
     man:   Manifests \cup {NoManifest},
     del:   SUBSET LibIds]                   \* rows of inpx_deletions

BookRow ==
    [seg:     Segments \cup {NoSegment},     \* NoSegment: there is no row
     present: BOOLEAN,                       \* present_in_segment
     avail:   BOOLEAN,                       \* availability
     rec:     RecordTexts \cup {NoRecord},   \* metadata of the record line
     man:     Manifests \cup {NoManifest}]   \* archive the payload came from

CatalogType ==
    [completed:   BOOLEAN,                   \* last_scan_completed_at_utc
     src:         SourceType,                \* source_fingerprint
     seg:         [Segments -> SegmentRow],
     loc:         [LibIds -> BookRow],
     books:       Int,                       \* book_count
     unavailable: Int]                       \* unavailable_book_count

\* No INPX file has been published: the row CreateNew bootstraps.
NoSource == [segs |-> {}, pos |-> [s \in Segments |-> 0],
             content |-> [s \in Segments |-> EmptyContent]]

EmptyCatalog ==
    [completed   |-> FALSE,
     src         |-> NoSource,
     seg         |-> [s \in Segments |->
                        [state |-> "NoRow", pos |-> 0, inp |-> EmptyContent, stat |-> 0,
                         man |-> NoManifest, del |-> {}]],
     loc         |-> [l \in LibIds |->
                        [seg |-> NoSegment, present |-> FALSE, avail |-> FALSE,
                         rec |-> NoRecord, man |-> NoManifest]],
     books       |-> 0,
     unavailable |-> 0]

Changes == {"NoPlan", "Unchanged", "Added", "Changed", "Removed"}
PlanType == [change: Changes, stat: Nat, man: Manifests \cup {NoManifest}]
NoPlan == [change |-> "NoPlan", stat |-> 0, man |-> NoManifest]

Phases == {"NoGuard", "FileStateRead", "ManifestRead", "PayloadsValidated"}
GuardType == [phase: Phases, stat: Nat, man: Manifests \cup {NoManifest}]
NoGuard == [phase |-> "NoGuard", stat |-> 0, man |-> NoManifest]

NothingToDo == [s \in Segments |-> {}]

Parsed(s)  == plans[s].change \in {"Added", "Changed"}
Current(s) == plans[s].change \in {"Unchanged", "Added", "Changed"}

-----------------------------------------------------------------------------
(* What a scan from scratch would publish                                  *)

\* The book is in the collection f: some segment has an active record of it
\* and no later segment withdraws it.
Listed(f, s, l) ==
    /\ s \in f.segs
    /\ l \in Active(f.content[s])
    /\ \A t \in f.segs : l \in f.content[t].del => f.pos[t] <= f.pos[s]

-----------------------------------------------------------------------------
Idle == pc = "idle"

Init ==
    /\ source \in Sources
    /\ archive \in [Archives -> {[stat |-> 1, man |-> m] : m \in Manifests}]
    /\ db = EmptyCatalog
    /\ txn = EmptyCatalog
    /\ pc = "idle"
    /\ mode = "InitialScan"
    /\ expected = NoSource
    /\ plans = [s \in Segments |-> NoPlan]
    /\ guards = [a \in Archives |-> NoGuard]
    /\ current = NoSegment
    /\ reader = NoArchive
    /\ todo = NothingToDo
    /\ processed = {}
    /\ written = {}
    /\ validated = {}
    /\ scans = 0
    /\ sourceEdits = 0
    /\ archiveEdits = 0
    /\ races = 0

-----------------------------------------------------------------------------
(* The owner of the collection                                             *)

Race == /\ Idle \/ races < MaxRaces
        /\ races' = IF Idle THEN races ELSE races + 1

ReplaceSource ==
    /\ sourceEdits < MaxSourceEdits
    /\ Race
    /\ source' \in Sources \ {source}
    /\ sourceEdits' = sourceEdits + 1
    /\ UNCHANGED <<archive, archiveEdits, db, txn, pc, planVars, writeVars, scans>>

\* Every write to an archive moves its size or its mtime to a value it never
\* had: the scan takes an equal file state for an equal archive.
ReplaceArchive ==
    /\ archiveEdits < MaxArchiveEdits
    /\ Race
    /\ \E a \in Archives, m \in Manifests :
          archive' = [archive EXCEPT ![a] = [stat |-> @.stat + 1, man |-> m]]
    /\ archiveEdits' = archiveEdits + 1
    /\ UNCHANGED <<source, sourceEdits, db, txn, pc, planVars, writeVars, scans>>

-----------------------------------------------------------------------------
(* Snapshot and planning                                                   *)

\* RunScan returns or throws: its locals and its transaction are gone.
LeaveScan ==
    /\ pc' = "idle"
    /\ txn' = EmptyCatalog
    /\ mode' = "InitialScan"
    /\ expected' = NoSource
    /\ plans' = [s \in Segments |-> NoPlan]
    /\ guards' = [a \in Archives |-> NoGuard]
    /\ current' = NoSegment
    /\ reader' = NoArchive
    /\ todo' = NothingToDo
    /\ processed' = {}
    /\ written' = {}
    /\ validated' = {}

\* StartInpxScan takes the digest of the INPX file (forced refresh) and hands
\* it to the worker.
StartScan ==
    /\ Idle
    /\ scans < MaxScans
    /\ scans' = scans + 1
    /\ mode' \in {"InitialScan", "Rescan"}
    /\ expected' = source
    /\ pc' = "snapshot"
    /\ UNCHANGED <<envVars, db, txn, plans, guards, current, writeVars>>

\* Every way out of a scan that is not the commit: an error, or a stop request
\* seen by throwIfCancelled.  The transaction is rolled back.
EndScan ==
    /\ LeaveScan
    /\ UNCHANGED <<envVars, db, scans>>

\* copy_file, then the digest of the copy against the expected one.
CopySnapshot ==
    /\ pc = "snapshot"
    /\ IF source = expected
         THEN /\ pc' = "plan"
              /\ UNCHANGED <<envVars, db, txn, planVars, writeVars, scans>>
         ELSE EndScan

\* ReadSegments hands the segments over in the order of the file.
NextToPlan(s) ==
    /\ pc = "plan"
    /\ s \in expected.segs
    /\ plans[s] = NoPlan
    /\ \A t \in expected.segs : expected.pos[t] < expected.pos[s] => plans[t] # NoPlan

CanReuseExisting(s) ==
    /\ mode = "Rescan"
    /\ db.seg[s].state = "Available"
    /\ db.seg[s].inp = expected.content[s]

ParsedChange(s) == IF db.seg[s].state = "NoRow" THEN "Added" ELSE "Changed"

SetPlan(s, change, stat, man) ==
    plans' = [plans EXCEPT ![s] = [change |-> change, stat |-> stat, man |-> man]]

\* A segment of deletion markers and foreign formats needs no archive.
PlanWithoutArchive(s) ==
    /\ NextToPlan(s)
    /\ ~RequiresArchive(expected.content[s])
    /\ SetPlan(s, IF CanReuseExisting(s) THEN "Unchanged" ELSE ParsedChange(s), 0, NoManifest)
    /\ UNCHANGED <<envVars, db, txn, pc, mode, expected, guards, current, scans,
                   writeVars>>

\* readArchiveState: the first segment of an archive stats the file, the others
\* share the guard.  An equal file state settles a reusable segment.
ReadArchiveState(s) ==
    LET a == ArchiveOf[s]
        stat == IF guards[a].phase = "NoGuard" THEN archive[a].stat ELSE guards[a].stat
    IN  /\ NextToPlan(s)
        /\ RequiresArchive(expected.content[s])
        /\ guards' = IF guards[a].phase = "NoGuard"
                       THEN [guards EXCEPT ![a] =
                               [phase |-> "FileStateRead", stat |-> stat, man |-> NoManifest]]
                       ELSE guards
        /\ IF CanReuseExisting(s) /\ db.seg[s].stat = stat
             THEN /\ SetPlan(s, "Unchanged", stat, db.seg[s].man)
                  /\ UNCHANGED <<pc, current>>
             ELSE /\ pc' = "manifest"
                  /\ current' = s
                  /\ UNCHANGED plans
        /\ UNCHANGED <<envVars, db, txn, mode, expected, scans, writeVars>>

\* readArchiveManifest.  A reusable segment whose manifest is the cached one
\* still has its payloads validated; any other segment is parsed.
ReadArchiveManifest ==
    LET a == ArchiveOf[current]
        man == IF guards[a].phase = "FileStateRead" THEN archive[a].man ELSE guards[a].man
    IN  /\ pc = "manifest"
        /\ guards' = IF guards[a].phase = "FileStateRead"
                       THEN [guards EXCEPT ![a].phase = "ManifestRead", ![a].man = man]
                       ELSE guards
        /\ IF CanReuseExisting(current) /\ db.seg[current].man = man
             THEN /\ pc' = "payloads"
                  /\ UNCHANGED <<plans, current>>
             ELSE /\ SetPlan(current, ParsedChange(current), guards[a].stat, man)
                  /\ pc' = "plan"
                  /\ current' = NoSegment
        /\ UNCHANGED <<envVars, db, txn, mode, expected, scans, writeVars>>

\* validateArchivePayloads: once per archive, reads every payload and the
\* manifest again.
ValidateArchivePayloads ==
    LET a == ArchiveOf[current]
    IN  /\ pc = "payloads"
        /\ IF guards[a].phase = "PayloadsValidated" \/ archive[a].man = guards[a].man
             THEN /\ guards' = [guards EXCEPT ![a].phase = "PayloadsValidated"]
                  /\ SetPlan(current, "Unchanged", guards[a].stat, guards[a].man)
                  /\ pc' = "plan"
                  /\ current' = NoSegment
                  /\ UNCHANGED <<envVars, db, txn, mode, expected, scans, writeVars>>
             ELSE EndScan

\* Segments the catalog has a row for and the INPX file no longer lists.
WithRemoved ==
    [s \in Segments |->
        IF s \notin expected.segs /\ db.seg[s].state # "NoRow"
          THEN [change |-> "Removed", stat |-> db.seg[s].stat, man |-> db.seg[s].man]
          ELSE plans[s]]

-----------------------------------------------------------------------------
(* The transaction                                                         *)

\* UpsertSegment for every plan p[s].  A removed segment keeps its row and its
\* order but loses its deletion markers; an unchanged one keeps its markers.
UpsertedRow(row, plan, s) ==
    CASE plan.change = "NoPlan" -> row
      [] plan.change = "Removed" ->
           [state |-> "MissingFromIndex", pos |-> row.pos, inp |-> row.inp,
            stat |-> row.stat, man |-> row.man, del |-> {}]
      [] OTHER ->
           [state |-> "Available", pos |-> expected.pos[s], inp |-> expected.content[s],
            stat |-> plan.stat, man |-> plan.man,
            del |-> IF plan.change = "Unchanged" THEN row.del ELSE expected.content[s].del]

UpsertSegments(d, p) ==
    [completed   |-> FALSE,
     src         |-> d.src,
     seg         |-> [s \in Segments |-> UpsertedRow(d.seg[s], p[s], s)],
     loc         |-> d.loc,
     books       |-> d.books,
     unavailable |-> d.unavailable]

\* ReadActiveInpxIdsForSegments: the committed, present rows of the unchanged
\* segments, read on a connection of its own.
ReadActiveIds(p) ==
    {l \in LibIds : /\ db.loc[l].present
                    /\ db.loc[l].seg # NoSegment
                    /\ p[db.loc[l].seg].change = "Unchanged"}

\* BEGIN IMMEDIATE, MarkInpxSourceScanStarted and the upsert of every segment.
\* Only the scan writes, and a stop in between drops the transaction, so the
\* whole is one step.
BeginTransaction ==
    /\ pc = "plan"
    /\ \A s \in expected.segs : plans[s] # NoPlan
    /\ plans' = WithRemoved
    /\ txn' = UpsertSegments(db, WithRemoved)
    /\ processed' = ReadActiveIds(WithRemoved)
    /\ todo' = [s \in Segments |->
                  IF WithRemoved[s].change \in {"Added", "Changed"}
                    THEN Active(expected.content[s]) ELSE {}]
    /\ pc' = "index"
    /\ UNCHANGED <<envVars, db, mode, expected, guards, current, reader, written,
                   validated, scans>>

\* The records are taken archive by archive; opening the next one checks that
\* its manifest is the planned one.
OpenArchive(a) ==
    /\ pc = "index"
    /\ reader # a
    /\ \E s \in Segments : todo[s] # {} /\ ArchiveOf[s] = a
    /\ \A s \in Segments : todo[s] # {} => ArchiveOf[s] # reader
    /\ IF archive[a].man = guards[a].man
         THEN /\ reader' = a
              /\ UNCHANGED <<envVars, db, txn, pc, planVars, todo, processed, written,
                             validated, scans>>
         ELSE EndScan

\* InsertInpxBook or UpdateInpxBook, and UpsertInpxLocation: nothing of an old row survives.
UpsertedBook(s, text, man) ==
    [seg |-> s, present |-> TRUE, avail |-> TRUE, rec |-> text, man |-> man]

\* WriteParsedRecord: the row is inserted, or moved to the segment and made
\* available again, with the statistics that go with it.
WriteParsedRecord(d, s, l, text, man) ==
    [completed   |-> d.completed,
     src         |-> d.src,
     seg         |-> d.seg,
     loc         |-> [d.loc EXCEPT ![l] = UpsertedBook(s, text, man)],
     books       |-> IF d.loc[l].seg = NoSegment THEN d.books + 1 ELSE d.books,
     unavailable |-> IF d.loc[l].seg # NoSegment /\ ~d.loc[l].avail
                       THEN d.unavailable - 1 ELSE d.unavailable]

\* What the open reader may return.  It holds a descriptor: an archive replaced
\* by a new file still reads as planned, one written in place as it is now.
ReadableContents(a) == {guards[a].man, archive[a].man}

\* One active FB2 record and its payload.
IndexRecord(s, l) ==
    /\ pc = "index"
    /\ l \in todo[s]
    /\ IF l \in processed
         THEN EndScan  \* duplicate active LibId
         ELSE /\ reader = ArchiveOf[s]
              /\ \E man \in ReadableContents(reader) :
                    txn' = WriteParsedRecord(txn, s, l, expected.content[s].rec[l], man)
              /\ processed' = processed \cup {l}
              /\ written' = written \cup {l}
              /\ todo' = [todo EXCEPT ![s] = @ \ {l}]
              /\ UNCHANGED <<envVars, db, pc, planVars, reader, validated, scans>>

-----------------------------------------------------------------------------
(* Finish                                                                  *)

\* A marker in a current segment that comes after the row's segment.
WithdrawnLater(seg, loc, l) ==
    \E t \in Segments : /\ seg[t].state = "Available"
                        /\ l \in seg[t].del
                        /\ seg[t].pos > seg[loc[l].seg].pos

\* Mutant of MarkedUnavailable: rows that are unavailable already are counted again.
MarkedAgain(seg, loc) ==
    {l \in LibIds :
        /\ loc[l].seg # NoSegment
        /\ \/ ~loc[l].present
           \/ seg[loc[l].seg].state # "Available"
           \/ WithdrawnLater(seg, loc, l)}

\* The WHERE clause of markUnavailableStatement.
MarkedUnavailable(seg, loc) ==
    {l \in LibIds :
        /\ loc[l].seg # NoSegment
        /\ loc[l].avail
        /\ \/ ~loc[l].present
           \/ seg[loc[l].seg].state # "Available"
           \/ WithdrawnLater(seg, loc, l)}

\* Mutant of RestoredAvailable: later deletion markers are ignored.
RestoredDespiteMarkers(seg, loc) ==
    {l \in LibIds :
        /\ loc[l].seg # NoSegment
        /\ ~loc[l].avail
        /\ loc[l].present
        /\ seg[loc[l].seg].state = "Available"}

\* The WHERE clause of restoreAvailableStatement.
RestoredAvailable(seg, loc) ==
    {l \in LibIds :
        /\ loc[l].seg # NoSegment
        /\ ~loc[l].avail
        /\ loc[l].present
        /\ seg[loc[l].seg].state = "Available"
        /\ ~WithdrawnLater(seg, loc, l)}

\* Rows of parsed segments that this scan did not write leave their segment.
ClearUnseen(loc) ==
    [l \in LibIds |->
        IF loc[l].seg # NoSegment /\ Parsed(loc[l].seg) /\ l \notin written
          THEN [loc[l] EXCEPT !.present = FALSE]
          ELSE loc[l]]

SetAvailability(loc, L, available) ==
    [l \in LibIds |-> IF l \in L THEN [loc[l] EXCEPT !.avail = available] ELSE loc[l]]

\* The three updates of the locations, the statistics that follow the last two,
\* and UpdateInpxSourceRow.
Reconciled(d) ==
    LET seen     == ClearUnseen(d.loc)
        marked   == MarkedUnavailable(d.seg, seen)
        hidden   == SetAvailability(seen, marked, FALSE)
        restored == RestoredAvailable(d.seg, hidden)
    IN  [completed   |-> TRUE,
         src         |-> expected,
         seg         |-> d.seg,
         loc         |-> SetAvailability(hidden, restored, TRUE),
         books       |-> d.books,
         unavailable |-> d.unavailable + Cardinality(marked) - Cardinality(restored)]

\* Reconciliation of the whole catalog with the current segments.
Reconcile ==
    /\ pc = "index"
    /\ todo = NothingToDo
    /\ txn' = Reconciled(txn)
    /\ pc' = "validate"
    /\ UNCHANGED <<envVars, db, planVars, writeVars, scans>>

\* The first loop of ValidateArchiveGuards: segments that share an archive must
\* agree on its manifest.
GuardConflict ==
    \E s \in Segments :
        /\ Current(s)
        /\ RequiresArchive(expected.content[s])
        /\ \/ plans[s].stat # guards[ArchiveOf[s]].stat
           \/ plans[s].man = NoManifest
           \/ /\ guards[ArchiveOf[s]].phase # "FileStateRead"
              /\ plans[s].man # guards[ArchiveOf[s]].man
           \/ /\ guards[ArchiveOf[s]].phase = "FileStateRead"
              /\ \E t \in Segments : /\ Current(t)
                                     /\ RequiresArchive(expected.content[t])
                                     /\ ArchiveOf[t] = ArchiveOf[s]
                                     /\ plans[t].man # plans[s].man

\* Mutant of GuardHolds: the archives are not looked at again.
GuardTrusted(a) == TRUE

\* The second loop: the file state, and the manifest where one was read, are
\* what they were when the segment was planned.
GuardHolds(a) ==
    /\ archive[a].stat = guards[a].stat
    /\ guards[a].phase = "FileStateRead" \/ archive[a].man = guards[a].man

ValidateArchiveGuard(a) ==
    /\ pc = "validate"
    /\ guards[a].phase # "NoGuard"
    /\ a \notin validated
    /\ IF ~GuardConflict /\ GuardHolds(a)
         THEN /\ validated' = validated \cup {a}
              /\ UNCHANGED <<envVars, db, txn, pc, planVars, reader, todo, processed,
                             written, scans>>
         ELSE EndScan

\* Mutant of VerifySource: a changed file is waited for, not reported.
AwaitSource ==
    /\ pc = "validate"
    /\ \A a \in Archives : guards[a].phase # "NoGuard" => a \in validated
    /\ source = expected
    /\ pc' = "commit"
    /\ UNCHANGED <<envVars, db, txn, planVars, writeVars, scans>>

\* Mutant of VerifySource: the INPX file is not hashed again.
TrustSource ==
    /\ pc = "validate"
    /\ \A a \in Archives : guards[a].phase # "NoGuard" => a \in validated
    /\ pc' = "commit"
    /\ UNCHANGED <<envVars, db, txn, planVars, writeVars, scans>>

\* The INPX file is hashed again, after every archive.
VerifySource ==
    /\ pc = "validate"
    /\ \A a \in Archives : guards[a].phase # "NoGuard" => a \in validated
    /\ IF source = expected
         THEN /\ pc' = "commit"
              /\ UNCHANGED <<envVars, db, txn, planVars, writeVars, scans>>
         ELSE EndScan

Commit ==
    /\ pc = "commit"
    /\ db' = txn
    /\ LeaveScan
    /\ UNCHANGED <<envVars, scans>>

-----------------------------------------------------------------------------
(* The other ways out                                                      *)

\* A stop request seen by throwIfCancelled; a missing or damaged archive, an
\* invalid record, a limit, a failing write; the death of the process, whose
\* open transaction SQLite drops on the next open.
AbandonScan ==
    /\ ~Idle
    /\ EndScan

-----------------------------------------------------------------------------
ScanStep ==
    \/ CopySnapshot
    \/ \E s \in Segments : PlanWithoutArchive(s) \/ ReadArchiveState(s)
    \/ ReadArchiveManifest
    \/ ValidateArchivePayloads
    \/ BeginTransaction
    \/ \E a \in Archives : OpenArchive(a) \/ ValidateArchiveGuard(a)
    \/ \E s \in Segments, l \in LibIds : IndexRecord(s, l)
    \/ Reconcile
    \/ VerifySource
    \/ Commit

Next ==
    \/ ReplaceSource
    \/ ReplaceArchive
    \/ StartScan
    \/ ScanStep
    \/ AbandonScan

Spec == Init /\ [][Next]_vars

\* The worker thread keeps running until it has left the scan.
FairSpec == Spec /\ WF_vars(ScanStep)

-----------------------------------------------------------------------------
(* Properties                                                              *)

TypeOK ==
    /\ source \in Sources
    /\ archive \in [Archives -> [stat: Nat, man: Manifests]]
    /\ db \in CatalogType
    /\ txn \in CatalogType
    /\ pc \in {"idle", "snapshot", "plan", "manifest", "payloads", "index",
               "validate", "commit"}
    /\ mode \in {"InitialScan", "Rescan"}
    /\ expected \in Sources \cup {NoSource}
    /\ plans \in [Segments -> PlanType]
    /\ guards \in [Archives -> GuardType]
    /\ current \in Segments \cup {NoSegment}
    /\ pc \in {"manifest", "payloads"} => current \in Segments
    /\ reader \in Archives \cup {NoArchive}
    /\ todo \in [Segments -> SUBSET LibIds]
    /\ processed \in SUBSET LibIds
    /\ written \in SUBSET LibIds
    /\ validated \in SUBSET Archives
    /\ scans \in Nat /\ sourceEdits \in Nat /\ archiveEdits \in Nat /\ races \in Nat

\* Skipped segments reconcile identically to parsed ones: whatever sequence of
\* rescans, failures and crashes came before, the published catalog shows the
\* books, each from the segment and with the metadata, that a scan of the
\* published INPX file into an empty catalog would show.
CatalogIsFullScan ==
    db.completed =>
        \A l \in LibIds :
            /\ db.loc[l].avail <=> \E s \in Segments : Listed(db.src, s, l)
            /\ \A s \in Segments : Listed(db.src, s, l) =>
                   /\ db.loc[l].seg = s
                   /\ db.loc[l].rec = db.src.content[s].rec[l]

\* Every published payload was read from the archive content that the
\* segment's manifest fingerprint names, and as long as the archive's file
\* state is the published one that content is still there.
PublishedPayloadsAdmitted ==
    \A l \in LibIds : db.loc[l].avail =>
        LET s == db.loc[l].seg
            a == ArchiveOf[s]
        IN  /\ db.loc[l].man = db.seg[s].man
            /\ archive[a].stat = db.seg[s].stat => archive[a].man = db.loc[l].man

\* catalog_statistics is maintained by increments, never recounted: it agrees
\* with the rows in every published catalog.
StatisticsExact ==
    /\ db.books = Cardinality({l \in LibIds : db.loc[l].seg # NoSegment})
    /\ db.unavailable =
         Cardinality({l \in LibIds : db.loc[l].seg # NoSegment /\ ~db.loc[l].avail})

\* A scan that was started ends, whatever the owner does meanwhile.
ScanEnds == (pc = "snapshot") ~> (pc = "idle")

-----------------------------------------------------------------------------
(* The abstract specification                                              *)

BookOf(l, s, text) == [lib |-> l, seg |-> s, rec |-> text]

\* What a reader is shown of a catalog, and what a scan of the INPX file f into
\* an empty one would show.
Shelf(d) == {BookOf(l, d.loc[l].seg, d.loc[l].rec) : l \in {x \in LibIds : d.loc[x].avail}}

ListedBooks(f) ==
    {BookOf(p[2], p[1], f.content[p[1]].rec[p[2]]) :
        p \in {q \in Segments \X LibIds : Listed(f, q[1], q[2])}}

\* The books with a row, available or not.
KnownBooks(d) == {l \in LibIds : d.loc[l].seg # NoSegment}

Publication ==
    INSTANCE CatalogPublication
    WITH Files     <- Sources,
         NoFile    <- NoSource,
         Listing   <- [f \in Sources |-> ListedBooks(f)],
         file      <- source,
         pending   <- expected,
         confirmed <- (pc = "commit"),
         published <- db.src,
         shelf     <- Shelf(db),
         offered   <- db.books - db.unavailable,
         known     <- KnownBooks(db)

\* The segments reused, the archives read and the phases gone through do not
\* show: whatever is edited, cancelled or fails meanwhile, readers see the old
\* catalog until one step replaces shelf, count and source by those of the
\* requested INPX file, which the scan has seen in its place at the end; and no
\* commit drops the row of a book, be it withdrawn.
ImplementsPublication == Publication!Spec
=============================================================================
