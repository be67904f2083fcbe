------------------------------ MODULE CoverCache ------------------------------
(***************************************************************************)
(* The cover files of the catalog and the rows that refer to them:         *)
(* CacheInpxCover, WriteCoverBytesAtomically, the rollback and the garbage *)
(* collection of CInpxCatalogStreamWriter (libs/App/InpxScanJobService.cpp) *)
(* and the cover part of libs/Database/CatalogStatisticsMaintenance.cpp.   *)
(*                                                                         *)
(* Rows change in the scan's transaction, files do not: a file is renamed  *)
(* into place before its row is committed and removed after the last row   *)
(* that names it is gone.  The process may die between any two steps.      *)
(* A cover's path is its SHA-256, so a cover stands for its path and for   *)
(* its bytes.  Which records a scan writes is the subject of InpxRescan;   *)
(* here a scan writes any books with any covers.                           *)
(***************************************************************************)
EXTENDS Integers, FiniteSets

CONSTANTS
    Books,          \* rows of inpx_books
    Covers,         \* cover images
    SizeOf,         \* cover -> its bytes
    NoCover,        \* cover_path IS NULL, or a parsed book without a cover
    NoRow,          \* the book is not in the catalog
    MaxCoverBytes,  \* m_maxCoverCacheBytes
    MaxScans,       \* bound: scans
    MaxFailures     \* bound: file removals that fail

ASSUME CoverAssumption ==
    /\ IsFiniteSet(Books) /\ IsFiniteSet(Covers)
    /\ SizeOf \in [Covers -> Nat]
    /\ NoCover \notin Covers /\ NoRow \notin Covers /\ NoRow # NoCover
    /\ MaxCoverBytes \in Nat /\ MaxScans \in Nat /\ MaxFailures \in Nat

VARIABLES
    files,      \* covers whose final path exists
    temps,      \* temporary files, each the cover and the scan that writes it
    stuck,      \* covers whose file could not be removed when it should have been
    db,         \* committed rows
    txn,        \* the rows as the scan's transaction sees them
    pc,         \* where the writer stands
    item,       \* the record being written: its book and its prepared cover
    done,       \* books this scan has written
    registered, \* m_writtenCoverPaths
    before,     \* history: the files there were when the scan began
    unvisited,  \* files the garbage collection has not come to yet
    scans, failures

vars == <<files, temps, stuck, db, txn, pc, item, done, registered, before, unvisited,
          scans, failures>>

\* path: cover_path of inpx_books; refs: catalog_stat_cover_files, 0 where there
\* is no row; bytes: cover_cache_size_bytes.
Rows == [path: [Books -> Covers \cup {NoCover, NoRow}], refs: [Covers -> Nat], bytes: Int]

EmptyRows == [path |-> [b \in Books |-> NoRow], refs |-> [c \in Covers |-> 0], bytes |-> 0]
NoItem == [book |-> NoRow, cover |-> NoCover]

Referenced(d) == {c \in Covers : \E b \in Books : d.path[b] = c}
StoredReferences(d, c) == Cardinality({b \in Books : d.path[b] = c})

\* The bytes of a set of covers, each counted.
Bytes(C) == Cardinality(UNION {{c} \X (1..SizeOf[c]) : c \in C})

Init ==
    /\ files = {} /\ temps = {} /\ stuck = {}
    /\ db = EmptyRows /\ txn = EmptyRows
    /\ pc = "idle" /\ item = NoItem
    /\ done = {} /\ registered = {} /\ before = {} /\ unvisited = {}
    /\ scans = 0 /\ failures = 0

-----------------------------------------------------------------------------
(* Statistics                                                              *)

\* A cover without a row gets one, if its file is there.
IncrementCoverReference(d, c) ==
    IF c = NoCover \/ (d.refs[c] = 0 /\ c \notin files) THEN d
    ELSE [d EXCEPT !.refs[c] = @ + 1,
                   !.bytes = IF d.refs[c] = 0 THEN @ + SizeOf[c] ELSE @]

\* The row of a cover goes with its last reference.
DecrementCoverReference(d, c) ==
    IF c = NoCover \/ d.refs[c] = 0 THEN d
    ELSE [d EXCEPT !.refs[c] = @ - 1,
                   !.bytes = IF d.refs[c] = 1 THEN @ - SizeOf[c] ELSE @]

\* The size of a cover never changes: only a missing row is filled in.
RefreshCoverReferenceSize(d, c) ==
    IF c = NoCover \/ d.refs[c] > 0 \/ c \notin files THEN d
    ELSE [d EXCEPT !.refs[c] = StoredReferences(d, c), !.bytes = @ + SizeOf[c]]

\* Mutant of RecordCoverPathChanged: an unchanged cover is counted once more.
RecordCoverPathAlways(d, old, new) ==
    IncrementCoverReference(IF old = new THEN d ELSE DecrementCoverReference(d, old), new)

\* d has the new path already.
RecordCoverPathChanged(d, old, new) ==
    IF old = new THEN RefreshCoverReferenceSize(d, new)
    ELSE IncrementCoverReference(DecrementCoverReference(d, old), new)

-----------------------------------------------------------------------------
(* A scan writes its records                                               *)

BeginScan ==
    /\ pc = "idle"
    /\ scans < MaxScans
    /\ scans' = scans + 1
    /\ pc' = "write"
    /\ txn' = db
    /\ before' = files
    /\ UNCHANGED <<files, temps, stuck, db, item, done, registered, unvisited, failures>>

\* Mutant of CacheInpxCover: the path of a new cover is not remembered.
CacheCoverUnregistered(b, c) ==
    /\ pc = "write"
    /\ b \notin done
    /\ item' = [book |-> b, cover |-> c]
    /\ IF c = NoCover \/ c \in files
         THEN pc' = "record" /\ UNCHANGED temps
         ELSE pc' = "rename" /\ temps' = temps \cup {<<c, scans>>}
    /\ UNCHANGED <<files, stuck, db, txn, done, registered, before, unvisited, scans, failures>>

\* CacheInpxCover.  A new path is registered for the rollback before anything is
\* written; a cover that is already stored is compared with its digest and shared.
CacheInpxCover(b, c) ==
    /\ pc = "write"
    /\ b \notin done
    /\ item' = [book |-> b, cover |-> c]
    /\ IF c = NoCover \/ c \in files
         THEN /\ pc' = "record"
              /\ UNCHANGED <<temps, registered>>
         ELSE /\ pc' = "rename"
              /\ registered' = registered \cup {c}
              /\ temps' = temps \cup {<<c, scans>>}
    /\ UNCHANGED <<files, stuck, db, txn, done, before, unvisited, scans, failures>>

\* rename(temporaryPath, path), or the write failed and the temporary is removed.
RenameCover ==
    /\ pc = "rename"
    /\ temps' = temps \ {<<item.cover, scans>>}
    /\ \/ /\ files' = files \cup {item.cover}
          /\ pc' = "record"
       \/ /\ pc' = "rollback"
          /\ UNCHANGED files
    /\ UNCHANGED <<stuck, db, txn, item, done, registered, before, unvisited, scans, failures>>

\* ValidateCoverCacheBudget.
WithinBudget(d) == d.bytes >= 0 /\ d.bytes <= MaxCoverBytes

\* UpdateBookCoverPath, the statistics, and the budget.
RecordCover ==
    LET b    == item.book
        old  == txn.path[b]
        with == [txn EXCEPT !.path[b] = item.cover]
        new  == IF old = NoRow THEN IncrementCoverReference(with, item.cover)
                ELSE RecordCoverPathChanged(with, old, item.cover)
    IN  /\ pc = "record"
        /\ txn' = new
        /\ done' = done \cup {b}
        /\ item' = NoItem
        /\ pc' = IF WithinBudget(new) THEN "write" ELSE "rollback"
        /\ UNCHANGED <<files, temps, stuck, db, registered, before, unvisited, scans, failures>>

\* An exception or a stop request anywhere before the commit.
Abandon ==
    /\ pc = "write"
    /\ pc' = "rollback"
    /\ UNCHANGED <<files, temps, stuck, db, txn, item, done, registered, before, unvisited,
                   scans, failures>>

-----------------------------------------------------------------------------
(* The end of a scan                                                       *)

\* remove with a warning: the removal may fail.
RemoveCover(c) ==
    \/ /\ files' = files \ {c}
       /\ UNCHANGED <<stuck, failures>>
    \/ /\ c \in files
       /\ failures < MaxFailures
       /\ failures' = failures + 1
       /\ stuck' = stuck \cup {c}
       /\ UNCHANGED files

\* ~CInpxCatalogStreamWriter removes what this scan added, file by file.
RollbackCover(c) ==
    /\ pc = "rollback"
    /\ c \in registered
    /\ RemoveCover(c)
    /\ registered' = registered \ {c}
    /\ UNCHANGED <<temps, db, txn, pc, item, done, before, unvisited, scans>>

\* The writer, and with it the transaction, is gone.
LeaveScan ==
    /\ pc' = "idle"
    /\ txn' = EmptyRows
    /\ item' = NoItem
    /\ done' = {} /\ registered' = {} /\ before' = {} /\ unvisited' = {}

EndRollback ==
    /\ pc = "rollback"
    /\ registered = {}
    /\ LeaveScan
    /\ UNCHANGED <<files, temps, stuck, db, scans, failures>>

\* Mutant of Commit: the collection visits only what this scan has written.
CommitVisitsWritten ==
    /\ pc = "write"
    /\ db' = txn
    /\ pc' = "collect"
    /\ unvisited' = registered
    /\ UNCHANGED <<files, temps, stuck, txn, item, done, registered, before, scans, failures>>

Commit ==
    /\ pc = "write"
    /\ db' = txn
    /\ pc' = "collect"
    /\ unvisited' = files
    /\ UNCHANGED <<files, temps, stuck, txn, item, done, registered, before, scans, failures>>

\* Mutant of Unreferenced: only what this scan has written is kept.
UnwrittenByScan(c) == c \notin registered

\* ~IsCoverReferenced, asked of the committed rows.
Unreferenced(c) == c \notin Referenced(db)

\* CleanupUnreferencedCovers, file by file.  A temporary file is not a
\* content-addressed path and is passed over.
CollectCover(c) ==
    /\ pc = "collect"
    /\ c \in unvisited
    /\ unvisited' = unvisited \ {c}
    /\ IF Unreferenced(c) THEN RemoveCover(c) ELSE UNCHANGED <<files, stuck, failures>>
    /\ UNCHANGED <<temps, db, txn, pc, item, done, registered, before, scans>>

\* All files visited, or the walk threw: both only end the scan.
EndCollection ==
    /\ pc = "collect"
    /\ LeaveScan
    /\ UNCHANGED <<files, temps, stuck, db, scans, failures>>

\* The process dies; SQLite drops the open transaction.
Crash ==
    /\ pc # "idle"
    /\ LeaveScan
    /\ UNCHANGED <<files, temps, stuck, db, scans, failures>>

-----------------------------------------------------------------------------
WriterStep ==
    \/ BeginScan
    \/ \E b \in Books, c \in Covers \cup {NoCover} : CacheInpxCover(b, c)
    \/ RenameCover
    \/ RecordCover
    \/ Abandon
    \/ \E c \in Covers : RollbackCover(c) \/ CollectCover(c)
    \/ EndRollback
    \/ Commit
    \/ EndCollection

Next == WriterStep \/ Crash

Spec == Init /\ [][Next]_vars

-----------------------------------------------------------------------------
(* Properties                                                              *)

\* Every cover the committed catalog refers to is on disk, at every moment and after
\* any crash: no rollback of a scan and no garbage collection takes a file that
\* another book, or an earlier scan, still shares.
ReferencedCoversExist == Referenced(db) \subseteq files

\* The reference counts and the byte counter, which are only ever adjusted, agree with
\* the rows of the committed catalog; so the budget, which ValidateCoverCacheBudget
\* compares with the counter, bounds the covers the catalog refers to.
CoverStatisticsExact ==
    /\ \A c \in Covers : db.refs[c] = StoredReferences(db, c)
    /\ db.bytes = Bytes(Referenced(db))
    /\ Bytes(Referenced(db)) <= MaxCoverBytes

\* A scan that is rolled back to the end leaves the cover files as it found them, up
\* to files that could not be removed.
RollbackRestoresFiles ==
    [][ pc = "rollback" /\ pc' = "idle" /\ registered = {}
        => files \ stuck = before \ stuck ]_vars

\* A collection that has visited every file leaves only referenced covers, those an
\* earlier crash or failure stranded included.
CollectionComplete ==
    [][ pc = "collect" /\ pc' = "idle" /\ unvisited = {}
        => files' \ stuck \subseteq Referenced(db) ]_vars
=============================================================================
