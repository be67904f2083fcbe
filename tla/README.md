# TLA+ specification of InpxWebReader

InpxWebReader serves a read-only collection of FB2 books. An INPX file lists the books in
segments, ZIP archives hold them. A scan brings a SQLite catalog and a cover cache up to date with
the collection; an HTTP server lists the catalog, sends covers and books (converted to EPUB on
request) and runs one scan at a time; a browser pages through the lists. The owner of the
collection may replace any of its files at any moment.

This directory models the parts of the program where threads, processes, files, transactions and
late answers meet. Each run below is repeated with `tlc -config <run>.cfg <module>`, each proof
with `tlapm <module>_proofs.tla`. `PROJECT.json` maps every definition to the lines it models and
lists the hazards of the code, each at its line, with the properties aimed at it.

## Inventory

| Component | State | Operations | What is hard | Module |
|---|---|---|---|---|
| Scan and rescan (`libs/App/InpxScanJobService.cpp`, `RunScan`) | rows of `inpx_segments`, `inpx_deletions`, `inpx_book_locations`, `catalog_statistics`; plans and archive guards | plan, upsert, index, reconcile, check, commit | a history of incremental scans must equal a full one; source and archives change meanwhile | `InpxRescan`, `CatalogPublication` |
| Payload pipeline (same file, record loop) | window of tasks, bytes reserved | submit, take, write, drain | tasks point into the scan's frame; budget; errors anywhere | `PayloadPipeline` |
| Cover cache (same file; `CatalogStatisticsMaintenance.cpp`) | files, reference rows, sizes | write, record, roll back, collect | files and database are not one transaction; crash | `CoverCache` |
| Cover requests (`ServerApplicationHost`, `HttpServer.cpp`) | the request's look-ups | look up, resolve, open, send ranges | the file goes between look-up and open; range arithmetic | `CoverReaders`, `FileRanges` |
| Scan jobs, coordinator, executor (`InpxScanJobService`, `ServerScanCoordinator`, `BackendExecutor`) | job records, workspaces, queue, last progress | start, poll, cancel, remove, shut down, start again | a poll is up to three calls through a queue that may be full; cancel races the end | `ScanService`, `ScanLedger` |
| Downloads (`BookDownloadFacade`, `FileReplacement`, `InpxArchiveAccess`) | descriptor, staged file, destination, backup | load, validate, extract, prepare, publish, roll back | each check is older than the next step; every file operation can fail | `Download` |
| Converter (`libs/Converter`) | executable identity, process group, output | probe, launch, supervise, terminate, seal | deaf, stuck and escaped processes; deadline against late exit; the executable is replaced | `ConverterProcess` |
| Application host (`ServerApplicationHost`) | open flag, application, stop source, operations | open, close, begin and end a download | flag, pointer and counter have different protections; Close waits for processes | `ServerHost`, `HostConversion` |
| HTTP server (`HttpServer.cpp`, `main.cpp`) | queue, overload slot, gate, download roots, storage monitor | accept, take, prepare, stream, stop | order of shutdown; a lease spans threads and callbacks; a notification can be lost | `HttpService` |
| Configuration, bootstrap, schema (`ServerConfig.cpp`, `InpxCacheBootstrap.cpp`, `SchemaInitializer.cpp`) | documents and environment, cache root, database | load, validate, open or create, inspect, seed | the process dies anywhere; databases of other builds; layers contradict each other | `ServerStartup` |
| Source fingerprint and overview (`CInpxCatalogApplication.cpp`) | cached digest | refresh, report, start a scan | stale cache, torn reads, a commit between page and state | `ServerStartup` |
| Queries and cursor sessions (`SqliteBookQueryRepository.cpp`, `BookListCursor.cpp`) | sessions, reserved ids | reserve, publish, read page, evict | catalog and generation change between the critical sections of one request; counters kept by differences | `CursorSessions` |
| List of the web client (`web/.../useCursorBookPages.ts`, `catalogPages.ts`, `catalogState.ts`) | query cache, pages, known snapshot | fetch, continue, retry, reset | answers arrive after what they were asked for has changed | `WebCatalog` |
| Parsers, path rules, authentication, JSON, SQL text, scripts | | | sequential, text or formatting | not modelled |

How they interact: request threads of the HTTP server call the coordinator, which holds its mutex
while it submits calls to the executor's single backend thread and waits for each; there the job
service starts a worker thread per scan. The worker writes to the database in one transaction and
to the cover cache. Downloads do not pass the executor: they run on the request thread, registered
with the host, and read the catalog in one snapshot. The main thread loads the configuration, opens
the host, decides about a startup scan, waits for a signal, stops the HTTP server and closes the
host.

## Modules

**`InpxRescan`** is the core. `db` is what readers see, `txn` the rows as the scan's transaction
sees them. A scan goes through the places of `RunScan`: `StartScan` (digest of the source),
`CopySnapshot`, one planning action per segment in file order (`PlanWithoutArchive`,
`ReadArchiveState`, `ReadArchiveManifest`, `ValidateArchivePayloads`), `BeginTransaction`
(removed segments, upserts, the ids that unchanged segments keep), `OpenArchive` and
`IndexRecord` per record, `Reconcile` (rows not seen, delete markers, restored rows, the counter),
`ValidateArchiveGuard` per archive, `VerifySource`, `Commit`. Any early return or exception is
`EndScan` or `AbandonScan`: the transaction is rolled back by the writer's destructor. The owner's
`ReplaceSource` and `ReplaceArchive` interleave everywhere. A digest or a manifest fingerprint is
equality of contents (no collisions). The file state of an archive (`stat`) is a number that grows
with every replacement: a replacement that keeps size and modification time cannot be noticed by
the code's guards, and is excluded. `libzip` may read an entry from the contents it opened or,
where the file was changed in place, from the new ones: `ReadableContents`.
**`CatalogPublication`** is what this promises to readers: a scan is asked for one INPX file and is
dropped, or, once that file was seen in its place again after the work was done, everything readers
see changes in one step to what the file lists, counted, with every earlier row still known.
`InpxRescan` implements it through the mapping at its end.

**`PayloadPipeline`** is the record loop seen as a producer of parsing tasks. What a record writes
is left to `InpxRescan`; here a record has a size and an archive, and may fail to be read, parsed
or written. Tasks finish in any order; `TakeParsedRecord` takes the first one ready.

**`CoverCache`** has the files, the temporary files, the committed rows and the rows of the
transaction. A cover is its contents, so its path is its digest. `CacheInpxCover` registers the
path for rollback before `RenameCover` makes it exist. `Crash` may fall between any two steps, and
up to `MaxFailures` removals fail (the files in `stuck`). **`CoverReaders`** EXTENDS it by requests:
the backend thread reads the row and tests the path, the HTTP worker asks for the size and opens
the file, and a scan may commit, roll back or collect between any two of these looks.
**`FileRanges`** has `NormalizeRequestedRanges` as operators (the normalisation, the erased ranges,
the binary indexed tree that counts overlaps, all in the order of the code) beside a reference that
is only about sets of bytes. Its loops are recursive functions, which the proofs can take apart.

**`ScanService`** has one action per critical section of the job service, the executor and the
coordinator. A request thread holds the coordinator's mutex over several calls; each call is
submitted (or refused: overload, stopping), run by the backend thread, and its reply resumes the
request. The worker publishes Running, ends by completion, failure or cancellation, and publishes
its result. `BeginClose`/`EndClose` are the destructor, `Crash` and `Boot` lose the memory and sweep
the job workspaces. **`ScanLedger`** is the abstract promise: a job begins, may be asked to
stop, ends once with one outcome (cancelled only if asked) and is then forgotten. `ScanService`
implements it through the mapping at its end.

**`Download`** is one call of `PrepareDownload`. Its three rounds of validation (before staging,
after it and after publication) each check the source digest, the file state of the archive behind
the path, and its manifest through one descriptor. The archive is a path to an inode, so that
replacing by rename and writing in place are different edits. `Reject` and the two rollback actions
follow `ReplaceDestinationWithPreparedFile`.

**`ConverterProcess`** is one call of `Convert`: the identity of the executable, the probe (open and
compare, then run), a second look, `StartProcess` (open, compare, fork), the 25 ms loop (stop token,
`waitpid`, the rest of the group, the deadline), `TerminateAndWait` (TERM, two seconds, KILL, the
blocking `waitpid`, two more seconds), and the copy of the single produced file, block by block
between two looks at its state. The child calls `fexecve` in a step of its own (`ExecuteConverter`),
any time after the comparison, or gives up with 127. An executable is a file (device and inode) with
bytes: the owner renames files over the configured path, to and fro, and writes into them in place,
between any two steps. Bytes are numbered in the order they were written, and size and times of a
file are taken to change with each write. So what the code can promise is stated with its limit: a
rename never makes another file run, since the descriptor that was compared is executed, while a
write into this very file after the comparison does make unprobed bytes run, and
`OnlyProbedExecutableRuns` excepts exactly that case. The converter is a leader and a helper it may
start; each may ignore TERM, hang in uninterruptible I/O, end or, the helper, leave the group, and
write until its directory is gone. What a process that left the group does to the delivered copy
once `Convert` has returned is not modelled.

**`ServerHost`** has the owner thread (Open, Close) and the download threads; an application is a
number, so that use after `reset` is visible. The check of `m_isOpen` and the registration of the
operation are two steps, as the flag is changed without the mutex that covers both.
**`HostConversion`** composes it with `ConverterProcess`: one download may ask for EPUB and then
converts, the stop source of the host is what the process loop polls, and `Close` waits for the
processes.

**`HttpService`** EXTENDS `ServerHost` and puts the requests around it: `Enqueue`, the workers, the
overload worker, the download gate, the removal of download roots, the streaming of the file with
its lease, the storage status monitor with its condition variable, and the main thread from
`RunServerMain`. There a conversion is only something that ends, is cancelled or meets its deadline.

**`ServerStartup`** has lives of the process over one cache directory. `Launch` loads the
configuration (document, environment, the rules of `Validate` for limits and source; those for host,
token and port look at one loaded configuration and are left out), `OpenHost` chooses the open mode,
then come the directories one by one, the connection, `InspectDatabase` with the validators of
`SchemaInitializer`, and the seed: schema, digest of the source, row and version in one transaction.
A life may die between any two of these steps, and the next one starts from what is on disk; Init
also has databases of other builds. While the process serves, requests on the backend thread and on a
download thread go through `ResolveSourceState` and `RefreshSourceFingerprint`: the mutex, size and
time, the cached digest or a new one, the second look at size and time. A digest computed while the
file changes may be that of either contents or of neither (`Torn`). What a scan publishes is taken
from `InpxRescan` (`PublishScan`). The main thread asks for the status in two calls and applies the
startup policy.

**`CursorSessions`** is `SearchPage` with the sessions behind continuation cursors. A published
catalog is a number, which stands for the source fingerprint and the snapshot id, and a query is
the length of its list in each catalog. A request keeps the catalog of its read transaction (the
schema sets WAL mode, `SchemaInitializer.cpp:693`); the comparison with the committed one uses
another connection and happens under the mutex. One action per critical section; the time a
request read before it took the mutex may be old when used (`moment`). The rows of a page may be
unreadable, or missing, after the slice was taken from its session; a failure before the sessions
are touched leaves everything as it was and is not an action. A session carries the number
of its reservation instead of its 16 random bytes, which never collide. The repository is
modelled for callers in parallel, as its mutex and its unit test
(`TestSqliteBookQueryRepository.cpp:400`) intend; the server today sends its queries through the
one backend thread, while scans commit on theirs. `Restart` loses the sessions.
**`WebCatalog`** is the client of these sessions: the query cache under the context key, the pages
of the pagination session, one first page and one continuation under way at a time, answers to
aborted requests, recoverable errors, the reset after a scan, and the refresh of the source.

The `MC` modules only give constants their values. Definitions introduced by the word *Mutant* are
wrong variants of the next definition; no specification uses them. Replacing the right one by its
variant breaks the property that `PROJECT.json` names, which shows that the property watches that
code.

## Runs

| Run (distinct states) | Checks | Bounds and why they are enough |
|---|---|---|
| `rescan_history` | `CatalogIsFullScan`, `StatisticsExact` | 3 segments, 1 book, 3 scans, 2 replacements among all files over these segments. Withdrawing and restoring needs a record, a marker and a third segment to add, drop or reorder, and a third scan to undo what the second did. |
| `rescan_races` (345 thousand) | `PublishedPayloadsAdmitted`, `ImplementsPublication`, `ScanEnds` | 2 archives, 2 books, 2 scans, chosen files, 1 edit during a scan. The edit may fall between any two steps; a second scan meets the state the first left. |
| `scan_service` (170 thousand) | `NoOrphanedJob`, `ReportedResultMatches`, `ImplementsLedger`, `CancelTakesEffect`, `ShutdownEnds`, `RequestsAnswered` | 2 request threads, a queue of 1 (so any call can be refused), 2 jobs, 4 requests, one process life that may inherit any workspaces and may crash. |
| `cover_cache` (472 thousand) | `ReferencedCoversExist`, `CoverStatisticsExact`, `RollbackRestoresFiles`, `CollectionComplete`, `SteadyCoverDelivered`, `RangesExact` | 2 books (symmetric), 3 covers of sizes 1, 1, 2, budget 2, 3 scans, 1 failing removal, 1 reader: covers are shared, swapped, dropped and met again. Range headers over offsets 0 to 4 for files of sizes 0 to 5: every single range and pair, and sets of up to five, so that overlaps and the limit on their number occur. |
| `download` (809 thousand) | `DeliveredMatchesCatalog`, `DestinationRecoverable`, `StaleNeverDelivered` | 2 sources, file states, manifests and inodes; 3 edits, so that a file can change and change back between two checks. |
| `host_lifecycle` (818 thousand) | `NoUseAfterReset`, `OnlyProbedExecutableRuns`, `GroupStopped`, `DeliveredOutputWhole`, `CloseEnds` | 1 download, which asks again and again, for EPUB or for the stored file, 2 opens, a leader and a helper; 2 executables of which one answers the probe, a write into either of them, any number of renames to and fro; an output of 2 blocks and 2 writes, so that one can fall between the blocks of the copy. Several downloads at once are in `http_service`, and any number of them in the theorems. |
| `http_service` (224 thousand) | `PreparedFilesBounded`, `RequestsAnswered`, `ServerStops` | 3 requests, 2 workers, 1 queue slot, 1 lease, 1 root that cannot be removed: queue, overload slot and gate all fill. |
| `http_shutdown` | `ShutdownCancelsConversions` (violated) | 1 request, 1 worker. |
| `payload_pipeline` | `PayloadMemoryBounded`, `NoTaskOutlivesScan`, `EveryRecordWrittenOnce`, `ScanLeaves` | 5 payloads in 2 archives, window 3, 4 bytes: the window, the budget and the change of archive each force a drain. |
| `cursor_sessions` (1.5 million) | `CursorMemoryBounded`, `PagesOfOneCatalog`, `ListFollowsSource`, `CurrentCursorsKept` | One browser with two requests under way (symmetric; an aborted one goes on in the server and competes with the next), 2 queries, 2 catalogs, 4 requests, 2 changes of mind, 2 sessions, 6 ids: lists of 1 to 5 books, so that one answers without a session, one fills a session and one exceeds it; the clock reaches the expiry. |
| `startup` (1.8 million) | `NoPartialDatabase`, `CompleteCacheOpens`, `OffersGenuine` | 2 lives, 2 contents of the INPX file (symmetric) of equal size, 1 replacement and any number of unmounts, 4 documents and 4 environments that complete and contradict each other, limits of 3 bits. A second life meets what the first left; one replacement can fall into every digest, between page and state, and between two requests. |
| `startup_recreate` | `DeletedDatabaseRecreated` (violated) | as `startup`. |

What they show. `CatalogIsFullScan`: whatever was reused, the catalog is the one that a scan from
nothing would make of the last published file. `PublishedPayloadsAdmitted`: metadata that came from
an archive was read from contents that the catalog's own guard describes. `ImplementsPublication`:
every step of the scan is a step of the publication or none; readers go from the books of one
confirmed file to those of another, with their number, and no row is dropped. `NoOrphanedJob`: a refused
call in the middle of a poll never strands a job. `ImplementsLedger`: every step of the service is a step of the ledger or none.
`SteadyCoverDelivered`: a book whose cover stays the same never loses it to a scan that commits, is
rolled back or collects while the cover is asked for. `RangesExact`: the bytes sent are those that
RFC 9110 gives for the header. `DeliveredMatchesCatalog` and `StaleNeverDelivered`: a prepared file
has the contents the catalog describes, and is not returned when the last check saw otherwise;
`DestinationRecoverable`: a failed download leaves the previous file in place, or in its backup when
the rollback itself failed. `NoUseAfterReset`: no download works with a destroyed application.
`GroupStopped`, `CloseEnds`: however a conversion ends, no process of its group goes on, and Close
returns although the converter ignores TERM and its deadline is far. `OnlyProbedExecutableRuns`: what
is executed is the file that was validated, and its bytes answered the probe unless they were
written after the comparison that precedes the fork. `DeliveredOutputWhole`: a delivered file is
the output as it was at one moment, although an escaped process may write between the blocks of the
copy, and it comes from a converter that ran, ended with 0 and left nobody in its group.
`ServerStops`: a lost notification of the
monitor costs one interval, not the shutdown. `PagesOfOneCatalog`: the pages a browser puts one
after the other are one list of one catalog, whatever was published, expired, evicted or late;
`ListFollowsSource`: once it has heard of a catalog it shows no older list; `CurrentCursorsKept`: a
request overtaken by a publication costs no current client its cursor. `NoPartialDatabase`: after a
death at any point the next life finds no database, an empty one or a complete one.
`CompleteCacheOpens`: whatever became of the source, a life over a complete cache is stopped on its
way to serve only by a half configured source or by the converter, and later only when the scan its
startup policy asked for is refused. `OffersGenuine`:
an answer never names a digest that the file did not have while the request ran, and a list offers
downloads only for the catalog it lists.

Deadlock checking is off where the system may rest: nobody need scan, download or shut down, and
the bounds end every behaviour.

### Findings

* `http_shutdown`: the main thread joins the HTTP workers before it closes the host, and only the
  close requests the stop of downloads. A conversion that hangs at shutdown is not cancelled and
  holds the process up to the five-minute deadline; the documents speak of shutdown cancellation.
* `startup_recreate`: a database of another version is refused with the advice to delete the
  database file so that it can be recreated. The directories beside it stay, the next start
  chooses to create a new cache, and `PrepareNewCache` refuses the root because it is not empty.

Met while modelling, and not turned into runs of their own:

* An existing cache is promised to keep browsing without its source (`docs/ServerWebDeployment.md:56`).
  When the status finds the source changed and the policy wants a rescan, `StartInpxScan` looks at
  the source again. If it is gone by then, the exception (`CInpxCatalogApplication.cpp:588-598`, past
  `main.cpp:181`) ends the process, which served the catalog already. The same loss a moment
  earlier leaves it browsing. `CompleteCacheOpens` states exactly this exception.
* A limit of `-1` in the environment is accepted as 2^64-1, because `std::stoull` takes a minus sign
  and wraps (`ServerConfig.cpp:246`). The program says of such a variable that it must be an
  unsigned integer, and refuses the same number in the document.
* A life that dies after the creation of the first directory and before that of the database file
  leaves a root that is neither empty nor a cache; every later start says so and stops.
* A life that dies between the seed and the startup scan leaves an existing, never scanned cache.
  The next life does not scan it unless `autoRescanOnSourceChange` and a changed file ask for it:
  the policy for an empty cache applies to a newly created one (docs/ServerWebDeployment.md:60).
* Requests are served before the startup scan is begun; a scan that a client began first is a
  conflict, and the exception ends the process (`main.cpp:181`). `CompleteCacheOpens` excepts it too.
* A converter process that leaves the process group is not stopped; `GroupStopped` is about the
  group. A leader in uninterruptible I/O holds the blocking `waitpid` until it wakes.

### Fairness

Threads that are running keep running: weak fairness of each scan worker, the executor, each
request thread holding its place, the main thread, the owner thread and the monitor (whose wait ends
after its interval). Parsing one payload ends (the parser works on a bounded buffer). In
`HostConversion` neither the converter nor its deadline is fair, so `CloseEnds` rests on the stop
token and the signals; uninterruptible I/O ends (`ProcessWakes`), as the blocking `waitpid` assumes.
In `HttpService` a conversion ends at its deadline at the latest. Requests, edits, cancels, signals
to the server and crashes are never fair: nobody is obliged to make them. Locks need no strong
fairness in these instances: a request waits for the mutex only while the holder, which is fair, has
finitely many calls left.

## Proofs

Each theorem holds for every value of the constants that satisfies the named `ASSUME`s: any number
of segments, books, requests, readers, browsers, jobs, lives, edits and failures, any queue depth,
window, budget and capacity. Every module has the theorem `Invariance` (`HttpInvariance` for the
HTTP server) about its inductive invariant; the others follow from it. The invariants were first
checked by TLC on the instances of the runs.

| Module | Theorems (the property each proves) |
|---|---|
| `InpxRescan_proofs` | `TypeCorrect`, `CatalogIsAlwaysFullScan` (`CatalogIsFullScan`), `PayloadsAlwaysAdmitted` (`PublishedPayloadsAdmitted`), `StatisticsAlwaysExact` (`StatisticsExact`), `ScanImplementsPublication` (`ImplementsPublication`) |
| `PayloadPipeline_proofs` | `PayloadMemoryAlwaysBounded` (`PayloadMemoryBounded`), `TasksNeverOutliveScan` (`NoTaskOutlivesScan`), `RecordsAlwaysWrittenOnce` (`EveryRecordWrittenOnce`), `EveryStepCounts` and `NeverWaitsInVain` (the safety halves of `ScanLeaves`) |
| `CoverReaders_proofs` (with `CoverCache` and `FileRanges`) | `CoversAlwaysExist` (`ReferencedCoversExist`), `CoverStatisticsAlwaysExact` (`CoverStatisticsExact`), `CoverAlwaysDelivered` (`SteadyCoverDelivered`), `RollbackAlwaysRestores` (`RollbackRestoresFiles`), `CollectionAlwaysComplete` (`CollectionComplete`), `AnswersExact` and from it `RangesAlwaysExact` (`RangesExact`) |
| `ScanService_proofs` | `JobNeverOrphaned` (`NoOrphanedJob`), `ResultAlwaysMatches` (`ReportedResultMatches`), `ServiceImplementsLedger` (`ImplementsLedger`), `NobodyWaitsInVain` (the safety half of `RequestsAnswered`), `StopsAlwaysReachThreads` and `StopsAreKept` (of `CancelTakesEffect` and `ShutdownEnds`) |
| `Download_proofs` | `DeliveredAlwaysMatches` (`DeliveredMatchesCatalog`), `DestinationAlwaysRecoverable` (`DestinationRecoverable`), `StaleAlwaysStaysOut` (the safety half of `StaleNeverDelivered`) |
| `ServerHost_proofs` (with `HostConversion` and `HttpService`) | `ApplicationOutlivesDownloads` (`NoUseAfterReset`), `OnlyProbedAlwaysRuns` (`OnlyProbedExecutableRuns`), `GroupAlwaysStopped` (`GroupStopped`), `OutputAlwaysWhole` (`DeliveredOutputWhole`), `CloseWaitsForTheStopped` (the safety half of `CloseEnds`), `PreparedFilesAlwaysBounded` (`PreparedFilesBounded`) |
| `ServerStartup_proofs` | `NeverPartialDatabase` (`NoPartialDatabase`), `CompleteCacheAlwaysOpens` (`CompleteCacheOpens`), `OffersAlwaysGenuine` (`OffersGenuine`) |
| `WebCatalog_proofs` (with `CursorSessions`) | `CursorMemoryAlwaysBounded` (`CursorMemoryBounded`), `PagesAlwaysOfOneCatalog` (`PagesOfOneCatalog`), `ListAlwaysFollowsSource` (`ListFollowsSource`), `CurrentCursorsAlwaysKept` (`CurrentCursorsKept`) |

Assumptions. Sets that the code counts are finite (`LibIds`, `Books`, `Covers`, `Downloads`,
`Contents`); null values (`None`, `NoCover`, `NoRow`, `NoCursor`, `Nobody`, `Free`, ...) lie outside
the sets they stand beside; limits that the code requires to be positive are; the segments of one
INPX file have distinct positions, because the parser refuses others; `Documents` and
`Environments` have the fields that `ServerConfig` reads. TLC evaluates these on the runs.

### The arguments

**`InpxRescan`.** `CatalogIsFullScan` is not inductive: it says nothing of a running scan, nor of
why a segment may be reused. `IInv` adds (1) `CatalogInv`: rows and segments of the committed
catalog agree in both directions, availability is what the markers say, and each stored pair of file
state and manifest was true of the archive at some time (`Witnessed`: if the state is still the
same, so is the content); (2) `PlanningInv`, `PlanOK`, `GuardInv`: a plan says Unchanged only for a
segment whose text is the committed one, and its archive data come from the guard or from the
catalog; (3) `TransactionInv`, `IndexInv`: rows not yet written are the committed ones, and every
active record of a parsed segment is either still to be indexed or written there; (4)
`PayloadsGuarded`: a payload that is not the planned one means that the archive has moved past its
guard, so the closing check fails; (5) `ClosingInv`: after `Reconcile` the transaction already
satisfies what the catalog must. The proof has one lemma per action, and `Commit` turns (5) into
(1). For the counters `StatisticsInv` adds that those of the transaction are exact too, from which
`WriteCounted` and `ReconcileCounted` show that the three statements of the reconciliation change
disjoint sets of rows. The refinement needs one fact more, that no file is expected while no scan
runs (`RestSource`). `StartScan` is then `Ask`, `VerifySource` is `Confirm`, every way a scan can end
without a commit is `Drop`, and `Commit` is `Publish`: `FullScanShelf` turns what `CatalogIsFullScan`
and `StatisticsExact` say of the new catalog into the shelf and the number that the file lists.

**`PayloadPipeline`.** A record is in exactly one place (`RecordInv`: not reached, in the window,
in the scan thread's hand, written, dropped) and only a place between submission and return holds
bytes (`BudgetInv`). `PlaceInv` says what the scan thread may rely on where it stands, in
particular that the pool is empty when it leaves. The lemmas about queues (`TakenOut`, `FrontTaken`,
`Queued`) show what `RemoveAt`, `Tail` and `Append` do to the set of tasks in flight. That the scan
leaves is split in two. `StepsLeft` is a natural number that every step lowers: a record costs more
than all the steps of its turn and of the task it submits, a task in flight more than its drain.
And nobody waits for nothing: what the scan thread holds was given to the pool (`HeldInv`), so the
task it is blocked on has ended, or the pool has a thread at work or free for the oldest task.

**`CoverCache` and `CoverReaders`.** `RollbackInv` is the heart: what the scan has registered was
not on disk when it began, so no committed row names it, and no other file was added; hence a
rollback can remove it blindly. `ReferenceInv` says the same of the rows of the open transaction,
which `Commit` makes the committed ones; `CollectionInv` that a file not yet visited is the only one
that may lack a reference. A reader either still has the cover of a committed row or the row has
changed since (`ReaderInv`). The byte counter is exact because a cover adds its size with its first
reference and takes it away with its last (`StatisticsInv`), for rows that replace each other in
either order.

**`FileRanges`.** Strict inclusion of finite sets is well-founded, which gives every non-empty set
of natural numbers a least element (`Least`), and least counterexamples do the work of induction.
`Recursion` shows once that a recursive definition whose argument goes down along a measure has a
solution, so that the function satisfies its equation; `LowestBit` and the walks up and down the
tree are instances. Place `p` of the tree stands for the starts from `p - LowestBit(p) + 1` to `p`
(`StandsFor`): `recordEnd` writes exactly the places that stand for its index, and the places that
`readMaximumEnd` reads stand together for all starts up to its index. So, by an invariant of the
loop, the tree answers for the largest end among the ranges before that start no later than this one
ends (`VisitExact`), which reaches this one's first byte just when two ranges share a byte
(`IntervalsMeet`, `OverlapsExact`). Erasing and normalising keep the satisfiable ranges and their
order: the place of a range in the answer is the number of satisfiable ranges up to it
(`KeptExact`).

**`ScanService`.** A job is known only while somebody has it in hand: the coordinator by
`m_activeJobId`, the start that is under way, or the request its start has just returned to
(`KnownInv`). `CallOK` says for each call of a poll what is true when it returns: between the
snapshot of a finished scan and its result nobody can remove the job, because only the holder of
the coordinator's mutex calls the job service (`LockInv`), and each request is at most once in the
executor's hands (`ExecutorInv`). `WorkerInv` ties status, result and thread together. With these
the refinement is a case for each action: `PublishResult` is the ledger's end of a job, the critical
section of `CancelJob` its request, the spawning of the thread its beginning, and every other step
leaves the mapped state alone. Two more invariants concern waiting. `WaitInv`: a request that waits
for its call is in the queue or with the backend thread; with `LockInv`, whoever waits for the mutex
waits for a request with a call under way, never for one that waits for the mutex. `ThreadInv`: the
thread of a job in the map was not joined, that of a job being removed has ended, so the join does
not block the backend thread; a promised stop was requested, of all threads when the service closes.

**`Download`.** `PayloadInv`: the manifest that was compared last is the one of the directory the
entry is extracted from, through the same descriptor; from there on the payload only moves.
`DestinationInv`: the previous file is in place, then in the backup, then in place again, and every
failing step stays in one of these. For `StaleAlwaysStaysOut` three more invariants are relative to
a collection that stays changed: the last round of validation is not passed beyond the check that
sees it (`Unpassed`), and for the contents (`OtherManifest`) the open descriptor has other contents,
since a file that the path no longer names is not written any more (`InodeStep`).

**`ServerHost`, `HostConversion`, `HttpService`.** The counter is the number of downloads that
point to the application (`CounterInv`), and nobody comes between the wait of a Close and the next
Open: whoever has passed the check of the flag holds the mutex, which the wait takes (`MutexInv`,
`OwnerInv`). `StopInv` and `ContextInv` add that their stop token is that of the open host. For the
conversion, after SIGKILL or a look that found the group empty nobody runs, and whoever is stuck
dies when it wakes (`Quiet`). Bytes written to a file are newer than any seen before (`FreshInv`), so
a descriptor whose bytes are not the validated ones was written to after the comparison, and while
the identity still holds at the second look its bytes are those the probe ran (`ProbeInv`). A leader
that ended without SIGKILL had executed the converter or reports 127 (`LeaderInv`), hence exit code 0
means that it ran. As long as the file's state is the first one the blocks read so far are the blocks
that are there (`OutputInv`), so an unchanged state at the end makes the copy the whole output of
that moment. What Close waits for follows from two small invariants more: a
conversion belongs to a call that is preparing (`ConversionInv`), and Close waits after it has
requested the stop of the last Open's source (`AskedInv`), which `ContextInv` makes the source of
every download it waits for. For the HTTP server a lease is held from the gate to the end of the
response (`LeaseInv`), a root exists only within (`RootInv`), and the main thread closes the host
when queue and workers are gone (`MainInv`).

**`ServerStartup`.** Every database without a schema is one this build left before its first
COMMIT (`DatabaseInv`), so the next life may initialise it; `LifeInv` says what each point of a life
knows of the database. A complete database is neither missing, nor empty, nor without a schema, so
the steps that need the source to open a cache are not reached from it (`OpeningComplete`); while
the main thread waits for a startup scan, the policy that asked for it still does (`PolicyInv`). A digest is `Genuine` for a size and time: should the file still have these,
the digest is that of its contents. The cache and a call that is about to verify keep that through
every replacement, because a replacement changes the time.

**`CursorSessions` and `WebCatalog`.** A number that was given once names at most one session,
and that session is of the catalog it was given for (`Settled`). So a cursor that was handed out
stays `Sound` however long a browser keeps it: its session may be evicted, expired or lost in a
restart, but never be another catalog's. An answer is `Whole`; what a browser has in its cache, and
what it expects of the requests it waits for (`Expected`), is for its query and not older than the
catalog it knows. Answers to aborted requests are covered, as nobody waits for them.

Sums are stated as cardinalities: the bytes of a set of payloads, the bytes of covers and the
ids of sessions are the numbers of pairs of an element and a unit of its size. TLC counts the same,
and the theorems about finite sets of the library apply, where a recursive sum would need an
induction of its own.

### Only model-checked

* Liveness under fairness, which is out of the prover's reach: `ScanEnds`, `CancelTakesEffect`,
  `ShutdownEnds`, `RequestsAnswered`, `CloseEnds`, `ServerStops`, `ScanLeaves`, and of
  `StaleNeverDelivered` that the download ends. The safety that most of them rest on is proved: what
  decreases, that nobody waits for nothing, and that a stop reaches whom it is for. That the step
  which is waited for is enabled and is taken in the end stays with TLC.
* The two violated statements of the findings, which are counterexamples.

## Not modelled

* INPX and FB2 parsing, genre mapping, Unicode conversion and normalisation: text conversions
  without shared state, whose results are model values here; which records of a segment are active,
  and the order of segments, is in `InpxRescan`.
* SQL text, full-text search and facets: a result is the length of its list in a catalog.
* Path rules, image coding, the byte layout of ZIP, JSON, the command line, the rules for host,
  token and port, the comparison of the token, logging: formatting or library calls, with no state
  between two calls.
* Request parsing, static assets, and the views of the web client other than its list.
* Build, deployment and test scripts.

Excluded by assumption: a failure of the file system below SQLite, a digest collision, and an
archive, INPX file, executable or output changed without a change of size and time. `PROJECT.json`
says of each hazard without a property why it has none.

## Plan

1. Done: `InpxRescan` over `CatalogPublication`, `PayloadPipeline`, `CoverCache` with
   `CoverReaders` and `FileRanges`, `ScanService` over `ScanLedger`, `Download`, `ServerHost` with
   `ConverterProcess` (`HostConversion`) and with the HTTP server (`HttpService`), `CursorSessions`
   with `WebCatalog`, `ServerStartup`.
2. Done: the proofs above, which cover every invariant and action property of the passing runs, both
   refinements, and the safety that most of the liveness properties rest on.
3. Left to TLC: liveness itself. Left out: the parts listed under *Not modelled*.
