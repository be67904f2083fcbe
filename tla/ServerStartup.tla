----------------------------- MODULE ServerStartup -----------------------------
(***************************************************************************)
(* Lives of the server process over one cache directory: the configuration *)
(* (libs/Server/ServerConfig.cpp), RunServerMain (apps/InpxWebReader/       *)
(* main.cpp), the opening of the cache (InpxCacheBootstrap.cpp,            *)
(* SchemaInitializer.cpp, CInpxCatalogApplication.cpp) and the state of    *)
(* the INPX source that answers are built from.                            *)
(*                                                                         *)
(* The process may die between any two steps and is launched again.  The   *)
(* owner replaces or unmounts the INPX file at any moment; between two     *)
(* lives he may delete the database file, or the whole cache.              *)
(* A digest is the contents it was computed from, or Torn when the file    *)
(* was rewritten while it was read.                                        *)
(***************************************************************************)
EXTENDS Integers, Sequences, FiniteSets

CONSTANTS
    Contents,     \* contents of the INPX file
    SizeOf,       \* contents -> size of the file
    Torn,         \* digest of bytes no version of the file had
    None,         \* no digest
    Documents,    \* JSON configurations that are tried
    Environments, \* environments that are tried
    SizeBits,     \* width of std::size_t
    MaxEdits,     \* bound: replacements of the INPX file
    MaxLaunches   \* bound: lives of the process

ASSUME StartupAssumption ==
    /\ IsFiniteSet(Contents)
    /\ SizeOf \in [Contents -> Nat]
    /\ Torn \notin Contents
    /\ None \notin Contents \cup {Torn} \cup [size : Nat, stamp : Nat]
    /\ Documents \subseteq [inpx : {"", "set"}, archive : {"", "set"}, limit : Int,
                             autoScan : BOOLEAN, onEmpty : BOOLEAN, onChange : BOOLEAN]
    /\ Environments \subseteq [inpx : {"set", "unset"}, archive : {"set", "unset"},
                                limit : Seq(Int)]
    /\ SizeBits \in Nat
    /\ MaxEdits \in Nat /\ MaxLaunches \in Nat

VARIABLES
    dirs,      \* managed directories that exist in the cache root
    db,        \* the database file
    file,      \* the INPX file: contents, time stamp, and whether it is mounted
    pc,        \* where the main thread stands, "down": no process
    config,    \* SServerConfig of this life
    mode,      \* ECacheOpenMode
    failure,   \* how the last life ended
    followed,  \* the owner deleted the database because the last life told him to
    launches,  \* lives so far
    digest,    \* digest the seed of a new catalog computes
    cache,     \* SSourceFingerprintCache
    lock,      \* holder of fingerprintCacheMutex
    op,        \* thread -> its request to the application
    status,    \* SServerStatus, as far as the startup policy reads it
    scan,      \* digest the running scan was started for
    seen       \* history: contents the file had since the seed began

diskVars == <<dirs, db, file>>
mainVars == <<pc, config, mode, failure, followed, launches, digest, status, seen>>
callVars == <<cache, lock, op>>
vars     == <<diskVars, mainVars, callVars, scan>>

-----------------------------------------------------------------------------
(* What is on disk                                                         *)

Directories == {"Root", "Database", "Covers"}

\* The objects of sqlite_master, each with its definition.
Objects       == {"table", "index", "search index"}
CurrentSchema == {<<o, "current">> : o \in Objects}

NoDatabase    == [file |-> FALSE, version |-> 0, schema |-> {}, dangling |-> FALSE,
                  source |-> None, books |-> FALSE, foreign |-> FALSE]
\* What sqlite3_open_v2 creates.
EmptyDatabase == [NoDatabase EXCEPT !.file = TRUE]

\* PersistNewSource: the row of a catalog that was never scanned.
SeededDatabase(d) ==
    [EmptyDatabase EXCEPT !.version = 1, !.schema = CurrentSchema, !.source = d]

\* Other builds lack an object, shape or only word it differently, or have one more.
ForeignSchemas ==
    {CurrentSchema \ {<<o, "current">>} : o \in Objects}
    \cup {(CurrentSchema \ {<<o, "current">>}) \cup {<<o, def>>} :
              o \in Objects, def \in {"reshaped", "reworded"}}
    \cup {CurrentSchema \cup {<<"trigger", "other">>}}

\* Databases of other builds: of another version, without a version, of another shape, or
\* with rows whose references lead nowhere.
Foreign(c) == [SeededDatabase(c) EXCEPT !.foreign = TRUE]

DatabasesOfOthers(c) ==
    {[Foreign(c) EXCEPT !.version = v] : v \in {0, 2}}
    \cup {[Foreign(c) EXCEPT !.schema = s] : s \in ForeignSchemas}
    \cup {[Foreign(c) EXCEPT !.dangling = TRUE]}

ForeignDatabases == UNION {DatabasesOfOthers(c) : c \in Contents}

HasUserSchemaObjects(d) == d.schema # {}

\* A shape is what PRAGMA table_info, foreign_key_list and index_info tell.
HasShape(d, object) == \E def \in {"current", "reworded"} : <<object, def>> \in d.schema

ValidateRequiredSchemaObjects(d) == \A o \in Objects : \E part \in d.schema : part[1] = o
ValidateRequiredTableShapes(d) == HasShape(d, "table")
ValidateRequiredIndexShapes(d) == HasShape(d, "index")
ValidateRequiredSearchIndexShape(d) == HasShape(d, "search index")
ValidateCatalogRelations(d) == ~d.dangling

\* Compared with what GetCreateSchemaScript creates in memory.
ValidateExactSchemaObjects(d) == d.schema = CurrentSchema

\* ValidateDatabaseShape.
ShapeValid(d) ==
    /\ ValidateRequiredSchemaObjects(d)
    /\ ValidateRequiredTableShapes(d) /\ ValidateRequiredIndexShapes(d)
    /\ ValidateRequiredSearchIndexShape(d)
    /\ ValidateCatalogRelations(d)
    /\ ValidateExactSchemaObjects(d)

\* ValidateCatalogSingletons.
SingletonsValid(d) == d.source # None

Complete(d) == d.version = 1 /\ ShapeValid(d) /\ SingletonsValid(d)

\* Size and time of the file, as RefreshSourceFingerprint compares them.
Stat == [size |-> SizeOf[file.content], stamp |-> file.stamp]

\* What a digest computed over a period yields, when the file had these contents in it.
DigestsOf(contents) == IF Cardinality(contents) = 1 THEN contents ELSE contents \cup {Torn}

-----------------------------------------------------------------------------
(* The configuration: JSON fields, then environment overrides, then Validate. *)

\* "" is an empty value, "unset" a variable that the environment does not have.
Override(value, env) == IF env = "unset" THEN value ELSE env

\* A limit in the environment is <<>> or <<n>>.  ReadOptionalSize, ParseSizeOverride: only the
\* first refuses a minus sign; std::stoull takes it and wraps.
SizeFieldReads(n) == n \in 0 .. 2^SizeBits - 1
SizeOverrideParses(n) == n \in 1 - 2^SizeBits .. 2^SizeBits - 1
ParsedSize(n) == n % 2^SizeBits

\* Every layer can be read.
Readable(json, env) ==
    SizeFieldReads(json.limit) /\ (env.limit # <<>> => SizeOverrideParses(env.limit[1]))

ApplyEnvironmentOverrides(json, env) ==
    [json EXCEPT !.inpx = Override(@, env.inpx), !.archive = Override(@, env.archive),
                 !.limit = IF env.limit = <<>> THEN @ ELSE ParsedSize(env.limit[1])]

\* The check of Validate that does not look at the disk.
Validated(json, env) == ApplyEnvironmentOverrides(json, env).limit # 0

\* LoadFromJsonText: every configuration the loader can return.
LoadedConfigs ==
    {ApplyEnvironmentOverrides(layers[1], layers[2]) :
        layers \in {l \in Documents \X Environments :
                       Readable(l[1], l[2]) /\ Validated(l[1], l[2])}}

SourceConfigured(c) == c.inpx # "" /\ c.archive # ""

\* CInpxSourceConfiguration::Validate: both paths lead to something of the right kind.
SourceValid(c) == SourceConfigured(c) /\ file.mounted

-----------------------------------------------------------------------------
NoCall == [kind |-> "none", caller |-> "none", step |-> "idle", force |-> FALSE,
           listed |-> None, row |-> None, stat |-> None, digest |-> None, canRescan |-> FALSE,
           read |-> {}, seen |-> {}]
NoCache  == [stat |-> None, digest |-> None]
NoConfig == [inpx |-> "", archive |-> "", limit |-> 0,
             autoScan |-> FALSE, onEmpty |-> FALSE, onChange |-> FALSE]
NoStatus == [created |-> FALSE, requiresRescan |-> FALSE, books |-> FALSE]

Threads == {"backend", "download"}

Init ==
    /\ \/ dirs = {} /\ db = NoDatabase
       \/ dirs = Directories /\ db \in ForeignDatabases
       \/ dirs = Directories /\ db \in {[SeededDatabase(c) EXCEPT !.books = TRUE] : c \in Contents}
    /\ file \in [content : Contents, stamp : {0}, mounted : BOOLEAN]
    /\ pc = "down" /\ config = NoConfig /\ mode = "Open" /\ failure = "none"
    /\ followed = FALSE /\ launches = 0 /\ digest = None /\ seen = {}
    /\ cache = NoCache /\ lock = None /\ op = [t \in Threads |-> NoCall]
    /\ status = NoStatus /\ scan = None

\* The process ends: everything but the disk is lost.
Die(reason) ==
    /\ pc' = "down" /\ failure' = reason
    /\ config' = NoConfig /\ mode' = "Open" /\ digest' = None /\ seen' = {}
    /\ cache' = NoCache /\ lock' = None /\ op' = [t \in Threads |-> NoCall]
    /\ status' = NoStatus /\ scan' = None
    /\ UNCHANGED <<dirs, file, followed, launches>>

\* An exception reaches RunServerMain, which returns 1.
Fail(reason) == Die(reason) /\ UNCHANGED db

Goto(next) ==
    /\ pc' = next
    /\ UNCHANGED <<config, failure, followed, launches, status, callVars, scan>>

-----------------------------------------------------------------------------
(* Opening the cache                                                       *)

\* Mutant of NeedsSource: every start validates the configured source.
NeedsSourceAlways(c) == TRUE

\* A new cache needs a source that can be read; an existing one starts without.
NeedsSource(c) == ~db.file

\* LoadFromFile, with the checks of Validate that look at the disk.
Launch ==
    /\ pc = "down" /\ launches < MaxLaunches
    /\ launches' = launches + 1
    /\ \E c \in LoadedConfigs :
         \/ /\ SourceConfigured(c) \/ (~NeedsSource(c) /\ c.inpx = c.archive)
            /\ NeedsSource(c) => SourceValid(c)
            /\ pc' = "open" /\ failure' = "none" /\ config' = c
         \/ /\ c.inpx # c.archive
            /\ failure' = "config" /\ UNCHANGED <<pc, config>>
         \/ /\ c.inpx = c.archive
            /\ NeedsSource(c) /\ ~SourceValid(c)
            /\ failure' = "source" /\ UNCHANGED <<pc, config>>
    /\ UNCHANGED <<diskVars, mode, followed, digest, status, seen, callVars, scan>>

\* Open: the configured converter is probed, then the open mode is resolved.
OpenHost ==
    /\ pc = "open"
    /\ \/ Fail("converter")
       \/ /\ mode' = IF db.file THEN "Open" ELSE "CreateNew"
          /\ Goto("construct")
          /\ UNCHANGED <<diskVars, digest, seen>>

\* PrepareExistingCache.
PrepareExistingCache ==
    /\ pc = "construct" /\ mode = "Open"
    /\ IF dirs = Directories /\ db.file
       THEN Goto("connect") /\ UNCHANGED <<diskVars, mode, digest, seen>>
       ELSE Fail("incomplete cache root")

\* ValidateNewSource, then PrepareNewCache up to the first directory.
PrepareNewCache ==
    /\ pc = "construct" /\ mode = "CreateNew"
    /\ \/ ~SourceValid(config) /\ Fail("source")
       \/ SourceValid(config) /\ dirs \ {"Root"} # {} /\ Fail("cache root is not empty")
       \/ /\ SourceValid(config) /\ dirs \subseteq {"Root"}
          /\ Goto("database directory")
          /\ UNCHANGED <<diskVars, mode, digest, seen>>

CreateDatabaseDirectory ==
    /\ pc = "database directory"
    /\ dirs' = dirs \cup {"Root", "Database"}
    /\ Goto("covers directory") /\ UNCHANGED <<db, file, mode, digest, seen>>

CreateCoversDirectory ==
    /\ pc = "covers directory"
    /\ dirs' = dirs \cup {"Covers"}
    /\ Goto("connect") /\ UNCHANGED <<db, file, mode, digest, seen>>

\* CSqliteConnection creates the file when there is none.
Connect ==
    /\ pc = "connect"
    /\ db' = IF db.file THEN db ELSE EmptyDatabase
    /\ Goto("inspect") /\ UNCHANGED <<dirs, file, mode, digest, seen>>

\* What InitializeDatabase tells of a database it does not accept: only the shape of version 1
\* is reported without the advice to delete the file.
Rejection(d) ==
    IF d.version = 1 /\ ~ShapeValid(d) THEN "damaged" ELSE "delete the database"

Initialisable(d) == d.version = 0 /\ ~HasUserSchemaObjects(d)

\* The head of InitializeDatabase: a database of this version is validated, an empty one is
\* initialised, any other is rejected.
InspectDatabase ==
    /\ pc = "inspect"
    /\ \/ Complete(db) /\ Goto("opened") /\ UNCHANGED <<diskVars, mode, digest, seen>>
       \/ Initialisable(db) /\ Goto("seed") /\ UNCHANGED <<diskVars, mode, digest, seen>>
       \/ ~Complete(db) /\ ~Initialisable(db) /\ Fail(Rejection(db))

\* In the transaction: the schema is created and the callback begins the digest of the source.
BeginSeed ==
    /\ pc = "seed"
    /\ IF SourceValid(config)
       THEN /\ seen' = {file.content}
            /\ Goto("seed digest") /\ UNCHANGED <<diskVars, mode, digest>>
       ELSE Fail("source")

EndSeedDigest ==
    /\ pc = "seed digest"
    /\ \/ /\ digest' \in DigestsOf(seen)
          /\ Goto("commit") /\ UNCHANGED <<diskVars, mode, seen>>
       \/ ~file.mounted /\ Fail("source")

\* Mutant of CommitSeed: version and schema are committed before the row of the source.
CommitSchemaFirst ==
    /\ pc \in {"commit", "commit source"}
    /\ IF pc = "commit"
       THEN db' = [SeededDatabase(None) EXCEPT !.version = 1] /\ Goto("commit source")
       ELSE db' = SeededDatabase(digest) /\ Goto("opened")
    /\ UNCHANGED <<dirs, file, mode, digest, seen>>

\* Validation, user_version and COMMIT; a failure is rolled back.
CommitSeed ==
    /\ pc = "commit"
    /\ \/ /\ db' = SeededDatabase(digest)
          /\ Goto("opened") /\ UNCHANGED <<dirs, file, mode, digest, seen>>
       \/ Fail("commit")

\* The host is open: requests are served while the main thread asks for the status.
Serving == pc \in {"opened", "overview", "policy", "serving"}

-----------------------------------------------------------------------------
(* Requests and the state of the source                                    *)

Active(t) == op[t].step # "idle"
CurrentContents == IF file.mounted THEN {file.content} ELSE {}

\* A request begins: ListBooks, StartInpxScan, PrepareDownload, or a report (GetBookDetails,
\* GetCatalogSessionInfo, GetInpxSourceOverview).  ListBooks has read its page, with the
\* fingerprint of the catalog it belongs to, before it asks for the state of the source.
Begin(t, kind, caller) ==
    /\ Serving /\ ~Active(t)
    /\ kind = "scan" => scan = None
    /\ op' = [op EXCEPT ![t] = [NoCall EXCEPT
                !.kind = kind, !.caller = caller, !.step = "begun",
                !.force = kind \in {"scan", "download"},
                !.listed = IF kind = "list" THEN db.source ELSE None,
                !.seen = CurrentContents]]
    /\ UNCHANGED <<diskVars, mainVars, cache, lock, scan>>

ClientCall ==
    \/ \E kind \in {"list", "report", "scan"} : Begin("backend", kind, "client")
    \/ Begin("download", "download", "client")

\* The fingerprint that the state of the source is compared with: the one of the list, or
\* LoadSourceRow.
ComparedRow(call) == IF call.kind = "list" THEN call.listed ELSE db.source

\* ResolveSourceState takes the mutex and reads the row.
LockSourceState(t) ==
    /\ op[t].step = "begun" /\ lock = None
    /\ lock' = t
    /\ op' = [op EXCEPT ![t].step = "stat", ![t].row = ComparedRow(op[t])]
    /\ UNCHANGED <<diskVars, mainVars, cache, scan>>

Answer(t, canRescan, d) ==
    /\ lock' = None
    /\ op' = [op EXCEPT ![t].step = "answered", ![t].canRescan = canRescan, ![t].digest = d,
                         ![t].read = {}]

\* Mutant of CacheHit: the size alone identifies the file.
CacheHitBySize(t) ==
    /\ ~op[t].force /\ cache.stat # None /\ cache.stat.size = Stat.size

CacheHit(t) == ~op[t].force /\ cache.stat = Stat

\* ResolveInpxSourceState and the first half of RefreshSourceFingerprint.
ReadSourceStat(t) ==
    /\ op[t].step = "stat"
    /\ \/ /\ ~SourceValid(config)
          /\ Answer(t, FALSE, None)
       \/ /\ SourceValid(config) /\ CacheHit(t)
          /\ Answer(t, TRUE, cache.digest)
       \/ /\ SourceValid(config) /\ ~CacheHit(t)
          /\ op' = [op EXCEPT ![t].step = "digest", ![t].stat = Stat, ![t].read = {file.content}]
          /\ UNCHANGED lock
    /\ UNCHANGED <<diskVars, mainVars, cache, scan>>

ComputeFile(t) ==
    /\ op[t].step = "digest"
    /\ \/ /\ \E d \in DigestsOf(op[t].read) :
               op' = [op EXCEPT ![t].step = "verify", ![t].digest = d, ![t].read = {}]
          /\ UNCHANGED lock
       \/ ~file.mounted /\ Answer(t, FALSE, None)
    /\ UNCHANGED <<diskVars, mainVars, cache, scan>>

\* The second half of RefreshSourceFingerprint: a digest counts only when size and time did
\* not change while it was computed.
VerifySourceStat(t) ==
    /\ op[t].step = "verify"
    /\ IF file.mounted /\ Stat = op[t].stat
       THEN /\ cache' = [stat |-> op[t].stat, digest |-> op[t].digest]
            /\ Answer(t, TRUE, op[t].digest)
       ELSE UNCHANGED cache /\ Answer(t, FALSE, None)
    /\ UNCHANGED <<diskVars, mainVars, scan>>

CanDownload(call) == call.canRescan /\ call.digest = call.row

Return(t) == op' = [op EXCEPT ![t] = NoCall]

\* StartInpxScan hands the digest to the scan service, the other requests report.
ReturnToClient(t) ==
    /\ op[t].step = "answered" /\ op[t].caller = "client"
    /\ Return(t)
    /\ scan' = IF op[t].kind = "scan" /\ op[t].canRescan THEN op[t].digest ELSE scan
    /\ UNCHANGED <<diskVars, mainVars, cache, lock>>

\* A scan publishes what InpxRescan says it publishes: the catalog of the digest it was
\* started for, if the file still has it.
PublishScan ==
    /\ scan # None
    /\ file.mounted /\ file.content = scan
    /\ db' = [db EXCEPT !.source = scan, !.books = TRUE]
    /\ scan' = None
    /\ UNCHANGED <<dirs, file, mainVars, callVars>>

AbandonScan ==
    /\ scan # None
    /\ scan' = None
    /\ UNCHANGED <<diskVars, mainVars, callVars>>

-----------------------------------------------------------------------------
(* The main thread after Open                                              *)

MainUnchanged == UNCHANGED <<diskVars, config, mode, failure, followed, launches, digest, seen>>

\* BuildStatus: first GetCatalogSessionInfo, then GetInpxSourceOverview.
AskStatus ==
    \/ pc = "opened" /\ Begin("backend", "report", "main")
    \/ pc = "overview" /\ Begin("backend", "report", "main")

\* LoadOverview reads the counts after the state of the source was resolved.
TakeStatus ==
    /\ op["backend"].step = "answered" /\ op["backend"].caller = "main"
    /\ \/ pc = "opened" /\ pc' = "overview" /\ UNCHANGED status
       \/ /\ pc = "overview" /\ pc' = "policy"
          /\ status' = [created |-> mode = "CreateNew",
                        requiresRescan |-> op["backend"].canRescan /\ ~CanDownload(op["backend"]),
                        books |-> db.books]
    /\ Return("backend")
    /\ MainUnchanged /\ UNCHANGED <<cache, lock, scan>>

\* ResolveConfiguredStartupScanMode.
StartupScanWanted ==
    /\ config.autoScan
    /\ IF status.created THEN config.onEmpty /\ ~status.books
                         ELSE config.onChange /\ status.requiresRescan

\* StartConfiguredStartupScan, by the coordinator: a scan of a client is a conflict, which
\* ends the process like every exception.
StartStartupScan ==
    /\ pc = "policy"
    /\ \/ /\ ~StartupScanWanted
          /\ pc' = "serving" /\ MainUnchanged /\ UNCHANGED <<status, callVars, scan>>
       \/ StartupScanWanted /\ scan # None /\ Fail("conflict")
       \/ StartupScanWanted /\ Begin("backend", "scan", "main")

\* StartInpxScan throws when the source, looked at again, cannot be read.
TakeStartupScan ==
    /\ pc = "policy"
    /\ op["backend"].step = "answered" /\ op["backend"].caller = "main"
    /\ IF op["backend"].canRescan
       THEN /\ scan' = op["backend"].digest
            /\ Return("backend")
            /\ pc' = "serving" /\ MainUnchanged /\ UNCHANGED <<status, cache, lock>>
       ELSE Fail("unavailable")

\* A signal ends the process in order.
Shutdown == pc = "serving" /\ Fail("none")

\* The process dies.
Crash == pc # "down" /\ Fail("crash")

-----------------------------------------------------------------------------
(* The owner                                                               *)

\* Every request that runs sees the file change, and so does a digest that is computed.
Witness(contents) ==
    /\ op' = [t \in Threads |->
                [op[t] EXCEPT !.seen = IF Active(t) THEN @ \cup contents ELSE @,
                              !.read = IF op[t].step = "digest" THEN @ \cup contents ELSE @]]
    /\ seen' = IF pc = "seed digest" THEN seen \cup contents ELSE seen
    /\ UNCHANGED <<dirs, db, pc, config, mode, failure, followed, launches, digest, status, cache,
                   lock, scan>>

ReplaceSource ==
    /\ file.stamp < MaxEdits
    /\ \E c \in Contents :
         /\ file' = [file EXCEPT !.content = c, !.stamp = @ + 1]
         /\ Witness(IF file.mounted THEN {c} ELSE {})

MountSource ==
    /\ file' = [file EXCEPT !.mounted = ~@]
    /\ Witness(IF file.mounted THEN {} ELSE {file.content})

\* Between two lives: the database as the message says, the covers to gain space, or all.
DeleteDatabase ==
    /\ pc = "down" /\ db.file
    /\ db' = NoDatabase
    /\ followed' = (failure = "delete the database")
    /\ UNCHANGED <<dirs, file, pc, config, mode, failure, launches, digest, status, seen,
                   callVars, scan>>

DeleteCovers ==
    /\ pc = "down" /\ "Covers" \in dirs
    /\ dirs' = dirs \ {"Covers"}
    /\ UNCHANGED <<db, file, mainVars, callVars, scan>>

DeleteCache ==
    /\ pc = "down" /\ dirs # {}
    /\ dirs' = {} /\ db' = NoDatabase /\ followed' = FALSE
    /\ UNCHANGED <<file, pc, config, mode, failure, launches, digest, status, seen, callVars, scan>>

-----------------------------------------------------------------------------
Opening ==
    \/ Launch \/ OpenHost \/ PrepareExistingCache \/ PrepareNewCache
    \/ CreateDatabaseDirectory \/ CreateCoversDirectory
    \/ Connect \/ InspectDatabase \/ BeginSeed \/ EndSeedDigest \/ CommitSeed

SourceState(t) ==
    \/ LockSourceState(t) \/ ReadSourceStat(t) \/ ComputeFile(t) \/ VerifySourceStat(t)
    \/ ReturnToClient(t)

Next ==
    \/ Opening
    \/ ClientCall
    \/ \E t \in Threads : SourceState(t)
    \/ PublishScan \/ AbandonScan
    \/ AskStatus \/ TakeStatus \/ StartStartupScan \/ TakeStartupScan
    \/ Shutdown \/ Crash
    \/ ReplaceSource \/ MountSource \/ DeleteDatabase \/ DeleteCovers \/ DeleteCache

Spec == Init /\ [][Next]_vars

-----------------------------------------------------------------------------
(* A life that is killed at any point leaves no half-initialised database: what this build  *)
(* wrote is either empty or a catalog the next life accepts (InitializeDatabase puts the    *)
(* schema, the row of the source and the version into one transaction).                     *)
NoPartialDatabase ==
    ~db.foreign => db \in {NoDatabase, EmptyDatabase} \/ Complete(db)

(* Whatever became of the source, however the catalog came to be and wherever earlier lives *)
(* were killed: a complete cache is opened and served.  A life over it ends by itself only  *)
(* because the source is half configured, because the converter does not answer the probe,  *)
(* or, when it is served already, because the scan that the startup policy asked for is     *)
(* refused: a client's scan runs, or the source is gone since the status was taken.         *)
CompleteCacheOpens ==
    [][Complete(db) /\ dirs = Directories /\ (pc # "down" \/ launches' # launches) =>
          \/ failure' \in {"none", "config", "converter", "crash"}
          \/ /\ pc = "policy" /\ StartupScanWanted
             /\ scan # None \/ ~op["backend"].canRescan]_vars

(* An answer that names a digest names contents the file really had during the request, and *)
(* a list that offers downloads offers them for the catalog it lists: a scan that commits   *)
(* between the page and the state of the source, or a cached digest that outlived its file, *)
(* never makes a book downloadable from an unscanned source.                                *)
OffersGenuine ==
    \A t \in Threads : op[t].step = "answered" /\ op[t].canRescan =>
        /\ op[t].digest \in op[t].seen
        /\ op[t].kind = "list" /\ CanDownload(op[t]) => op[t].listed \in op[t].seen

(* InpxCacheBootstrap and SchemaInitializer together: who is told to delete the database so *)
(* that it can be recreated, and does so, gets it recreated by the next life.               *)
DeletedDatabaseRecreated ==
    ~(followed /\ failure = "cache root is not empty")
===============================================================================
