------------------------- MODULE ServerStartup_proofs -------------------------
(***************************************************************************)
(* Proofs about ServerStartup for every set of contents, configurations    *)
(* and environments, any number of lives and of replacements of the file.  *)
(***************************************************************************)
EXTENDS ServerStartup, FiniteSetTheorems, TLAPS

-----------------------------------------------------------------------------
(* The inductive invariant                                                 *)

Digests   == Contents \cup {Torn}
StatType  == [size : Nat, stamp : Nat]

\* Entries of sqlite_master, in this build and in others.
Parts == (Objects \cup {"trigger"}) \X {"current", "reshaped", "reworded", "other"}

DatabaseType ==
    [file : BOOLEAN, version : Nat, schema : SUBSET Parts, dangling : BOOLEAN,
     source : Digests \cup {None}, books : BOOLEAN, foreign : BOOLEAN]

CallType ==
    [kind : {"none", "list", "report", "scan", "download"}, caller : {"none", "main", "client"},
     step : {"idle", "begun", "stat", "digest", "verify", "answered"},
     force : BOOLEAN, listed : Digests \cup {None}, row : Digests \cup {None},
     stat : StatType \cup {None}, digest : Digests \cup {None}, canRescan : BOOLEAN,
     read : SUBSET Contents, seen : SUBSET Contents]

CacheType == [stat : StatType \cup {None}, digest : Digests \cup {None}]

StartupTypeOK ==
    /\ db \in DatabaseType
    /\ file \in [content : Contents, stamp : Nat, mounted : BOOLEAN]
    /\ cache \in CacheType
    /\ op \in [Threads -> CallType]
    /\ seen \in SUBSET Contents
    /\ digest \in Digests \cup {None}
    /\ scan \in Digests \cup {None}

Blank == {NoDatabase, EmptyDatabase}

\* Every database without a schema is one that this build left before its first COMMIT.
DatabaseInv ==
    /\ ~db.file => db = NoDatabase
    /\ Initialisable(db) => db \in Blank
    /\ ~db.foreign => db \in Blank \/ Complete(db)
    /\ failure = "source" => db \in Blank

\* What the main thread knows of the database at each point of a life.
LifeInv ==
    /\ pc # "down" => failure = "none" /\ config \in LoadedConfigs
    /\ pc = "construct" /\ mode = "CreateNew" => ~db.file
    /\ pc = "inspect" => db.file
    /\ pc \in {"seed", "seed digest", "commit"} => db = EmptyDatabase
    /\ pc = "commit" => digest # None
    /\ Serving => db.file /\ Complete(db)

\* Only an open host serves and scans.
ServingInv ==
    /\ scan # None => Serving
    /\ \A t \in Threads : Active(t) => Serving

\* The digest d belongs to the file, if size and time are still those of st.
Genuine(st, d) == st.stamp <= file.stamp /\ (st.stamp = file.stamp => d = file.content)

CallOK(c) ==
    /\ c.step \in {"begun", "stat", "digest", "verify"} /\ file.mounted => file.content \in c.seen
    /\ c.step \in {"digest", "verify"} => c.stat \in StatType
    /\ c.step = "digest" => /\ c.stat.stamp <= file.stamp
                            /\ c.stat.stamp = file.stamp => c.read = {file.content}
    /\ c.step = "verify" => Genuine(c.stat, c.digest)
    /\ c.step = "answered" /\ c.canRescan => c.digest \in c.seen
    /\ c.kind = "list" /\ c.step \in {"stat", "digest", "verify", "answered"} => c.row = c.listed

CallsInv == \A t \in Threads : CallOK(op[t])

CacheInv == cache.stat # None => Genuine(cache.stat, cache.digest)

\* What the main thread asks for once the policy has the status is the startup scan.
PolicyInv == pc = "policy" /\ op["backend"].caller = "main" => StartupScanWanted

IInv == StartupTypeOK /\ DatabaseInv /\ LifeInv /\ ServingInv /\ CallsInv /\ CacheInv

-----------------------------------------------------------------------------
(* Databases                                                               *)

\* The databases this build writes are well formed.
LEMMA BlankTypes ==
    /\ NoDatabase \in DatabaseType /\ EmptyDatabase \in DatabaseType
    /\ \A d \in Digests : SeededDatabase(d) \in DatabaseType
  <1>1. CurrentSchema \in SUBSET Parts
    BY DEF CurrentSchema, Parts
  <1>2. NoDatabase \in DatabaseType
    BY DEF NoDatabase, DatabaseType, Digests
  <1>3. EmptyDatabase \in DatabaseType
    BY <1>2 DEF EmptyDatabase, DatabaseType
  <1>4. ASSUME NEW d \in Digests PROVE SeededDatabase(d) \in DatabaseType
    BY <1>1, <1>3 DEF SeededDatabase, DatabaseType
  <1> QED
    BY <1>2, <1>3, <1>4

\* What the fields of a seeded database are.
LEMMA SeededFields ==
    ASSUME NEW d \in Digests
    PROVE  LET s == SeededDatabase(d)
           IN  /\ s.file = TRUE /\ s.version = 1 /\ s.schema = CurrentSchema
               /\ s.dangling = FALSE /\ s.source = d /\ s.foreign = FALSE
  BY BlankTypes DEF SeededDatabase, EmptyDatabase, NoDatabase

\* A database without a file, and the file that sqlite3_open_v2 creates.
LEMMA BlankFields ==
    /\ ~NoDatabase.file /\ ~NoDatabase.foreign /\ NoDatabase.version = 0
    /\ EmptyDatabase.file /\ ~EmptyDatabase.foreign /\ EmptyDatabase.version = 0
  BY DEF NoDatabase, EmptyDatabase

\* The shape that GetCreateSchemaScript creates is the shape that is validated.
LEMMA CurrentShape ==
    ASSUME NEW d, d.schema = CurrentSchema, ~d.dangling
    PROVE  ShapeValid(d)
  <1>1. \A o \in Objects : <<o, "current">> \in d.schema
    BY DEF CurrentSchema
  <1>2. ValidateRequiredSchemaObjects(d)
    BY <1>1 DEF ValidateRequiredSchemaObjects
  <1>3. \A o \in Objects : HasShape(d, o)
    BY <1>1 DEF HasShape
  <1> QED
    BY <1>2, <1>3 DEF ShapeValid, ValidateRequiredTableShapes, ValidateRequiredIndexShapes,
       ValidateRequiredSearchIndexShape, ValidateCatalogRelations, ValidateExactSchemaObjects,
       Objects

\* COMMIT publishes a database that the next life accepts.
LEMMA SeededComplete ==
    ASSUME NEW d \in Digests
    PROVE  Complete(SeededDatabase(d))
  <1> DEFINE s == SeededDatabase(d)
  <1>1. s.version = 1 /\ s.schema = CurrentSchema /\ ~s.dangling /\ s.source = d
    BY SeededFields
  <1>2. d # None
    BY StartupAssumption DEF Digests
  <1> HIDE DEF s
  <1>3. ShapeValid(s)
    BY <1>1, CurrentShape
  <1> QED
    BY <1>1, <1>2, <1>3 DEF Complete, SingletonsValid, s

\* So does a scan that commits into an accepted one.
LEMMA PublishedComplete ==
    ASSUME NEW d \in DatabaseType, Complete(d), NEW c \in Digests
    PROVE  LET p == [d EXCEPT !.source = c, !.books = TRUE]
           IN  /\ p \in DatabaseType /\ Complete(p) /\ p.file = d.file /\ p.foreign = d.foreign
               /\ p.version = 1
  <1> DEFINE p == [d EXCEPT !.source = c, !.books = TRUE]
  <1>1. /\ p \in DatabaseType
        /\ p.file = d.file /\ p.foreign = d.foreign /\ p.version = d.version
        /\ p.schema = d.schema /\ p.dangling = d.dangling /\ p.source = c
    BY DEF DatabaseType
  <1> HIDE DEF p
  <1>2. ShapeValid(p)
    BY <1>1, CurrentShape DEF Complete, ShapeValid, ValidateExactSchemaObjects,
       ValidateCatalogRelations
  <1> QED
    BY <1>1, <1>2, StartupAssumption DEF Complete, SingletonsValid, Digests, p

\* A database of another build has a schema.
LEMMA ForeignFields ==
    ASSUME NEW d \in ForeignDatabases
    PROVE  d \in DatabaseType /\ d.file /\ d.foreign /\ ~Initialisable(d)
  <1>1. ASSUME NEW c \in Contents
        PROVE  /\ Foreign(c) \in DatabaseType /\ Foreign(c).file /\ Foreign(c).foreign
               /\ Foreign(c).schema = CurrentSchema
    <2>1. /\ SeededDatabase(c) \in DatabaseType /\ SeededDatabase(c).file = TRUE
          /\ SeededDatabase(c).schema = CurrentSchema
      BY BlankTypes, SeededFields DEF Digests
    <2> QED
      BY <2>1 DEF DatabaseType, Foreign
  <1>2. "table" \in Objects /\ "index" \in Objects
    BY DEF Objects
  <1>3. <<"table", "current">> \in CurrentSchema /\ <<"index", "current">> \in CurrentSchema
    BY <1>2 DEF CurrentSchema
  <1>4. ASSUME NEW s \in ForeignSchemas PROVE s # {} /\ s \in SUBSET Parts
    <2>1. <<"table", "current">> # <<"index", "current">>
      OBVIOUS
    <2>2. ASSUME NEW o PROVE CurrentSchema \ {<<o, "current">>} # {}
      BY <1>3, <2>1
    <2>3. CurrentSchema \in SUBSET Parts
      BY DEF CurrentSchema, Parts
    <2>4. CASE \E o \in Objects : s = CurrentSchema \ {<<o, "current">>}
      BY <2>2, <2>3, <2>4
    <2>5. CASE \E o \in Objects, def \in {"reshaped", "reworded"} :
                  s = (CurrentSchema \ {<<o, "current">>}) \cup {<<o, def>>}
      <3>1. \A o \in Objects, def \in {"reshaped", "reworded"} : <<o, def>> \in Parts
        BY DEF Parts
      <3> QED
        BY <2>3, <2>5, <3>1
    <2>6. CASE s = CurrentSchema \cup {<<"trigger", "other">>}
      <3>1. <<"trigger", "other">> \in Parts
        BY DEF Parts
      <3> QED
        BY <2>3, <2>6, <3>1
    <2> QED
      BY <1>4, <2>4, <2>5, <2>6 DEF ForeignSchemas
  <1>5. PICK c \in Contents : d \in DatabasesOfOthers(c)
    BY DEF ForeignDatabases
  <1>6. CASE \E v \in {0, 2} : d = [Foreign(c) EXCEPT !.version = v]
    BY <1>1, <1>3, <1>6 DEF DatabaseType, Initialisable, HasUserSchemaObjects
  <1>7. CASE \E s \in ForeignSchemas : d = [Foreign(c) EXCEPT !.schema = s]
    BY <1>1, <1>4, <1>7 DEF DatabaseType, Initialisable, HasUserSchemaObjects
  <1>8. CASE d = [Foreign(c) EXCEPT !.dangling = TRUE]
    <2>1. d \in DatabaseType /\ d.file /\ d.foreign /\ d.schema = CurrentSchema
      BY <1>1, <1>8 DEF DatabaseType
    <2> QED
      BY <1>3, <2>1 DEF Initialisable, HasUserSchemaObjects
  <1> QED
    BY <1>5, <1>6, <1>7, <1>8 DEF DatabasesOfOthers

-----------------------------------------------------------------------------
(* Lives                                                                   *)

\* No request and no digest is left when the process is gone.
LEMMA NoCallType == NoCall \in CallType /\ NoCall.step = "idle"
  BY DEF NoCall, CallType, Digests

\* Before the first start.
LEMMA StartupInit == Init => IInv
  <1> SUFFICES ASSUME Init PROVE IInv
    OBVIOUS
  <1>1. pc = "down" /\ scan = None /\ failure = "none" /\ cache = NoCache
        /\ op = [t \in Threads |-> NoCall] /\ digest = None /\ seen = {}
        /\ file \in [content : Contents, stamp : {0}, mounted : BOOLEAN]
    BY DEF Init
  <1>2. db \in DatabaseType /\ DatabaseInv
    <2>1. CASE db = NoDatabase
      BY <1>1, <2>1, BlankTypes, BlankFields DEF DatabaseInv, Blank
    <2>2. CASE db \in ForeignDatabases
      BY <1>1, <2>2, ForeignFields DEF DatabaseInv
    <2>3. CASE \E c \in Contents : db = [SeededDatabase(c) EXCEPT !.books = TRUE]
      <3>1. PICK c \in Contents : db = [SeededDatabase(c) EXCEPT !.books = TRUE]
        BY <2>3
      <3> DEFINE s == SeededDatabase(c)
      <3>2. c \in Digests
        BY DEF Digests
      <3>3. s \in DatabaseType /\ s.source = c /\ s.file = TRUE /\ Complete(s)
        BY <3>2, BlankTypes, SeededFields, SeededComplete
      <3> HIDE DEF s
      <3>4. db = [s EXCEPT !.source = c, !.books = TRUE]
        BY <3>1, <3>3 DEF DatabaseType, s
      <3>5. db \in DatabaseType /\ Complete(db) /\ db.file /\ db.version = 1
        BY <3>2, <3>3, <3>4, PublishedComplete
      <3> QED
        BY <1>1, <3>5 DEF DatabaseInv, Initialisable
    <2> QED
      BY <2>1, <2>2, <2>3 DEF Init
  <1>3. StartupTypeOK
    BY <1>1, <1>2, NoCallType DEF StartupTypeOK, CacheType, NoCache
  <1>4. LifeInv /\ ServingInv
    BY <1>1, NoCallType DEF LifeInv, ServingInv, Serving, Active
  <1>5. CallsInv /\ CacheInv
    BY <1>1, NoCallType DEF CallsInv, CallOK, CacheInv, NoCache, NoCall
  <1> QED
    BY <1>2, <1>3, <1>4, <1>5 DEF IInv

\* However a life ends, what it leaves is a database it may have found, or the empty file.
LEMMA DieStep ==
    ASSUME IInv, NEW reason, Fail(reason), reason = "source" => db \in Blank
    PROVE  IInv'
  <1>1. /\ UNCHANGED <<db, file>> /\ pc' = "down" /\ failure' = reason /\ scan' = None
        /\ cache' = NoCache /\ op' = [t \in Threads |-> NoCall] /\ digest' = None /\ seen' = {}
    BY DEF Fail, Die
  <1>2. StartupTypeOK'
    BY <1>1, NoCallType DEF IInv, StartupTypeOK, CacheType, NoCache
  <1>3. DatabaseInv'
    BY <1>1 DEF IInv, DatabaseInv, Initialisable, Complete, HasUserSchemaObjects
  <1>4. LifeInv' /\ ServingInv'
    BY <1>1, NoCallType DEF LifeInv, ServingInv, Serving, Active
  <1>5. CallsInv' /\ CacheInv'
    BY <1>1, NoCallType DEF CallsInv, CallOK, CacheInv, NoCache, NoCall
  <1> QED
    BY <1>2, <1>3, <1>4, <1>5 DEF IInv

\* Requests and the cached digest depend on the file only.
LEMMA CallsFrame ==
    IInv /\ UNCHANGED <<file, callVars>> => CallsInv' /\ CacheInv'
  BY DEF IInv, CallsInv, CallOK, CacheInv, Genuine, callVars

\* A step of the main thread before the host is open.
LEMMA GotoStep ==
    ASSUME IInv, NEW next, Goto(next), UNCHANGED <<file>>,
           pc \in {"open", "construct", "database directory", "covers directory", "connect",
                   "inspect", "seed", "seed digest", "commit"},
           seen' \in SUBSET Contents, digest' \in Digests \cup {None},
           db' \in DatabaseType,
           ~db'.file => db' = NoDatabase,
           Initialisable(db') => db' \in Blank,
           ~db'.foreign => db' \in Blank \/ Complete(db'),
           next = "construct" /\ mode' = "CreateNew" => ~db'.file,
           next = "inspect" => db'.file,
           next \in {"seed", "seed digest", "commit"} => db' = EmptyDatabase,
           next = "commit" => digest' # None,
           next \in {"opened", "overview", "policy", "serving"} => db'.file /\ Complete(db')
    PROVE  IInv'
  <1>1. pc' = next /\ UNCHANGED <<config, failure, callVars, scan>>
    BY DEF Goto
  <1>2. StartupTypeOK'
    BY <1>1 DEF IInv, StartupTypeOK, callVars
  <1>3. failure = "none" /\ config \in LoadedConfigs
    BY DEF IInv, LifeInv
  <1>4. DatabaseInv'
    BY <1>1, <1>3 DEF DatabaseInv
  <1>5. LifeInv'
    BY <1>1, <1>3 DEF LifeInv, Serving, LoadedConfigs
  <1>6. ~Serving
    BY DEF Serving
  <1>7. ServingInv'
    BY <1>1, <1>6 DEF IInv, ServingInv, Active, callVars
  <1> QED
    BY <1>2, <1>4, <1>5, <1>7, <1>1, CallsFrame DEF IInv

\* A configuration that is refused leaves no process; an accepted one passed Validate.
LEMMA LaunchStep == IInv /\ Launch => IInv'
  <1> SUFFICES ASSUME IInv, Launch PROVE IInv'
    OBVIOUS
  <1>1. UNCHANGED <<db, file, callVars, scan, digest, seen, mode>> /\ pc = "down"
    BY DEF Launch, diskVars
  <1>2. StartupTypeOK'
    BY <1>1 DEF IInv, StartupTypeOK, callVars
  <1>3. \/ pc' = "open" /\ failure' = "none" /\ config' \in LoadedConfigs
        \/ pc' = "down" /\ failure' = "config"
        \/ pc' = "down" /\ failure' = "source" /\ ~db.file
    BY <1>1 DEF Launch, NeedsSource
  <1>4. DatabaseInv'
    <2>1. failure' = "source" => db' \in Blank
      BY <1>1, <1>3 DEF IInv, DatabaseInv, Blank
    <2> QED
      BY <1>1, <2>1 DEF IInv, DatabaseInv, Initialisable, Complete, HasUserSchemaObjects
  <1>5. LifeInv'
    BY <1>1, <1>3 DEF LifeInv, Serving, LoadedConfigs
  <1>6. ServingInv'
    BY <1>1 DEF IInv, ServingInv, Serving, Active, callVars
  <1> QED
    BY <1>1, <1>2, <1>4, <1>5, <1>6, CallsFrame DEF IInv

\* The converter is probed and the open mode resolved.
LEMMA OpenHostStep == IInv /\ OpenHost => IInv'
  <1> SUFFICES ASSUME IInv, OpenHost PROVE IInv'
    OBVIOUS
  <1>1. CASE Fail("converter")
    BY <1>1, DieStep
  <1>2. CASE ~Fail("converter")
    <2>1. /\ Goto("construct") /\ UNCHANGED <<db, file, digest, seen>> /\ pc = "open"
          /\ mode' = IF db.file THEN "Open" ELSE "CreateNew"
      BY <1>2 DEF OpenHost, diskVars
    <2> QED
      BY <2>1, GotoStep DEF IInv, StartupTypeOK, DatabaseInv
  <1> QED
    BY <1>1, <1>2

\* The steps that only move on.
LEMMA MoveStep ==
    ASSUME IInv, UNCHANGED <<db, file, mode, digest, seen>>,
           \/ pc \in {"construct", "database directory", "covers directory"}
              /\ \E next \in {"database directory", "covers directory", "connect"} : Goto(next)
           \/ pc = "inspect" /\ Complete(db) /\ Goto("opened")
           \/ pc = "inspect" /\ Initialisable(db) /\ Goto("seed")
    PROVE  IInv'
  <1>1. CASE pc \in {"construct", "database directory", "covers directory"}
             /\ \E next \in {"database directory", "covers directory", "connect"} : Goto(next)
    <2>1. PICK next \in {"database directory", "covers directory", "connect"} : Goto(next)
      BY <1>1
    <2> QED
      BY <1>1, <2>1, GotoStep DEF IInv, StartupTypeOK, DatabaseInv
  <1>2. CASE pc = "inspect" /\ Complete(db) /\ Goto("opened")
    <2>1. db.file
      BY <1>2 DEF IInv, LifeInv
    <2> QED
      BY <1>2, <2>1, GotoStep DEF IInv, StartupTypeOK, DatabaseInv
  <1>3. CASE pc = "inspect" /\ Initialisable(db) /\ Goto("seed")
    <2>1. db = EmptyDatabase
      BY <1>3, BlankFields DEF IInv, LifeInv, DatabaseInv, Blank
    <2> QED
      BY <1>3, <2>1, GotoStep DEF IInv, StartupTypeOK, DatabaseInv
  <1> QED
    BY <1>1, <1>2, <1>3

\* The cache layout is found, or prepared.
LEMMA PrepareStep ==
    IInv /\ (PrepareExistingCache \/ PrepareNewCache \/ CreateDatabaseDirectory
             \/ CreateCoversDirectory) => IInv'
  <1> SUFFICES ASSUME IInv, PrepareExistingCache \/ PrepareNewCache \/ CreateDatabaseDirectory
                            \/ CreateCoversDirectory
               PROVE  IInv'
    OBVIOUS
  <1>1. CASE Fail("incomplete cache root") \/ Fail("cache root is not empty")
    BY <1>1, DieStep
  <1>2. CASE PrepareNewCache /\ Fail("source")
    <2>1. db \in Blank
      BY <1>2 DEF PrepareNewCache, IInv, LifeInv, DatabaseInv, Blank
    <2> QED
      BY <1>2, <2>1, DieStep
  <1>3. CASE PrepareExistingCache /\ ~Fail("incomplete cache root")
    BY <1>3, MoveStep DEF PrepareExistingCache, diskVars
  <1>4. CASE PrepareNewCache /\ ~Fail("source") /\ ~Fail("cache root is not empty")
    BY <1>4, MoveStep DEF PrepareNewCache, diskVars
  <1>5. CASE CreateDatabaseDirectory \/ CreateCoversDirectory
    BY <1>5, MoveStep DEF CreateDatabaseDirectory, CreateCoversDirectory
  <1> QED
    BY <1>1, <1>2, <1>3, <1>4, <1>5

\* The database file is opened, or created.
LEMMA ConnectStep == IInv /\ Connect => IInv'
  <1> SUFFICES ASSUME IInv, Connect PROVE IInv'
    OBVIOUS
  <1>1. /\ Goto("inspect") /\ UNCHANGED <<file, digest, seen>> /\ pc = "connect"
        /\ db' = IF db.file THEN db ELSE EmptyDatabase
    BY DEF Connect
  <1>2. db' \in DatabaseType /\ db'.file
    BY <1>1, BlankTypes, BlankFields DEF IInv, StartupTypeOK
  <1>3. /\ Initialisable(db') => db' \in Blank
        /\ ~db'.foreign => db' \in Blank \/ Complete(db')
    BY <1>1 DEF IInv, DatabaseInv, Blank
  <1> QED
    BY <1>1, <1>2, <1>3, GotoStep DEF IInv, StartupTypeOK

\* The schema is read and judged.
LEMMA InspectStep == IInv /\ InspectDatabase => IInv'
  <1> SUFFICES ASSUME IInv, InspectDatabase PROVE IInv'
    OBVIOUS
  <1>1. CASE Fail(Rejection(db))
    BY <1>1, DieStep DEF Rejection
  <1>2. CASE ~Fail(Rejection(db))
    BY <1>2, MoveStep DEF InspectDatabase, diskVars
  <1> QED
    BY <1>1, <1>2

\* A digest is never the mark of a missing one.
LEMMA DigestsType ==
    ASSUME NEW C \in SUBSET Contents, NEW d \in DigestsOf(C)
    PROVE  d \in Digests /\ d # None
  BY StartupAssumption DEF DigestsOf, Digests

\* The schema is created and the source's digest stored, in one transaction.
LEMMA SeedStep == IInv /\ (BeginSeed \/ EndSeedDigest) => IInv'
  <1> SUFFICES ASSUME IInv, BeginSeed \/ EndSeedDigest PROVE IInv'
    OBVIOUS
  <1>1. db = EmptyDatabase
    BY DEF BeginSeed, EndSeedDigest, IInv, LifeInv
  <1>2. CASE Fail("source")
    BY <1>1, <1>2, DieStep DEF Blank
  <1>3. CASE BeginSeed /\ ~Fail("source")
    <2>1. pc = "seed" /\ Goto("seed digest") /\ UNCHANGED <<db, file, mode, digest>>
      BY <1>3 DEF BeginSeed, diskVars
    <2>2. seen' \in SUBSET Contents
      BY <1>3 DEF BeginSeed, IInv, StartupTypeOK
    <2> QED
      BY <1>1, <2>1, <2>2, GotoStep DEF IInv, StartupTypeOK, DatabaseInv
  <1>4. CASE EndSeedDigest /\ ~Fail("source")
    <2>1. /\ pc = "seed digest" /\ Goto("commit") /\ UNCHANGED <<db, file, mode, seen>>
          /\ digest' \in DigestsOf(seen)
      BY <1>4 DEF EndSeedDigest, diskVars
    <2>2. digest' \in Digests /\ digest' # None
      BY <2>1, DigestsType DEF IInv, StartupTypeOK
    <2> QED
      BY <1>1, <2>1, <2>2, GotoStep DEF IInv, StartupTypeOK, DatabaseInv
  <1> QED
    BY <1>2, <1>3, <1>4

\* Schema, row and version in one transaction.
LEMMA CommitStep == IInv /\ CommitSeed => IInv'
  <1> SUFFICES ASSUME IInv, CommitSeed PROVE IInv'
    OBVIOUS
  <1>1. CASE Fail("commit")
    BY <1>1, DieStep
  <1>2. CASE ~Fail("commit")
    <2>1. /\ pc = "commit" /\ Goto("opened") /\ UNCHANGED <<file, mode, digest, seen>>
          /\ db' = SeededDatabase(digest)
      BY <1>2 DEF CommitSeed
    <2>2. digest \in Digests
      BY <2>1 DEF IInv, StartupTypeOK, LifeInv
    <2>3. /\ db' \in DatabaseType /\ db'.file /\ Complete(db')
          /\ ~Initialisable(db')
      <3>1. SeededDatabase(digest) \in DatabaseType /\ Complete(SeededDatabase(digest))
        BY <2>2, BlankTypes, SeededComplete
      <3>2. SeededDatabase(digest).file = TRUE /\ SeededDatabase(digest).version = 1
        BY <2>2, SeededFields
      <3> QED
        BY <2>1, <3>1, <3>2 DEF Initialisable
    <2> QED
      BY <2>1, <2>3, GotoStep DEF IInv, StartupTypeOK
  <1> QED
    BY <1>1, <1>2

-----------------------------------------------------------------------------
(* Requests                                                                *)

\* What the invariant says of everything but requests, digests and the running scan.
RestOK == db \in DatabaseType /\ DatabaseInv /\ LifeInv /\ digest \in Digests \cup {None}
          /\ seen \in SUBSET Contents

\* The database and the main thread, when a step leaves them alone.
LEMMA RestFrame == IInv /\ UNCHANGED <<db, mainVars>> => RestOK'
  <1> SUFFICES ASSUME IInv, UNCHANGED <<db, mainVars>> PROVE RestOK'
    OBVIOUS
  <1> USE DEF mainVars
  <1>1. DatabaseInv'
    BY DEF IInv, DatabaseInv, Initialisable, Complete, HasUserSchemaObjects
  <1>2. LifeInv'
    BY DEF IInv, LifeInv, Serving, Complete, LoadedConfigs
  <1> QED
    BY <1>1, <1>2 DEF RestOK, IInv, StartupTypeOK

\* The fingerprint cache, while neither the file nor the cache changes.
LEMMA CacheFrame == IInv /\ UNCHANGED <<file, cache>> => cache' \in CacheType /\ CacheInv'
  BY DEF IInv, StartupTypeOK, CacheInv, Genuine

\* A step of one request.
LEMMA OneCall ==
    ASSUME IInv, NEW t \in Threads, NEW r \in CallType, op' = [op EXCEPT ![t] = r], RestOK',
           UNCHANGED file, cache' \in CacheType, CacheInv', scan' \in Digests \cup {None},
           CallOK(r), Serving', r.step # "idle" \/ r = NoCall
    PROVE  IInv'
  <1>1. op' \in [Threads -> CallType]
    BY DEF IInv, StartupTypeOK
  <1>2. StartupTypeOK'
    BY <1>1 DEF IInv, StartupTypeOK, RestOK
  <1>3. ServingInv'
    BY DEF ServingInv, Serving
  <1>4. \A u \in Threads : op'[u] = IF u = t THEN r ELSE op[u]
    BY DEF IInv, StartupTypeOK
  <1>5. CallsInv'
    BY <1>4 DEF IInv, CallsInv, CallOK, Genuine
  <1> QED
    BY <1>2, <1>3, <1>5 DEF IInv, RestOK

\* An idle request keeps every promise.
LEMMA NoCallOK == CallOK(NoCall)
  BY NoCallType DEF CallOK, NoCall

\* The beginning of a request.
LEMMA BeginStep ==
    ASSUME IInv, NEW t \in Threads, NEW kind \in {"list", "report", "scan", "download"},
           NEW caller \in {"main", "client"}, Begin(t, kind, caller)
    PROVE  IInv'
  <1> DEFINE forced == kind \in {"scan", "download"}
             page   == IF kind = "list" THEN db.source ELSE None
             r == [NoCall EXCEPT !.kind = kind, !.caller = caller, !.step = "begun",
                                 !.force = forced, !.listed = page, !.seen = CurrentContents]
  <1>1. /\ op' = [op EXCEPT ![t] = r] /\ UNCHANGED <<diskVars, mainVars, cache, lock, scan>>
        /\ Serving
    BY DEF Begin
  <1>2. CurrentContents \in SUBSET Contents /\ (file.mounted => file.content \in CurrentContents)
    BY DEF IInv, StartupTypeOK, CurrentContents
  <1>6. page \in Digests \cup {None} /\ forced \in BOOLEAN
    BY DEF IInv, StartupTypeOK, DatabaseType
  <1> HIDE DEF page, forced
  <1>3. /\ r \in CallType /\ r.step = "begun" /\ r.seen = CurrentContents
    <2> DEFINE C == CurrentContents
    <2> HIDE DEF C
    <2>1. C \in SUBSET Contents
      BY <1>2 DEF C
    <2>2. r = [NoCall EXCEPT !.kind = kind, !.caller = caller, !.step = "begun",
                             !.force = forced, !.listed = page, !.seen = C]
      BY DEF C
    <2> HIDE DEF r
    <2>3. r \in CallType
      <3>1. r = [kind |-> kind, caller |-> caller, step |-> "begun", force |-> forced,
                 listed |-> page, row |-> None, stat |-> None, digest |-> None,
                 canRescan |-> FALSE, read |-> {}, seen |-> C]
        BY <2>2 DEF NoCall
      <3> QED
        BY <1>6, <2>1, <3>1 DEF CallType
    <2>4. r.step = "begun" /\ r.seen = C
      BY <2>2, NoCallType DEF CallType
    <2> QED
      BY <2>3, <2>4 DEF C
  <1> HIDE DEF r
  <1>4. CallOK(r)
    BY <1>2, <1>3 DEF CallOK
  <1>5. RestOK' /\ Serving' /\ UNCHANGED <<file, cache, scan>>
    BY <1>1, RestFrame DEF diskVars, mainVars, Serving
  <1> QED
    BY <1>1, <1>3, <1>4, <1>5, OneCall, CacheFrame DEF IInv, StartupTypeOK

\* A request that ends, in the process that serves it.
LEMMA ReturnStep ==
    ASSUME IInv, NEW t \in Threads, Return(t), RestOK', UNCHANGED <<file, cache>>,
           scan' \in Digests \cup {None}, Serving'
    PROVE  IInv'
  BY NoCallType, NoCallOK, OneCall, CacheFrame DEF Return

\* The request holds the mutex while it looks at the file: the row is the one of its page.
LEMMA LockStep ==
    ASSUME IInv, NEW t \in Threads, LockSourceState(t)
    PROVE  IInv'
  <1> DEFINE w == ComparedRow(op[t])
             r == [op[t] EXCEPT !.step = "stat", !.row = w]
  <1>1. op[t] \in CallType /\ CallOK(op[t]) /\ op[t].step = "begun"
    BY DEF IInv, StartupTypeOK, CallsInv, LockSourceState
  <1>2. Serving /\ RestOK' /\ Serving' /\ UNCHANGED <<file, cache, scan>>
    BY <1>1, RestFrame DEF LockSourceState, IInv, ServingInv, Active, Serving, diskVars, mainVars
  <1>3. w \in Digests \cup {None} /\ (op[t].kind = "list" => w = op[t].listed)
    BY <1>1 DEF ComparedRow, IInv, StartupTypeOK, DatabaseType, CallType
  <1>4. op' = [op EXCEPT ![t] = r]
    BY DEF LockSourceState, IInv, StartupTypeOK
  <1> HIDE DEF w
  <1>5. /\ r \in CallType /\ r.step = "stat" /\ r.row = w /\ r.listed = op[t].listed
        /\ r.kind = op[t].kind /\ r.seen = op[t].seen
    BY <1>1, <1>3 DEF CallType
  <1> HIDE DEF r
  <1>6. CallOK(r)
    BY <1>1, <1>3, <1>5 DEF CallOK
  <1> QED
    BY <1>2, <1>4, <1>5, <1>6, OneCall, CacheFrame DEF IInv, StartupTypeOK

\* An answer names no digest, or one of contents that the request has seen.
LEMMA AnswerStep ==
    ASSUME IInv, NEW t \in Threads, NEW can \in BOOLEAN, NEW d \in Digests \cup {None},
           Answer(t, can, d), op[t].step \in {"stat", "digest", "verify"},
           can => d \in op[t].seen,
           UNCHANGED <<diskVars, mainVars, scan>>, cache' \in CacheType, CacheInv'
    PROVE  IInv'
  <1> DEFINE r == [op[t] EXCEPT !.step = "answered", !.canRescan = can, !.digest = d, !.read = {}]
  <1>1. op[t] \in CallType /\ CallOK(op[t])
    BY DEF IInv, StartupTypeOK, CallsInv
  <1>2. Serving /\ RestOK' /\ Serving' /\ UNCHANGED <<file, scan>>
    BY RestFrame DEF IInv, ServingInv, Active, Serving, diskVars, mainVars
  <1>3. op' = [op EXCEPT ![t] = r]
    BY DEF Answer, IInv, StartupTypeOK
  <1>4. /\ r \in CallType /\ r.step = "answered" /\ r.row = op[t].row /\ r.listed = op[t].listed
        /\ r.kind = op[t].kind /\ r.seen = op[t].seen /\ r.canRescan = can /\ r.digest = d
    BY <1>1 DEF CallType
  <1> HIDE DEF r
  <1>5. CallOK(r)
    BY <1>1, <1>4 DEF CallOK
  <1> QED
    BY <1>2, <1>3, <1>4, <1>5, OneCall, CacheFrame DEF IInv, StartupTypeOK

\* The size and the time of the file are numbers, and no missing pair.
LEMMA StatIsNumbers ==
    IInv => Stat \in StatType /\ Stat # None /\ Stat.stamp = file.stamp /\ file.stamp \in Nat
  <1> SUFFICES ASSUME IInv
               PROVE  Stat \in StatType /\ Stat # None /\ Stat.stamp = file.stamp
                      /\ file.stamp \in Nat
    OBVIOUS
  <1>1. file.stamp \in Nat /\ SizeOf[file.content] \in Nat
    BY StartupAssumption DEF IInv, StartupTypeOK
  <1>2. Stat \in StatType /\ Stat.stamp = file.stamp
    BY <1>1 DEF Stat, StatType
  <1> QED
    BY <1>1, <1>2, StartupAssumption DEF StatType

\* A cached digest is used only while size and time are those it was computed for.
LEMMA ReadStatStep ==
    ASSUME IInv, NEW t \in Threads, ReadSourceStat(t)
    PROVE  IInv'
  <1>0. op[t].step = "stat" /\ UNCHANGED <<diskVars, mainVars, cache, scan>>
    BY DEF ReadSourceStat
  <1>1. op[t] \in CallType /\ CallOK(op[t])
    BY DEF IInv, StartupTypeOK, CallsInv
  <1>2. CASE ~SourceValid(config) /\ Answer(t, FALSE, None)
    BY <1>0, <1>2, AnswerStep, CacheFrame DEF diskVars
  <1>3. CASE SourceValid(config) /\ CacheHit(t) /\ Answer(t, TRUE, cache.digest)
    <2>1. file.mounted /\ cache.stat = Stat
      BY <1>3 DEF SourceValid, CacheHit
    <2>2. cache.digest = file.content /\ cache.digest \in Digests \cup {None}
      BY <2>1, StatIsNumbers DEF IInv, CacheInv, Genuine, StartupTypeOK, CacheType
    <2>3. cache.digest \in op[t].seen
      BY <1>0, <1>1, <2>1, <2>2 DEF CallOK
    <2> QED
      BY <1>0, <1>3, <2>2, <2>3, AnswerStep, CacheFrame DEF diskVars
  <1>4. CASE /\ op' = [op EXCEPT ![t].step = "digest", ![t].stat = Stat,
                                 ![t].read = {file.content}]
    <2> DEFINE st == Stat
               rd == {file.content}
               r == [op[t] EXCEPT !.step = "digest", !.stat = st, !.read = rd]
    <2>1. op' = [op EXCEPT ![t] = r]
      BY <1>4 DEF IInv, StartupTypeOK
    <2>2. st \in StatType /\ st.stamp = file.stamp /\ rd \in SUBSET Contents /\ file.stamp \in Nat
      BY StatIsNumbers DEF IInv, StartupTypeOK
    <2>3. rd = {file.content}
      OBVIOUS
    <2> HIDE DEF st, rd
    <2>4. /\ r \in CallType /\ r.step = "digest" /\ r.row = op[t].row /\ r.listed = op[t].listed
          /\ r.kind = op[t].kind /\ r.seen = op[t].seen /\ r.stat = st /\ r.read = rd
      BY <1>1, <2>2 DEF CallType
    <2> HIDE DEF r
    <2>5. CallOK(r)
      BY <1>0, <1>1, <2>2, <2>3, <2>4 DEF CallOK
    <2>6. RestOK' /\ Serving' /\ UNCHANGED <<file, cache, scan>>
      BY <1>0, RestFrame DEF IInv, ServingInv, Active, Serving, diskVars, mainVars
    <2> QED
      BY <2>1, <2>4, <2>5, <2>6, OneCall, CacheFrame DEF IInv, StartupTypeOK
  <1> QED
    BY <1>2, <1>3, <1>4 DEF ReadSourceStat

\* A digest computed while the file had one content is that content's.
LEMMA DigestOfOne ==
    ASSUME NEW c, NEW d \in DigestsOf({c})
    PROVE  d = c
  <1>1. Cardinality({c}) = 1
    BY FS_Singleton
  <1> QED
    BY <1>1 DEF DigestsOf

\* The file is read for its digest.
LEMMA ComputeStep ==
    ASSUME IInv, NEW t \in Threads, ComputeFile(t)
    PROVE  IInv'
  <1>0. op[t].step = "digest" /\ UNCHANGED <<diskVars, mainVars, cache, scan>>
    BY DEF ComputeFile
  <1>1. op[t] \in CallType /\ CallOK(op[t])
    BY DEF IInv, StartupTypeOK, CallsInv
  <1>2. CASE Answer(t, FALSE, None)
    BY <1>0, <1>2, AnswerStep, CacheFrame DEF diskVars
  <1>3. ASSUME NEW d \in DigestsOf(op[t].read),
               op' = [op EXCEPT ![t].step = "verify", ![t].digest = d, ![t].read = {}]
        PROVE  IInv'
    <2> DEFINE r == [op[t] EXCEPT !.step = "verify", !.digest = d, !.read = {}]
    <2>1. op' = [op EXCEPT ![t] = r]
      BY <1>3 DEF IInv, StartupTypeOK
    <2>2. d \in Digests
      BY <1>1, DigestsType DEF CallType
    <2>3. /\ r \in CallType /\ r.step = "verify" /\ r.row = op[t].row /\ r.listed = op[t].listed
          /\ r.kind = op[t].kind /\ r.seen = op[t].seen /\ r.stat = op[t].stat /\ r.digest = d
      BY <1>1, <2>2 DEF CallType
    <2> HIDE DEF r
    <2>4. op[t].stat.stamp = file.stamp => d = file.content
      BY <1>0, <1>1, DigestOfOne DEF CallOK
    <2>5. CallOK(r)
      BY <1>0, <1>1, <2>3, <2>4 DEF CallOK, Genuine
    <2>6. RestOK' /\ Serving' /\ UNCHANGED <<file, cache, scan>>
      BY <1>0, RestFrame DEF IInv, ServingInv, Active, Serving, diskVars, mainVars
    <2> QED
      BY <2>1, <2>3, <2>5, <2>6, OneCall, CacheFrame DEF IInv, StartupTypeOK
  <1> QED
    BY <1>2, <1>3 DEF ComputeFile

\* The digest enters the cache only when size and time did not change meanwhile.
LEMMA VerifyStep ==
    ASSUME IInv, NEW t \in Threads, VerifySourceStat(t)
    PROVE  IInv'
  <1>0. op[t].step = "verify" /\ UNCHANGED <<diskVars, mainVars, scan>>
    BY DEF VerifySourceStat
  <1>1. op[t] \in CallType /\ CallOK(op[t])
    BY DEF IInv, StartupTypeOK, CallsInv
  <1>2. CASE UNCHANGED cache /\ Answer(t, FALSE, None)
    BY <1>0, <1>2, AnswerStep, CacheFrame DEF diskVars
  <1>3. CASE /\ file.mounted /\ Stat = op[t].stat /\ Answer(t, TRUE, op[t].digest)
             /\ cache' = [stat |-> op[t].stat, digest |-> op[t].digest]
    <2>1. op[t].stat.stamp = file.stamp /\ file.stamp \in Nat
      BY <1>3, StatIsNumbers
    <2>2. op[t].digest = file.content /\ op[t].digest \in op[t].seen
      BY <1>0, <1>1, <1>3, <2>1 DEF CallOK, Genuine
    <2>3. op[t].digest \in Digests \cup {None} /\ op[t].stat \in StatType
      BY <1>0, <1>1 DEF CallType, CallOK
    <2>4. cache' \in CacheType /\ cache'.stat = op[t].stat /\ cache'.digest = op[t].digest
      BY <1>3, <2>3 DEF CacheType
    <2>5. CacheInv'
      BY <1>0, <2>1, <2>2, <2>4 DEF CacheInv, Genuine, diskVars
    <2> QED
      BY <1>0, <1>3, <2>2, <2>3, <2>4, <2>5, AnswerStep
  <1> QED
    BY <1>2, <1>3 DEF VerifySourceStat

\* StartInpxScan hands the digest to the scan service, the other requests report.
LEMMA ReturnToClientStep ==
    ASSUME IInv, NEW t \in Threads, ReturnToClient(t)
    PROVE  IInv'
  <1>1. Active(t) /\ Return(t) /\ UNCHANGED <<diskVars, mainVars, cache>>
    BY DEF ReturnToClient, Active
  <1>2. op[t] \in CallType
    BY DEF IInv, StartupTypeOK
  <1>3. scan' \in Digests \cup {None}
    BY <1>2 DEF ReturnToClient, IInv, StartupTypeOK, CallType
  <1>4. RestOK' /\ Serving'
    BY <1>1, RestFrame DEF IInv, ServingInv, Serving, diskVars, mainVars
  <1> QED
    BY <1>1, <1>3, <1>4, ReturnStep DEF diskVars

\* Only an accepted database is scanned into.
LEMMA PublishStep == IInv /\ PublishScan => IInv'
  <1> SUFFICES ASSUME IInv, PublishScan PROVE IInv'
    OBVIOUS
  <1>1. /\ scan # None /\ scan' = None /\ UNCHANGED <<file, mainVars, callVars>>
        /\ db' = [db EXCEPT !.source = scan, !.books = TRUE]
    BY DEF PublishScan
  <1>2. Serving /\ scan \in Digests
    BY <1>1 DEF IInv, ServingInv, StartupTypeOK
  <1>3. db \in DatabaseType /\ db.file /\ Complete(db)
    BY <1>2 DEF IInv, StartupTypeOK, LifeInv
  <1>4. db' \in DatabaseType /\ Complete(db') /\ db'.file = db.file /\ db'.version = 1
    BY <1>1, <1>2, <1>3, PublishedComplete
  <1>5. failure = "none"
    BY <1>2 DEF IInv, LifeInv, Serving
  <1>6. DatabaseInv'
    BY <1>1, <1>3, <1>4, <1>5 DEF DatabaseInv, Initialisable, mainVars
  <1>7. LifeInv'
    BY <1>1, <1>2, <1>3, <1>4 DEF IInv, LifeInv, Serving, mainVars, LoadedConfigs
  <1>8. StartupTypeOK'
    BY <1>1, <1>4 DEF IInv, StartupTypeOK, mainVars, callVars
  <1>9. ServingInv'
    BY <1>1 DEF IInv, ServingInv, Serving, Active, mainVars, callVars
  <1> QED
    BY <1>1, <1>6, <1>7, <1>8, <1>9, CallsFrame DEF IInv

\* A step of the main thread of a server that serves.
LEMMA PolicyFrame ==
    ASSUME IInv, Serving, pc' \in {"opened", "overview", "policy", "serving"}, MainUnchanged
    PROVE  RestOK' /\ Serving' /\ UNCHANGED file
  <1> USE DEF MainUnchanged, diskVars
  <1>1. DatabaseInv'
    BY DEF IInv, DatabaseInv, Initialisable, Complete, HasUserSchemaObjects
  <1>2. LifeInv' /\ Serving'
    BY DEF IInv, LifeInv, Serving, Complete, LoadedConfigs
  <1> QED
    BY <1>1, <1>2 DEF RestOK, IInv, StartupTypeOK

\* The overview reads the counts after the state of the source.
LEMMA TakeStatusStep == IInv /\ TakeStatus => IInv'
  <1> SUFFICES ASSUME IInv, TakeStatus PROVE IInv'
    OBVIOUS
  <1>1. /\ Return("backend") /\ MainUnchanged /\ UNCHANGED <<cache, scan>>
        /\ Serving /\ pc' \in {"overview", "policy"}
    BY DEF TakeStatus, Serving
  <1>2. RestOK' /\ Serving' /\ UNCHANGED file
    BY <1>1, PolicyFrame
  <1> QED
    BY <1>1, <1>2, ReturnStep DEF Threads, IInv, StartupTypeOK

\* The startup scan is asked for and its answer taken.
LEMMA StartupScanStep == IInv /\ (StartStartupScan \/ TakeStartupScan) => IInv'
  <1> SUFFICES ASSUME IInv, StartStartupScan \/ TakeStartupScan PROVE IInv'
    OBVIOUS
  <1>1. CASE Fail("conflict") \/ Fail("unavailable")
    BY <1>1, DieStep
  <1>2. CASE Begin("backend", "scan", "main")
    BY <1>2, BeginStep DEF Threads
  <1>3. CASE pc = "policy" /\ pc' = "serving" /\ MainUnchanged /\ UNCHANGED <<callVars, scan>>
    <2>1. RestOK' /\ Serving' /\ UNCHANGED file
      BY <1>3, PolicyFrame DEF Serving
    <2>2. StartupTypeOK' /\ ServingInv'
      BY <1>3, <2>1 DEF IInv, StartupTypeOK, ServingInv, Active, callVars, RestOK
    <2> QED
      BY <1>3, <2>1, <2>2, CallsFrame DEF IInv, RestOK
  <1>4. CASE /\ pc = "policy" /\ pc' = "serving" /\ MainUnchanged /\ UNCHANGED cache
             /\ scan' = op["backend"].digest /\ Return("backend")
    <2>1. RestOK' /\ Serving' /\ UNCHANGED file
      BY <1>4, PolicyFrame DEF Serving
    <2>2. op["backend"] \in CallType
      BY DEF IInv, StartupTypeOK, Threads
    <2>3. scan' \in Digests \cup {None}
      BY <1>4, <2>2 DEF CallType
    <2> QED
      BY <1>4, <2>1, <2>3, ReturnStep DEF Threads
  <1> QED
    BY <1>1, <1>2, <1>3, <1>4 DEF StartStartupScan, TakeStartupScan

-----------------------------------------------------------------------------
(* The owner                                                               *)

\* A new file has a new time; a request that runs sees every content the file takes.
LEMMA FileStep ==
    ASSUME IInv, NEW C \in SUBSET Contents, Witness(C),
           file' \in [content : Contents, stamp : Nat, mounted : BOOLEAN],
           \/ file'.stamp > file.stamp
           \/ file'.stamp = file.stamp /\ file'.content = file.content,
           file'.mounted => \/ file'.content \in C
                            \/ file.mounted /\ file'.content = file.content,
           file'.stamp = file.stamp => C \subseteq {file.content}
    PROVE  IInv'
  <1>1. /\ UNCHANGED <<db, pc, config, mode, failure, digest, cache, scan>>
        /\ seen' \in SUBSET Contents
    BY DEF Witness, IInv, StartupTypeOK
  <1>2. ASSUME NEW t \in Threads
        PROVE  /\ op'[t] \in CallType /\ op'[t].step = op[t].step /\ op'[t].stat = op[t].stat
               /\ op'[t].digest = op[t].digest /\ op'[t].canRescan = op[t].canRescan
               /\ op'[t].row = op[t].row /\ op'[t].listed = op[t].listed
               /\ op'[t].kind = op[t].kind
               /\ op'[t].seen = IF Active(t) THEN op[t].seen \cup C ELSE op[t].seen
               /\ op'[t].read = IF op[t].step = "digest" THEN op[t].read \cup C ELSE op[t].read
    <2> DEFINE sn == IF Active(t) THEN op[t].seen \cup C ELSE op[t].seen
               rd == IF op[t].step = "digest" THEN op[t].read \cup C ELSE op[t].read
    <2>1. op[t] \in CallType
      BY DEF IInv, StartupTypeOK
    <2>2. sn \in SUBSET Contents /\ rd \in SUBSET Contents
      BY <2>1 DEF CallType
    <2>3. op'[t] = [op[t] EXCEPT !.seen = sn, !.read = rd]
      BY <2>1 DEF Witness, CallType
    <2> HIDE DEF sn, rd
    <2>4. /\ op'[t] \in CallType /\ op'[t].step = op[t].step /\ op'[t].stat = op[t].stat
          /\ op'[t].digest = op[t].digest /\ op'[t].canRescan = op[t].canRescan
          /\ op'[t].row = op[t].row /\ op'[t].listed = op[t].listed
          /\ op'[t].kind = op[t].kind /\ op'[t].seen = sn /\ op'[t].read = rd
      BY <2>1, <2>2, <2>3 DEF CallType
    <2> QED
      BY <2>4 DEF sn, rd
  <1>3. op' \in [Threads -> CallType]
    <2>1. op' = [t \in Threads |-> op'[t]]
      BY DEF Witness
    <2> QED
      BY <1>2, <2>1
  <1>4. StartupTypeOK'
    BY <1>1, <1>3 DEF IInv, StartupTypeOK
  <1>5. DatabaseInv'
    BY <1>1 DEF IInv, DatabaseInv, Initialisable, Complete, HasUserSchemaObjects
  <1>6. LifeInv'
    BY <1>1 DEF IInv, LifeInv, Serving, Complete, LoadedConfigs
  <1>7. ServingInv'
    <2>1. Serving' = Serving /\ scan' = scan
      BY <1>1 DEF Serving
    <2>2. ASSUME NEW t \in Threads PROVE Active(t)' = Active(t)
      BY <1>2 DEF Active
    <2> QED
      BY <2>1, <2>2 DEF IInv, ServingInv
  <1>8. file.stamp \in Nat /\ file'.stamp \in Nat
    BY DEF IInv, StartupTypeOK
  <1>11. file'.stamp = file.stamp => file'.content = file.content /\ C \subseteq {file.content}
    BY <1>8
  <1>12. file.stamp <= file'.stamp
    BY <1>8
  <1>9. CacheInv'
    <2>1. cache.stat # None => cache.stat.stamp \in Nat
      BY DEF IInv, StartupTypeOK, CacheType, StatType
    <2> QED
      BY <1>1, <1>8, <2>1 DEF IInv, CacheInv, Genuine
  <1>10. ASSUME NEW t \in Threads PROVE CallOK(op[t])'
    <2>1. CallOK(op[t]) /\ op[t] \in CallType
      BY DEF IInv, CallsInv, StartupTypeOK
    <2>2. op[t].step \in {"begun", "stat", "digest", "verify"} /\ file'.mounted
            => file'.content \in op'[t].seen
      <3> SUFFICES ASSUME op[t].step \in {"begun", "stat", "digest", "verify"}, file'.mounted
                   PROVE  file'.content \in op'[t].seen
        OBVIOUS
      <3>1. op'[t].seen = op[t].seen \cup C
        BY <1>2 DEF Active
      <3>2. file.mounted => file.content \in op[t].seen
        BY <2>1 DEF CallOK
      <3> QED
        BY <3>1, <3>2
    <2>3. op[t].step \in {"digest", "verify"} => op[t].stat \in StatType /\ op[t].stat.stamp \in Nat
      BY <2>1 DEF CallOK, StatType
    <2>4. op[t].step = "digest" => /\ op[t].stat.stamp <= file'.stamp
                                   /\ op[t].stat.stamp = file'.stamp => op'[t].read = {file'.content}
      <3>1. SUFFICES ASSUME op[t].step = "digest"
                     PROVE  /\ op[t].stat.stamp <= file'.stamp
                            /\ op[t].stat.stamp = file'.stamp => op'[t].read = {file'.content}
        OBVIOUS
      <3>2. /\ op[t].stat.stamp <= file.stamp /\ op[t].stat.stamp \in Nat
            /\ op[t].stat.stamp = file.stamp => op[t].read = {file.content}
        BY <2>1, <2>3, <3>1 DEF CallOK
      <3>3. op[t].stat.stamp <= file'.stamp
        BY <1>8, <3>2
      <3>4. op[t].stat.stamp = file'.stamp => file'.stamp = file.stamp
        BY <1>8, <3>2
      <3>5. op'[t].read = op[t].read \cup C
        BY <1>2, <3>1
      <3>7. ASSUME op[t].stat.stamp = file'.stamp PROVE op'[t].read = {file'.content}
        <4>1. /\ op[t].read = {file.content} /\ C \subseteq {file.content}
              /\ file'.content = file.content
          BY <1>11, <3>2, <3>4, <3>7
        <4> QED
          BY <3>5, <4>1
      <3> QED
        BY <3>3, <3>7
    <2>5. op[t].step = "verify" => Genuine(op[t].stat, op[t].digest)'
      <3> SUFFICES ASSUME op[t].step = "verify"
                   PROVE  Genuine(op[t].stat, op[t].digest)'
        OBVIOUS
      <3> DEFINE n == op[t].stat.stamp
      <3>1. n \in Nat /\ n <= file.stamp /\ (n = file.stamp => op[t].digest = file.content)
        BY <2>1, <2>3 DEF CallOK, Genuine
      <3>2. op'[t].stat.stamp = n /\ op'[t].digest = op[t].digest
        BY <1>2
      <3> HIDE DEF n
      <3>3. n <= file'.stamp /\ (n = file'.stamp => file'.stamp = file.stamp)
        BY <1>8, <1>12, <3>1
      <3>4. n <= file'.stamp /\ (n = file'.stamp => op[t].digest = file'.content)
        BY <1>11, <3>1, <3>3
      <3> QED
        BY <3>2, <3>4 DEF Genuine
    <2>6. op[t].step = "answered" /\ op[t].canRescan => op'[t].digest \in op'[t].seen
      BY <1>2, <2>1 DEF CallOK
    <2>7. /\ op[t].kind = "list" /\ op[t].step \in {"stat", "digest", "verify", "answered"}
               => op[t].row = op[t].listed
      BY <2>1 DEF CallOK
    <2>8. /\ op'[t].step = op[t].step /\ op'[t].stat = op[t].stat
          /\ op'[t].canRescan = op[t].canRescan /\ op'[t].kind = op[t].kind
          /\ op'[t].row = op[t].row /\ op'[t].listed = op[t].listed
      BY <1>2
    <2> QED
      BY <2>2, <2>3, <2>4, <2>5, <2>6, <2>7, <2>8 DEF CallOK
  <1> QED
    BY <1>4, <1>5, <1>6, <1>7, <1>9, <1>10 DEF IInv, CallsInv

\* The INPX file is replaced, or its volume mounted.
LEMMA SourceStep == IInv /\ (ReplaceSource \/ MountSource) => IInv'
  <1> SUFFICES ASSUME IInv, ReplaceSource \/ MountSource PROVE IInv'
    OBVIOUS
  <1>1. file \in [content : Contents, stamp : Nat, mounted : BOOLEAN]
    BY DEF IInv, StartupTypeOK
  <1>2. CASE ReplaceSource
    <2>1. PICK c \in Contents : /\ file' = [file EXCEPT !.content = c, !.stamp = @ + 1]
                                /\ Witness(IF file.mounted THEN {c} ELSE {})
      BY <1>2 DEF ReplaceSource
    <2> DEFINE C == IF file.mounted THEN {c} ELSE {}
    <2>2. C \in SUBSET Contents /\ (file.mounted => c \in C)
      OBVIOUS
    <2> HIDE DEF C
    <2> DEFINE n == file.stamp + 1
    <2>6. file' = [file EXCEPT !.content = c, !.stamp = n] /\ n \in Nat
      BY <1>1, <2>1
    <2> HIDE DEF n
    <2>3. /\ file' \in [content : Contents, stamp : Nat, mounted : BOOLEAN]
          /\ file'.content = c /\ file'.stamp = n /\ file'.mounted = file.mounted
      BY <1>1, <2>6
    <2>4. file'.stamp > file.stamp /\ file'.stamp # file.stamp
      BY <1>1, <2>3 DEF n
    <2>5. Witness(C)
      BY <2>1 DEF C
    <2> QED
      BY <2>2, <2>3, <2>4, <2>5, FileStep
  <1>3. CASE MountSource
    <2>1. /\ file' = [file EXCEPT !.mounted = ~@]
          /\ Witness(IF file.mounted THEN {} ELSE {file.content})
      BY <1>3 DEF MountSource
    <2> DEFINE C == IF file.mounted THEN {} ELSE {file.content}
    <2>2. /\ C \in SUBSET Contents /\ C \subseteq {file.content}
          /\ ~file.mounted => file.content \in C
      BY <1>1
    <2> HIDE DEF C
    <2>3. /\ file' \in [content : Contents, stamp : Nat, mounted : BOOLEAN]
          /\ file'.content = file.content /\ file'.stamp = file.stamp
          /\ file'.mounted = ~file.mounted
      BY <1>1, <2>1
    <2>4. Witness(C)
      BY <2>1 DEF C
    <2> QED
      BY <2>2, <2>3, <2>4, FileStep
  <1> QED
    BY <1>2, <1>3

\* The operator deletes parts of the cache.
LEMMA DeleteStep == IInv /\ (DeleteDatabase \/ DeleteCovers \/ DeleteCache) => IInv'
  <1> SUFFICES ASSUME IInv, DeleteDatabase \/ DeleteCovers \/ DeleteCache PROVE IInv'
    OBVIOUS
  <1>1. /\ UNCHANGED <<file, pc, config, mode, failure, digest, seen, callVars, scan>>
        /\ pc = "down" /\ (db' = NoDatabase \/ UNCHANGED db)
    BY DEF DeleteDatabase, DeleteCovers, DeleteCache, mainVars
  <1>2. StartupTypeOK'
    BY <1>1, BlankTypes DEF IInv, StartupTypeOK, callVars
  <1>3. DatabaseInv'
    <2>1. CASE db' = NoDatabase
      BY <2>1 DEF DatabaseInv, Blank
    <2>2. CASE UNCHANGED db
      BY <1>1, <2>2 DEF IInv, DatabaseInv, Initialisable, Complete, HasUserSchemaObjects
    <2> QED
      BY <1>1, <2>1, <2>2
  <1>4. LifeInv'
    BY <1>1 DEF LifeInv, Serving
  <1>5. ServingInv'
    BY <1>1 DEF IInv, ServingInv, Serving, Active, callVars
  <1> QED
    BY <1>1, <1>2, <1>3, <1>4, <1>5, CallsFrame DEF IInv

\* A step that changes nothing of what the invariant speaks of but the running scan.
LEMMA QuietStep ==
    ASSUME IInv, UNCHANGED <<diskVars, mainVars, callVars>>, scan' \in {scan, None}
    PROVE  IInv'
  <1>1. RestOK' /\ UNCHANGED file
    BY RestFrame DEF diskVars
  <1>2. StartupTypeOK' /\ ServingInv'
    BY <1>1 DEF IInv, StartupTypeOK, ServingInv, Serving, Active, callVars, mainVars, RestOK
  <1> QED
    BY <1>1, <1>2, CallsFrame DEF IInv, RestOK

-----------------------------------------------------------------------------
(* The theorems                                                            *)

\* IInv is an inductive invariant of all lives.
THEOREM Invariance == Spec => []IInv
  <1>1. IInv /\ [Next]_vars => IInv'
    <2> SUFFICES ASSUME IInv, [Next]_vars PROVE IInv'
      OBVIOUS
    <2>1. CASE Opening
      BY <2>1, LaunchStep, OpenHostStep, PrepareStep, ConnectStep, InspectStep, SeedStep,
         CommitStep DEF Opening
    <2>2. CASE ClientCall \/ AskStatus
      BY <2>2, BeginStep DEF ClientCall, AskStatus, Threads
    <2>3. ASSUME NEW t \in Threads, SourceState(t) PROVE IInv'
      BY <2>3, LockStep, ReadStatStep, ComputeStep, VerifyStep, ReturnToClientStep DEF SourceState
    <2>4. CASE AbandonScan \/ UNCHANGED vars
      BY <2>4, QuietStep DEF AbandonScan, vars
    <2>5. CASE Shutdown \/ Crash
      BY <2>5, DieStep DEF Shutdown, Crash
    <2> QED
      BY <2>1, <2>2, <2>3, <2>4, <2>5, PublishStep, TakeStatusStep, StartupScanStep, SourceStep,
         DeleteStep DEF Next
  <1> QED
    BY <1>1, StartupInit, PTL DEF Spec

\* Wherever a life dies, what this build wrote is an empty file or a catalog that the next
\* life accepts.
THEOREM NeverPartialDatabase == Spec => []NoPartialDatabase
  <1>1. IInv => NoPartialDatabase
    BY DEF IInv, DatabaseInv, Blank, NoPartialDatabase
  <1> QED
    BY <1>1, Invariance, PTL

\* Opening a complete cache asks nothing of the source: not when the configuration is checked,
\* not when the cache is prepared, and the steps that do are not reached.
LEMMA OpeningComplete ==
    ASSUME IInv, Opening, Complete(db), dirs = Directories, pc # "down" \/ launches' # launches
    PROVE  failure' \in {"none", "config", "converter", "crash"}
  <1>1. db.file /\ ~Initialisable(db) /\ db # EmptyDatabase
    BY BlankFields DEF IInv, DatabaseInv, Complete, Initialisable
  <1>2. CASE Launch
    BY <1>1, <1>2 DEF Launch, NeedsSource
  <1>3. CASE OpenHost
    BY <1>3 DEF OpenHost, Fail, Die, Goto, IInv, LifeInv
  <1>4. CASE PrepareExistingCache
    BY <1>1, <1>4 DEF PrepareExistingCache, Goto, IInv, LifeInv
  <1>5. CASE PrepareNewCache \/ BeginSeed \/ EndSeedDigest \/ CommitSeed
    BY <1>1, <1>5 DEF PrepareNewCache, BeginSeed, EndSeedDigest, CommitSeed, IInv, LifeInv
  <1>6. CASE CreateDatabaseDirectory \/ CreateCoversDirectory \/ Connect
    BY <1>6 DEF CreateDatabaseDirectory, CreateCoversDirectory, Connect, Goto, IInv, LifeInv
  <1>7. CASE InspectDatabase
    BY <1>1, <1>7 DEF InspectDatabase, Goto, IInv, LifeInv
  <1> QED
    BY <1>2, <1>3, <1>4, <1>5, <1>6, <1>7 DEF Opening

\* The policy looks at a status and a configuration that stay as they are while the main thread
\* waits for its startup scan.
LEMMA PolicyKept ==
    ASSUME IInv, PolicyInv, [Next]_vars
    PROVE  PolicyInv'
  <1>1. op \in [Threads -> CallType] /\ "backend" \in Threads
    BY DEF IInv, StartupTypeOK, Threads
  <1>2. SUFFICES ASSUME pc' = "policy", op'["backend"].caller = "main"
                 PROVE  StartupScanWanted'
    BY DEF PolicyInv
  <1>3. CASE UNCHANGED <<pc, status, config>> /\ op'["backend"].caller = op["backend"].caller
    BY <1>2, <1>3 DEF PolicyInv, StartupScanWanted
  <1>4. CASE Opening
    BY <1>2, <1>4 DEF Opening, Launch, OpenHost, PrepareExistingCache, PrepareNewCache,
         CreateDatabaseDirectory, CreateCoversDirectory, Connect, InspectDatabase, BeginSeed,
         EndSeedDigest, CommitSeed, Goto, Fail, Die
  <1>5. CASE ClientCall \/ AskStatus \/ StartStartupScan
    <2>1. CASE ClientCall
      <3>1. UNCHANGED <<pc, status, config>>
        BY <2>1 DEF ClientCall, Begin, mainVars
      <3>2. PICK t \in Threads, kind \in {"list", "report", "scan", "download"} :
               Begin(t, kind, "client")
        BY <2>1 DEF ClientCall, Threads
      <3>3. t # "backend" => op'["backend"].caller = op["backend"].caller
        BY <1>1, <3>2 DEF Begin
      <3>4. t = "backend" => op'["backend"].caller = "client"
        BY <1>1, <3>2 DEF Begin, NoCall
      <3> QED
        BY <1>2, <1>3, <3>1, <3>3, <3>4
    <2>2. CASE AskStatus
      BY <1>2, <2>2 DEF AskStatus, Begin, mainVars
    <2>3. CASE StartStartupScan
      <3>1. \/ pc' \in {"serving", "down"}
            \/ StartupScanWanted /\ Begin("backend", "scan", "main")
        BY <2>3 DEF StartStartupScan, Fail, Die
      <3> QED
        BY <1>2, <3>1 DEF StartupScanWanted, Begin, mainVars
    <2> QED
      BY <1>5, <2>1, <2>2, <2>3
  <1>6. ASSUME NEW t \in Threads, SourceState(t) PROVE StartupScanWanted'
    <2>0. op[t] \in CallType
      BY <1>1
    <2>1. op'["backend"].caller = op["backend"].caller \/ op'["backend"] = NoCall
      <3>1. ASSUME NEW can, NEW d, Answer(t, can, d)
            PROVE  \E r : op' = [op EXCEPT ![t] = r] /\ r.caller = op[t].caller
        <4> DEFINE r == [op[t] EXCEPT !.step = "answered", !.canRescan = can, !.digest = d,
                                      !.read = {}]
        <4>1. op' = [op EXCEPT ![t] = r]
          BY <1>1, <3>1 DEF Answer
        <4>2. r.caller = op[t].caller
          BY <2>0 DEF CallType
        <4> QED
          BY <4>1, <4>2
      <3>2. ASSUME NEW st, NEW rd,
                   op' = [op EXCEPT ![t].step = "digest", ![t].stat = st, ![t].read = rd]
            PROVE  \E r : op' = [op EXCEPT ![t] = r] /\ r.caller = op[t].caller
        <4> DEFINE r == [op[t] EXCEPT !.step = "digest", !.stat = st, !.read = rd]
        <4>1. op' = [op EXCEPT ![t] = r]
          BY <1>1, <3>2
        <4>2. r.caller = op[t].caller
          BY <2>0 DEF CallType
        <4> QED
          BY <4>1, <4>2
      <3>3. ASSUME NEW d, op' = [op EXCEPT ![t].step = "verify", ![t].digest = d, ![t].read = {}]
            PROVE  \E r : op' = [op EXCEPT ![t] = r] /\ r.caller = op[t].caller
        <4> DEFINE r == [op[t] EXCEPT !.step = "verify", !.digest = d, !.read = {}]
        <4>1. op' = [op EXCEPT ![t] = r]
          BY <1>1, <3>3
        <4>2. r.caller = op[t].caller
          BY <2>0 DEF CallType
        <4> QED
          BY <4>1, <4>2
      <3>4. ASSUME NEW row, op' = [op EXCEPT ![t].step = "stat", ![t].row = row]
            PROVE  \E r : op' = [op EXCEPT ![t] = r] /\ r.caller = op[t].caller
        <4> DEFINE r == [op[t] EXCEPT !.step = "stat", !.row = row]
        <4>1. op' = [op EXCEPT ![t] = r]
          BY <1>1, <3>4
        <4>2. r.caller = op[t].caller
          BY <2>0 DEF CallType
        <4> QED
          BY <4>1, <4>2
      <3>5. \/ \E r : op' = [op EXCEPT ![t] = r] /\ r.caller = op[t].caller
            \/ op' = [op EXCEPT ![t] = NoCall]
        <4>1. CASE LockSourceState(t)
          BY <3>4, <4>1 DEF LockSourceState
        <4>2. CASE ReadSourceStat(t)
          BY <3>1, <3>2, <4>2 DEF ReadSourceStat
        <4>3. CASE ComputeFile(t)
          BY <3>1, <3>3, <4>3 DEF ComputeFile
        <4>4. CASE VerifySourceStat(t)
          BY <3>1, <4>4 DEF VerifySourceStat
        <4>5. CASE ReturnToClient(t)
          BY <4>5 DEF ReturnToClient, Return
        <4> QED
          BY <1>6, <4>1, <4>2, <4>3, <4>4, <4>5 DEF SourceState
      <3> QED
        BY <1>1, <3>5
    <2>2. UNCHANGED <<pc, status, config>>
      BY <1>6 DEF SourceState, LockSourceState, ReadSourceStat, ComputeFile,
           VerifySourceStat, ReturnToClient, mainVars
    <2> QED
      BY <1>2, <1>3, <2>1, <2>2 DEF NoCall
  <1>7. CASE PublishScan \/ AbandonScan
    BY <1>3, <1>7 DEF PublishScan, AbandonScan, mainVars, callVars
  <1>8. CASE TakeStatus \/ TakeStartupScan
    <2>1. CASE TakeStatus
      <3>1. op' = [op EXCEPT !["backend"] = NoCall]
        BY <2>1 DEF TakeStatus, Return
      <3>2. op'["backend"].caller = "none"
        BY <1>1, <3>1 DEF NoCall
      <3> QED
        BY <1>2, <3>2
    <2>2. CASE TakeStartupScan
      BY <1>2, <2>2 DEF TakeStartupScan, Fail, Die
    <2> QED
      BY <1>8, <2>1, <2>2
  <1>9. CASE Shutdown \/ Crash
    BY <1>2, <1>9 DEF Shutdown, Crash, Fail, Die
  <1>10. CASE ReplaceSource \/ MountSource
    <2>1. UNCHANGED <<pc, status, config>> /\ op'["backend"].caller = op["backend"].caller
      <3>1. PICK C : Witness(C)
        BY <1>10 DEF ReplaceSource, MountSource
      <3> DEFINE c == op["backend"]
                 sn == IF Active("backend") THEN c.seen \cup C ELSE c.seen
                 rd == IF c.step = "digest" THEN c.read \cup C ELSE c.read
      <3>2. c \in CallType
        BY <1>1
      <3>3. op'["backend"] = [c EXCEPT !.seen = sn, !.read = rd]
        BY <1>1, <3>1, <3>2 DEF Witness, CallType
      <3> HIDE DEF sn, rd
      <3>4. op'["backend"].caller = c.caller
        BY <3>2, <3>3 DEF CallType
      <3> QED
        BY <3>1, <3>4 DEF Witness
    <2> QED
      BY <1>3, <2>1
  <1>11. CASE DeleteDatabase \/ DeleteCovers \/ DeleteCache \/ UNCHANGED vars
    BY <1>3, <1>11 DEF DeleteDatabase, DeleteCovers, DeleteCache, vars, mainVars, callVars
  <1> QED
    BY <1>4, <1>5, <1>6, <1>7, <1>8, <1>9, <1>10, <1>11 DEF Next

\* A complete cache is opened and served whatever became of the source: but for the startup scan
\* that the policy asked for, nothing ends a life over it for want of the source.
THEOREM CompleteCacheAlwaysOpens == Spec => CompleteCacheOpens
  <1> DEFINE Refused == /\ pc = "policy" /\ StartupScanWanted
                        /\ scan # None \/ ~op["backend"].canRescan
             P == Complete(db) /\ dirs = Directories /\ (pc # "down" \/ launches' # launches) =>
                     failure' \in {"none", "config", "converter", "crash"} \/ Refused
  <1>1. IInv /\ PolicyInv /\ Next => P
    <2> SUFFICES ASSUME IInv, PolicyInv, Next, Complete(db), dirs = Directories,
                        pc # "down" \/ launches' # launches, ~Refused
                 PROVE  failure' \in {"none", "config", "converter", "crash"}
      OBVIOUS
    <2>1. CASE Opening
      BY <2>1, OpeningComplete
    <2>2. CASE Shutdown \/ Crash
      BY <2>2 DEF Shutdown, Crash, Fail, Die
    <2>3. UNCHANGED <<failure, launches>> => failure' = "none"
      BY DEF IInv, LifeInv
    <2>4. CASE ClientCall \/ AskStatus
      BY <2>3, <2>4 DEF ClientCall, AskStatus, Begin, mainVars
    <2>5. ASSUME NEW t \in Threads, SourceState(t) PROVE UNCHANGED <<failure, launches>>
      BY <2>5 DEF SourceState, LockSourceState, ReadSourceStat, ComputeFile, VerifySourceStat,
                  ReturnToClient, mainVars
    <2>6. CASE PublishScan \/ AbandonScan \/ TakeStatus
      BY <2>3, <2>6 DEF PublishScan, AbandonScan, TakeStatus, MainUnchanged, mainVars
    <2>7. CASE StartStartupScan
      <3>1. pc = "policy"
        BY <2>7 DEF StartStartupScan
      <3>2. \/ UNCHANGED <<failure, launches>>
            \/ StartupScanWanted /\ scan # None
        BY <2>7 DEF StartStartupScan, Begin, MainUnchanged, mainVars
      <3> QED
        BY <2>3, <3>1, <3>2
    <2>8. CASE TakeStartupScan
      BY <2>3, <2>8 DEF TakeStartupScan, PolicyInv, MainUnchanged
    <2>9. CASE ReplaceSource \/ MountSource
      BY <2>3, <2>9 DEF ReplaceSource, MountSource, Witness
    <2>10. CASE DeleteDatabase \/ DeleteCovers \/ DeleteCache
      BY <2>3, <2>10 DEF DeleteDatabase, DeleteCovers, DeleteCache, mainVars
    <2> QED
      BY <2>1, <2>2, <2>3, <2>4, <2>5, <2>6, <2>7, <2>8, <2>9, <2>10 DEF Next
  <1>2. IInv /\ PolicyInv /\ [Next]_vars => [P]_vars
    BY <1>1
  <1>3. Init => PolicyInv
    BY DEF Init, PolicyInv
  <1>4. IInv /\ PolicyInv /\ [Next]_vars => PolicyInv'
    BY PolicyKept
  <1> QED
    BY <1>2, <1>3, <1>4, Invariance, PTL DEF Spec, CompleteCacheOpens

\* However edits, scans and requests interleave, an answer names contents that the file had
\* during the request, and a list offers only books of the catalog it lists.
THEOREM OffersAlwaysGenuine == Spec => []OffersGenuine
  <1>1. IInv => OffersGenuine
    BY DEF IInv, CallsInv, CallOK, OffersGenuine, CanDownload
  <1> QED
    BY <1>1, Invariance, PTL
=============================================================================
