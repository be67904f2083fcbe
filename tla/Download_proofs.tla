--------------------------- MODULE Download_proofs ---------------------------
(***************************************************************************)
(* Proofs about Download for every collection, any formats and any number  *)
(* of edits of the archive, the INPX file and the catalog.                 *)
(***************************************************************************)
EXTENDS Download, TLAPS

-----------------------------------------------------------------------------
(* The inductive invariant                                                 *)

Validating == {"admitted", "opened", "extracted", "prepared", "published"}

\* Before the destination is touched, and from then to the end of the call.
Untouched == {"load", "admitted", "opened", "extract", "extracted", "prepare", "prepared", "backup"}
Replaced  == {"publish", "published", "remove", "restore", "cleanup"}

StageInv ==
    /\ stage \in Untouched \cup Replaced \cup {"left"}
    /\ step # "none" => stage \in Validating
    /\ result = "None" <=> stage # "left"
    /\ result \in {"None", "Failed", "Delivered", "RollbackFailed"}

\* What the locator names, in the format of the archive or in the one asked for.
Payload == [man |-> locator.man, format |-> SourceFormat]
Book    == [man |-> locator.man, format |-> requested]

\* The manifest that was compared last is the one of the directory the entry is read from;
\* from there on the payload only moves.
PayloadInv ==
    /\ stage = "extract" => directory = locator.man
    /\ stage \in {"extracted", "prepare"} => staged = Payload
    /\ stage \in {"prepared", "backup", "publish"} => prepared = Book
    /\ stage \in {"published", "cleanup"} => dest = Book
    /\ result = "Delivered" => dest = Book

\* The previous file is in its place, then in the backup, then in its place again.
DestinationInv ==
    /\ original \in {Absent, Previous}
    /\ stage \in Untouched => dest = original /\ backup = Absent
    /\ stage \in Replaced => backup = original
    /\ stage \in {"publish", "restore"} => dest = Absent
    /\ result = "Failed" => dest = original /\ backup = Absent
    /\ result = "RollbackFailed" => backup = original

IInv == StageInv /\ PayloadInv /\ DestinationInv

-----------------------------------------------------------------------------
\* No download has begun.
LEMMA DownloadInit == Init => IInv
  BY DEF Init, IInv, StageInv, PayloadInv, DestinationInv, Untouched, Replaced

\* The collection, the catalog and the client leave the download alone.
LEMMA OutsideStep ==
    ASSUME IInv, UNCHANGED <<stage, step, locator, requested, fd, directory, fileVars, result>>
    PROVE  IInv'
  BY DEF IInv, StageInv, PayloadInv, DestinationInv, Payload, Book, fileVars

\* A call that ends before the destination is touched.
LEMMA FailedStep ==
    ASSUME IInv, Failed, stage \in Untouched \/ (stage = "restore" /\ backup = Absent)
    PROVE  IInv'
  <1>1. /\ result' = "Failed" /\ stage' = "left" /\ step' = "none"
        /\ UNCHANGED <<dest, backup, original>>
    BY DEF Failed, Leave
  <1>2. dest = original /\ backup = Absent /\ original \in {Absent, Previous}
    BY DEF IInv, DestinationInv, Replaced
  <1> QED
    BY <1>1, <1>2 DEF IInv, StageInv, PayloadInv, DestinationInv, Untouched, Replaced

\* A validation that fails, or is stopped.
LEMMA RejectStep ==
    ASSUME IInv, Reject, stage \in Untouched \cup {"published"}
    PROVE  IInv'
  <1>1. CASE stage # "published"
    BY <1>1, FailedStep DEF Reject
  <1>2. CASE stage = "published"
    <2>1. /\ stage' = "remove" /\ step' = "none"
          /\ UNCHANGED <<locator, requested, directory, fileVars, result>>
      BY <1>2 DEF Reject
    <2> QED
      BY <1>2, <2>1
      DEF IInv, StageInv, PayloadInv, DestinationInv, Untouched, Replaced, Payload, Book, fileVars
  <1> QED
    BY <1>1, <1>2

\* The row is read in one snapshot.
LEMMA LoadStep == IInv /\ LoadDownloadSnapshot => IInv'
  BY DEF LoadDownloadSnapshot, IInv, StageInv, PayloadInv, DestinationInv, Untouched, Replaced,
         Validating, fileVars

\* The checks of a round of validation.
LEMMA ValidationStep ==
    IInv /\ (ValidateInpxSourceFingerprint \/ OpenArchive \/ ReadDirectory \/ CompareManifest
             \/ ReadFails) => IInv'
  <1> SUFFICES ASSUME IInv, \/ ValidateInpxSourceFingerprint \/ OpenArchive \/ ReadDirectory
                            \/ CompareManifest \/ ReadFails
               PROVE  IInv'
    OBVIOUS
  <1>1. stage \in Validating \cup {"extract"} /\ stage \in Untouched \cup {"published"}
    BY DEF ValidateInpxSourceFingerprint, OpenArchive, ReadDirectory, CompareManifest, ReadFails,
           IInv, StageInv, Validating, Untouched
  <1>2. CASE Reject
    BY <1>1, <1>2, RejectStep
  <1>3. CASE /\ step' # "none" /\ step # "none"
             /\ UNCHANGED <<stage, locator, requested, fileVars, result>>
    BY <1>3 DEF IInv, StageInv, PayloadInv, DestinationInv, Payload, Book, Validating, fileVars
  <1>4. CASE CompareManifest /\ ~Reject
    <2>1. /\ directory = locator.man /\ stage' = Following(stage).stage
          /\ step' = Following(stage).step /\ step # "none"
          /\ UNCHANGED <<locator, requested, directory, fileVars, result>>
      BY <1>4 DEF CompareManifest, ManifestMatches
    <2>2. stage \in Validating
      BY <2>1 DEF IInv, StageInv
    <2>3. \/ stage = "admitted" /\ stage' = "opened" /\ step' = "state"
          \/ stage = "opened" /\ stage' = "extract" /\ step' = "none"
          \/ stage = "extracted" /\ stage' = "prepare" /\ step' = "none"
          \/ stage = "prepared" /\ stage' = "backup" /\ step' = "none"
          \/ stage = "published" /\ stage' = "cleanup" /\ step' = "none"
      BY <2>1, <2>2 DEF Following, Validating
    <2> QED
      BY <2>1, <2>3 DEF IInv, StageInv, PayloadInv, DestinationInv, Payload, Book, Validating,
                        Untouched, Replaced, fileVars
  <1>5. CASE (ValidateInpxSourceFingerprint \/ OpenArchive) /\ ~Reject
    BY <1>3, <1>5 DEF ValidateInpxSourceFingerprint, OpenArchive
  <1>6. CASE ReadDirectory
    BY <1>3, <1>6 DEF ReadDirectory
  <1> QED
    BY <1>2, <1>4, <1>5, <1>6 DEF ReadFails

\* Extraction and preparation.
LEMMA StagingStep == IInv /\ (ExtractEntry \/ Prepare) => IInv'
  <1> SUFFICES ASSUME IInv, ExtractEntry \/ Prepare PROVE IInv'
    OBVIOUS
  <1>1. CASE Reject
    BY <1>1, RejectStep DEF ExtractEntry, Prepare, Untouched
  <1>2. CASE ExtractEntry /\ ~Reject
    <2>1. /\ stage = "extract" /\ stage' = "extracted" /\ step' = "source" /\ staged' = Payload
          /\ UNCHANGED <<locator, requested, directory, dest, backup, original, result>>
      BY <1>2 DEF ExtractEntry, IInv, PayloadInv, Payload
    <2> QED
      BY <2>1 DEF IInv, StageInv, PayloadInv, DestinationInv, Payload, Book, Validating,
                  Untouched, Replaced
  <1>3. CASE Prepare /\ ~Reject
    <2>1. /\ stage = "prepare" /\ stage' = "prepared" /\ step' = "source"
          /\ prepared' = [staged EXCEPT !.format = requested]
          /\ UNCHANGED <<locator, requested, directory, dest, backup, original, result>>
      BY <1>3 DEF Prepare
    <2>2. prepared' = Book
      BY <2>1 DEF IInv, PayloadInv, Payload, Book
    <2> QED
      BY <2>1, <2>2 DEF IInv, StageInv, PayloadInv, DestinationInv, Payload, Book, Validating,
                        Untouched, Replaced
  <1> QED
    BY <1>1, <1>2, <1>3

\* ReplaceDestinationWithPreparedFile and its rollback.
LEMMA ReplacementStep ==
    IInv /\ (BackUp \/ Publish \/ RemoveBackup \/ RemoveRejected \/ RestoreBackup) => IInv'
  <1> SUFFICES ASSUME IInv, BackUp \/ Publish \/ RemoveBackup \/ RemoveRejected \/ RestoreBackup
               PROVE  IInv'
    OBVIOUS
  <1> USE DEF IInv, StageInv, PayloadInv, DestinationInv, Payload, Book, Untouched, Replaced
  <1>1. CASE BackUp
    <2>1. CASE Reject
      BY <1>1, <2>1, RejectStep DEF BackUp
    <2>2. CASE ~Reject
      BY <1>1, <2>2 DEF BackUp, Replacing, Validating
    <2> QED
      BY <2>1, <2>2
  <1>2. CASE Publish
    BY <1>2 DEF Publish, Replacing, Validating
  <1>3. CASE RemoveBackup
    BY <1>3 DEF RemoveBackup, Leave
  <1>4. CASE RemoveRejected
    BY <1>4 DEF RemoveRejected, Replacing, Leave, Validating
  <1>5. CASE RestoreBackup
    <2>1. CASE backup = Absent
      BY <1>5, <2>1, FailedStep DEF RestoreBackup
    <2>2. CASE backup # Absent
      BY <1>5, <2>2 DEF RestoreBackup, Leave
    <2> QED
      BY <2>1, <2>2
  <1> QED
    BY <1>1, <1>2, <1>3, <1>4, <1>5

-----------------------------------------------------------------------------
(* The theorems                                                            *)

\* IInv is an inductive invariant of the download and of everything that happens around it.
THEOREM Invariance == Spec => []IInv
  <1>1. IInv /\ [Next]_vars => IInv'
    <2> SUFFICES ASSUME IInv, [Next]_vars PROVE IInv'
      OBVIOUS
    <2>1. CASE \/ ReplaceSource \/ ReplaceArchive \/ WriteArchive \/ PublishCatalog
               \/ RequestStop \/ UNCHANGED vars
      BY <2>1, OutsideStep DEF ReplaceSource, ReplaceArchive, WriteArchive, PublishCatalog,
         RequestStop, vars, fileVars
    <2> QED
      BY <2>1, LoadStep, ValidationStep, StagingStep, ReplacementStep DEF Next, Step
  <1> QED
    BY <1>1, DownloadInit, PTL DEF Spec

\* Whatever happens to the archive while the download runs, what is delivered is the payload
\* that the locator names.
THEOREM DeliveredAlwaysMatches == Spec => []DeliveredMatchesCatalog
  <1>1. IInv => DeliveredMatchesCatalog
    BY DEF IInv, PayloadInv, Book, DeliveredMatchesCatalog
  <1> QED
    BY <1>1, Invariance, PTL

\* At every step of replacement and rollback, the failing ones included, the previous file
\* exists; and a download that fails cleanly puts everything back.
THEOREM DestinationAlwaysRecoverable == Spec => []DestinationRecoverable
  <1>1. IInv => DestinationRecoverable
    BY DEF IInv, StageInv, DestinationInv, Untouched, Replaced, DestinationRecoverable
  <1> QED
    BY <1>1, Invariance, PTL

-----------------------------------------------------------------------------
(* A collection that has left the locator for good                         *)

SameSource   == source = locator.src
SameStat     == inodes[path].stat = locator.stat
SameManifest == inodes[path].man = locator.man

\* The path names one of the inodes, and a descriptor is of an inode it has named.
PathInv ==
    /\ path \in Inodes /\ fd \in 0..path
    /\ DOMAIN inodes = Inodes
    /\ step \in {"directory", "manifest"} => fd # 0

\* The download has not passed the round of validation after the publication, and
\* stands in it at a check of the given set at the latest.
Unpassed(steps) ==
    \/ stage \in {"publish", "remove", "restore"}
    \/ stage = "published" /\ step \in steps
    \/ stage = "left" /\ result # "Delivered"

\* In the last round the manifest comes from the descriptor: its inode holds other contents
\* when the directory is read, and the directory is another one when it is compared.
OtherManifest ==
    /\ Unpassed({"source", "state", "directory", "manifest"})
    /\ stage = "published" /\ step = "directory" => inodes[fd].man # locator.man
    /\ stage = "published" /\ step = "manifest" => directory # locator.man

\* A file is renamed over the path only while there are inodes left, and only the
\* comparison of the state opens a descriptor.
LEMMA PathsNamed == Spec => []PathInv
  <1> USE DEF PathInv
  <1>1. Init => PathInv
    BY DownloadAssumption DEF Init, Inodes
  <1>2. PathInv /\ IInv /\ [Next]_vars => PathInv'
    <2> SUFFICES ASSUME PathInv, IInv, [Next]_vars PROVE PathInv'
      OBVIOUS
    <2> USE DownloadAssumption DEF Inodes
    <2>1. CASE Reject
      BY <2>1 DEF Reject, Failed, Leave, envVars
    <2>2. CASE \/ ReplaceSource \/ ReplaceArchive \/ WriteArchive \/ PublishCatalog
               \/ RequestStop \/ UNCHANGED vars
      BY <2>2 DEF ReplaceSource, ReplaceArchive, WriteArchive, PublishCatalog, RequestStop, vars,
         envVars
    <2>3. CASE \/ LoadDownloadSnapshot \/ ValidateInpxSourceFingerprint \/ OpenArchive
               \/ ReadDirectory
      BY <2>1, <2>3 DEF LoadDownloadSnapshot, ValidateInpxSourceFingerprint, OpenArchive,
         ReadDirectory, envVars
    <2>4. CASE CompareManifest
      <3>1. CASE ~Reject
        <4>1. /\ UNCHANGED <<path, inodes>> /\ fd' \in {fd, 0}
              /\ step' = Following(stage).step /\ stage \in Validating
          BY <2>4, <3>1 DEF CompareManifest, envVars, IInv, StageInv
        <4>2. step' \in {"none", "state"}
          BY <4>1 DEF Following, Validating
        <4> QED
          BY <4>1, <4>2
      <3> QED
        BY <2>1, <3>1
    <2>5. CASE ExtractEntry \/ Prepare \/ BackUp \/ Publish \/ ReadFails
      BY <2>1, <2>5 DEF ExtractEntry, Prepare, BackUp, Publish, ReadFails, Replacing, envVars
    <2>6. CASE RemoveBackup \/ RemoveRejected \/ RestoreBackup
      BY <2>6 DEF RemoveBackup, RemoveRejected, RestoreBackup, Replacing, Leave, Failed, envVars
    <2> QED
      BY <2>2, <2>3, <2>4, <2>5, <2>6 DEF Next, Step
  <1> QED
    BY <1>1, <1>2, Invariance, PTL DEF Spec

\* From the publication on, a step other than those of the last round keeps the download
\* unpassed: the replacement is not redone and a rollback does not deliver.
LEMMA UnpassedStep ==
    ASSUME NEW steps, "source" \in steps, "none" \notin steps, IInv, Unpassed(steps), [Next]_vars
    PROVE  \/ /\ Unpassed(steps)'
              /\ \/ stage' # "published" \/ step' = "source"
                 \/ UNCHANGED <<stage, step, locator, fd, directory>>
           \/ /\ stage = "published" /\ step \in steps
              /\ \/ ValidateInpxSourceFingerprint /\ SameSource
                 \/ OpenArchive /\ SameStat
                 \/ ReadDirectory
                 \/ CompareManifest /\ ManifestMatches
              /\ UNCHANGED result
  <1> USE DEF Unpassed, IInv, StageInv, Untouched, Replaced
  <1>1. CASE \/ ReplaceSource \/ ReplaceArchive \/ WriteArchive \/ PublishCatalog
             \/ RequestStop \/ UNCHANGED vars
    BY <1>1 DEF ReplaceSource, ReplaceArchive, WriteArchive, PublishCatalog, RequestStop, vars
  <1>2. CASE Reject
    BY <1>2 DEF Reject, Failed, Leave
  <1>3. CASE ValidateInpxSourceFingerprint \/ OpenArchive \/ ReadDirectory \/ CompareManifest
    BY <1>2, <1>3 DEF ValidateInpxSourceFingerprint, OpenArchive, ReadDirectory, CompareManifest,
       SameSource, SameStat, Validating
  <1>4. CASE LoadDownloadSnapshot \/ ExtractEntry \/ Prepare \/ BackUp \/ RemoveBackup
    BY <1>4 DEF LoadDownloadSnapshot, ExtractEntry, Prepare, BackUp, RemoveBackup
  <1>5. CASE ReadFails
    BY <1>2, <1>5 DEF ReadFails
  <1>6. CASE Publish \/ RemoveRejected \/ RestoreBackup
    BY <1>6 DEF Publish, RemoveRejected, RestoreBackup, Replacing, Leave, Failed
  <1> QED
    BY <1>1, <1>2, <1>3, <1>4, <1>5, <1>6 DEF Next, Step

\* The INPX file differs at the first check of the last round.
LEMMA OtherSourceStep ==
    ASSUME IInv, Unpassed({"source"}), ~SameSource, [Next]_vars
    PROVE  Unpassed({"source"})'
  BY UnpassedStep DEF OpenArchive, ReadDirectory, CompareManifest

\* The size or time of the archive differs at the second.
LEMMA OtherStatStep ==
    ASSUME IInv, Unpassed({"source", "state"}), ~SameStat, [Next]_vars
    PROVE  Unpassed({"source", "state"})'
  BY UnpassedStep DEF ValidateInpxSourceFingerprint, ReadDirectory, CompareManifest, Reject,
     Unpassed

\* Only the file that the path names, or is made to name, gets other contents.
LEMMA InodeStep ==
    ASSUME PathInv, [Next]_vars, NEW i \in Inodes, i # path'
    PROVE  inodes'[i] = inodes[i]
  <1>1. CASE ReplaceArchive \/ WriteArchive
    <2>1. PICK p \in {path, path + 1}, f \in Files :
             p = path' /\ inodes' = [inodes EXCEPT ![p] = f]
      BY <1>1 DEF ReplaceArchive, WriteArchive
    <2> QED
      BY <2>1 DEF PathInv
  <1>2. CASE UNCHANGED inodes
    BY <1>2
  <1>3. CASE Reject
    BY <1>2, <1>3 DEF Reject, Failed, Leave, envVars
  <1>4. CASE ReplaceSource \/ PublishCatalog \/ RequestStop \/ UNCHANGED vars
    BY <1>2, <1>4 DEF ReplaceSource, PublishCatalog, RequestStop, vars, envVars
  <1>5. CASE Step
    BY <1>2, <1>3, <1>5
    DEF Step, LoadDownloadSnapshot, ValidateInpxSourceFingerprint, OpenArchive, ReadDirectory,
        CompareManifest, ReadFails, ExtractEntry, Prepare, BackUp, Publish, RemoveBackup,
        RemoveRejected, RestoreBackup, Replacing, Leave, Failed, envVars
  <1> QED
    BY <1>1, <1>4, <1>5 DEF Next

\* The contents behind the path are those of the descriptor when it is opened, and go on
\* being others until the path names another inode; then nobody writes to this one.
LEMMA OtherManifestStep ==
    ASSUME IInv, PathInv, OtherManifest, ~SameManifest, ~SameManifest', [Next]_vars
    PROVE  OtherManifest'
  <1> DEFINE steps == {"source", "state", "directory", "manifest"}
  <1>1. Unpassed(steps)
    BY DEF OtherManifest
  <1>2. CASE /\ Unpassed(steps)'
             /\ stage' # "published" \/ step' = "source"
    BY <1>2 DEF OtherManifest
  <1>3. CASE /\ Unpassed(steps)'
             /\ stage' = "published" /\ UNCHANGED <<stage, step, locator, fd, directory>>
    <2>1. ASSUME step = "directory" PROVE inodes'[fd].man # locator.man
      <3>1. fd \in Inodes
        BY <2>1, DownloadAssumption DEF PathInv, Inodes
      <3>2. CASE fd = path'
        BY <1>3, <3>2 DEF SameManifest
      <3>3. CASE fd # path'
        <4>1. inodes'[fd] = inodes[fd]
          BY <3>1, <3>3, InodeStep
        <4> QED
          BY <1>3, <2>1, <4>1 DEF OtherManifest
      <3> QED
        BY <3>2, <3>3
    <2> QED
      BY <1>3, <2>1 DEF OtherManifest
  <1>4. ASSUME stage = "published", ValidateInpxSourceFingerprint, ~Reject
        PROVE  OtherManifest'
    BY <1>4 DEF ValidateInpxSourceFingerprint, OtherManifest, Unpassed
  <1>5. ASSUME stage = "published", OpenArchive, ~Reject
        PROVE  OtherManifest'
    <2>1. /\ stage' = "published" /\ step' = "directory" /\ fd' = path
          /\ UNCHANGED <<path, inodes, locator>>
      BY <1>5 DEF OpenArchive, envVars
    <2>2. inodes'[fd'].man # locator'.man
      BY <2>1 DEF SameManifest
    <2> QED
      BY <2>1, <2>2 DEF OtherManifest, Unpassed
  <1>6. ASSUME stage = "published", ReadDirectory
        PROVE  OtherManifest'
    BY <1>6 DEF ReadDirectory, OtherManifest, Unpassed
  <1>7. ASSUME stage = "published", CompareManifest, ManifestMatches
        PROVE  FALSE
    BY <1>7 DEF CompareManifest, ManifestMatches, OtherManifest
  <1>8. ASSUME stage = "published", Reject
        PROVE  OtherManifest'
    BY <1>8 DEF Reject, OtherManifest, Unpassed
  <1> QED
    BY <1>1, <1>2, <1>3, <1>4, <1>5, <1>6, <1>7, <1>8, UnpassedStep

\* A collection that has left the catalog's locator for good before the publication (another
\* INPX file, another size or time of the archive, other contents) is never delivered: the
\* safety half of StaleNeverDelivered, which holds without any fairness.
StaleStaysOut ==
    [](stage = "publish" /\ (\/ [](source # locator.src)
                             \/ [](inodes[path].stat # locator.stat)
                             \/ [](inodes[path].man # locator.man))
          => [](result # "Delivered"))

\* The round of validation after the publication notices what stays changed.
THEOREM StaleAlwaysStaysOut == Spec => StaleStaysOut
  <1>1. stage = "publish" => /\ Unpassed({"source"}) /\ Unpassed({"source", "state"})
                             /\ OtherManifest
    BY DEF Unpassed, OtherManifest
  <1>2. IInv /\ (Unpassed({"source"}) \/ Unpassed({"source", "state"}) \/ OtherManifest)
          => result # "Delivered"
    BY DEF Unpassed, OtherManifest, IInv, StageInv
  <1>3. IInv /\ Unpassed({"source"}) /\ source # locator.src /\ [Next]_vars
          => Unpassed({"source"})'
    BY OtherSourceStep DEF SameSource
  <1>4. IInv /\ Unpassed({"source", "state"}) /\ inodes[path].stat # locator.stat /\ [Next]_vars
          => Unpassed({"source", "state"})'
    BY OtherStatStep DEF SameStat
  <1>5. IInv /\ PathInv /\ OtherManifest /\ inodes[path].man # locator.man
          /\ (inodes[path].man # locator.man)' /\ [Next]_vars => OtherManifest'
    BY OtherManifestStep DEF SameManifest
  <1> QED
    BY <1>1, <1>2, <1>3, <1>4, <1>5, Invariance, PathsNamed, PTL DEF Spec, StaleStaysOut
=============================================================================
