------------------------------- MODULE Download -------------------------------
(***************************************************************************)
(* One download of a book: CBookDownloadFacade::PrepareDownload            *)
(* (libs/App/BookDownloadFacade.cpp), the archive reader it opens          *)
(* (libs/App/InpxArchiveAccess.cpp) and ReplaceDestinationWithPreparedFile *)
(* (libs/App/FileReplacement.cpp).                                         *)
(*                                                                         *)
(* The catalog admitted the book when the INPX file and the archive had    *)
(* certain digests.  A download reads that locator once and then checks    *)
(* the collection against it again and again, because the collection, and  *)
(* the catalog, change under it.  An archive path names an inode; its      *)
(* owner replaces the path by another file or writes into the file, and    *)
(* a size and an mtime may come back with other contents.                  *)
(***************************************************************************)
EXTENDS Integers, FiniteSets

CONSTANTS
    Sources,    \* INPX digests
    Stats,      \* size and mtime of an archive
    Manifests,  \* archive contents, told apart by the manifest fingerprint
    Formats,    \* formats a client asks for
    SourceFormat, \* the format of the payload in the archive
    Absent,     \* there is no such file
    Previous,   \* what the destination held before the download
    MaxInodes,  \* bound: files the archive path has named
    MaxEdits    \* bound: edits of the collection

ASSUME DownloadAssumption ==
    /\ SourceFormat \in Formats
    /\ Absent # Previous
    /\ \A m \in Manifests, f \in Formats : [man |-> m, format |-> f] \notin {Absent, Previous}
    /\ MaxInodes \in Nat \ {0} /\ MaxEdits \in Nat

VARIABLES
    source,    \* digest of the INPX file
    path,      \* the inode the archive path names
    inodes,    \* inode -> [stat, man]
    catalog,   \* the committed locator of the book
    stage,     \* where PrepareDownload stands
    step,      \* the next check of the validation the stage begins with
    locator,   \* SBookDownloadSnapshot of this download
    requested, \* the format asked for
    fd,        \* the inode the archive reader has open, 0: none
    directory, \* the central directory libzip read from it
    staged,    \* source.fb2 in the source workspace
    prepared,  \* the file in the publication workspace
    dest,      \* the destination
    backup,    \* its backup
    original,  \* history: the destination before the download
    stopping,  \* a stop was requested of the download
    result,
    edits

envVars  == <<source, path, inodes, catalog, edits>>
fileVars == <<staged, prepared, dest, backup, original>>
vars == <<source, path, inodes, catalog, stage, step, locator, requested, fd, directory,
          staged, prepared, dest, backup, original, stopping, result, edits>>

Inodes == 1..MaxInodes
Files == [stat: Stats, man: Manifests]

Init ==
    /\ source \in Sources
    /\ path = 1
    /\ inodes \in [Inodes -> Files]
    /\ \A i, j \in Inodes : inodes[i] = inodes[j]
    /\ catalog = [src |-> source, stat |-> inodes[1].stat, man |-> inodes[1].man,
                  available |-> TRUE]
    /\ stage = "load" /\ step = "none"
    /\ locator = catalog
    /\ requested \in Formats
    /\ fd = 0 /\ directory = inodes[1].man
    /\ staged = Absent /\ prepared = Absent /\ backup = Absent
    /\ dest \in {Absent, Previous}
    /\ original = dest
    /\ stopping = FALSE
    /\ result = "None"
    /\ edits = 0

-----------------------------------------------------------------------------
(* The collection, the catalog and the client                              *)

Edit == result = "None" /\ edits < MaxEdits /\ edits' = edits + 1

ReplaceSource ==
    /\ Edit
    /\ source' \in Sources \ {source}
    /\ UNCHANGED <<path, inodes, catalog, stage, step, locator, requested, fd, directory,
                   fileVars, stopping, result>>

\* Another file is renamed to the archive path: an open descriptor keeps the old one.
ReplaceArchive ==
    /\ Edit
    /\ path < MaxInodes
    /\ path' = path + 1
    /\ \E f \in Files : inodes' = [inodes EXCEPT ![path + 1] = f]
    /\ UNCHANGED <<source, catalog, stage, step, locator, requested, fd, directory, fileVars,
                   stopping, result>>

\* The archive is written in place: an open descriptor sees it.
WriteArchive ==
    /\ Edit
    /\ \E f \in Files \ {inodes[path]} : inodes' = [inodes EXCEPT ![path] = f]
    /\ UNCHANGED <<source, path, catalog, stage, step, locator, requested, fd, directory,
                   fileVars, stopping, result>>

\* A scan publishes the collection as it is, with or without the book.
PublishCatalog ==
    /\ Edit
    /\ \E available \in BOOLEAN :
          catalog' = [src |-> source, stat |-> inodes[path].stat, man |-> inodes[path].man,
                      available |-> available]
    /\ UNCHANGED <<source, path, inodes, stage, step, locator, requested, fd, directory,
                   fileVars, stopping, result>>

RequestStop ==
    /\ result = "None"
    /\ ~stopping
    /\ stopping' = TRUE
    /\ UNCHANGED <<envVars, stage, step, locator, requested, fd, directory, fileVars, result>>

-----------------------------------------------------------------------------
(* The end of PrepareDownload                                              *)

\* The scoped workspaces go with the call; so does the archive reader.
Leave(outcome) ==
    /\ result' = outcome
    /\ stage' = "left" /\ step' = "none"
    /\ fd' = 0
    /\ staged' = Absent /\ prepared' = Absent
    /\ UNCHANGED <<envVars, locator, requested, directory, original, stopping>>

Failed == Leave("Failed") /\ UNCHANGED <<dest, backup>>

\* An exception: before the destination was touched it just ends the call, after
\* that RollbackPublishedFileOrThrow runs first.
Reject ==
    IF stage # "published" THEN Failed
    ELSE /\ stage' = "remove" /\ step' = "none"
         /\ UNCHANGED <<envVars, locator, requested, fd, directory, fileVars, stopping, result>>

-----------------------------------------------------------------------------
(* The locator and the rounds of validation                                *)

\* LoadDownloadSnapshot, one read transaction.
LoadDownloadSnapshot ==
    /\ stage = "load"
    /\ locator' = catalog
    /\ IF catalog.available
         THEN /\ stage' = "admitted" /\ step' = "source"
              /\ UNCHANGED <<envVars, requested, fd, directory, fileVars, stopping, result>>
         ELSE /\ result' = "Failed"
              /\ stage' = "left" /\ step' = "none"
              /\ UNCHANGED <<envVars, requested, fd, directory, fileVars, stopping>>

\* What follows a validation: every round but the one of the extraction closes
\* its reader.
Following(s) ==
    CASE s = "admitted"  -> [stage |-> "opened",   step |-> "state"]
      [] s = "opened"    -> [stage |-> "extract",  step |-> "none"]
      [] s = "extracted" -> [stage |-> "prepare",  step |-> "none"]
      [] s = "prepared"  -> [stage |-> "backup",   step |-> "none"]
      [] s = "published" -> [stage |-> "cleanup",  step |-> "none"]

\* ValidateInpxSourceFingerprint: the digest of the whole INPX file.
ValidateInpxSourceFingerprint ==
    /\ step = "source"
    /\ IF source = locator.src /\ ~stopping
         THEN /\ step' = "state"
              /\ UNCHANGED <<envVars, stage, locator, requested, fd, directory, fileVars,
                             stopping, result>>
         ELSE Reject

\* open and fstat of CZipArchive, and the comparison with the locator.
OpenArchive ==
    /\ step = "state"
    /\ IF inodes[path].stat = locator.stat
         THEN /\ fd' = path
              /\ step' = "directory"
              /\ UNCHANGED <<envVars, stage, locator, requested, directory, fileVars,
                             stopping, result>>
         ELSE Reject

\* zip_fdopen reads the central directory from the open descriptor.
ReadDirectory ==
    /\ step = "directory"
    /\ directory' = inodes[fd].man
    /\ step' = "manifest"
    /\ UNCHANGED <<envVars, stage, locator, requested, fd, fileVars, stopping, result>>

\* Mutant of ManifestMatches: size and mtime are thought to be enough.
ManifestTrusted == TRUE

ManifestMatches == directory = locator.man

\* ComputeManifestFingerprint and the size of the entry.
CompareManifest ==
    /\ step = "manifest"
    /\ IF ManifestMatches /\ ~stopping
         THEN /\ stage' = Following(stage).stage
              /\ step' = Following(stage).step
              /\ fd' = IF stage = "opened" THEN fd ELSE 0
              /\ UNCHANGED <<envVars, locator, requested, directory, fileVars, stopping, result>>
         ELSE Reject

\* The INPX file, the archive or the entry is missing or damaged.
ReadFails ==
    /\ step # "none" \/ stage = "extract"
    /\ Reject

-----------------------------------------------------------------------------
(* Staging                                                                 *)

\* ExtractEntryToPath.  The bytes must have the size and the checksum the directory
\* names; a file that was written meanwhile fails, unless it has left the entry alone.
ExtractEntry ==
    /\ stage = "extract"
    /\ \/ /\ ~stopping
          /\ staged' = [man |-> directory, format |-> SourceFormat]
          /\ stage' = "extracted" /\ step' = "source"
          /\ UNCHANGED <<envVars, locator, requested, fd, directory, prepared, dest, backup,
                         original, stopping, result>>
       \/ /\ stopping
          /\ Reject

\* MoveFileWithCopyFallback, or the converter, which may be missing, fail, time
\* out or be cancelled.
Prepare ==
    /\ stage = "prepare"
    /\ \/ /\ ~stopping
          /\ prepared' = [staged EXCEPT !.format = requested]
          /\ staged' = IF requested = SourceFormat THEN Absent ELSE staged
          /\ stage' = "prepared" /\ step' = "source"
          /\ UNCHANGED <<envVars, locator, requested, fd, directory, dest, backup, original,
                         stopping, result>>
       \/ Reject

-----------------------------------------------------------------------------
(* ReplaceDestinationWithPreparedFile                                      *)

Replacing(next) ==
    /\ stage' = next
    /\ UNCHANGED <<envVars, locator, requested, fd, directory, staged, original, stopping,
                   result>>

\* Mutant of BackUp: the old file is removed to make room.
RemoveOld ==
    /\ stage = "backup"
    /\ dest' = Absent
    /\ Replacing("publish")
    /\ UNCHANGED <<step, prepared, backup>>

BackUp ==
    /\ stage = "backup"
    /\ \/ /\ Replacing("publish")
          /\ dest' = Absent
          /\ backup' = dest
          /\ UNCHANGED <<step, prepared>>
       \/ Reject  \* the rename failed

\* Mutant of Publish: no validation follows the publication.
PublishUnchecked ==
    /\ stage = "publish"
    /\ dest' = prepared
    /\ prepared' = Absent
    /\ Replacing("cleanup")
    /\ UNCHANGED <<step, backup>>

Publish ==
    /\ stage = "publish"
    /\ \/ /\ Replacing("published")
          /\ dest' = prepared
          /\ prepared' = Absent
          /\ step' = "source"
          /\ UNCHANGED backup
       \/ /\ Replacing("restore")  \* the rename failed
          /\ UNCHANGED <<step, prepared, dest, backup>>

\* The backup is removed; a failure is only logged.
RemoveBackup ==
    /\ stage = "cleanup"
    /\ Leave("Delivered")
    /\ backup' \in {Absent, backup}
    /\ UNCHANGED dest

\* RollbackPublishedFileOrThrow, first half.
RemoveRejected ==
    /\ stage = "remove"
    /\ \/ /\ Replacing("restore")
          /\ dest' = Absent
          /\ UNCHANGED <<step, prepared, backup>>
       \/ /\ Leave("RollbackFailed")
          /\ UNCHANGED <<dest, backup>>

\* RestoreBackupOrThrow.
RestoreBackup ==
    /\ stage = "restore"
    /\ IF backup = Absent THEN Failed
       ELSE \/ /\ Leave("Failed")
               /\ dest' = backup
               /\ backup' = Absent
            \/ /\ Leave("RollbackFailed")
               /\ UNCHANGED <<dest, backup>>

-----------------------------------------------------------------------------
Step ==
    \/ LoadDownloadSnapshot
    \/ ValidateInpxSourceFingerprint
    \/ OpenArchive
    \/ ReadDirectory
    \/ CompareManifest
    \/ ReadFails
    \/ ExtractEntry
    \/ Prepare
    \/ BackUp
    \/ Publish
    \/ RemoveBackup
    \/ RemoveRejected
    \/ RestoreBackup

Next ==
    \/ ReplaceSource
    \/ ReplaceArchive
    \/ WriteArchive
    \/ PublishCatalog
    \/ RequestStop
    \/ Step

Spec == Init /\ [][Next]_vars

\* The thread of the request keeps running: no step waits for anybody.
FairSpec == Spec /\ WF_vars(Step)

-----------------------------------------------------------------------------
(* Properties                                                              *)

\* What is delivered is the payload the catalog's locator names, in the format asked
\* for, however the archive is replaced or written, and its file state restored, while
\* the download runs.
DeliveredMatchesCatalog ==
    result = "Delivered" => dest = [man |-> locator.man, format |-> requested]

\* The destination is never lost and never half replaced.  Until the published file has
\* passed its last validation the previous content exists, in place or as the backup,
\* also when the rollback fails or the process dies; and a download that fails, and does
\* not report a failed rollback, leaves the destination as it was and no backup beside it
\* ("A failed final guard restores the previous destination").
DestinationRecoverable ==
    /\ original = Previous /\ stage # "cleanup" /\ result # "Delivered"
         => Previous \in {dest, backup}
    /\ result = "Failed" => dest = original /\ backup = Absent

\* A collection that has left the catalog's locator for good before the publication
\* is noticed: the download does not succeed.
StaleNeverDelivered ==
    (stage = "publish" /\ (\/ [](source # locator.src)
                           \/ [](inodes[path].stat # locator.stat)
                           \/ [](inodes[path].man # locator.man)))
        ~> (result \in {"Failed", "RollbackFailed"})
=============================================================================
