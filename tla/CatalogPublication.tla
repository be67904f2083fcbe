-------------------------- MODULE CatalogPublication --------------------------
(***************************************************************************)
(* What a scan promises the readers of the catalog, without segments to    *)
(* reuse, archives, transactions or phases: a scan is asked for one INPX   *)
(* file; it is dropped, or, once that file was seen in its place again     *)
(* after the work was done, everything readers see changes in one step to  *)
(* what that file lists.  InpxRescan is shown to implement this            *)
(* specification.                                                          *)
(***************************************************************************)
EXTENDS FiniteSets

CONSTANTS
    Files,    \* the INPX files the owner of the collection may publish
    NoFile,   \* none of them: no scan is under way, nothing was published
    Listing   \* file -> its books, each with LibId, segment and metadata

VARIABLES
    file,       \* the INPX file in its place
    pending,    \* the file the scan under way was asked for
    confirmed,  \* the scan has done its work and has seen the file again
    published,  \* the file whose books readers see
    shelf,      \* those books
    offered,    \* their number, as the statistics give it
    known       \* the LibIds with a row, of books that were withdrawn since too

catalogVars == <<file, pending, confirmed, published, shelf, offered, known>>

LibIdsOf(books) == {b.lib : b \in books}

Init ==
    /\ file \in Files
    /\ pending = NoFile
    /\ confirmed = FALSE
    /\ published = NoFile
    /\ shelf = {}
    /\ offered = 0
    /\ known = {}

Replace ==
    /\ file' \in Files
    /\ UNCHANGED <<pending, confirmed, published, shelf, offered, known>>

Ask ==
    /\ pending = NoFile
    /\ pending' = file
    /\ UNCHANGED <<file, confirmed, published, shelf, offered, known>>

Confirm ==
    /\ pending # NoFile
    /\ file = pending
    /\ confirmed' = TRUE
    /\ UNCHANGED <<file, pending, published, shelf, offered, known>>

\* No LibId twice: such a file is refused, whatever the catalog held before.  A book that
\* the file no longer lists leaves the shelf and keeps its row.
Publish ==
    /\ confirmed
    /\ \A b, c \in Listing[pending] : b.lib = c.lib => b = c
    /\ shelf' = Listing[pending]
    /\ offered' = Cardinality(LibIdsOf(Listing[pending]))
    /\ known \cup LibIdsOf(Listing[pending]) \subseteq known'
    /\ published' = pending
    /\ pending' = NoFile
    /\ confirmed' = FALSE
    /\ UNCHANGED file

\* A scan that is cancelled, fails or dies leaves no trace.
Drop ==
    /\ pending # NoFile
    /\ pending' = NoFile
    /\ confirmed' = FALSE
    /\ UNCHANGED <<file, published, shelf, offered, known>>

Next == Replace \/ Ask \/ Confirm \/ Publish \/ Drop

Spec == Init /\ [][Next]_catalogVars
=============================================================================
