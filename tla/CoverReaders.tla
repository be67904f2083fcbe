----------------------------- MODULE CoverReaders -----------------------------
(***************************************************************************)
(* Requests for covers while a scan changes them: ResolveBookCover of      *)
(* libs/Server/ServerApplicationHost.cpp and SetFileResponse of            *)
(* libs/Server/HttpServer.cpp over the cache of CoverCache.                *)
(*                                                                         *)
(* The backend thread reads the row and tests the path, the HTTP worker    *)
(* reads the size and opens the file; nothing holds the file in between.   *)
(* An open file survives its removal.                                      *)
(***************************************************************************)
EXTENDS CoverCache, FileRanges

CONSTANT Readers     \* requests for a cover

VARIABLE reader      \* request -> [step, book, cover: as looked up,
                     \*             dropped: history, the catalog gave the cover up since]

readerVars == <<vars, reader>>

NoReader == [step |-> "idle", book |-> NoRow, cover |-> NoCover, dropped |-> FALSE]

ReadersInit == Init /\ reader = [r \in Readers |-> NoReader]

\* Mutant of LookUpCover: the row as the scan's transaction sees it.
LookUpUncommitted(r, b) ==
    /\ reader[r].step = "idle"
    /\ txn.path[b] \in Covers
    /\ reader' = [reader EXCEPT ![r] = [NoReader EXCEPT !.step = "looked up", !.book = b,
                                                        !.cover = txn.path[b]]]
    /\ UNCHANGED vars

\* GetBookDetails: the committed row; an unknown book, or one without a cover, has none.
LookUpCover(r, b) ==
    /\ reader[r].step = "idle"
    /\ db.path[b] \in Covers
    /\ reader' = [reader EXCEPT ![r] = [NoReader EXCEPT !.step = "looked up", !.book = b,
                                                        !.cover = db.path[b]]]
    /\ UNCHANGED vars

\* One more look at the file: it is there, or the answer is 404.
NextLook(r, from, to) ==
    /\ reader[r].step = from
    /\ reader' = [reader EXCEPT ![r].step = IF reader[r].cover \in files THEN to ELSE "404"]
    /\ UNCHANGED vars

\* ResolveCoverPath: is_regular_file.
ResolveCoverPath(r) == NextLook(r, "looked up", "resolved")

\* file_size.
ReadSize(r) == NextLook(r, "resolved", "sized")

\* The ifstream.
OpenFile(r) == NextLook(r, "sized", "open")

\* SetFileResponse answers, and the body is sent from the open file.
SetFileResponse(r) ==
    /\ reader[r].step \in {"open", "404"}
    /\ reader' = [reader EXCEPT ![r] = NoReader]
    /\ UNCHANGED vars

\* A step of the scan, with what a commit takes from the covers that are asked for.
ScanStep ==
    /\ WriterStep
    /\ reader' = [r \in Readers |->
                    IF reader[r].step = "idle" \/ reader[r].cover \in Referenced(db')
                    THEN reader[r] ELSE [reader[r] EXCEPT !.dropped = TRUE]]

\* The process dies with its requests.
CrashAll == Crash /\ reader' = [r \in Readers |-> NoReader]

ReadersNext ==
    \/ ScanStep
    \/ CrashAll
    \/ \E r \in Readers :
          \/ \E b \in Books : LookUpCover(r, b)
          \/ ResolveCoverPath(r) \/ ReadSize(r) \/ OpenFile(r) \/ SetFileResponse(r)

ReadersSpec == ReadersInit /\ [][ReadersNext]_readerVars

-----------------------------------------------------------------------------
(* A cover that the catalog refers to all the while it is asked for is delivered: between  *)
(* the look-up on the backend thread and the open on the HTTP worker no rollback and no    *)
(* collection, of whichever scan, takes its file away.                                     *)
SteadyCoverDelivered == \A r \in Readers : reader[r].step = "404" => reader[r].dropped

\* Requests of up to five ranges.
Suffix   == {<<-1, n>> : n \in -1..(MaxOffset + 1)}
Closed   == (0..MaxOffset) \X (0..MaxOffset)
Opened   == {<<n, -1>> : n \in 0..MaxOffset}
AnyRange == Suffix \cup Closed \cup Opened
Short    == {r \in Closed : r[1] <= r[2] /\ r[2] <= 3}

RangeRequests ==
    {<<>>} \cup {<<a>> : a \in AnyRange} \cup (AnyRange \X AnyRange)
    \cup (AnyRange \X AnyRange \X Short) \cup (Short \X Short \X Short \X Short)
    \cup {<<r[1], r[1], r[1], r[2], r[2]>> : r \in Short \X Short}

\* Every request on files of every size, downloads included: they share the response.
RangeAnswersExact ==
    \A size \in 0..(MaxOffset + 1), asked \in RangeRequests : AnswerExact(asked, size)

(* RFC 9110, and the comment at the normalisation: whenever a file is open for an answer,  *)
(* oversized suffixes and mixed sets of ranges get exactly the requested bytes, in order,  *)
(* and the limit on overlaps, computed with a tree of maxima, is the one of a pairwise     *)
(* comparison; at the sizes zero, one, the largest offset and beyond.                      *)
RangesExact == (\E r \in Readers : reader[r].step = "open") => RangeAnswersExact
=============================================================================
