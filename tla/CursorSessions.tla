---------------------------- MODULE CursorSessions ----------------------------
(***************************************************************************)
(* Pages of the catalog list: CSqliteBookQueryRepository::SearchPage       *)
(* (libs/Database/SqliteBookQueryRepository.cpp) and its cursor sessions.  *)
(*                                                                         *)
(* The first page of a query stores the ids of the whole result in a       *)
(* session; later pages are slices of it.  Sessions are bounded in number  *)
(* and in ids, expire, and belong to one published catalog, while scans    *)
(* publish new catalogs at any moment.  The repository is shared by        *)
(* threads under one mutex, and each of its critical sections is an        *)
(* action.  A reader keeps the catalog it began with (SQLite in WAL mode). *)
(***************************************************************************)
EXTENDS Integers, Sequences, FiniteSets, FiniteSetsExt

CONSTANTS
    Readers,              \* requests the server works on at a time
    Queries,
    ResultSize,           \* published catalog -> query -> number of books found
    Limit,                \* books per page
    AggregateIdCapacity,
    GMaxSearchSessions,
    GSearchSessionTtl,
    NoCursor,
    MaxRequests,          \* bound: requests
    MaxClock              \* bound: the clock

Generations == DOMAIN ResultSize

ASSUME CursorAssumption ==
    /\ ResultSize \in Seq([Queries -> Nat]) /\ ResultSize # <<>>
    /\ Limit \in Nat \ {0}
    /\ AggregateIdCapacity \in Nat
    /\ GMaxSearchSessions \in Nat \ {0} /\ GSearchSessionTtl \in Nat \ {0}
    /\ NoCursor \notin [session : Nat, gen : Nat, query : Queries, at : Nat]
    /\ MaxRequests \in Nat /\ MaxClock \in Nat

VARIABLES
    committed,     \* the published catalog; its number stands for fingerprint and snapshot id
    clock,         \* steady_clock
    \* SSearchSessionState
    sessions,      \* Sessions: [id, gen, query, size, first, access]
    reservations,  \* Reservations: [id, gen, count]
    generation,    \* CurrentGenerationKey, 0: none yet
    used,          \* UsedIdCount
    reserved,      \* ReservedIdCount
    nextId,        \* NextReservationId; the session keeps the number of its reservation
    \* a request
    pc,            \* where SearchPage stands
    ask,           \* its locals: [query, cursor: as received, from: pageStart, snap: the
                   \* catalog its read transaction sees, moment: the time it read before it
                   \* took the mutex]
    ticket,        \* its reservation
    reply,         \* its answer: [code, page, next: the continuation cursor]
    requests       \* requests made

storeVars  == <<sessions, reservations, generation, used, reserved, nextId>>
vars == <<committed, clock, sessions, reservations, generation, used, reserved, nextId,
          pc, ask, ticket, reply, requests>>

PerSessionIdCapacity ==
    AggregateIdCapacity - (AggregateIdCapacity \div 4
                           + (IF AggregateIdCapacity % 4 = 0 THEN 0 ELSE 1))

NoAsk == [query |-> NoCursor, cursor |-> NoCursor, from |-> 0, snap |-> 0, moment |-> 0]
NoReply == [code |-> "none", page |-> NoCursor, next |-> NoCursor]
NoTicket == [id |-> 0, gen |-> 0, count |-> 0]

Total(r) == ResultSize[ask[r].snap][ask[r].query]
PageEnd(start, total) == start + Min({Limit, total - start})

\* The ids that sessions keep, and those that reservations may come to keep.
Ids(S) == Cardinality(UNION {{s} \X (1..s.size) : s \in S})
ReservedIds(R) == Cardinality(UNION {{x} \X (1..x.count) : x \in R})

Init ==
    /\ committed = 1
    /\ clock = 0
    /\ sessions = {} /\ reservations = {}
    /\ generation = 0
    /\ used = 0 /\ reserved = 0
    /\ nextId = 1
    /\ pc = [r \in Readers |-> "idle"]
    /\ ask = [r \in Readers |-> NoAsk]
    /\ ticket = [r \in Readers |-> NoTicket]
    /\ reply = [r \in Readers |-> NoReply]
    /\ requests = 0

-----------------------------------------------------------------------------
(* The world                                                               *)

\* A scan publishes its catalog.
CommitCatalog ==
    /\ committed + 1 \in Generations
    /\ committed' = committed + 1
    /\ UNCHANGED <<clock, storeVars, pc, ask, ticket, reply, requests>>

Tick ==
    /\ clock < MaxClock
    /\ clock' = clock + 1
    /\ UNCHANGED <<committed, storeVars, pc, ask, ticket, reply, requests>>

\* The process ends and starts again; the connections of its requests break.
Restart ==
    /\ sessions # {} \/ reservations # {}
    /\ sessions' = {} /\ reservations' = {}
    /\ generation' = 0
    /\ used' = 0 /\ reserved' = 0
    /\ pc' = [r \in Readers |-> IF pc[r] = "idle" THEN "idle" ELSE "answered"]
    /\ ask' = [r \in Readers |-> NoAsk]
    /\ ticket' = [r \in Readers |-> NoTicket]
    /\ reply' = [r \in Readers |-> IF pc[r] \in {"idle", "answered"} THEN reply[r]
                                    ELSE [NoReply EXCEPT !.code = "failed"]]
    /\ UNCHANGED <<committed, clock, nextId, requests>>

-----------------------------------------------------------------------------
(* Answers                                                                 *)

Reply(r, answer) ==
    /\ pc' = [pc EXCEPT ![r] = "answered"]
    /\ ask' = [ask EXCEPT ![r] = NoAsk]
    /\ ticket' = [ticket EXCEPT ![r] = NoTicket]
    /\ reply' = [reply EXCEPT ![r] = answer]

\* An exception, as MapDomainError names it.
Fail(r, code) == Reply(r, [NoReply EXCEPT !.code = code])

\* The exception is on its way through the handlers of SearchPage.
Unwind(r, handler, code) ==
    /\ pc' = [pc EXCEPT ![r] = handler]
    /\ reply' = [reply EXCEPT ![r].code = code]

\* A page: the books start to end of the list that the query had in catalog gen, with the
\* rows and the snapshot id of the catalog that the request sees.
Page(rows, gen, q, start, end) == [rows |-> rows, gen |-> gen, query |-> q, from |-> start, to |-> end]

Answer(r, page, next) == Reply(r, [code |-> "ok", page |-> page, next |-> next])

-----------------------------------------------------------------------------
(* The session state, under its mutex                                      *)

\* PurgeSessionsLocked
Purged(S, now) == {s \in S : now - s.access < GSearchSessionTtl}

\* Mutant of Activated: a new generation forgets to give back the reserved ids.
ActivatedKeepsReserved(gen, now) ==
    LET live == Purged(sessions, now)
    IN  IF generation = gen
        THEN [sessions |-> live, used |-> used - Ids(sessions \ live),
              reservations |-> reservations, reserved |-> reserved]
        ELSE [sessions |-> {}, used |-> used - Ids(sessions), reservations |-> {},
              reserved |-> reserved]

\* ... then ActivateSearchSessionGenerationLocked: what is left of the state.
Activated(gen, now) ==
    LET live == Purged(sessions, now)
    IN  IF generation = gen
        THEN [sessions |-> live, used |-> used - Ids(sessions \ live),
              reservations |-> reservations, reserved |-> reserved]
        ELSE [sessions |-> {}, used |-> used - Ids(sessions), reservations |-> {}, reserved |-> 0]

\* EvictLeastRecentlyUsedLocked as long as there are too many sessions, or too many ids
\* for count more: the sets of sessions that can be left.
Room(st, K, others, count) ==
    /\ Cardinality(K) < GMaxSearchSessions
    /\ st.used - Ids(st.sessions \ K) + others + count <= AggregateIdCapacity

AfterEviction(st, others, count) ==
    {K \in SUBSET st.sessions :
        LET evicted == st.sessions \ K
        IN  /\ K = {} \/ Room(st, K, others, count)
            /\ \A x \in evicted, k \in K : x.access <= k.access
            /\ evicted # {} =>
                 \E last \in evicted :
                    /\ \A x \in evicted : x.access <= last.access
                    /\ ~Room(st, K \cup {last}, others, count)}

\* Mutant of SameCatalog: the committed catalog is not compared.
AnyCatalog(r) == TRUE

\* ValidateCurrentCatalogIdentity, on a connection of its own.
SameCatalog(r) == committed = ask[r].snap

-----------------------------------------------------------------------------
(* The first page                                                          *)

Request == requests < MaxRequests /\ requests' = requests + 1

\* The read transaction, the count and the page's bounds.
BeginFirstPage(r, q, offset) ==
    LET total == ResultSize[committed][q]
        start == Min({offset, total})
        end == PageEnd(start, total)
    IN  /\ pc[r] = "idle"
        /\ Request
        /\ IF end >= total
           THEN Answer(r, Page(committed, committed, q, start, end), NoCursor)
           ELSE /\ pc' = [pc EXCEPT ![r] = "reserve"]
                /\ ask' = [ask EXCEPT ![r] = [NoAsk EXCEPT !.query = q, !.from = start, !.snap = committed]]
                /\ UNCHANGED <<ticket, reply>>
        /\ UNCHANGED <<committed, clock, storeVars>>

\* ReserveSearchSessionIds
ReserveSearchSessionIds(r) ==
    LET st == Activated(ask[r].snap, clock)
        count == Total(r)
        new == [id |-> nextId, gen |-> ask[r].snap, count |-> count]
    IN  /\ pc[r] = "reserve"
        /\ IF ~SameCatalog(r)
           THEN Fail(r, "catalog_snapshot_changed") /\ UNCHANGED storeVars
           ELSE \E K \in IF count > PerSessionIdCapacity THEN {st.sessions}
                         ELSE AfterEviction(st, st.reserved, count) :
                  LET left == st.used - Ids(st.sessions \ K)
                      fits == /\ count <= PerSessionIdCapacity
                              /\ left + st.reserved + count <= AggregateIdCapacity
                  IN  /\ generation' = ask[r].snap
                      /\ sessions' = K
                      /\ used' = left
                      /\ reservations' = IF fits THEN st.reservations \cup {new} ELSE st.reservations
                      /\ reserved' = IF fits THEN st.reserved + count ELSE st.reserved
                      /\ nextId' = IF fits THEN nextId + 1 ELSE nextId
                      /\ IF fits
                         THEN /\ pc' = [pc EXCEPT ![r] = "materialize"]
                              /\ ticket' = [ticket EXCEPT ![r] = new]
                              /\ UNCHANGED <<ask, reply>>
                         ELSE Fail(r, "catalog_cursor_capacity_exceeded")
        /\ UNCHANGED <<committed, clock, requests>>

\* The ids and the books are read, or cannot be.
Materialize(r) ==
    /\ pc[r] = "materialize"
    /\ \/ /\ pc' = [pc EXCEPT ![r] = "publish"]
          /\ ask' = [ask EXCEPT ![r].moment = clock]
          /\ UNCHANGED reply
       \/ Unwind(r, "release", "failed") /\ UNCHANGED ask
    /\ UNCHANGED <<committed, clock, storeVars, ticket, requests>>

\* PublishSearchSession
PublishSearchSession(r) ==
    LET st == Activated(ask[r].snap, ask[r].moment)
        count == Total(r)
        others == st.reserved - ticket[r].count
        session == [id |-> ticket[r].id, gen |-> ask[r].snap, query |-> ask[r].query, size |-> count,
                    first |-> PageEnd(ask[r].from, count), access |-> ask[r].moment]
    IN  /\ pc[r] = "publish"
        /\ IF ~SameCatalog(r)
           THEN Unwind(r, "release", "catalog_snapshot_changed") /\ UNCHANGED storeVars
           ELSE \E K \in IF ticket[r] \notin st.reservations THEN {st.sessions}
                         ELSE AfterEviction(st, others, count) :
                  LET left == st.used - Ids(st.sessions \ K)
                      fits == ticket[r] \in st.reservations /\ left + others + count <= AggregateIdCapacity
                  IN  /\ generation' = ask[r].snap
                      /\ sessions' = IF fits THEN K \cup {session} ELSE K
                      /\ used' = IF fits THEN left + count ELSE left
                      /\ reservations' = IF fits THEN st.reservations \ {ticket[r]} ELSE st.reservations
                      /\ reserved' = IF fits THEN others ELSE st.reserved
                      /\ IF fits THEN pc' = [pc EXCEPT ![r] = "recheck"] /\ UNCHANGED reply
                         ELSE Unwind(r, "release", IF ticket[r] \in st.reservations
                                                   THEN "catalog_cursor_capacity_exceeded"
                                                   ELSE "catalog_snapshot_changed")
                      /\ UNCHANGED nextId
        /\ UNCHANGED <<committed, clock, ask, ticket, requests>>

\* ReleaseSearchSessionReservation: a generation switch may have removed it before.
ReleaseSearchSessionReservation(r) ==
    /\ pc[r] = "release"
    /\ reservations' = reservations \ {ticket[r]}
    /\ reserved' = IF ticket[r] \in reservations THEN reserved - ticket[r].count ELSE reserved
    /\ Fail(r, reply[r].code)
    /\ UNCHANGED <<committed, clock, sessions, generation, used, nextId, requests>>

\* The catalog is compared once more, and only then is the cursor handed out; the
\* comparison itself may fail to read.
Recheck(r) ==
    LET end == PageEnd(ask[r].from, Total(r))
    IN  /\ pc[r] = "recheck"
        /\ \/ /\ SameCatalog(r)
              /\ Answer(r, Page(ask[r].snap, ask[r].snap, ask[r].query, ask[r].from, end),
                        [session |-> ticket[r].id, gen |-> ask[r].snap, query |-> ask[r].query, at |-> end])
           \/ /\ Unwind(r, "withdraw", IF SameCatalog(r) THEN "failed" ELSE "catalog_snapshot_changed")
              /\ UNCHANGED <<ask, ticket>>
        /\ UNCHANGED <<committed, clock, storeVars, requests>>

\* RemoveSearchSession
RemoveSearchSession(r) ==
    LET gone == {s \in sessions : s.id = ticket[r].id}
    IN  /\ pc[r] = "withdraw"
        /\ sessions' = sessions \ gone
        /\ used' = used - Ids(gone)
        /\ Fail(r, reply[r].code)
        /\ UNCHANGED <<committed, clock, reservations, generation, reserved, nextId, requests>>

-----------------------------------------------------------------------------
(* Later pages                                                             *)

\* The cursor names its query (CBookListCursorCodec::Decode) and its catalog.
CursorMatches(c, q) == c.query = q /\ c.gen = committed

BeginNextPage(r, q, c) ==
    /\ pc[r] = "idle"
    /\ Request
    /\ IF CursorMatches(c, q)
       THEN /\ pc' = [pc EXCEPT ![r] = "slice"]
            /\ ask' = [ask EXCEPT ![r] = [query |-> q, cursor |-> c, from |-> c.at,
                                         snap |-> committed, moment |-> clock]]
            /\ UNCHANGED <<ticket, reply>>
       ELSE Fail(r, IF c.query = q THEN "catalog_snapshot_changed" ELSE "invalid_cursor")
    /\ UNCHANGED <<committed, clock, storeVars>>

\* Mutant of HasMore: the list ends one book early.
HasTwoMore(end, size) == end + 1 < size

HasMore(end, size) == end < size

\* ReadSearchSessionSlice: the session, which may be gone or of another catalog, and the
\* books after the cursor's position.  SearchPage reads their rows afterwards, or cannot: the
\* session has been used all the same.
ReadSearchSessionSlice(r) ==
    LET live == Purged(sessions, ask[r].moment)
        found == {s \in live : s.id = ask[r].cursor.session}
        fresh == {s \in found : s.gen = ask[r].snap}
        valid == {s \in fresh : /\ s.query = ask[r].query
                                /\ s.first <= ask[r].from /\ ask[r].from < s.size}
        kept == IF fresh = {} THEN live \ found ELSE live
    IN  /\ pc[r] = "slice"
        /\ IF valid = {}
           THEN /\ sessions' = kept
                /\ used' = used - Ids(sessions \ kept)
                /\ Fail(r, IF found = {} THEN "catalog_cursor_expired"
                           ELSE IF fresh = {} THEN "catalog_snapshot_changed"
                           ELSE "invalid_cursor")
           ELSE \E s \in valid :
                  LET end == PageEnd(ask[r].from, s.size)
                  IN  /\ sessions' = (live \ valid) \cup {[s EXCEPT !.access = ask[r].moment]}
                      /\ used' = used - Ids(sessions \ live)
                      /\ \/ Answer(r, Page(ask[r].snap, s.gen, s.query, ask[r].from, end),
                                   IF HasMore(end, s.size) THEN [ask[r].cursor EXCEPT !.at = end]
                                   ELSE NoCursor)
                         \/ Fail(r, "failed")
        /\ UNCHANGED <<committed, clock, reservations, generation, reserved, nextId, requests>>

-----------------------------------------------------------------------------
PageStep(r) ==
    \/ ReserveSearchSessionIds(r) \/ Materialize(r) \/ PublishSearchSession(r)
    \/ ReleaseSearchSessionReservation(r) \/ Recheck(r) \/ RemoveSearchSession(r)
    \/ ReadSearchSessionSlice(r)

\* The connection is done with.
Taken(r) ==
    /\ pc[r] = "answered"
    /\ pc' = [pc EXCEPT ![r] = "idle"]
    /\ reply' = [reply EXCEPT ![r] = NoReply]
    /\ UNCHANGED <<committed, clock, storeVars, ask, ticket, requests>>

ServerStep == CommitCatalog \/ Tick \/ Restart \/ \E r \in Readers : PageStep(r)

-----------------------------------------------------------------------------
(* Properties                                                              *)

\* The counters are the sums they stand for, so that no subtraction in the code meets
\* std::terminate; sessions and reservations together never exceed the ids that the memory
\* envelope allows, whatever was purged, evicted, switched or withdrawn; and every
\* reservation belongs to a request that will publish or release it, on every exit.
CursorMemoryBounded ==
    /\ used = Ids(sessions)
    /\ reserved = ReservedIds(reservations)
    /\ used + reserved <= AggregateIdCapacity
    /\ Cardinality(sessions) <= GMaxSearchSessions
    /\ \A x \in reservations : \E r \in Readers :
          ticket[r] = x /\ pc[r] \in {"materialize", "publish", "release"}

\* A request that began with an older catalog removes no session of the published one,
\* unless it has expired: an obsolete first page can neither publish nor evict.
CurrentCursorsKept ==
    [][\A r \in Readers : PageStep(r) /\ ask[r].snap # committed =>
          {s \in Purged(sessions, clock) : s.gen = committed} \subseteq sessions']_vars
=============================================================================
