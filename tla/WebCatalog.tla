------------------------------ MODULE WebCatalog ------------------------------
(***************************************************************************)
(* The catalog list of the web client over the cursor sessions of the      *)
(* server: useCursorBookPages (web/.../hooks/useCursorBookPages.ts), the   *)
(* page store (web/.../catalogPages.ts) and the context key                *)
(* (web/.../catalogState.ts).                                              *)
(*                                                                         *)
(* A browser keeps first pages in the query cache under the snapshot id it *)
(* has heard of and the query, and appends continuations to a pagination   *)
(* session that lives as long as both.  It learns of a new catalog from    *)
(* the source overview, which it polls; a list request that fails because  *)
(* the catalog changed resets the first page.  An aborted request goes on  *)
(* in the server and nobody takes its answer.                              *)
(***************************************************************************)
EXTENDS CursorSessions

CONSTANTS
    Browsers,
    Nobody,
    MaxChanges   \* bound: how often the users change their query or ask again

ASSUME BrowserAssumption == Nobody \notin Browsers /\ MaxChanges \in Nat

VARIABLES
    known,   \* browser -> lastSeenSnapshotId of the source query
    query,   \* browser -> the query on screen
    cache,   \* browser -> key -> the answer with the first page, NoReply: no data
    list,    \* browser -> PaginationSession: [pages: the page store, next: nextCursor]
    user,    \* request -> the browser that waits for it, Nobody: free or aborted
    purpose, \* request -> "first" or "next"
    changes  \* changes of a query and repeated requests so far

browserVars == <<known, query, cache, list, user, purpose, changes>>
webVars == <<vars, browserVars>>

Keys == Generations \X Queries

EmptyList == [pages |-> <<>>, next |-> NoCursor]

\* The session that useMemo makes of the first page's data.
SessionOf(data) ==
    IF data = NoReply THEN EmptyList ELSE [pages |-> <<data.page>>, next |-> data.next]

\* Mutant of ContextKey: the snapshot is not part of the key.
QueryKey(snapshot, q) == <<1, q>>

\* buildCatalogContextKey with the query.  Source state and capabilities only split it further.
ContextKey(snapshot, q) == <<snapshot, q>>

Key(w) == ContextKey(known[w], query[w])

Waiting(w, what) == {r \in Readers : user[r] = w /\ purpose[r] = what}

WebInit ==
    /\ Init
    /\ known = [w \in Browsers |-> committed]
    /\ query \in [Browsers -> Queries]
    /\ cache = [w \in Browsers |-> [k \in Keys |-> NoReply]]
    /\ list = [w \in Browsers |-> EmptyList]
    /\ user = [r \in Readers |-> Nobody]
    /\ purpose = [r \in Readers |-> "first"]
    /\ changes = 0

-----------------------------------------------------------------------------
(* What is on screen changes                                               *)

\* The effect of the old session aborts its continuation, the query client the first page
\* nobody observes any more; the new key shows what the cache has.
Show(w, snapshot, q) ==
    /\ known' = [known EXCEPT ![w] = snapshot]
    /\ query' = [query EXCEPT ![w] = q]
    /\ list' = [list EXCEPT ![w] = SessionOf(cache[w][ContextKey(snapshot, q)])]
    /\ user' = [r \in Readers |-> IF user[r] = w THEN Nobody ELSE user[r]]
    /\ UNCHANGED <<vars, cache, purpose>>

ChangeQuery(w, q) ==
    /\ q # query[w] /\ changes < MaxChanges
    /\ changes' = changes + 1
    /\ Show(w, known[w], q)

\* A poll of the source, or its invalidation, finds another snapshot.
RefreshSource(w) ==
    /\ known[w] # committed
    /\ Show(w, committed, query[w])
    /\ UNCHANGED changes

\* The scan that the browser watched has ended: resetQueries drops every first page.
ResetBooks(w) ==
    /\ \E k \in Keys : cache[w][k] # NoReply
    /\ cache' = [cache EXCEPT ![w] = [k \in Keys |-> NoReply]]
    /\ list' = [list EXCEPT ![w] = EmptyList]
    /\ user' = [r \in Readers |-> IF user[r] = w THEN Nobody ELSE user[r]]
    /\ UNCHANGED <<vars, known, query, purpose, changes>>

-----------------------------------------------------------------------------
(* Requests                                                                *)

Send(w, r, what) ==
    /\ user' = [user EXCEPT ![r] = w]
    /\ purpose' = [purpose EXCEPT ![r] = what]
    /\ UNCHANGED <<known, query, cache, list>>

\* useQuery fetches what it has no data for; after an error the user retries.
FetchFirstPage(w, r) ==
    /\ cache[w][Key(w)] = NoReply
    /\ Waiting(w, "first") = {}
    /\ BeginFirstPage(r, query[w], 0)
    /\ Send(w, r, "first") /\ UNCHANGED changes

\* continueFromStartup and retry fetch the first page again; until the answer is there the
\* old pages stay, and may be continued.
RefetchFirstPage(w, r) ==
    /\ changes < MaxChanges /\ changes' = changes + 1
    /\ cache[w][Key(w)] # NoReply
    /\ Waiting(w, "first") = {}
    /\ BeginFirstPage(r, query[w], 0)
    /\ Send(w, r, "first")

\* fetchNextPage returns when a page is being loaded or there is no cursor.
FetchNextPage(w, r) ==
    /\ list[w].next # NoCursor
    /\ Waiting(w, "next") = {}
    /\ BeginNextPage(r, query[w], list[w].next)
    /\ Send(w, r, "next") /\ UNCHANGED changes

-----------------------------------------------------------------------------
(* Answers                                                                 *)

\* The data of the first page makes a new session, and the effect of the old one aborts
\* its continuation; an error leaves the query with the data it had.
TakeFirstPage(w, r) ==
    /\ user[r] = w /\ purpose[r] = "first"
    /\ Taken(r)
    /\ IF reply[r].code = "ok"
       THEN /\ cache' = [cache EXCEPT ![w][Key(w)] = reply[r]]
            /\ list' = [list EXCEPT ![w] = SessionOf(reply[r])]
            /\ user' = [x \in Readers |-> IF user[x] = w THEN Nobody ELSE user[x]]
       ELSE /\ user' = [user EXCEPT ![r] = Nobody]
            /\ UNCHANGED <<cache, list>>
    /\ UNCHANGED <<known, query, purpose, changes>>

\* appendContinuation: the snapshot of the first page, the position after the last one.
Continues(pages, page) ==
    /\ pages # <<>>
    /\ page.rows = pages[1].rows
    /\ page.from = pages[Len(pages)].to

Recoverable(code) == code \in {"catalog_snapshot_changed", "catalog_cursor_expired"}

\* An answer of another catalog, like a recoverable error, empties the list and resets the
\* first page; any other error is shown and the cursor is kept for a retry.
TakeNextPage(w, r) ==
    LET fits  == reply[r].code = "ok" /\ Continues(list[w].pages, reply[r].page)
        reset == ~fits /\ (reply[r].code = "ok" \/ Recoverable(reply[r].code))
    IN  /\ user[r] = w /\ purpose[r] = "next"
        /\ Taken(r)
        /\ list' = [list EXCEPT ![w] =
                      IF fits THEN [pages |-> Append(list[w].pages, reply[r].page),
                                    next |-> reply[r].next]
                      ELSE IF reset THEN EmptyList ELSE list[w]]
        /\ cache' = IF reset THEN [cache EXCEPT ![w][Key(w)] = NoReply] ELSE cache
        /\ user' = [user EXCEPT ![r] = Nobody]
        /\ UNCHANGED <<known, query, purpose, changes>>

\* The answer to an aborted request.
DropAnswer(r) == user[r] = Nobody /\ Taken(r) /\ UNCHANGED browserVars

-----------------------------------------------------------------------------
WebNext ==
    \/ ServerStep /\ UNCHANGED browserVars
    \/ \E w \in Browsers :
          \/ \E q \in Queries : ChangeQuery(w, q)
          \/ RefreshSource(w) \/ ResetBooks(w)
          \/ \E r \in Readers :
                \/ FetchFirstPage(w, r) \/ RefetchFirstPage(w, r) \/ FetchNextPage(w, r)
                \/ TakeFirstPage(w, r) \/ TakeNextPage(w, r)
    \/ \E r \in Readers : DropAnswer(r)

WebSpec == WebInit /\ [][WebNext]_webVars

-----------------------------------------------------------------------------
(* The pages a browser has put one after the other are the list of the query on screen in  *)
(* one published catalog, without gap or repetition, each with the rows of that catalog,   *)
(* although sessions expire, are evicted or belong to another catalog, and answers arrive  *)
(* after the query was changed; and when there is no cursor any more the list is complete. *)
PagesOfOneCatalog ==
    \A w \in Browsers : LET p == list[w].pages IN
        /\ \A i \in DOMAIN p :
              /\ p[i].rows = p[1].rows /\ p[i].gen = p[1].rows /\ p[i].query = query[w]
              /\ p[i].from = IF i = 1 THEN 0 ELSE p[i-1].to
        /\ p # <<>> /\ list[w].next = NoCursor =>
              p[Len(p)].to = ResultSize[p[1].gen][p[1].query]

(* Once a browser has heard of a catalog it shows no list of an older one, from the cache, *)
(* from an answer under way or by continuing what it has.                                  *)
ListFollowsSource ==
    \A w \in Browsers : list[w].pages # <<>> => list[w].pages[1].rows >= known[w]
=============================================================================
