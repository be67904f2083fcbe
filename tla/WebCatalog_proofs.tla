-------------------------- MODULE WebCatalog_proofs --------------------------
(***************************************************************************)
(* Proofs about CursorSessions and WebCatalog, for any readers, browsers,  *)
(* queries, results, page size and capacity.                               *)
(***************************************************************************)
EXTENDS WebCatalog, SequenceTheorems, FiniteSetTheorems, TLAPS

-----------------------------------------------------------------------------
(* The inductive invariant                                                 *)

Cursors == [session : Nat, gen : Nat, query : Queries, at : Nat]
Pages == [rows : Generations, gen : Generations, query : Queries, from : Nat, to : Nat]
SessionRecords ==
    [id : Nat, gen : Generations, query : Queries, size : Nat, first : Nat, access : Nat]
ReservationRecords == [id : Nat, gen : Nat, count : Nat]

\* SSearchSessionState without its counters: one number is given to one reservation, which
\* becomes at most one session, and a session keeps the whole result.
StoreInv ==
    /\ committed \in Generations /\ clock \in Nat /\ nextId \in Nat
    /\ sessions \subseteq SessionRecords /\ IsFiniteSet(sessions)
    /\ reservations \subseteq ReservationRecords /\ IsFiniteSet(reservations)
    /\ \A s \in sessions : s.id < nextId /\ s.size = ResultSize[s.gen][s.query]
    /\ \A x \in reservations : x.id < nextId
    /\ \A s, t \in sessions : s.id = t.id => s = t
    /\ \A x, y \in reservations : x.id = y.id => x = y
    /\ \A s \in sessions, x \in reservations : s.id # x.id

\* The number id was given and is no reservation any more: should there be a session with
\* it, then that is one of catalog gen.
Settled(id, gen) ==
    /\ id < nextId
    /\ \A x \in reservations : x.id # id
    /\ \A s \in sessions : s.id = id => s.gen = gen

\* No cursor, or one that was handed out: wherever it has been since, the session it names
\* is of its catalog.
Sound(c) == c = NoCursor \/ (c \in Cursors /\ Settled(c.session, c.gen))

\* The answer with a page: its books and its rows are of one catalog, and the last page
\* ends where the result does.
Whole(a) ==
    /\ a.page \in Pages
    /\ a.page.gen = a.page.rows
    /\ a.next = NoCursor => a.page.to = ResultSize[a.page.gen][a.page.query]

Busy == {"reserve", "materialize", "publish", "release", "recheck", "withdraw", "slice"}

AskRecords == [query : Queries \cup {NoCursor}, cursor : Cursors \cup {NoCursor},
               from : Nat, snap : Nat, moment : Nat]
Codes == {"none", "ok", "failed", "invalid_cursor", "catalog_snapshot_changed",
          "catalog_cursor_expired", "catalog_cursor_capacity_exceeded"}
ReplyRecords == [code : Codes, page : Pages \cup {NoCursor}, next : Cursors \cup {NoCursor}]

RequestTypeOK ==
    /\ pc \in [Readers -> Busy \cup {"idle", "answered"}]
    /\ ask \in [Readers -> AskRecords]
    /\ ticket \in [Readers -> ReservationRecords]
    /\ reply \in [Readers -> ReplyRecords]

\* A request under way asks for a query in a catalog that was published; after its session
\* was published its number belongs to that session only; a page it answers is whole.
ReaderInv(r) ==
    /\ pc[r] \in Busy =>
          /\ ask[r].query \in Queries
          /\ ask[r].snap \in Generations /\ ask[r].snap <= committed
    /\ pc[r] \in Busy \ {"slice"} => ask[r].from <= Total(r)
    /\ pc[r] = "slice" =>
          /\ ask[r].cursor \in Cursors /\ ask[r].cursor.gen = ask[r].snap
          /\ ask[r].moment <= clock
    /\ pc[r] \in {"recheck", "withdraw"} => Settled(ticket[r].id, ask[r].snap)
    /\ reply[r].code = "ok" => pc[r] = "answered" /\ Whole(reply[r])
    /\ Sound(ask[r].cursor) /\ Sound(reply[r].next)

RequestInv == RequestTypeOK /\ \A r \in Readers : ReaderInv(r)

\* What the browser that waits for a request may rely on.
Expected(w, r) ==
    /\ pc[r] \in Busy =>
          /\ ask[r].query = query[w]
          /\ purpose[r] = "first" => ask[r].from = 0 /\ ask[r].snap >= known[w]
    /\ reply[r].code = "ok" =>
          /\ reply[r].page.query = query[w]
          /\ purpose[r] = "first" => reply[r].page.from = 0 /\ reply[r].page.rows >= known[w]

\* First page data under a key of the query cache.
Cached(a, k) ==
    a = NoReply \/ /\ Whole(a) /\ Sound(a.next)
                   /\ a.page.query = k[2] /\ a.page.from = 0 /\ a.page.rows >= k[1]

BrowserTypeOK ==
    /\ known \in [Browsers -> Generations]
    /\ query \in [Browsers -> Queries]
    /\ cache \in [Browsers -> [Keys -> ReplyRecords]]
    /\ list \in [Browsers -> [pages : Seq(Pages), next : Cursors \cup {NoCursor}]]
    /\ user \in [Readers -> Browsers \cup {Nobody}]
    /\ purpose \in [Readers -> {"first", "next"}]

\* What a browser knows, keeps and waits for.
BrowserOk(w) ==
    /\ known[w] <= committed
    /\ \A k \in Keys : Cached(cache[w][k], k)
    /\ Sound(list[w].next)
    /\ \A r \in Readers : user[r] = w => Expected(w, r)

BrowserInv == BrowserTypeOK /\ \A w \in Browsers : BrowserOk(w)

WebInv ==
    /\ StoreInv /\ CursorMemoryBounded /\ RequestInv /\ BrowserInv
    /\ PagesOfOneCatalog /\ ListFollowsSource

-----------------------------------------------------------------------------
(* Numbers of ids                                                          *)

\* The pairs <<x, i>> with i at most n[x]: as many as the numbers n[x] sum up to.
Units(n, S) == UNION {{x} \X (1..n[x]) : x \in S}

\* Finite for a finite set.
LEMMA UnitsFinite ==
    ASSUME NEW S, IsFiniteSet(S), NEW n \in [S -> Nat]
    PROVE  IsFiniteSet(Units(n, S))
  <1> DEFINE one == [x \in S |-> {x} \X (1..n[x])]
             all == {{x} \X (1..n[x]) : x \in S}
  <1>1. one \in Surjection(S, all)
    BY DEF Surjection
  <1>2. IsFiniteSet(all)
    BY <1>1, FS_Surjection
  <1>3. ASSUME NEW x \in S PROVE IsFiniteSet({x} \X (1..n[x]))
    <2>1. IsFiniteSet({x})
      BY FS_Singleton
    <2>2. IsFiniteSet(1..n[x])
      BY FS_Interval
    <2> QED
      BY <2>1, <2>2, FS_Product
  <1> QED
    BY <1>2, <1>3, FS_UNION DEF Units

\* A set split in two.
LEMMA UnitsSplit ==
    ASSUME NEW S, IsFiniteSet(S), NEW n \in [S -> Nat], NEW K \in SUBSET S
    PROVE  /\ Cardinality(Units(n, K)) \in Nat /\ Cardinality(Units(n, S \ K)) \in Nat
           /\ Cardinality(Units(n, S)) = Cardinality(Units(n, K)) + Cardinality(Units(n, S \ K))
  <1>1. IsFiniteSet(Units(n, S))
    BY UnitsFinite
  <1>2. Units(n, K) \subseteq Units(n, S) /\ Units(n, S \ K) \subseteq Units(n, S)
    BY DEF Units
  <1>3. IsFiniteSet(Units(n, K)) /\ IsFiniteSet(Units(n, S \ K))
    BY <1>1, <1>2, FS_Subset
  <1>4. Units(n, S) = Units(n, K) \cup Units(n, S \ K)
    BY DEF Units
  <1>5. Units(n, K) \cap Units(n, S \ K) = {}
    BY DEF Units
  <1>6. Cardinality(Units(n, K)) \in Nat /\ Cardinality(Units(n, S \ K)) \in Nat
    BY <1>3, FS_CardinalityType
  <1>7. Cardinality(Units(n, S)) =
          Cardinality(Units(n, K)) + Cardinality(Units(n, S \ K)) - Cardinality({})
    <2>1. PICK U, V : U = Units(n, K) /\ V = Units(n, S \ K)
      OBVIOUS
    <2>2. Cardinality(U \cup V) = Cardinality(U) + Cardinality(V) - Cardinality(U \cap V)
      BY <1>3, <2>1, FS_Union
    <2> QED
      BY <1>4, <1>5, <2>1, <2>2
  <1> QED
    BY <1>6, <1>7, FS_EmptySet

\* One element.
LEMMA UnitsOne ==
    ASSUME NEW S, NEW n \in [S -> Nat], NEW x \in S
    PROVE  Cardinality(Units(n, {x})) = n[x]
  <1>1. IsFiniteSet({x}) /\ Cardinality({x}) = 1
    BY FS_Singleton
  <1>2. IsFiniteSet(1..n[x]) /\ Cardinality(1..n[x]) = n[x]
    BY FS_Interval
  <1>3. Cardinality({x} \X (1..n[x])) = Cardinality({x}) * Cardinality(1..n[x])
    BY <1>1, <1>2, FS_Product
  <1>4. Cardinality({x}) * Cardinality(1..n[x]) = n[x]
    BY <1>1, <1>2
  <1>5. Units(n, {x}) = {x} \X (1..n[x])
    BY DEF Units
  <1> QED
    BY <1>3, <1>4, <1>5

\* Sessions: a set split in two, none, and one more.
LEMMA IdsSplit ==
    ASSUME NEW S, IsFiniteSet(S), \A s \in S : s.size \in Nat, NEW K \in SUBSET S
    PROVE  Ids(K) \in Nat /\ Ids(S \ K) \in Nat /\ Ids(S) = Ids(K) + Ids(S \ K)
  <1> DEFINE n == [s \in S |-> s.size]
  <1>1. n \in [S -> Nat]
    OBVIOUS
  <1>2. ASSUME NEW T \in SUBSET S PROVE Ids(T) = Cardinality(Units(n, T))
    <2>1. UNION {{s} \X (1..s.size) : s \in T} = Units(n, T)
      BY DEF Units
    <2> QED
      BY <2>1 DEF Ids
  <1> HIDE DEF n
  <1>3. /\ Ids(S) = Cardinality(Units(n, S)) /\ Ids(K) = Cardinality(Units(n, K))
        /\ Ids(S \ K) = Cardinality(Units(n, S \ K))
    BY <1>2
  <1>4. /\ Cardinality(Units(n, K)) \in Nat /\ Cardinality(Units(n, S \ K)) \in Nat
        /\ Cardinality(Units(n, S)) = Cardinality(Units(n, K)) + Cardinality(Units(n, S \ K))
    BY <1>1, UnitsSplit
  <1> QED
    BY <1>3, <1>4

\* No session, no id.
LEMMA IdsNone == Ids({}) = 0
  <1>1. UNION {{s} \X (1..s.size) : s \in {}} = {}
    OBVIOUS
  <1> QED
    BY <1>1, FS_EmptySet DEF Ids

\* One session more.
LEMMA IdsAdd ==
    ASSUME NEW S, IsFiniteSet(S), \A s \in S : s.size \in Nat,
           NEW t, t.size \in Nat, t \notin S
    PROVE  Ids(S) \in Nat /\ Ids(S \cup {t}) = Ids(S) + t.size
  <1> DEFINE T == S \cup {t}
             n == [s \in T |-> s.size]
  <1>1. IsFiniteSet(T) /\ \A s \in T : s.size \in Nat
    BY FS_AddElement
  <1>2. Ids(S) \in Nat /\ Ids(T) = Ids(S) + Ids(T \ S)
    BY <1>1, IdsSplit
  <1>3. T \ S = {t}
    OBVIOUS
  <1>4. Ids({t}) = t.size
    <2>1. n \in [T -> Nat] /\ t \in T /\ n[t] = t.size
      BY <1>1
    <2>2. UNION {{s} \X (1..s.size) : s \in {t}} = Units(n, {t})
      BY <2>1 DEF Units
    <2> HIDE DEF n, T
    <2> QED
      BY <2>1, <2>2, UnitsOne DEF Ids
  <1> QED
    BY <1>2, <1>3, <1>4

\* Reservations: likewise.
LEMMA ReservedNone == ReservedIds({}) = 0
  <1>1. UNION {{x} \X (1..x.count) : x \in {}} = {}
    OBVIOUS
  <1> QED
    BY <1>1, FS_EmptySet DEF ReservedIds

\* One reservation more.
LEMMA ReservedAdd ==
    ASSUME NEW R, IsFiniteSet(R), \A x \in R : x.count \in Nat,
           NEW t, t.count \in Nat, t \notin R
    PROVE  ReservedIds(R) \in Nat /\ ReservedIds(R \cup {t}) = ReservedIds(R) + t.count
  <1> DEFINE T == R \cup {t}
             n == [x \in T |-> x.count]
  <1>1. IsFiniteSet(T) /\ n \in [T -> Nat] /\ t \in T /\ n[t] = t.count
    BY FS_AddElement
  <1>2. ASSUME NEW D \in SUBSET T PROVE ReservedIds(D) = Cardinality(Units(n, D))
    <2>1. UNION {{x} \X (1..x.count) : x \in D} = Units(n, D)
      BY DEF Units
    <2> QED
      BY <2>1 DEF ReservedIds
  <1>3. T \ R = {t} /\ R \in SUBSET T /\ T \in SUBSET T
    OBVIOUS
  <1> HIDE DEF n, T
  <1>4. /\ Cardinality(Units(n, R)) \in Nat
        /\ Cardinality(Units(n, T)) = Cardinality(Units(n, R)) + Cardinality(Units(n, {t}))
    <2>1. /\ Cardinality(Units(n, R)) \in Nat
          /\ Cardinality(Units(n, T)) = Cardinality(Units(n, R)) + Cardinality(Units(n, T \ R))
      BY <1>1, <1>3, UnitsSplit
    <2> QED
      BY <1>3, <2>1
  <1>5. Cardinality(Units(n, {t})) = n[t]
    BY <1>1, UnitsOne
  <1> QED
    BY <1>1, <1>2, <1>3, <1>4, <1>5 DEF T

\* One reservation less.
LEMMA ReservedRemove ==
    ASSUME NEW R, IsFiniteSet(R), \A x \in R : x.count \in Nat, NEW t \in R
    PROVE  /\ ReservedIds(R) \in Nat /\ ReservedIds(R \ {t}) \in Nat
           /\ ReservedIds(R \ {t}) = ReservedIds(R) - t.count
  <1>1. IsFiniteSet(R \ {t})
    BY FS_RemoveElement
  <1>2. (R \ {t}) \cup {t} = R
    OBVIOUS
  <1>3. /\ ReservedIds(R \ {t}) \in Nat
        /\ ReservedIds((R \ {t}) \cup {t}) = ReservedIds(R \ {t}) + t.count
    BY <1>1, ReservedAdd
  <1>4. ReservedIds(R) = ReservedIds(R \ {t}) + t.count
    BY <1>2, <1>3
  <1>5. t.count \in Nat
    OBVIOUS
  <1> HIDE DEF ReservedIds
  <1> QED
    BY <1>3, <1>4, <1>5

\* A number for any reservations.
LEMMA ReservedType ==
    ASSUME NEW R, IsFiniteSet(R), \A x \in R : x.count \in Nat
    PROVE  ReservedIds(R) \in Nat
  <1>1. CASE R = {}
    BY <1>1, ReservedNone
  <1>2. CASE R # {}
    <2>1. PICK t \in R : TRUE
      BY <1>2
    <2> QED
      BY <2>1, ReservedRemove
  <1> QED
    BY <1>1, <1>2

\* The smaller of two numbers.
LEMMA MinTwo ==
    ASSUME NEW a \in Int, NEW b \in Int
    PROVE  Min({a, b}) = IF a <= b THEN a ELSE b
  <1>1. \E x \in {a, b} : \A y \in {a, b} : x =< y
    OBVIOUS
  <1>2. Min({a, b}) \in {a, b} /\ \A y \in {a, b} : Min({a, b}) =< y
    BY <1>1 DEF Min
  <1> QED
    BY <1>2

\* A page ends after its start unless the list does, and not after the list.
LEMMA PageEndBounds ==
    ASSUME NEW total \in Nat, NEW start \in Nat, start <= total
    PROVE  PageEnd(start, total) \in Nat /\ PageEnd(start, total) <= total
  <1>1. Limit \in Nat \ {0}
    BY CursorAssumption
  <1>2. total - start \in Int /\ Limit \in Int
    BY <1>1
  <1>3. Min({Limit, total - start}) = IF Limit <= total - start THEN Limit ELSE total - start
    BY <1>2, MinTwo
  <1> QED
    BY <1>1, <1>3 DEF PageEnd

-----------------------------------------------------------------------------
(* What every step of the server has in common                             *)

\* Sessions are kept or made of reservations, and reservations get new numbers.
StoreMoves ==
    /\ nextId <= nextId'
    /\ committed <= committed' /\ clock <= clock'
    /\ \A s \in sessions' : \/ \E t \in sessions : t.id = s.id /\ t.gen = s.gen
                            \/ \E x \in reservations : x.id = s.id
    /\ \A x \in reservations' : x \in reservations \/ x.id = nextId

\* A request that goes on asks for the same, and is answered what it asked for.
Faithful(r) ==
    /\ pc'[r] \in Busy =>
          /\ pc[r] \in Busy
          /\ ask'[r].query = ask[r].query /\ ask'[r].from = ask[r].from
          /\ ask'[r].snap = ask[r].snap
    /\ reply'[r].code = "ok" =>
          \/ reply'[r] = reply[r]
          \/ /\ pc[r] \in Busy
             /\ reply'[r].page.query = ask[r].query /\ reply'[r].page.from = ask[r].from
             /\ reply'[r].page.rows = ask[r].snap

\* A number that was given and used stays so.
LEMMA SettledKept ==
    ASSUME StoreInv, StoreInv', StoreMoves, NEW id \in Nat, NEW gen, Settled(id, gen)
    PROVE  Settled(id, gen)'
  <1>1. nextId \in Nat /\ nextId' \in Nat /\ id < nextId'
    BY DEF StoreInv, StoreMoves, Settled
  <1>2. ASSUME NEW x \in reservations' PROVE x.id # id
    BY <1>1, <1>2 DEF StoreMoves, Settled
  <1>3. ASSUME NEW s \in sessions', s.id = id PROVE s.gen = gen
    BY <1>3 DEF StoreMoves, Settled
  <1> QED
    BY <1>1, <1>2, <1>3 DEF Settled

\* So does a cursor, wherever it is.
LEMMA SoundKept ==
    ASSUME StoreInv, StoreInv', StoreMoves, NEW c, Sound(c)
    PROVE  Sound(c)'
  <1>1. CASE c = NoCursor
    BY <1>1 DEF Sound
  <1>2. CASE c \in Cursors /\ Settled(c.session, c.gen)
    <2>1. c.session \in Nat
      BY <1>2 DEF Cursors
    <2>2. Settled(c.session, c.gen)'
      BY <1>2, <2>1, SettledKept
    <2> QED
      BY <1>2, <2>2 DEF Sound
  <1> QED
    BY <1>1, <1>2 DEF Sound

\* The requests that a step leaves alone.
LEMMA ReaderKept ==
    ASSUME StoreInv, StoreInv', StoreMoves, RequestTypeOK, NEW r \in Readers, ReaderInv(r),
           pc'[r] = pc[r], ask'[r] = ask[r], ticket'[r] = ticket[r], reply'[r] = reply[r]
    PROVE  ReaderInv(r)'
  <1>1. PICK c, d, id, gen :
            c = ask[r].cursor /\ d = reply[r].next /\ id = ticket[r].id /\ gen = ask[r].snap
    OBVIOUS
  <1>2. Sound(c)' /\ Sound(d)'
    BY <1>1, SoundKept DEF ReaderInv
  <1>3. Sound(ask[r].cursor)' /\ Sound(reply[r].next)'
    BY <1>1, <1>2 DEF Sound, Settled
  <1>4. pc[r] \in {"recheck", "withdraw"} => Settled(id, gen)'
    <2>1. id \in Nat
      BY <1>1 DEF RequestTypeOK, ReservationRecords
    <2> QED
      BY <1>1, <2>1, SettledKept DEF ReaderInv
  <1>5. pc'[r] \in {"recheck", "withdraw"} => Settled(ticket[r].id, ask[r].snap)'
    BY <1>1, <1>4 DEF Settled
  <1>6. pc'[r] \in Busy =>
            /\ ask'[r].query \in Queries
            /\ ask'[r].snap \in Generations /\ ask'[r].snap <= committed'
    <2>1. committed \in Int /\ committed' \in Int /\ committed <= committed' /\ Generations \subseteq Int
      BY CursorAssumption DEF StoreInv, StoreMoves, Generations
    <2> QED
      BY <2>1 DEF ReaderInv
  <1>7. pc'[r] \in Busy \ {"slice"} => ask'[r].from <= Total(r)'
    BY DEF ReaderInv, Total
  <1>8. pc'[r] = "slice" => /\ ask'[r].cursor \in Cursors /\ ask'[r].cursor.gen = ask'[r].snap
                            /\ ask'[r].moment <= clock'
    <2>1. clock \in Nat /\ clock' \in Nat /\ clock <= clock' /\ ask[r].moment \in Nat
      BY DEF StoreInv, StoreMoves, RequestTypeOK, AskRecords
    <2> QED
      BY <2>1 DEF ReaderInv
  <1>9. reply'[r].code = "ok" => pc'[r] = "answered" /\ Whole(reply[r])'
    BY DEF ReaderInv, Whole
  <1> QED
    BY <1>3, <1>5, <1>6, <1>7, <1>8, <1>9 DEF ReaderInv

\* A step of one request.
LEMMA OneReader ==
    ASSUME StoreInv, StoreInv', StoreMoves, RequestInv, NEW r \in Readers,
           NEW p \in Busy \cup {"idle", "answered"}, NEW a \in AskRecords,
           NEW t \in ReservationRecords, NEW y \in ReplyRecords,
           pc' = [pc EXCEPT ![r] = p], ask' = [ask EXCEPT ![r] = a],
           ticket' = [ticket EXCEPT ![r] = t], reply' = [reply EXCEPT ![r] = y],
           ReaderInv(r)'
    PROVE  RequestInv' /\ \A x \in Readers \ {r} : Faithful(x)
  <1>1. RequestTypeOK /\ \A x \in Readers : ReaderInv(x)
    BY DEF RequestInv
  <1>2. RequestTypeOK'
    BY <1>1 DEF RequestTypeOK
  <1>3. ASSUME NEW x \in Readers \ {r}
        PROVE  /\ pc'[x] = pc[x] /\ ask'[x] = ask[x] /\ ticket'[x] = ticket[x]
               /\ reply'[x] = reply[x]
    BY <1>1 DEF RequestTypeOK
  <1>4. ASSUME NEW x \in Readers \ {r} PROVE ReaderInv(x)'
    BY <1>1, <1>3, ReaderKept
  <1>5. ASSUME NEW x \in Readers \ {r} PROVE Faithful(x)
    BY <1>3 DEF Faithful
  <1> QED
    BY <1>2, <1>4, <1>5 DEF RequestInv

\* The records at rest.
LEMMA AtRest ==
    /\ NoAsk \in AskRecords /\ NoTicket \in ReservationRecords /\ NoReply \in ReplyRecords
    /\ Sound(NoAsk.cursor) /\ Sound(NoReply.next) /\ NoReply.code = "none"
  <1>1. NoAsk \in AskRecords /\ NoAsk.cursor = NoCursor
    BY DEF NoAsk, AskRecords
  <1>2. NoTicket \in ReservationRecords
    BY DEF NoTicket, ReservationRecords
  <1>3. NoReply \in ReplyRecords /\ NoReply.next = NoCursor /\ NoReply.code = "none"
    BY DEF NoReply, ReplyRecords, Codes
  <1> QED
    BY <1>1, <1>2, <1>3 DEF Sound

\* A request fails.
LEMMA Failed ==
    ASSUME StoreInv, StoreInv', StoreMoves, RequestInv, NEW r \in Readers,
           NEW code \in Codes, code # "ok", Fail(r, code)
    PROVE  RequestInv' /\ \A x \in Readers : Faithful(x)
  <1> DEFINE y == [NoReply EXCEPT !.code = code]
  <1>1. y \in ReplyRecords /\ y.code = code /\ y.next = NoCursor
    BY DEF NoReply, ReplyRecords, Codes
  <1>2. /\ pc' = [pc EXCEPT ![r] = "answered"] /\ ask' = [ask EXCEPT ![r] = NoAsk]
        /\ ticket' = [ticket EXCEPT ![r] = NoTicket] /\ reply' = [reply EXCEPT ![r] = y]
    BY DEF Fail, Reply
  <1> HIDE DEF y
  <1>3. pc'[r] = "answered" /\ ask'[r] = NoAsk /\ ticket'[r] = NoTicket /\ reply'[r] = y
    BY <1>2 DEF RequestInv, RequestTypeOK
  <1>4. pc'[r] \notin Busy /\ pc'[r] \notin {"slice", "recheck", "withdraw"}
    BY <1>3 DEF Busy
  <1>5. Sound(ask[r].cursor)' /\ Sound(reply[r].next)'
    BY <1>1, <1>3 DEF Sound, NoAsk
  <1>6. ReaderInv(r)'
    BY <1>1, <1>3, <1>4, <1>5 DEF ReaderInv
  <1>7. RequestInv' /\ \A x \in Readers \ {r} : Faithful(x)
    BY <1>1, <1>2, <1>6, AtRest, OneReader
  <1>8. Faithful(r)
    BY <1>1, <1>3, <1>4 DEF Faithful
  <1> QED
    BY <1>7, <1>8

\* A request is answered with the page it asked for.
LEMMA Answered ==
    ASSUME StoreInv, StoreInv', StoreMoves, RequestInv, NEW r \in Readers, pc[r] \in Busy,
           NEW page \in Pages, NEW next \in Cursors \cup {NoCursor}, Answer(r, page, next),
           page.gen = page.rows, page.rows = ask[r].snap, page.query = ask[r].query,
           page.from = ask[r].from, Sound(next)',
           next = NoCursor => page.to = ResultSize[page.gen][page.query]
    PROVE  RequestInv' /\ \A x \in Readers : Faithful(x)
  <1> DEFINE y == [code |-> "ok", page |-> page, next |-> next]
  <1>1. y \in ReplyRecords /\ y.code = "ok" /\ y.page = page /\ y.next = next
    BY DEF ReplyRecords, Codes
  <1>2. /\ pc' = [pc EXCEPT ![r] = "answered"] /\ ask' = [ask EXCEPT ![r] = NoAsk]
        /\ ticket' = [ticket EXCEPT ![r] = NoTicket] /\ reply' = [reply EXCEPT ![r] = y]
    BY DEF Answer, Reply
  <1> HIDE DEF y
  <1>3. pc'[r] = "answered" /\ ask'[r] = NoAsk /\ ticket'[r] = NoTicket /\ reply'[r] = y
    BY <1>2 DEF RequestInv, RequestTypeOK
  <1>4. pc'[r] \notin Busy /\ pc'[r] \notin {"slice", "recheck", "withdraw"}
    BY <1>3 DEF Busy
  <1>5. Sound(ask[r].cursor)' /\ Sound(reply[r].next)'
    <2>1. ask'[r].cursor = NoCursor /\ reply'[r].next = next
      BY <1>1, <1>3 DEF NoAsk
    <2> QED
      BY <2>1 DEF Sound, Settled
  <1>6. Whole(reply[r])'
    BY <1>1, <1>3 DEF Whole
  <1>7. ReaderInv(r)'
    BY <1>3, <1>4, <1>5, <1>6 DEF ReaderInv
  <1>8. RequestInv' /\ \A x \in Readers \ {r} : Faithful(x)
    BY <1>1, <1>2, <1>7, AtRest, OneReader
  <1>9. Faithful(r)
    BY <1>1, <1>3, <1>4 DEF Faithful
  <1> QED
    BY <1>8, <1>9

\* A request goes on to another stage of the first page.
LEMMA GoesOn ==
    ASSUME StoreInv, StoreInv', StoreMoves, RequestInv, NEW r \in Readers,
           pc[r] \in Busy \ {"slice"}, NEW p \in Busy \ {"slice"}, NEW moment \in Nat,
           NEW t \in ReservationRecords, NEW code \in Codes, code # "ok",
           pc' = [pc EXCEPT ![r] = p], ask' = [ask EXCEPT ![r].moment = moment],
           ticket' = [ticket EXCEPT ![r] = t], reply' = [reply EXCEPT ![r].code = code],
           p \in {"recheck", "withdraw"} => Settled(ticket[r].id, ask[r].snap)'
    PROVE  RequestInv' /\ \A x \in Readers : Faithful(x)
  <1>1. RequestTypeOK /\ ReaderInv(r)
    BY DEF RequestInv
  <1>2. PICK a, y : a = [ask[r] EXCEPT !.moment = moment] /\ y = [reply[r] EXCEPT !.code = code]
    OBVIOUS
  <1>3. /\ a \in AskRecords /\ a.query = ask[r].query /\ a.from = ask[r].from
        /\ a.snap = ask[r].snap /\ a.cursor = ask[r].cursor
    <2>1. ask[r] \in AskRecords
      BY <1>1 DEF RequestTypeOK
    <2> QED
      BY <1>2, <2>1 DEF AskRecords
  <1>4. y \in ReplyRecords /\ y.code = code /\ y.next = reply[r].next
    <2>1. reply[r] \in ReplyRecords
      BY <1>1 DEF RequestTypeOK
    <2> QED
      BY <1>2, <2>1 DEF ReplyRecords
  <1>5. ask' = [ask EXCEPT ![r] = a] /\ reply' = [reply EXCEPT ![r] = y]
    BY <1>1, <1>2 DEF RequestTypeOK
  <1>6. pc'[r] = p /\ ask'[r] = a /\ ticket'[r] = t /\ reply'[r] = y
    BY <1>1, <1>5 DEF RequestTypeOK
  <1>7. PICK c, d : c = ask[r].cursor /\ d = reply[r].next
    OBVIOUS
  <1>8. Sound(c)' /\ Sound(d)'
    BY <1>1, <1>7, SoundKept DEF ReaderInv
  <1>9. Sound(ask[r].cursor)' /\ Sound(reply[r].next)'
    BY <1>3, <1>4, <1>6, <1>7, <1>8 DEF Sound, Settled
  <1>10. /\ ask'[r].query \in Queries
         /\ ask'[r].snap \in Generations /\ ask'[r].snap <= committed'
    <2>1. committed \in Int /\ committed' \in Int /\ committed <= committed' /\ Generations \subseteq Int
      BY CursorAssumption DEF StoreInv, StoreMoves, Generations
    <2> QED
      BY <1>1, <1>3, <1>6, <2>1 DEF ReaderInv
  <1>11. ask'[r].from <= Total(r)'
    BY <1>1, <1>3, <1>6 DEF ReaderInv, Total
  <1>12. pc'[r] \in {"recheck", "withdraw"} => Settled(ticket[r].id, ask[r].snap)'
    BY <1>6
  <1>13. ReaderInv(r)'
    BY <1>4, <1>6, <1>9, <1>10, <1>11, <1>12 DEF ReaderInv
  <1>14. RequestInv' /\ \A x \in Readers \ {r} : Faithful(x)
    <2>1. p \in Busy \cup {"idle", "answered"}
      OBVIOUS
    <2> QED
      BY <1>3, <1>4, <1>5, <1>13, <2>1, OneReader
  <1>15. Faithful(r)
    BY <1>3, <1>4, <1>6 DEF Faithful
  <1> QED
    BY <1>14, <1>15

-----------------------------------------------------------------------------
(* The session state                                                       *)

\* The two halves of CursorMemoryBounded.
Counted ==
    /\ used = Ids(sessions) /\ reserved = ReservedIds(reservations)
    /\ used + reserved <= AggregateIdCapacity
    /\ Cardinality(sessions) <= GMaxSearchSessions

Owned ==
    \A x \in reservations : \E r \in Readers :
        ticket[r] = x /\ pc[r] \in {"materialize", "publish", "release"}

\* CursorMemoryBounded is nothing but these two.
LEMMA BoundedHalves == CursorMemoryBounded <=> Counted /\ Owned
  BY DEF CursorMemoryBounded, Counted, Owned

\* What a proof needs to know of the counters.
LEMMA StoreNumbers ==
    ASSUME StoreInv, Counted
    PROVE  /\ \A s \in sessions : s.size \in Nat /\ s.id \in Nat /\ s.gen \in Generations
           /\ \A x \in reservations : x.count \in Nat /\ x.id \in Nat
           /\ used \in Nat /\ reserved \in Nat
           /\ AggregateIdCapacity \in Nat /\ GMaxSearchSessions \in Nat \ {0}
           /\ Generations \subseteq Nat
  <1>1. \A s \in sessions : s.size \in Nat /\ s.id \in Nat /\ s.gen \in Generations
    BY DEF StoreInv, SessionRecords
  <1>2. \A x \in reservations : x.count \in Nat /\ x.id \in Nat
    BY DEF StoreInv, ReservationRecords
  <1>3. IsFiniteSet(sessions) /\ IsFiniteSet(reservations)
    BY DEF StoreInv
  <1>4. used \in Nat
    BY <1>1, <1>3, IdsSplit DEF Counted
  <1>5. reserved \in Nat
    BY <1>2, <1>3, ReservedType DEF Counted
  <1>6. AggregateIdCapacity \in Nat /\ GMaxSearchSessions \in Nat \ {0} /\ Generations \subseteq Nat
    BY CursorAssumption DEF Generations
  <1> QED
    BY <1>1, <1>2, <1>4, <1>5, <1>6

\* Some of the sessions are left.
LEMMA LeftSessions ==
    ASSUME StoreInv, Counted, NEW K \in SUBSET sessions
    PROVE  /\ IsFiniteSet(K) /\ Cardinality(K) <= GMaxSearchSessions
           /\ Ids(K) \in Nat /\ Ids(K) = used - Ids(sessions \ K) /\ Ids(K) <= used
           /\ Ids(sessions \ K) \in Nat
  <1>1. IsFiniteSet(sessions) /\ Cardinality(sessions) <= GMaxSearchSessions /\ used = Ids(sessions)
    BY DEF StoreInv, Counted
  <1>2. IsFiniteSet(K) /\ Cardinality(K) <= Cardinality(sessions)
    BY <1>1, FS_Subset
  <1>3. Cardinality(K) \in Nat /\ Cardinality(sessions) \in Nat /\ GMaxSearchSessions \in Nat
    BY <1>1, <1>2, FS_CardinalityType, StoreNumbers
  <1>4. Ids(K) \in Nat /\ Ids(sessions \ K) \in Nat /\ Ids(sessions) = Ids(K) + Ids(sessions \ K)
    <2>1. \A s \in sessions : s.size \in Nat
      BY StoreNumbers
    <2> QED
      BY <1>1, <2>1, IdsSplit
  <1>5. Cardinality(K) <= GMaxSearchSessions
    BY <1>1, <1>2, <1>3
  <1> QED
    BY <1>1, <1>2, <1>4, <1>5

\* PurgeSessionsLocked and ActivateSearchSessionGenerationLocked leave counters that are
\* right for what they leave.
LEMMA ActivatedStore ==
    ASSUME StoreInv, Counted, NEW gen, NEW now,
           NEW st, st = Activated(gen, now)
    PROVE  /\ st.sessions \subseteq sessions /\ st.used = Ids(st.sessions)
           /\ st.reservations \subseteq reservations /\ st.reserved = ReservedIds(st.reservations)
           /\ st.reserved \in Nat /\ st.reserved <= reserved /\ st.used <= used
  <1> DEFINE live == Purged(sessions, now)
  <1>1. live \subseteq sessions
    BY DEF Purged
  <1> HIDE DEF live
  <1>2. reserved \in Nat /\ used \in Nat /\ reserved = ReservedIds(reservations) /\ used = Ids(sessions)
    BY StoreNumbers DEF Counted
  <1>3. CASE generation = gen
    <2>1. st = [sessions |-> live, used |-> used - Ids(sessions \ live),
                reservations |-> reservations, reserved |-> reserved]
      BY <1>3 DEF Activated, live
    <2>2. /\ st.sessions = live /\ st.used = used - Ids(sessions \ live)
          /\ st.reservations = reservations /\ st.reserved = reserved
      BY <2>1
    <2>3. Ids(live) = used - Ids(sessions \ live) /\ Ids(live) <= used
      BY <1>1, LeftSessions
    <2> QED
      BY <1>1, <1>2, <2>2, <2>3
  <1>4. CASE generation # gen
    <2>1. st = [sessions |-> {}, used |-> used - Ids(sessions), reservations |-> {}, reserved |-> 0]
      BY <1>4 DEF Activated, live
    <2>2. st.sessions = {} /\ st.used = used - Ids(sessions) /\ st.reservations = {} /\ st.reserved = 0
      BY <2>1
    <2>3. st.used = 0
      BY <1>2, <2>2
    <2> QED
      BY <1>2, <2>2, <2>3, IdsNone, ReservedNone
  <1> QED
    BY <1>3, <1>4

\* ... and so does every eviction after them.
LEMMA EvictedStore ==
    ASSUME StoreInv, Counted, NEW S \in SUBSET sessions, NEW K \in SUBSET S
    PROVE  /\ Ids(S) - Ids(S \ K) = Ids(K)
           /\ Ids(K) \in Nat /\ Ids(K) <= used
  <1>1. IsFiniteSet(S) /\ \A s \in S : s.size \in Nat
    <2>1. IsFiniteSet(sessions) /\ \A s \in sessions : s.size \in Nat
      BY StoreNumbers DEF StoreInv
    <2> QED
      BY <2>1, FS_Subset
  <1>2. Ids(K) \in Nat /\ Ids(S \ K) \in Nat /\ Ids(S) = Ids(K) + Ids(S \ K)
    BY <1>1, IdsSplit
  <1>3. used \in Nat /\ Ids(S) <= used
    BY StoreNumbers, LeftSessions
  <1> QED
    BY <1>2, <1>3

\* Sessions and reservations only go.
LEMMA Shrinks ==
    ASSUME StoreInv, sessions' \subseteq sessions, reservations' \subseteq reservations,
           nextId' = nextId, committed' \in Generations, committed <= committed',
           clock' \in Nat, clock <= clock'
    PROVE  StoreInv' /\ StoreMoves
  <1>1. IsFiniteSet(sessions') /\ IsFiniteSet(reservations')
    BY FS_Subset DEF StoreInv
  <1>2. /\ nextId' \in Nat /\ nextId <= nextId'
        /\ sessions' \subseteq SessionRecords /\ reservations' \subseteq ReservationRecords
    BY DEF StoreInv
  <1>3. /\ \A s \in sessions' : s.id < nextId' /\ s.size = ResultSize[s.gen][s.query]
        /\ \A x \in reservations' : x.id < nextId'
    BY DEF StoreInv
  <1>4. /\ \A s, t \in sessions' : s.id = t.id => s = t
        /\ \A x, y \in reservations' : x.id = y.id => x = y
        /\ \A s \in sessions', x \in reservations' : s.id # x.id
    BY DEF StoreInv
  <1>5. StoreInv'
    BY <1>1, <1>2, <1>3, <1>4 DEF StoreInv
  <1>6. StoreMoves
    BY <1>2 DEF StoreMoves
  <1> QED
    BY <1>5, <1>6

\* A step leaves the session state alone.
LEMMA StoreIdle ==
    ASSUME StoreInv, Counted, UNCHANGED <<committed, clock, storeVars>>
    PROVE  StoreInv' /\ StoreMoves /\ Counted'
  <1>1. /\ sessions' = sessions /\ reservations' = reservations /\ nextId' = nextId
        /\ committed' = committed /\ clock' = clock /\ used' = used /\ reserved' = reserved
    BY DEF storeVars
  <1>2. committed' \in Generations /\ committed <= committed' /\ clock' \in Nat /\ clock <= clock'
    BY <1>1, StoreNumbers DEF StoreInv
  <1> QED
    BY <1>1, <1>2, Shrinks DEF Counted

-----------------------------------------------------------------------------
(* The steps of a page                                                     *)

ServerInv == StoreInv /\ Counted /\ Owned /\ RequestInv

GoodStep == ServerInv' /\ StoreMoves /\ \A x \in Readers : Faithful(x)

\* The owners of the reservations, when one request with another ticket moves.
LEMMA OwnersKept ==
    ASSUME RequestInv, Owned, NEW r \in Readers, NEW p, NEW t,
           pc' = [pc EXCEPT ![r] = p], ticket' = [ticket EXCEPT ![r] = t],
           \A x \in reservations' :
              \/ x = t /\ p \in {"materialize", "publish", "release"}
              \/ x \in reservations /\ x # ticket[r]
              \/ x \in reservations /\ pc[r] \notin {"materialize", "publish", "release"}
    PROVE  Owned'
  <1>1. pc \in [Readers -> Busy \cup {"idle", "answered"}] /\ ticket \in [Readers -> ReservationRecords]
    BY DEF RequestInv, RequestTypeOK
  <1> SUFFICES ASSUME NEW x \in reservations'
               PROVE  \E z \in Readers :
                         ticket'[z] = x /\ pc'[z] \in {"materialize", "publish", "release"}
    BY DEF Owned
  <1>2. CASE x = t /\ p \in {"materialize", "publish", "release"}
    BY <1>1, <1>2
  <1>3. CASE x \in reservations /\ (x # ticket[r] \/ pc[r] \notin {"materialize", "publish", "release"})
    <2>1. PICK z \in Readers : ticket[z] = x /\ pc[z] \in {"materialize", "publish", "release"}
      BY <1>3 DEF Owned
    <2>2. z # r
      BY <1>3, <2>1
    <2> QED
      BY <1>1, <2>1, <2>2
  <1> QED
    BY <1>2, <1>3

\* The session a request asks room for has a Nat of ids.
LEMMA TotalNat ==
    ASSUME RequestInv, NEW r \in Readers, pc[r] \in Busy
    PROVE  Total(r) \in Nat /\ ask[r].query \in Queries /\ ask[r].snap \in Generations
  <1>1. ask[r].query \in Queries /\ ask[r].snap \in Generations
    BY DEF RequestInv, ReaderInv
  <1>2. ResultSize[ask[r].snap] \in [Queries -> Nat]
    BY <1>1, CursorAssumption, ElementOfSeq DEF Generations
  <1> QED
    BY <1>1, <1>2 DEF Total

\* ReserveSearchSessionIds, with its three ways out.
LEMMA ReserveStep ==
    ASSUME ServerInv, NEW r \in Readers, ReserveSearchSessionIds(r)
    PROVE  GoodStep
  <1> DEFINE st == Activated(ask[r].snap, clock)
             count == Total(r)
             new == [id |-> nextId, gen |-> ask[r].snap, count |-> count]
  <1>0. StoreInv /\ Counted /\ Owned /\ RequestInv /\ committed' = committed /\ clock' = clock
    BY DEF ServerInv, ReserveSearchSessionIds
  <1>1. pc[r] = "reserve" /\ pc[r] \in Busy
    BY DEF ReserveSearchSessionIds, Busy
  <1>2. /\ committed' \in Generations /\ committed <= committed' /\ clock' \in Nat /\ clock <= clock'
        /\ nextId \in Nat
    BY <1>0, StoreNumbers DEF StoreInv
  <1>3. /\ count \in Nat /\ ask[r].snap \in Nat /\ ask[r] \in AskRecords
        /\ pc \in [Readers -> Busy \cup {"idle", "answered"}]
        /\ ask \in [Readers -> AskRecords] /\ ticket \in [Readers -> ReservationRecords]
        /\ reply \in [Readers -> ReplyRecords]
    <2>1. RequestTypeOK
      BY <1>0 DEF RequestInv
    <2>2. ask[r] \in AskRecords
      BY <2>1 DEF RequestTypeOK
    <2>3. ask[r].snap \in Nat
      BY <2>2 DEF AskRecords
    <2>4. count \in Nat
      BY <1>0, <1>1, TotalNat
    <2> QED
      BY <2>1, <2>2, <2>3, <2>4 DEF RequestTypeOK
  <1> HIDE DEF count
  <1>4. new \in ReservationRecords /\ new.id = nextId /\ new.count = count
    BY <1>2, <1>3 DEF ReservationRecords
  <1>5. CASE ~SameCatalog(r)
    <2>1. Fail(r, "catalog_snapshot_changed") /\ UNCHANGED storeVars
      BY <1>5 DEF ReserveSearchSessionIds
    <2>2. StoreInv' /\ StoreMoves /\ Counted'
      BY <1>0, <2>1, StoreIdle
    <2>3. "catalog_snapshot_changed" \in Codes /\ "catalog_snapshot_changed" # "ok"
      BY DEF Codes
    <2>4. RequestInv' /\ \A x \in Readers : Faithful(x)
      BY <1>0, <2>1, <2>2, <2>3, Failed
    <2>5. Owned'
      BY <1>0, <1>1, <2>1, OwnersKept DEF Fail, Reply, storeVars
    <2> QED
      BY <2>2, <2>4, <2>5 DEF GoodStep, ServerInv
  <1>6. CASE SameCatalog(r)
    <2> DEFINE left(K) == st.used - Ids(st.sessions \ K)
               fits(K) == /\ count <= PerSessionIdCapacity
                          /\ left(K) + st.reserved + count <= AggregateIdCapacity
    <2>1. PICK K \in IF count > PerSessionIdCapacity THEN {st.sessions}
                     ELSE AfterEviction(st, st.reserved, count) :
             /\ sessions' = K /\ used' = left(K)
             /\ reservations' = IF fits(K) THEN st.reservations \cup {new} ELSE st.reservations
             /\ reserved' = IF fits(K) THEN st.reserved + count ELSE st.reserved
             /\ nextId' = IF fits(K) THEN nextId + 1 ELSE nextId
             /\ IF fits(K)
                THEN /\ pc' = [pc EXCEPT ![r] = "materialize"]
                     /\ ticket' = [ticket EXCEPT ![r] = new]
                     /\ UNCHANGED <<ask, reply>>
                ELSE Fail(r, "catalog_cursor_capacity_exceeded")
      BY <1>6 DEF ReserveSearchSessionIds, count
    <2>2. K \subseteq st.sessions
      BY <2>1 DEF AfterEviction
    <2>3. /\ st.reservations \subseteq reservations /\ st.reserved = ReservedIds(st.reservations)
          /\ st.reserved \in Nat /\ st.reserved <= reserved
      <3>1. PICK s0, gen, now : s0 = st /\ gen = ask[r].snap /\ now = clock
        OBVIOUS
      <3>2. s0 = Activated(gen, now)
        BY <3>1
      <3> HIDE DEF st
      <3>3. /\ s0.reservations \subseteq reservations
            /\ s0.reserved = ReservedIds(s0.reservations)
            /\ s0.reserved \in Nat /\ s0.reserved <= reserved
        BY <1>0, <3>2, ActivatedStore
      <3> QED
        BY <3>1, <3>3
    <2>4. K \subseteq sessions /\ left(K) = Ids(K) /\ Ids(K) \in Nat /\ Ids(K) <= used
      <3>1. PICK s0, gen, now, S : /\ s0 = st /\ gen = ask[r].snap /\ now = clock
                                   /\ S = st.sessions
        OBVIOUS
      <3>2. s0 = Activated(gen, now)
        BY <3>1
      <3> HIDE DEF st
      <3>3. S \in SUBSET sessions /\ s0.used = Ids(S)
        BY <1>0, <3>1, <3>2, ActivatedStore
      <3>4. Ids(S) - Ids(S \ K) = Ids(K) /\ Ids(K) \in Nat /\ Ids(K) <= used
        BY <1>0, <2>2, <3>1, <3>3, EvictedStore
      <3> QED
        BY <2>2, <3>1, <3>3, <3>4
    <2>5. Cardinality(K) <= GMaxSearchSessions /\ IsFiniteSet(K)
      BY <1>0, <2>4, LeftSessions
    <2>6. /\ used \in Nat /\ reserved \in Nat /\ AggregateIdCapacity \in Nat
          /\ used + reserved <= AggregateIdCapacity
      BY <1>0, StoreNumbers DEF Counted
    <2> HIDE DEF st, left, new
    <2>7. CASE ~fits(K)
      <3>1. StoreInv' /\ StoreMoves
        BY <1>0, <1>2, <2>1, <2>3, <2>4, <2>7, Shrinks
      <3>2. Counted'
        BY <2>1, <2>3, <2>4, <2>5, <2>6, <2>7 DEF Counted
      <3>3. Fail(r, "catalog_cursor_capacity_exceeded")
        BY <2>1, <2>7
      <3>4. "catalog_cursor_capacity_exceeded" \in Codes /\ "catalog_cursor_capacity_exceeded" # "ok"
        BY DEF Codes
      <3>5. RequestInv' /\ \A x \in Readers : Faithful(x)
        BY <1>0, <3>1, <3>3, <3>4, Failed
      <3>6. Owned'
        <4>1. reservations' \subseteq reservations
          BY <2>1, <2>3, <2>7
        <4> QED
          BY <1>0, <1>1, <3>3, <4>1, OwnersKept DEF Fail, Reply
      <3> QED
        BY <3>1, <3>2, <3>5, <3>6 DEF GoodStep, ServerInv
    <2>8. CASE fits(K)
      <3>1. /\ sessions' = K /\ used' = Ids(K) /\ nextId' = nextId + 1
            /\ reservations' = st.reservations \cup {new} /\ reserved' = st.reserved + count
            /\ pc' = [pc EXCEPT ![r] = "materialize"] /\ ticket' = [ticket EXCEPT ![r] = new]
            /\ ask' = ask /\ reply' = reply
        BY <2>1, <2>4, <2>8
      <3>2. \A x \in st.reservations : x.id \in Nat /\ x.id < nextId /\ x.count \in Nat
        BY <1>0, <2>3, StoreNumbers DEF StoreInv
      <3>3. new \notin st.reservations
        BY <1>2, <1>4, <3>2
      <3>4. IsFiniteSet(st.reservations) /\ IsFiniteSet(reservations')
        <4>1. IsFiniteSet(st.reservations)
          BY <1>0, <2>3, FS_Subset DEF StoreInv
        <4> QED
          BY <3>1, <4>1, FS_AddElement
      <3>5. /\ \A s \in sessions' : s \in sessions /\ s.id \in Nat /\ s.id < nextId
            /\ \A x \in reservations' : x \in reservations \/ x = new
        BY <1>0, <2>3, <2>4, <3>1, StoreNumbers DEF StoreInv
      <3>6. StoreInv'
        <4>1. sessions' \subseteq SessionRecords /\ reservations' \subseteq ReservationRecords
          BY <1>0, <1>4, <3>5 DEF StoreInv
        <4>2. \A s \in sessions' : s.id < nextId' /\ s.size = ResultSize[s.gen][s.query]
          BY <1>0, <1>2, <3>1, <3>5 DEF StoreInv
        <4>3. \A x \in reservations' : x.id < nextId'
          BY <1>2, <1>4, <3>1, <3>2
        <4>4. \A s, t \in sessions' : s.id = t.id => s = t
          BY <1>0, <3>5 DEF StoreInv
        <4>5. \A x, y \in reservations' : x.id = y.id => x = y
          BY <1>0, <1>2, <1>4, <2>3, <3>1, <3>2 DEF StoreInv
        <4>6. \A s \in sessions', x \in reservations' : s.id # x.id
          BY <1>0, <1>2, <1>4, <3>5 DEF StoreInv
        <4>7. nextId' \in Nat
          BY <1>2, <3>1
        <4> QED
          BY <1>2, <2>5, <3>1, <3>4, <4>1, <4>2, <4>3, <4>4, <4>5, <4>6, <4>7 DEF StoreInv
      <3>7. StoreMoves
        BY <1>2, <1>4, <3>1, <3>5 DEF StoreMoves
      <3>8. Counted'
        <4>1. ReservedIds(st.reservations \cup {new}) = ReservedIds(st.reservations) + new.count
          BY <1>3, <1>4, <3>2, <3>3, <3>4, ReservedAdd
        <4>2. used' + reserved' <= AggregateIdCapacity
          BY <1>3, <2>3, <2>4, <2>6, <2>8, <3>1
        <4> QED
          BY <1>4, <2>3, <2>5, <3>1, <4>1, <4>2 DEF Counted
      <3>9. Owned'
        BY <1>0, <1>1, <2>3, <3>1, OwnersKept
      <3>10. RequestInv' /\ \A x \in Readers : Faithful(x)
        <4>1. reply[r].code \in Codes /\ reply[r].code # "ok"
          BY <1>0, <1>1, <1>3 DEF RequestInv, ReaderInv, ReplyRecords
        <4>2. PICK moment, code : moment = ask[r].moment /\ code = reply[r].code
          OBVIOUS
        <4>3. ask' = [ask EXCEPT ![r].moment = moment] /\ reply' = [reply EXCEPT ![r].code = code]
          BY <1>3, <3>1, <4>2 DEF AskRecords, ReplyRecords
        <4>4. moment \in Nat
          BY <1>3, <4>2 DEF AskRecords
        <4>5. "materialize" \in Busy \ {"slice"} /\ pc[r] \in Busy \ {"slice"}
          BY <1>1 DEF Busy
        <4> QED
          BY <1>0, <1>4, <3>1, <3>6, <3>7, <4>1, <4>2, <4>3, <4>4, <4>5, GoesOn
      <3> QED
        BY <3>6, <3>7, <3>8, <3>9, <3>10 DEF GoodStep, ServerInv
    <2> QED
      BY <2>7, <2>8
  <1> QED
    BY <1>5, <1>6

\* What the stages after the reservation know of their request.
LEMMA StageTypes ==
    ASSUME ServerInv, NEW r \in Readers, pc[r] \in Busy
    PROVE  /\ StoreInv /\ Counted /\ Owned /\ RequestInv
           /\ pc \in [Readers -> Busy \cup {"idle", "answered"}]
           /\ ask \in [Readers -> AskRecords] /\ ticket \in [Readers -> ReservationRecords]
           /\ reply \in [Readers -> ReplyRecords]
           /\ ask[r].snap \in Generations /\ ask[r].query \in Queries
           /\ ask[r].moment \in Nat /\ ask[r].from \in Nat
           /\ ticket[r].id \in Nat /\ ticket[r].count \in Nat /\ Total(r) \in Nat
           /\ reply[r].code \in Codes /\ reply[r].code # "ok"
  <1>1. StoreInv /\ Counted /\ Owned /\ RequestInv /\ RequestTypeOK
    BY DEF ServerInv, RequestInv
  <1>2. ask[r] \in AskRecords /\ ticket[r] \in ReservationRecords /\ reply[r] \in ReplyRecords
    BY <1>1 DEF RequestTypeOK
  <1>3. /\ ask[r].moment \in Nat /\ ask[r].from \in Nat
        /\ ticket[r].id \in Nat /\ ticket[r].count \in Nat /\ reply[r].code \in Codes
    BY <1>2 DEF AskRecords, ReservationRecords, ReplyRecords
  <1>4. reply[r].code # "ok"
    <2>1. pc[r] # "answered" /\ ReaderInv(r)
      BY <1>1 DEF Busy, RequestInv
    <2> QED
      BY <2>1 DEF ReaderInv
  <1> QED
    BY <1>1, <1>3, <1>4, TotalNat DEF RequestTypeOK

\* The ids are read, or the request unwinds with its ticket.
LEMMA MaterializeStep ==
    ASSUME ServerInv, NEW r \in Readers, Materialize(r)
    PROVE  GoodStep
  <1>1. pc[r] = "materialize" /\ pc[r] \in Busy \ {"slice"} /\ pc[r] \in Busy
    BY DEF Materialize, Busy
  <1>2. /\ StoreInv /\ Counted /\ Owned /\ RequestInv
        /\ pc \in [Readers -> Busy \cup {"idle", "answered"}]
        /\ ask \in [Readers -> AskRecords] /\ ticket \in [Readers -> ReservationRecords]
        /\ reply \in [Readers -> ReplyRecords]
        /\ ask[r].moment \in Nat /\ reply[r].code \in Codes /\ reply[r].code # "ok"
    BY <1>1, StageTypes
  <1>3. StoreInv' /\ StoreMoves /\ Counted' /\ reservations' = reservations /\ ticket' = ticket
    BY <1>2, StoreIdle DEF Materialize, storeVars
  <1>4. PICK p, moment, code, t :
          /\ p \in {"publish", "release"} /\ moment \in Nat /\ code \in Codes /\ code # "ok"
          /\ t = ticket[r]
          /\ pc' = [pc EXCEPT ![r] = p] /\ ask' = [ask EXCEPT ![r].moment = moment]
          /\ reply' = [reply EXCEPT ![r].code = code]
    <2>1. CASE pc' = [pc EXCEPT ![r] = "publish"] /\ ask' = [ask EXCEPT ![r].moment = clock] /\ reply' = reply
      <3>1. reply' = [reply EXCEPT ![r].code = reply[r].code] /\ clock \in Nat
        BY <1>2, <2>1 DEF ReplyRecords, StoreInv
      <3> QED
        BY <1>2, <2>1, <3>1
    <2>2. CASE Unwind(r, "release", "failed") /\ ask' = ask
      <3>1. ask' = [ask EXCEPT ![r].moment = ask[r].moment]
        BY <1>2, <2>2 DEF AskRecords
      <3>2. "failed" \in Codes
        BY DEF Codes
      <3> QED
        BY <1>2, <2>2, <3>1, <3>2 DEF Unwind
    <2> QED
      BY <2>1, <2>2 DEF Materialize
  <1>5. ticket' = [ticket EXCEPT ![r] = t] /\ t \in ReservationRecords
    BY <1>2, <1>3, <1>4
  <1>6. RequestInv' /\ \A x \in Readers : Faithful(x)
    <2>1. p \in Busy \ {"slice"} /\ p \notin {"recheck", "withdraw"}
      BY <1>4 DEF Busy
    <2> QED
      BY <1>1, <1>2, <1>3, <1>4, <1>5, <2>1, GoesOn
  <1>7. Owned'
    <2>1. \A x \in reservations' : x = t \/ (x \in reservations /\ x # ticket[r])
      BY <1>3, <1>4
    <2> QED
      BY <1>2, <1>4, <1>5, <2>1, OwnersKept
  <1> QED
    BY <1>3, <1>6, <1>7 DEF GoodStep, ServerInv

\* The reservation is given back, if a new generation has not done so before.
LEMMA ReleaseStep ==
    ASSUME ServerInv, NEW r \in Readers, ReleaseSearchSessionReservation(r)
    PROVE  GoodStep
  <1>1. pc[r] = "release" /\ pc[r] \in Busy
    BY DEF ReleaseSearchSessionReservation, Busy
  <1>2. /\ StoreInv /\ Counted /\ Owned /\ RequestInv
        /\ reply[r].code \in Codes /\ reply[r].code # "ok"
    BY <1>1, StageTypes
  <1>3. /\ sessions' = sessions /\ reservations' = reservations \ {ticket[r]} /\ nextId' = nextId
        /\ committed' = committed /\ clock' = clock /\ used' = used
        /\ reserved' = IF ticket[r] \in reservations THEN reserved - ticket[r].count ELSE reserved
        /\ Fail(r, reply[r].code)
    BY DEF ReleaseSearchSessionReservation
  <1>4. StoreInv' /\ StoreMoves
    <2>1. committed' \in Generations /\ committed <= committed' /\ clock' \in Nat /\ clock <= clock'
      BY <1>2, <1>3, StoreNumbers DEF StoreInv
    <2> QED
      BY <1>2, <1>3, <2>1, Shrinks
  <1>5. Counted'
    <2>1. /\ used \in Nat /\ reserved \in Nat /\ AggregateIdCapacity \in Nat
          /\ IsFiniteSet(reservations) /\ \A x \in reservations : x.count \in Nat
      BY <1>2, StoreNumbers DEF StoreInv
    <2>2. CASE ticket[r] \in reservations
      <3>1. PICK t : t = ticket[r]
        OBVIOUS
      <3>2. ReservedIds(reservations \ {t}) = ReservedIds(reservations) - t.count /\ t.count \in Nat
        BY <2>1, <2>2, <3>1, ReservedRemove
      <3> QED
        BY <1>2, <1>3, <2>1, <2>2, <3>1, <3>2 DEF Counted
    <2>3. CASE ticket[r] \notin reservations
      <3>1. reservations' = reservations /\ reserved' = reserved
        BY <1>3, <2>3
      <3> QED
        BY <1>2, <1>3, <3>1 DEF Counted
    <2> QED
      BY <2>2, <2>3
  <1>6. PICK code : code = reply[r].code
    OBVIOUS
  <1>7. RequestInv' /\ \A x \in Readers : Faithful(x)
    BY <1>2, <1>3, <1>4, <1>6, Failed
  <1>8. Owned'
    BY <1>2, <1>3, OwnersKept DEF Fail, Reply
  <1> QED
    BY <1>4, <1>5, <1>7, <1>8 DEF GoodStep, ServerInv

\* The session of a withdrawn page goes with its ids.
LEMMA RemoveStep ==
    ASSUME ServerInv, NEW r \in Readers, RemoveSearchSession(r)
    PROVE  GoodStep
  <1> DEFINE gone == {s \in sessions : s.id = ticket[r].id}
  <1>1. pc[r] = "withdraw" /\ pc[r] \in Busy
    BY DEF RemoveSearchSession, Busy
  <1>2. /\ StoreInv /\ Counted /\ Owned /\ RequestInv
        /\ reply[r].code \in Codes /\ reply[r].code # "ok"
    BY <1>1, StageTypes
  <1>3. /\ sessions' = sessions \ gone /\ reservations' = reservations /\ nextId' = nextId
        /\ committed' = committed /\ clock' = clock /\ used' = used - Ids(gone)
        /\ reserved' = reserved /\ Fail(r, reply[r].code)
    BY DEF RemoveSearchSession
  <1>4. StoreInv' /\ StoreMoves
    <2>1. committed' \in Generations /\ committed <= committed' /\ clock' \in Nat /\ clock <= clock'
      BY <1>2, <1>3, StoreNumbers DEF StoreInv
    <2> QED
      BY <1>2, <1>3, <2>1, Shrinks
  <1>5. Counted'
    <2>1. sessions \ gone \in SUBSET sessions /\ sessions \ (sessions \ gone) = gone
      OBVIOUS
    <2> HIDE DEF gone
    <2>2. PICK K : K = sessions \ gone
      OBVIOUS
    <2>3. /\ Cardinality(K) <= GMaxSearchSessions /\ Ids(K) \in Nat
          /\ Ids(K) = used - Ids(sessions \ K) /\ Ids(K) <= used
      BY <1>2, <2>1, <2>2, LeftSessions
    <2>4. /\ used \in Nat /\ reserved \in Nat /\ AggregateIdCapacity \in Nat
          /\ reserved = ReservedIds(reservations) /\ used + reserved <= AggregateIdCapacity
      BY <1>2, StoreNumbers DEF Counted
    <2>5. used' = Ids(sessions')
      BY <1>3, <2>1, <2>2, <2>3
    <2>6. used' + reserved' <= AggregateIdCapacity
      BY <1>3, <2>2, <2>3, <2>4, <2>5
    <2> QED
      BY <1>3, <2>2, <2>3, <2>4, <2>5, <2>6 DEF Counted
  <1>6. PICK code : code = reply[r].code
    OBVIOUS
  <1>7. RequestInv' /\ \A x \in Readers : Faithful(x)
    BY <1>2, <1>3, <1>4, <1>6, Failed
  <1>8. Owned'
    BY <1>1, <1>2, <1>3, OwnersKept DEF Fail, Reply
  <1> QED
    BY <1>4, <1>5, <1>7, <1>8 DEF GoodStep, ServerInv

\* A cursor is never mistaken for the absence of one.
LEMMA CursorIsOne == NoCursor \notin Cursors
  BY CursorAssumption DEF Cursors

\* The cursor that is handed out is sound.
LEMMA RecheckStep ==
    ASSUME ServerInv, NEW r \in Readers, Recheck(r)
    PROVE  GoodStep
  <1>1. pc[r] = "recheck" /\ pc[r] \in Busy /\ pc[r] \in Busy \ {"slice"}
    BY DEF Recheck, Busy
  <1>2. /\ StoreInv /\ Counted /\ Owned /\ RequestInv
        /\ pc \in [Readers -> Busy \cup {"idle", "answered"}]
        /\ ask \in [Readers -> AskRecords] /\ ticket \in [Readers -> ReservationRecords]
        /\ reply \in [Readers -> ReplyRecords]
        /\ ask[r].snap \in Generations /\ ask[r].query \in Queries
        /\ ask[r].moment \in Nat /\ ask[r].from \in Nat /\ ticket[r].id \in Nat /\ Total(r) \in Nat
    BY <1>1, StageTypes
  <1>3. /\ StoreInv' /\ StoreMoves /\ Counted' /\ reservations' = reservations
        /\ UNCHANGED <<sessions, nextId>>
    BY <1>2, StoreIdle DEF Recheck, storeVars
  <1>4. Settled(ticket[r].id, ask[r].snap) /\ ask[r].from <= Total(r)
    BY <1>1, <1>2 DEF RequestInv, ReaderInv
  <1> DEFINE end == PageEnd(ask[r].from, Total(r))
             page == Page(ask[r].snap, ask[r].snap, ask[r].query, ask[r].from, end)
             next == [session |-> ticket[r].id, gen |-> ask[r].snap, query |-> ask[r].query, at |-> end]
  <1>5. CASE Answer(r, page, next)
    <2>1. end \in Nat
      BY <1>2, <1>4, PageEndBounds
    <2>2. ask[r].snap \in Nat
      BY <1>2, StoreNumbers
    <2> HIDE DEF end
    <2>3. next \in Cursors /\ next.session = ticket[r].id /\ next.gen = ask[r].snap
      BY <1>2, <2>1, <2>2 DEF Cursors
    <2>4. /\ page \in Pages /\ page.rows = ask[r].snap /\ page.gen = page.rows
          /\ page.query = ask[r].query /\ page.from = ask[r].from
      BY <1>2, <2>1 DEF Page, Pages
    <2> HIDE DEF page, next
    <2>5. PICK p0, n0 : p0 = page /\ n0 = next
      OBVIOUS
    <2>6. Sound(n0)'
      <3>1. PICK id, gen : id = ticket[r].id /\ gen = ask[r].snap
        OBVIOUS
      <3>2. Settled(id, gen)'
        BY <1>2, <1>3, <1>4, <3>1, SettledKept
      <3> QED
        BY <2>3, <2>5, <3>1, <3>2 DEF Sound
    <2>7. Answer(r, p0, n0) /\ p0 \in Pages /\ n0 \in Cursors \cup {NoCursor} /\ n0 # NoCursor
      BY <1>5, <2>3, <2>4, <2>5, CursorIsOne
    <2>8. /\ p0.gen = p0.rows /\ p0.rows = ask[r].snap /\ p0.query = ask[r].query
          /\ p0.from = ask[r].from
      BY <2>4, <2>5
    <2>9. RequestInv' /\ \A x \in Readers : Faithful(x)
      BY <1>1, <1>2, <1>3, <2>6, <2>7, <2>8, Answered
    <2>10. Owned'
      BY <1>1, <1>2, <1>3, <1>5, OwnersKept DEF Answer, Reply
    <2> QED
      BY <1>3, <2>9, <2>10 DEF GoodStep, ServerInv
  <1>6. CASE /\ Unwind(r, "withdraw", IF SameCatalog(r) THEN "failed" ELSE "catalog_snapshot_changed")
             /\ UNCHANGED <<ask, ticket>>
    <2>1. PICK code, moment, t :
            /\ code = (IF SameCatalog(r) THEN "failed" ELSE "catalog_snapshot_changed")
            /\ moment = ask[r].moment /\ t = ticket[r]
      OBVIOUS
    <2>2. code \in Codes /\ code # "ok"
      BY <2>1 DEF Codes
    <2>3. /\ pc' = [pc EXCEPT ![r] = "withdraw"] /\ reply' = [reply EXCEPT ![r].code = code]
          /\ ask' = [ask EXCEPT ![r].moment = moment] /\ ticket' = [ticket EXCEPT ![r] = t]
      BY <1>2, <1>6, <2>1 DEF Unwind, AskRecords
    <2>4. t \in ReservationRecords /\ moment \in Nat
      BY <1>2, <2>1
    <2>5. Settled(ticket[r].id, ask[r].snap)'
      BY <1>3, <1>4, <1>6 DEF Settled
    <2>6. "withdraw" \in Busy \ {"slice"}
      BY DEF Busy
    <2>7. RequestInv' /\ \A x \in Readers : Faithful(x)
      BY <1>1, <1>2, <1>3, <2>2, <2>3, <2>4, <2>5, <2>6, GoesOn
    <2>8. Owned'
      BY <1>1, <1>2, <1>3, <2>3, OwnersKept
    <2> QED
      BY <1>3, <2>7, <2>8 DEF GoodStep, ServerInv
  <1> QED
    BY <1>5, <1>6 DEF Recheck

\* A slice changes the access time of one session, or drops what is dead.
LEMMA SliceStep ==
    ASSUME ServerInv, NEW r \in Readers, ReadSearchSessionSlice(r)
    PROVE  GoodStep
  <1> DEFINE live == Purged(sessions, ask[r].moment)
             found == {s \in live : s.id = ask[r].cursor.session}
             fresh == {s \in found : s.gen = ask[r].snap}
             valid == {s \in fresh : /\ s.query = ask[r].query
                                     /\ s.first <= ask[r].from /\ ask[r].from < s.size}
             kept == IF fresh = {} THEN live \ found ELSE live
  <1>1. pc[r] = "slice" /\ pc[r] \in Busy
    BY DEF ReadSearchSessionSlice, Busy
  <1>2. /\ StoreInv /\ Counted /\ Owned /\ RequestInv
        /\ pc \in [Readers -> Busy \cup {"idle", "answered"}]
        /\ ask \in [Readers -> AskRecords] /\ ticket \in [Readers -> ReservationRecords]
        /\ reply \in [Readers -> ReplyRecords]
        /\ ask[r].snap \in Generations /\ ask[r].query \in Queries
        /\ ask[r].moment \in Nat /\ ask[r].from \in Nat
    BY <1>1, StageTypes
  <1>3. /\ reservations' = reservations /\ nextId' = nextId /\ reserved' = reserved
        /\ committed' = committed /\ clock' = clock
    BY DEF ReadSearchSessionSlice
  <1>4. /\ committed' \in Generations /\ committed <= committed' /\ clock' \in Nat /\ clock <= clock'
    BY <1>2, <1>3, StoreNumbers DEF StoreInv
  <1>5. /\ used \in Nat /\ reserved \in Nat /\ AggregateIdCapacity \in Nat
        /\ reserved = ReservedIds(reservations) /\ used + reserved <= AggregateIdCapacity
    BY <1>2, StoreNumbers DEF Counted
  <1>6. live \subseteq sessions /\ kept \subseteq sessions
    BY DEF Purged
  <1>7. CASE valid = {}
    <2>1. PICK code : /\ code \in Codes /\ code # "ok"
                      /\ sessions' = kept /\ used' = used - Ids(sessions \ kept)
                      /\ Fail(r, code)
      <3>1. PICK code : code = (IF found = {} THEN "catalog_cursor_expired"
                                ELSE IF fresh = {} THEN "catalog_snapshot_changed"
                                ELSE "invalid_cursor")
        OBVIOUS
      <3>2. code \in Codes /\ code # "ok"
        BY <3>1 DEF Codes
      <3>3. sessions' = kept /\ used' = used - Ids(sessions \ kept) /\ Fail(r, code)
        BY <1>7, <3>1 DEF ReadSearchSessionSlice
      <3> QED
        BY <3>2, <3>3
    <2> HIDE DEF kept
    <2>2. PICK K : K = kept
      OBVIOUS
    <2>3. /\ Cardinality(K) <= GMaxSearchSessions /\ Ids(K) \in Nat
          /\ Ids(K) = used - Ids(sessions \ K) /\ Ids(K) <= used
      BY <1>2, <1>6, <2>2, LeftSessions
    <2>4. StoreInv' /\ StoreMoves
      BY <1>2, <1>3, <1>4, <1>6, <2>1, Shrinks
    <2>5. Counted'
      BY <1>3, <1>5, <2>1, <2>2, <2>3 DEF Counted
    <2>6. RequestInv' /\ \A x \in Readers : Faithful(x)
      BY <1>2, <2>1, <2>4, Failed
    <2>7. Owned'
      BY <1>1, <1>2, <1>3, <2>1, OwnersKept DEF Fail, Reply
    <2> QED
      BY <2>4, <2>5, <2>6, <2>7 DEF GoodStep, ServerInv
  <1>8. CASE valid # {}
    <2> DEFINE End(s) == PageEnd(ask[r].from, s.size)
               Pg(s) == Page(ask[r].snap, s.gen, s.query, ask[r].from, End(s))
               Next(s) == IF HasMore(End(s), s.size) THEN [ask[r].cursor EXCEPT !.at = End(s)]
                          ELSE NoCursor
    <2>1. PICK s \in valid :
             /\ sessions' = (live \ valid) \cup {[s EXCEPT !.access = ask[r].moment]}
             /\ used' = used - Ids(sessions \ live)
             /\ Answer(r, Pg(s), Next(s)) \/ Fail(r, "failed")
      BY <1>8 DEF ReadSearchSessionSlice
    <2>2. /\ s \in live /\ s \in sessions /\ s.gen = ask[r].snap /\ s.query = ask[r].query
          /\ ask[r].from < s.size /\ s \in SessionRecords
          /\ s.size = ResultSize[s.gen][s.query]
      BY <1>2, <1>6 DEF StoreInv
    <2>3. PICK u : u = [s EXCEPT !.access = ask[r].moment]
      OBVIOUS
    <2>4. /\ u \in SessionRecords /\ u.id = s.id /\ u.gen = s.gen /\ u.query = s.query
          /\ u.size = s.size
      BY <1>2, <2>2, <2>3 DEF SessionRecords
    <2>5. live \ valid = live \ {s}
      BY <1>2, <1>6, <2>2 DEF StoreInv
    <2> HIDE DEF live, found, fresh, valid, kept
    <2>6. sessions' = (live \ {s}) \cup {u}
      BY <2>1, <2>3, <2>5
    <2>7. u \notin live \ {s}
      BY <1>2, <1>6, <2>2, <2>4 DEF StoreInv
    <2>8. StoreInv' /\ StoreMoves
      <3>1. IsFiniteSet(sessions')
        <4>1. IsFiniteSet(live \ {s})
          BY <1>2, <1>6, FS_Subset DEF StoreInv
        <4> QED
          BY <2>6, <4>1, FS_AddElement
      <3>2. \A z \in sessions' : /\ z \in SessionRecords
                                 /\ \E y \in sessions : /\ y.id = z.id /\ y.gen = z.gen
                                                        /\ y.size = z.size /\ y.query = z.query
        BY <1>2, <1>6, <2>2, <2>4, <2>6 DEF StoreInv
      <3>3. \A z \in sessions' : z.id < nextId' /\ z.size = ResultSize[z.gen][z.query]
        BY <1>2, <1>3, <3>2 DEF StoreInv
      <3>4. \A y, z \in sessions' : y.id = z.id => y = z
        BY <1>2, <1>6, <2>2, <2>4, <2>6 DEF StoreInv
      <3>5. \A z \in sessions', x \in reservations' : z.id # x.id
        BY <1>2, <1>3, <3>2 DEF StoreInv
      <3>6. StoreInv'
        BY <1>2, <1>3, <1>4, <3>1, <3>2, <3>3, <3>4, <3>5 DEF StoreInv
      <3>7. StoreMoves
        <4>1. nextId <= nextId'
          BY <1>2, <1>3 DEF StoreInv
        <4> QED
          BY <1>3, <1>4, <3>2, <4>1 DEF StoreMoves
      <3> QED
        BY <3>6, <3>7
    <2>9. Counted'
      <3>1. PICK A, L : A = live \ {s} /\ L = live
        OBVIOUS
      <3>2. IsFiniteSet(A) /\ s \notin A /\ u \notin A /\ L = A \cup {s} /\ sessions' = A \cup {u}
        <4>1. IsFiniteSet(A)
          BY <1>2, <1>6, <3>1, FS_Subset DEF StoreInv
        <4> QED
          BY <2>2, <2>6, <2>7, <3>1, <4>1
      <3>3. s.size \in Nat /\ u.size \in Nat /\ \A z \in A : z.size \in Nat
        BY <1>2, <1>6, <2>2, <2>4, <3>1, StoreNumbers
      <3>4. Ids(A) \in Nat /\ Ids(L) = Ids(A) + s.size /\ Ids(sessions') = Ids(A) + u.size
        <4>1. Ids(A) \in Nat /\ Ids(A \cup {s}) = Ids(A) + s.size
          BY <3>2, <3>3, IdsAdd
        <4>2. Ids(A \cup {u}) = Ids(A) + u.size
          BY <3>2, <3>3, IdsAdd
        <4> QED
          BY <3>2, <4>1, <4>2
      <3>5. Ids(L) = used - Ids(sessions \ L) /\ Ids(L) <= used /\ Cardinality(L) <= GMaxSearchSessions
        BY <1>2, <1>6, <3>1, LeftSessions
      <3>6. Cardinality(sessions') = Cardinality(L)
        BY <3>2, FS_AddElement
      <3>7. used' = Ids(sessions') /\ used' <= used /\ used' \in Nat
        BY <2>1, <2>4, <3>1, <3>3, <3>4, <3>5
      <3>8. used' + reserved' <= AggregateIdCapacity
        BY <1>3, <1>5, <3>7
      <3> QED
        BY <1>3, <1>5, <3>5, <3>6, <3>7, <3>8 DEF Counted
    <2>10. ASSUME Answer(r, Pg(s), Next(s))
           PROVE  RequestInv' /\ \A x \in Readers : Faithful(x)
      <3>1. s.size \in Nat /\ ask[r].from <= s.size
        BY <1>2, <2>2 DEF SessionRecords
      <3>2. End(s) \in Nat /\ End(s) <= s.size
        BY <1>2, <3>1, PageEndBounds
      <3>3. ask[r].cursor \in Cursors /\ Sound(ask[r].cursor)
        BY <1>1, <1>2 DEF RequestInv, ReaderInv
      <3> HIDE DEF End
      <3>4. /\ Pg(s) \in Pages /\ Pg(s).gen = Pg(s).rows /\ Pg(s).rows = ask[r].snap
            /\ Pg(s).query = ask[r].query /\ Pg(s).from = ask[r].from /\ Pg(s).to = End(s)
        BY <1>2, <2>2, <3>2 DEF Page, Pages
      <3>5. [ask[r].cursor EXCEPT !.at = End(s)] \in Cursors
        BY <3>2, <3>3 DEF Cursors
      <3>6. Next(s) \in Cursors \cup {NoCursor}
        BY <3>5
      <3>7. Next(s) = NoCursor => Pg(s).to = ResultSize[Pg(s).gen][Pg(s).query]
        BY <2>2, <3>1, <3>2, <3>4, <3>5, CursorIsOne DEF HasMore
      <3>8. Next(s) # NoCursor => /\ Next(s).session = ask[r].cursor.session
                                  /\ Next(s).gen = ask[r].cursor.gen
        BY <3>3 DEF Cursors
      <3> HIDE DEF Pg, Next
      <3>9. PICK p0, n0, c : p0 = Pg(s) /\ n0 = Next(s) /\ c = ask[r].cursor
        OBVIOUS
      <3>10. Sound(n0)'
        <4>1. Sound(c)' /\ c # NoCursor
          BY <1>2, <2>8, <3>3, <3>9, SoundKept, CursorIsOne
        <4>2. Settled(c.session, c.gen)'
          BY <4>1 DEF Sound
        <4>3. CASE n0 = NoCursor
          BY <4>3 DEF Sound
        <4>4. CASE n0 # NoCursor
          BY <3>6, <3>8, <3>9, <4>2, <4>4 DEF Sound
        <4> QED
          BY <4>3, <4>4
      <3>11. Answer(r, p0, n0) /\ p0 \in Pages /\ n0 \in Cursors \cup {NoCursor}
        BY <2>10, <3>4, <3>6, <3>9
      <3>12. /\ p0.gen = p0.rows /\ p0.rows = ask[r].snap /\ p0.query = ask[r].query
             /\ p0.from = ask[r].from
             /\ n0 = NoCursor => p0.to = ResultSize[p0.gen][p0.query]
        BY <3>4, <3>7, <3>9
      <3> QED
        BY <1>1, <1>2, <2>8, <3>10, <3>11, <3>12, Answered
    <2>11. ASSUME Fail(r, "failed")
           PROVE  RequestInv' /\ \A x \in Readers : Faithful(x)
      <3>1. "failed" \in Codes /\ "failed" # "ok"
        BY DEF Codes
      <3> QED
        BY <1>2, <2>8, <2>11, <3>1, Failed
    <2>12. Owned'
      BY <1>1, <1>2, <1>3, <2>1, OwnersKept DEF Answer, Fail, Reply
    <2> QED
      BY <2>1, <2>8, <2>9, <2>10, <2>11, <2>12 DEF GoodStep, ServerInv
  <1> QED
    BY <1>7, <1>8

\* A reservation becomes a session: the ids it gives back are replaced by the ids kept.
LEMMA PublishStep ==
    ASSUME ServerInv, NEW r \in Readers, PublishSearchSession(r)
    PROVE  GoodStep
  <1> DEFINE st == Activated(ask[r].snap, ask[r].moment)
             count == Total(r)
             others == st.reserved - ticket[r].count
             session == [id |-> ticket[r].id, gen |-> ask[r].snap, query |-> ask[r].query,
                         size |-> count, first |-> PageEnd(ask[r].from, count),
                         access |-> ask[r].moment]
  <1>1. pc[r] = "publish" /\ pc[r] \in Busy /\ pc[r] \in Busy \ {"slice"}
    BY DEF PublishSearchSession, Busy
  <1>2. /\ StoreInv /\ Counted /\ Owned /\ RequestInv
        /\ pc \in [Readers -> Busy \cup {"idle", "answered"}]
        /\ ask \in [Readers -> AskRecords] /\ ticket \in [Readers -> ReservationRecords]
        /\ reply \in [Readers -> ReplyRecords]
        /\ ask[r].snap \in Generations /\ ask[r].query \in Queries
        /\ ask[r].moment \in Nat /\ ask[r].from \in Nat
        /\ ticket[r].id \in Nat /\ ticket[r].count \in Nat /\ count \in Nat
        /\ reply[r].code \in Codes /\ reply[r].code # "ok"
    BY <1>1, StageTypes
  <1>3. /\ committed' = committed /\ clock' = clock /\ ask' = ask /\ ticket' = ticket
        /\ nextId' = nextId
    BY DEF PublishSearchSession, storeVars
  <1>4. /\ committed' \in Generations /\ committed <= committed' /\ clock' \in Nat /\ clock <= clock'
        /\ nextId \in Nat
    BY <1>2, <1>3, StoreNumbers DEF StoreInv
  <1>5. PICK t, moment : t = ticket[r] /\ moment = ask[r].moment
    OBVIOUS
  <1>6. /\ ask' = [ask EXCEPT ![r].moment = moment] /\ moment \in Nat
        /\ ticket' = [ticket EXCEPT ![r] = t] /\ t \in ReservationRecords
    BY <1>2, <1>3, <1>5 DEF AskRecords
  <1>7. session \in SessionRecords /\ session.id = t.id /\ session.gen = ask[r].snap
        /\ session.size = count /\ session.size = ResultSize[session.gen][session.query]
    <2>1. ask[r].from <= count
      BY <1>1, <1>2 DEF RequestInv, ReaderInv
    <2>2. PageEnd(ask[r].from, count) \in Nat
      BY <1>2, <2>1, PageEndBounds
    <2>3. count = ResultSize[ask[r].snap][ask[r].query]
      BY DEF Total
    <2> HIDE DEF count
    <2> QED
      BY <1>2, <1>5, <2>2, <2>3 DEF SessionRecords
  <1> HIDE DEF count
  \* The ways out: the request keeps its ticket and unwinds.
  <1>8. ASSUME NEW code \in Codes, code # "ok", Unwind(r, "release", code), StoreInv', StoreMoves,
               reservations' \subseteq reservations
        PROVE  RequestInv' /\ Owned' /\ \A x \in Readers : Faithful(x)
    <2>1. pc' = [pc EXCEPT ![r] = "release"] /\ reply' = [reply EXCEPT ![r].code = code]
      BY <1>8 DEF Unwind
    <2>2. "release" \in Busy \ {"slice"}
      BY DEF Busy
    <2>3. RequestInv' /\ \A x \in Readers : Faithful(x)
      BY <1>1, <1>2, <1>6, <1>8, <2>1, <2>2, GoesOn
    <2>4. \A x \in reservations' : x = t \/ (x \in reservations /\ x # ticket[r])
      BY <1>5, <1>8
    <2>5. Owned'
      BY <1>2, <1>6, <2>1, <2>4, OwnersKept
    <2> QED
      BY <2>3, <2>5
  <1>9. CASE ~SameCatalog(r)
    <2>1. Unwind(r, "release", "catalog_snapshot_changed") /\ UNCHANGED storeVars
      BY <1>9 DEF PublishSearchSession
    <2>2. StoreInv' /\ StoreMoves /\ Counted' /\ reservations' = reservations
      BY <1>2, <1>3, <2>1, StoreIdle DEF storeVars
    <2>3. "catalog_snapshot_changed" \in Codes /\ "catalog_snapshot_changed" # "ok"
      BY DEF Codes
    <2> QED
      BY <1>8, <2>1, <2>2, <2>3 DEF GoodStep, ServerInv
  <1>10. CASE SameCatalog(r)
    <2> DEFINE left(K) == st.used - Ids(st.sessions \ K)
               fits(K) == /\ ticket[r] \in st.reservations
                          /\ left(K) + others + count <= AggregateIdCapacity
    <2>1. PICK K \in IF ticket[r] \notin st.reservations THEN {st.sessions}
                     ELSE AfterEviction(st, others, count) :
             /\ sessions' = IF fits(K) THEN K \cup {session} ELSE K
             /\ used' = IF fits(K) THEN left(K) + count ELSE left(K)
             /\ reservations' = IF fits(K) THEN st.reservations \ {ticket[r]} ELSE st.reservations
             /\ reserved' = IF fits(K) THEN others ELSE st.reserved
             /\ IF fits(K) THEN pc' = [pc EXCEPT ![r] = "recheck"] /\ UNCHANGED reply
                ELSE Unwind(r, "release", IF ticket[r] \in st.reservations
                                          THEN "catalog_cursor_capacity_exceeded"
                                          ELSE "catalog_snapshot_changed")
      BY <1>10 DEF PublishSearchSession, count
    <2>2. /\ K \subseteq st.sessions
          /\ ticket[r] \in st.reservations => K = {} \/ Cardinality(K) < GMaxSearchSessions
      BY <2>1 DEF AfterEviction, Room
    <2>3. /\ st.reservations \subseteq reservations /\ st.reserved = ReservedIds(st.reservations)
          /\ st.reserved \in Nat /\ st.reserved <= reserved
          /\ K \subseteq sessions /\ left(K) = Ids(K) /\ Ids(K) \in Nat /\ Ids(K) <= used
      <3>1. PICK s0, gen, now, S : /\ s0 = st /\ gen = ask[r].snap /\ now = ask[r].moment
                                   /\ S = st.sessions
        OBVIOUS
      <3>2. s0 = Activated(gen, now)
        BY <3>1
      <3> HIDE DEF st
      <3>3. /\ s0.reservations \subseteq reservations
            /\ s0.reserved = ReservedIds(s0.reservations)
            /\ s0.reserved \in Nat /\ s0.reserved <= reserved
        BY <1>2, <3>2, ActivatedStore
      <3>4. S \in SUBSET sessions /\ s0.used = Ids(S)
        BY <1>2, <3>1, <3>2, ActivatedStore
      <3>5. Ids(S) - Ids(S \ K) = Ids(K) /\ Ids(K) \in Nat /\ Ids(K) <= used
        BY <1>2, <2>2, <3>1, <3>4, EvictedStore
      <3> QED
        BY <2>2, <3>1, <3>3, <3>4, <3>5
    <2>4. Cardinality(K) <= GMaxSearchSessions /\ IsFiniteSet(K)
      BY <1>2, <2>3, LeftSessions
    <2>5. /\ used \in Nat /\ reserved \in Nat /\ AggregateIdCapacity \in Nat
          /\ GMaxSearchSessions \in Nat \ {0} /\ used + reserved <= AggregateIdCapacity
      BY <1>2, StoreNumbers DEF Counted
    <2> HIDE DEF st, left, session
    <2>6. CASE ~fits(K)
      <3>1. StoreInv' /\ StoreMoves
        BY <1>2, <1>3, <1>4, <2>1, <2>3, <2>6, Shrinks
      <3>2. Counted'
        BY <2>1, <2>3, <2>4, <2>5, <2>6 DEF Counted
      <3>3. PICK code : code = (IF ticket[r] \in st.reservations THEN "catalog_cursor_capacity_exceeded"
                                ELSE "catalog_snapshot_changed")
        OBVIOUS
      <3>4. code \in Codes /\ code # "ok"
        BY <3>3 DEF Codes
      <3>5. Unwind(r, "release", code) /\ reservations' \subseteq reservations
        BY <2>1, <2>3, <2>6, <3>3
      <3> QED
        BY <1>8, <3>1, <3>2, <3>4, <3>5 DEF GoodStep, ServerInv
    <2>7. CASE fits(K)
      <3>1. /\ t \in st.reservations /\ t \in reservations /\ sessions' = K \cup {session}
            /\ used' = Ids(K) + count
            /\ reservations' = st.reservations \ {t} /\ reserved' = others
            /\ pc' = [pc EXCEPT ![r] = "recheck"] /\ reply' = reply
            /\ Ids(K) + others + count <= AggregateIdCapacity
        BY <1>5, <2>1, <2>3, <2>7
      <3>2. \A s \in K : s \in sessions /\ s.id # session.id /\ s.size \in Nat
        BY <1>2, <1>7, <2>3, <3>1, StoreNumbers DEF StoreInv
      <3>3. \A x \in reservations' : x \in reservations /\ x # t /\ x.id # session.id
        BY <1>2, <1>7, <2>3, <3>1 DEF StoreInv
      <3>4. session \notin K /\ session.id < nextId
        BY <1>2, <1>7, <3>1, <3>2 DEF StoreInv
      <3>5. StoreInv'
        <4>1. sessions' \subseteq SessionRecords /\ reservations' \subseteq ReservationRecords
          BY <1>2, <1>7, <3>1, <3>2, <3>3 DEF StoreInv
        <4>2. IsFiniteSet(sessions') /\ IsFiniteSet(reservations')
          <5>1. IsFiniteSet(K \cup {session})
            BY <2>4, FS_AddElement
          <5>2. IsFiniteSet(reservations')
            BY <1>2, <3>3, FS_Subset DEF StoreInv
          <5> QED
            BY <3>1, <5>1, <5>2
        <4>3. \A s \in sessions' : s.id < nextId' /\ s.size = ResultSize[s.gen][s.query]
          BY <1>2, <1>3, <1>7, <3>1, <3>2, <3>4 DEF StoreInv
        <4>4. \A x \in reservations' : x.id < nextId'
          BY <1>2, <1>3, <3>3 DEF StoreInv
        <4>5. \A s, z \in sessions' : s.id = z.id => s = z
          BY <1>2, <3>1, <3>2 DEF StoreInv
        <4>6. \A x, y \in reservations' : x.id = y.id => x = y
          BY <1>2, <3>3 DEF StoreInv
        <4>7. \A s \in sessions', x \in reservations' : s.id # x.id
          BY <1>2, <3>1, <3>2, <3>3 DEF StoreInv
        <4> QED
          BY <1>3, <1>4, <4>1, <4>2, <4>3, <4>4, <4>5, <4>6, <4>7 DEF StoreInv
      <3>6. StoreMoves
        <4>1. \A s \in sessions' : \/ \E z \in sessions : z.id = s.id /\ z.gen = s.gen
                                   \/ \E x \in reservations : x.id = s.id
          BY <1>7, <3>1, <3>2
        <4> QED
          BY <1>3, <1>4, <3>3, <4>1 DEF StoreMoves
      <3>7. Counted'
        <4>1. Ids(K \cup {session}) = Ids(K) + session.size
          BY <1>2, <1>7, <2>4, <3>2, <3>4, IdsAdd
        <4>2. ReservedIds(st.reservations \ {t}) = st.reserved - t.count
          <5>1. IsFiniteSet(st.reservations) /\ \A x \in st.reservations : x.count \in Nat
            BY <1>2, <2>3, FS_Subset, StoreNumbers DEF StoreInv
          <5>2. PICK R : R = st.reservations
            OBVIOUS
          <5>3. ReservedIds(R \ {t}) = ReservedIds(R) - t.count
            BY <3>1, <5>1, <5>2, ReservedRemove
          <5> QED
            BY <2>3, <5>2, <5>3
        <4>3. Cardinality(sessions') <= GMaxSearchSessions
          <5>1. Cardinality(K \cup {session}) = Cardinality(K) + 1 /\ Cardinality(K) \in Nat
            BY <2>4, <3>4, FS_AddElement, FS_CardinalityType
          <5>2. K = {} => Cardinality(K) = 0
            BY FS_EmptySet
          <5> QED
            BY <1>5, <2>2, <2>5, <3>1, <5>1, <5>2
        <4>4. others \in Int /\ used' + reserved' <= AggregateIdCapacity
          BY <1>2, <2>3, <2>5, <3>1
        <4> QED
          BY <1>5, <1>7, <3>1, <4>1, <4>2, <4>3, <4>4 DEF Counted
      <3>8. Owned'
        <4>1. \A x \in reservations' : x \in reservations /\ x # ticket[r]
          BY <1>5, <3>3
        <4> QED
          BY <1>2, <1>6, <3>1, <4>1, OwnersKept
      <3>9. RequestInv' /\ \A x \in Readers : Faithful(x)
        <4>1. PICK code : code = reply[r].code
          OBVIOUS
        <4>2. reply' = [reply EXCEPT ![r].code = code] /\ code \in Codes /\ code # "ok"
          BY <1>2, <3>1, <4>1 DEF ReplyRecords
        <4>3. Settled(ticket[r].id, ask[r].snap)'
          <5>1. \A s \in sessions' : s.id = t.id => s.gen = ask[r].snap
            BY <1>7, <3>1, <3>2
          <5>2. \A x \in reservations' : x.id # t.id
            BY <1>7, <3>3
          <5>3. t.id < nextId'
            BY <1>3, <1>7, <3>4
          <5> QED
            BY <1>3, <1>5, <5>1, <5>2, <5>3 DEF Settled
        <4>4. "recheck" \in Busy \ {"slice"}
          BY DEF Busy
        <4> QED
          BY <1>1, <1>2, <1>6, <3>1, <3>5, <3>6, <4>2, <4>3, <4>4, GoesOn
      <3> QED
        BY <3>5, <3>6, <3>7, <3>8, <3>9 DEF GoodStep, ServerInv
    <2> QED
      BY <2>6, <2>7
  <1> QED
    BY <1>9, <1>10

-----------------------------------------------------------------------------
(* The world                                                               *)

\* A new catalog is published.
LEMMA CommitStep ==
    ASSUME ServerInv, CommitCatalog
    PROVE  GoodStep
  <1>1. StoreInv /\ Counted /\ Owned /\ RequestInv
    BY DEF ServerInv
  <1>2. /\ sessions' = sessions /\ reservations' = reservations /\ nextId' = nextId
        /\ used' = used /\ reserved' = reserved /\ clock' = clock
        /\ pc' = pc /\ ask' = ask /\ ticket' = ticket /\ reply' = reply
        /\ committed' = committed + 1 /\ committed' \in Generations
    BY DEF CommitCatalog, storeVars
  <1>3. committed <= committed' /\ clock' \in Nat /\ clock <= clock'
    BY <1>1, <1>2, StoreNumbers DEF StoreInv
  <1>4. StoreInv' /\ StoreMoves
    BY <1>1, <1>2, <1>3, Shrinks
  <1>5. RequestInv'
    BY <1>1, <1>2, <1>4, ReaderKept DEF RequestInv, RequestTypeOK
  <1>6. Counted' /\ Owned' /\ \A x \in Readers : Faithful(x)
    BY <1>1, <1>2 DEF Counted, Owned, Faithful
  <1> QED
    BY <1>4, <1>5, <1>6 DEF GoodStep, ServerInv

\* Time passes.
LEMMA TickStep ==
    ASSUME ServerInv, Tick
    PROVE  GoodStep
  <1>1. StoreInv /\ Counted /\ Owned /\ RequestInv
    BY DEF ServerInv
  <1>2. /\ sessions' = sessions /\ reservations' = reservations /\ nextId' = nextId
        /\ used' = used /\ reserved' = reserved /\ clock' = clock + 1 /\ committed' = committed
        /\ pc' = pc /\ ask' = ask /\ ticket' = ticket /\ reply' = reply
    BY DEF Tick, storeVars
  <1>3. committed' \in Generations /\ committed <= committed' /\ clock' \in Nat /\ clock <= clock'
    BY <1>1, <1>2, StoreNumbers DEF StoreInv
  <1>4. StoreInv' /\ StoreMoves
    BY <1>1, <1>2, <1>3, Shrinks
  <1>5. RequestInv'
    BY <1>1, <1>2, <1>4, ReaderKept DEF RequestInv, RequestTypeOK
  <1>6. Counted' /\ Owned' /\ \A x \in Readers : Faithful(x)
    BY <1>1, <1>2 DEF Counted, Owned, Faithful
  <1> QED
    BY <1>4, <1>5, <1>6 DEF GoodStep, ServerInv

\* The empty state that a process starts with.
LEMMA NothingCounted ==
    ASSUME sessions = {}, reservations = {}, used = 0, reserved = 0
    PROVE  Counted /\ Owned
  <1>1. used = Ids(sessions) /\ reserved = ReservedIds(reservations)
    BY IdsNone, ReservedNone
  <1>2. Cardinality(sessions) = 0
    BY FS_EmptySet
  <1>3. 0 + 0 <= AggregateIdCapacity /\ 0 <= GMaxSearchSessions
    BY CursorAssumption
  <1> QED
    BY <1>1, <1>2, <1>3 DEF Counted, Owned

\* A restart empties the store; old cursors stay sound, since no number is given twice.
LEMMA RestartStep ==
    ASSUME ServerInv, Restart
    PROVE  GoodStep
  <1>1. StoreInv /\ Counted /\ Owned /\ RequestInv /\ RequestTypeOK
    BY DEF ServerInv, RequestInv
  <1>2. /\ sessions' = {} /\ reservations' = {} /\ used' = 0 /\ reserved' = 0
        /\ nextId' = nextId /\ committed' = committed /\ clock' = clock
    BY DEF Restart
  <1>3. committed' \in Generations /\ committed <= committed' /\ clock' \in Nat /\ clock <= clock'
    BY <1>1, <1>2, StoreNumbers DEF StoreInv
  <1>4. StoreInv' /\ StoreMoves
    BY <1>1, <1>2, <1>3, Shrinks
  <1>5. Counted' /\ Owned'
    <2>1. used' = Ids(sessions') /\ reserved' = ReservedIds(reservations')
      BY <1>2, IdsNone, ReservedNone
    <2>2. Cardinality(sessions') = 0
      BY <1>2, FS_EmptySet
    <2>3. 0 + 0 <= AggregateIdCapacity /\ 0 <= GMaxSearchSessions
      BY CursorAssumption
    <2> QED
      BY <1>2, <2>1, <2>2, <2>3 DEF Counted, Owned
  <1> DEFINE broken == [NoReply EXCEPT !.code = "failed"]
  <1>6. broken \in ReplyRecords /\ broken.code = "failed" /\ broken.next = NoCursor
    BY DEF NoReply, ReplyRecords, Codes
  <1> HIDE DEF broken
  <1>7. ASSUME NEW r \in Readers
        PROVE  /\ pc'[r] = (IF pc[r] = "idle" THEN "idle" ELSE "answered")
               /\ ask'[r] = NoAsk /\ ticket'[r] = NoTicket
               /\ reply'[r] = (IF pc[r] \in {"idle", "answered"} THEN reply[r] ELSE broken)
    BY DEF Restart, broken
  <1>8. RequestTypeOK'
    <2>1. /\ pc' = [r \in Readers |-> IF pc[r] = "idle" THEN "idle" ELSE "answered"]
          /\ ask' = [r \in Readers |-> NoAsk] /\ ticket' = [r \in Readers |-> NoTicket]
          /\ reply' = [r \in Readers |-> IF pc[r] \in {"idle", "answered"} THEN reply[r] ELSE broken]
      BY DEF Restart, broken
    <2>2. pc' \in [Readers -> Busy \cup {"idle", "answered"}]
      BY <2>1
    <2>3. ask' \in [Readers -> AskRecords] /\ ticket' \in [Readers -> ReservationRecords]
      BY <2>1, AtRest
    <2>4. reply' \in [Readers -> ReplyRecords]
      BY <1>1, <1>6, <2>1 DEF RequestTypeOK
    <2> QED
      BY <2>2, <2>3, <2>4 DEF RequestTypeOK
  <1>9. ASSUME NEW r \in Readers PROVE ReaderInv(r)' /\ Faithful(r)
    <2>1. pc'[r] \notin Busy /\ pc'[r] \notin {"slice", "recheck", "withdraw"}
      BY <1>7 DEF Busy
    <2>2. PICK d : d = reply[r].next
      OBVIOUS
    <2>3. Sound(d)'
      BY <1>1, <1>4, <2>2, SoundKept DEF RequestInv, ReaderInv
    <2>4. Sound(ask[r].cursor)' /\ Sound(reply[r].next)'
      <3>1. ask'[r].cursor = NoCursor /\ (reply'[r].next = NoCursor \/ reply'[r].next = d)
        BY <1>6, <1>7, <2>2 DEF NoAsk
      <3> QED
        BY <2>3, <3>1 DEF Sound, Settled
    <2>5. reply'[r].code = "ok" => reply'[r] = reply[r] /\ pc'[r] = "answered" /\ Whole(reply[r])'
      <3>1. CASE pc[r] \in {"idle", "answered"}
        BY <1>1, <1>7, <3>1 DEF RequestInv, ReaderInv, Whole
      <3>2. CASE pc[r] \notin {"idle", "answered"}
        BY <1>6, <1>7, <3>2
      <3> QED
        BY <3>1, <3>2
    <2>6. ReaderInv(r)'
      BY <2>1, <2>4, <2>5 DEF ReaderInv
    <2>7. Faithful(r)
      BY <2>1, <2>5 DEF Faithful
    <2> QED
      BY <2>6, <2>7
  <1> QED
    BY <1>4, <1>5, <1>8, <1>9 DEF GoodStep, ServerInv, RequestInv

\* Every step of the server.
LEMMA ServerSteps ==
    ASSUME ServerInv, ServerStep
    PROVE  GoodStep
  <1>1. ASSUME NEW r \in Readers, PageStep(r) PROVE GoodStep
    BY <1>1, ReserveStep, MaterializeStep, PublishStep, ReleaseStep, RecheckStep, RemoveStep,
       SliceStep DEF PageStep
  <1> QED
    BY <1>1, CommitStep, TickStep, RestartStep DEF ServerStep

-----------------------------------------------------------------------------
(* Requests and answers                                                    *)

\* A request is made: nothing but the request changes.
Asked(r) == ServerInv' /\ StoreMoves /\ \A x \in Readers \ {r} : Faithful(x)

\* A first page of the published catalog is asked for.
LEMMA BeginFirstStep ==
    ASSUME ServerInv, NEW r \in Readers, NEW q \in Queries, BeginFirstPage(r, q, 0)
    PROVE  /\ Asked(r)
           /\ pc'[r] \in Busy =>
                ask'[r].query = q /\ ask'[r].from = 0 /\ ask'[r].snap = committed
           /\ reply'[r].code = "ok" =>
                /\ reply'[r].page.query = q /\ reply'[r].page.from = 0
                /\ reply'[r].page.rows = committed
  <1> DEFINE total == ResultSize[committed][q]
             start == Min({0, total})
             end == PageEnd(start, total)
             page == Page(committed, committed, q, start, end)
             first == [NoAsk EXCEPT !.query = q, !.from = start, !.snap = committed]
  <1>1. StoreInv /\ Counted /\ Owned /\ RequestInv /\ RequestTypeOK
    BY DEF ServerInv, RequestInv
  <1>2. pc[r] = "idle" /\ UNCHANGED <<committed, clock, storeVars>>
    BY DEF BeginFirstPage
  <1>3. StoreInv' /\ StoreMoves /\ Counted' /\ reservations' = reservations
    BY <1>1, <1>2, StoreIdle DEF storeVars
  <1>4. committed \in Generations /\ committed \in Nat /\ total \in Nat
    <2>1. committed \in Generations /\ committed \in Nat
      BY <1>1, StoreNumbers DEF StoreInv
    <2>2. ResultSize[committed] \in [Queries -> Nat]
      BY <2>1, CursorAssumption, ElementOfSeq DEF Generations
    <2> QED
      BY <2>1, <2>2
  <1> HIDE DEF total
  <1>5. start = 0
    BY <1>4, MinTwo
  <1>6. end \in Nat /\ end <= total
    BY <1>4, <1>5, PageEndBounds
  <1> HIDE DEF start, end
  <1>7. CASE end >= total
    <2>1. Answer(r, page, NoCursor)
      BY <1>7 DEF BeginFirstPage, total, start, end
    <2>2. /\ page \in Pages /\ page.rows = committed /\ page.gen = committed /\ page.query = q
          /\ page.from = 0 /\ page.to = end
      BY <1>4, <1>5, <1>6 DEF Page, Pages
    <2>3. page.to = ResultSize[page.gen][page.query]
      BY <1>4, <1>6, <1>7, <2>2 DEF total
    <2> HIDE DEF page
    <2> DEFINE y == [code |-> "ok", page |-> page, next |-> NoCursor]
    <2>4. y \in ReplyRecords /\ y.code = "ok" /\ y.page = page /\ y.next = NoCursor
      BY <2>2 DEF ReplyRecords, Codes
    <2>5. /\ pc' = [pc EXCEPT ![r] = "answered"] /\ ask' = [ask EXCEPT ![r] = NoAsk]
          /\ ticket' = [ticket EXCEPT ![r] = NoTicket] /\ reply' = [reply EXCEPT ![r] = y]
      BY <2>1 DEF Answer, Reply
    <2> HIDE DEF y
    <2>6. pc'[r] = "answered" /\ ask'[r] = NoAsk /\ ticket'[r] = NoTicket /\ reply'[r] = y
      BY <1>1, <2>5 DEF RequestTypeOK
    <2>7. pc'[r] \notin Busy /\ pc'[r] \notin {"slice", "recheck", "withdraw"}
      BY <2>6 DEF Busy
    <2>8. Sound(ask[r].cursor)' /\ Sound(reply[r].next)'
      BY <2>4, <2>6 DEF Sound, NoAsk
    <2>9. Whole(reply[r])'
      BY <2>2, <2>3, <2>4, <2>6 DEF Whole
    <2>10. ReaderInv(r)'
      BY <2>6, <2>7, <2>8, <2>9 DEF ReaderInv
    <2>11. PICK y0 : y0 = y
      OBVIOUS
    <2>12. RequestInv' /\ \A x \in Readers \ {r} : Faithful(x)
      BY <1>1, <1>3, <2>4, <2>5, <2>10, <2>11, AtRest, OneReader
    <2>13. Owned'
      BY <1>1, <1>2, <1>3, <2>5, OwnersKept
    <2> QED
      BY <1>3, <2>2, <2>4, <2>6, <2>7, <2>12, <2>13 DEF Asked, ServerInv
  <1>8. CASE ~(end >= total)
    <2>1. /\ pc' = [pc EXCEPT ![r] = "reserve"] /\ ask' = [ask EXCEPT ![r] = first]
          /\ ticket' = ticket /\ reply' = reply
      BY <1>8 DEF BeginFirstPage, total, start, end
    <2>2. /\ first \in AskRecords /\ first.query = q /\ first.from = 0 /\ first.snap = committed
          /\ first.cursor = NoCursor
      BY <1>4, <1>5 DEF NoAsk, AskRecords
    <2> HIDE DEF first
    <2>3. PICK a, u, y : a = first /\ u = ticket[r] /\ y = reply[r]
      OBVIOUS
    <2>4. /\ u \in ReservationRecords /\ y \in ReplyRecords
          /\ ticket' = [ticket EXCEPT ![r] = u] /\ reply' = [reply EXCEPT ![r] = y]
          /\ ask' = [ask EXCEPT ![r] = a] /\ a \in AskRecords
      BY <1>1, <2>1, <2>2, <2>3 DEF RequestTypeOK
    <2>5. pc'[r] = "reserve" /\ ask'[r] = a /\ reply'[r] = y
      BY <1>1, <2>1, <2>4 DEF RequestTypeOK
    <2>6. reply[r].code # "ok" /\ Sound(y.next)
      BY <1>1, <1>2, <2>3 DEF RequestInv, ReaderInv
    <2>7. Sound(ask[r].cursor)' /\ Sound(reply[r].next)'
      <3>1. PICK d : d = y.next
        OBVIOUS
      <3>2. Sound(d)'
        BY <1>1, <1>3, <2>6, <3>1, SoundKept
      <3>3. ask'[r].cursor = NoCursor /\ reply'[r].next = d
        BY <2>2, <2>3, <2>5, <3>1
      <3> QED
        BY <3>2, <3>3 DEF Sound, Settled
    <2>8. ask'[r].from <= Total(r)' /\ committed' = committed
      BY <1>2, <1>4, <2>2, <2>3, <2>5 DEF Total, total
    <2>9. ReaderInv(r)'
      BY <1>4, <2>2, <2>3, <2>5, <2>6, <2>7, <2>8 DEF ReaderInv
    <2>10. "reserve" \in Busy \cup {"idle", "answered"}
      BY DEF Busy
    <2>11. RequestInv' /\ \A x \in Readers \ {r} : Faithful(x)
      BY <1>1, <1>3, <2>1, <2>4, <2>9, <2>10, OneReader
    <2>12. Owned'
      BY <1>1, <1>2, <1>3, <2>1, <2>4, OwnersKept
    <2> QED
      BY <1>3, <2>2, <2>3, <2>5, <2>6, <2>11, <2>12 DEF Asked, ServerInv
  <1> QED
    BY <1>7, <1>8

\* A later page is asked for.
LEMMA BeginNextStep ==
    ASSUME ServerInv, NEW r \in Readers, NEW q \in Queries, NEW c \in Cursors, Sound(c),
           BeginNextPage(r, q, c)
    PROVE  /\ Asked(r)
           /\ pc'[r] \in Busy => ask'[r].query = q
           /\ reply'[r].code # "ok"
  <1>1. StoreInv /\ Counted /\ Owned /\ RequestInv /\ RequestTypeOK
    BY DEF ServerInv, RequestInv
  <1>2. pc[r] = "idle" /\ UNCHANGED <<committed, clock, storeVars>>
    BY DEF BeginNextPage
  <1>3. /\ StoreInv' /\ StoreMoves /\ Counted' /\ reservations' = reservations
        /\ committed' = committed /\ clock' = clock
    BY <1>1, <1>2, StoreIdle DEF storeVars
  <1>4. CASE CursorMatches(c, q)
    <2> DEFINE later == [query |-> q, cursor |-> c, from |-> c.at, snap |-> committed, moment |-> clock]
    <2>1. /\ pc' = [pc EXCEPT ![r] = "slice"] /\ ask' = [ask EXCEPT ![r] = later]
          /\ ticket' = ticket /\ reply' = reply
      BY <1>4 DEF BeginNextPage
    <2>2. committed \in Generations /\ committed \in Nat /\ clock \in Nat /\ c.at \in Nat
      BY <1>1, StoreNumbers DEF StoreInv, Cursors
    <2>3. /\ later \in AskRecords /\ later.query = q /\ later.cursor = c /\ later.snap = committed
          /\ later.moment = clock
      BY <2>2 DEF AskRecords
    <2> HIDE DEF later
    <2>4. PICK a, u, y : a = later /\ u = ticket[r] /\ y = reply[r]
      OBVIOUS
    <2>5. /\ u \in ReservationRecords /\ y \in ReplyRecords
          /\ ticket' = [ticket EXCEPT ![r] = u] /\ reply' = [reply EXCEPT ![r] = y]
          /\ ask' = [ask EXCEPT ![r] = a] /\ a \in AskRecords
      BY <1>1, <2>1, <2>3, <2>4 DEF RequestTypeOK
    <2>6. pc'[r] = "slice" /\ ask'[r] = a /\ reply'[r] = y
      BY <1>1, <2>1, <2>5 DEF RequestTypeOK
    <2>7. reply[r].code # "ok" /\ Sound(y.next)
      BY <1>1, <1>2, <2>4 DEF RequestInv, ReaderInv
    <2>8. Sound(ask[r].cursor)' /\ Sound(reply[r].next)'
      <3>1. PICK d : d = y.next
        OBVIOUS
      <3>2. Sound(d)' /\ Sound(c)'
        BY <1>1, <1>3, <2>7, <3>1, SoundKept
      <3>3. ask'[r].cursor = c /\ reply'[r].next = d
        BY <2>3, <2>4, <2>6, <3>1
      <3> QED
        BY <3>2, <3>3 DEF Sound, Settled
    <2>9. /\ ask'[r].cursor \in Cursors /\ ask'[r].cursor.gen = ask'[r].snap
          /\ ask'[r].moment <= clock' /\ ask'[r].query = q
          /\ ask'[r].snap \in Generations /\ ask'[r].snap <= committed'
      BY <1>3, <1>4, <2>2, <2>3, <2>4, <2>6 DEF CursorMatches
    <2>10. ReaderInv(r)'
      BY <2>4, <2>6, <2>7, <2>8, <2>9 DEF ReaderInv
    <2>11. "slice" \in Busy \cup {"idle", "answered"}
      BY DEF Busy
    <2>12. RequestInv' /\ \A x \in Readers \ {r} : Faithful(x)
      BY <1>1, <1>3, <2>1, <2>5, <2>10, <2>11, OneReader
    <2>13. Owned'
      BY <1>1, <1>2, <1>3, <2>1, <2>5, OwnersKept
    <2> QED
      BY <1>3, <2>4, <2>6, <2>7, <2>9, <2>12, <2>13 DEF Asked, ServerInv
  <1>5. CASE ~CursorMatches(c, q)
    <2>1. PICK code : /\ code \in Codes /\ code # "ok" /\ Fail(r, code)
      <3>1. PICK code : code = (IF c.query = q THEN "catalog_snapshot_changed" ELSE "invalid_cursor")
        OBVIOUS
      <3>2. code \in Codes /\ code # "ok"
        BY <3>1 DEF Codes
      <3> QED
        BY <1>5, <3>1, <3>2 DEF BeginNextPage
    <2>2. RequestInv' /\ \A x \in Readers : Faithful(x)
      BY <1>1, <1>3, <2>1, Failed
    <2>3. Owned'
      BY <1>1, <1>2, <1>3, <2>1, OwnersKept DEF Fail, Reply
    <2>4. pc'[r] = "answered" /\ reply'[r] = [NoReply EXCEPT !.code = code]
      BY <1>1, <2>1 DEF Fail, Reply, RequestTypeOK
    <2>5. pc'[r] \notin Busy /\ reply'[r].code = code
      BY <2>4 DEF Busy, NoReply
    <2> QED
      BY <1>3, <2>1, <2>2, <2>3, <2>5 DEF Asked, ServerInv
  <1> QED
    BY <1>4, <1>5

\* An answer is taken.
LEMMA TakenStep ==
    ASSUME ServerInv, NEW r \in Readers, Taken(r)
    PROVE  GoodStep
  <1>1. StoreInv /\ Counted /\ Owned /\ RequestInv /\ RequestTypeOK
    BY DEF ServerInv, RequestInv
  <1>2. /\ pc[r] = "answered" /\ UNCHANGED <<committed, clock, storeVars>>
        /\ pc' = [pc EXCEPT ![r] = "idle"] /\ reply' = [reply EXCEPT ![r] = NoReply]
        /\ ask' = ask /\ ticket' = ticket
    BY DEF Taken
  <1>3. StoreInv' /\ StoreMoves /\ Counted' /\ reservations' = reservations
    BY <1>1, <1>2, StoreIdle DEF storeVars
  <1>4. PICK a, u : a = ask[r] /\ u = ticket[r]
    OBVIOUS
  <1>5. /\ a \in AskRecords /\ u \in ReservationRecords
        /\ ask' = [ask EXCEPT ![r] = a] /\ ticket' = [ticket EXCEPT ![r] = u]
    BY <1>1, <1>2, <1>4 DEF RequestTypeOK
  <1>6. pc'[r] = "idle" /\ reply'[r] = NoReply /\ ask'[r] = a
    BY <1>1, <1>2, <1>4 DEF RequestTypeOK
  <1>7. pc'[r] \notin Busy /\ pc'[r] \notin {"slice", "recheck", "withdraw"}
    BY <1>6 DEF Busy
  <1>8. Sound(ask[r].cursor)' /\ Sound(reply[r].next)'
    <2>1. PICK c : c = a.cursor
      OBVIOUS
    <2>2. Sound(c)'
      BY <1>1, <1>3, <1>4, <2>1, SoundKept DEF RequestInv, ReaderInv
    <2>3. ask'[r].cursor = c /\ reply'[r].next = NoCursor
      BY <1>6, <2>1 DEF NoReply
    <2> QED
      BY <2>2, <2>3 DEF Sound, Settled
  <1>9. reply'[r].code # "ok"
    BY <1>6, AtRest
  <1>10. ReaderInv(r)' /\ Faithful(r)
    BY <1>7, <1>8, <1>9 DEF ReaderInv, Faithful
  <1>11. RequestInv' /\ \A x \in Readers \ {r} : Faithful(x)
    BY <1>1, <1>2, <1>3, <1>5, <1>10, AtRest, OneReader
  <1>12. Owned'
    BY <1>1, <1>2, <1>3, <1>5, OwnersKept
  <1> QED
    BY <1>3, <1>10, <1>11, <1>12 DEF GoodStep, ServerInv

-----------------------------------------------------------------------------
(* The browser                                                             *)

\* PagesOfOneCatalog and ListFollowsSource for the list l of query q, where catalog least
\* is known.
OneList(l, q, least) ==
    /\ \A i \in DOMAIN l.pages :
          /\ l.pages[i].rows = l.pages[1].rows /\ l.pages[i].gen = l.pages[1].rows
          /\ l.pages[i].query = q
          /\ l.pages[i].from = IF i = 1 THEN 0 ELSE l.pages[i-1].to
    /\ l.pages # <<>> /\ l.next = NoCursor =>
          l.pages[Len(l.pages)].to = ResultSize[l.pages[1].gen][l.pages[1].query]
    /\ l.pages # <<>> => l.pages[1].rows >= least

Lists == [pages : Seq(Pages), next : Cursors \cup {NoCursor}]

\* The two properties of the list, browser by browser.
LEMMA ListHalves ==
    PagesOfOneCatalog /\ ListFollowsSource
      <=> \A w \in Browsers : OneList(list[w], query[w], known[w])
  BY DEF PagesOfOneCatalog, ListFollowsSource, OneList

\* Cached data stays usable.
LEMMA CachedKept ==
    ASSUME StoreInv, StoreInv', StoreMoves, NEW a, NEW k, Cached(a, k)
    PROVE  Cached(a, k)'
  <1>1. CASE a = NoReply
    BY <1>1 DEF Cached
  <1>2. CASE a # NoReply
    <2>1. PICK c : c = a.next
      OBVIOUS
    <2>2. Sound(c)'
      BY <1>2, <2>1, SoundKept DEF Cached
    <2> QED
      BY <1>2, <2>1, <2>2 DEF Cached, Whole
  <1> QED
    BY <1>1, <1>2

\* A request that goes on is still what its browser waits for.
LEMMA ExpectedKept ==
    ASSUME NEW w, NEW r, Faithful(r), Expected(w, r), query'[w] = query[w],
           known'[w] = known[w], purpose'[r] = purpose[r]
    PROVE  Expected(w, r)'
  BY DEF Faithful, Expected

\* A browser that a step leaves alone.
LEMMA BrowserKept ==
    ASSUME StoreInv, StoreInv', StoreMoves, BrowserTypeOK, NEW w \in Browsers, BrowserOk(w),
           known'[w] = known[w], query'[w] = query[w], cache'[w] = cache[w], list'[w] = list[w],
           \A r \in Readers : user'[r] = w => Expected(w, r)'
    PROVE  BrowserOk(w)'
  <1>1. known'[w] <= committed'
    <2>1. /\ known[w] \in Int /\ committed \in Int /\ committed' \in Int
          /\ known[w] <= committed /\ committed <= committed'
      BY CursorAssumption DEF BrowserTypeOK, StoreInv, StoreMoves, Generations, BrowserOk
    <2> QED
      BY <2>1
  <1>2. ASSUME NEW k \in Keys PROVE Cached(cache[w][k], k)'
    <2>1. PICK a : a = cache[w][k]
      OBVIOUS
    <2>2. Cached(a, k)'
      BY <2>1, CachedKept DEF BrowserOk
    <2> QED
      BY <2>1, <2>2 DEF Cached, Sound, Settled, Whole
  <1>3. Sound(list[w].next)'
    <2>1. PICK c : c = list[w].next
      OBVIOUS
    <2>2. Sound(c)'
      BY <2>1, SoundKept DEF BrowserOk
    <2> QED
      BY <2>1, <2>2 DEF Sound, Settled
  <1> QED
    BY <1>1, <1>2, <1>3 DEF BrowserOk

\* The list made of the first page's data.
LEMMA SessionOfData ==
    ASSUME NEW a \in ReplyRecords, NEW k, Cached(a, k), NEW l, l = SessionOf(a)
    PROVE  l \in Lists /\ Sound(l.next) /\ OneList(l, k[2], k[1])
  <1>1. CASE a = NoReply
    <2>1. l = [pages |-> <<>>, next |-> NoCursor]
      BY <1>1 DEF SessionOf, EmptyList
    <2>2. l.pages = <<>> /\ l.next = NoCursor
      BY <2>1
    <2>3. l \in Lists
      BY <2>1 DEF Lists
    <2>4. DOMAIN l.pages = {}
      BY <2>2
    <2> QED
      BY <2>2, <2>3, <2>4 DEF Sound, OneList
  <1>2. CASE a # NoReply
    <2>1. /\ Whole(a) /\ Sound(a.next) /\ a.page.query = k[2] /\ a.page.from = 0
          /\ a.page.rows >= k[1]
      BY <1>2 DEF Cached
    <2>2. a.page \in Pages /\ a.next \in Cursors \cup {NoCursor}
      BY <2>1 DEF Whole, ReplyRecords
    <2>3. PICK page, next : page = a.page /\ next = a.next
      OBVIOUS
    <2>4. l = [pages |-> <<page>>, next |-> next]
      BY <1>2, <2>3 DEF SessionOf
    <2>5. l.pages = <<page>> /\ l.next = next
      BY <2>4
    <2>6. l \in Lists
      BY <2>2, <2>3, <2>4 DEF Lists
    <2>7. DOMAIN l.pages = {1} /\ l.pages[1] = page /\ Len(l.pages) = 1
      BY <2>5
    <2>8. OneList(l, k[2], k[1])
      BY <2>1, <2>3, <2>5, <2>7 DEF OneList, Whole
    <2> QED
      BY <2>1, <2>3, <2>5, <2>6, <2>8
  <1> QED
    BY <1>1, <1>2

\* A page and its cursor that may follow the list l.
Following(l, q, page, next) ==
    /\ page \in Pages /\ next \in Cursors \cup {NoCursor}
    /\ page.gen = page.rows /\ page.query = q /\ Continues(l.pages, page)
    /\ next = NoCursor => page.to = ResultSize[page.gen][page.query]

\* appendContinuation keeps the list one list.
LEMMA Continued ==
    ASSUME NEW l \in Lists, NEW q, NEW least, OneList(l, q, least),
           NEW page, NEW next, Following(l, q, page, next),
           NEW m, m = [pages |-> Append(l.pages, page), next |-> next]
    PROVE  m \in Lists /\ m.next = next /\ OneList(m, q, least)
  <1>0. /\ page \in Pages /\ next \in Cursors \cup {NoCursor}
        /\ page.gen = page.rows /\ page.query = q /\ Continues(l.pages, page)
        /\ next = NoCursor => page.to = ResultSize[page.gen][page.query]
    BY DEF Following
  <1>1. PICK s : s = l.pages
    OBVIOUS
  <1>2. s \in Seq(Pages) /\ s # <<>>
    BY <1>0, <1>1 DEF Lists, Continues
  <1>3. PICK n : n = Len(s)
    OBVIOUS
  <1>4. n \in Nat \ {0} /\ DOMAIN s = 1..n
    BY <1>2, <1>3, LenProperties, EmptySeq
  <1>5. PICK u : u = Append(s, page)
    OBVIOUS
  <1>6. u \in Seq(Pages) /\ Len(u) = n + 1 /\ (\A i \in 1..n : u[i] = s[i]) /\ u[n + 1] = page
    BY <1>0, <1>2, <1>3, <1>5, AppendProperties
  <1>7. DOMAIN u = 1..(n + 1) /\ u # <<>>
    BY <1>4, <1>6, LenProperties
  <1>8. m = [pages |-> u, next |-> next]
    BY <1>1, <1>5
  <1>9. m.pages = u /\ m.next = next /\ m \in Lists
    BY <1>0, <1>6, <1>8 DEF Lists
  <1>10. u[1] = s[1] /\ page.rows = s[1].rows /\ page.from = s[n].to
    BY <1>0, <1>1, <1>3, <1>4, <1>6 DEF Continues
  <1>11. ASSUME NEW i \in 1..(n + 1)
         PROVE  /\ u[i].rows = u[1].rows /\ u[i].gen = u[1].rows /\ u[i].query = q
                /\ u[i].from = IF i = 1 THEN 0 ELSE u[i-1].to
    <2>1. CASE i = n + 1
      <3>1. i # 1 /\ i - 1 = n /\ u[i - 1] = s[n] /\ u[i] = page
        BY <1>4, <1>6, <2>1
      <3> QED
        BY <1>0, <1>10, <3>1
    <2>2. CASE i \in 1..n
      <3>1. /\ s[i].rows = s[1].rows /\ s[i].gen = s[1].rows /\ s[i].query = q
            /\ s[i].from = IF i = 1 THEN 0 ELSE s[i-1].to
        BY <1>1, <1>4, <2>2 DEF OneList
      <3>2. i # 1 => u[i - 1] = s[i - 1]
        BY <1>4, <1>6, <2>2
      <3> QED
        BY <1>6, <1>10, <2>2, <3>1, <3>2
    <2> QED
      BY <1>4, <2>1, <2>2
  <1>12. next = NoCursor => u[n + 1].to = ResultSize[u[1].gen][u[1].query]
    <2>1. u[1].gen = u[1].rows /\ u[1].query = q
      BY <1>4, <1>11
    <2> QED
      BY <1>0, <1>6, <1>10, <2>1
  <1>13. u[1].rows >= least
    BY <1>1, <1>2, <1>10 DEF OneList
  <1>14. OneList(m, q, least)
    <2>1. \A i \in DOMAIN m.pages :
             /\ m.pages[i].rows = m.pages[1].rows /\ m.pages[i].gen = m.pages[1].rows
             /\ m.pages[i].query = q
             /\ m.pages[i].from = IF i = 1 THEN 0 ELSE m.pages[i-1].to
      BY <1>7, <1>9, <1>11
    <2>2. m.next = NoCursor =>
             m.pages[Len(m.pages)].to = ResultSize[m.pages[1].gen][m.pages[1].query]
      BY <1>6, <1>9, <1>12
    <2>3. m.pages[1].rows >= least
      BY <1>9, <1>13
    <2> QED
      BY <2>1, <2>2, <2>3 DEF OneList
  <1> QED
    BY <1>9, <1>14

-----------------------------------------------------------------------------
(* The steps of the browsers                                               *)

\* WebInv in the form that the steps use.
LEMMA InvForm ==
    WebInv <=> /\ ServerInv /\ BrowserTypeOK
               /\ \A w \in Browsers : BrowserOk(w) /\ OneList(list[w], query[w], known[w])
  BY ListHalves, BoundedHalves DEF WebInv, ServerInv, BrowserInv

\* ... after a step.
LEMMA InvFormNext ==
    ASSUME ServerInv', BrowserTypeOK',
           \A w \in Browsers : BrowserOk(w)' /\ OneList(list'[w], query'[w], known'[w])
    PROVE  WebInv'
  <1>1. PagesOfOneCatalog' /\ ListFollowsSource'
    BY DEF PagesOfOneCatalog, ListFollowsSource, OneList
  <1>2. CursorMemoryBounded'
    BY DEF CursorMemoryBounded, ServerInv, Counted, Owned
  <1> QED
    BY <1>1, <1>2 DEF WebInv, ServerInv, BrowserInv

\* The server stands still.
LEMMA ServerIdle ==
    ASSUME ServerInv, UNCHANGED vars
    PROVE  GoodStep
  <1>1. StoreInv /\ Counted /\ Owned /\ RequestInv
    BY DEF ServerInv
  <1>2. /\ UNCHANGED <<committed, clock, storeVars>>
        /\ reservations' = reservations /\ pc' = pc /\ ask' = ask /\ ticket' = ticket /\ reply' = reply
    BY DEF vars, storeVars
  <1>3. StoreInv' /\ StoreMoves /\ Counted'
    BY <1>1, <1>2, StoreIdle
  <1>4. RequestInv'
    BY <1>1, <1>2, <1>3, ReaderKept DEF RequestInv, RequestTypeOK
  <1>5. Owned' /\ \A x \in Readers : Faithful(x)
    BY <1>1, <1>2 DEF Owned, Faithful
  <1> QED
    BY <1>3, <1>4, <1>5 DEF GoodStep, ServerInv

\* A step that changes nothing in the browsers.
LEMMA BrowsersIdle ==
    ASSUME WebInv, GoodStep, UNCHANGED browserVars
    PROVE  WebInv'
  <1>1. /\ ServerInv /\ BrowserTypeOK /\ StoreInv
        /\ \A w \in Browsers : BrowserOk(w) /\ OneList(list[w], query[w], known[w])
    BY InvForm DEF ServerInv
  <1>2. ServerInv' /\ StoreInv' /\ StoreMoves /\ \A x \in Readers : Faithful(x)
    BY DEF GoodStep, ServerInv
  <1>3. /\ known' = known /\ query' = query /\ cache' = cache /\ list' = list /\ user' = user
        /\ purpose' = purpose
    BY DEF browserVars
  <1>4. BrowserTypeOK'
    BY <1>1, <1>3 DEF BrowserTypeOK
  <1>5. ASSUME NEW w \in Browsers PROVE BrowserOk(w)' /\ OneList(list'[w], query'[w], known'[w])
    <2>1. ASSUME NEW r \in Readers, user'[r] = w PROVE Expected(w, r)'
      BY <1>1, <1>2, <1>3, <2>1, ExpectedKept DEF BrowserOk
    <2> QED
      BY <1>1, <1>2, <1>3, <2>1, BrowserKept
  <1> QED
    BY <1>2, <1>4, <1>5, InvFormNext

\* What is on screen changes.
LEMMA ShowStep ==
    ASSUME WebInv, NEW w \in Browsers, NEW snapshot \in Generations, NEW q \in Queries,
           snapshot <= committed, Show(w, snapshot, q)
    PROVE  WebInv'
  <1>1. /\ ServerInv /\ BrowserTypeOK /\ StoreInv
        /\ \A z \in Browsers : BrowserOk(z) /\ OneList(list[z], query[z], known[z])
    BY InvForm DEF ServerInv
  <1>2. UNCHANGED vars /\ cache' = cache /\ purpose' = purpose
    BY DEF Show
  <1>3. ServerInv' /\ StoreInv' /\ StoreMoves /\ \A x \in Readers : Faithful(x)
    BY <1>1, <1>2, ServerIdle DEF GoodStep, ServerInv
  <1>4. PICK k, a, l : k = <<snapshot, q>> /\ a = cache[w][k] /\ l = SessionOf(a)
    OBVIOUS
  <1>5. k \in Keys /\ k[1] = snapshot /\ k[2] = q
    BY <1>4 DEF Keys
  <1>6. a \in ReplyRecords /\ Cached(a, k)
    BY <1>1, <1>4, <1>5 DEF BrowserTypeOK, BrowserOk
  <1>7. l \in Lists /\ Sound(l.next) /\ OneList(l, q, snapshot)
    <2>1. l \in Lists /\ Sound(l.next) /\ OneList(l, k[2], k[1])
      BY <1>4, <1>6, SessionOfData
    <2> QED
      BY <1>5, <2>1
  <1>8. /\ known' = [known EXCEPT ![w] = snapshot] /\ query' = [query EXCEPT ![w] = q]
        /\ list' = [list EXCEPT ![w] = l]
        /\ user' = [r \in Readers |-> IF user[r] = w THEN Nobody ELSE user[r]]
    BY <1>4 DEF Show, ContextKey
  <1>9. /\ known'[w] = snapshot /\ query'[w] = q /\ list'[w] = l /\ cache'[w] = cache[w]
        /\ \A z \in Browsers \ {w} : /\ known'[z] = known[z] /\ query'[z] = query[z]
                                     /\ list'[z] = list[z] /\ cache'[z] = cache[z]
        /\ \A r \in Readers : user'[r] # w /\ (user'[r] # Nobody => user'[r] = user[r])
    BY <1>1, <1>2, <1>8, BrowserAssumption DEF BrowserTypeOK
  <1>10. BrowserTypeOK'
    BY <1>1, <1>2, <1>7, <1>8 DEF BrowserTypeOK, Lists
  <1>11. ASSUME NEW z \in Browsers PROVE BrowserOk(z)' /\ OneList(list'[z], query'[z], known'[z])
    <2>1. CASE z # w
      <3>1. ASSUME NEW r \in Readers, user'[r] = z PROVE Expected(z, r)'
        <4>1. user[r] = z
          BY <1>9, <3>1, BrowserAssumption
        <4> QED
          BY <1>1, <1>2, <1>3, <1>9, <2>1, <4>1, ExpectedKept DEF BrowserOk
      <3> QED
        BY <1>1, <1>3, <1>9, <2>1, <3>1, BrowserKept
    <2>2. CASE z = w
      <3>1. known'[w] <= committed'
        BY <1>2, <1>9 DEF vars
      <3>2. ASSUME NEW j \in Keys PROVE Cached(cache[w][j], j)'
        <4>1. PICK b : b = cache[w][j]
          OBVIOUS
        <4>2. Cached(b, j)'
          BY <1>1, <1>3, <4>1, CachedKept DEF BrowserOk
        <4> QED
          BY <1>2, <4>1, <4>2 DEF Cached, Sound, Settled, Whole
      <3>3. Sound(list[w].next)'
        <4>1. PICK c : c = l.next
          OBVIOUS
        <4>2. Sound(c)'
          BY <1>1, <1>3, <1>7, <4>1, SoundKept
        <4> QED
          BY <1>9, <4>1, <4>2 DEF Sound, Settled
      <3>4. BrowserOk(w)'
        BY <1>9, <3>1, <3>2, <3>3 DEF BrowserOk
      <3> QED
        BY <1>7, <1>9, <2>2, <3>4
    <2> QED
      BY <2>1, <2>2
  <1> QED
    BY <1>3, <1>10, <1>11, InvFormNext

\* The empty list, and no data.
LEMMA EmptyListOk ==
    ASSUME NEW q, NEW least
    PROVE  EmptyList \in Lists /\ EmptyList.next = NoCursor /\ OneList(EmptyList, q, least)
  <1>1. EmptyList.pages = <<>> /\ EmptyList.next = NoCursor /\ EmptyList \in Lists
    BY DEF EmptyList, Lists
  <1>2. DOMAIN EmptyList.pages = {}
    BY <1>1
  <1> QED
    BY <1>1, <1>2 DEF OneList

\* One browser changes its data and its list, and waits for no request but those it has
\* waited for.
LEMMA DataStep ==
    ASSUME WebInv, GoodStep, NEW w \in Browsers, NEW data, NEW l \in Lists,
           known' = known, query' = query, purpose' = purpose,
           cache' = [cache EXCEPT ![w] = data], list' = [list EXCEPT ![w] = l],
           data \in [Keys -> ReplyRecords], \A k \in Keys : Cached(data[k], k),
           Sound(l.next), OneList(l, query[w], known[w]),
           user' \in [Readers -> Browsers \cup {Nobody}],
           \A r \in Readers : user'[r] = Nobody \/ user'[r] = user[r]
    PROVE  WebInv'
  <1>1. /\ ServerInv /\ BrowserTypeOK /\ StoreInv
        /\ \A z \in Browsers : BrowserOk(z) /\ OneList(list[z], query[z], known[z])
    BY InvForm DEF ServerInv
  <1>2. ServerInv' /\ StoreInv' /\ StoreMoves /\ \A x \in Readers : Faithful(x)
    BY DEF GoodStep, ServerInv
  <1>3. BrowserTypeOK'
    BY <1>1 DEF BrowserTypeOK, Lists
  <1>4. /\ list'[w] = l /\ cache'[w] = data
        /\ \A z \in Browsers \ {w} : list'[z] = list[z] /\ cache'[z] = cache[z]
    BY <1>1 DEF BrowserTypeOK
  <1>5. ASSUME NEW z \in Browsers, NEW r \in Readers, user'[r] = z PROVE Expected(z, r)'
    <2>1. user[r] = z
      BY <1>5, BrowserAssumption
    <2> QED
      BY <1>1, <1>2, <2>1, ExpectedKept DEF BrowserOk
  <1>6. ASSUME NEW z \in Browsers PROVE BrowserOk(z)' /\ OneList(list'[z], query'[z], known'[z])
    <2>1. CASE z # w
      BY <1>1, <1>2, <1>4, <1>5, <2>1, BrowserKept
    <2>2. CASE z = w
      <3>1. known'[w] <= committed'
        <4>1. /\ known[w] \in Int /\ committed \in Int /\ committed' \in Int
              /\ known[w] <= committed /\ committed <= committed'
          <5>1. Generations \subseteq Int
            BY CursorAssumption DEF Generations
          <5>2. known[w] \in Generations /\ known[w] <= committed
            BY <1>1 DEF BrowserTypeOK, BrowserOk
          <5>3. committed \in Generations /\ committed' \in Generations /\ committed <= committed'
            BY <1>1, <1>2 DEF StoreInv, StoreMoves
          <5> QED
            BY <5>1, <5>2, <5>3
        <4> QED
          BY <4>1
      <3>2. ASSUME NEW k \in Keys PROVE Cached(cache[w][k], k)'
        <4>1. PICK a : a = data[k]
          OBVIOUS
        <4>2. Cached(a, k)'
          BY <1>1, <1>2, <4>1, CachedKept
        <4>3. cache'[w][k] = a
          BY <1>4, <4>1
        <4> QED
          BY <4>2, <4>3 DEF Cached, Sound, Settled, Whole
      <3>3. Sound(list[w].next)'
        <4>1. PICK c : c = l.next
          OBVIOUS
        <4>2. Sound(c)'
          BY <1>1, <1>2, <4>1, SoundKept
        <4> QED
          BY <1>4, <4>1, <4>2 DEF Sound, Settled
      <3>4. BrowserOk(w)'
        BY <1>5, <3>1, <3>2, <3>3 DEF BrowserOk
      <3> QED
        BY <1>4, <2>2, <3>4
    <2> QED
      BY <2>1, <2>2
  <1> QED
    BY <1>2, <1>3, <1>6, InvFormNext

\* Every first page is dropped.
LEMMA ResetStep ==
    ASSUME WebInv, NEW w \in Browsers, ResetBooks(w)
    PROVE  WebInv'
  <1>1. ServerInv /\ BrowserTypeOK
    BY InvForm
  <1>2. /\ UNCHANGED vars /\ known' = known /\ query' = query /\ purpose' = purpose
        /\ cache' = [cache EXCEPT ![w] = [k \in Keys |-> NoReply]]
        /\ list' = [list EXCEPT ![w] = EmptyList]
        /\ user' = [r \in Readers |-> IF user[r] = w THEN Nobody ELSE user[r]]
    BY DEF ResetBooks
  <1>3. GoodStep
    BY <1>1, <1>2, ServerIdle
  <1>4. PICK data, l : data = [k \in Keys |-> NoReply] /\ l = EmptyList
    OBVIOUS
  <1>5. data \in [Keys -> ReplyRecords] /\ \A k \in Keys : Cached(data[k], k)
    BY <1>4, AtRest DEF Cached
  <1>6. l \in Lists /\ Sound(l.next) /\ OneList(l, query[w], known[w])
    BY <1>4, EmptyListOk DEF Sound
  <1>7. /\ user' \in [Readers -> Browsers \cup {Nobody}]
        /\ \A r \in Readers : user'[r] = Nobody \/ user'[r] = user[r]
    BY <1>1, <1>2 DEF BrowserTypeOK
  <1> QED
    BY <1>2, <1>3, <1>4, <1>5, <1>6, <1>7, DataStep

\* A request is sent.
LEMMA SendStep ==
    ASSUME WebInv, NEW w \in Browsers, NEW r \in Readers, NEW what \in {"first", "next"},
           Asked(r), Send(w, r, what),
           pc'[r] \in Busy =>
              /\ ask'[r].query = query[w]
              /\ what = "first" => ask'[r].from = 0 /\ ask'[r].snap = committed,
           reply'[r].code = "ok" =>
              /\ reply'[r].page.query = query[w]
              /\ what = "first" => reply'[r].page.from = 0 /\ reply'[r].page.rows = committed
    PROVE  WebInv'
  <1>1. /\ ServerInv /\ BrowserTypeOK /\ StoreInv
        /\ \A z \in Browsers : BrowserOk(z) /\ OneList(list[z], query[z], known[z])
    BY InvForm DEF ServerInv
  <1>2. ServerInv' /\ StoreInv' /\ StoreMoves /\ \A x \in Readers \ {r} : Faithful(x)
    BY DEF Asked, ServerInv
  <1>3. /\ known' = known /\ query' = query /\ cache' = cache /\ list' = list
        /\ user' = [user EXCEPT ![r] = w] /\ purpose' = [purpose EXCEPT ![r] = what]
    BY DEF Send
  <1>4. BrowserTypeOK'
    BY <1>1, <1>3 DEF BrowserTypeOK
  <1>5. /\ user'[r] = w /\ purpose'[r] = what
        /\ \A x \in Readers \ {r} : user'[x] = user[x] /\ purpose'[x] = purpose[x]
    BY <1>1, <1>3 DEF BrowserTypeOK
  <1>6. Expected(w, r)'
    <2>1. known[w] <= committed /\ known[w] \in Int /\ committed \in Int
      BY <1>1, CursorAssumption DEF BrowserOk, BrowserTypeOK, StoreInv, Generations
    <2>2. committed >= known[w]
      BY <2>1
    <2> QED
      BY <1>3, <1>5, <2>2 DEF Expected
  <1>7. ASSUME NEW z \in Browsers, NEW x \in Readers, user'[x] = z PROVE Expected(z, x)'
    <2>1. CASE x = r
      BY <1>5, <1>6, <1>7, <2>1
    <2>2. CASE x # r
      BY <1>1, <1>2, <1>3, <1>5, <1>7, <2>2, ExpectedKept DEF BrowserOk
    <2> QED
      BY <2>1, <2>2
  <1>8. ASSUME NEW z \in Browsers PROVE BrowserOk(z)' /\ OneList(list'[z], query'[z], known'[z])
    BY <1>1, <1>2, <1>3, <1>7, BrowserKept
  <1> QED
    BY <1>2, <1>4, <1>8, InvFormNext

\* A first page is fetched, or fetched again.
LEMMA FetchFirstStep ==
    ASSUME WebInv, NEW w \in Browsers, NEW r \in Readers, BeginFirstPage(r, query[w], 0),
           Send(w, r, "first")
    PROVE  WebInv'
  <1>1. ServerInv /\ BrowserTypeOK
    BY InvForm
  <1>2. PICK q : q = query[w]
    OBVIOUS
  <1>3. q \in Queries
    BY <1>1, <1>2 DEF BrowserTypeOK
  <1>4. /\ Asked(r)
        /\ pc'[r] \in Busy =>
             ask'[r].query = q /\ ask'[r].from = 0 /\ ask'[r].snap = committed
        /\ reply'[r].code = "ok" =>
             /\ reply'[r].page.query = q /\ reply'[r].page.from = 0
             /\ reply'[r].page.rows = committed
    BY <1>1, <1>2, <1>3, BeginFirstStep
  <1>5. PICK what : what = "first"
    OBVIOUS
  <1> QED
    BY <1>2, <1>4, <1>5, SendStep

\* A later page is fetched with the cursor of the list.
LEMMA FetchNextStep ==
    ASSUME WebInv, NEW w \in Browsers, NEW r \in Readers, FetchNextPage(w, r)
    PROVE  WebInv'
  <1>1. ServerInv /\ BrowserTypeOK /\ BrowserOk(w)
    BY InvForm
  <1>2. PICK q, c, what : q = query[w] /\ c = list[w].next /\ what = "next"
    OBVIOUS
  <1>3. q \in Queries /\ c \in Cursors /\ Sound(c)
    BY <1>1, <1>2 DEF BrowserTypeOK, BrowserOk, FetchNextPage, Sound
  <1>4. BeginNextPage(r, q, c) /\ Send(w, r, what)
    BY <1>2 DEF FetchNextPage
  <1>5. Asked(r) /\ (pc'[r] \in Busy => ask'[r].query = q) /\ reply'[r].code # "ok"
    BY <1>1, <1>3, <1>4, BeginNextStep
  <1> QED
    BY <1>2, <1>4, <1>5, SendStep

\* The first page becomes data of the key on screen.
LEMMA TakeFirstStep ==
    ASSUME WebInv, NEW w \in Browsers, NEW r \in Readers, TakeFirstPage(w, r)
    PROVE  WebInv'
  <1>1. /\ ServerInv /\ BrowserTypeOK /\ BrowserOk(w) /\ OneList(list[w], query[w], known[w])
        /\ RequestInv
    BY InvForm DEF ServerInv
  <1>2. /\ user[r] = w /\ purpose[r] = "first" /\ Taken(r)
        /\ known' = known /\ query' = query /\ purpose' = purpose
    BY DEF TakeFirstPage
  <1>3. GoodStep
    BY <1>1, <1>2, TakenStep
  <1>4. list[w] \in Lists /\ cache[w] \in [Keys -> ReplyRecords] /\ Key(w) \in Keys
    BY <1>1 DEF BrowserTypeOK, Lists, Key, ContextKey, Keys
  <1>5. CASE reply[r].code = "ok"
    <2>1. PICK a, k, l, data : /\ a = reply[r] /\ k = Key(w) /\ l = SessionOf(a)
                               /\ data = [cache[w] EXCEPT ![k] = a]
      OBVIOUS
    <2>2. k[1] = known[w] /\ k[2] = query[w] /\ k \in Keys
      BY <1>4, <2>1 DEF Key, ContextKey
    <2>3. a \in ReplyRecords /\ Cached(a, k)
      <3>1. a \in ReplyRecords
        BY <1>1, <2>1 DEF RequestInv, RequestTypeOK
      <3>2. Whole(a) /\ Sound(a.next)
        BY <1>1, <1>5, <2>1 DEF RequestInv, ReaderInv
      <3>3. a.page.query = query[w] /\ a.page.from = 0 /\ a.page.rows >= known[w]
        BY <1>1, <1>2, <1>5, <2>1 DEF BrowserOk, Expected
      <3> QED
        BY <2>2, <3>1, <3>2, <3>3 DEF Cached
    <2>4. l \in Lists /\ Sound(l.next) /\ OneList(l, query[w], known[w])
      <3>1. l \in Lists /\ Sound(l.next) /\ OneList(l, k[2], k[1])
        BY <2>1, <2>3, SessionOfData
      <3> QED
        BY <2>2, <3>1
    <2>5. data \in [Keys -> ReplyRecords] /\ \A j \in Keys : Cached(data[j], j)
      <3>1. data \in [Keys -> ReplyRecords]
        BY <1>4, <2>1, <2>3
      <3>2. ASSUME NEW j \in Keys PROVE Cached(data[j], j)
        <4>1. CASE j = k
          BY <1>4, <2>1, <2>3, <4>1
        <4>2. CASE j # k
          BY <1>1, <1>4, <2>1, <4>2 DEF BrowserOk
        <4> QED
          BY <4>1, <4>2
      <3> QED
        BY <3>1, <3>2
    <2>6. /\ cache' = [cache EXCEPT ![w] = data] /\ list' = [list EXCEPT ![w] = l]
          /\ user' = [x \in Readers |-> IF user[x] = w THEN Nobody ELSE user[x]]
      BY <1>1, <1>5, <2>1 DEF TakeFirstPage, BrowserTypeOK
    <2>7. /\ user' \in [Readers -> Browsers \cup {Nobody}]
          /\ \A x \in Readers : user'[x] = Nobody \/ user'[x] = user[x]
      BY <1>1, <2>6 DEF BrowserTypeOK
    <2> QED
      BY <1>2, <1>3, <2>4, <2>5, <2>6, <2>7, DataStep
  <1>6. CASE reply[r].code # "ok"
    <2>1. PICK data, l : data = cache[w] /\ l = list[w]
      OBVIOUS
    <2>2. /\ user' = [user EXCEPT ![r] = Nobody]
          /\ cache' = [cache EXCEPT ![w] = data] /\ list' = [list EXCEPT ![w] = l]
      BY <1>1, <1>6, <2>1 DEF TakeFirstPage, BrowserTypeOK
    <2>3. /\ user' \in [Readers -> Browsers \cup {Nobody}]
          /\ \A x \in Readers : user'[x] = Nobody \/ user'[x] = user[x]
      BY <1>1, <2>2 DEF BrowserTypeOK
    <2>4. /\ data \in [Keys -> ReplyRecords] /\ (\A k \in Keys : Cached(data[k], k))
          /\ l \in Lists /\ Sound(l.next) /\ OneList(l, query[w], known[w])
      BY <1>1, <1>4, <2>1 DEF BrowserOk
    <2> QED
      BY <1>2, <1>3, <2>2, <2>3, <2>4, DataStep
  <1> QED
    BY <1>5, <1>6

\* A continuation is appended, or the list is reset.
LEMMA TakeNextStep ==
    ASSUME WebInv, NEW w \in Browsers, NEW r \in Readers, TakeNextPage(w, r)
    PROVE  WebInv'
  <1> DEFINE fits == reply[r].code = "ok" /\ Continues(list[w].pages, reply[r].page)
             reset == ~fits /\ (reply[r].code = "ok" \/ Recoverable(reply[r].code))
             new == IF fits THEN [pages |-> Append(list[w].pages, reply[r].page),
                                  next |-> reply[r].next]
                    ELSE IF reset THEN EmptyList ELSE list[w]
             kept == IF reset THEN [cache[w] EXCEPT ![Key(w)] = NoReply] ELSE cache[w]
  <1>1. /\ ServerInv /\ BrowserTypeOK /\ BrowserOk(w) /\ OneList(list[w], query[w], known[w])
        /\ RequestInv
    BY InvForm DEF ServerInv
  <1>2. /\ user[r] = w /\ Taken(r)
        /\ known' = known /\ query' = query /\ purpose' = purpose
        /\ list' = [list EXCEPT ![w] = new] /\ user' = [user EXCEPT ![r] = Nobody]
        /\ cache' = IF reset THEN [cache EXCEPT ![w][Key(w)] = NoReply] ELSE cache
    BY DEF TakeNextPage
  <1>3. GoodStep
    BY <1>1, <1>2, TakenStep
  <1>4. list[w] \in Lists /\ cache[w] \in [Keys -> ReplyRecords] /\ Key(w) \in Keys
    BY <1>1 DEF BrowserTypeOK, Lists, Key, ContextKey, Keys
  <1>5. new \in Lists /\ Sound(new.next) /\ OneList(new, query[w], known[w])
    <2>1. CASE fits
      <3>1. PICK l, page, next, q, least, m :
              /\ l = list[w] /\ page = reply[r].page /\ next = reply[r].next
              /\ q = query[w] /\ least = known[w]
              /\ m = [pages |-> Append(l.pages, page), next |-> next]
        OBVIOUS
      <3>2. /\ page \in Pages /\ page.gen = page.rows /\ Sound(next)
            /\ next = NoCursor => page.to = ResultSize[page.gen][page.query]
        BY <1>1, <2>1, <3>1 DEF RequestInv, ReaderInv, Whole
      <3>3. next \in Cursors \cup {NoCursor}
        BY <1>1, <3>1 DEF RequestInv, RequestTypeOK, ReplyRecords
      <3>4. page.query = q
        BY <1>1, <1>2, <2>1, <3>1 DEF BrowserOk, Expected
      <3>5. l \in Lists /\ OneList(l, q, least) /\ Continues(l.pages, page)
        BY <1>1, <1>4, <2>1, <3>1
      <3>6. m = [pages |-> Append(l.pages, page), next |-> next]
        BY <3>1
      <3>7. m \in Lists /\ m.next = next /\ OneList(m, q, least)
        <4>1. Following(l, q, page, next)
          BY <3>2, <3>3, <3>4, <3>5 DEF Following
        <4> QED
          BY <3>5, <3>6, <4>1, Continued
      <3>8. new = m
        BY <2>1, <3>1
      <3> HIDE DEF new
      <3> QED
        BY <3>1, <3>2, <3>7, <3>8
    <2>2. CASE reset
      <3>1. new = EmptyList
        BY <2>2
      <3> HIDE DEF new
      <3> QED
        BY <3>1, EmptyListOk DEF Sound
    <2>3. CASE ~fits /\ ~reset
      <3>1. new = list[w]
        BY <2>3
      <3> HIDE DEF new
      <3> QED
        BY <1>1, <1>4, <3>1 DEF BrowserOk
    <2> QED
      BY <2>1, <2>2, <2>3
  <1>6. /\ kept \in [Keys -> ReplyRecords] /\ \A k \in Keys : Cached(kept[k], k)
        /\ cache' = [cache EXCEPT ![w] = kept]
    <2>1. CASE reset
      <3>1. PICK k0, data : k0 = Key(w) /\ data = [cache[w] EXCEPT ![k0] = NoReply]
        OBVIOUS
      <3>2. data \in [Keys -> ReplyRecords]
        BY <1>4, <3>1, AtRest
      <3>3. ASSUME NEW k \in Keys PROVE Cached(data[k], k)
        <4>1. CASE k = k0
          BY <1>4, <3>1, <4>1 DEF Cached
        <4>2. CASE k # k0
          BY <1>1, <1>4, <3>1, <4>2 DEF BrowserOk
        <4> QED
          BY <4>1, <4>2
      <3>4. kept = data /\ cache' = [cache EXCEPT ![w] = data]
        BY <1>1, <1>2, <2>1, <3>1 DEF BrowserTypeOK
      <3> HIDE DEF kept
      <3> QED
        BY <3>2, <3>3, <3>4
    <2>2. CASE ~reset
      <3>1. kept = cache[w] /\ cache' = cache
        BY <1>2, <2>2
      <3> HIDE DEF kept
      <3> QED
        BY <1>1, <1>4, <3>1 DEF BrowserOk, BrowserTypeOK
    <2> QED
      BY <2>1, <2>2
  <1>7. /\ user' \in [Readers -> Browsers \cup {Nobody}]
        /\ \A x \in Readers : user'[x] = Nobody \/ user'[x] = user[x]
    BY <1>1, <1>2 DEF BrowserTypeOK
  <1> HIDE DEF new, kept
  <1>8. PICK l, data : l = new /\ data = kept
    OBVIOUS
  <1> QED
    BY <1>2, <1>3, <1>5, <1>6, <1>7, <1>8, DataStep

\* Nothing is asked or shown.
LEMMA WebInitial ==
    ASSUME WebInit
    PROVE  WebInv
  <1>1. Init
    BY DEF WebInit
  <1>2. 1 \in Generations
    BY CursorAssumption, LenProperties, EmptySeq DEF Generations
  <1>3. /\ committed = 1 /\ clock = 0 /\ sessions = {} /\ reservations = {} /\ nextId = 1
        /\ used = 0 /\ reserved = 0
        /\ pc = [r \in Readers |-> "idle"] /\ ask = [r \in Readers |-> NoAsk]
        /\ ticket = [r \in Readers |-> NoTicket] /\ reply = [r \in Readers |-> NoReply]
    BY <1>1 DEF Init
  <1>4. StoreInv
    <2>1. IsFiniteSet({})
      BY FS_EmptySet
    <2> QED
      BY <1>2, <1>3, <2>1 DEF StoreInv
  <1>5. Counted /\ Owned
    BY <1>3, NothingCounted
  <1>6. RequestInv
    <2>1. RequestTypeOK
      BY <1>3, AtRest DEF RequestTypeOK
    <2>2. ASSUME NEW r \in Readers PROVE ReaderInv(r)
      <3>1. pc[r] = "idle" /\ ask[r] = NoAsk /\ reply[r] = NoReply
        BY <1>3
      <3>2. pc[r] \notin Busy /\ pc[r] \notin {"slice", "recheck", "withdraw"}
        BY <3>1 DEF Busy
      <3> QED
        BY <3>1, <3>2, AtRest DEF ReaderInv
    <2> QED
      BY <2>1, <2>2 DEF RequestInv
  <1>7. /\ known = [w \in Browsers |-> 1] /\ query \in [Browsers -> Queries]
        /\ cache = [w \in Browsers |-> [k \in Keys |-> NoReply]]
        /\ list = [w \in Browsers |-> EmptyList] /\ user = [r \in Readers |-> Nobody]
        /\ purpose = [r \in Readers |-> "first"]
    BY <1>3 DEF WebInit
  <1>8. BrowserTypeOK
    <2>1. list \in [Browsers -> [pages : Seq(Pages), next : Cursors \cup {NoCursor}]]
      BY <1>7, EmptyListOk DEF Lists
    <2> QED
      BY <1>2, <1>7, <2>1, AtRest DEF BrowserTypeOK
  <1>9. ASSUME NEW w \in Browsers PROVE BrowserOk(w) /\ OneList(list[w], query[w], known[w])
    <2>1. list[w] = EmptyList /\ known[w] = 1 /\ (\A k \in Keys : cache[w][k] = NoReply)
      BY <1>7
    <2>2. \A r \in Readers : user[r] # w
      BY <1>7, BrowserAssumption
    <2>3. BrowserOk(w)
      BY <1>3, <2>1, <2>2, EmptyListOk DEF BrowserOk, Cached, Sound
    <2> QED
      BY <2>1, <2>3, EmptyListOk
  <1> QED
    BY <1>4, <1>5, <1>6, <1>8, <1>9, InvForm DEF ServerInv

\* Every step.
LEMMA WebSteps ==
    ASSUME WebInv, [WebNext]_webVars
    PROVE  WebInv'
  <1>1. ServerInv /\ BrowserTypeOK /\ StoreInv /\ \A w \in Browsers : BrowserOk(w)
    BY InvForm DEF ServerInv
  <1>2. CASE ServerStep /\ UNCHANGED browserVars
    BY <1>1, <1>2, ServerSteps, BrowsersIdle
  <1>3. ASSUME NEW w \in Browsers, NEW q \in Queries, ChangeQuery(w, q) PROVE WebInv'
    <2>1. PICK snapshot : snapshot = known[w]
      OBVIOUS
    <2>2. snapshot \in Generations /\ snapshot <= committed /\ Show(w, snapshot, q)
      BY <1>1, <1>3, <2>1 DEF ChangeQuery, BrowserTypeOK, BrowserOk
    <2> QED
      BY <2>2, ShowStep
  <1>4. ASSUME NEW w \in Browsers, RefreshSource(w) PROVE WebInv'
    <2>1. PICK snapshot, q : snapshot = committed /\ q = query[w]
      OBVIOUS
    <2>2. snapshot \in Generations /\ q \in Queries /\ Show(w, snapshot, q)
      BY <1>1, <1>4, <2>1 DEF RefreshSource, BrowserTypeOK, StoreInv
    <2>3. snapshot <= committed
      BY <2>1, <2>2, CursorAssumption DEF Generations
    <2> QED
      BY <2>2, <2>3, ShowStep
  <1>5. ASSUME NEW w \in Browsers, ResetBooks(w) PROVE WebInv'
    BY <1>5, ResetStep
  <1>6. ASSUME NEW w \in Browsers, NEW r \in Readers, FetchFirstPage(w, r) PROVE WebInv'
    BY <1>6, FetchFirstStep DEF FetchFirstPage
  <1>7. ASSUME NEW w \in Browsers, NEW r \in Readers, RefetchFirstPage(w, r) PROVE WebInv'
    BY <1>7, FetchFirstStep DEF RefetchFirstPage
  <1>8. ASSUME NEW w \in Browsers, NEW r \in Readers, FetchNextPage(w, r) PROVE WebInv'
    BY <1>8, FetchNextStep
  <1>9. ASSUME NEW w \in Browsers, NEW r \in Readers, TakeFirstPage(w, r) PROVE WebInv'
    BY <1>9, TakeFirstStep
  <1>10. ASSUME NEW w \in Browsers, NEW r \in Readers, TakeNextPage(w, r) PROVE WebInv'
    BY <1>10, TakeNextStep
  <1>11. ASSUME NEW r \in Readers, DropAnswer(r) PROVE WebInv'
    BY <1>1, <1>11, TakenStep, BrowsersIdle DEF DropAnswer
  <1>12. CASE UNCHANGED webVars
    BY <1>1, <1>12, ServerIdle, BrowsersIdle DEF webVars
  <1> QED
    BY <1>2, <1>3, <1>4, <1>5, <1>6, <1>7, <1>8, <1>9, <1>10, <1>11, <1>12 DEF WebNext

-----------------------------------------------------------------------------
(* Theorems                                                                *)

\* The session store, the requests and the browsers stay consistent with each other.
THEOREM Invariance == WebSpec => []WebInv
  <1>1. WebInit => WebInv
    BY WebInitial
  <1>2. WebInv /\ [WebNext]_webVars => WebInv'
    BY WebSteps
  <1> QED
    BY <1>1, <1>2, PTL DEF WebSpec

\* Whatever is purged, evicted, switched, withdrawn or lost in a restart, the counters of
\* SSearchSessionState are the sums they stand for, stay within the capacity, and every
\* reservation has a request that publishes or releases it.
THEOREM CursorMemoryAlwaysBounded == WebSpec => []CursorMemoryBounded
  <1>1. WebInv => CursorMemoryBounded
    BY DEF WebInv
  <1> QED
    BY <1>1, Invariance, PTL

\* The pages that a browser shows are always one list of one catalog, and complete when
\* there is no cursor.
THEOREM PagesAlwaysOfOneCatalog == WebSpec => []PagesOfOneCatalog
  <1>1. WebInv => PagesOfOneCatalog
    BY DEF WebInv
  <1> QED
    BY <1>1, Invariance, PTL

\* A browser never shows a list older than the catalog it has heard of.
THEOREM ListAlwaysFollowsSource == WebSpec => []ListFollowsSource
  <1>1. WebInv => ListFollowsSource
    BY DEF WebInv
  <1> QED
    BY <1>1, Invariance, PTL

\* A request of an obsolete catalog takes no live session of the published one away.
THEOREM CurrentCursorsAlwaysKept == WebSpec => CurrentCursorsKept
  <1> DEFINE Kept == \A r \in Readers : PageStep(r) /\ ask[r].snap # committed =>
                        {s \in Purged(sessions, clock) : s.gen = committed} \subseteq sessions'
  <1>1. WebInv => Kept
    <2> SUFFICES ASSUME WebInv, NEW r \in Readers, PageStep(r), ask[r].snap # committed
                 PROVE  {s \in Purged(sessions, clock) : s.gen = committed} \subseteq sessions'
      OBVIOUS
    <2>1. StoreInv /\ RequestInv /\ ReaderInv(r) /\ ~SameCatalog(r)
      BY DEF WebInv, RequestInv, SameCatalog
    <2>2. CASE \/ ReserveSearchSessionIds(r) \/ Materialize(r) \/ PublishSearchSession(r)
               \/ ReleaseSearchSessionReservation(r) \/ Recheck(r)
      <3>1. sessions' = sessions
        BY <2>1, <2>2 DEF ReserveSearchSessionIds, Materialize, PublishSearchSession,
                          ReleaseSearchSessionReservation, Recheck, storeVars
      <3> QED
        BY <3>1 DEF Purged
    <2>3. CASE RemoveSearchSession(r)
      <3>1. /\ pc[r] = "withdraw"
            /\ sessions' = sessions \ {s \in sessions : s.id = ticket[r].id}
        BY <2>3 DEF RemoveSearchSession
      <3>2. \A s \in sessions : s.id = ticket[r].id => s.gen = ask[r].snap
        BY <2>1, <3>1 DEF ReaderInv, Settled
      <3> QED
        BY <3>1, <3>2 DEF Purged
    <2>4. CASE ReadSearchSessionSlice(r)
      <3> DEFINE live == Purged(sessions, ask[r].moment)
                 found == {s \in live : s.id = ask[r].cursor.session}
                 fresh == {s \in found : s.gen = ask[r].snap}
                 valid == {s \in fresh : /\ s.query = ask[r].query
                                         /\ s.first <= ask[r].from /\ ask[r].from < s.size}
                 kept == IF fresh = {} THEN live \ found ELSE live
      <3>1. pc[r] = "slice"
        BY <2>4 DEF ReadSearchSessionSlice
      <3>2. /\ ask[r].cursor \in Cursors /\ ask[r].cursor.gen = ask[r].snap
            /\ ask[r].moment <= clock /\ Sound(ask[r].cursor)
        BY <2>1, <3>1 DEF ReaderInv
      <3>3. \A s \in sessions : s.id = ask[r].cursor.session => s.gen = ask[r].snap
        BY <3>2, CursorIsOne DEF Sound, Settled
      <3>4. Purged(sessions, clock) \subseteq live
        <4>1. /\ ask[r].moment \in Nat /\ clock \in Nat /\ GSearchSessionTtl \in Nat
              /\ \A s \in sessions : s.access \in Nat
          BY <2>1, CursorAssumption DEF RequestInv, RequestTypeOK, AskRecords, StoreInv, SessionRecords
        <4> QED
          BY <3>2, <4>1 DEF Purged
      <3>5. live \subseteq sessions
        BY DEF Purged
      <3>6. sessions' = kept \/ \E u : sessions' = (live \ valid) \cup {u}
        BY <2>4 DEF ReadSearchSessionSlice
      <3> HIDE DEF live
      <3>7. \A s \in live : s.gen = committed => s \in kept /\ s \in live \ valid
        BY <2>1, <3>3, <3>5
      <3> HIDE DEF kept, valid
      <3> QED
        BY <3>4, <3>6, <3>7
    <2> QED
      BY <2>2, <2>3, <2>4 DEF PageStep
  <1> HIDE DEF Kept
  <1>2. WebInv => [Kept]_vars
    BY <1>1
  <1>3. CurrentCursorsKept <=> [][Kept]_vars
    BY DEF CurrentCursorsKept, Kept
  <1> QED
    BY <1>2, <1>3, Invariance, PTL
=============================================================================
