-------------------------- MODULE CoverReaders_proofs --------------------------
(***************************************************************************)
(* Proofs about CoverReaders, and with it CoverCache, for any books, any   *)
(* covers and any readers, whatever the bounds on scans and on failures.   *)
(***************************************************************************)
EXTENDS CoverReaders, FiniteSetTheorems, TLAPS

-----------------------------------------------------------------------------
(* The inductive invariant                                                 *)

Places == {"idle", "write", "rename", "record", "rollback", "collect"}

\* Where the transaction is still open and its rows count.
Writing == {"write", "rename", "record"}

FilesTypeOK ==
    /\ files \subseteq Covers /\ registered \subseteq Covers /\ unvisited \subseteq Covers
    /\ pc \in Places

ItemTypeOK ==
    /\ pc \in {"rename", "record"} => item.book \in Books
    /\ pc = "rename" => item.cover \in Covers
    /\ pc = "record" => item.cover \in files \cup {NoCover}

PathsTypeOK ==
    /\ db.path \in [Books -> Covers \cup {NoCover, NoRow}]
    /\ txn.path \in [Books -> Covers \cup {NoCover, NoRow}]
    /\ DOMAIN db = {"path", "refs", "bytes"} /\ DOMAIN txn = {"path", "refs", "bytes"}

\* A cover is on disk before a row of the transaction names it.
ReferenceInv ==
    /\ Referenced(db) \subseteq files
    /\ pc \in Writing => Referenced(txn) \subseteq files

\* What a rollback will remove was not there when the scan began, so no committed row
\* names it; and nothing else was added.
RollbackInv ==
    /\ pc = "idle" => registered = {}
    /\ pc \in Writing \cup {"rollback"} =>
          /\ registered \cap Referenced(db) = {}
          /\ registered \cap before = {}
          /\ before \subseteq files
          /\ files \subseteq before \cup registered \cup stuck
          /\ pc = "rename" => item.cover \in registered

\* A file is still to be visited, stuck, or referenced.
CollectionInv ==
    pc = "collect" => files \subseteq unvisited \cup stuck \cup Referenced(db)

FilesInv == FilesTypeOK /\ ItemTypeOK /\ PathsTypeOK /\ ReferenceInv /\ RollbackInv /\ CollectionInv

\* The covers that have a row in catalog_stat_cover_files, and what the statistics are to be.
Counted(d) == {c \in Covers : d.refs[c] > 0}

StatTypeOK(d) == d.refs \in [Covers -> Nat] /\ DOMAIN d = {"path", "refs", "bytes"}

CountsExact(d) == \A c \in Covers : d.refs[c] = StoredReferences(d, c)

BytesExact(d) == d.bytes = Bytes(Counted(d))

Exact(d) == StatTypeOK(d) /\ CountsExact(d) /\ BytesExact(d)

StatisticsInv ==
    /\ Exact(db) /\ db.bytes <= MaxCoverBytes
    /\ pc \in Writing => Exact(txn) /\ txn.bytes <= MaxCoverBytes

\* A request has the cover of a committed row, or the row has changed since.
ReaderInv ==
    \A r \in Readers :
        /\ reader[r].step # "idle" => \/ reader[r].cover \in Referenced(db)
                                      \/ reader[r].dropped
        /\ reader[r].step = "404" => reader[r].dropped

ReaderTypeOK ==
    reader \in [Readers -> [step: {"idle", "looked up", "resolved", "sized", "open", "404"},
                            book: Books \cup {NoRow}, cover: Covers \cup {NoCover},
                            dropped: BOOLEAN]]

ReadersInv == ReaderTypeOK /\ ReaderInv

-----------------------------------------------------------------------------
(* The writer                                                              *)

\* There is nothing on disk and nothing in the catalog.
LEMMA FilesInit == Init => FilesInv
  <1> SUFFICES ASSUME Init PROVE FilesInv
    OBVIOUS
  <1>1. Referenced(db) = {} /\ Referenced(txn) = {}
    BY CoverAssumption DEF Init, EmptyRows, Referenced
  <1>2. PathsTypeOK
    BY DEF Init, PathsTypeOK, EmptyRows
  <1> QED
    BY <1>1, <1>2 DEF Init, FilesInv, FilesTypeOK, ItemTypeOK, ReferenceInv, RollbackInv,
       CollectionInv, Places, Writing

\* The statistics leave the paths alone.
LEMMA StatisticsKeepPaths ==
    ASSUME NEW d, DOMAIN d = {"path", "refs", "bytes"}, NEW c, NEW e
    PROVE  /\ IncrementCoverReference(d, c).path = d.path
           /\ DOMAIN IncrementCoverReference(d, c) = {"path", "refs", "bytes"}
           /\ DecrementCoverReference(d, c).path = d.path
           /\ DOMAIN DecrementCoverReference(d, c) = {"path", "refs", "bytes"}
           /\ RefreshCoverReferenceSize(d, c).path = d.path
           /\ DOMAIN RefreshCoverReferenceSize(d, c) = {"path", "refs", "bytes"}
           /\ RecordCoverPathChanged(d, e, c).path = d.path
           /\ DOMAIN RecordCoverPathChanged(d, e, c) = {"path", "refs", "bytes"}
  <1>1. ASSUME NEW g, DOMAIN g = {"path", "refs", "bytes"}, NEW x
        PROVE  /\ IncrementCoverReference(g, x).path = g.path
               /\ DOMAIN IncrementCoverReference(g, x) = {"path", "refs", "bytes"}
    BY <1>1 DEF IncrementCoverReference
  <1>2. ASSUME NEW g, DOMAIN g = {"path", "refs", "bytes"}, NEW x
        PROVE  /\ DecrementCoverReference(g, x).path = g.path
               /\ DOMAIN DecrementCoverReference(g, x) = {"path", "refs", "bytes"}
    BY <1>2 DEF DecrementCoverReference
  <1>3. /\ RefreshCoverReferenceSize(d, c).path = d.path
        /\ DOMAIN RefreshCoverReferenceSize(d, c) = {"path", "refs", "bytes"}
    BY DEF RefreshCoverReferenceSize
  <1>4. /\ RecordCoverPathChanged(d, e, c).path = d.path
        /\ DOMAIN RecordCoverPathChanged(d, e, c) = {"path", "refs", "bytes"}
    <2>1. CASE e = c
      BY <2>1, <1>3 DEF RecordCoverPathChanged
    <2>2. CASE e # c
      <3> DEFINE g == DecrementCoverReference(d, e)
      <3>1. g.path = d.path /\ DOMAIN g = {"path", "refs", "bytes"}
        BY <1>2
      <3> HIDE DEF g
      <3>2. /\ IncrementCoverReference(g, c).path = d.path
            /\ DOMAIN IncrementCoverReference(g, c) = {"path", "refs", "bytes"}
        BY <1>1, <3>1
      <3> QED
        BY <2>2, <3>2 DEF RecordCoverPathChanged, g
    <2> QED
      BY <2>1, <2>2
  <1> QED
    BY <1>1, <1>2, <1>3, <1>4

\* A row is written: its path is the cover's, which is on disk.
LEMMA RecordedPath ==
    ASSUME FilesInv, RecordCover
    PROVE  /\ item.book \in Books
           /\ txn'.path = [txn.path EXCEPT ![item.book] = item.cover]
           /\ DOMAIN txn' = {"path", "refs", "bytes"}
  <1> DEFINE with == [txn EXCEPT !.path[item.book] = item.cover]
  <1>1. item.book \in Books
    BY DEF FilesInv, ItemTypeOK, RecordCover
  <1>2. with.path = [txn.path EXCEPT ![item.book] = item.cover] /\ DOMAIN with = {"path", "refs", "bytes"}
    BY DEF FilesInv, PathsTypeOK
  <1>3. \/ txn' = IncrementCoverReference(with, item.cover)
        \/ txn' = RecordCoverPathChanged(with, txn.path[item.book], item.cover)
    BY DEF RecordCover
  <1> HIDE DEF with
  <1> QED
    BY <1>1, <1>2, <1>3, StatisticsKeepPaths

\* The scan is over, one way or another.
LEMMA LeaveStep ==
    ASSUME FilesInv, LeaveScan, UNCHANGED <<files, stuck, db>>
    PROVE  FilesInv'
  BY DEF FilesInv, LeaveScan, FilesTypeOK, ItemTypeOK, PathsTypeOK, ReferenceInv, RollbackInv,
     CollectionInv, Places, Writing, EmptyRows, Referenced

\* Every step of the writer preserves the invariant, a crash included.
LEMMA FilesStep ==
    ASSUME FilesInv, [Next]_vars
    PROVE  FilesInv'
  <1> USE DEF Places, Writing
  <1>1. CASE BeginScan
    BY <1>1 DEF BeginScan, FilesInv, FilesTypeOK, ItemTypeOK, PathsTypeOK, ReferenceInv,
       RollbackInv, CollectionInv, Referenced
  <1>2. ASSUME NEW b \in Books, NEW c \in Covers \cup {NoCover}, CacheInpxCover(b, c)
        PROVE  FilesInv'
    <2>1. UNCHANGED <<files, stuck, db, txn, before, unvisited>>
      BY <1>2 DEF CacheInpxCover
    <2>2. PathsTypeOK' /\ ReferenceInv' /\ CollectionInv'
      BY <1>2, <2>1 DEF FilesInv, CacheInpxCover, PathsTypeOK, ReferenceInv, CollectionInv, Referenced
    <2>3. FilesTypeOK' /\ ItemTypeOK'
      BY <1>2, <2>1 DEF FilesInv, CacheInpxCover, FilesTypeOK, ItemTypeOK
    <2>4. RollbackInv'
      BY <1>2, <2>1 DEF FilesInv, CacheInpxCover, RollbackInv, ReferenceInv, Referenced
    <2> QED
      BY <2>2, <2>3, <2>4 DEF FilesInv
  <1>3. CASE RenameCover
    <2>1. UNCHANGED <<stuck, db, txn, item, registered, before, unvisited>>
      BY <1>3 DEF RenameCover
    <2>2. item.cover \in Covers /\ item.cover \in registered /\ item.book \in Books
      BY <1>3 DEF RenameCover, FilesInv, ItemTypeOK, RollbackInv
    <2> QED
      BY <1>3, <2>1, <2>2 DEF RenameCover, FilesInv, FilesTypeOK, ItemTypeOK, PathsTypeOK,
         ReferenceInv, RollbackInv, CollectionInv, Referenced
  <1>4. CASE RecordCover
    <2>1. /\ UNCHANGED <<files, stuck, db, registered, before, unvisited>>
          /\ pc = "record" /\ pc' \in {"write", "rollback"}
      BY <1>4 DEF RecordCover
    <2>2. item.cover \in files \cup {NoCover}
      BY <2>1 DEF FilesInv, ItemTypeOK
    <2>3. FilesTypeOK' /\ ItemTypeOK' /\ CollectionInv' /\ RollbackInv'
      BY <2>1 DEF FilesInv, FilesTypeOK, ItemTypeOK, CollectionInv, RollbackInv, Referenced
    <2>4. PathsTypeOK'
      BY <1>4, <2>1, <2>2, RecordedPath DEF FilesInv, PathsTypeOK, FilesTypeOK
    <2>5. ReferenceInv'
      <3>1. Referenced(txn)' \subseteq Referenced(txn) \cup {item.cover}
        BY <1>4, RecordedPath DEF Referenced, FilesInv, PathsTypeOK
      <3>2. NoCover \notin Referenced(txn)'
        BY CoverAssumption DEF Referenced
      <3> QED
        BY <2>1, <2>2, <3>1, <3>2 DEF FilesInv, ReferenceInv, Referenced
    <2> QED
      BY <2>3, <2>4, <2>5 DEF FilesInv
  <1>5. CASE Abandon
    BY <1>5 DEF Abandon, FilesInv, FilesTypeOK, ItemTypeOK, PathsTypeOK, ReferenceInv,
       RollbackInv, CollectionInv, Referenced
  <1>6. ASSUME NEW c \in Covers, RollbackCover(c)
        PROVE  FilesInv'
    <2>1. /\ UNCHANGED <<db, txn, pc, item, before, unvisited>>
          /\ pc = "rollback" /\ c \in registered /\ registered' = registered \ {c}
          /\ \/ files' = files \ {c} /\ stuck' = stuck
             \/ files' = files /\ stuck' = stuck \cup {c}
      BY <1>6 DEF RollbackCover, RemoveCover
    <2>2. c \notin Referenced(db) /\ c \notin before
      BY <2>1 DEF FilesInv, RollbackInv
    <2>3. FilesTypeOK' /\ ItemTypeOK' /\ PathsTypeOK' /\ CollectionInv'
      BY <2>1 DEF FilesInv, FilesTypeOK, ItemTypeOK, PathsTypeOK, CollectionInv
    <2>4. ReferenceInv'
      BY <2>1, <2>2 DEF FilesInv, ReferenceInv, Referenced
    <2>5. RollbackInv'
      BY <2>1, <2>2 DEF FilesInv, RollbackInv, Referenced
    <2> QED
      BY <2>3, <2>4, <2>5 DEF FilesInv
  <1>7. ASSUME NEW c \in Covers, CollectCover(c)
        PROVE  FilesInv'
    <2>1. /\ UNCHANGED <<db, txn, pc, item, before, registered>>
          /\ pc = "collect" /\ unvisited' = unvisited \ {c}
          /\ \/ files' = files \ {c} /\ stuck' = stuck /\ c \notin Referenced(db)
             \/ files' = files /\ stuck' = stuck \cup {c}
             \/ files' = files /\ stuck' = stuck /\ c \in Referenced(db)
      BY <1>7 DEF CollectCover, RemoveCover, Unreferenced
    <2> QED
      BY <2>1 DEF FilesInv, FilesTypeOK, ItemTypeOK, PathsTypeOK, ReferenceInv, RollbackInv,
         CollectionInv, Referenced
  <1>8. CASE EndRollback \/ EndCollection \/ Crash
    BY <1>8, LeaveStep DEF EndRollback, EndCollection, Crash
  <1>9. CASE Commit
    BY <1>9 DEF Commit, FilesInv, FilesTypeOK, ItemTypeOK, PathsTypeOK, ReferenceInv,
       RollbackInv, CollectionInv, Referenced
  <1>10. CASE UNCHANGED vars
    BY <1>10 DEF vars, FilesInv, FilesTypeOK, ItemTypeOK, PathsTypeOK, ReferenceInv,
       RollbackInv, CollectionInv, Referenced
  <1> QED
    BY <1>1, <1>2, <1>3, <1>4, <1>5, <1>6, <1>7, <1>8, <1>9, <1>10 DEF Next, WriterStep

-----------------------------------------------------------------------------
(* The statistics                                                          *)

\* The numbers from 1 to n are n.
LEMMA IntervalSize ==
    ASSUME NEW n \in Nat
    PROVE  IsFiniteSet(1..n) /\ Cardinality(1..n) = n
  <1>1. 1 \in Int /\ n \in Int
    OBVIOUS
  <1>2. IsFiniteSet(1..n) /\ Cardinality(1..n) = IF 1 > n THEN 0 ELSE n - 1 + 1
    BY <1>1, FS_Interval, Zenon
  <1>3. (IF 1 > n THEN 0 ELSE n - 1 + 1) = n
    OBVIOUS
  <1> QED
    BY <1>2, <1>3

\* The bytes of finitely many covers add up.
LEMMA BytesType ==
    ASSUME NEW C \in SUBSET Covers
    PROVE  /\ IsFiniteSet(UNION {{c} \X (1..SizeOf[c]) : c \in C})
           /\ Bytes(C) \in Nat
  <1> DEFINE one == [c \in C |-> {c} \X (1..SizeOf[c])]
             all == {{c} \X (1..SizeOf[c]) : c \in C}
  <1>1. IsFiniteSet(C)
    BY FS_Subset, CoverAssumption
  <1>2. one \in Surjection(C, all)
    BY DEF Surjection
  <1>3. IsFiniteSet(all)
    BY <1>1, <1>2, FS_Surjection
  <1>4. ASSUME NEW c \in C PROVE IsFiniteSet({c} \X (1..SizeOf[c]))
    <2>1. SizeOf[c] \in Nat
      BY CoverAssumption
    <2>2. IsFiniteSet({c})
      BY FS_Singleton
    <2>3. IsFiniteSet(1..SizeOf[c])
      BY <2>1, FS_Interval
    <2> QED
      BY <2>2, <2>3, FS_Product
  <1>5. IsFiniteSet(UNION all)
    BY <1>3, <1>4, FS_UNION
  <1> QED
    BY <1>5, FS_CardinalityType DEF Bytes

\* One cover more.
LEMMA BytesAdd ==
    ASSUME NEW C \in SUBSET Covers, NEW c \in Covers, c \notin C
    PROVE  Bytes(C \cup {c}) = Bytes(C) + SizeOf[c]
  <1> DEFINE B(D) == UNION {{e} \X (1..SizeOf[e]) : e \in D}
             own == {c} \X (1..SizeOf[c])
  <1>1. SizeOf[c] \in Nat
    BY CoverAssumption
  <1>2. IsFiniteSet(own) /\ Cardinality(own) = SizeOf[c]
    <2>1. IsFiniteSet({c}) /\ Cardinality({c}) = 1
      BY FS_Singleton
    <2>2. IsFiniteSet(1..SizeOf[c]) /\ Cardinality(1..SizeOf[c]) = SizeOf[c]
      BY <1>1, IntervalSize
    <2>3. IsFiniteSet(own) /\ Cardinality(own) = Cardinality({c}) * Cardinality(1..SizeOf[c])
      BY <2>1, <2>2, FS_Product
    <2>4. Cardinality({c}) * Cardinality(1..SizeOf[c]) = SizeOf[c]
      BY <1>1, <2>1, <2>2
    <2> QED
      BY <2>3, <2>4
  <1>3. IsFiniteSet(B(C)) /\ Cardinality(B(C)) \in Nat /\ Cardinality(B(C)) = Bytes(C)
    BY BytesType DEF Bytes
  <1>4. B(C \cup {c}) = B(C) \cup own
    OBVIOUS
  <1>5. B(C) \cap own = {}
    OBVIOUS
  <1>6. Cardinality(B(C) \cup own) = Bytes(C) + SizeOf[c] - Cardinality({})
    BY <1>2, <1>3, <1>5, FS_Union
  <1>7. Bytes(C \cup {c}) = Cardinality(B(C) \cup own)
    BY <1>4 DEF Bytes
  <1> HIDE DEF B, own
  <1> QED
    BY <1>1, <1>3, <1>6, <1>7, FS_EmptySet

\* A reference more of a cover whose file is there.
LEMMA IncrementExact ==
    ASSUME NEW d, StatTypeOK(d), BytesExact(d), files \subseteq Covers, NEW c \in files
    PROVE  LET new == IncrementCoverReference(d, c)
           IN  /\ StatTypeOK(new) /\ BytesExact(new)
               /\ new.path = d.path
               /\ new.refs = [d.refs EXCEPT ![c] = @ + 1]
  <1> DEFINE new == IncrementCoverReference(d, c)
  <1>1. c \in Covers /\ c # NoCover /\ SizeOf[c] \in Nat /\ d.refs[c] \in Nat
    BY CoverAssumption DEF StatTypeOK
  <1>2. new = [d EXCEPT !.refs[c] = @ + 1,
                        !.bytes = IF d.refs[c] = 0 THEN @ + SizeOf[c] ELSE @]
    BY <1>1 DEF IncrementCoverReference
  <1>3. /\ new.path = d.path /\ DOMAIN new = {"path", "refs", "bytes"}
        /\ new.refs = [d.refs EXCEPT ![c] = @ + 1]
        /\ new.bytes = IF d.refs[c] = 0 THEN d.bytes + SizeOf[c] ELSE d.bytes
    BY <1>2 DEF StatTypeOK
  <1> HIDE DEF new
  <1>4. StatTypeOK(new)
    BY <1>1, <1>3 DEF StatTypeOK
  <1>5. Counted(new) = Counted(d) \cup {c}
    BY <1>1, <1>3 DEF Counted, StatTypeOK
  <1>6. BytesExact(new)
    <2>1. CASE d.refs[c] = 0
      <3>1. c \notin Counted(d) /\ Counted(d) \in SUBSET Covers
        BY <2>1 DEF Counted
      <3>2. Bytes(Counted(d) \cup {c}) = Bytes(Counted(d)) + SizeOf[c]
        BY <3>1, <1>1, BytesAdd
      <3> QED
        BY <2>1, <3>2, <1>3, <1>5 DEF BytesExact
    <2>2. CASE d.refs[c] # 0
      <3>1. Counted(d) \cup {c} = Counted(d)
        BY <2>2, <1>1 DEF Counted
      <3> QED
        BY <2>2, <3>1, <1>3, <1>5 DEF BytesExact
    <2> QED
      BY <2>1, <2>2
  <1> QED
    BY <1>3, <1>4, <1>6 DEF new

\* A reference less of a cover that has one.
LEMMA DecrementExact ==
    ASSUME NEW d, StatTypeOK(d), BytesExact(d), NEW c \in Covers, d.refs[c] > 0
    PROVE  LET new == DecrementCoverReference(d, c)
           IN  /\ StatTypeOK(new) /\ BytesExact(new)
               /\ new.path = d.path
               /\ new.refs = [d.refs EXCEPT ![c] = @ - 1]
  <1> DEFINE new == DecrementCoverReference(d, c)
  <1>1. c # NoCover /\ SizeOf[c] \in Nat /\ d.refs[c] \in Nat
    BY CoverAssumption DEF StatTypeOK
  <1>2. new = [d EXCEPT !.refs[c] = @ - 1,
                        !.bytes = IF d.refs[c] = 1 THEN @ - SizeOf[c] ELSE @]
    BY <1>1 DEF DecrementCoverReference
  <1>3. /\ new.path = d.path /\ DOMAIN new = {"path", "refs", "bytes"}
        /\ new.refs = [d.refs EXCEPT ![c] = @ - 1]
        /\ new.bytes = IF d.refs[c] = 1 THEN d.bytes - SizeOf[c] ELSE d.bytes
    BY <1>2 DEF StatTypeOK
  <1> HIDE DEF new
  <1>4. StatTypeOK(new)
    BY <1>1, <1>3 DEF StatTypeOK
  <1>5. Counted(d) \in SUBSET Covers /\ Counted(new) \in SUBSET Covers
    BY DEF Counted
  <1>6. BytesExact(new)
    <2>1. CASE d.refs[c] = 1
      <3>1. c \notin Counted(new) /\ Counted(d) = Counted(new) \cup {c}
        BY <2>1, <1>1, <1>3 DEF Counted, StatTypeOK
      <3>2. Bytes(Counted(d)) = Bytes(Counted(new)) + SizeOf[c]
        BY <3>1, <1>5, BytesAdd
      <3>3. Bytes(Counted(new)) \in Nat
        BY <1>5, BytesType
      <3> QED
        BY <2>1, <3>2, <3>3, <1>1, <1>3 DEF BytesExact
    <2>2. CASE d.refs[c] # 1
      <3>1. Counted(d) = Counted(new)
        BY <2>2, <1>1, <1>3 DEF Counted, StatTypeOK
      <3> QED
        BY <2>2, <3>1, <1>3 DEF BytesExact
    <2> QED
      BY <2>1, <2>2
  <1> QED
    BY <1>3, <1>4, <1>6 DEF new

\* How many rows name a cover.
Users(p, c) == Cardinality({x \in Books : p[x] = c})

\* A row that names a cover is counted.
LEMMA UserCounted ==
    ASSUME NEW p, NEW b \in Books
    PROVE  Users(p, p[b]) > 0
  <1> DEFINE P == {x \in Books : p[x] = p[b]}
  <1>1. IsFiniteSet(P) /\ Cardinality(P) \in Nat
    BY FS_Subset, FS_CardinalityType, CoverAssumption
  <1>2. P # {}
    OBVIOUS
  <1> HIDE DEF P
  <1>3. Cardinality(P) > 0
    BY <1>1, <1>2, FS_EmptySet
  <1> QED
    BY <1>3 DEF P, Users

\* How many do when one row changes.
LEMMA UsersOfChange ==
    ASSUME NEW p \in [Books -> Covers \cup {NoCover, NoRow}], NEW b \in Books, NEW new, NEW c,
           p[b] # new, NEW q, q = [p EXCEPT ![b] = new]
    PROVE  /\ Users(p, c) \in Nat
           /\ c = new => Users(q, c) = Users(p, c) + 1
           /\ c = p[b] => Users(q, c) = Users(p, c) - 1
           /\ c # new /\ c # p[b] => Users(q, c) = Users(p, c)
  <1> DEFINE P == {x \in Books : p[x] = c}
             Q == {x \in Books : q[x] = c}
  <1>1. IsFiniteSet(P) /\ Cardinality(P) \in Nat
    BY FS_Subset, FS_CardinalityType, CoverAssumption
  <1>2. ASSUME c = new PROVE Q = P \cup {b} /\ b \notin P
    BY <1>2
  <1>3. ASSUME c = p[b] PROVE Q = P \ {b} /\ b \in P
    BY <1>3
  <1>4. ASSUME c # new, c # p[b] PROVE Q = P
    BY <1>4
  <1>5. Cardinality(P \cup {b}) = IF b \in P THEN Cardinality(P) ELSE Cardinality(P) + 1
    BY <1>1, FS_AddElement
  <1>6. Cardinality(P \ {b}) = IF b \in P THEN Cardinality(P) - 1 ELSE Cardinality(P)
    BY <1>1, FS_RemoveElement
  <1> HIDE DEF P, Q
  <1>7. /\ Cardinality(P) \in Nat
        /\ c = new => Cardinality(Q) = Cardinality(P) + 1
        /\ c = p[b] => Cardinality(Q) = Cardinality(P) - 1
        /\ c # new /\ c # p[b] => Cardinality(Q) = Cardinality(P)
    BY <1>1, <1>2, <1>3, <1>4, <1>5, <1>6
  <1> QED
    BY <1>7 DEF P, Q, Users

\* UpdateBookCoverPath with RecordCoverPathChanged: the statistics stay exact.
LEMMA RecordExact ==
    ASSUME FilesInv, RecordCover, Exact(txn)
    PROVE  Exact(txn')
  <1> DEFINE b == item.book
             cover == item.cover
             old == txn.path[b]
             with == [txn EXCEPT !.path[b] = cover]
             new == IF old = NoRow THEN IncrementCoverReference(with, cover)
                    ELSE RecordCoverPathChanged(with, old, cover)
  <1>1. b \in Books /\ cover \in files \cup {NoCover} /\ files \subseteq Covers
    BY DEF FilesInv, ItemTypeOK, RecordCover, FilesTypeOK
  <1>2. txn.path \in [Books -> Covers \cup {NoCover, NoRow}]
    BY DEF FilesInv, PathsTypeOK
  <1>3. txn' = new
    BY DEF RecordCover
  <1>4. /\ with.path = [txn.path EXCEPT ![b] = cover] /\ with.refs = txn.refs
        /\ with.bytes = txn.bytes /\ DOMAIN with = {"path", "refs", "bytes"}
    BY DEF Exact, StatTypeOK
  <1>5. StatTypeOK(with) /\ BytesExact(with)
    BY <1>4 DEF Exact, StatTypeOK, BytesExact, Counted
  <1>6. NoCover \notin Covers /\ NoRow \notin Covers /\ NoRow # NoCover
    BY CoverAssumption
  <1> HIDE DEF b, cover, old, with
  <1>7. CASE old = cover
    <2>1. with.path = txn.path
      BY <1>1, <1>2, <1>4, <1>7 DEF old
    <2>2. cover # NoCover => txn.refs[cover] > 0
      <3> SUFFICES ASSUME cover # NoCover PROVE txn.refs[cover] > 0
        OBVIOUS
      <3>1. txn.refs[cover] = Users(txn.path, cover)
        BY <1>1 DEF Exact, CountsExact, StoredReferences, Users
      <3>2. Users(txn.path, txn.path[b]) > 0
        BY <1>1, UserCounted
      <3> QED
        BY <1>7, <3>1, <3>2 DEF old
    <2>3. new = with
      BY <1>1, <1>4, <1>6, <1>7, <2>2 DEF RecordCoverPathChanged, RefreshCoverReferenceSize
    <2>4. CountsExact(with)
      BY <1>4, <2>1 DEF Exact, CountsExact, StoredReferences
    <2> QED
      BY <1>3, <1>5, <2>3, <2>4 DEF Exact
  <1>8. CASE old # cover
    <2> DEFINE mid == IF old \in Covers THEN DecrementCoverReference(with, old) ELSE with
               refs == IF old \in Covers THEN [txn.refs EXCEPT ![old] = @ - 1] ELSE txn.refs
    <2>1. new = IncrementCoverReference(mid, cover)
      <3>1. old \in Covers \cup {NoCover, NoRow}
        BY <1>1, <1>2 DEF old
      <3>2. old = NoCover => DecrementCoverReference(with, old) = with
        BY DEF DecrementCoverReference
      <3>3. old = NoRow => new = IncrementCoverReference(with, cover)
        OBVIOUS
      <3>4. old # NoRow => new = IncrementCoverReference(DecrementCoverReference(with, old), cover)
        BY <1>8 DEF RecordCoverPathChanged
      <3> QED
        BY <1>6, <3>1, <3>2, <3>3, <3>4
    <2>2. \A c \in Covers : /\ txn.refs[c] \in Nat
                            /\ txn.refs[c] = Users(txn.path, c)
      BY DEF Exact, StatTypeOK, CountsExact, StoredReferences, Users
    <2>3. old \in Covers => txn.refs[old] > 0
      <3> SUFFICES ASSUME old \in Covers PROVE Users(txn.path, old) > 0
        BY <2>2
      <3>1. Users(txn.path, txn.path[b]) > 0
        BY <1>1, UserCounted
      <3> QED
        BY <3>1 DEF old
    <2>4. /\ StatTypeOK(mid) /\ BytesExact(mid)
          /\ mid.path = with.path /\ mid.refs = refs
      <3>1. CASE old \in Covers
        <4>1. with.refs[old] > 0
          BY <1>4, <2>3, <3>1
        <4>2. /\ StatTypeOK(DecrementCoverReference(with, old))
              /\ BytesExact(DecrementCoverReference(with, old))
              /\ DecrementCoverReference(with, old).path = with.path
              /\ DecrementCoverReference(with, old).refs = [with.refs EXCEPT ![old] = @ - 1]
          BY <1>5, <3>1, <4>1, DecrementExact
        <4> QED
          BY <1>4, <3>1, <4>2
      <3>2. CASE old \notin Covers
        BY <1>4, <1>5, <3>2
      <3> QED
        BY <3>1, <3>2
    <2> HIDE DEF mid, new
    <2>5. /\ StatTypeOK(new) /\ BytesExact(new) /\ new.path = with.path
          /\ new.refs = IF cover = NoCover THEN refs ELSE [refs EXCEPT ![cover] = @ + 1]
      <3>1. CASE cover = NoCover
        BY <2>1, <2>4, <3>1 DEF IncrementCoverReference
      <3>2. CASE cover # NoCover
        BY <1>1, <2>1, <2>4, <3>2, IncrementExact
      <3> QED
        BY <3>1, <3>2
    <2>6. CountsExact(new)
      <3> SUFFICES ASSUME NEW c \in Covers PROVE new.refs[c] = StoredReferences(new, c)
        BY DEF CountsExact
      <3> DEFINE n == Users(txn.path, c)
                 m == Users([txn.path EXCEPT ![b] = cover], c)
      <3>1. /\ n \in Nat /\ (c = cover => m = n + 1) /\ (c = old => m = n - 1)
            /\ (c # cover /\ c # old => m = n)
        <4>1. txn.path[b] # cover
          BY <1>8 DEF old
        <4>2. PICK q : q = [txn.path EXCEPT ![b] = cover]
          OBVIOUS
        <4>3. /\ Users(txn.path, c) \in Nat
              /\ c = cover => Users(q, c) = Users(txn.path, c) + 1
              /\ c = txn.path[b] => Users(q, c) = Users(txn.path, c) - 1
              /\ c # cover /\ c # txn.path[b] => Users(q, c) = Users(txn.path, c)
          BY <1>1, <1>2, <4>1, <4>2, UsersOfChange
        <4> QED
          BY <4>2, <4>3 DEF old
      <3>2. StoredReferences(new, c) = m /\ txn.refs[c] = n
        BY <2>2, <2>5, <1>4 DEF StoredReferences, Users
      <3> HIDE DEF n, m
      <3>3. /\ c = cover => new.refs[c] = txn.refs[c] + 1
            /\ c = old => new.refs[c] = txn.refs[c] - 1
            /\ c # cover /\ c # old => new.refs[c] = txn.refs[c]
        BY <1>6, <1>8, <2>5 DEF Exact, StatTypeOK
      <3> QED
        BY <3>1, <3>2, <3>3
    <2> QED
      BY <1>3, <2>5, <2>6 DEF Exact
  <1> QED
    BY <1>7, <1>8

\* The bytes the counted covers take are those of the covers that rows name.
LEMMA CountedIsReferenced ==
    ASSUME NEW d, Exact(d)
    PROVE  Counted(d) = Referenced(d)
  <1> SUFFICES ASSUME NEW c \in Covers
               PROVE  d.refs[c] > 0 <=> \E b \in Books : d.path[b] = c
    BY DEF Counted, Referenced
  <1> DEFINE P == {b \in Books : d.path[b] = c}
  <1>1. IsFiniteSet(P) /\ Cardinality(P) \in Nat
    BY FS_Subset, FS_CardinalityType, CoverAssumption
  <1>2. d.refs[c] = Cardinality(P)
    BY DEF Exact, CountsExact, StoredReferences
  <1>3. P = {} <=> ~\E b \in Books : d.path[b] = c
    OBVIOUS
  <1> HIDE DEF P
  <1> QED
    BY <1>1, <1>2, <1>3, FS_EmptySet

\* Every step of the writer keeps the statistics of the committed rows and of the open
\* transaction exact, and those of a transaction that goes on within the budget.
LEMMA StatisticsStep ==
    ASSUME FilesInv, StatisticsInv, [Next]_vars
    PROVE  StatisticsInv'
  <1>1. CASE RecordCover
    <2>1. /\ db' = db /\ pc = "record" /\ pc' \in {"write", "rollback"}
          /\ pc' = "write" => txn'.bytes <= MaxCoverBytes
      BY <1>1 DEF RecordCover, WithinBudget
    <2>2. Exact(txn')
      BY <1>1, <2>1, RecordExact DEF StatisticsInv, Writing
    <2> QED
      BY <2>1, <2>2 DEF StatisticsInv, Writing, Exact, StatTypeOK, CountsExact, BytesExact,
         Counted, StoredReferences
  <1>2. CASE BeginScan
    BY <1>2 DEF StatisticsInv, BeginScan, Writing, Exact, StatTypeOK, CountsExact, BytesExact,
       Counted, StoredReferences
  <1>3. CASE Commit
    BY <1>3 DEF StatisticsInv, Commit, Writing, Exact, StatTypeOK, CountsExact, BytesExact,
       Counted, StoredReferences
  <1>4. ASSUME \/ \E b \in Books, c \in Covers \cup {NoCover} : CacheInpxCover(b, c)
               \/ RenameCover \/ Abandon
               \/ \E c \in Covers : RollbackCover(c) \/ CollectCover(c)
               \/ UNCHANGED vars
        PROVE  StatisticsInv'
    <2>1. UNCHANGED <<db, txn>> /\ (pc' \in Writing => pc \in Writing)
      BY <1>4 DEF CacheInpxCover, RenameCover, Abandon, RollbackCover, CollectCover, vars, Writing
    <2> QED
      BY <2>1 DEF StatisticsInv, Exact, StatTypeOK, CountsExact, BytesExact, Counted,
         StoredReferences
  <1>5. CASE EndRollback \/ EndCollection \/ Crash
    <2>1. db' = db /\ pc' = "idle"
      BY <1>5 DEF EndRollback, EndCollection, Crash, LeaveScan
    <2> QED
      BY <2>1 DEF StatisticsInv, Writing, Exact, StatTypeOK, CountsExact, BytesExact, Counted,
         StoredReferences
  <1> QED
    BY <1>1, <1>2, <1>3, <1>4, <1>5 DEF Next, WriterStep

-----------------------------------------------------------------------------
(* The readers                                                             *)

\* The requests find a file as long as a committed row names it.
LEMMA ReadersStep ==
    ASSUME FilesInv, ReadersInv, [ReadersNext]_readerVars
    PROVE  ReadersInv'
  <1>1. CASE ScanStep
    <2>1. reader' = [r \in Readers |->
                    IF reader[r].step = "idle" \/ reader[r].cover \in Referenced(db')
                    THEN reader[r] ELSE [reader[r] EXCEPT !.dropped = TRUE]]
      BY <1>1 DEF ScanStep
    <2>2. ReaderTypeOK'
      BY <2>1 DEF ReadersInv, ReaderTypeOK
    <2>3. ASSUME NEW r \in Readers
          PROVE  \/ reader'[r] = reader[r] /\ (reader[r].step = "idle" \/ reader[r].cover \in Referenced(db'))
                 \/ reader'[r].dropped
      BY <2>1 DEF ReadersInv, ReaderTypeOK
    <2>4. ReaderInv'
      BY <2>3 DEF ReadersInv, ReaderInv, Referenced
    <2> QED
      BY <2>2, <2>4 DEF ReadersInv
  <1>2. CASE CrashAll
    BY <1>2 DEF CrashAll, ReadersInv, ReaderInv, ReaderTypeOK, NoReader
  <1>3. ASSUME NEW r \in Readers, NEW b \in Books, LookUpCover(r, b)
        PROVE  ReadersInv'
    <2>1. db' = db /\ db.path[b] \in Referenced(db) /\ db.path[b] \in Covers
      BY <1>3 DEF LookUpCover, vars, Referenced
    <2> DEFINE new == [NoReader EXCEPT !.step = "looked up", !.book = b, !.cover = db.path[b]]
    <2>2. /\ new \in [step: {"idle", "looked up", "resolved", "sized", "open", "404"},
                      book: Books \cup {NoRow}, cover: Covers \cup {NoCover}, dropped: BOOLEAN]
          /\ new.step = "looked up" /\ new.cover = db.path[b]
      BY <2>1 DEF NoReader
    <2>3. reader' = [reader EXCEPT ![r] = new]
      BY <1>3 DEF LookUpCover
    <2> HIDE DEF new
    <2> QED
      BY <2>1, <2>2, <2>3 DEF ReadersInv, ReaderInv, ReaderTypeOK, Referenced
  <1>4. ASSUME NEW r \in Readers, NEW from \in {"looked up", "resolved", "sized"},
               NEW to \in {"resolved", "sized", "open"}, NextLook(r, from, to)
        PROVE  ReadersInv'
    <2>1. db' = db /\ Referenced(db) \subseteq files /\ reader[r].step # "idle"
      BY <1>4 DEF NextLook, vars, FilesInv, ReferenceInv
    <2>2. reader' = [reader EXCEPT ![r].step = IF reader[r].cover \in files THEN to ELSE "404"]
      BY <1>4 DEF NextLook
    <2>3. ReaderTypeOK'
      <3> DEFINE s == IF reader[r].cover \in files THEN to ELSE "404"
      <3>1. s \in {"idle", "looked up", "resolved", "sized", "open", "404"}
        OBVIOUS
      <3>2. reader' = [reader EXCEPT ![r].step = s]
        BY <2>2
      <3> HIDE DEF s
      <3> QED
        BY <3>1, <3>2 DEF ReadersInv, ReaderTypeOK
    <2>4. \A s \in Readers : /\ reader'[s].cover = reader[s].cover
                             /\ reader'[s].dropped = reader[s].dropped
                             /\ s # r => reader'[s].step = reader[s].step
      BY <2>2 DEF ReadersInv, ReaderTypeOK
    <2>5. reader'[r].step = IF reader[r].cover \in files THEN to ELSE "404"
      BY <2>2 DEF ReadersInv, ReaderTypeOK
    <2>6. ReaderInv'
      BY <2>1, <2>4, <2>5 DEF ReadersInv, ReaderInv, Referenced
    <2> QED
      BY <2>3, <2>6 DEF ReadersInv
  <1>5. ASSUME NEW r \in Readers, SetFileResponse(r)
        PROVE  ReadersInv'
    BY <1>5 DEF SetFileResponse, ReadersInv, ReaderInv, ReaderTypeOK, NoReader, vars, Referenced
  <1>6. CASE UNCHANGED readerVars
    BY <1>6 DEF readerVars, vars, ReadersInv, ReaderInv, ReaderTypeOK, Referenced
  <1> QED
    BY <1>1, <1>2, <1>3, <1>4, <1>5, <1>6
    DEF ReadersNext, ResolveCoverPath, ReadSize, OpenFile

\* A request leaves the cache alone.
LEMMA ReadersOverCache == [ReadersNext]_readerVars => [Next]_vars
  BY DEF ReadersNext, readerVars, ScanStep, CrashAll, LookUpCover, ResolveCoverPath, ReadSize,
     OpenFile, SetFileResponse, NextLook, Next

\* An empty catalog has no references and no bytes.
LEMMA StatisticsInit == Init => StatisticsInv
  <1> SUFFICES ASSUME Init PROVE StatisticsInv
    OBVIOUS
  <1>1. /\ db.refs = [c \in Covers |-> 0] /\ db.bytes = 0 /\ pc = "idle"
        /\ db.path = [b \in Books |-> NoRow] /\ DOMAIN db = {"path", "refs", "bytes"}
    BY DEF Init, EmptyRows
  <1>2. StatTypeOK(db)
    BY <1>1 DEF StatTypeOK
  <1>3. CountsExact(db)
    <2> SUFFICES ASSUME NEW c \in Covers PROVE StoredReferences(db, c) = 0
      BY <1>1 DEF CountsExact
    <2>1. {b \in Books : db.path[b] = c} = {}
      BY <1>1, CoverAssumption
    <2> QED
      BY <2>1, FS_EmptySet DEF StoredReferences
  <1>4. BytesExact(db)
    <2>1. Counted(db) = {}
      BY <1>1 DEF Counted
    <2>2. UNION {{c} \X (1..SizeOf[c]) : c \in {}} = {}
      OBVIOUS
    <2>3. Bytes({}) = 0
      BY <2>2, FS_EmptySet DEF Bytes
    <2> QED
      BY <1>1, <2>1, <2>3 DEF BytesExact
  <1> QED
    BY <1>1, <1>2, <1>3, <1>4, CoverAssumption DEF StatisticsInv, Exact, Writing

\* The invariant of the cover cache with its writer and its readers holds in every state.
THEOREM Invariance == ReadersSpec => [](FilesInv /\ StatisticsInv /\ ReadersInv)
  <1>1. ReadersInit => FilesInv /\ StatisticsInv /\ ReadersInv
    BY FilesInit, StatisticsInit DEF ReadersInit, ReadersInv, ReaderInv, ReaderTypeOK, NoReader
  <1>2. FilesInv /\ StatisticsInv /\ ReadersInv /\ [ReadersNext]_readerVars
        => (FilesInv /\ StatisticsInv /\ ReadersInv)'
    BY FilesStep, StatisticsStep, ReadersStep, ReadersOverCache
  <1> QED
    BY <1>1, <1>2, PTL DEF ReadersSpec

\* CacheInpxCover, the rollback and CleanupUnreferencedCovers: whatever a scan writes, and
\* wherever it fails or dies, the file of every committed cover is on disk.
THEOREM CoversAlwaysExist == ReadersSpec => []ReferencedCoversExist
  <1>1. FilesInv => ReferencedCoversExist
    BY DEF FilesInv, ReferenceInv, ReferencedCoversExist
  <1> QED
    BY <1>1, Invariance, PTL

\* CatalogStatisticsMaintenance: however scans share, swap and drop covers, fail or die, the
\* counts and the bytes of the committed catalog are those of its rows, within the budget.
THEOREM CoverStatisticsAlwaysExact == ReadersSpec => []CoverStatisticsExact
  <1>1. StatisticsInv => CoverStatisticsExact
    <2> SUFFICES ASSUME StatisticsInv PROVE CoverStatisticsExact
      OBVIOUS
    <2>1. Exact(db) /\ db.bytes <= MaxCoverBytes
      BY DEF StatisticsInv
    <2>2. Counted(db) = Referenced(db)
      BY <2>1, CountedIsReferenced
    <2>3. db.bytes = Bytes(Referenced(db))
      BY <2>1, <2>2 DEF Exact, BytesExact
    <2> QED
      BY <2>1, <2>3 DEF Exact, CountsExact, CoverStatisticsExact
  <1> QED
    BY <1>1, Invariance, PTL

\* ResolveBookCover and SetFileResponse: only a request for a cover that the catalog gave
\* up in the meantime is answered with 404.
THEOREM CoverAlwaysDelivered == ReadersSpec => []SteadyCoverDelivered
  <1>1. ReadersInv => SteadyCoverDelivered
    BY DEF ReadersInv, ReaderInv, SteadyCoverDelivered
  <1> QED
    BY <1>1, Invariance, PTL

\* ~CInpxCatalogStreamWriter: a rollback that runs to its end restores the cover files.
THEOREM RollbackAlwaysRestores == ReadersSpec => RollbackRestoresFiles
  <1>1. FilesInv /\ [Next]_vars
        => [pc = "rollback" /\ pc' = "idle" /\ registered = {}
            => files \ stuck = before \ stuck]_vars
    BY DEF FilesInv, RollbackInv, Writing
  <1>2. FilesInv /\ [ReadersNext]_readerVars
        => [pc = "rollback" /\ pc' = "idle" /\ registered = {}
            => files \ stuck = before \ stuck]_vars
    BY <1>1, ReadersOverCache
  <1> QED
    BY <1>2, Invariance, PTL DEF ReadersSpec, RollbackRestoresFiles

\* CleanupUnreferencedCovers: a collection that visited every file leaves no cover behind
\* that no row names, whichever scan stranded it.
THEOREM CollectionAlwaysComplete == ReadersSpec => CollectionComplete
  <1>1. FilesInv /\ [Next]_vars
        => [pc = "collect" /\ pc' = "idle" /\ unvisited = {}
            => files' \ stuck \subseteq Referenced(db)]_vars
    <2> SUFFICES ASSUME FilesInv, Next, pc = "collect", pc' = "idle", unvisited = {}
                 PROVE  files' \ stuck \subseteq Referenced(db)
      OBVIOUS
    <2>1. EndCollection \/ Crash
      BY DEF Next, WriterStep, BeginScan, CacheInpxCover, RenameCover, RecordCover, Abandon,
         RollbackCover, CollectCover, EndRollback, Commit
    <2> QED
      BY <2>1 DEF EndCollection, Crash, FilesInv, CollectionInv
  <1>2. FilesInv /\ [ReadersNext]_readerVars
        => [pc = "collect" /\ pc' = "idle" /\ unvisited = {}
            => files' \ stuck \subseteq Referenced(db)]_vars
    BY <1>1, ReadersOverCache
  <1> QED
    BY <1>2, Invariance, PTL DEF ReadersSpec, CollectionComplete

-----------------------------------------------------------------------------
(* Induction and recursion                                                 *)

\* A non-empty set of natural numbers has a least element.
LEMMA Least ==
    ASSUME NEW T \in SUBSET Nat, T # {}
    PROVE  \E x \in T : \A y \in T : x <= y
  <1> DEFINE below(n) == 0..(n - 1)
             sets == {below(n) : n \in T}
  <1>1. sets \subseteq FiniteSubsetsOf(Nat) /\ sets # {}
    <2>1. ASSUME NEW n \in T PROVE below(n) \in FiniteSubsetsOf(Nat)
      <3>1. IsFiniteSet(below(n))
        BY FS_Interval
      <3>2. below(n) \in SUBSET Nat
        OBVIOUS
      <3> QED
        BY <3>1, <3>2 DEF FiniteSubsetsOf
    <2> QED
      BY <2>1
  <1>2. PICK s \in sets : \A t \in sets : ~(<<t, s>> \in StrictSubsetOrdering(Nat))
    <2> HIDE DEF sets
    <2> QED
      BY <1>1, WFMin, FS_StrictSubsetOrderingWellFounded
  <1>3. PICK x \in T : s = below(x)
    OBVIOUS
  <1>4. ASSUME NEW y \in T, y < x PROVE FALSE
    <2>1. below(y) \subseteq below(x) /\ y \in below(x) /\ y \notin below(y)
      BY <1>4
    <2>2. below(y) \in SUBSET Nat /\ below(x) \in SUBSET Nat /\ below(y) # below(x)
      BY <2>1
    <2>3. <<below(y), below(x)>> \in StrictSubsetOrdering(Nat)
      <3> HIDE DEF below
      <3> QED
        BY <2>1, <2>2 DEF StrictSubsetOrdering
    <2> QED
      BY <1>2, <1>3, <2>3
  <1> QED
    BY <1>4

\* Induction over the natural numbers, for a set.
LEMMA SetInduction ==
    ASSUME NEW T, 0 \in T, \A n \in Nat : n \in T => n + 1 \in T
    PROVE  \A n \in Nat : n \in T
  <1> SUFFICES ASSUME Nat \ T # {} PROVE FALSE
    OBVIOUS
  <1>1. PICK m \in Nat \ T : \A y \in Nat \ T : m <= y
    BY Least
  <1>2. m # 0 /\ m - 1 \in Nat
    BY <1>1
  <1>3. m - 1 \in T
    BY <1>1, <1>2
  <1> QED
    BY <1>1, <1>2, <1>3

\* g solves the equations f[d] = Phi[<<f, d>>] where the measure is below k.
Solves(g, k, D, m, Phi) == \A d \in D : m[d] < k => g[d] = Phi[<<g, d>>]

\* ... of which Phi looks at smaller places only.
Local(D, V, m, Phi) ==
    \A g, h \in [D -> V] : \A d \in D :
        (\A e \in D : m[e] < m[d] => g[e] = h[e]) => Phi[<<g, d>>] = Phi[<<h, d>>]

LEMMA SolutionUnique ==
    ASSUME NEW D, NEW V, NEW m \in [D -> Nat], NEW Phi, Local(D, V, m, Phi),
           NEW g \in [D -> V], NEW h \in [D -> V], NEW k \in Nat,
           Solves(g, k, D, m, Phi), Solves(h, k, D, m, Phi)
    PROVE  \A d \in D : m[d] < k => g[d] = h[d]
  <1> DEFINE Bad == {d \in D : m[d] < k /\ g[d] # h[d]}
             T == {m[d] : d \in Bad}
  <1> SUFFICES ASSUME Bad # {} PROVE FALSE
    OBVIOUS
  <1>1. T \in SUBSET Nat /\ T # {}
    OBVIOUS
  <1>2. PICK x \in T : \A y \in T : x <= y
    <2> HIDE DEF T
    <2> QED
      BY <1>1, Least
  <1>3. PICK d \in Bad : x = m[d]
    OBVIOUS
  <1>4. \A e \in D : m[e] < m[d] => g[e] = h[e]
    BY <1>2, <1>3
  <1>5. Phi[<<g, d>>] = Phi[<<h, d>>]
    BY <1>4 DEF Local
  <1>6. g[d] = Phi[<<g, d>>] /\ h[d] = Phi[<<h, d>>]
    BY DEF Solves
  <1> QED
    BY <1>5, <1>6

Scheme(D, V, m, Phi) ==
    /\ V # {}
    /\ m \in [D -> Nat]
    /\ Phi \in [[D -> V] \X D -> V]
    /\ Local(D, V, m, Phi)

Solvable(D, V, Phi) == \E f \in [D -> V] : \A d \in D : f[d] = Phi[<<f, d>>]

\* A definition by recursion along a measure has a solution.
LEMMA Recursion ==
    ASSUME NEW D, NEW V, NEW m, NEW Phi, Scheme(D, V, m, Phi)
    PROVE  Solvable(D, V, Phi)
  <1>0. V # {} /\ m \in [D -> Nat] /\ Phi \in [[D -> V] \X D -> V] /\ Local(D, V, m, Phi)
    BY DEF Scheme
  <1> USE <1>0
  <1> DEFINE T == {k \in Nat : \E g \in [D -> V] : Solves(g, k, D, m, Phi)}
  <1>1. 0 \in T
    <2>1. PICK v \in V : TRUE
      OBVIOUS
    <2>2. [d \in D |-> v] \in [D -> V]
      OBVIOUS
    <2>3. Solves([d \in D |-> v], 0, D, m, Phi)
      BY DEF Solves
    <2> QED
      BY <2>2, <2>3
  <1>2. ASSUME NEW k \in Nat, k \in T PROVE k + 1 \in T
    <2>1. PICK g \in [D -> V] : Solves(g, k, D, m, Phi)
      BY <1>2
    <2> DEFINE h == [d \in D |-> IF m[d] = k THEN Phi[<<g, d>>] ELSE g[d]]
    <2>2. h \in [D -> V]
      OBVIOUS
    <2>3. \A e \in D : m[e] < k => h[e] = g[e]
      OBVIOUS
    <2>4. \A d \in D : m[d] = k => h[d] = Phi[<<g, d>>]
      OBVIOUS
    <2> HIDE DEF h
    <2>5. ASSUME NEW d \in D, m[d] < k + 1 PROVE h[d] = Phi[<<h, d>>]
      <3>1. m[d] \in Nat /\ m[d] <= k
        BY <2>5
      <3>2. \A e \in D : m[e] < m[d] => h[e] = g[e]
        BY <2>3, <3>1
      <3>3. Phi[<<h, d>>] = Phi[<<g, d>>]
        BY <2>2, <3>2 DEF Local
      <3>4. CASE m[d] = k
        BY <2>4, <3>3, <3>4
      <3>5. CASE m[d] < k
        <4>1. g[d] = Phi[<<g, d>>]
          BY <2>1, <3>5 DEF Solves
        <4>2. h[d] = g[d]
          BY <2>3, <3>5
        <4> QED
          BY <3>3, <4>1, <4>2
      <3>6. m[d] = k \/ m[d] < k
        BY <3>1
      <3> QED
        BY <3>4, <3>5, <3>6
    <2>6. Solves(h, k + 1, D, m, Phi)
      BY <2>5 DEF Solves
    <2> QED
      BY <2>2, <2>6
  <1>3. \A k \in Nat : k \in T
    <2> HIDE DEF T
    <2> QED
      BY <1>1, <1>2, SetInduction
  <1> DEFINE sol(k) == CHOOSE g \in [D -> V] : Solves(g, k, D, m, Phi)
  <1>4. \A k \in Nat : sol(k) \in [D -> V] /\ Solves(sol(k), k, D, m, Phi)
    BY <1>3
  <1> HIDE DEF sol, T
  <1> DEFINE f == [d \in D |-> sol(m[d] + 1)[d]]
  <1>5. f \in [D -> V]
    BY <1>4
  <1>6. ASSUME NEW d \in D PROVE f[d] = Phi[<<f, d>>]
    <2> DEFINE g == sol(m[d] + 1)
    <2>1. g \in [D -> V] /\ Solves(g, m[d] + 1, D, m, Phi)
      <3>1. m[d] + 1 \in Nat
        OBVIOUS
      <3> QED
        BY <1>4, <3>1, Zenon
    <2>2. f[d] = g[d] /\ g[d] = Phi[<<g, d>>]
      <3>1. m[d] < m[d] + 1
        OBVIOUS
      <3>2. f[d] = g[d]
        OBVIOUS
      <3> HIDE DEF g, f
      <3> QED
        BY <2>1, <3>1, <3>2 DEF Solves
    <2>3. ASSUME NEW e \in D, m[e] < m[d] PROVE f[e] = g[e]
      <3> DEFINE h == sol(m[e] + 1)
      <3>1. h \in [D -> V] /\ Solves(h, m[e] + 1, D, m, Phi)
        <4>1. m[e] + 1 \in Nat
          OBVIOUS
        <4> QED
          BY <1>4, <4>1, Zenon
      <3>2. f[e] = h[e]
        OBVIOUS
      <3>3. m[e] + 1 \in Nat /\ m[e] < m[e] + 1 /\ m[e] + 1 < m[d] + 1
        BY <2>3
      <3> HIDE DEF g
      <3>4. Solves(g, m[e] + 1, D, m, Phi)
        BY <2>1, <3>3 DEF Solves
      <3> HIDE DEF f, g, h
      <3>5. g[e] = h[e]
        BY <2>1, <3>1, <3>3, <3>4, SolutionUnique
      <3> QED
        BY <3>2, <3>5
    <2> HIDE DEF f, g
    <2>4. Phi[<<f, d>>] = Phi[<<g, d>>]
      BY <1>5, <2>1, <2>3 DEF Local
    <2> QED
      BY <2>2, <2>4
  <1> QED
    BY <1>5, <1>6 DEF Solvable

-----------------------------------------------------------------------------
(* The tree of maxima                                                      *)

\* Half of a number other than zero is less than it.
LEMMA Half ==
    ASSUME NEW i \in Nat
    PROVE  /\ i \div 2 \in Nat /\ i % 2 \in {0, 1} /\ i = 2 * (i \div 2) + (i % 2)
           /\ i # 0 => i \div 2 < i
  <1>1. i \div 2 \in Nat
    OBVIOUS
  <1>2. i % 2 \in {0, 1}
    OBVIOUS
  <1>3. i = 2 * (i \div 2) + (i % 2)
    OBVIOUS
  <1>4. i # 0 => i \div 2 < i
    OBVIOUS
  <1> QED
    BY <1>1, <1>2, <1>3, <1>4

\* The recursive definition of LowestBit defines a function.
LEMMA LowestBitRecursion ==
    \A i \in Nat :
        /\ LowestBit(i) \in Nat
        /\ LowestBit(i) = IF i = 0 THEN 0 ELSE IF i % 2 = 1 THEN 1 ELSE 2 * LowestBit(i \div 2)
  <1> DEFINE body(f, i) == IF i = 0 THEN 0 ELSE IF i % 2 = 1 THEN 1 ELSE 2 * f[i \div 2]
             Phi == [p \in [Nat -> Nat] \X Nat |-> body(p[1], p[2])]
             m == [i \in Nat |-> i]
             bit[i \in Nat] == IF i = 0 THEN 0 ELSE IF i % 2 = 1 THEN 1 ELSE 2 * bit[i \div 2]
  <1>1. \A f \in [Nat -> Nat] : \A i \in Nat : body(f, i) \in Nat
    BY Half
  <1>2. Phi \in [[Nat -> Nat] \X Nat -> Nat]
    BY <1>1
  <1>3. \A f \in [Nat -> Nat] : \A i \in Nat : Phi[<<f, i>>] = body(f, i)
    OBVIOUS
  <1>4. m \in [Nat -> Nat] /\ \A i \in Nat : m[i] = i
    OBVIOUS
  <1>5. Local(Nat, Nat, m, Phi)
    <2> SUFFICES ASSUME NEW g \in [Nat -> Nat], NEW h \in [Nat -> Nat], NEW i \in Nat,
                        \A e \in Nat : m[e] < m[i] => g[e] = h[e]
                 PROVE  Phi[<<g, i>>] = Phi[<<h, i>>]
      BY DEF Local
    <2>1. i # 0 => g[i \div 2] = h[i \div 2]
      BY <1>4, Half
    <2>2. body(g, i) = body(h, i)
      BY <2>1
    <2> HIDE DEF Phi, body
    <2> QED
      BY <1>3, <2>2
  <1>6. PICK f \in [Nat -> Nat] : \A i \in Nat : f[i] = Phi[<<f, i>>]
    <2> HIDE DEF Phi, m
    <2>1. Scheme(Nat, Nat, m, Phi)
      BY <1>2, <1>4, <1>5 DEF Scheme
    <2> QED
      BY <2>1, Recursion DEF Solvable
  <1>7. f = [i \in Nat |-> body(f, i)]
    <2> HIDE DEF Phi, body
    <2> QED
      BY <1>3, <1>6
  <1>8. bit = [i \in Nat |-> body(bit, i)]
    BY <1>7
  <1>9. \A i \in Nat : LowestBit(i) = bit[i]
    BY DEF LowestBit
  <1> HIDE DEF bit
  <1>10. \A i \in Nat : bit[i] = body(bit, i)
    BY <1>8
  <1>11. \A i \in Nat : bit[i] \in Nat
    <2> DEFINE Bad == {i \in Nat : bit[i] \notin Nat}
    <2> SUFFICES ASSUME Bad # {} PROVE FALSE
      OBVIOUS
    <2>1. PICK x \in Bad : \A y \in Bad : x <= y
      BY Least
    <2>2. x \div 2 \in Nat /\ (x # 0 => bit[x \div 2] \in Nat)
      BY <2>1, Half
    <2> QED
      BY <1>10, <2>2
  <1> QED
    BY <1>9, <1>10, <1>11, Half

\* The two cases of LowestBit.
Odd(i, k) == i = 2 * k + 1 /\ LowestBit(i) = 1

Even(i, k) ==
    /\ i = 2 * k /\ k # 0 /\ k < i
    /\ LowestBit(k) \in Nat /\ LowestBit(i) = 2 * LowestBit(k)

LEMMA LowestBitCases ==
    ASSUME NEW i \in Nat \ {0}
    PROVE  \E k \in Nat : Odd(i, k) \/ Even(i, k)
  <1> DEFINE k == i \div 2
  <1>1. k \in Nat /\ (i % 2 = 0 \/ i % 2 = 1) /\ i = 2 * k + (i % 2) /\ k < i
    BY Half
  <1>2. LowestBit(i) = IF i % 2 = 1 THEN 1 ELSE 2 * LowestBit(k)
    BY LowestBitRecursion
  <1>3. LowestBit(k) \in Nat
    BY <1>1, LowestBitRecursion
  <1> HIDE DEF k
  <1>4. CASE i % 2 = 1
    BY <1>1, <1>2, <1>4 DEF Odd
  <1>5. CASE i % 2 = 0
    BY <1>1, <1>2, <1>3, <1>5 DEF Even
  <1> QED
    BY <1>1, <1>4, <1>5

LEMMA LowestBitRange ==
    \A i \in Nat \ {0} : LowestBit(i) \in Nat /\ LowestBit(i) >= 1 /\ LowestBit(i) <= i
  <1> DEFINE Bad == {i \in Nat \ {0} : ~(LowestBit(i) \in Nat /\ LowestBit(i) >= 1 /\ LowestBit(i) <= i)}
  <1> SUFFICES ASSUME Bad # {} PROVE FALSE
    OBVIOUS
  <1>1. PICK x \in Bad : \A y \in Bad : x <= y
    BY Least
  <1>2. PICK k \in Nat : Odd(x, k) \/ Even(x, k)
    BY LowestBitCases
  <1>3. CASE Odd(x, k)
    BY <1>3 DEF Odd
  <1>4. CASE Even(x, k)
    <2>1. k \notin Bad /\ k \in Nat \ {0}
      BY <1>1, <1>4 DEF Even
    <2>2. LowestBit(k) >= 1 /\ LowestBit(k) <= k
      BY <2>1
    <2> QED
      BY <1>4, <2>2 DEF Even
  <1> QED
    BY <1>2, <1>3, <1>4

\* Place p of the tree stands for the starts after p - LowestBit(p) up to p.
StandsFor(p, i) == p - LowestBit(p) < i /\ i <= p

\* If p stands for i and is not i, it stands for the next place that recordEnd writes; and
\* what stands for that stands for i.
LEMMA StandsForNext ==
    ASSUME NEW p \in Nat \ {0}, NEW i \in Nat \ {0}
    PROVE  /\ StandsFor(p, i) /\ i # p => StandsFor(p, i + LowestBit(i))
           /\ StandsFor(p, i + LowestBit(i)) => StandsFor(p, i)
  <1> DEFINE Fine(x, j) ==
               /\ StandsFor(x, j) /\ j # x => StandsFor(x, j + LowestBit(j))
               /\ StandsFor(x, j + LowestBit(j)) => StandsFor(x, j)
             Bad == {x \in Nat \ {0} : \E j \in Nat \ {0} : ~Fine(x, j)}
  <1> SUFFICES Bad = {}
    OBVIOUS
  <1> SUFFICES ASSUME Bad # {} PROVE FALSE
    OBVIOUS
  <1>1. PICK x \in Bad : \A y \in Bad : x <= y
    BY Least
  <1>2. PICK j \in Nat \ {0} : ~Fine(x, j)
    OBVIOUS
  <1>3. x \in Nat \ {0} /\ \A y \in Nat \ {0} : y < x => \A l \in Nat \ {0} : Fine(y, l)
    BY <1>1
  <1> HIDE DEF Bad
  <1>4. PICK k \in Nat : Odd(x, k) \/ Even(x, k)
    BY <1>3, LowestBitCases
  <1>5. PICK h \in Nat : Odd(j, h) \/ Even(j, h)
    BY LowestBitCases
  <1>6. CASE Odd(x, k)
    BY <1>2, <1>5, <1>6 DEF StandsFor, Odd, Even
  <1>7. CASE Even(x, k)
    <2>1. CASE Odd(j, h)
      BY <1>2, <1>7, <2>1 DEF StandsFor, Odd, Even
    <2>2. CASE Even(j, h)
      <3>1. Fine(k, h)
        BY <1>3, <1>7, <2>2 DEF Even
      <3>2. h \in Nat /\ k \in Nat /\ LowestBit(h) \in Nat /\ LowestBit(k) \in Nat
        BY <1>7, <2>2 DEF Even
      <3>3. StandsFor(x, j) <=> StandsFor(k, h)
        BY <1>7, <2>2, <3>2 DEF StandsFor, Even
      <3>4. StandsFor(x, j + LowestBit(j)) <=> StandsFor(k, h + LowestBit(h))
        BY <1>7, <2>2, <3>2 DEF StandsFor, Even
      <3>5. j # x <=> h # k
        BY <1>7, <2>2, <3>2 DEF Even
      <3> QED
        BY <1>2, <3>1, <3>3, <3>4, <3>5
    <2> QED
      BY <1>5, <2>1, <2>2
  <1> QED
    BY <1>4, <1>6, <1>7

\* The recursive definitions of the places define functions.
LEMMA UpwardRecursion ==
    ASSUME NEW n \in Nat
    PROVE  \A i \in Nat \ {0} :
              Upward(i, n) = IF i > n THEN {} ELSE {i} \cup Upward(i + LowestBit(i), n)
  <1> DEFINE D == Nat \ {0}
             V == SUBSET Nat
             body(f, i) == IF i > n THEN {} ELSE {i} \cup f[i + LowestBit(i)]
             Phi == [p \in [D -> V] \X D |-> body(p[1], p[2])]
             m == [i \in D |-> IF i > n THEN 0 ELSE n + 1 - i]
             up[i \in D] == IF i > n THEN {} ELSE {i} \cup up[i + LowestBit(i)]
  <1>1. \A i \in D : i + LowestBit(i) \in D /\ i + LowestBit(i) > i
    BY LowestBitRange
  <1>2. m \in [D -> Nat] /\ \A i \in D : m[i] = IF i > n THEN 0 ELSE n + 1 - i
    OBVIOUS
  <1>3. \A f \in [D -> V] : \A i \in D : Phi[<<f, i>>] = body(f, i) /\ body(f, i) \in V
    BY <1>1
  <1>4. Phi \in [[D -> V] \X D -> V]
    BY <1>1
  <1>5. Local(D, V, m, Phi)
    <2> SUFFICES ASSUME NEW g \in [D -> V], NEW h \in [D -> V], NEW i \in D,
                        \A e \in D : m[e] < m[i] => g[e] = h[e]
                 PROVE  Phi[<<g, i>>] = Phi[<<h, i>>]
      BY DEF Local
    <2> HIDE DEF m
    <2>1. i > n \/ g[i + LowestBit(i)] = h[i + LowestBit(i)]
      BY <1>1, <1>2
    <2>2. body(g, i) = body(h, i)
      BY <2>1
    <2> HIDE DEF Phi, body, D, V
    <2> QED
      BY <1>3, <2>2
  <1>6. PICK f \in [D -> V] : \A i \in D : f[i] = Phi[<<f, i>>]
    <2>1. V # {}
      OBVIOUS
    <2> HIDE DEF Phi, m, D, V
    <2>2. Scheme(D, V, m, Phi)
      BY <1>2, <1>4, <1>5, <2>1 DEF Scheme
    <2> QED
      BY <2>2, Recursion DEF Solvable
  <1>7. f = [i \in D |-> body(f, i)]
    <2> HIDE DEF Phi, body
    <2> QED
      BY <1>3, <1>6
  <1>8. up = [i \in D |-> body(up, i)]
    BY <1>7
  <1>9. \A i \in D : Upward(i, n) = up[i]
    BY DEF Upward
  <1> HIDE DEF up
  <1>10. \A i \in D : up[i] = body(up, i)
    BY <1>8
  <1> QED
    BY <1>1, <1>9, <1>10

LEMMA DownwardRecursion ==
    \A i \in Nat : Downward(i) = IF i = 0 THEN {} ELSE {i} \cup Downward(i - LowestBit(i))
  <1> DEFINE V == SUBSET Nat
             body(f, i) == IF i = 0 THEN {} ELSE {i} \cup f[i - LowestBit(i)]
             Phi == [p \in [Nat -> V] \X Nat |-> body(p[1], p[2])]
             m == [i \in Nat |-> i]
             down[i \in Nat] == IF i = 0 THEN {} ELSE {i} \cup down[i - LowestBit(i)]
  <1>1. \A i \in Nat : i # 0 => i - LowestBit(i) \in Nat /\ i - LowestBit(i) < i
    BY LowestBitRange
  <1>2. m \in [Nat -> Nat] /\ \A i \in Nat : m[i] = i
    OBVIOUS
  <1>3. \A f \in [Nat -> V] : \A i \in Nat : Phi[<<f, i>>] = body(f, i) /\ body(f, i) \in V
    BY <1>1
  <1>4. Phi \in [[Nat -> V] \X Nat -> V]
    BY <1>1
  <1>5. Local(Nat, V, m, Phi)
    <2> SUFFICES ASSUME NEW g \in [Nat -> V], NEW h \in [Nat -> V], NEW i \in Nat,
                        \A e \in Nat : m[e] < m[i] => g[e] = h[e]
                 PROVE  Phi[<<g, i>>] = Phi[<<h, i>>]
      BY DEF Local
    <2> HIDE DEF m
    <2>1. i = 0 \/ g[i - LowestBit(i)] = h[i - LowestBit(i)]
      BY <1>1, <1>2
    <2>2. body(g, i) = body(h, i)
      BY <2>1
    <2> HIDE DEF Phi, body, V
    <2> QED
      BY <1>3, <2>2
  <1>6. PICK f \in [Nat -> V] : \A i \in Nat : f[i] = Phi[<<f, i>>]
    <2>1. V # {}
      OBVIOUS
    <2> HIDE DEF Phi, m, V
    <2>2. Scheme(Nat, V, m, Phi)
      BY <1>2, <1>4, <1>5, <2>1 DEF Scheme
    <2> QED
      BY <2>2, Recursion DEF Solvable
  <1>7. f = [i \in Nat |-> body(f, i)]
    <2> HIDE DEF Phi, body
    <2> QED
      BY <1>3, <1>6
  <1>8. down = [i \in Nat |-> body(down, i)]
    BY <1>7
  <1>9. \A i \in Nat : Downward(i) = down[i]
    BY DEF Downward
  <1> HIDE DEF down
  <1>10. \A i \in Nat : down[i] = body(down, i)
    BY <1>8
  <1> QED
    BY <1>1, <1>9, <1>10

\* recordEnd writes every place that stands for the start, and no other.
LEMMA UpwardPlaces ==
    ASSUME NEW n \in Nat, NEW i \in Nat \ {0}
    PROVE  Upward(i, n) = {p \in 1..n : StandsFor(p, i)}
  <1> DEFINE Set(j) == {p \in 1..n : StandsFor(p, j)}
             Bad == {j \in Nat \ {0} : Upward(j, n) # Set(j)}
             T == {IF j > n THEN 0 ELSE n + 1 - j : j \in Bad}
  <1> SUFFICES ASSUME Bad # {} PROVE FALSE
    OBVIOUS
  <1>1. T \in SUBSET Nat /\ T # {}
    OBVIOUS
  <1>2. PICK x \in T : \A y \in T : x <= y
    <2> HIDE DEF T
    <2> QED
      BY <1>1, Least
  <1>3. PICK j \in Bad : x = IF j > n THEN 0 ELSE n + 1 - j
    OBVIOUS
  <1>4. \A l \in Nat \ {0} : l > j /\ j <= n => Upward(l, n) = Set(l)
    <2> SUFFICES ASSUME NEW l \in Nat \ {0}, l > j, j <= n, l \in Bad PROVE FALSE
      OBVIOUS
    <2>1. (IF l > n THEN 0 ELSE n + 1 - l) \in T
      OBVIOUS
    <2>2. x <= IF l > n THEN 0 ELSE n + 1 - l
      BY <1>2, <2>1
    <2> HIDE DEF T, Bad
    <2> QED
      BY <1>3, <2>2
  <1>5. j \in Nat \ {0} /\ Upward(j, n) # Set(j)
    OBVIOUS
  <1> HIDE DEF Bad, T
  <1>6. Upward(j, n) = IF j > n THEN {} ELSE {j} \cup Upward(j + LowestBit(j), n)
    BY <1>5, UpwardRecursion
  <1>7. CASE j > n
    BY <1>5, <1>6, <1>7 DEF StandsFor
  <1>8. CASE j <= n
    <2> DEFINE l == j + LowestBit(j)
    <2>1. l \in Nat \ {0} /\ l > j /\ LowestBit(j) >= 1
      BY <1>5, LowestBitRange
    <2>2. Upward(j, n) = {j} \cup Set(l)
      BY <1>4, <1>5, <1>6, <1>8, <2>1
    <2>3. \A p \in 1..n : StandsFor(p, j) <=> p = j \/ StandsFor(p, l)
      <3> SUFFICES ASSUME NEW p \in 1..n PROVE StandsFor(p, j) <=> p = j \/ StandsFor(p, l)
        OBVIOUS
      <3>1. p \in Nat \ {0}
        OBVIOUS
      <3>2. StandsFor(j, j)
        BY <1>5, LowestBitRange DEF StandsFor
      <3> QED
        BY <1>5, <3>1, <3>2, StandsForNext
    <2> HIDE DEF l
    <2>4. j \in 1..n
      BY <1>5, <1>8
    <2> QED
      BY <1>5, <2>2, <2>3, <2>4
  <1> QED
    BY <1>5, <1>7, <1>8

\* readMaximumEnd reads places that stand together for the starts up to the index.
LEMMA DownwardPlaces ==
    ASSUME NEW j \in Nat
    PROVE  /\ Downward(j) \subseteq 1..j
           /\ \A i \in Nat \ {0} : i <= j <=> \E p \in Downward(j) : StandsFor(p, i)
  <1> DEFINE Fine(k) == /\ Downward(k) \subseteq 1..k
                        /\ \A i \in Nat \ {0} : i <= k <=> \E p \in Downward(k) : StandsFor(p, i)
             Bad == {k \in Nat : ~Fine(k)}
  <1> SUFFICES ASSUME Bad # {} PROVE FALSE
    OBVIOUS
  <1>1. PICK x \in Bad : \A y \in Bad : x <= y
    BY Least
  <1>2. x \in Nat /\ ~Fine(x) /\ \A y \in Nat : y < x => Fine(y)
    BY <1>1
  <1> HIDE DEF Bad
  <1>3. Downward(x) = IF x = 0 THEN {} ELSE {x} \cup Downward(x - LowestBit(x))
    BY <1>2, DownwardRecursion
  <1>4. CASE x = 0
    BY <1>2, <1>3, <1>4
  <1>5. CASE x # 0
    <2> DEFINE y == x - LowestBit(x)
    <2>1. y \in Nat /\ y < x
      BY <1>2, <1>5, LowestBitRange
    <2>2. Fine(y) /\ Downward(x) = {x} \cup Downward(y)
      BY <1>2, <1>3, <1>5, <2>1
    <2>3. \A i \in Nat \ {0} : StandsFor(x, i) <=> y < i /\ i <= x
      BY DEF StandsFor
    <2> HIDE DEF y
    <2>4. Downward(x) \subseteq 1..x
      BY <1>2, <2>1, <2>2
    <2>5. ASSUME NEW i \in Nat \ {0}
          PROVE  i <= x <=> \E p \in Downward(x) : StandsFor(p, i)
      <3>1. i <= y <=> \E p \in Downward(y) : StandsFor(p, i)
        BY <2>2
      <3>2. i <= x <=> i <= y \/ (y < i /\ i <= x)
        BY <1>2, <2>1
      <3> QED
        BY <2>2, <2>3, <3>1, <3>2
    <2> QED
      BY <1>2, <2>4, <2>5
  <1> QED
    BY <1>4, <1>5

\* A finite set of numbers that is not empty has a greatest element.
LEMMA Greatest ==
    ASSUME NEW S \in SUBSET Int, IsFiniteSet(S), S # {}
    PROVE  \E x \in S : \A y \in S : x >= y
  <1> DEFINE Fine(X) == \E x \in X : \A y \in X : x >= y
             Bad == {X \in SUBSET Int : IsFiniteSet(X) /\ X # {} /\ ~Fine(X)}
             T == {Cardinality(X) : X \in Bad}
  <1> SUFFICES ASSUME Bad # {} PROVE FALSE
    OBVIOUS
  <1>1. T \in SUBSET Nat /\ T # {}
    BY FS_CardinalityType
  <1>2. PICK c \in T : \A d \in T : c <= d
    <2> HIDE DEF T
    <2> QED
      BY <1>1, Least
  <1>3. PICK X \in Bad : c = Cardinality(X)
    OBVIOUS
  <1>4. PICK x \in X : TRUE
    OBVIOUS
  <1> DEFINE Y == X \ {x}
  <1>5. IsFiniteSet(Y) /\ Cardinality(Y) = c - 1 /\ c \in Nat /\ Y \in SUBSET Int
    BY <1>1, <1>3, FS_RemoveElement
  <1>6. Y \notin Bad
    <2> SUFFICES ASSUME Y \in Bad PROVE FALSE
      OBVIOUS
    <2>1. Cardinality(Y) \in T
      OBVIOUS
    <2> HIDE DEF T, Y, Bad
    <2> QED
      BY <1>2, <1>5, <2>1
  <1>7. Y = {} \/ Fine(Y)
    BY <1>5, <1>6
  <1>8. x \in Int /\ X \in SUBSET Int /\ ~Fine(X)
    OBVIOUS
  <1> HIDE DEF Bad, T
  <1>9. CASE Y = {}
    BY <1>8, <1>9
  <1>10. CASE Fine(Y)
    <2>1. PICK y \in Y : \A z \in Y : y >= z
      BY <1>10
    <2>2. CASE x >= y
      BY <1>8, <2>1, <2>2
    <2>3. CASE y >= x
      BY <1>8, <2>1, <2>3
    <2> QED
      BY <1>8, <2>2, <2>3
  <1> QED
    BY <1>7, <1>9, <1>10

LEMMA MaxGreatest ==
    ASSUME NEW S \in SUBSET Int, IsFiniteSet(S), S # {}
    PROVE  Max(S) \in S /\ \A y \in S : Max(S) >= y
  BY Greatest, Zenon DEF Max

LEMMA MaxOfTwo ==
    ASSUME NEW a \in Int, NEW b \in Int
    PROVE  Max({a, b}) \in Int /\ \A e \in Int : Max({a, b}) >= e <=> a >= e \/ b >= e
  <1>1. IsFiniteSet({a, b})
    <2>1. IsFiniteSet({a}) /\ {a, b} = {a} \cup {b}
      BY FS_Singleton
    <2> QED
      BY <2>1, FS_AddElement
  <1>2. Max({a, b}) \in {a, b} /\ \A y \in {a, b} : Max({a, b}) >= y
    BY <1>1, MaxGreatest
  <1> DEFINE x == Max({a, b})
  <1> HIDE DEF x
  <1>3. (x = a \/ x = b) /\ x >= a /\ x >= b
    BY <1>2 DEF x
  <1>4. x \in Int /\ \A e \in Int : x >= e <=> a >= e \/ b >= e
    BY <1>3
  <1> QED
    BY <1>4 DEF x

\* The end that readMaximumEnd finds reaches e where one of the places it reads does.
LEMMA ReadReaches ==
    ASSUME NEW c \in Nat, NEW tree \in [1..c -> Int], NEW j \in 0..c, NEW e \in Nat
    PROVE  ReadMaximumEnd(tree, j) >= e <=> \E p \in Downward(j) : tree[p] >= e
  <1> DEFINE P == Downward(j)
             R == {tree[i] : i \in P}
             S == {-1} \cup R
  <1>1. P \subseteq 1..c
    BY DownwardPlaces
  <1>2. IsFiniteSet(P)
    BY <1>1, FS_Interval, FS_Subset
  <1>3. IsFiniteSet(R)
    <2>1. [i \in P |-> tree[i]] \in Surjection(P, R)
      BY DEF Surjection
    <2> HIDE DEF P, R
    <2> QED
      BY <1>2, <2>1, FS_Surjection
  <1>4. IsFiniteSet(S) /\ S \in SUBSET Int /\ S # {}
    <2>1. S = R \cup {-1}
      OBVIOUS
    <2>2. IsFiniteSet(R \cup {-1})
      <3> HIDE DEF R
      <3> QED
        BY <1>3, FS_AddElement
    <2>3. S \in SUBSET Int /\ S # {}
      BY <1>1
    <2> QED
      BY <2>1, <2>2, <2>3
  <1>5. Max(S) \in S /\ \A y \in S : Max(S) >= y
    <2> HIDE DEF S
    <2> QED
      BY <1>4, MaxGreatest
  <1>6. ReadMaximumEnd(tree, j) = Max(S)
    BY DEF ReadMaximumEnd
  <1> DEFINE x == Max(S)
  <1>7. x = -1 \/ \E p \in P : x = tree[p]
    BY <1>5
  <1>8. \A p \in P : x >= tree[p] /\ tree[p] \in Int
    BY <1>1, <1>5
  <1>9. x \in Int
    BY <1>4, <1>5
  <1> HIDE DEF x, S, R, P
  <1>10. x >= e <=> \E p \in P : tree[p] >= e
    BY <1>7, <1>8, <1>9
  <1> QED
    BY <1>6, <1>10 DEF x, P

\* The index of a start in the tree.
At(starts, range) == StartsBefore(starts, range[1]) + 1

\* lower_bound and upper_bound agree: a start is among the first StartsThrough(end) of them
\* where it is not after the end.
LEMMA StartIndex ==
    ASSUME NEW starts \in SUBSET Int, IsFiniteSet(starts), NEW range \in Int \X Int,
           range[1] \in starts, NEW e \in Int
    PROVE  /\ At(starts, range) \in 1..Cardinality(starts)
           /\ StartsThrough(starts, e) \in 0..Cardinality(starts)
           /\ At(starts, range) <= StartsThrough(starts, e) <=> range[1] <= e
  <1> DEFINE s == range[1]
             A == {x \in starts : x < s}
             B == A \cup {s}
             C == {x \in starts : x <= e}
  <1>0. s \in Int /\ \A x \in starts : x \in Int
    OBVIOUS
  <1>1. IsFiniteSet(A) /\ IsFiniteSet(C) /\ Cardinality(C) <= Cardinality(starts)
    BY FS_Subset
  <1>2. IsFiniteSet(B) /\ Cardinality(B) = Cardinality(A) + 1
    <2>1. s \notin A
      OBVIOUS
    <2> HIDE DEF A, s
    <2> QED
      BY <1>1, <2>1, FS_AddElement
  <1>3. Cardinality(B) <= Cardinality(starts)
    <2>1. B \in SUBSET starts
      OBVIOUS
    <2> HIDE DEF B
    <2> QED
      BY <2>1, FS_Subset
  <1>4. Cardinality(A) \in Nat /\ Cardinality(C) \in Nat /\ Cardinality(starts) \in Nat
    BY <1>1, FS_CardinalityType
  <1>5. At(starts, range) = Cardinality(A) + 1 /\ StartsThrough(starts, e) = Cardinality(C)
    BY DEF At, StartsBefore, StartsThrough
  <1>6. CASE s <= e
    <2>1. B \in SUBSET C
      <3>1. \A x \in starts : x < s => x <= e
        BY <1>0, <1>6
      <3> HIDE DEF s
      <3> QED
        BY <1>6, <3>1 DEF s
    <2>2. Cardinality(B) <= Cardinality(C)
      <3> HIDE DEF B, C
      <3> QED
        BY <1>1, <2>1, FS_Subset
    <2> HIDE DEF A, B, C
    <2> QED
      BY <1>1, <1>2, <1>3, <1>4, <1>5, <1>6, <2>2
  <1>7. CASE ~(s <= e)
    <2>1. C \in SUBSET A
      <3>1. \A x \in starts : x <= e => x < s
        BY <1>0, <1>7
      <3> HIDE DEF s
      <3> QED
        BY <3>1
    <2>2. Cardinality(C) <= Cardinality(A)
      <3> HIDE DEF A, C
      <3> QED
        BY <1>1, <2>1, FS_Subset
    <2> HIDE DEF A, B, C
    <2> QED
      BY <1>1, <1>2, <1>3, <1>4, <1>5, <1>7, <2>2
  <1> QED
    BY <1>6, <1>7

\* recordEnd raises to the end the places that stand for the index.
LEMMA RecordRaises ==
    ASSUME NEW c \in Nat, NEW tree \in [1..c -> Int], NEW index \in 1..c, NEW end \in Int
    PROVE  /\ RecordEnd(tree, index, end) \in [1..c -> Int]
           /\ \A p \in 1..c, e \in Int :
                 RecordEnd(tree, index, end)[p] >= e
                    <=> tree[p] >= e \/ (StandsFor(p, index) /\ end >= e)
  <1> DEFINE new == RecordEnd(tree, index, end)
  <1>1. Len(tree) = c /\ DOMAIN tree = 1..c
    OBVIOUS
  <1>2. new = [i \in 1..c |-> IF StandsFor(i, index) THEN Max({tree[i], end}) ELSE tree[i]]
    <2>1. \A i \in 1..c : i \in Upward(index, c) <=> StandsFor(i, index)
      BY UpwardPlaces
    <2> QED
      BY <1>1, <2>1 DEF RecordEnd
  <1>3. \A i \in 1..c : Max({tree[i], end}) \in Int
                        /\ \A e \in Int : Max({tree[i], end}) >= e <=> tree[i] >= e \/ end >= e
    BY MaxOfTwo
  <1> HIDE DEF new
  <1>4. new \in [1..c -> Int]
    BY <1>2, <1>3
  <1>5. ASSUME NEW p \in 1..c, NEW e \in Int
        PROVE  new[p] >= e <=> tree[p] >= e \/ (StandsFor(p, index) /\ end >= e)
    BY <1>2, <1>3
  <1> QED
    BY <1>4, <1>5 DEF new

\* The tree after the first n ranges: a place reaches e where one of the ranges whose start
\* it stands for does.
TreeAfter(tree, starts, ranges, n) ==
    /\ tree \in [1..Cardinality(starts) -> Int]
    /\ \A p \in 1..Cardinality(starts), e \in Nat :
          tree[p] >= e <=> \E k \in 1..n : StandsFor(p, At(starts, ranges[k])) /\ ranges[k][2] >= e

\* The n-th range shares a byte with one before it.
MeetsEarlier(ranges, n) ==
    \E k \in 1..(n - 1) : ranges[k][1] <= ranges[n][2] /\ ranges[k][2] >= ranges[n][1]

StartsOf(ranges) == {ranges[i][1] : i \in DOMAIN ranges}

LEMMA StartsFinite ==
    ASSUME NEW ranges \in Seq(Nat \X Nat)
    PROVE  /\ StartsOf(ranges) \in SUBSET Int /\ IsFiniteSet(StartsOf(ranges))
           /\ Cardinality(StartsOf(ranges)) \in Nat
           /\ \A i \in 1..Len(ranges) : ranges[i] \in Nat \X Nat /\ ranges[i][1] \in StartsOf(ranges)
  <1> DEFINE S == StartsOf(ranges)
             f == [i \in 1..Len(ranges) |-> ranges[i][1]]
  <1>1. \A i \in 1..Len(ranges) : ranges[i] \in Nat \X Nat /\ ranges[i][1] \in Nat
    OBVIOUS
  <1>2. S = {ranges[i][1] : i \in 1..Len(ranges)}
    BY DEF StartsOf
  <1>3. f \in Surjection(1..Len(ranges), S)
    BY <1>2 DEF Surjection
  <1>4. IsFiniteSet(1..Len(ranges))
    BY FS_Interval
  <1>5. IsFiniteSet(S)
    <2> HIDE DEF f, S
    <2> QED
      BY <1>3, <1>4, FS_Surjection
  <1>6. Cardinality(S) \in Nat
    BY <1>5, FS_CardinalityType
  <1>7. S \in SUBSET Int
    BY <1>1, <1>2
  <1>8. \A i \in 1..Len(ranges) : ranges[i][1] \in S
    BY <1>2
  <1> QED
    BY <1>1, <1>5, <1>6, <1>7, <1>8

\* One turn of the loop: the query answers whether the range meets one before it, and the
\* tree takes the range in.
LEMMA VisitExact ==
    ASSUME NEW ranges \in Seq(Nat \X Nat), NEW n \in 1..Len(ranges), NEW st,
           TreeAfter(st.tree, StartsOf(ranges), ranges, n - 1)
    PROVE  LET next == Visit(StartsOf(ranges), st, ranges[n])
           IN  /\ TreeAfter(next.tree, StartsOf(ranges), ranges, n)
               /\ next.count = IF MeetsEarlier(ranges, n) THEN st.count + 1 ELSE st.count
  <1> DEFINE starts == StartsOf(ranges)
             c == Cardinality(starts)
             range == ranges[n]
             next == Visit(starts, st, range)
             tree == st.tree
             through == StartsThrough(starts, range[2])
  <1>1. /\ starts \in SUBSET Int /\ IsFiniteSet(starts) /\ c \in Nat
        /\ \A i \in 1..Len(ranges) : ranges[i] \in Nat \X Nat /\ ranges[i][1] \in starts
    BY StartsFinite
  <1>2. range \in Nat \X Nat /\ range[1] \in starts /\ range[1] \in Nat /\ range[2] \in Nat
    BY <1>1
  <1>3. tree \in [1..c -> Int]
    BY DEF TreeAfter
  <1>4. \A p \in 1..c, e \in Nat :
           tree[p] >= e <=> \E k \in 1..(n - 1) : StandsFor(p, At(starts, ranges[k])) /\ ranges[k][2] >= e
    BY DEF TreeAfter
  <1>5. next.tree = RecordEnd(tree, At(starts, range), range[2])
    BY DEF Visit, At
  <1>6. next.count = IF ReadMaximumEnd(tree, through) >= range[1] THEN st.count + 1 ELSE st.count
    BY DEF Visit
  <1>7. \A i \in 1..Len(ranges) :
           /\ At(starts, ranges[i]) \in 1..c
           /\ At(starts, ranges[i]) <= through <=> ranges[i][1] <= range[2]
    <2> SUFFICES ASSUME NEW i \in 1..Len(ranges)
                 PROVE  /\ At(starts, ranges[i]) \in 1..c
                        /\ At(starts, ranges[i]) <= through <=> ranges[i][1] <= range[2]
      OBVIOUS
    <2> DEFINE x == ranges[i]
    <2> HIDE DEF starts, range, x
    <2>1. x \in Nat \X Nat /\ x[1] \in starts
      BY <1>1 DEF x
    <2>2. x \in Int \X Int /\ range[2] \in Int
      BY <1>2, <2>1
    <2>3. At(starts, x) \in 1..c /\ (At(starts, x) <= through <=> x[1] <= range[2])
      BY <1>1, <2>1, <2>2, StartIndex
    <2> QED
      BY <2>3 DEF x
  <1>8. through \in 0..c
    <2>1. range \in Int \X Int /\ range[2] \in Int
      BY <1>2
    <2> HIDE DEF starts, range
    <2> QED
      BY <1>1, <1>2, <2>1, StartIndex
  <1> HIDE DEF starts, c, range, next, tree, through
  <1>9. TreeAfter(next.tree, starts, ranges, n)
    <2>1. At(starts, range) \in 1..c
      BY <1>7 DEF range
    <2> DEFINE index == At(starts, range)
               end == range[2]
    <2>2. end \in Int /\ c \in Nat /\ index \in 1..c
      BY <1>1, <1>2, <2>1
    <2> HIDE DEF index, end
    <2>3. /\ RecordEnd(tree, index, end) \in [1..c -> Int]
          /\ \A p \in 1..c, e \in Int :
                RecordEnd(tree, index, end)[p] >= e <=> tree[p] >= e \/ (StandsFor(p, index) /\ end >= e)
      BY <1>3, <2>2, RecordRaises
    <2>4. /\ next.tree \in [1..c -> Int]
          /\ \A p \in 1..c, e \in Int :
                next.tree[p] >= e <=> tree[p] >= e \/ (StandsFor(p, At(starts, range)) /\ range[2] >= e)
      BY <1>5, <2>3 DEF index, end
    <2>5. ASSUME NEW p \in 1..c, NEW e \in Nat
          PROVE  next.tree[p] >= e <=> \E k \in 1..n : StandsFor(p, At(starts, ranges[k])) /\ ranges[k][2] >= e
      <3>1. next.tree[p] >= e <=> tree[p] >= e \/ (StandsFor(p, At(starts, range)) /\ range[2] >= e)
        BY <2>4
      <3>2. tree[p] >= e <=> \E k \in 1..(n - 1) : StandsFor(p, At(starts, ranges[k])) /\ ranges[k][2] >= e
        BY <1>4
      <3>3. \A k : k \in 1..n <=> k \in 1..(n - 1) \/ k = n
        OBVIOUS
      <3> QED
        BY <3>1, <3>2, <3>3, Zenon DEF range
    <2> QED
      BY <2>4, <2>5 DEF TreeAfter, c
  <1>10. ReadMaximumEnd(tree, through) >= range[1] <=> MeetsEarlier(ranges, n)
    <2>1. ReadMaximumEnd(tree, through) >= range[1] <=> \E p \in Downward(through) : tree[p] >= range[1]
      BY <1>1, <1>2, <1>3, <1>8, ReadReaches
    <2>2. through \in Nat /\ Downward(through) \subseteq 1..c
      BY <1>1, <1>8, DownwardPlaces
    <2>3. \A p \in Downward(through) :
             tree[p] >= range[1] <=>
                \E k \in 1..(n - 1) : StandsFor(p, At(starts, ranges[k])) /\ ranges[k][2] >= range[1]
      BY <1>2, <1>4, <2>2
    <2>4. ASSUME NEW k \in 1..(n - 1)
          PROVE  (\E p \in Downward(through) : StandsFor(p, At(starts, ranges[k])))
                    <=> ranges[k][1] <= range[2]
      <3>1. k \in 1..Len(ranges)
        OBVIOUS
      <3>2. At(starts, ranges[k]) \in Nat \ {0}
        <4> DEFINE a == At(starts, ranges[k])
        <4>1. a \in 1..c
          BY <1>7, <3>1
        <4> HIDE DEF a
        <4>2. a \in Nat \ {0}
          BY <1>1, <4>1
        <4> QED
          BY <4>2 DEF a
      <3>3. At(starts, ranges[k]) <= through <=> \E p \in Downward(through) : StandsFor(p, At(starts, ranges[k]))
        BY <2>2, <3>2, DownwardPlaces
      <3> QED
        BY <1>7, <3>1, <3>3
    <2>5. MeetsEarlier(ranges, n) <=>
             \E k \in 1..(n - 1) : ranges[k][1] <= range[2] /\ ranges[k][2] >= range[1]
      BY DEF MeetsEarlier, range
    <2> QED
      BY <2>1, <2>3, <2>4, <2>5, Zenon
  <1> QED
    BY <1>6, <1>9, <1>10 DEF next, starts, range, tree

\* What the loop keeps: the tree and the count.
LoopStates(starts) == [tree : [1..Cardinality(starts) -> Int], count : Nat]

LoopStart(starts) == [tree |-> [i \in 1..Cardinality(starts) |-> -1], count |-> 0]

LEMMA VisitType ==
    ASSUME NEW ranges \in Seq(Nat \X Nat), NEW n \in 1..Len(ranges),
           NEW st \in LoopStates(StartsOf(ranges))
    PROVE  Visit(StartsOf(ranges), st, ranges[n]) \in LoopStates(StartsOf(ranges))
  <1> DEFINE starts == StartsOf(ranges)
             c == Cardinality(starts)
             range == ranges[n]
             index == At(starts, range)
             end == range[2]
  <1>1. /\ starts \in SUBSET Int /\ IsFiniteSet(starts) /\ c \in Nat
        /\ range \in Int \X Int /\ range[1] \in starts /\ end \in Int
    <2>1. range \in Nat \X Nat /\ range[1] \in starts
      BY StartsFinite
    <2> QED
      BY <2>1, StartsFinite
  <1>2. index \in 1..c
    <2> HIDE DEF starts, range
    <2> QED
      BY <1>1, StartIndex
  <1>3. st.tree \in [1..c -> Int] /\ st.count \in Nat
    BY DEF LoopStates
  <1>4. Visit(starts, st, range) =
           [tree |-> RecordEnd(st.tree, index, end),
            count |-> IF ReadMaximumEnd(st.tree, StartsThrough(starts, end)) >= range[1]
                      THEN st.count + 1 ELSE st.count]
    BY DEF Visit, At
  <1> HIDE DEF starts, c, range, index, end
  <1>5. RecordEnd(st.tree, index, end) \in [1..c -> Int]
    BY <1>1, <1>2, <1>3, RecordRaises
  <1>6. Visit(starts, st, range) \in [tree : [1..c -> Int], count : Nat]
    BY <1>3, <1>4, <1>5
  <1> QED
    BY <1>6 DEF LoopStates, c, starts, range

\* The loop of NormalizeRequestedRanges over any ranges with their starts and ends in the
\* file: there is a sequence of states that begins empty and goes from each to the next by
\* one turn, and OverlapCount is the count in the last.
LEMMA LoopStatesExist ==
    ASSUME NEW ranges \in Seq(Nat \X Nat)
    PROVE  \E f :
              /\ f[0] = LoopStart(StartsOf(ranges))
              /\ \A n \in 1..Len(ranges) : f[n] = Visit(StartsOf(ranges), f[n - 1], ranges[n])
              /\ OverlapCount(ranges) = f[Len(ranges)].count
  <1> DEFINE N == Len(ranges)
             D == 0..N
             starts == StartsOf(ranges)
             V == LoopStates(starts)
             first == LoopStart(starts)
             body(f, n) == IF n = 0 THEN first ELSE Visit(starts, f[n - 1], ranges[n])
             Phi == [p \in [D -> V] \X D |-> body(p[1], p[2])]
             m == [n \in D |-> n]
             after[n \in D] == IF n = 0 THEN first ELSE Visit(starts, after[n - 1], ranges[n])
  <1>0. N \in Nat /\ \A n \in D : n \in Nat /\ (n # 0 => n - 1 \in D /\ n - 1 < n /\ n \in 1..N)
    OBVIOUS
  <1>1. first \in V
    <2>1. Cardinality(starts) \in Nat
      BY StartsFinite
    <2> QED
      BY <2>1 DEF LoopStart, LoopStates
  <1>2. m \in [D -> Nat] /\ \A n \in D : m[n] = n
    OBVIOUS
  <1>3. \A f \in [D -> V] : \A n \in D : body(f, n) \in V
    <2> SUFFICES ASSUME NEW f \in [D -> V], NEW n \in D PROVE body(f, n) \in V
      OBVIOUS
    <2>1. CASE n = 0
      BY <1>1, <2>1
    <2>2. CASE n # 0
      <3>1. n \in 1..Len(ranges) /\ f[n - 1] \in V
        BY <1>0, <2>2
      <3>2. Visit(starts, f[n - 1], ranges[n]) \in V
        BY <3>1, VisitType
      <3> QED
        BY <2>2, <3>2
    <2> QED
      BY <2>1, <2>2
  <1> HIDE DEF V, first
  <1>4. Phi \in [[D -> V] \X D -> V] /\ \A f \in [D -> V] : \A n \in D : Phi[<<f, n>>] = body(f, n)
    <2> HIDE DEF body, D
    <2> QED
      BY <1>3
  <1>5. Local(D, V, m, Phi)
    <2> SUFFICES ASSUME NEW g \in [D -> V], NEW h \in [D -> V], NEW n \in D,
                        \A e \in D : m[e] < m[n] => g[e] = h[e]
                 PROVE  Phi[<<g, n>>] = Phi[<<h, n>>]
      BY DEF Local
    <2> HIDE DEF m
    <2>1. n = 0 \/ g[n - 1] = h[n - 1]
      BY <1>0, <1>2
    <2>2. body(g, n) = body(h, n)
      BY <2>1
    <2> HIDE DEF Phi, body, D
    <2> QED
      BY <1>4, <2>2
  <1>6. PICK f \in [D -> V] : \A n \in D : f[n] = Phi[<<f, n>>]
    <2> HIDE DEF Phi, m, D
    <2>1. Scheme(D, V, m, Phi)
      BY <1>1, <1>2, <1>4, <1>5 DEF Scheme
    <2> QED
      BY <2>1, Recursion DEF Solvable
  <1>7. \A n \in D : f[n] = body(f, n)
    <2> HIDE DEF Phi, body, D
    <2> QED
      BY <1>4, <1>6
  <1>8. f = [n \in D |-> body(f, n)]
    <2> HIDE DEF Phi, body, D
    <2> QED
      BY <1>7
  <1>9. after = [n \in D |-> body(after, n)]
    BY <1>8
  <1>10. OverlapCount(ranges) = after[N].count
    BY DEF OverlapCount, StartsOf, first, LoopStart
  <1> HIDE DEF after
  <1>11. \A n \in D : after[n] = body(after, n)
    BY <1>9
  <1>12. after[0] = first /\ \A n \in 1..N : after[n] = Visit(starts, after[n - 1], ranges[n])
    BY <1>0, <1>11
  <1> QED
    BY <1>10, <1>12 DEF first

\* The code's count of overlaps is the number of ranges that share a byte with one before.
LEMMA OverlapCountExact ==
    ASSUME NEW ranges \in Seq(Nat \X Nat)
    PROVE  OverlapCount(ranges) = Cardinality({n \in 1..Len(ranges) : MeetsEarlier(ranges, n)})
  <1> DEFINE N == Len(ranges)
             starts == StartsOf(ranges)
             Met(n) == {i \in 1..n : MeetsEarlier(ranges, i)}
  <1>1. PICK f :
              /\ f[0] = LoopStart(starts)
              /\ \A n \in 1..N : f[n] = Visit(starts, f[n - 1], ranges[n])
              /\ OverlapCount(ranges) = f[N].count
    BY LoopStatesExist
  <1>2. N \in Nat
    OBVIOUS
  <1> DEFINE Good == {n \in Nat : n <= N => /\ TreeAfter(f[n].tree, starts, ranges, n)
                                            /\ f[n].count = Cardinality(Met(n))}
  <1>3. 0 \in Good
    <2>1. f[0].count = 0 /\ f[0].tree = [i \in 1..Cardinality(starts) |-> -1]
      BY <1>1 DEF LoopStart
    <2>2. Met(0) = {}
      OBVIOUS
    <2>3. Cardinality(Met(0)) = 0
      BY <2>2, FS_EmptySet
    <2>4. Cardinality(starts) \in Nat
      BY StartsFinite
    <2>5. TreeAfter(f[0].tree, starts, ranges, 0)
      <3> HIDE DEF starts
      <3> QED
        BY <2>1, <2>4 DEF TreeAfter
    <2> QED
      BY <2>1, <2>3, <2>5
  <1>4. ASSUME NEW n \in Nat, n \in Good PROVE n + 1 \in Good
    <2> SUFFICES ASSUME n + 1 <= N
                 PROVE  /\ TreeAfter(f[n + 1].tree, starts, ranges, n + 1)
                        /\ f[n + 1].count = Cardinality(Met(n + 1))
      OBVIOUS
    <2> DEFINE k == n + 1
    <2>1. k \in 1..N /\ k - 1 = n /\ n <= N
      BY <1>2
    <2>2. TreeAfter(f[n].tree, starts, ranges, k - 1) /\ f[n].count = Cardinality(Met(n))
      BY <1>4, <2>1
    <2>3. f[k] = Visit(starts, f[n], ranges[k])
      BY <1>1, <2>1
    <2>4. /\ TreeAfter(f[k].tree, starts, ranges, k)
          /\ f[k].count = IF MeetsEarlier(ranges, k) THEN f[n].count + 1 ELSE f[n].count
      <3> DEFINE st == f[n]
                 next == Visit(StartsOf(ranges), st, ranges[k])
      <3>1. k \in 1..Len(ranges) /\ TreeAfter(st.tree, StartsOf(ranges), ranges, k - 1)
        BY <2>1, <2>2
      <3> HIDE DEF k, st
      <3>2. /\ TreeAfter(next.tree, StartsOf(ranges), ranges, k)
            /\ next.count = IF MeetsEarlier(ranges, k) THEN st.count + 1 ELSE st.count
        BY <3>1, VisitExact
      <3>3. f[k] = next
        BY <2>3 DEF st
      <3> HIDE DEF next
      <3> QED
        BY <3>2, <3>3 DEF st
    <2>5. IsFiniteSet(Met(n)) /\ k \notin Met(n)
      <3>1. Met(n) \in SUBSET (1..n)
        OBVIOUS
      <3>2. IsFiniteSet(1..n)
        BY FS_Interval
      <3>3. IsFiniteSet(Met(n))
        BY <3>1, <3>2, FS_Subset
      <3>4. k \notin 1..n
        OBVIOUS
      <3> QED
        BY <3>1, <3>3, <3>4
    <2>6. Met(k) = IF MeetsEarlier(ranges, k) THEN Met(n) \cup {k} ELSE Met(n)
      <3>1. \A i : i \in 1..k <=> i \in 1..n \/ i = k
        OBVIOUS
      <3> HIDE DEF k
      <3> QED
        BY <3>1
    <2>7. Cardinality(Met(n) \cup {k}) = Cardinality(Met(n)) + 1
      <3> HIDE DEF Met, k
      <3> QED
        BY <2>5, FS_AddElement
    <2> HIDE DEF Met, k
    <2>8. f[k].count = Cardinality(Met(k))
      BY <2>2, <2>4, <2>6, <2>7
    <2> QED
      BY <2>4, <2>8 DEF k
  <1>5. N \in Good
    <2> HIDE DEF Good, N
    <2> QED
      BY <1>2, <1>3, <1>4, SetInduction
  <1> QED
    BY <1>1, <1>2, <1>5

-----------------------------------------------------------------------------
(* The answer                                                              *)

\* What remove_if erases is what stands for no byte, and the others are normalised to the
\* first and the last byte they stand for.
LEMMA NormalizedExact ==
    ASSUME NEW size \in Nat \ {0}, NEW range \in Int \X Int, ~Reversed(range)
    PROVE  /\ Erased(range, size) <=> BytesOf(range, size) = {}
           /\ ~Erased(range, size) =>
                 /\ Normalized(range, size) \in Nat \X Nat
                 /\ Normalized(range, size)[1] <= Normalized(range, size)[2]
                 /\ Normalized(range, size)[1]..Normalized(range, size)[2] = BytesOf(range, size)
  <1> DEFINE a == range[1]
             b == range[2]
             bytes == BytesOf(range, size)
             n == Normalized(range, size)
  <1>1. a \in Int /\ b \in Int /\ ~(a >= 0 /\ b >= 0 /\ a > b)
    BY DEF Reversed
  <1>2. Erased(range, size) <=> (a < 0 /\ b <= 0) \/ a >= size
    BY DEF Erased
  <1>3. \A k : k \in bytes <=> /\ k \in 0..(size - 1)
                               /\ a < 0 => k >= size - b
                               /\ a >= 0 => k >= a /\ (b >= 0 => k <= b)
    BY <1>1 DEF BytesOf
  <1>4. n = IF a < 0 THEN <<IF b >= size THEN 0 ELSE size - b, size - 1>>
            ELSE <<a, IF b < 0 \/ b >= size THEN size - 1 ELSE b>>
    BY <1>1 DEF Normalized
  <1> HIDE DEF a, b, bytes, n
  <1>5. CASE (a < 0 /\ b <= 0) \/ a >= size
    <2>1. \A k : k \notin bytes
      BY <1>1, <1>3, <1>5
    <2> QED
      BY <1>2, <1>5, <2>1 DEF bytes
  <1>6. CASE ~((a < 0 /\ b <= 0) \/ a >= size)
    <2> DEFINE lo == n[1]
               hi == n[2]
    <2>1. n \in Nat \X Nat /\ lo \in Nat /\ hi \in Nat /\ lo <= hi /\ hi <= size - 1
      <3>1. CASE a < 0
        BY <1>1, <1>4, <1>6, <3>1
      <3>2. CASE a >= 0
        BY <1>1, <1>4, <1>6, <3>2
      <3> QED
        BY <1>1, <3>1, <3>2
    <2>2. \A k : k \in bytes <=> k \in Int /\ lo <= k /\ k <= hi
      <3>1. CASE a < 0
        <4>1. hi = size - 1 /\ lo = IF b >= size THEN 0 ELSE size - b
          BY <1>4, <3>1
        <4> HIDE DEF lo, hi
        <4> QED
          BY <1>1, <1>3, <1>6, <3>1, <4>1
      <3>2. CASE a >= 0
        <4>1. lo = a /\ hi = IF b < 0 \/ b >= size THEN size - 1 ELSE b
          BY <1>1, <1>4, <3>2
        <4> HIDE DEF lo, hi
        <4> QED
          BY <1>1, <1>3, <1>6, <3>2, <4>1
      <3> QED
        BY <1>1, <3>1, <3>2
    <2> HIDE DEF lo, hi
    <2>3. lo \in bytes
      BY <2>1, <2>2
    <2>4. lo..hi = bytes
      <3>1. \A k : k \in lo..hi <=> k \in Int /\ lo <= k /\ k <= hi
        BY <2>1
      <3> QED
        BY <2>2, <3>1, Zenon
    <2> QED
      BY <1>2, <1>6, <2>1, <2>3, <2>4 DEF lo, hi, bytes, n
  <1> QED
    BY <1>5, <1>6

\* Two normalised ranges share a byte where each begins before the other ends.
LEMMA IntervalsMeet ==
    ASSUME NEW x \in Nat \X Nat, NEW y \in Nat \X Nat, x[1] <= x[2], y[1] <= y[2]
    PROVE  (x[1]..x[2]) \cap (y[1]..y[2]) # {} <=> x[1] <= y[2] /\ x[2] >= y[1]
  <1> DEFINE a == x[1]
             b == x[2]
             c == y[1]
             d == y[2]
  <1>1. a \in Nat /\ b \in Nat /\ c \in Nat /\ d \in Nat /\ a <= b /\ c <= d
    OBVIOUS
  <1> HIDE DEF a, b, c, d
  <1>2. ASSUME NEW k \in (a..b) \cap (c..d) PROVE a <= d /\ b >= c
    BY <1>1, <1>2
  <1>3. ASSUME a <= d, b >= c PROVE (a..b) \cap (c..d) # {}
    <2>1. CASE a <= c
      <3>1. c \in a..b /\ c \in c..d
        BY <1>1, <1>3, <2>1
      <3> QED
        BY <3>1
    <2>2. CASE c <= a
      <3>1. a \in a..b /\ a \in c..d
        BY <1>1, <1>3, <2>2
      <3> QED
        BY <3>1
    <2> QED
      BY <1>1, <2>1, <2>2
  <1> QED
    BY <1>2, <1>3 DEF a, b, c, d

\* What the satisfiable ranges up to the n-th are, and their number.
UpTo(asked, size, n) == {j \in Satisfiable(asked, size) : j <= n}

LEMMA UpToNext ==
    ASSUME NEW size \in Nat, NEW asked \in Seq(Int \X Int), NEW n \in 1..Len(asked)
    PROVE  /\ Satisfiable(asked, size) \in SUBSET (1..Len(asked))
           /\ UpTo(asked, size, 0) = {} /\ Cardinality(UpTo(asked, size, 0)) = 0
           /\ Cardinality(UpTo(asked, size, n - 1)) \in Nat
           /\ UpTo(asked, size, n) = IF n \in Satisfiable(asked, size)
                                     THEN UpTo(asked, size, n - 1) \cup {n}
                                     ELSE UpTo(asked, size, n - 1)
           /\ Cardinality(UpTo(asked, size, n)) = IF n \in Satisfiable(asked, size)
                                                  THEN Cardinality(UpTo(asked, size, n - 1)) + 1
                                                  ELSE Cardinality(UpTo(asked, size, n - 1))
  <1> DEFINE S == Satisfiable(asked, size)
             U == UpTo(asked, size, n - 1)
  <1>1. S \in SUBSET (1..Len(asked)) /\ \A j \in S : j \in Nat /\ j >= 1
    BY DEF Satisfiable
  <1>2. IsFiniteSet(S)
    <2>1. IsFiniteSet(1..Len(asked))
      BY FS_Interval
    <2> HIDE DEF S
    <2> QED
      BY <1>1, <2>1, FS_Subset
  <1> HIDE DEF S
  <1>3. IsFiniteSet(U) /\ n \notin U
    <2>1. U \in SUBSET S /\ n \notin U
      BY DEF UpTo, S
    <2> HIDE DEF U
    <2> QED
      BY <1>2, <2>1, FS_Subset
  <1>4. UpTo(asked, size, 0) = {}
    BY <1>1 DEF UpTo, S
  <1>5. UpTo(asked, size, n) = IF n \in S THEN U \cup {n} ELSE U
    <2>1. \A j \in S : j <= n <=> j <= n - 1 \/ j = n
      BY <1>1
    <2>2. UpTo(asked, size, n) = {j \in S : j <= n} /\ U = {j \in S : j <= n - 1}
      BY DEF UpTo, S
    <2> HIDE DEF U
    <2> QED
      BY <2>1, <2>2
  <1> HIDE DEF U
  <1>6. Cardinality(U \cup {n}) = Cardinality(U) + 1 /\ Cardinality(U) \in Nat
    BY <1>3, FS_AddElement, FS_CardinalityType
  <1>7. Cardinality(UpTo(asked, size, 0)) = 0
    BY <1>4, FS_EmptySet
  <1> QED
    BY <1>1, <1>4, <1>5, <1>6, <1>7 DEF S, U

\* The ranges kept of the first n, in their places.
KeptAfter(asked, size, n, seq) ==
    /\ seq \in Seq(Nat \X Nat)
    /\ Len(seq) = Cardinality(UpTo(asked, size, n))
    /\ \A i \in UpTo(asked, size, n) :
          /\ Place(asked, size, i) \in 1..Len(seq)
          /\ seq[Place(asked, size, i)] = Normalized(asked[i], size)
          /\ \A j \in UpTo(asked, size, n) :
                i < j => Place(asked, size, i) < Place(asked, size, j)
    /\ \A q \in 1..Len(seq) : \E i \in UpTo(asked, size, n) : Place(asked, size, i) = q

\* One more range asked for.
LEMMA KeptNext ==
    ASSUME NEW size \in Nat \ {0}, NEW asked \in Seq(Int \X Int), NEW n \in 1..Len(asked),
           ~Reversed(asked[n]), NEW seq, KeptAfter(asked, size, n - 1, seq)
    PROVE  KeptAfter(asked, size, n,
                     IF Erased(asked[n], size) THEN seq ELSE Append(seq, Normalized(asked[n], size)))
  <1> DEFINE S == Satisfiable(asked, size)
             U == UpTo(asked, size, n - 1)
             P(i) == Place(asked, size, i)
             x == Normalized(asked[n], size)
  <1>1. asked[n] \in Int \X Int /\ n \in DOMAIN asked
    OBVIOUS
  <1>2. Erased(asked[n], size) <=> n \notin S
    BY <1>1, NormalizedExact DEF Satisfiable
  <1>3. CASE Erased(asked[n], size)
    <2>1. UpTo(asked, size, n) = U
      BY <1>2, <1>3, UpToNext
    <2> QED
      BY <1>3, <2>1 DEF KeptAfter
  <1>4. CASE ~Erased(asked[n], size)
    <2> DEFINE new == Append(seq, x)
               c == Len(seq)
    <2>1. x \in Nat \X Nat
      BY <1>1, <1>4, NormalizedExact
    <2>2. /\ UpTo(asked, size, n) = U \cup {n}
          /\ Cardinality(UpTo(asked, size, n)) = c + 1
      BY <1>2, <1>4, UpToNext DEF KeptAfter
    <2>3. P(n) = c + 1
      BY <2>2 DEF Place, UpTo
    <2>4. /\ seq \in Seq(Nat \X Nat) /\ c \in Nat
          /\ \A i \in U : P(i) \in 1..c /\ seq[P(i)] = Normalized(asked[i], size)
                          /\ \A j \in U : i < j => P(i) < P(j)
          /\ \A q \in 1..c : \E i \in U : P(i) = q
      BY DEF KeptAfter
    <2>5. \A i \in U : i \in Int /\ i < n
      <3>1. U = {j \in S : j <= n - 1} /\ S \subseteq DOMAIN asked
        BY Zenon DEF UpTo, Satisfiable
      <3>2. DOMAIN asked = 1..Len(asked)
        OBVIOUS
      <3> HIDE DEF U, S
      <3> QED
        BY <3>1, <3>2
    <2>6. new \in Seq(Nat \X Nat) /\ Len(new) = c + 1
      BY <2>1, <2>4
    <2>7. new[c + 1] = x /\ \A q \in 1..c : new[q] = seq[q]
      BY <2>1, <2>4
    <2> HIDE DEF new, c, x, U, P, S
    <2>8. ASSUME NEW i \in U \cup {n}
          PROVE  /\ P(i) \in 1..(c + 1) /\ new[P(i)] = Normalized(asked[i], size)
                 /\ \A j \in U \cup {n} : i < j => P(i) < P(j)
      <3>1. CASE i = n
        <4>1. P(i) \in 1..(c + 1) /\ new[P(i)] = Normalized(asked[i], size)
          BY <2>3, <2>4, <2>7, <3>1 DEF x
        <4>2. \A j \in U \cup {n} : ~(i < j)
          BY <2>5, <3>1
        <4> QED
          BY <4>1, <4>2
      <3>2. CASE i \in U
        <4>1. P(i) \in 1..c /\ seq[P(i)] = Normalized(asked[i], size)
          BY <2>4, <3>2
        <4>2. P(i) \in 1..(c + 1) /\ P(i) < c + 1
          <5> DEFINE q == P(i)
          <5> HIDE DEF q
          <5>1. q \in 1..c /\ c \in Nat
            BY <2>4, <4>1 DEF q
          <5>2. q \in 1..(c + 1) /\ q < c + 1
            BY <5>1
          <5> QED
            BY <5>2 DEF q
        <4>3. new[P(i)] = Normalized(asked[i], size)
          BY <2>7, <4>1
        <4>4. \A j \in U \cup {n} : i < j => P(i) < P(j)
          BY <2>3, <2>4, <3>2, <4>2
        <4> QED
          BY <4>2, <4>3, <4>4
      <3> QED
        BY <3>1, <3>2
    <2>9. ASSUME NEW q \in 1..(c + 1) PROVE \E i \in U \cup {n} : P(i) = q
      <3>1. q \in 1..c \/ q = c + 1
        BY <2>4
      <3> QED
        BY <2>3, <2>4, <3>1
    <2>10. KeptAfter(asked, size, n, new)
      BY <2>2, <2>6, <2>8, <2>9 DEF KeptAfter, P
    <2> QED
      BY <1>4, <2>10 DEF new, x
  <1> QED
    BY <1>3, <1>4

\* The loop of remove_if and normalisation, step by step.
LEMMA KeptStatesExist ==
    ASSUME NEW size \in Nat, NEW asked \in Seq(Int \X Int)
    PROVE  \E f :
              /\ f[0] = <<>>
              /\ \A n \in 1..Len(asked) :
                    f[n] = IF Erased(asked[n], size) THEN f[n - 1]
                           ELSE Append(f[n - 1], Normalized(asked[n], size))
              /\ KeptRanges(asked, size) = f[Len(asked)]
  <1> DEFINE N == Len(asked)
             D == 0..N
             V == Seq(Int \X Int)
             Turn(s, n) == IF Erased(asked[n], size) THEN s
                            ELSE Append(s, Normalized(asked[n], size))
             body(f, n) == IF n = 0 THEN <<>> ELSE Turn(f[n - 1], n)
             Phi == [p \in [D -> V] \X D |-> body(p[1], p[2])]
             m == [n \in D |-> n]
             kept[n \in D] ==
                IF n = 0 THEN <<>>
                ELSE IF Erased(asked[n], size) THEN kept[n - 1]
                ELSE Append(kept[n - 1], Normalized(asked[n], size))
  <1>0. N \in Nat /\ \A n \in D : n \in Nat /\ (n # 0 => n - 1 \in D /\ n - 1 < n /\ n \in 1..N)
    OBVIOUS
  <1>1. <<>> \in V
    OBVIOUS
  <1>2. m \in [D -> Nat] /\ \A n \in D : m[n] = n
    OBVIOUS
  <1>3. \A s \in V : \A n \in 1..N : Turn(s, n) \in V
    <2> SUFFICES ASSUME NEW s \in V, NEW n \in 1..N PROVE Turn(s, n) \in V
      OBVIOUS
    <2>1. asked[n] \in Int \X Int
      OBVIOUS
    <2>2. Normalized(asked[n], size) \in Int \X Int
      BY <2>1 DEF Normalized
    <2> QED
      BY <2>2
  <1>4. \A f \in [D -> V] : \A n \in D : body(f, n) \in V
    <2> HIDE DEF V, Turn
    <2> QED
      BY <1>0, <1>1, <1>3
  <1>5. Phi \in [[D -> V] \X D -> V] /\ \A f \in [D -> V] : \A n \in D : Phi[<<f, n>>] = body(f, n)
    <2> HIDE DEF body, D, V
    <2> QED
      BY <1>4
  <1> HIDE DEF V
  <1>6. Local(D, V, m, Phi)
    <2> SUFFICES ASSUME NEW g \in [D -> V], NEW h \in [D -> V], NEW n \in D,
                        \A e \in D : m[e] < m[n] => g[e] = h[e]
                 PROVE  Phi[<<g, n>>] = Phi[<<h, n>>]
      BY DEF Local
    <2> HIDE DEF m
    <2>1. n = 0 \/ g[n - 1] = h[n - 1]
      BY <1>0, <1>2
    <2>2. body(g, n) = body(h, n)
      <3> HIDE DEF Turn
      <3> QED
        BY <2>1
    <2> HIDE DEF Phi, body, D
    <2> QED
      BY <1>5, <2>2
  <1>7. PICK f \in [D -> V] : \A n \in D : f[n] = Phi[<<f, n>>]
    <2> HIDE DEF Phi, m, D
    <2>1. Scheme(D, V, m, Phi)
      BY <1>1, <1>2, <1>5, <1>6 DEF Scheme
    <2> QED
      BY <2>1, Recursion DEF Solvable
  <1>8. f = [n \in D |-> body(f, n)]
    <2> HIDE DEF Phi, body, D
    <2> QED
      BY <1>5, <1>7
  <1>9. kept = [n \in D |-> body(kept, n)]
    BY <1>8
  <1>10. KeptRanges(asked, size) = kept[N]
    BY DEF KeptRanges
  <1> HIDE DEF kept
  <1>11. \A n \in D : kept[n] = body(kept, n)
    BY <1>9
  <1>12. kept[0] = <<>> /\ \A n \in 1..N : kept[n] = Turn(kept[n - 1], n)
    <2> HIDE DEF Turn
    <2> QED
      BY <1>0, <1>11
  <1> QED
    BY <1>10, <1>12

LEMMA KeptExact ==
    ASSUME NEW size \in Nat \ {0}, NEW asked \in Seq(Int \X Int),
           \A i \in DOMAIN asked : ~Reversed(asked[i])
    PROVE  KeptAfter(asked, size, Len(asked), KeptRanges(asked, size))
  <1> DEFINE N == Len(asked)
  <1>1. PICK f :
           /\ f[0] = <<>>
           /\ \A n \in 1..N : f[n] = IF Erased(asked[n], size) THEN f[n - 1]
                                     ELSE Append(f[n - 1], Normalized(asked[n], size))
           /\ KeptRanges(asked, size) = f[N]
    BY KeptStatesExist
  <1> DEFINE Good == {n \in Nat : n <= N => KeptAfter(asked, size, n, f[n])}
  <1>2. N \in Nat
    OBVIOUS
  <1>3. 0 \in Good
    <2>1. UpTo(asked, size, 0) = {}
      BY DEF UpTo, Satisfiable
    <2>2. f[0] \in Seq(Nat \X Nat) /\ Len(f[0]) = 0
      BY <1>1
    <2>3. Cardinality({}) = 0
      BY FS_EmptySet
    <2>4. KeptAfter(asked, size, 0, f[0])
      <3>1. \A q : q \notin 1..Len(f[0])
        BY <2>2
      <3> QED
        BY <2>1, <2>2, <2>3, <3>1, Zenon DEF KeptAfter
    <2> QED
      BY <2>4
  <1>4. ASSUME NEW n \in Nat, n \in Good PROVE n + 1 \in Good
    <2> SUFFICES ASSUME n + 1 <= N PROVE KeptAfter(asked, size, n + 1, f[n + 1])
      OBVIOUS
    <2> DEFINE k == n + 1
    <2>1. k \in 1..N /\ k - 1 = n /\ n <= N /\ k \in DOMAIN asked
      BY <1>2
    <2>2. KeptAfter(asked, size, k - 1, f[k - 1])
      BY <1>4, <2>1
    <2>3. f[k] = IF Erased(asked[k], size) THEN f[k - 1]
                 ELSE Append(f[k - 1], Normalized(asked[k], size))
      BY <1>1, <2>1
    <2> HIDE DEF k
    <2>4. KeptAfter(asked, size, k, f[k])
      BY <2>1, <2>2, <2>3, KeptNext
    <2> QED
      BY <2>4 DEF k
  <1>5. N \in Good
    <2> HIDE DEF Good, N
    <2> QED
      BY <1>2, <1>3, <1>4, SetInduction
  <1> QED
    BY <1>1, <1>2, <1>5

\* Of the ranges asked for, those that share a byte with one before them are as many as the
\* code counts among the ranges it kept.
LEMMA OverlapsExact ==
    ASSUME NEW size \in Nat \ {0}, NEW asked \in Seq(Int \X Int),
           \A i \in DOMAIN asked : ~Reversed(asked[i])
    PROVE  OverlapCount(KeptRanges(asked, size)) = Cardinality(Overlapping(asked, size))
  <1> DEFINE N == Len(asked)
             S == Satisfiable(asked, size)
             ranges == KeptRanges(asked, size)
             P(i) == Place(asked, size, i)
             bytes(i) == BytesOf(asked[i], size)
             O == Overlapping(asked, size)
             M == {q \in 1..Len(ranges) : MeetsEarlier(ranges, q)}
  <1>1. KeptAfter(asked, size, N, ranges)
    BY KeptExact
  <1>2. UpTo(asked, size, N) = S /\ S \in SUBSET (1..N) /\ N \in Nat
    BY DEF UpTo, Satisfiable
  <1>3. /\ ranges \in Seq(Nat \X Nat)
        /\ \A i \in S : P(i) \in 1..Len(ranges) /\ ranges[P(i)] = Normalized(asked[i], size)
        /\ \A i, j \in S : i < j => P(i) < P(j)
        /\ \A q \in 1..Len(ranges) : \E i \in S : P(i) = q
    BY <1>1, <1>2 DEF KeptAfter
  <1>4. OverlapCount(ranges) = Cardinality(M)
    BY <1>3, OverlapCountExact
  <1>5. \A i \in S : /\ ranges[P(i)] \in Nat \X Nat /\ ranges[P(i)][1] <= ranges[P(i)][2]
                     /\ ranges[P(i)][1]..ranges[P(i)][2] = bytes(i)
    <2> SUFFICES ASSUME NEW i \in S
                 PROVE  /\ ranges[P(i)] \in Nat \X Nat /\ ranges[P(i)][1] <= ranges[P(i)][2]
                        /\ ranges[P(i)][1]..ranges[P(i)][2] = bytes(i)
      OBVIOUS
    <2>1. asked[i] \in Int \X Int /\ ~Reversed(asked[i]) /\ bytes(i) # {}
      BY DEF Satisfiable
    <2>2. ranges[P(i)] = Normalized(asked[i], size)
      BY <1>3
    <2> HIDE DEF ranges, P, S
    <2> QED
      BY <2>1, <2>2, NormalizedExact
  <1>6. O = {i \in S : \E j \in S : j < i /\ bytes(i) \cap bytes(j) # {}}
    <2>1. \A i \in 1..N, j \in 1..N : bytes(i) \cap bytes(j) # {} => i \in S /\ j \in S
      BY DEF Satisfiable
    <2>2. \A i \in 1..N : \A j : j \in 1..(i - 1) <=> j \in 1..N /\ j < i
      <3> HIDE DEF N
      <3> SUFFICES ASSUME NEW i \in 1..N, NEW j
                   PROVE  j \in 1..(i - 1) <=> j \in 1..N /\ j < i
        OBVIOUS
      <3> QED
        BY <1>2
    <2>3. O = {i \in 1..N : \E j \in 1..(i - 1) : bytes(i) \cap bytes(j) # {}}
      <3>1. DOMAIN asked = 1..N
        OBVIOUS
      <3> QED
        BY <3>1, Zenon DEF Overlapping
    <2>4. S \in SUBSET (1..N)
      BY <1>2
    <2> HIDE DEF O, S, bytes, N
    <2> QED
      BY <2>1, <2>2, <2>3, <2>4
  <1> HIDE DEF S, P, N, ranges, O, bytes
  <1>7. \A i, j \in S : bytes(i) \cap bytes(j) # {}
                        <=> ranges[P(j)][1] <= ranges[P(i)][2] /\ ranges[P(j)][2] >= ranges[P(i)][1]
    <2> SUFFICES ASSUME NEW i \in S, NEW j \in S
                 PROVE  bytes(i) \cap bytes(j) # {}
                        <=> ranges[P(j)][1] <= ranges[P(i)][2] /\ ranges[P(j)][2] >= ranges[P(i)][1]
      OBVIOUS
    <2> DEFINE x == ranges[P(j)]
               y == ranges[P(i)]
    <2>1. /\ x \in Nat \X Nat /\ y \in Nat \X Nat /\ x[1] <= x[2] /\ y[1] <= y[2]
          /\ x[1]..x[2] = bytes(j) /\ y[1]..y[2] = bytes(i)
      BY <1>5
    <2> HIDE DEF x, y
    <2>2. bytes(i) \cap bytes(j) # {} <=> x[1] <= y[2] /\ x[2] >= y[1]
      BY <2>1, IntervalsMeet
    <2> QED
      BY <2>2 DEF x, y
  <1>8. \A i, j \in S : j < i <=> P(j) < P(i)
    <2> SUFFICES ASSUME NEW i \in S, NEW j \in S PROVE j < i <=> P(j) < P(i)
      OBVIOUS
    <2>1. i \in Int /\ j \in Int /\ P(i) \in Int /\ P(j) \in Int
      BY <1>2, <1>3
    <2>2. (j < i => P(j) < P(i)) /\ (i < j => P(i) < P(j)) /\ (i = j => P(i) = P(j))
      BY <1>3
    <2> QED
      BY <2>1, <2>2
  <1>9. \A i \in S : i \in O <=> P(i) \in M
    <2> SUFFICES ASSUME NEW i \in S PROVE i \in O <=> P(i) \in M
      OBVIOUS
    <2>1. i \in O <=> \E j \in S : j < i /\ bytes(i) \cap bytes(j) # {}
      BY <1>6
    <2>2. P(i) \in M <=> \E q \in 1..(P(i) - 1) : /\ ranges[q][1] <= ranges[P(i)][2]
                                                 /\ ranges[q][2] >= ranges[P(i)][1]
      BY <1>3 DEF MeetsEarlier
    <2>3. \A q : q \in 1..(P(i) - 1) <=> q \in 1..Len(ranges) /\ q < P(i)
      <3> DEFINE p == P(i)
                 c == Len(ranges)
      <3>1. p \in 1..c /\ c \in Nat
        BY <1>3
      <3> HIDE DEF p, c
      <3>2. \A q : q \in 1..(p - 1) <=> q \in 1..c /\ q < p
        BY <3>1
      <3> QED
        BY <3>2 DEF p, c
    <2>4. ASSUME i \in O PROVE P(i) \in M
      <3>1. PICK j \in S : j < i /\ bytes(i) \cap bytes(j) # {}
        BY <2>1, <2>4
      <3>2. P(j) \in 1..(P(i) - 1)
        BY <1>3, <1>8, <2>3, <3>1
      <3> QED
        BY <1>7, <2>2, <3>1, <3>2
    <2>5. ASSUME P(i) \in M PROVE i \in O
      <3>1. PICK q \in 1..(P(i) - 1) : ranges[q][1] <= ranges[P(i)][2] /\ ranges[q][2] >= ranges[P(i)][1]
        BY <2>2, <2>5
      <3>2. PICK j \in S : P(j) = q
        BY <1>3, <2>3
      <3>3. j < i
        BY <1>8, <2>3, <3>2
      <3> QED
        BY <1>7, <2>1, <3>1, <3>2, <3>3
    <2> QED
      BY <2>4, <2>5
  <1>10. [i \in O |-> P(i)] \in Bijection(O, M)
    <2> DEFINE g == [i \in O |-> P(i)]
    <2>1. O \subseteq S
      BY <1>6
    <2>2. g \in [O -> M]
      BY <1>9, <2>1
    <2>3. \A i, j \in O : g[i] = g[j] => i = j
      <3> SUFFICES ASSUME NEW i \in O, NEW j \in O, P(i) = P(j) PROVE i = j
        OBVIOUS
      <3>1. i \in S /\ j \in S /\ i \in Int /\ j \in Int /\ P(i) \in Int /\ P(j) \in Int
        BY <1>2, <1>3, <2>1
      <3>2. ~(j < i) /\ ~(i < j)
        BY <1>8, <3>1
      <3> QED
        BY <3>1, <3>2
    <2>4. \A q \in M : \E i \in O : g[i] = q
      <3> SUFFICES ASSUME NEW q \in M PROVE \E i \in O : P(i) = q
        OBVIOUS
      <3>1. PICK i \in S : P(i) = q
        BY <1>3
      <3>2. i \in O
        BY <1>9, <3>1
      <3> QED
        BY <3>1, <3>2
    <2> HIDE DEF g, M
    <2>5. g \in Injection(O, M)
      BY <2>2, <2>3 DEF Injection, IsInjective
    <2>6. g \in Surjection(O, M)
      BY <2>2, <2>4 DEF Surjection
    <2> QED
      BY <2>5, <2>6 DEF Bijection, g
  <1>11. IsFiniteSet(O)
    <2>1. IsFiniteSet(1..N)
      BY <1>2, FS_Interval
    <2>2. O \in SUBSET (1..N)
      BY <1>2, <1>6
    <2> QED
      BY <2>1, <2>2, FS_Subset
  <1>12. Cardinality(M) = Cardinality(O)
    <2> HIDE DEF M
    <2>1. ExistsBijection(O, M)
      BY <1>10 DEF ExistsBijection
    <2> QED
      BY <1>11, <2>1, FS_Bijection
  <1> QED
    BY <1>4, <1>12 DEF ranges, O

(* For every size of a file and every request, of any length and with any starts and ends: *)
(* NormalizeRequestedRanges answers with exactly the bytes RFC 9110 gives the ranges, in   *)
(* the order asked, and refuses exactly what is reversed, stands for no byte, is too long  *)
(* or overlaps more than twice; the overlaps it counts with the tree of maxima are those   *)
(* of a pairwise comparison of the bytes.                                                  *)
THEOREM AnswersExact ==
    ASSUME NEW size \in Nat, NEW asked \in Seq(Int \X Int)
    PROVE  AnswerExact(asked, size)
  <1> DEFINE S == Satisfiable(asked, size)
             ranges == KeptRanges(asked, size)
             answer == NormalizeRequestedRanges(asked, size)
             reversed == \E i \in DOMAIN asked : Reversed(asked[i])
             large == Len(asked) > MaxRangeCount \/ size > MaxOffset
             full == [status |-> 206, ranges |-> ranges]
  <1>1. answer = IF asked = <<>> THEN [status |-> 200, ranges |-> <<>>]
                 ELSE IF size = 0 \/ large \/ reversed \/ ranges = <<>> \/ OverlapCount(ranges) > 2
                      THEN Refused ELSE full
    BY Zenon DEF NormalizeRequestedRanges
  <1>2. Unanswerable(asked, size) <=>
           reversed \/ S = {} \/ Cardinality(Overlapping(asked, size)) > 2 \/ large
    BY DEF Unanswerable
  <1>3. AnswerExact(asked, size) <=>
           IF asked = <<>> THEN answer = [status |-> 200, ranges |-> <<>>]
           ELSE IF Unanswerable(asked, size) THEN answer = Refused
           ELSE /\ answer.status = 206 /\ Len(answer.ranges) = Cardinality(S)
                /\ \A i \in S : answer.ranges[Place(asked, size, i)][1]..answer.ranges[Place(asked, size, i)][2]
                                   = BytesOf(asked[i], size)
    BY Zenon DEF AnswerExact
  <1>4. full.status = 206 /\ full.ranges = ranges
    OBVIOUS
  <1> HIDE DEF answer, large, full, ranges
  <1>5. CASE asked = <<>>
    BY <1>1, <1>3, <1>5
  <1>6. CASE asked # <<>> /\ size = 0
    <2>1. S = {}
      BY <1>6 DEF Satisfiable, BytesOf
    <2> QED
      BY <1>1, <1>2, <1>3, <1>6, <2>1
  <1>7. CASE asked # <<>> /\ reversed
    BY <1>1, <1>2, <1>3, <1>7
  <1>8. CASE asked # <<>> /\ size # 0 /\ ~reversed
    <2>1. size \in Nat \ {0} /\ \A i \in DOMAIN asked : ~Reversed(asked[i])
      BY <1>8
    <2>2. KeptAfter(asked, size, Len(asked), ranges)
      BY <2>1, KeptExact DEF ranges
    <2>3. OverlapCount(ranges) = Cardinality(Overlapping(asked, size))
      BY <2>1, OverlapsExact DEF ranges
    <2>4. UpTo(asked, size, Len(asked)) = S /\ S \in SUBSET (1..Len(asked))
      BY DEF UpTo, Satisfiable
    <2>5. ranges \in Seq(Nat \X Nat) /\ Len(ranges) = Cardinality(S)
      BY <2>2, <2>4 DEF KeptAfter
    <2>6. \A i \in S : ranges[Place(asked, size, i)] = Normalized(asked[i], size)
      BY <2>2, <2>4 DEF KeptAfter
    <2>7. ranges = <<>> <=> S = {}
      <3>1. IsFiniteSet(S)
        <4>1. IsFiniteSet(1..Len(asked))
          BY FS_Interval
        <4> HIDE DEF S
        <4> QED
          BY <2>4, <4>1, FS_Subset
      <3>2. Cardinality(S) = 0 <=> S = {}
        <4> HIDE DEF S
        <4> QED
          BY <3>1, FS_EmptySet
      <3>3. ranges = <<>> <=> Len(ranges) = 0
        BY <2>5
      <3> QED
        BY <2>5, <3>2, <3>3
    <2>8. ASSUME NEW i \in S
          PROVE  ranges[Place(asked, size, i)][1]..ranges[Place(asked, size, i)][2] = BytesOf(asked[i], size)
      <3>1. asked[i] \in Int \X Int /\ ~Reversed(asked[i]) /\ BytesOf(asked[i], size) # {}
        BY <2>1 DEF Satisfiable
      <3>2. Normalized(asked[i], size)[1]..Normalized(asked[i], size)[2] = BytesOf(asked[i], size)
        BY <2>1, <3>1, NormalizedExact
      <3> QED
        BY <2>6, <3>2
    <2> HIDE DEF S, reversed
    <2>9. Unanswerable(asked, size) <=> large \/ ranges = <<>> \/ OverlapCount(ranges) > 2
      BY <1>2, <1>8, <2>3, <2>7
    <2>10. CASE Unanswerable(asked, size)
      BY <1>1, <1>3, <1>8, <2>9, <2>10
    <2>11. CASE ~Unanswerable(asked, size)
      <3>1. answer = full
        BY <1>1, <1>8, <2>9, <2>11
      <3>2. answer.status = 206 /\ answer.ranges = ranges
        BY <1>4, <3>1
      <3> QED
        BY <1>3, <1>8, <2>5, <2>8, <2>11, <3>2, Zenon
    <2> QED
      BY <2>10, <2>11
  <1> QED
    BY <1>5, <1>6, <1>7, <1>8

LEMMA RequestsAreRanges == RangeRequests \subseteq Seq(Int \X Int)
  <1>1. MaxOffset \in Nat
    BY RangeAssumption
  <1>2. AnyRange \subseteq Int \X Int /\ Short \subseteq Int \X Int
    <2>1. Suffix \subseteq Int \X Int
      BY <1>1 DEF Suffix
    <2>2. Closed \subseteq Int \X Int
      BY <1>1 DEF Closed
    <2>3. Opened \subseteq Int \X Int
      BY <1>1 DEF Opened
    <2>4. Short \subseteq Closed
      BY DEF Short
    <2> QED
      BY <2>1, <2>2, <2>3, <2>4 DEF AnyRange
  <1> DEFINE R == Int \X Int
  <1>3. <<>> \in Seq(R)
    OBVIOUS
  <1> HIDE DEF R
  <1>4. AnyRange \subseteq R /\ Short \subseteq R
    BY <1>2 DEF R
  <1>5. ASSUME NEW asked \in RangeRequests PROVE asked \in Seq(R)
    <2>1. CASE asked = <<>>
      BY <1>3, <2>1
    <2>2. CASE asked \in {<<a>> : a \in AnyRange}
      <3>1. PICK a \in AnyRange : asked = <<a>>
        BY <2>2
      <3>2. a \in R
        BY <1>4
      <3> QED
        BY <3>1, <3>2
    <2>3. CASE asked \in AnyRange \X AnyRange
      <3>1. PICK a \in AnyRange, b \in AnyRange : asked = <<a, b>>
        BY <2>3
      <3>2. a \in R /\ b \in R
        BY <1>4
      <3> QED
        BY <3>1, <3>2
    <2>4. CASE asked \in AnyRange \X AnyRange \X Short
      <3>1. PICK a \in AnyRange, b \in AnyRange, c \in Short : asked = <<a, b, c>>
        BY <2>4
      <3>2. a \in R /\ b \in R /\ c \in R
        BY <1>4
      <3> QED
        BY <3>1, <3>2
    <2>5. CASE asked \in Short \X Short \X Short \X Short
      <3>1. PICK a \in Short, b \in Short, c \in Short, d \in Short : asked = <<a, b, c, d>>
        BY <2>5
      <3>2. a \in R /\ b \in R /\ c \in R /\ d \in R
        BY <1>4
      <3> QED
        BY <3>1, <3>2
    <2>6. CASE asked \in {<<r[1], r[1], r[1], r[2], r[2]>> : r \in Short \X Short}
      <3>1. PICK a \in Short, b \in Short : asked = <<a, a, a, b, b>>
        BY <2>6
      <3>2. a \in R /\ b \in R
        BY <1>4
      <3> QED
        BY <3>1, <3>2
    <2> QED
      BY <2>1, <2>2, <2>3, <2>4, <2>5, <2>6 DEF RangeRequests
  <1> QED
    BY <1>5 DEF R

(* A file that is open for a response, a cover or a download, is answered with exactly the *)
(* requested bytes, whatever the largest offset and the limit on the number of ranges.     *)
THEOREM RangesAlwaysExact == ReadersSpec => []RangesExact
  <1>1. RangesExact
    <2> SUFFICES ASSUME NEW size \in 0..(MaxOffset + 1), NEW asked \in RangeRequests
                 PROVE  AnswerExact(asked, size)
      BY DEF RangesExact, RangeAnswersExact
    <2>1. size \in Nat
      BY RangeAssumption
    <2>2. asked \in Seq(Int \X Int)
      BY RequestsAreRanges
    <2> QED
      BY <2>1, <2>2, AnswersExact
  <1> QED
    BY <1>1, PTL
=============================================================================
