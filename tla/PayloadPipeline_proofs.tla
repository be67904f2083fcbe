------------------------ MODULE PayloadPipeline_proofs ------------------------
(***************************************************************************)
(* Proofs about PayloadPipeline, for any records, archives, window and     *)
(* budget.                                                                 *)
(***************************************************************************)
EXTENDS PayloadPipeline, SequenceTheorems, FiniteSetTheorems, WellFoundedInduction, TLAPS

-----------------------------------------------------------------------------
(* Queues                                                                  *)

\* No task is in a queue twice.
Distinct(s) == \A i, j \in DOMAIN s : s[i] = s[j] => i = j

\* A task is taken from anywhere in the queue.
LEMMA TakenOut ==
    ASSUME NEW S, NEW s \in Seq(S), NEW i \in DOMAIN s, Distinct(s)
    PROVE  /\ RemoveAt(s, i) \in Seq(S)
           /\ Len(RemoveAt(s, i)) = Len(s) - 1
           /\ ToSet(RemoveAt(s, i)) = ToSet(s) \ {s[i]}
           /\ Distinct(RemoveAt(s, i))
  <1> DEFINE n == Len(s)
             a == SubSeq(s, 1, i - 1)
             b == SubSeq(s, i + 1, n)
             t == a \o b
  <1>1. n \in Nat /\ DOMAIN s = 1..n /\ i \in 1..n /\ \A j \in 1..n : s[j] \in S
    BY LenProperties, ElementOfSeq
  <1>2. a \in Seq(S) /\ Len(a) = i - 1 /\ \A j \in 1..(i - 1) : a[j] = s[j]
    BY <1>1, SubSeqProperties
  <1>3. b \in Seq(S) /\ Len(b) = n - i /\ \A j \in 1..(n - i) : b[j] = s[i + j]
    BY <1>1, SubSeqProperties
  <1> HIDE DEF a, b
  <1>4. /\ t \in Seq(S) /\ Len(t) = n - 1
        /\ \A j \in 1..(n - 1) : t[j] = IF j <= i - 1 THEN a[j] ELSE b[j - (i - 1)]
    <2>1. /\ t \in Seq(S) /\ Len(t) = Len(a) + Len(b)
          /\ \A j \in 1..(Len(a) + Len(b)) :
                t[j] = IF j <= Len(a) THEN a[j] ELSE b[j - Len(a)]
      BY <1>2, <1>3, ConcatProperties
    <2>2. Len(a) = i - 1 /\ Len(a) + Len(b) = n - 1
      BY <1>1, <1>2, <1>3
    <2> HIDE DEF t
    <2> QED
      BY <2>1, <2>2
  <1>5. DOMAIN t = 1..(n - 1)
    BY <1>4, LenProperties
  <1> HIDE DEF t
  <1>6. \A j \in 1..(n - 1) : t[j] = IF j < i THEN s[j] ELSE s[j + 1]
    <2> SUFFICES ASSUME NEW j \in 1..(n - 1) PROVE t[j] = IF j < i THEN s[j] ELSE s[j + 1]
      OBVIOUS
    <2>1. CASE j < i
      BY <1>1, <1>2, <1>4, <2>1
    <2>2. CASE j >= i
      <3>1. j - (i - 1) \in 1..(n - i) /\ i + (j - (i - 1)) = j + 1
        BY <1>1, <2>2
      <3>2. t[j] = b[j - (i - 1)]
        <4>1. ~(j <= i - 1)
          BY <1>1, <2>2
        <4>2. t[j] = IF j <= i - 1 THEN a[j] ELSE b[j - (i - 1)]
          BY <1>4
        <4> QED
          BY <4>1, <4>2
      <3>3. b[j - (i - 1)] = s[i + (j - (i - 1))]
        BY <1>3, <3>1
      <3> QED
        BY <1>1, <2>2, <3>1, <3>2, <3>3
    <2> QED
      BY <1>1, <2>1, <2>2
  <1>7. ToSet(t) = ToSet(s) \ {s[i]}
    <2>1. ASSUME NEW j \in 1..(n - 1) PROVE t[j] \in ToSet(s) \ {s[i]}
      BY <1>1, <1>6 DEF ToSet, Distinct
    <2>2. ASSUME NEW j \in 1..n, s[j] # s[i] PROVE s[j] \in ToSet(t)
      <3>1. CASE j < i
        BY <1>1, <1>5, <1>6, <3>1 DEF ToSet
      <3>2. CASE j > i
        <4>1. j - 1 \in 1..(n - 1) /\ t[j - 1] = s[j]
          BY <1>1, <1>6, <3>2
        <4> QED
          BY <1>5, <4>1 DEF ToSet
      <3> QED
        BY <1>1, <2>2, <3>1, <3>2
    <2> QED
      BY <1>1, <1>5, <2>1, <2>2 DEF ToSet
  <1>8. Distinct(t)
    <2> DEFINE f(j) == IF j < i THEN j ELSE j + 1
    <2> SUFFICES ASSUME NEW j \in 1..(n - 1), NEW k \in 1..(n - 1), t[j] = t[k]
                 PROVE  j = k
      BY <1>5 DEF Distinct
    <2>1. t[j] = s[f(j)] /\ t[k] = s[f(k)]
      BY <1>6
    <2>2. f(j) \in DOMAIN s /\ f(k) \in DOMAIN s
      BY <1>1
    <2>3. f(j) = f(k)
      BY <2>1, <2>2 DEF Distinct
    <2> QED
      BY <1>1, <2>3
  <1>9. RemoveAt(s, i) = t
    BY DEF RemoveAt, t, a, b
  <1> QED
    BY <1>4, <1>7, <1>8, <1>9

\* The front is waited for.
LEMMA FrontTaken ==
    ASSUME NEW S, NEW s \in Seq(S), s # <<>>, Distinct(s)
    PROVE  /\ Tail(s) \in Seq(S) /\ Head(s) \in ToSet(s)
           /\ ToSet(Tail(s)) = ToSet(s) \ {Head(s)}
           /\ Distinct(Tail(s))
  <1> DEFINE t == Tail(s)
  <1>1. Len(s) \in Nat \ {0} /\ DOMAIN s = 1..Len(s)
    BY LenProperties, EmptySeq
  <1>2. t \in Seq(S) /\ Len(t) = Len(s) - 1 /\ \A i \in 1..Len(t) : t[i] = s[i + 1]
    BY HeadTailProperties
  <1>3. DOMAIN t = 1..(Len(s) - 1)
    BY <1>2, LenProperties
  <1>4. Head(s) = s[1]
    OBVIOUS
  <1> HIDE DEF t
  <1>5. ToSet(t) = ToSet(s) \ {s[1]}
    <2>1. ASSUME NEW i \in 1..(Len(s) - 1) PROVE t[i] \in ToSet(s) \ {s[1]}
      BY <1>1, <1>2 DEF ToSet, Distinct
    <2>2. ASSUME NEW i \in 1..Len(s), s[i] # s[1] PROVE s[i] \in ToSet(t)
      <3>1. i - 1 \in 1..(Len(s) - 1) /\ t[i - 1] = s[i]
        BY <1>1, <1>2, <2>2
      <3> QED
        BY <1>3, <3>1 DEF ToSet
    <2> QED
      BY <1>1, <1>3, <2>1, <2>2 DEF ToSet
  <1>6. Distinct(t)
    <2> SUFFICES ASSUME NEW i \in 1..(Len(s) - 1), NEW j \in 1..(Len(s) - 1), t[i] = t[j]
                 PROVE  i = j
      BY <1>3 DEF Distinct
    <2>1. t[i] = s[i + 1] /\ t[j] = s[j + 1] /\ i + 1 \in DOMAIN s /\ j + 1 \in DOMAIN s
      BY <1>1, <1>2
    <2>2. i + 1 = j + 1
      BY <2>1 DEF Distinct
    <2> QED
      BY <2>2
  <1>7. s[1] \in ToSet(s)
    BY <1>1 DEF ToSet
  <1> QED
    BY <1>2, <1>4, <1>5, <1>6, <1>7 DEF t

\* A task is queued.
LEMMA Queued ==
    ASSUME NEW S, NEW s \in Seq(S), NEW x \in S, x \notin ToSet(s), Distinct(s)
    PROVE  /\ Append(s, x) \in Seq(S)
           /\ ToSet(Append(s, x)) = ToSet(s) \cup {x}
           /\ Distinct(Append(s, x))
  <1> DEFINE t == Append(s, x)
             n == Len(s)
  <1>1. n \in Nat /\ DOMAIN s = 1..n
    BY LenProperties
  <1>2. t \in Seq(S) /\ Len(t) = n + 1 /\ (\A i \in 1..n : t[i] = s[i]) /\ t[n + 1] = x
    BY AppendProperties
  <1>3. DOMAIN t = 1..(n + 1)
    BY <1>2, LenProperties
  <1> HIDE DEF t, n
  <1>4. ToSet(t) = ToSet(s) \cup {x}
    <2>1. ASSUME NEW i \in 1..(n + 1) PROVE t[i] \in ToSet(s) \cup {x}
      BY <1>1, <1>2 DEF ToSet
    <2>2. ASSUME NEW i \in 1..n PROVE s[i] \in ToSet(t)
      BY <1>1, <1>2, <1>3 DEF ToSet
    <2>3. x \in ToSet(t)
      BY <1>1, <1>2, <1>3 DEF ToSet
    <2> QED
      BY <1>1, <1>3, <2>1, <2>2, <2>3 DEF ToSet
  <1>5. Distinct(t)
    BY <1>1, <1>2, <1>3 DEF Distinct, ToSet
  <1> QED
    BY <1>2, <1>4, <1>5 DEF t

\* The numbers from 1 to n are n.
LEMMA IntervalSize ==
    ASSUME NEW n \in Nat
    PROVE  IsFiniteSet(1..n) /\ Cardinality(1..n) = n
  <1>1. 1 \in Int /\ n \in Int
    OBVIOUS
  <1>2. IsFiniteSet(1..n) /\ Cardinality(1..n) = IF 1 > n THEN 0 ELSE n - 1 + 1
    BY <1>1, FS_Interval, Zenon
  <1>3. (IF 1 > n THEN 0 ELSE n - 1 + 1) = n
    OBVIOUS
  <1> QED
    BY <1>2, <1>3

\* A queue has at most as many tasks as places.
LEMMA QueueSize ==
    ASSUME NEW S, NEW s \in Seq(S)
    PROVE  IsFiniteSet(ToSet(s)) /\ Cardinality(ToSet(s)) <= Len(s)
  <1>1. Len(s) \in Nat /\ DOMAIN s = 1..Len(s) /\ s \in [1..Len(s) -> S]
    BY LenProperties
  <1>2. s \in Surjection(1..Len(s), ToSet(s))
    BY <1>1 DEF Surjection, ToSet
  <1>3. IsFiniteSet(1..Len(s)) /\ Cardinality(1..Len(s)) = Len(s)
    BY <1>1, IntervalSize
  <1> QED
    BY <1>2, <1>3, FS_Surjection

-----------------------------------------------------------------------------
(* Bytes                                                                   *)

\* The records are numbers.
LEMMA RecordNumbers ==
    /\ RecordCount \in Nat /\ Records = 1..RecordCount /\ IsFiniteSet(Records)
    /\ \A r \in Records : SizeOf[r] \in Nat
  <1>1. RecordCount \in Nat /\ Records = 1..RecordCount /\ \A r \in Records : SizeOf[r] \in Nat
    BY PipelineAssumption, LenProperties, ElementOfSeq DEF RecordCount, Records
  <1>2. IsFiniteSet(1..RecordCount)
    BY <1>1, FS_Interval
  <1> QED
    BY <1>1, <1>2

\* The bytes of some of the payloads are a number.
LEMMA BytesType ==
    ASSUME NEW R \in SUBSET Records
    PROVE  /\ IsFiniteSet(R)
           /\ IsFiniteSet(UNION {{r} \X (1..SizeOf[r]) : r \in R})
           /\ Bytes(R) \in Nat
  <1> DEFINE one == [r \in R |-> {r} \X (1..SizeOf[r])]
             all == {{r} \X (1..SizeOf[r]) : r \in R}
  <1>1. IsFiniteSet(R)
    BY FS_Subset, RecordNumbers
  <1>2. one \in Surjection(R, all)
    BY DEF Surjection
  <1>3. IsFiniteSet(all)
    BY <1>1, <1>2, FS_Surjection
  <1>4. ASSUME NEW r \in R PROVE IsFiniteSet({r} \X (1..SizeOf[r]))
    <2>1. SizeOf[r] \in Nat
      BY RecordNumbers
    <2>2. IsFiniteSet({r})
      BY FS_Singleton
    <2>3. IsFiniteSet(1..SizeOf[r])
      BY <2>1, FS_Interval
    <2> QED
      BY <2>2, <2>3, FS_Product
  <1>5. IsFiniteSet(UNION all)
    BY <1>3, <1>4, FS_UNION
  <1> QED
    BY <1>1, <1>5, FS_CardinalityType DEF Bytes

\* One payload more.
LEMMA BytesAdd ==
    ASSUME NEW R \in SUBSET Records, NEW r \in Records, r \notin R
    PROVE  /\ Bytes(R \cup {r}) = Bytes(R) + SizeOf[r]
           /\ Cardinality(R \cup {r}) = Cardinality(R) + 1
  <1> DEFINE B(D) == UNION {{e} \X (1..SizeOf[e]) : e \in D}
             own == {r} \X (1..SizeOf[r])
  <1>1. SizeOf[r] \in Nat
    BY RecordNumbers
  <1>2. IsFiniteSet(own) /\ Cardinality(own) = SizeOf[r]
    <2>1. IsFiniteSet({r}) /\ Cardinality({r}) = 1
      BY FS_Singleton
    <2>2. IsFiniteSet(1..SizeOf[r]) /\ Cardinality(1..SizeOf[r]) = SizeOf[r]
      BY <1>1, IntervalSize
    <2>3. IsFiniteSet(own) /\ Cardinality(own) = Cardinality({r}) * Cardinality(1..SizeOf[r])
      BY <2>1, <2>2, FS_Product
    <2>4. Cardinality({r}) * Cardinality(1..SizeOf[r]) = SizeOf[r]
      BY <1>1, <2>1, <2>2
    <2> QED
      BY <2>3, <2>4
  <1>3. IsFiniteSet(B(R)) /\ Cardinality(B(R)) \in Nat /\ Cardinality(B(R)) = Bytes(R)
    BY BytesType DEF Bytes
  <1>4. B(R \cup {r}) = B(R) \cup own
    OBVIOUS
  <1>5. B(R) \cap own = {}
    OBVIOUS
  <1>6. Cardinality(B(R) \cup own) = Bytes(R) + SizeOf[r] - Cardinality({})
    BY <1>2, <1>3, <1>5, FS_Union
  <1>7. Bytes(R \cup {r}) = Cardinality(B(R) \cup own)
    BY <1>4 DEF Bytes
  <1> HIDE DEF B, own
  <1>8. Bytes(R \cup {r}) = Bytes(R) + SizeOf[r]
    BY <1>1, <1>3, <1>6, <1>7, FS_EmptySet
  <1>9. Cardinality(R \cup {r}) = Cardinality(R) + 1
    BY BytesType, FS_AddElement
  <1> QED
    BY <1>8, <1>9

\* One payload less.
LEMMA BytesRemove ==
    ASSUME NEW R \in SUBSET Records, NEW r \in R
    PROVE  /\ Bytes(R \ {r}) = Bytes(R) - SizeOf[r]
           /\ Cardinality(R \ {r}) = Cardinality(R) - 1
           /\ Bytes(R \ {r}) <= Bytes(R) /\ Cardinality(R) \in Nat
  <1>1. (R \ {r}) \cup {r} = R /\ R \ {r} \in SUBSET Records /\ r \in Records
    OBVIOUS
  <1>2. /\ Bytes(R) = Bytes(R \ {r}) + SizeOf[r]
        /\ Cardinality(R) = Cardinality(R \ {r}) + 1
    BY <1>1, BytesAdd
  <1>3. Bytes(R \ {r}) \in Nat /\ SizeOf[r] \in Nat
    BY <1>1, BytesType, RecordNumbers
  <1>4. Cardinality(R \ {r}) \in Nat
    BY <1>1, BytesType, FS_CardinalityType
  <1> QED
    BY <1>2, <1>3, <1>4

-----------------------------------------------------------------------------
(* The inductive invariant                                                 *)

Loops == {"window", "archive", "budget", "rest"}

\* Where the loop stands, or will stand after the drain it is in.
Place == IF pc = "taken" THEN back ELSE pc

PipeTypeOK ==
    /\ pc \in Loops \cup {"record", "taken", "unwind", "left"}
    /\ next \in Nat \ {0}
    /\ inFlight \in Seq(Records) /\ Distinct(inFlight)
    /\ tasks \in [Records -> {"none", "queued", "running", "ready", "failed"}]
    /\ written \in [Records -> {0, 1}]

\* A task is out of the queue only during a drain, and the queue is empty at the end.
PlaceInv ==
    /\ pc = "taken" => back \in Loops /\ taken \in Records \ ToSet(inFlight)
    /\ pc # "taken" => taken = 0
    /\ Place \in {"window", "archive", "budget"} => next \in Records
    /\ Place = "rest" => next > RecordCount
    /\ pc = "left" => inFlight = <<>>

\* Every record behind the loop is held or written, and none is both.
RecordInv ==
    \A r \in Records :
        /\ r \in Held => r < next /\ written[r] = 0
        /\ tasks[r] \in {"queued", "running"} => r \in Held
        /\ written[r] = 1 => r < next
        /\ pc \notin {"unwind", "left"} /\ r < next => r \in Held \/ written[r] = 1
        /\ outcome = "Completed" => written[r] = 1

\* Once the window was found to have room, it keeps it until the payload is submitted.
BudgetInv ==
    /\ reserved = Bytes(Held) /\ reserved <= MaxInFlightBytes
    /\ Cardinality(Held) <= MaxInFlight
    /\ Place \in {"archive", "budget"} => Cardinality(Held) < MaxInFlight

PipeInv == PipeTypeOK /\ PlaceInv /\ RecordInv /\ BudgetInv

-----------------------------------------------------------------------------
(* Steps                                                                   *)

\* What is held is some of the records.
LEMMA HeldRecords ==
    ASSUME PipeTypeOK, PlaceInv
    PROVE  /\ ToSet(inFlight) \in SUBSET Records
           /\ Held \in SUBSET Records
           /\ Cardinality(Held) \in Nat
           /\ pc = "taken" => Held = ToSet(inFlight) \cup {taken}
           /\ pc # "taken" => Held = ToSet(inFlight)
           /\ 0 \notin Records
  <1>1. ToSet(inFlight) \in SUBSET Records
    <2>1. DOMAIN inFlight = 1..Len(inFlight)
      BY LenProperties DEF PipeTypeOK
    <2> QED
      BY <2>1, ElementOfSeq DEF PipeTypeOK, ToSet
  <1>2. 0 \notin Records
    BY RecordNumbers
  <1>3. /\ pc = "taken" => Held = ToSet(inFlight) \cup {taken}
        /\ pc # "taken" => Held = ToSet(inFlight)
    BY <1>2 DEF PlaceInv, Held
  <1>4. Held \in SUBSET Records
    BY <1>1, <1>3 DEF PlaceInv
  <1>5. Cardinality(Held) \in Nat
    BY <1>4, BytesType, FS_CardinalityType
  <1> QED
    BY <1>1, <1>2, <1>3, <1>4, <1>5

\* Nothing is held, read or written at first.
LEMMA PipeInit == Init => PipeInv
  <1> SUFFICES ASSUME Init PROVE PipeInv
    OBVIOUS
  <1>1. PipeTypeOK
    BY DEF Init, PipeTypeOK, Loops, Distinct
  <1>2. PlaceInv
    BY DEF Init, PlaceInv, Place, Loops
  <1>3. Held = {}
    BY DEF Init, Held, ToSet
  <1>4. RecordInv
    BY <1>3, RecordNumbers DEF Init, RecordInv
  <1>5. BudgetInv
    <2>1. UNION {{r} \X (1..SizeOf[r]) : r \in {}} = {}
      OBVIOUS
    <2>2. Bytes({}) = 0
      BY <2>1, FS_EmptySet DEF Bytes
    <2>3. Cardinality({}) = 0
      BY FS_EmptySet
    <2> QED
      BY <1>3, <2>2, <2>3, PipelineAssumption DEF Init, BudgetInv, Place
  <1> QED
    BY <1>1, <1>2, <1>4, <1>5 DEF PipeInv

\* The scan thread moves on and leaves payloads and tasks alone.
LEMMA MoveStep ==
    ASSUME PipeInv, UNCHANGED <<next, inFlight, reserved, taken, tasks, written>>,
           pc # "taken",
           \/ pc' = "window" /\ next <= RecordCount
           \/ pc = "window" /\ pc' = "archive" /\ Len(inFlight) < MaxInFlight
           \/ pc = "archive" /\ pc' = "budget"
           \/ pc' = "rest" /\ next > RecordCount
           \/ pc' = "unwind"
           \/ pc' = "left" /\ inFlight = <<>>
           \/ pc' = pc,
           outcome' = "Completed" => \/ outcome = "Completed"
                                     \/ pc = "rest" /\ inFlight = <<>>,
           pc \in {"unwind", "left"} => pc' \in {"unwind", "left"}
    PROVE  PipeInv'
  <1>1. Held' = Held /\ Held = ToSet(inFlight)
    BY HeldRecords DEF Held, PipeInv
  <1>2. PipeTypeOK'
    BY DEF PipeInv, PipeTypeOK, Loops
  <1>3. PlaceInv'
    <2>1. next <= RecordCount => next \in Records
      BY RecordNumbers DEF PipeInv, PipeTypeOK, PlaceInv
    <2> QED
      BY <2>1 DEF PipeInv, PlaceInv, Place, Loops
  <1>4. RecordInv'
    <2>1. inFlight = <<>> => Held = {}
      BY <1>1 DEF ToSet
    <2>2. pc = "rest" => \A r \in Records : r < next
      BY RecordNumbers DEF PipeInv, PlaceInv, Place, PipeTypeOK
    <2>3. pc = "rest" /\ inFlight = <<>> => \A r \in Records : written[r] = 1
      BY <2>1, <2>2 DEF PipeInv, RecordInv
    <2> QED
      BY <1>1, <2>3 DEF PipeInv, RecordInv
  <1>5. BudgetInv'
    <2>1. Len(inFlight) < MaxInFlight => Cardinality(Held) < MaxInFlight
      <3>1. Cardinality(Held) \in Nat
        BY HeldRecords DEF PipeInv
      <3>2. Cardinality(Held) <= Len(inFlight) /\ Len(inFlight) \in Nat
        BY <1>1, QueueSize, LenProperties DEF PipeInv, PipeTypeOK
      <3> QED
        BY <3>1, <3>2, PipelineAssumption
    <2>2. Place' \in {"archive", "budget"} => \/ Place \in {"archive", "budget"}
                                              \/ Len(inFlight) < MaxInFlight
      BY DEF Place, PipeInv, PipeTypeOK, Loops
    <2> QED
      BY <1>1, <2>1, <2>2 DEF PipeInv, BudgetInv
  <1> QED
    BY <1>2, <1>3, <1>4, <1>5 DEF PipeInv

\* The pool works on a task.
LEMMA TaskStepInv ==
    ASSUME PipeInv, NEW r \in Records, TaskStep(r)
    PROVE  PipeInv'
  <1>1. /\ UNCHANGED <<pc, back, next, inFlight, reserved, taken, written, outcome>>
        /\ tasks[r] \in {"queued", "running"}
        /\ \E t \in {"running", "ready", "failed"} : tasks' = [tasks EXCEPT ![r] = t]
    BY DEF TaskStep, StartTask, EndTask
  <1>2. Held' = Held /\ Place' = Place
    BY <1>1 DEF Held, Place
  <1>3. PipeTypeOK' /\ PlaceInv' /\ BudgetInv'
    BY <1>1, <1>2 DEF PipeInv, PipeTypeOK, PlaceInv, BudgetInv, Loops
  <1>4. RecordInv'
    BY <1>1, <1>2 DEF PipeInv, RecordInv, PipeTypeOK
  <1> QED
    BY <1>3, <1>4 DEF PipeInv

\* takeParsedRecord.
LEMMA TakeStep ==
    ASSUME PipeInv, TakeParsedRecord
    PROVE  PipeInv'
  <1>1. PICK i \in DOMAIN inFlight :
           /\ MustDrain /\ taken' = inFlight[i] /\ inFlight' = RemoveAt(inFlight, i)
           /\ back' = pc /\ pc' = "taken"
           /\ UNCHANGED <<next, reserved, tasks, written, outcome>>
    BY DEF TakeParsedRecord, Without
  <1>2. pc \in Loops
    BY <1>1 DEF MustDrain, Loops
  <1>3. /\ inFlight' \in Seq(Records) /\ Distinct(inFlight')
        /\ ToSet(inFlight') = ToSet(inFlight) \ {taken'}
    BY <1>1, TakenOut DEF PipeInv, PipeTypeOK
  <1>4. taken' \in ToSet(inFlight) /\ ToSet(inFlight) \in SUBSET Records
    BY <1>1, HeldRecords DEF PipeInv, ToSet
  <1>5. Held' = Held
    <2>1. Held = ToSet(inFlight) /\ 0 \notin Records
      BY <1>2, HeldRecords DEF PipeInv, Loops
    <2>2. Held' = ToSet(inFlight') \cup ({taken'} \ {0})
      BY DEF Held
    <2> QED
      BY <1>3, <1>4, <2>1, <2>2
  <1>6. Place' = Place
    BY <1>1, <1>2 DEF Place, Loops
  <1>7. PipeTypeOK'
    BY <1>1, <1>3 DEF PipeInv, PipeTypeOK
  <1>8. PlaceInv'
    BY <1>1, <1>2, <1>3, <1>4, <1>6 DEF PipeInv, PlaceInv
  <1>9. RecordInv' /\ BudgetInv'
    BY <1>1, <1>2, <1>5, <1>6 DEF PipeInv, RecordInv, BudgetInv, Loops
  <1> QED
    BY <1>7, <1>8, <1>9 DEF PipeInv

\* A payload is given back: those held, and their bytes, are fewer.
LEMMA GivenBack ==
    ASSUME PipeInv, NEW r \in Held, reserved' = reserved - SizeOf[r], Held' = Held \ {r}
    PROVE  /\ reserved' = Bytes(Held') /\ reserved' <= MaxInFlightBytes
           /\ Cardinality(Held') <= MaxInFlight
           /\ Cardinality(Held) < MaxInFlight => Cardinality(Held') < MaxInFlight
  <1>1. Held \in SUBSET Records /\ Bytes(Held) \in Nat
    BY HeldRecords, BytesType DEF PipeInv
  <1>2. /\ Bytes(Held \ {r}) = Bytes(Held) - SizeOf[r]
        /\ Cardinality(Held \ {r}) = Cardinality(Held) - 1
        /\ Bytes(Held \ {r}) <= Bytes(Held) /\ Cardinality(Held) \in Nat
    BY <1>1, BytesRemove
  <1>3. /\ reserved = Bytes(Held) /\ reserved <= MaxInFlightBytes
        /\ Cardinality(Held) <= MaxInFlight
    BY DEF PipeInv, BudgetInv
  <1>4. MaxInFlight \in Nat /\ MaxInFlightBytes \in Nat
    BY PipelineAssumption
  <1>5. /\ Bytes(Held \ {r}) <= MaxInFlightBytes
        /\ Cardinality(Held \ {r}) <= MaxInFlight
        /\ Cardinality(Held) < MaxInFlight => Cardinality(Held \ {r}) < MaxInFlight
    <2>1. Bytes(Held \ {r}) \in Nat
      BY <1>1, BytesType
    <2> QED
      BY <1>1, <1>2, <1>3, <1>4, <2>1
  <1> QED
    BY <1>2, <1>3, <1>5

\* drainParsedRecord: the task is done, and its book is written, or the scan unwinds.
LEMMA DrainStep ==
    ASSUME PipeInv, DrainParsedRecord
    PROVE  PipeInv'
  <1>1. /\ pc = "taken" /\ tasks[taken] \in {"ready", "failed"}
        /\ taken' = 0 /\ reserved' = reserved - SizeOf[taken]
        /\ UNCHANGED <<back, next, inFlight, tasks>>
        /\ \/ pc' = back /\ written' = [written EXCEPT ![taken] = @ + 1] /\ outcome' = outcome
           \/ pc' = "unwind" /\ written' = written /\ outcome' \in {"Cancelled", "Failed"}
    BY DEF DrainParsedRecord, Throw, Done
  <1>2. /\ back \in Loops /\ taken \in Records \ ToSet(inFlight)
        /\ Held = ToSet(inFlight) \cup {taken} /\ Held \in SUBSET Records
    BY <1>1, HeldRecords DEF PipeInv, PlaceInv
  <1>3. Held' = Held \ {taken}
    <2>1. Held' = ToSet(inFlight)
      BY <1>1 DEF Held
    <2> QED
      BY <1>2, <2>1
  <1>4. written[taken] = 0 /\ taken < next
    BY <1>2 DEF PipeInv, RecordInv
  <1>5. PipeTypeOK'
    BY <1>1, <1>2, <1>4 DEF PipeInv, PipeTypeOK
  <1>6. Place' \in {Place, "unwind"} /\ pc' \in Loops \cup {"unwind"}
    BY <1>1, <1>2 DEF Place, Loops
  <1>7. PlaceInv'
    BY <1>1, <1>6 DEF PipeInv, PlaceInv, Loops
  <1>8. RecordInv'
    <2> SUFFICES ASSUME NEW r \in Records
                 PROVE  /\ r \in Held' => r < next /\ written'[r] = 0
                        /\ tasks[r] \in {"queued", "running"} => r \in Held'
                        /\ written'[r] = 1 => r < next
                        /\ pc' \notin {"unwind", "left"} /\ r < next => r \in Held' \/ written'[r] = 1
                        /\ outcome' = "Completed" => written'[r] = 1
      BY <1>1 DEF RecordInv
    <2>1. CASE r = taken
      BY <1>1, <1>2, <1>3, <1>4, <2>1 DEF PipeInv, RecordInv, PipeTypeOK
    <2>2. CASE r # taken
      <3>1. written'[r] = written[r] /\ (r \in Held' <=> r \in Held)
        BY <1>1, <1>3, <2>2 DEF PipeInv, PipeTypeOK
      <3>2. pc \notin {"unwind", "left"}
        BY <1>1
      <3> QED
        BY <1>1, <3>1, <3>2 DEF PipeInv, RecordInv
    <2> QED
      BY <2>1, <2>2
  <1>9. BudgetInv'
    <2>1. taken \in Held
      BY <1>2
    <2>2. /\ reserved' = Bytes(Held') /\ reserved' <= MaxInFlightBytes
          /\ Cardinality(Held') <= MaxInFlight
          /\ Cardinality(Held) < MaxInFlight => Cardinality(Held') < MaxInFlight
      BY <1>1, <1>3, <2>1, GivenBack
    <2> QED
      BY <1>6, <2>2 DEF PipeInv, BudgetInv, Bytes
  <1> QED
    BY <1>5, <1>7, <1>8, <1>9 DEF PipeInv

\* drainRemainingPayloadWork.
LEMMA RemainingStep ==
    ASSUME PipeInv, DrainRemaining
    PROVE  PipeInv'
  <1> DEFINE front == Head(inFlight)
  <1>1. /\ pc = "unwind" /\ inFlight # <<>> /\ tasks[front] \in {"ready", "failed"}
        /\ inFlight' = Tail(inFlight) /\ reserved' = reserved - SizeOf[front]
        /\ UNCHANGED <<pc, back, next, taken, tasks, written, outcome>>
    BY DEF DrainRemaining, Done
  <1>2. /\ Tail(inFlight) \in Seq(Records) /\ front \in ToSet(inFlight)
        /\ ToSet(Tail(inFlight)) = ToSet(inFlight) \ {front}
        /\ Distinct(Tail(inFlight))
    BY <1>1, FrontTaken DEF PipeInv, PipeTypeOK
  <1> HIDE DEF front
  <1>3. Held = ToSet(inFlight) /\ taken = 0
    BY <1>1, HeldRecords DEF PipeInv, PlaceInv
  <1>4. Held' = Held \ {front} /\ front \in Held
    BY <1>1, <1>2, <1>3 DEF Held
  <1>5. PipeTypeOK'
    BY <1>1, <1>2 DEF PipeInv, PipeTypeOK
  <1>6. PlaceInv'
    BY <1>1 DEF PipeInv, PlaceInv, Place
  <1>7. RecordInv'
    BY <1>1, <1>4 DEF PipeInv, RecordInv
  <1>8. BudgetInv'
    <2>1. /\ reserved' = Bytes(Held') /\ reserved' <= MaxInFlightBytes
          /\ Cardinality(Held') <= MaxInFlight
      BY <1>1, <1>4, GivenBack
    <2> QED
      BY <1>1, <2>1 DEF BudgetInv, Place, Bytes
  <1> QED
    BY <1>5, <1>6, <1>7, <1>8 DEF PipeInv

\* A payload that fits in the window and in the budget is read and queued.
LEMMA SubmitStep ==
    ASSUME PipeInv, pc = "budget", ~MustDrain, SizeOf[next] <= MaxInFlightBytes,
           tasks' = [tasks EXCEPT ![next] = "queued"],
           inFlight' = Append(inFlight, next),
           reserved' = reserved + SizeOf[next],
           next' = next + 1, pc' = "record",
           UNCHANGED <<back, taken, written, outcome>>
    PROVE  PipeInv'
  <1>1. next \in Records /\ next \in Nat /\ SizeOf[next] \in Nat
    BY RecordNumbers DEF PipeInv, PipeTypeOK, PlaceInv, Place
  <1>2. Held = ToSet(inFlight) /\ taken = 0 /\ Held \in SUBSET Records /\ Cardinality(Held) \in Nat
    BY HeldRecords DEF PipeInv, PlaceInv
  <1>3. next \notin Held
    BY <1>1 DEF PipeInv, RecordInv
  <1>4. /\ inFlight' \in Seq(Records) /\ Distinct(inFlight')
        /\ ToSet(inFlight') = ToSet(inFlight) \cup {next}
    BY <1>1, <1>2, <1>3, Queued DEF PipeInv, PipeTypeOK
  <1>5. Held' = Held \cup {next}
    BY <1>2, <1>4 DEF Held
  <1>6. PipeTypeOK'
    BY <1>1, <1>4 DEF PipeInv, PipeTypeOK
  <1>7. PlaceInv'
    BY DEF PipeInv, PlaceInv, Place
  <1>8. RecordInv'
    <2> SUFFICES ASSUME NEW r \in Records
                 PROVE  /\ r \in Held' => r < next' /\ written[r] = 0
                        /\ tasks'[r] \in {"queued", "running"} => r \in Held'
                        /\ written[r] = 1 => r < next'
                        /\ r < next' => r \in Held' \/ written[r] = 1
                        /\ outcome = "Completed" => written[r] = 1
      BY DEF RecordInv
    <2>1. r \in Nat /\ next' = next + 1
      BY RecordNumbers
    <2>2. CASE r = next
      <3>1. written[r] \in {0, 1}
        BY DEF PipeInv, PipeTypeOK
      <3> QED
        BY <1>1, <1>5, <2>1, <2>2, <3>1 DEF PipeInv, RecordInv
    <2>3. CASE r # next
      <3>1. tasks'[r] = tasks[r] /\ (r \in Held' <=> r \in Held) /\ (r < next' <=> r < next)
        BY <1>1, <1>5, <2>1, <2>3 DEF PipeInv, PipeTypeOK
      <3> QED
        BY <1>1, <2>1, <3>1 DEF PipeInv, RecordInv
    <2> QED
      BY <2>2, <2>3
  <1>9. BudgetInv'
    <2>1. /\ Bytes(Held \cup {next}) = Bytes(Held) + SizeOf[next]
          /\ Cardinality(Held \cup {next}) = Cardinality(Held) + 1
          /\ Bytes(Held) \in Nat
      BY <1>1, <1>2, <1>3, BytesAdd, BytesType
    <2>2. reserved = Bytes(Held) /\ Cardinality(Held) < MaxInFlight
      BY DEF PipeInv, BudgetInv, Place
    <2>3. reserved + SizeOf[next] <= MaxInFlightBytes
      <3>1. inFlight = <<>> \/ reserved <= MaxInFlightBytes - SizeOf[next]
        BY <1>1, <2>1, <2>2, PipelineAssumption DEF MustDrain, OverBudget
      <3>2. CASE inFlight = <<>>
        <4>1. Held = {}
          BY <1>2, <3>2 DEF ToSet
        <4>2. UNION {{r} \X (1..SizeOf[r]) : r \in {}} = {}
          OBVIOUS
        <4>3. Bytes({}) = 0
          BY <4>2, FS_EmptySet DEF Bytes
        <4> QED
          BY <1>1, <2>2, <4>1, <4>3
      <3>3. CASE reserved <= MaxInFlightBytes - SizeOf[next]
        BY <1>1, <2>1, <2>2, <3>3, PipelineAssumption
      <3> QED
        BY <3>1, <3>2, <3>3
    <2>4. Cardinality(Held) + 1 <= MaxInFlight
      BY <1>2, <2>2, PipelineAssumption
    <2> QED
      BY <1>5, <2>1, <2>2, <2>3, <2>4 DEF BudgetInv, Place, Bytes
  <1> QED
    BY <1>6, <1>7, <1>8, <1>9 DEF PipeInv

\* Every step preserves the invariant.
LEMMA PipeStep ==
    ASSUME PipeInv, [Next]_vars
    PROVE  PipeInv'
  <1> USE DEF Throw
  <1>1. CASE BeginRecord
    BY <1>1, MoveStep DEF BeginRecord
  <1>2. CASE WindowHasRoom
    <2>1. Len(inFlight) \in Nat
      BY LenProperties DEF PipeInv, PipeTypeOK
    <2>2. Len(inFlight) < MaxInFlight
      BY <1>2, <2>1, PipelineAssumption DEF WindowHasRoom, MustDrain
    <2> QED
      BY <1>2, <2>2, MoveStep DEF WindowHasRoom
  <1>3. CASE OpenArchive
    BY <1>3, MoveStep DEF OpenArchive, ThrowReading
  <1>4. CASE SubmitPayload
    <2>1. ASSUME ThrowReading PROVE PipeInv'
      BY <1>4, <2>1, MoveStep DEF SubmitPayload, ThrowReading
    <2> QED
      BY <1>4, <2>1, SubmitStep DEF SubmitPayload
  <1>5. CASE EndRecords
    BY <1>5, MoveStep DEF EndRecords
  <1>6. CASE EndRest
    <2>1. inFlight = <<>>
      BY <1>6 DEF EndRest, MustDrain
    <2> QED
      BY <1>6, <2>1, MoveStep DEF EndRest
  <1>7. CASE TakeParsedRecord
    BY <1>7, TakeStep
  <1>8. CASE DrainParsedRecord
    BY <1>8, DrainStep
  <1>9. CASE DrainRemaining
    BY <1>9, RemainingStep
  <1>10. CASE Leave
    BY <1>10, MoveStep DEF Leave
  <1>11. ASSUME NEW r \in Records, TaskStep(r) PROVE PipeInv'
    BY <1>11, TaskStepInv
  <1>12. CASE RequestStop \/ UNCHANGED vars
    <2>1. UNCHANGED <<pc, back, next, inFlight, reserved, taken, tasks, written, outcome>>
      BY <1>12 DEF RequestStop, vars
    <2>2. Held' = Held /\ Place' = Place
      BY <2>1 DEF Held, Place
    <2> QED
      BY <2>1, <2>2 DEF PipeInv, PipeTypeOK, PlaceInv, RecordInv, BudgetInv
  <1> QED
    BY <1>1, <1>2, <1>3, <1>4, <1>5, <1>6, <1>7, <1>8, <1>9, <1>10, <1>11, <1>12
    DEF Next, ScanStep

-----------------------------------------------------------------------------
(* Theorems                                                                *)

\* The invariant of the record loop and its pool holds in every state.
THEOREM Invariance == Spec => []PipeInv
  <1>1. Init => PipeInv
    BY PipeInit
  <1>2. PipeInv /\ [Next]_vars => PipeInv'
    BY PipeStep
  <1> QED
    BY <1>1, <1>2, PTL DEF Spec

\* The reservation of RunScan is the bytes of the payloads in flight, on every path, and
\* window and budget bound them, a payload as large as the budget included.
THEOREM PayloadMemoryAlwaysBounded == Spec => []PayloadMemoryBounded
  <1>1. PipeInv => PayloadMemoryBounded
    BY DEF PipeInv, BudgetInv, PayloadMemoryBounded
  <1> QED
    BY <1>1, Invariance, PTL

\* drainRemainingPayloadWork and the drain at the end: RunScan returns or throws only when
\* no task that points into its frame is queued or runs.
THEOREM TasksNeverOutliveScan == Spec => []NoTaskOutlivesScan
  <1>1. PipeInv => NoTaskOutlivesScan
    <2> SUFFICES ASSUME PipeInv, pc = "left", NEW r \in Records
                 PROVE  tasks[r] \notin {"queued", "running"}
      BY DEF NoTaskOutlivesScan
    <2>1. Held = {}
      BY HeldRecords DEF PipeInv, PlaceInv, ToSet
    <2> QED
      BY <2>1 DEF PipeInv, RecordInv
  <1> QED
    BY <1>1, Invariance, PTL

\* takeParsedRecord and drainParsedRecord: in whatever order the tasks become ready, a scan
\* that completes has written every record, and none is written twice.
THEOREM RecordsAlwaysWrittenOnce == Spec => []EveryRecordWrittenOnce
  <1>1. PipeInv => EveryRecordWrittenOnce
    <2> SUFFICES ASSUME PipeInv, NEW r \in Records
                 PROVE  written[r] <= 1 /\ (outcome = "Completed" => written[r] = 1)
      BY DEF EveryRecordWrittenOnce
    <2>1. written[r] \in {0, 1}
      BY DEF PipeInv, PipeTypeOK
    <2> QED
      BY <2>1 DEF PipeInv, RecordInv
  <1> QED
    BY <1>1, Invariance, PTL

-----------------------------------------------------------------------------
(* Progress                                                                *)

Waiting == {r \in Records : tasks[r] = "queued"}
Running == {r \in Records : tasks[r] = "running"}
Unfinished == {r \in Records : tasks[r] \in {"queued", "running"}}

\* The steps from a place of the loop to its end, without the records still to come.
Rank(p) ==
    CASE p = "record"  -> 5
      [] p = "window"  -> 4
      [] p = "archive" -> 3
      [] p = "budget"  -> 2
      [] p = "rest"    -> 2
      [] p = "unwind"  -> 1
      [] OTHER         -> 0

\* A bound on the steps that the scan thread, the pool and the stop request have left together.
RecordsLeft == 10 * (RecordCount + 1 - next)
DrainsLeft == 3 * Cardinality(ToSet(inFlight))
TasksLeft == Cardinality(Waiting) + Cardinality(Unfinished)
PlacesLeft == IF pc = "taken" THEN Rank(back) + 1 ELSE Rank(pc)
StopsLeft == IF stop THEN 0 ELSE 1

StepsLeft == RecordsLeft + DrainsLeft + TasksLeft + PlacesLeft + StopsLeft

\* The loop does not go past its records.
NextInv == next <= RecordCount + 1

LEMMA RankType == \A p : Rank(p) \in Nat
  BY DEF Rank

\* The parts of StepsLeft are numbers.
LEMMA PartsLeft ==
    ASSUME PipeInv
    PROVE  /\ RecordsLeft \in Int /\ (NextInv => RecordsLeft \in Nat)
           /\ DrainsLeft \in Nat /\ TasksLeft \in Nat /\ PlacesLeft \in Nat /\ StopsLeft \in Nat
           /\ IsFiniteSet(ToSet(inFlight)) /\ Cardinality(ToSet(inFlight)) \in Nat
           /\ IsFiniteSet(Waiting) /\ Cardinality(Waiting) \in Nat
           /\ IsFiniteSet(Unfinished) /\ Cardinality(Unfinished) \in Nat
  <1>1. ToSet(inFlight) \subseteq Records /\ Waiting \subseteq Records /\ Unfinished \subseteq Records
    BY HeldRecords DEF PipeInv, Waiting, Unfinished
  <1>2. IsFiniteSet(Records) /\ RecordCount \in Nat
    BY RecordNumbers
  <1>3. IsFiniteSet(ToSet(inFlight)) /\ IsFiniteSet(Waiting) /\ IsFiniteSet(Unfinished)
    BY <1>1, <1>2, FS_Subset
  <1>4. /\ Cardinality(ToSet(inFlight)) \in Nat /\ Cardinality(Waiting) \in Nat
        /\ Cardinality(Unfinished) \in Nat
    BY <1>3, FS_CardinalityType
  <1>5. RecordsLeft \in Int /\ (NextInv => RecordsLeft \in Nat)
    BY <1>2 DEF RecordsLeft, NextInv, PipeInv, PipeTypeOK
  <1>6. DrainsLeft \in Nat /\ TasksLeft \in Nat
    BY <1>4 DEF DrainsLeft, TasksLeft
  <1>7. PlacesLeft \in Nat /\ StopsLeft \in Nat
    BY RankType DEF PlacesLeft, StopsLeft
  <1> QED
    BY <1>3, <1>4, <1>5, <1>6, <1>7

\* Steps of the scan thread that leave queue and tasks alone.
LEMMA MoveCounts ==
    ASSUME PipeInv, UNCHANGED <<next, inFlight, tasks, stop>>, PlacesLeft' < PlacesLeft
    PROVE  StepsLeft' < StepsLeft
  <1>1. UNCHANGED <<RecordsLeft, DrainsLeft, TasksLeft, StopsLeft>>
    BY DEF RecordsLeft, DrainsLeft, TasksLeft, StopsLeft, Waiting, Unfinished
  <1>2. PlacesLeft' \in Nat
    BY RankType DEF PlacesLeft
  <1> QED
    BY <1>1, <1>2, PartsLeft DEF StepsLeft

LEMMA PlaceCounts ==
    ASSUME PipeInv,
           \/ pc # "taken" /\ pc' # "taken" /\ Rank(pc') < Rank(pc)
           \/ pc = "taken" /\ pc' \in {back, "unwind"}
    PROVE  PlacesLeft' < PlacesLeft
  <1>1. CASE pc = "taken" /\ pc' \in {back, "unwind"}
    <2>1. back \in Loops
      BY <1>1 DEF PipeInv, PlaceInv
    <2>2. PlacesLeft = Rank(back) + 1 /\ PlacesLeft' = Rank(pc')
      BY <1>1, <2>1 DEF PlacesLeft, Loops
    <2>3. Rank(pc') <= Rank(back)
      BY <1>1, <2>1 DEF Rank, Loops
    <2> QED
      BY <2>2, <2>3, RankType
  <1>2. CASE pc # "taken" /\ pc' # "taken" /\ Rank(pc') < Rank(pc)
    BY <1>2 DEF PlacesLeft
  <1> QED
    BY <1>1, <1>2

\* Steps of the pool: a task leaves those that wait, or those that are not finished.
LEMMA TaskCounts ==
    ASSUME PipeInv, NEW r \in Records, TaskStep(r)
    PROVE  StepsLeft' < StepsLeft
  <1>1. UNCHANGED <<RecordsLeft, DrainsLeft, PlacesLeft, StopsLeft>>
    BY DEF TaskStep, StartTask, EndTask, RecordsLeft, DrainsLeft, PlacesLeft, StopsLeft
  <1>2. TasksLeft' = TasksLeft - 1
    <2>1. CASE StartTask(r)
      <3>1. tasks[r] = "queued" /\ tasks' = [tasks EXCEPT ![r] = "running"]
        BY <2>1 DEF StartTask
      <3>2. r \in Waiting /\ Waiting' = Waiting \ {r} /\ Unfinished' = Unfinished
        BY <3>1 DEF PipeInv, PipeTypeOK, Waiting, Unfinished
      <3>3. Cardinality(Waiting') = Cardinality(Waiting) - 1
        BY <3>2, PartsLeft, FS_RemoveElement
      <3> QED
        BY <3>2, <3>3, PartsLeft DEF TasksLeft
    <2>2. CASE EndTask(r)
      <3>1. tasks[r] = "running"
            /\ \E t \in {"ready", "failed"} : tasks' = [tasks EXCEPT ![r] = t]
        BY <2>2 DEF EndTask
      <3>2. r \in Unfinished /\ Waiting' = Waiting /\ Unfinished' = Unfinished \ {r}
        BY <3>1 DEF PipeInv, PipeTypeOK, Waiting, Unfinished
      <3>3. Cardinality(Unfinished') = Cardinality(Unfinished) - 1
        BY <3>2, PartsLeft, FS_RemoveElement
      <3> QED
        BY <3>2, <3>3, PartsLeft DEF TasksLeft
    <2> QED
      BY <2>1, <2>2 DEF TaskStep
  <1> QED
    BY <1>1, <1>2, PartsLeft DEF StepsLeft

\* takeParsedRecord shortens the queue by more than the drain takes.
LEMMA TakeCounts ==
    ASSUME PipeInv, TakeParsedRecord
    PROVE  StepsLeft' < StepsLeft
  <1>1. PICK i \in DOMAIN inFlight :
           /\ MustDrain /\ inFlight' = RemoveAt(inFlight, i)
           /\ back' = pc /\ pc' = "taken" /\ UNCHANGED <<next, tasks, stop>>
    BY DEF TakeParsedRecord, Without
  <1>2. ToSet(inFlight') = ToSet(inFlight) \ {inFlight[i]} /\ inFlight[i] \in ToSet(inFlight)
    <2>1. ToSet(inFlight') = ToSet(inFlight) \ {inFlight[i]}
      BY <1>1, TakenOut DEF PipeInv, PipeTypeOK
    <2>2. inFlight[i] \in ToSet(inFlight)
      BY DEF ToSet
    <2> QED
      BY <2>1, <2>2
  <1>3. DrainsLeft' = DrainsLeft - 3
    <2>1. IsFiniteSet(ToSet(inFlight))
      BY PartsLeft
    <2>2. Cardinality(ToSet(inFlight')) = Cardinality(ToSet(inFlight)) - 1
      BY <1>2, <2>1, FS_RemoveElement
    <2> QED
      BY <2>2, PartsLeft DEF DrainsLeft
  <1>4. PlacesLeft' = PlacesLeft + 1
    <2>1. pc # "taken"
      BY <1>1 DEF MustDrain
    <2> QED
      BY <1>1, <2>1 DEF PlacesLeft
  <1>5. UNCHANGED <<RecordsLeft, TasksLeft, StopsLeft>>
    BY <1>1 DEF RecordsLeft, TasksLeft, StopsLeft, Waiting, Unfinished
  <1> QED
    BY <1>3, <1>4, <1>5, PartsLeft DEF StepsLeft

\* drainRemainingPayloadWork.
LEMMA RemainingCounts ==
    ASSUME PipeInv, DrainRemaining
    PROVE  StepsLeft' < StepsLeft
  <1>1. inFlight # <<>> /\ inFlight' = Tail(inFlight) /\ UNCHANGED <<pc, back, next, tasks, stop>>
    BY DEF DrainRemaining
  <1>2. /\ Head(inFlight) \in ToSet(inFlight)
        /\ ToSet(Tail(inFlight)) = ToSet(inFlight) \ {Head(inFlight)}
    BY <1>1, FrontTaken DEF PipeInv, PipeTypeOK
  <1>3. Cardinality(ToSet(Tail(inFlight))) = Cardinality(ToSet(inFlight)) - 1
    BY <1>2, PartsLeft, FS_RemoveElement
  <1>4. DrainsLeft' = DrainsLeft - 3
    BY <1>1, <1>3, PartsLeft DEF DrainsLeft
  <1>5. UNCHANGED <<RecordsLeft, TasksLeft, PlacesLeft, StopsLeft>>
    BY <1>1 DEF RecordsLeft, TasksLeft, PlacesLeft, StopsLeft, Waiting, Unfinished
  <1> QED
    BY <1>4, <1>5, PartsLeft DEF StepsLeft

\* A submitted payload costs less than the turn of the loop that is over.
LEMMA SubmitCounts ==
    ASSUME PipeInv, pc = "budget",
           tasks' = [tasks EXCEPT ![next] = "queued"],
           inFlight' = Append(inFlight, next),
           next' = next + 1, pc' = "record", stop' = stop
    PROVE  StepsLeft' < StepsLeft
  <1>1. next \in Records /\ next \in Nat /\ RecordCount \in Nat
    BY RecordNumbers DEF PipeInv, PipeTypeOK, PlaceInv, Place
  <1>2. next \notin Held /\ Held = ToSet(inFlight)
    BY <1>1, HeldRecords DEF PipeInv, RecordInv
  <1>3. tasks[next] \notin {"queued", "running"}
    BY <1>1, <1>2 DEF PipeInv, RecordInv
  <1>4. ToSet(inFlight') = ToSet(inFlight) \cup {next}
    BY <1>1, <1>2, Queued DEF PipeInv, PipeTypeOK
  <1>5. DrainsLeft' = DrainsLeft + 3
    <2>1. Cardinality(ToSet(inFlight')) = Cardinality(ToSet(inFlight)) + 1
      BY <1>2, <1>4, PartsLeft, FS_AddElement
    <2> QED
      BY <2>1, PartsLeft DEF DrainsLeft
  <1>6. TasksLeft' = TasksLeft + 2
    <2>1. Waiting' = Waiting \cup {next} /\ Unfinished' = Unfinished \cup {next}
      BY <1>1 DEF PipeInv, PipeTypeOK, Waiting, Unfinished
    <2>2. next \notin Waiting /\ next \notin Unfinished
      BY <1>3 DEF Waiting, Unfinished
    <2>3. /\ Cardinality(Waiting') = Cardinality(Waiting) + 1
          /\ Cardinality(Unfinished') = Cardinality(Unfinished) + 1
      BY <2>1, <2>2, PartsLeft, FS_AddElement
    <2> QED
      BY <2>3, PartsLeft DEF TasksLeft
  <1>7. RecordsLeft' = RecordsLeft - 10
    <2>1. RecordsLeft' = 10 * (RecordCount + 1 - (next + 1))
      BY DEF RecordsLeft
    <2> QED
      BY <1>1, <2>1 DEF RecordsLeft
  <1>8. PlacesLeft' = 5 /\ PlacesLeft = 2 /\ StopsLeft' = StopsLeft
    BY DEF PlacesLeft, StopsLeft, Rank
  <1>9. \A a, b, c, d \in Int : (a - 10) + (b + 3) + (c + 2) + 5 + d < a + b + c + 2 + d
    OBVIOUS
  <1>10. RecordsLeft \in Int /\ DrainsLeft \in Int /\ TasksLeft \in Int /\ StopsLeft \in Int
    BY PartsLeft
  <1>11. /\ StepsLeft = RecordsLeft + DrainsLeft + TasksLeft + 2 + StopsLeft
         /\ StepsLeft' = (RecordsLeft - 10) + (DrainsLeft + 3) + (TasksLeft + 2) + 5 + StopsLeft
    BY <1>5, <1>6, <1>7, <1>8 DEF StepsLeft
  <1> QED
    BY <1>9, <1>10, <1>11
\* Every step of the scan thread, of the pool and of the canceller leaves fewer.
LEMMA StepCounts ==
    ASSUME PipeInv, Next
    PROVE  StepsLeft' < StepsLeft
  <1>1. CASE BeginRecord \/ WindowHasRoom \/ OpenArchive \/ EndRecords \/ EndRest \/ Leave
    <2>1. UNCHANGED <<next, inFlight, tasks, stop>>
      BY <1>1 DEF BeginRecord, WindowHasRoom, OpenArchive, EndRecords, EndRest, Leave,
                  ThrowReading, Throw
    <2>2. /\ pc # "taken" /\ pc' # "taken"
          /\ \/ pc = "record" /\ pc' \in {"window", "rest", "unwind"}
             \/ pc = "window" /\ pc' = "archive"
             \/ pc = "archive" /\ pc' \in {"budget", "unwind"}
             \/ pc \in {"rest", "unwind"} /\ pc' = "left"
      BY <1>1 DEF BeginRecord, WindowHasRoom, OpenArchive, EndRecords, EndRest, Leave,
                  ThrowReading, Throw
    <2>3. Rank(pc') < Rank(pc)
      BY <2>2 DEF Rank
    <2> QED
      BY <2>1, <2>2, <2>3, PlaceCounts, MoveCounts
  <1>2. CASE SubmitPayload
    <2>1. CASE ThrowReading
      <3>1. pc = "budget" /\ pc' = "unwind" /\ UNCHANGED <<next, inFlight, tasks, stop>>
        BY <1>2, <2>1 DEF SubmitPayload, ThrowReading, Throw
      <3>2. Rank(pc') < Rank(pc)
        BY <3>1 DEF Rank
      <3> QED
        BY <3>1, <3>2, PlaceCounts, MoveCounts
    <2>2. CASE ~ThrowReading
      BY <1>2, <2>2, SubmitCounts DEF SubmitPayload
    <2> QED
      BY <2>1, <2>2
  <1>3. CASE TakeParsedRecord
    BY <1>3, TakeCounts
  <1>4. CASE DrainParsedRecord
    <2>1. pc = "taken" /\ pc' \in {back, "unwind"} /\ UNCHANGED <<next, inFlight, tasks, stop>>
      BY <1>4 DEF DrainParsedRecord, Throw
    <2> QED
      BY <2>1, PlaceCounts, MoveCounts
  <1>5. CASE DrainRemaining
    BY <1>5, RemainingCounts
  <1>6. ASSUME NEW r \in Records, TaskStep(r) PROVE StepsLeft' < StepsLeft
    BY <1>6, TaskCounts
  <1>7. CASE RequestStop
    <2>1. UNCHANGED <<RecordsLeft, DrainsLeft, TasksLeft, PlacesLeft>>
      BY <1>7 DEF RequestStop, RecordsLeft, DrainsLeft, TasksLeft, PlacesLeft, Waiting, Unfinished
    <2>2. StopsLeft = 1 /\ StopsLeft' = 0
      BY <1>7 DEF RequestStop, StopsLeft
    <2> QED
      BY <2>1, <2>2, PartsLeft DEF StepsLeft
  <1> QED
    BY <1>1, <1>2, <1>3, <1>4, <1>5, <1>6, <1>7 DEF Next, ScanStep

\* The loop, whose turns end in SubmitPayload, stays within its records.
LEMMA NextInvariance == Spec => []NextInv
  <1>1. Init => NextInv
    BY RecordNumbers DEF Init, NextInv
  <1>2. PipeInv /\ NextInv /\ [Next]_vars => NextInv'
    <2> SUFFICES ASSUME PipeInv, NextInv, [Next]_vars PROVE NextInv'
      OBVIOUS
    <2>1. next' = next \/ (pc = "budget" /\ next' = next + 1)
      BY DEF Next, ScanStep, TaskStep, StartTask, EndTask, RequestStop, BeginRecord, WindowHasRoom,
             OpenArchive, SubmitPayload, EndRecords, EndRest, TakeParsedRecord, DrainParsedRecord,
             DrainRemaining, Leave, ThrowReading, Throw, vars
    <2>2. CASE pc = "budget" /\ next' = next + 1
      <3>1. next \in 1..RecordCount /\ RecordCount \in Nat
        BY <2>2, RecordNumbers DEF PipeInv, PlaceInv, Place
      <3> QED
        BY <2>2, <3>1 DEF NextInv
    <2> QED
      BY <2>1, <2>2 DEF NextInv
  <1> QED
    BY <1>1, <1>2, Invariance, PTL DEF Spec

\* The safety half of ScanLeaves: scan thread, pool and canceller together take only as many
\* steps as StepsLeft says at the start, so that no drain, retry of a loop or unwinding goes
\* round for ever.
THEOREM EveryStepCounts == Spec => [](StepsLeft \in Nat) /\ [][StepsLeft' < StepsLeft]_vars
  <1>1. PipeInv /\ NextInv => StepsLeft \in Nat
    BY PartsLeft DEF StepsLeft
  <1>2. PipeInv /\ [Next]_vars => [StepsLeft' < StepsLeft]_vars
    BY StepCounts
  <1> QED
    BY <1>1, <1>2, Invariance, NextInvariance, PTL DEF Spec

-----------------------------------------------------------------------------
(* Waiting                                                                 *)

\* The tasks the scan thread is blocked on: the one drainParsedRecord has taken, or the front
\* in drainRemainingPayloadWork.
Awaited ==
    IF pc = "taken" THEN {taken}
    ELSE IF pc = "unwind" /\ inFlight # <<>> THEN {Head(inFlight)}
    ELSE {}

\* A thread of the pool works, or is free and has an oldest task to take.
PoolWorks ==
    \/ Running # {}
    \/ /\ Cardinality(Running) < MaxInFlight
       /\ \E r \in Waiting : \A t \in Waiting : t >= r

NoEmptyWait == \A r \in Awaited : Done(r) \/ PoolWorks

\* What is held was given to the pool.
HeldInv == \A r \in Held : tasks[r] # "none"

LEMMA HeldInvariance == Spec => []HeldInv
  <1>1. Init => HeldInv
    BY DEF Init, HeldInv, Held, ToSet
  <1>2. PipeInv /\ HeldInv /\ [Next]_vars => HeldInv'
    <2> SUFFICES ASSUME PipeInv, HeldInv, [Next]_vars, NEW r \in Held' PROVE tasks'[r] # "none"
      BY DEF HeldInv
    <2>1. ASSUME UNCHANGED tasks, Held' \subseteq Held PROVE tasks'[r] # "none"
      BY <2>1 DEF HeldInv
    <2>2. Held \in SUBSET Records /\ 0 \notin Records
      BY HeldRecords DEF PipeInv
    <2>3. CASE BeginRecord \/ WindowHasRoom \/ OpenArchive \/ EndRecords \/ EndRest \/ Leave
      BY <2>1, <2>3 DEF Held, BeginRecord, WindowHasRoom, OpenArchive, EndRecords, EndRest, Leave,
                        ThrowReading, Throw
    <2>4. CASE SubmitPayload
      <3>1. CASE ThrowReading
        BY <2>1, <3>1 DEF Held, ThrowReading, Throw
      <3>2. CASE ~ThrowReading
        <4>1. /\ pc = "budget" /\ tasks' = [tasks EXCEPT ![next] = "queued"]
              /\ inFlight' = Append(inFlight, next) /\ taken' = taken
          BY <2>4, <3>2 DEF SubmitPayload
        <4>2. next \in Records /\ Held = ToSet(inFlight) /\ taken = 0
          BY <4>1, HeldRecords DEF PipeInv, PlaceInv, Place
        <4>3. next \notin Held
          BY <4>2, RecordNumbers DEF PipeInv, RecordInv
        <4>4. ToSet(inFlight') = ToSet(inFlight) \cup {next}
          BY <4>1, <4>2, <4>3, Queued DEF PipeInv, PipeTypeOK
        <4>5. r = next \/ r \in Held
          BY <4>1, <4>2, <4>4 DEF Held
        <4> QED
          BY <2>2, <4>1, <4>2, <4>3, <4>5 DEF HeldInv, PipeInv, PipeTypeOK
      <3> QED
        BY <3>1, <3>2
    <2>5. CASE TakeParsedRecord
      <3>1. PICK i \in DOMAIN inFlight :
               taken' = inFlight[i] /\ inFlight' = RemoveAt(inFlight, i) /\ tasks' = tasks
        BY <2>5 DEF TakeParsedRecord, Without
      <3>2. ToSet(inFlight') = ToSet(inFlight) \ {inFlight[i]}
        BY <3>1, TakenOut DEF PipeInv, PipeTypeOK
      <3>3. taken' \in ToSet(inFlight)
        BY <3>1 DEF ToSet
      <3> QED
        BY <2>1, <3>1, <3>2, <3>3 DEF Held
    <2>6. CASE DrainParsedRecord
      BY <2>1, <2>6 DEF DrainParsedRecord, Throw, Held
    <2>7. CASE DrainRemaining
      <3>1. inFlight # <<>> /\ inFlight' = Tail(inFlight) /\ UNCHANGED <<taken, tasks>>
        BY <2>7 DEF DrainRemaining
      <3>2. ToSet(inFlight') \subseteq ToSet(inFlight)
        BY <3>1, FrontTaken DEF PipeInv, PipeTypeOK
      <3> QED
        BY <2>1, <3>1, <3>2 DEF Held
    <2>8. ASSUME NEW t \in Records, TaskStep(t) PROVE tasks'[r] # "none"
      <3>1. Held' = Held /\ \E x \in {"running", "ready", "failed"} : tasks' = [tasks EXCEPT ![t] = x]
        BY <2>8 DEF TaskStep, StartTask, EndTask, Held
      <3>2. r \in Records
        BY <2>2, <3>1
      <3>3. PICK x \in {"running", "ready", "failed"} : tasks' = [tasks EXCEPT ![t] = x]
        BY <3>1
      <3>4. tasks'[r] = IF r = t THEN x ELSE tasks[r]
        BY <3>2, <3>3 DEF PipeInv, PipeTypeOK
      <3>5. tasks[r] # "none"
        BY <3>1 DEF HeldInv
      <3> QED
        BY <3>4, <3>5
    <2>9. CASE RequestStop \/ UNCHANGED vars
      BY <2>1, <2>9 DEF RequestStop, vars, Held
    <2> QED
      BY <2>3, <2>4, <2>5, <2>6, <2>7, <2>8, <2>9 DEF Next, ScanStep
  <1> QED
    BY <1>1, <1>2, Invariance, PTL DEF Spec

\* Some of the records, if any, have a first one.
LEMMA FirstRecord ==
    ASSUME NEW T \in SUBSET Records, T # {}
    PROVE  \E r \in T : \A t \in T : t >= r
  <1> DEFINE below(n) == 1..(n - 1)
             sets == {below(n) : n \in T}
  <1>1. T \subseteq Nat
    BY RecordNumbers
  <1>2. sets \subseteq FiniteSubsetsOf(Nat) /\ sets # {}
    <2>1. ASSUME NEW n \in T PROVE below(n) \in FiniteSubsetsOf(Nat)
      <3>1. IsFiniteSet(below(n))
        BY <1>1, FS_Interval
      <3>2. below(n) \in SUBSET Nat
        BY <1>1
      <3> QED
        BY <3>1, <3>2 DEF FiniteSubsetsOf
    <2> QED
      BY <2>1
  <1>3. PICK s \in sets : \A t \in sets : ~(<<t, s>> \in StrictSubsetOrdering(Nat))
    <2> HIDE DEF sets
    <2> QED
      BY <1>2, WFMin, FS_StrictSubsetOrderingWellFounded
  <1>4. PICK r \in T : s = below(r)
    OBVIOUS
  <1>5. ASSUME NEW t \in T, t < r PROVE FALSE
    <2>1. t \in Nat \ {0} /\ r \in Nat
      BY RecordNumbers
    <2>2. below(t) \subseteq below(r) /\ t \in below(r) /\ t \notin below(t)
      BY <1>5, <2>1
    <2>3. below(t) \in SUBSET Nat /\ below(r) \in SUBSET Nat /\ below(t) # below(r)
      BY <2>1, <2>2
    <2>4. <<below(t), below(r)>> \in StrictSubsetOrdering(Nat)
      <3> HIDE DEF below
      <3> QED
        BY <2>2, <2>3 DEF StrictSubsetOrdering
    <2> QED
      BY <1>3, <1>4, <2>4
  <1> QED
    BY <1>1, <1>5

\* drainParsedRecord and drainRemainingPayloadWork block on a future: its task is then done,
\* or a thread of the pool works, or one is free and has a task to take.  With EveryStepCounts
\* this leaves to fairness only that threads that can go on do.
THEOREM NeverWaitsInVain == Spec => []NoEmptyWait
  <1>1. PipeInv /\ HeldInv => NoEmptyWait
    <2> SUFFICES ASSUME PipeInv, HeldInv, NEW r \in Awaited, ~Done(r) PROVE PoolWorks
      BY DEF NoEmptyWait
    <2>1. r \in Held
      <3>1. CASE pc = "taken"
        BY <3>1, HeldRecords DEF Awaited, PipeInv
      <3>2. CASE pc # "taken"
        <4>1. inFlight # <<>> /\ r = Head(inFlight)
          BY <3>2 DEF Awaited
        <4>2. r \in ToSet(inFlight)
          BY <4>1, FrontTaken DEF PipeInv, PipeTypeOK
        <4> QED
          BY <4>2 DEF Held
      <3> QED
        BY <3>1, <3>2
    <2>2. r \in Records
      BY <2>1, HeldRecords DEF PipeInv
    <2>3. r \in Waiting \cup Running
      BY <2>1, <2>2 DEF HeldInv, PipeInv, PipeTypeOK, Done, Waiting, Running
    <2>4. CASE Running = {}
      <3>1. Waiting \in SUBSET Records /\ Waiting # {}
        BY <2>3, <2>4 DEF Waiting
      <3>2. \E x \in Waiting : \A t \in Waiting : t >= x
        BY <3>1, FirstRecord
      <3>3. Cardinality(Running) < MaxInFlight
        <4>1. Cardinality({}) = 0
          BY FS_EmptySet
        <4> QED
          BY <2>4, <4>1, PipelineAssumption
      <3> QED
        BY <3>2, <3>3 DEF PoolWorks
    <2>5. CASE Running # {}
      BY <2>5 DEF PoolWorks
    <2> QED
      BY <2>4, <2>5
  <1> QED
    BY <1>1, Invariance, HeldInvariance, PTL
=============================================================================
