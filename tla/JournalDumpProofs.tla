--------------------------- MODULE JournalDumpProofs ---------------------------
(***************************************************************************)
(* What holds of the journal over BLE for every ring size, MTU, queue      *)
(* depth and number of records, connections, clears, presses and faults.   *)
(***************************************************************************)
EXTENDS JournalDump, FiniteSetTheorems, TLAPS

-----------------------------------------------------------------------------
(* The rank of a record: how many older ones there are.                    *)

Below(R, k) == Cardinality({j \in R : j < k})

\* The records of seq follow each other in R, from rank g on.
RunFrom(R, seq, g) ==
  \A i \in 1..Len(seq) : seq[i] \in R /\ Below(R, seq[i]) = g + i - 1

(***************************************************************************)
(* A rank is a number below the number of records, and grows strictly      *)
(* from an older record to a newer one.                                    *)
(***************************************************************************)
LEMMA BelowBounds ==
  ASSUME NEW R \in SUBSET Nat, IsFiniteSet(R), NEW k \in Nat
  PROVE  /\ Below(R, k) \in Nat
         /\ k \in R => Below(R, k) < Cardinality(R)
<1>1. IsFiniteSet({j \in R : j < k})
  BY FS_Subset
<1>2. Below(R, k) \in Nat
  BY <1>1, FS_CardinalityType DEF Below
<1>3. ASSUME k \in R
      PROVE  Below(R, k) < Cardinality(R)
  <2>1. /\ IsFiniteSet(R \ {k})
        /\ Cardinality(R \ {k}) = Cardinality(R) - 1
    BY <1>3, FS_RemoveElement
  <2>2. {j \in R : j < k} \in SUBSET (R \ {k})
    OBVIOUS
  <2>3. Below(R, k) <= Cardinality(R \ {k})
    BY <2>1, <2>2, FS_Subset DEF Below
  <2>4. Cardinality(R) \in Nat
    BY FS_CardinalityType
  <2> QED BY <1>2, <2>1, <2>3, <2>4
<1> QED BY <1>2, <1>3

(***************************************************************************)
(* A later record has a higher rank.                                       *)
(***************************************************************************)
LEMMA BelowGrows ==
  ASSUME NEW R \in SUBSET Nat, IsFiniteSet(R),
         NEW a \in R, NEW b \in R, a < b
  PROVE  Below(R, a) < Below(R, b)
<1> DEFINE A == {j \in R : j < a}
<1> DEFINE B == {j \in R : j < b}
<1>1. IsFiniteSet(A) /\ IsFiniteSet(B)
  BY FS_Subset
<1>2. IsFiniteSet(A \cup {a}) /\ Cardinality(A \cup {a}) = Cardinality(A) + 1
  <2>1. a \notin A
    OBVIOUS
  <2> QED BY <1>1, <2>1, FS_AddElement
<1>3. A \cup {a} \in SUBSET B
  <2>1. \A j \in A : j \in R /\ j < b
    OBVIOUS
  <2> QED BY <2>1
<1>4. Cardinality(A \cup {a}) <= Cardinality(B)
  BY <1>1, <1>3, FS_Subset
<1>5. Cardinality(A) \in Nat /\ Cardinality(B) \in Nat
  BY <1>1, FS_CardinalityType
<1> QED BY <1>2, <1>4, <1>5 DEF Below

(***************************************************************************)
(* Two records with the same rank are the same; there is none between      *)
(* records whose ranks follow each other.                                  *)
(***************************************************************************)
LEMMA BelowInjective ==
  ASSUME NEW R \in SUBSET Nat, IsFiniteSet(R),
         NEW a \in R, NEW b \in R, Below(R, a) = Below(R, b)
  PROVE  a = b
<1>1. Below(R, a) \in Nat
  BY BelowBounds
<1>2. ~(a < b)
  BY <1>1, BelowGrows
<1>3. ~(b < a)
  BY <1>1, BelowGrows
<1> QED BY <1>2, <1>3

(***************************************************************************)
(* A record whose rank is one more is the next record: none lies between.  *)
(***************************************************************************)
LEMMA BelowNext ==
  ASSUME NEW R \in SUBSET Nat, IsFiniteSet(R),
         NEW a \in R, NEW b \in R, Below(R, b) = Below(R, a) + 1
  PROVE  a < b /\ \A r \in R : ~(a < r /\ r < b)
<1>1. Below(R, a) \in Nat /\ Below(R, b) \in Nat
  BY BelowBounds
<1>2. ~(b < a) /\ a # b
  BY <1>1, BelowGrows
<1>3. ASSUME NEW r \in R, a < r, r < b
      PROVE  FALSE
  <2>1. Below(R, r) \in Nat
    BY BelowBounds
  <2>2. Below(R, a) < Below(R, r) /\ Below(R, r) < Below(R, b)
    BY <1>3, BelowGrows
  <2> QED BY <1>1, <2>1, <2>2
<1> QED BY <1>2, <1>3

(***************************************************************************)
(* Every rank there can be is the rank of a record.                        *)
(***************************************************************************)
LEMMA BelowOnto ==
  ASSUME NEW R \in SUBSET Nat, IsFiniteSet(R),
         NEW i \in 0..(Cardinality(R) - 1)
  PROVE  \E k \in R : Below(R, k) = i
<1> DEFINE n == Cardinality(R)
<1> DEFINE T == 0..(n - 1)
<1> DEFINE f == [k \in R |-> Below(R, k)]
<1>1. n \in Nat
  BY FS_CardinalityType
<1>2. IsFiniteSet(T) /\ Cardinality(T) = n
  BY <1>1, FS_Interval
<1>3. \A k \in R : Below(R, k) \in T
  BY <1>1, BelowBounds
<1>4. f \in Injection(R, T)
  <2>1. f \in [R -> T]
    BY <1>3
  <2>2. \A a, b \in R : f[a] = f[b] => a = b
    BY BelowInjective
  <2> QED BY <2>1, <2>2 DEF Injection, IsInjective
<1>5. f \in Surjection(R, T)
  <2> HIDE DEF f, T
  <2>1. Cardinality(R) = Cardinality(T)
    BY <1>2
  <2> QED BY <1>2, <1>4, <2>1, FS_Injection
<1>6. \E k \in R : f[k] = i
  BY <1>5 DEF Surjection
<1> QED BY <1>6

(***************************************************************************)
(* A record newer than all others changes no rank, and a run stays a run.  *)
(***************************************************************************)
LEMMA BelowKept ==
  ASSUME NEW R \in SUBSET Nat, NEW n \in Nat, \A k \in R : k < n, NEW a \in R
  PROVE  Below(R \cup {n}, a) = Below(R, a)
<1>1. {j \in R \cup {n} : j < a} = {j \in R : j < a}
  OBVIOUS
<1> QED BY <1>1 DEF Below

(***************************************************************************)
(* A run of consecutive records stays one when no rank changes.            *)
(***************************************************************************)
LEMMA RunKept ==
  ASSUME NEW R, NEW Q, R \subseteq Q, \A k \in R : Below(Q, k) = Below(R, k),
         NEW seq, NEW g, RunFrom(R, seq, g)
  PROVE  RunFrom(Q, seq, g)
BY DEF RunFrom

-----------------------------------------------------------------------------
(* The journal: BoundedJournal, its slots and the queue of events.         *)

JournalInv ==
  /\ taken \in Nat /\ accepted \in Nat /\ taken <= accepted
  /\ pc = "append" => taken > 0
  /\ pc = "live" => taken \in Recorded
  /\ kept \subseteq slots
  /\ slots \subseteq 1..taken
  /\ forgotten \subseteq 1..taken
  /\ \A f \in forgotten, k \in kept : f < k
  /\ Cardinality(slots) <= NumSectors * SlotsPerSector

Rank(k) == Below(Recorded, k)

(***************************************************************************)
(* The journal is made of finite sets; its oldest record follows the last  *)
(* one it has forgotten, so that an index is a rank less what is           *)
(* forgotten (gatt_badge.c, lines 388-389).                                *)
(***************************************************************************)
LEMMA JournalSets ==
  ASSUME JournalInv
  PROVE  /\ Recorded \in SUBSET Nat /\ IsFiniteSet(Recorded)
         /\ kept \in SUBSET Nat /\ IsFiniteSet(kept)
         /\ forgotten \in SUBSET Nat /\ IsFiniteSet(forgotten)
         /\ slots \in SUBSET Nat /\ IsFiniteSet(slots)
         /\ Cardinality(kept) \in Nat /\ Cardinality(forgotten) \in Nat
         /\ Cardinality(slots) \in Nat
         /\ Cardinality(Recorded) = Cardinality(forgotten) + Cardinality(kept)
<1>1. IsFiniteSet(1..taken)
  BY FS_Interval DEF JournalInv
<1>2. /\ kept \in SUBSET (1..taken) /\ forgotten \in SUBSET (1..taken)
      /\ slots \in SUBSET (1..taken)
  BY DEF JournalInv
<1>3. IsFiniteSet(kept) /\ IsFiniteSet(forgotten) /\ IsFiniteSet(slots)
  BY <1>1, <1>2, FS_Subset
<1>4. /\ Cardinality(kept) \in Nat /\ Cardinality(forgotten) \in Nat
      /\ Cardinality(slots) \in Nat
  BY <1>3, FS_CardinalityType
<1>5. 1..taken \subseteq Nat
  BY DEF JournalInv
<1>6. forgotten \cap kept = {}
  <2>1. \A f \in forgotten, k \in kept : f < k /\ f \in Nat
    BY <1>2, <1>5 DEF JournalInv
  <2> QED BY <2>1
<1>7. /\ IsFiniteSet(forgotten \cup kept)
      /\ Cardinality(forgotten \cup kept) =
           Cardinality(forgotten) + Cardinality(kept) - Cardinality(forgotten \cap kept)
  BY <1>3, FS_Union
<1>8. Cardinality(forgotten \cap kept) = 0
  BY <1>6, FS_EmptySet
<1>9. Recorded = forgotten \cup kept
  BY DEF Recorded
<1> QED BY <1>2, <1>3, <1>4, <1>5, <1>7, <1>8, <1>9

(***************************************************************************)
(* A record's rank is its index in the journal plus the number of records  *)
(* already erased.                                                         *)
(***************************************************************************)
LEMMA RankOfIndex ==
  ASSUME JournalInv, NEW k \in kept
  PROVE  Rank(k) = Cardinality(forgotten) + Index(kept, k) /\ Index(kept, k) \in Nat
<1> DEFINE O == {j \in kept : j < k}
<1>1. IsFiniteSet(forgotten) /\ IsFiniteSet(O) /\ kept \subseteq Nat
  BY JournalSets, FS_Subset
<1>2. {j \in Recorded : j < k} = forgotten \cup O
  BY DEF JournalInv, Recorded
<1>3. forgotten \cap O = {}
  <2>1. \A f \in forgotten : \A j \in kept : f < j /\ j \in Nat
    BY <1>1 DEF JournalInv
  <2> QED BY <2>1
<1>4. Cardinality(forgotten \cup O) =
        Cardinality(forgotten) + Cardinality(O) - Cardinality(forgotten \cap O)
  BY <1>1, FS_Union
<1>5. Cardinality(forgotten \cap O) = 0
  BY <1>3, FS_EmptySet
<1>6. Cardinality(forgotten) \in Nat /\ Cardinality(O) \in Nat
  BY <1>1, FS_CardinalityType
<1>7. Rank(k) = Cardinality(forgotten \cup O)
  BY <1>2, Zenon DEF Rank, Below
<1>8. Index(kept, k) = Cardinality(O)
  BY DEF Index
<1> HIDE DEF O
<1> QED BY <1>4, <1>5, <1>6, <1>7, <1>8

(***************************************************************************)
(* What a chunk holds (event_log_read_chunk()): of the records R that      *)
(* could be read as many as fit, one after the other, from the index asked *)
(* for on.                                                                 *)
(***************************************************************************)
LEMMA SliceRun ==
  ASSUME NEW R \in SUBSET Nat, IsFiniteSet(R),
         NEW a \in Nat, NEW count \in Nat
  PROVE  LET recs == Slice(R, a, a + count - 1)
         IN  /\ recs \in Seq(R)
             /\ Len(recs) <= count
             /\ \A i \in 1..Len(recs) : Index(R, recs[i]) = a + i - 1
<1> DEFINE b == a + count - 1
<1> DEFINE T == {k \in R : Index(R, k) \in a..b}
<1> DEFINE n == Cardinality(T)
<1> DEFINE m == Cardinality(R)
<1> DEFINE recs == Slice(R, a, b)
<1>1. R \in SUBSET Nat /\ IsFiniteSet(R) /\ m \in Nat
  BY FS_CardinalityType
<1>2. \A k \in R : Index(R, k) = Below(R, k)
  BY DEF Index, Below
<1>3. IsFiniteSet(T) /\ n \in Nat
  BY <1>1, FS_Subset, FS_CardinalityType
<1>4. \A k \in T : Index(R, k) \in a..b /\ Index(R, k) \in Nat /\ Index(R, k) < m
  <2> TAKE k \in T
  <2>1. k \in Nat /\ k \in R
    BY <1>1
  <2> QED BY <1>1, <1>2, <2>1, BelowBounds
<1> DEFINE f == [k \in T |-> Index(R, k)]
<1>5. \A x, y \in T : Index(R, x) = Index(R, y) => x = y
  <2> TAKE x, y \in T
  <2> QED BY <1>1, <1>2, BelowInjective
<1>6. n <= count
  <2>1. f \in Injection(T, a..b)
    BY <1>4, <1>5 DEF Injection, IsInjective
  <2>2. IsFiniteSet(a..b) /\ Cardinality(a..b) = count
    BY FS_Interval
  <2> HIDE DEF f, T
  <2> QED BY <2>1, <2>2, FS_Injection
<1>7. n > 0 => a + n <= m
  <2>1. PICK c \in Int : c = m - 1
    BY <1>1
  <2>2. \A k \in T : Index(R, k) \in a..c
    BY <1>1, <1>4, <2>1
  <2>3. f \in Injection(T, a..c)
    BY <1>5, <2>2 DEF Injection, IsInjective
  <2>4. IsFiniteSet(a..c) /\ Cardinality(a..c) = IF a > c THEN 0 ELSE c - a + 1
    BY FS_Interval
  <2>5. n <= Cardinality(a..c)
    <3> HIDE DEF f, T
    <3> QED BY <2>3, <2>4, FS_Injection
  <2> HIDE DEF n, m
  <2> QED BY <1>1, <1>3, <2>1, <2>4, <2>5
<1>8. \A i \in 1..n : RecordAt(R, a + i - 1) \in R /\ Index(R, RecordAt(R, a + i - 1)) = a + i - 1
  <2> TAKE i \in 1..n
  <2>1. a + i - 1 \in 0..(m - 1)
    BY <1>1, <1>3, <1>7
  <2>2. \E k \in R : Below(R, k) = a + i - 1
    BY <1>1, <2>1, BelowOnto
  <2>3. \E k \in R : Index(R, k) = a + i - 1
    BY <1>2, <2>2
  <2> QED BY <2>3 DEF RecordAt
<1>9. recs = [i \in 1..n |-> RecordAt(R, a + i - 1)]
  BY DEF Slice
<1>10. recs \in Seq(R) /\ Len(recs) = n
  <2> HIDE DEF n, recs
  <2>1. recs \in [1..n -> R]
    BY <1>8, <1>9
  <2> QED BY <1>3, <2>1
<1> QED BY <1>3, <1>6, <1>8, <1>9, <1>10

-----------------------------------------------------------------------------
(* The workqueue.                                                          *)

Once(q) == \A i, j \in 1..Len(q) : q[i] = q[j] => i = j

\* Advertising starts again after the answer to the request.
JrFirst(q) ==
  \A i, j \in 1..Len(q) : q[i] = "adv" /\ q[j] = "jr" => j < i

QueueInv ==
  /\ workq \in Seq(Works)
  /\ Once(workq)
  /\ pc \in {"idle", "flush", "append", "live"} \cup JrPcs

(***************************************************************************)
(* What becomes of the workqueue when a work is submitted and when one is  *)
(* taken.                                                                  *)
(***************************************************************************)
LEMMA AppendWork ==
  ASSUME NEW q \in Seq(Works), Once(q), NEW w \in Works, ~Contains(q, w)
  PROVE  /\ Append(q, w) \in Seq(Works)
         /\ Once(Append(q, w))
         /\ \A x : Contains(Append(q, w), x) <=> Contains(q, x) \/ x = w
         /\ JrFirst(q) /\ (w = "jr" => ~Contains(q, "adv")) => JrFirst(Append(q, w))
<1> DEFINE r == Append(q, w)
<1>1. /\ r \in Seq(Works) /\ Len(r) = Len(q) + 1 /\ r[Len(q) + 1] = w
      /\ \A i \in 1..Len(q) : r[i] = q[i]
      /\ Len(q) \in Nat
  OBVIOUS
<1>2. \A i \in 1..Len(q) : q[i] # w
  BY DEF Contains
<1> HIDE DEF r
<1>3. Once(r)
  <2> USE DEF Once
  <2> TAKE i, j \in 1..Len(r)
  <2> HAVE r[i] = r[j]
  <2>1. i \in 1..Len(q) \/ i = Len(q) + 1
    BY <1>1
  <2>2. j \in 1..Len(q) \/ j = Len(q) + 1
    BY <1>1
  <2> QED BY <1>1, <1>2, <2>1, <2>2 DEF Once
<1>4. \A x : Contains(r, x) <=> Contains(q, x) \/ x = w
  <2> TAKE x
  <2>1. 1..Len(r) = 1..Len(q) \cup {Len(q) + 1}
    BY <1>1
  <2> QED BY <1>1, <2>1 DEF Contains
<1>5. ASSUME JrFirst(q), w = "jr" => ~Contains(q, "adv")
      PROVE  JrFirst(r)
  <2> USE DEF JrFirst
  <2> TAKE i, j \in 1..Len(r)
  <2> HAVE r[i] = "adv" /\ r[j] = "jr"
  <2>1. i \in 1..Len(q) \/ i = Len(q) + 1
    BY <1>1
  <2>2. j \in 1..Len(q) \/ j = Len(q) + 1
    BY <1>1
  <2>3. CASE i \in 1..Len(q) /\ j \in 1..Len(q)
    BY <1>1, <1>5, <2>3 DEF JrFirst
  <2>4. CASE i \in 1..Len(q) /\ j = Len(q) + 1
    BY <1>1, <1>5, <2>4 DEF Contains
  <2>5. CASE i = Len(q) + 1
    BY <1>1, <2>2, <2>5
  <2> QED BY <2>1, <2>2, <2>3, <2>4, <2>5
<1> QED BY <1>1, <1>3, <1>4, <1>5 DEF r

(***************************************************************************)
(* What taking the head of the workqueue does to it: every other item      *)
(* stays, and the advertising restart is never left behind a request.      *)
(***************************************************************************)
LEMMA TakeWork ==
  ASSUME NEW q \in Seq(Works), Once(q), q # <<>>
  PROVE  /\ Tail(q) \in Seq(Works)
         /\ Once(Tail(q))
         /\ \A x : Contains(Tail(q), x) <=> Contains(q, x) /\ x # Head(q)
         /\ Contains(q, Head(q))
         /\ JrFirst(q) => JrFirst(Tail(q))
         /\ JrFirst(q) /\ Head(q) = "adv" => ~Contains(q, "jr")
<1> DEFINE r == Tail(q)
<1>1. /\ r \in Seq(Works) /\ Len(r) = Len(q) - 1 /\ Head(q) = q[1]
      /\ \A i \in 1..Len(r) : r[i] = q[i + 1]
      /\ Len(q) \in Nat \ {0}
  OBVIOUS
<1> HIDE DEF r
<1>2. \A i \in 1..Len(r) : i + 1 \in 1..Len(q)
  BY <1>1
<1>3. Once(r)
  BY <1>1, <1>2 DEF Once
<1>4. \A x : Contains(r, x) <=> Contains(q, x) /\ x # Head(q)
  <2> TAKE x
  <2>1. ASSUME Contains(r, x)
        PROVE  Contains(q, x) /\ x # q[1]
    <3>1. PICK i \in 1..Len(r) : r[i] = x
      BY <2>1 DEF Contains
    <3>2. i + 1 \in 1..Len(q) /\ q[i + 1] = x /\ i + 1 # 1 /\ 1 \in 1..Len(q)
      BY <1>1, <1>2, <3>1
    <3> QED BY <3>2 DEF Contains, Once
  <2>2. ASSUME Contains(q, x), x # q[1]
        PROVE  Contains(r, x)
    <3>1. PICK i \in 1..Len(q) : q[i] = x
      BY <2>2 DEF Contains
    <3>2. i - 1 \in 1..Len(r) /\ r[i - 1] = x
      BY <1>1, <2>2, <3>1
    <3> QED BY <3>2 DEF Contains
  <2> QED BY <1>1, <2>1, <2>2
<1>5. Contains(q, Head(q))
  BY <1>1 DEF Contains
<1>6. JrFirst(q) => JrFirst(r)
  <2> USE DEF JrFirst
  <2> HAVE JrFirst(q)
  <2> TAKE i, j \in 1..Len(r)
  <2> HAVE r[i] = "adv" /\ r[j] = "jr"
  <2>1. j + 1 < i + 1
    BY <1>1, <1>2 DEF JrFirst
  <2> QED BY <2>1
<1>7. JrFirst(q) /\ Head(q) = "adv" => ~Contains(q, "jr")
  <2> SUFFICES ASSUME JrFirst(q), Head(q) = "adv", Contains(q, "jr")
               PROVE  FALSE
    OBVIOUS
  <2>1. PICK j \in 1..Len(q) : q[j] = "jr"
    BY DEF Contains
  <2>2. j < 1
    BY <1>1, <2>1 DEF JrFirst
  <2> QED BY <2>2
<1> QED BY <1>1, <1>3, <1>4, <1>5, <1>6, <1>7 DEF r

(***************************************************************************)
(* An event submits flush_work and nothing else.                           *)
(***************************************************************************)
LEMMA LoggedWork ==
  ASSUME NEW q \in Seq(Works), Once(q), NEW r,
         r = q \/ r = IF Contains(q, "flush") THEN q ELSE Append(q, "flush")
  PROVE  /\ r \in Seq(Works)
         /\ Once(r)
         /\ \A x : x # "flush" => (Contains(r, x) <=> Contains(q, x))
         /\ JrFirst(q) => JrFirst(r)
<1>1. CASE r = q
  BY <1>1
<1>2. CASE ~Contains(q, "flush") /\ r = Append(q, "flush")
  <2>1. "flush" \in Works /\ "flush" # "jr"
    BY DEF Works
  <2> QED BY <1>2, <2>1, AppendWork
<1>3. r = q \/ (~Contains(q, "flush") /\ r = Append(q, "flush"))
  <2>1. CASE Contains(q, "flush")
    BY <2>1, Zenon
  <2>2. CASE ~Contains(q, "flush")
    BY <2>2, Zenon
  <2> QED BY <2>1, <2>2, Zenon
<1> QED BY <1>1, <1>2, <1>3

(***************************************************************************)
(* Logging an event may submit the flush and nothing else.                 *)
(***************************************************************************)
LEMMA LogEventEffect ==
  ASSUME QueueInv, LogEvent(workq)
  PROVE  /\ workq' \in Seq(Works)
         /\ Once(workq')
         /\ \A x : x # "flush" => (Contains(workq', x) <=> Contains(workq, x))
         /\ JrFirst(workq) => JrFirst(workq')
<1>1. \/ workq' = IF Contains(workq, "flush") THEN workq ELSE Append(workq, "flush")
      \/ workq' = workq
  BY Zenon DEF LogEvent
<1> QED BY <1>1, LoggedWork DEF QueueInv

(***************************************************************************)
(* The button handler leaves the queue and logs the press.                 *)
(***************************************************************************)
LEMMA ButtonEffect ==
  ASSUME QueueInv, workq # <<>>, Head(workq) = "button", LogEvent(Tail(workq))
  PROVE  /\ workq' \in Seq(Works)
         /\ Once(workq')
         /\ \A x : x \notin {"flush", "button"} =>
              (Contains(workq', x) <=> Contains(workq, x))
         /\ JrFirst(workq) => JrFirst(workq')
<1> DEFINE q == Tail(workq)
<1>1. \/ workq' = IF Contains(q, "flush") THEN q ELSE Append(q, "flush")
      \/ workq' = q
  BY Zenon DEF LogEvent
<1>2. /\ q \in Seq(Works) /\ Once(q)
      /\ \A x : Contains(q, x) <=> Contains(workq, x) /\ x # "button"
      /\ JrFirst(workq) => JrFirst(q)
  BY TakeWork DEF QueueInv
<1> HIDE DEF q
<1> QED BY <1>1, <1>2, LoggedWork

(***************************************************************************)
(* k_work_submit() queues an item once, however often it is called.        *)
(***************************************************************************)
LEMMA SubmittedEffect ==
  ASSUME QueueInv, NEW w \in Works, workq' = Submitted(w)
  PROVE  /\ workq' \in Seq(Works)
         /\ Once(workq')
         /\ \A x : Contains(workq', x) <=> Contains(workq, x) \/ x = w
         /\ JrFirst(workq) /\ (w = "jr" => ~Contains(workq, "adv"))
              => JrFirst(workq')
<1>1. CASE Contains(workq, w)
  BY <1>1 DEF QueueInv, Submitted
<1>2. CASE ~Contains(workq, w)
  BY <1>2, AppendWork DEF QueueInv, Submitted
<1> QED BY <1>1, <1>2

(***************************************************************************)
(* The workqueue thread starts a handler only when it runs none.           *)
(***************************************************************************)
LEMMA RunEffect ==
  ASSUME QueueInv, NEW w, NEW step, Run(w, step)
  PROVE  /\ pc = "idle" /\ pc' = step
         /\ workq' \in Seq(Works)
         /\ Once(workq')
         /\ \A x : Contains(workq', x) <=> Contains(workq, x) /\ x # w
         /\ Contains(workq, w)
         /\ JrFirst(workq) => JrFirst(workq')
         /\ JrFirst(workq) /\ w = "adv" => ~Contains(workq, "jr")
BY TakeWork DEF QueueInv, Run, Goto

-----------------------------------------------------------------------------
(* What a step does to the journal.                                        *)

\* What was recorded stays so and keeps its rank; a new record is in the air.
Grows ==
  /\ Recorded \subseteq Recorded'
  /\ \A k \in Recorded : Below(Recorded', k) = Rank(k)
  /\ Cardinality(forgotten') \in Nat
  /\ Cardinality(forgotten) <= Cardinality(forgotten')
  /\ pc # "append" => Recorded' = Recorded
  /\ \A k \in Recorded' \ Recorded : pc' = "live" /\ k = taken'

(***************************************************************************)
(* A step that leaves the journal alone keeps its invariant and its ranks. *)
(***************************************************************************)
LEMMA JournalQuiet ==
  ASSUME JournalInv, UNCHANGED <<journal, taken>>,
         accepted' \in Nat, accepted <= accepted',
         pc' \in {"append", "live"} => pc' = pc
  PROVE  JournalInv' /\ Grows
<1>1. Recorded' = Recorded /\ forgotten' = forgotten
  BY DEF journal, Recorded
<1>2. Grows
  <2>1. Cardinality(forgotten) \in Nat
    BY JournalSets
  <2> QED BY <1>1, <2>1 DEF Grows, Rank
<1>3. JournalInv'
  <2>1. /\ kept' = kept /\ slots' = slots /\ forgotten' = forgotten
        /\ taken' = taken
    BY DEF journal
  <2> QED BY <1>1, <2>1 DEF JournalInv
<1> QED BY <1>2, <1>3

(***************************************************************************)
(* Logging an event only counts and submits: the journal keeps its         *)
(* invariant.                                                              *)
(***************************************************************************)
LEMMA LogEventQuiet ==
  ASSUME JournalInv, UNCHANGED <<journal, taken>>,
         LogEvent(workq) \/ LogEvent(Tail(workq)),
         pc' \in {"append", "live"} => pc' = pc
  PROVE  JournalInv' /\ Grows
<1>1. accepted' = accepted \/ accepted' = accepted + 1
  BY Zenon DEF LogEvent
<1>2. accepted \in Nat
  BY DEF JournalInv
<1> QED BY <1>1, <1>2, JournalQuiet

(***************************************************************************)
(* A rotation or a clear gives up the oldest records.                      *)
(***************************************************************************)
LEMMA EraseEffect ==
  ASSUME JournalInv, \E S : Erase(S), UNCHANGED queueVars,
         pc' \in {"append", "live"} => pc' = pc
  PROVE  JournalInv' /\ Grows /\ Recorded' = Recorded
<1>1. PICK S : Erase(S)
  OBVIOUS
<1>2. /\ \A old \in kept \cap S, k \in kept \ (kept \cap S) : old < k
      /\ kept' = kept \ (kept \cap S)
      /\ forgotten' = forgotten \cup (kept \cap S)
      /\ slots' = slots \ S
      /\ taken' = taken /\ accepted' = accepted
  BY <1>1, Zenon DEF Erase, Journal!Forget, queueVars
<1>3. Recorded' = Recorded
  BY <1>2 DEF Recorded
<1>4. Cardinality(slots') \in Nat /\ Cardinality(slots') <= Cardinality(slots)
  <2>1. IsFiniteSet(slots) /\ slots' \in SUBSET slots
    BY <1>2, JournalSets
  <2> QED BY <2>1, FS_Subset, FS_CardinalityType
<1>5. JournalInv'
  <2>1. /\ taken' \in Nat /\ accepted' \in Nat /\ taken' <= accepted'
        /\ pc' = "append" => taken' > 0
        /\ pc' = "live" => taken' \in Recorded'
        /\ kept' \subseteq slots'
        /\ slots' \subseteq 1..taken'
        /\ forgotten' \subseteq 1..taken'
    BY <1>2, <1>3 DEF JournalInv
  <2>2. \A f \in forgotten', k \in kept' : f < k
    BY <1>2 DEF JournalInv
  <2>3. Cardinality(slots') <= NumSectors * SlotsPerSector
    <3>1. Cardinality(slots) \in Nat
      BY JournalSets
    <3>2. NumSectors * SlotsPerSector \in Nat
      BY JournalDumpAssumption DEF JournalDumpAssumption
    <3> QED BY <1>4, <3>1, <3>2 DEF JournalInv
  <2> QED BY <2>1, <2>2, <2>3 DEF JournalInv
<1>6. /\ Cardinality(forgotten') \in Nat
      /\ Cardinality(forgotten) <= Cardinality(forgotten')
  <2>1. IsFiniteSet(forgotten')
    <3>1. IsFiniteSet(1..taken') /\ forgotten' \in SUBSET (1..taken')
      BY <1>5, FS_Interval DEF JournalInv
    <3> QED BY <3>1, FS_Subset
  <2>2. forgotten \in SUBSET forgotten'
    BY <1>2
  <2> QED BY <2>1, <2>2, FS_Subset, FS_CardinalityType
<1> QED BY <1>3, <1>5, <1>6 DEF Grows, Rank

(***************************************************************************)
(* A flush records the event it has taken, newer than all before it.       *)
(***************************************************************************)
LEMMA AppendEffect ==
  ASSUME JournalInv, QueueInv, FcbAppend \/ AppendError
  PROVE  JournalInv' /\ Grows
<1>1. /\ kept \subseteq slots /\ slots \subseteq 1..taken /\ taken \in Nat
      /\ Recorded \in SUBSET Nat
      /\ taken' = taken /\ accepted' = accepted
  BY JournalSets DEF JournalInv, FcbAppend, AppendError, queueVars
<1>2. NumSectors * SlotsPerSector \in Nat
  BY JournalDumpAssumption DEF JournalDumpAssumption
<1>3. ASSUME ~RingFull, slots' = slots \cup {taken}
      PROVE  Cardinality(slots') <= NumSectors * SlotsPerSector
  <2>1. IsFiniteSet(slots) /\ Cardinality(slots) \in Nat
    BY JournalSets
  <2>2. \/ Cardinality(slots') = Cardinality(slots)
        \/ Cardinality(slots') = Cardinality(slots) + 1
    BY <1>3, <2>1, FS_AddElement
  <2>3. Cardinality(slots) <= NumSectors * SlotsPerSector
    BY DEF JournalInv
  <2>4. Cardinality(slots) # NumSectors * SlotsPerSector
    BY <1>3 DEF RingFull
  <2> QED BY <1>2, <2>1, <2>2, <2>3, <2>4
<1>4. CASE FcbAppend
  <2>1. /\ ~RingFull
        /\ \A k \in kept \cup forgotten : k < taken
        /\ kept' = kept \cup {taken}
        /\ forgotten' = forgotten
        /\ slots' = slots \cup {taken}
        /\ pc = "append" /\ pc' = "live"
    BY <1>4 DEF FcbAppend, Journal!Record, Goto
  <2>2. taken \in 1..taken
    BY <1>1, <2>1 DEF JournalInv
  <2>3. Recorded' = Recorded \cup {taken} /\ \A k \in Recorded : k < taken
    BY <2>1 DEF Recorded
  <2>4. Grows
    <3>1. \A k \in Recorded : Below(Recorded \cup {taken}, k) = Below(Recorded, k)
      BY <1>1, <2>3, BelowKept
    <3>2. Cardinality(forgotten) \in Nat
      BY JournalSets
    <3> QED BY <1>1, <2>1, <2>3, <3>1, <3>2 DEF Grows, Rank
  <2>5. \A f \in forgotten', k \in kept' : f < k
    BY <2>1 DEF JournalInv
  <2>6. kept' \subseteq slots' /\ slots' \subseteq 1..taken' /\ forgotten' \subseteq 1..taken'
    BY <1>1, <2>1, <2>2 DEF JournalInv
  <2> QED BY <1>1, <1>3, <2>1, <2>3, <2>4, <2>5, <2>6 DEF JournalInv
<1>5. CASE AppendError
  <2>1. /\ kept' = kept /\ forgotten' = forgotten
        /\ slots' = slots \/ (~RingFull /\ slots' = slots \cup {taken})
        /\ pc = "append" /\ pc' = "flush"
    BY <1>5 DEF AppendError, Goto
  <2>2. taken \in 1..taken
    BY <1>1, <2>1 DEF JournalInv
  <2>3. Recorded' = Recorded
    BY <2>1 DEF Recorded
  <2>4. Grows
    <3>1. Cardinality(forgotten) \in Nat
      BY JournalSets
    <3> QED BY <2>1, <2>3, <3>1 DEF Grows, Rank
  <2>5. kept' \subseteq slots' /\ slots' \subseteq 1..taken'
    BY <1>1, <2>1, <2>2
  <2>6. Cardinality(slots') <= NumSectors * SlotsPerSector
    BY <1>3, <2>1 DEF JournalInv
  <2> QED BY <1>1, <2>1, <2>4, <2>5, <2>6 DEF JournalInv
<1> QED BY <1>4, <1>5

(***************************************************************************)
(* The journal of every step, and with it the queue of events.             *)
(***************************************************************************)
LEMMA JournalStep ==
  ASSUME JournalInv, QueueInv, [Next]_vars
  PROVE  JournalInv' /\ Grows
<1> DEFINE Still ==
      UNCHANGED <<journal, taken>> /\ (pc' \in {"append", "live"} => pc' = pc)
<1>1. ASSUME Still, accepted' = accepted
      PROVE  JournalInv' /\ Grows
  <2>1. accepted \in Nat
    BY DEF JournalInv
  <2> QED BY <1>1, <2>1, JournalQuiet
<1>2. CASE UNCHANGED vars
  BY <1>1, <1>2 DEF vars, queueVars
<1>3. CASE FlushStart \/ FlushDone \/ JournalLiveCb \/ JournalLiveCbError
  BY <1>1, <1>3 DEF FlushStart, FlushDone, JournalLiveCb, JournalLiveCbError,
                    Run, Goto, queueVars
<1>4. CASE FlushGet
  <2>1. /\ UNCHANGED <<journal, accepted>> /\ taken < accepted
        /\ taken' = taken + 1 /\ pc = "flush" /\ pc' = "append"
    BY <1>4 DEF FlushGet, Goto
  <2>2. JournalInv'
    BY <2>1 DEF JournalInv, journal
  <2>3. Cardinality(forgotten) \in Nat
    BY JournalSets
  <2>4. Recorded' = Recorded /\ forgotten' = forgotten
    BY <2>1 DEF Recorded, journal
  <2> QED BY <2>1, <2>2, <2>3, <2>4 DEF Grows, Rank
<1>5. CASE FcbRotate
  BY <1>5, EraseEffect DEF FcbRotate
<1>6. CASE FcbAppend \/ AppendError
  BY <1>6, AppendEffect
<1>7. CASE JrClear \/ JrClearError
  BY <1>7, EraseEffect DEF JrClear, JrClearError, SomeErased, Goto
<1>8. CASE JrStart
  BY <1>1, <1>8 DEF JrStart, Run, Goto, queueVars
<1>9. CASE \/ JrRead \/ JrReadSkips \/ JrReadError \/ JrNotSent \/ JrIgnored
           \/ JrChunkMoved \/ JrChunk \/ JrCleared
  BY <1>1, <1>9 DEF JrRead, JrReadSkips, JrReadError, JrNotSent, JrIgnored, JrChunkMoved,
                    JrChunk, JrCleared, JrDone, Goto, queueVars
<1>10. CASE AskDump \/ AskNext \/ AskClear \/ Retry
  BY <1>1, <1>10 DEF AskDump, AskNext, AskClear, Retry, WriteJournal, queueVars
<1>11. CASE JournalAttMtuUpdated \/ AdvTimeout \/ AdvRestart \/ Press \/ Idle
  BY <1>1, <1>11 DEF JournalAttMtuUpdated, AdvTimeout, AdvRestart, Press, Idle,
                     Run, Goto, vars, queueVars
<1>12. CASE EventLogWrite \/ Connect \/ Disconnected \/ ButtonDebounce
  BY <1>12, LogEventQuiet DEF EventLogWrite, Connect, Disconnected,
                              ButtonDebounce, Goto
<1>13. CASE ShellClear
  BY <1>13, EraseEffect DEF ShellClear, SomeErased
<1> QED BY <1>2, <1>3, <1>4, <1>5, <1>6, <1>7, <1>8, <1>9, <1>10, <1>11, <1>12,
           <1>13 DEF Next, WorkQueue, Flush, JournalWork

-----------------------------------------------------------------------------
(* The workqueue, the connection and the client of every step.             *)

(***************************************************************************)
(* Every work is in the workqueue at most once.                            *)
(***************************************************************************)
LEMMA QueueStep ==
  ASSUME QueueInv, [Next]_vars
  PROVE  QueueInv'
<1> DEFINE Pcs == {"idle", "flush", "append", "live"} \cup JrPcs
<1>1. ASSUME workq' = workq, pc' \in Pcs
      PROVE  QueueInv'
  BY <1>1 DEF QueueInv
<1>2. ASSUME workq' \in Seq(Works), Once(workq'), pc' \in Pcs
      PROVE  QueueInv'
  BY <1>2 DEF QueueInv
<1>3. pc \in Pcs
  BY DEF QueueInv
<1>4. CASE UNCHANGED vars
  BY <1>1, <1>3, <1>4 DEF vars
<1>5. CASE \/ FlushGet \/ FlushDone \/ FcbRotate \/ FcbAppend \/ AppendError
           \/ JournalLiveCb \/ JournalLiveCbError
  BY <1>1, <1>3, <1>5 DEF FlushGet, FlushDone, FcbRotate, FcbAppend, AppendError,
                          JournalLiveCb, JournalLiveCbError, Goto
<1>6. CASE FlushStart
  BY <1>2, <1>6, RunEffect DEF FlushStart
<1>7. CASE JrStart
  BY <1>2, <1>7, RunEffect DEF JrStart, JrPcs
<1>8. CASE AdvRestart
  BY <1>2, <1>8, RunEffect DEF AdvRestart
<1>9. CASE \/ JrRead \/ JrReadSkips \/ JrReadError \/ JrClear \/ JrClearError \/ JrNotSent
           \/ JrIgnored \/ JrChunkMoved \/ JrChunk \/ JrCleared
  BY <1>1, <1>3, <1>9 DEF JrRead, JrReadSkips, JrReadError, JrClear, JrClearError, JrNotSent,
                          JrIgnored, JrChunkMoved, JrChunk, JrCleared, JrDone,
                          Goto, JrPcs
<1>10. CASE AskDump \/ AskNext \/ AskClear \/ Retry
  <2>1. workq' = Submitted("jr") /\ pc' = pc
    BY <1>10 DEF AskDump, AskNext, AskClear, Retry, WriteJournal
  <2> QED BY <1>2, <1>3, <2>1, SubmittedEffect DEF Works
<1>11. CASE AdvTimeout
  BY <1>2, <1>3, <1>11, SubmittedEffect DEF AdvTimeout, Works
<1>12. CASE Press
  BY <1>2, <1>3, <1>12, SubmittedEffect DEF Press, Works
<1>13. CASE EventLogWrite \/ Connect \/ Disconnected
  <2>1. LogEvent(workq) /\ pc' = pc
    BY <1>13 DEF EventLogWrite, Connect, Disconnected
  <2> QED BY <1>2, <1>3, <2>1, LogEventEffect
<1>14. CASE ButtonDebounce
  <2>1. /\ LogEvent(Tail(workq)) /\ workq # <<>> /\ Head(workq) = "button"
        /\ pc' = "idle"
    BY <1>14 DEF ButtonDebounce, Goto
  <2> QED BY <1>2, <2>1, ButtonEffect
<1>15. CASE ShellClear \/ JournalAttMtuUpdated \/ Idle
  BY <1>1, <1>3, <1>15 DEF ShellClear, JournalAttMtuUpdated, Idle, vars
<1> QED BY <1>4, <1>5, <1>6, <1>7, <1>8, <1>9, <1>10, <1>11, <1>12, <1>13,
           <1>14, <1>15 DEF Next, WorkQueue, Flush, JournalWork

Requests ==
  [op : {"none", "dump", "clear"}, arg : Nat, count : 0..MtuCount, conn : Nat]

LinkInv ==
  /\ adv \in BOOLEAN /\ adv_timer \in BOOLEAN /\ link \in BOOLEAN
  /\ woken \in BOOLEAN
  /\ ~(adv /\ link)
  /\ conn \in Nat
  /\ att_mtu_val \in 1..MtuCount
  /\ jr_req \in Requests /\ req \in Requests

ClientInv ==
  /\ awaiting \in BOOLEAN /\ disturbed \in BOOLEAN /\ missed \in BOOLEAN
  /\ misread \in BOOLEAN
  /\ phase \in {"idle", "dump", "done", "clear", "cleared"}
  /\ copy \in Seq(Recorded)
  /\ live \subseteq Recorded
  /\ last_total \in Nat
  /\ ~link => phase = "idle" /\ copy = <<>> /\ ~awaiting

(***************************************************************************)
(* The radio does not advertise while there is a connection; a request     *)
(* asks for no more records than fit.                                      *)
(***************************************************************************)
LEMMA LinkStep ==
  ASSUME LinkInv, ClientInv, [Next]_vars
  PROVE  LinkInv'
<1>1. ASSUME UNCHANGED <<linkVars, jr_req>>, req' \in Requests
      PROVE  LinkInv'
  BY <1>1 DEF LinkInv, linkVars
<1>2. NoRequest \in Requests
  BY JournalDumpAssumption DEF JournalDumpAssumption, NoRequest, Requests
<1>3. jr_req \in Requests /\ req \in Requests
  BY DEF LinkInv
<1>4. CASE UNCHANGED vars
  BY <1>1, <1>3, <1>4 DEF vars, jrVars
<1>5. CASE \/ FlushStart \/ FlushGet \/ FlushDone \/ FcbRotate \/ FcbAppend
           \/ AppendError \/ JournalLiveCb \/ JournalLiveCbError \/ EventLogWrite
           \/ ShellClear \/ Press \/ Idle
  BY <1>1, <1>3, <1>5 DEF FlushStart, FlushGet, FlushDone, FcbRotate, FcbAppend,
       AppendError, JournalLiveCb, JournalLiveCbError, EventLogWrite, ShellClear,
       Press, Idle, vars, jrVars
<1>6. CASE JrStart \/ JrRead \/ JrReadSkips \/ JrReadError \/ JrClear \/ JrClearError
  BY <1>1, <1>3, <1>6 DEF JrStart, JrRead, JrReadSkips, JrReadError, JrClear, JrClearError,
       jrVars
<1>7. CASE JrNotSent \/ JrIgnored \/ JrChunkMoved \/ JrChunk \/ JrCleared
  BY <1>1, <1>2, <1>7 DEF JrNotSent, JrIgnored, JrChunkMoved, JrChunk, JrCleared,
       JrDone
<1>8. CASE AskDump \/ AskNext \/ AskClear \/ Retry
  <2>1. PICK op, arg : WriteJournal(op, arg) /\ op \in {"none", "dump", "clear"} /\ arg \in Nat
    <3>1. CASE AskDump \/ AskClear
      BY <3>1 DEF AskDump, AskClear
    <3>2. CASE AskNext
      <4>1. Len(copy) \in Nat
        BY DEF ClientInv
      <4> QED BY <3>2, <4>1 DEF AskNext
    <3>3. CASE Retry
      BY <1>3, <3>3 DEF Retry, Requests
    <3> QED BY <1>8, <3>1, <3>2, <3>3
  <2>2. jr_req' = Request(op, arg) /\ UNCHANGED <<linkVars, req>>
    BY <2>1 DEF WriteJournal
  <2>3. att_mtu_val \in 0..MtuCount /\ conn \in Nat
    BY JournalDumpAssumption DEF LinkInv, JournalDumpAssumption
  <2>4. Request(op, arg) \in Requests
    BY <2>1, <2>3 DEF Request, Requests
  <2> QED BY <2>2, <2>4 DEF LinkInv, linkVars
<1>9. CASE Connect
  <2>1. /\ adv' = FALSE /\ link' = TRUE /\ conn' = conn + 1 /\ att_mtu_val' = 1
        /\ UNCHANGED <<adv_timer, woken, jr_req, req>>
    BY <1>9, Zenon DEF Connect, jrVars
  <2>2. conn' \in Nat /\ att_mtu_val' \in 1..MtuCount
    BY <2>1, JournalDumpAssumption DEF LinkInv, JournalDumpAssumption
  <2> QED BY <2>1, <2>2, Zenon DEF LinkInv
<1>10. CASE JournalAttMtuUpdated
  BY <1>10, JournalDumpAssumption DEF JournalAttMtuUpdated, LinkInv, jrVars,
       JournalDumpAssumption
<1>11. CASE Disconnected
  BY <1>11 DEF Disconnected, LinkInv, jrVars
<1>12. CASE AdvTimeout
  BY <1>12 DEF AdvTimeout, LinkInv, jrVars
<1>13. CASE AdvRestart
  BY <1>13 DEF AdvRestart, LinkInv, jrVars
<1>14. CASE ButtonDebounce
  <2>1. /\ adv_timer' = adv_timer /\ link' = link /\ conn' = conn
        /\ att_mtu_val' = att_mtu_val /\ jr_req' = jr_req /\ req' = req
    BY <1>14, Zenon DEF ButtonDebounce, jrVars
  <2>2. \/ adv' = adv /\ woken' = woken
        \/ ~link /\ adv' = TRUE /\ woken' = TRUE
    BY <1>14, Zenon DEF ButtonDebounce
  <2>3. adv' \in BOOLEAN /\ woken' \in BOOLEAN
    BY <2>2, Zenon DEF LinkInv
  <2>4. ~(adv' /\ link')
    BY <2>1, <2>2, Zenon DEF LinkInv
  <2> QED BY <2>1, <2>3, <2>4, Zenon DEF LinkInv
<1> QED BY <1>4, <1>5, <1>6, <1>7, <1>8, <1>9, <1>10, <1>11, <1>12, <1>13,
           <1>14 DEF Next, WorkQueue, Flush, JournalWork

\* What the answer says of the journal it was read from.
GoodAnswer ==
  /\ jr_tx.more = (req.arg + Len(jr_tx.recs) < jr_tx.counts.held)
  /\ jr_tx.total = jr_tx.counts.held

ChunkFits ==
  /\ jr_tx.recs \in Seq(Recorded)
  /\ Len(jr_tx.recs) <= req.count
  /\ jr_tx.total \in Nat
  /\ jr_tx.counts.held \in Nat /\ jr_tx.counts.gone \in Nat
  /\ jr_tx.counts.gone <= Cardinality(forgotten)
  /\ jr_tx.counts.gone + jr_tx.counts.held = Cardinality(Recorded)

\* A chunk for which every record was read is a run, and tells the truth.
WholeChunk == GoodAnswer /\ RunFrom(Recorded, jr_tx.recs, jr_tx.counts.gone + req.arg)

ChunkInv == pc = "chunk" => ChunkFits /\ (jr_tx.whole => WholeChunk)

(***************************************************************************)
(* A chunk is built from the records there are, and they stay recorded     *)
(* until it is sent: a clear may come between, an append may not.          *)
(***************************************************************************)
LEMMA ReadEffect ==
  ASSUME JournalInv, LinkInv, JrRead \/ JrReadSkips \/ JrReadError
  PROVE  ChunkInv'
<1> DEFINE g == Cardinality(forgotten)
<1>1. /\ Cardinality(kept) \in Nat /\ g \in Nat
      /\ Cardinality(Recorded) = g + Cardinality(kept)
      /\ kept \in SUBSET Nat /\ IsFiniteSet(kept)
  BY JournalSets
<1>2. /\ Counts.held = Cardinality(kept) /\ Counts.gone = g
  BY DEF Counts
<1>3. req.arg \in Nat /\ req.count \in Nat
  BY JournalDumpAssumption DEF LinkInv, Requests, JournalDumpAssumption
<1>4. Recorded' = Recorded /\ forgotten' = forgotten /\ req' = req
  BY DEF JrRead, JrReadSkips, JrReadError, journal, Recorded
<1>5. CASE JrRead \/ JrReadSkips
  <2>1. PICK R \in SUBSET kept : jr_tx' = ReadChunk(R)
    BY <1>5 DEF JrRead, JrReadSkips
  <2> DEFINE recs == Slice(R, req.arg, req.arg + req.count - 1)
  <2>2. R \in SUBSET Nat /\ IsFiniteSet(R) /\ Cardinality(R) \in Nat
    BY <1>1, FS_Subset, FS_CardinalityType
  <2>3. /\ recs \in Seq(R)
        /\ Len(recs) <= req.count
        /\ \A i \in 1..Len(recs) : Index(R, recs[i]) = req.arg + i - 1
    BY <1>3, <2>2, SliceRun
  <2>4. /\ jr_tx'.recs = recs
        /\ jr_tx'.more = (req.arg + Len(recs) < Cardinality(R))
        /\ jr_tx'.total = Cardinality(R)
        /\ jr_tx'.whole = (R = kept)
        /\ jr_tx'.counts = Counts
    BY <2>1 DEF ReadChunk, Chunk
  <2> HIDE DEF recs
  <2>5. recs \in Seq(Recorded)
    BY <2>3 DEF Recorded
  <2>6. ASSUME R = kept
        PROVE  RunFrom(Recorded, recs, g + req.arg)
    <3> SUFFICES ASSUME NEW i \in 1..Len(recs)
                 PROVE  /\ recs[i] \in Recorded
                        /\ Below(Recorded, recs[i]) = g + req.arg + i - 1
      BY DEF RunFrom
    <3>1. recs[i] \in kept
      BY <2>3, <2>6
    <3>2. Rank(recs[i]) = g + Index(kept, recs[i])
      BY <3>1, RankOfIndex
    <3>3. i \in Int /\ Index(kept, recs[i]) = req.arg + i - 1
      BY <2>3, <2>6
    <3> QED BY <1>1, <1>3, <3>1, <3>2, <3>3 DEF Rank, Recorded
  <2>7. ASSUME jr_tx'.whole
        PROVE  WholeChunk'
    <3>1. R = kept
      BY <2>4, <2>7
    <3>2. GoodAnswer'
      BY <1>2, <1>4, <2>4, <3>1 DEF GoodAnswer
    <3>3. RunFrom(Recorded', jr_tx'.recs, jr_tx'.counts.gone + req'.arg)
      BY <1>2, <1>4, <2>4, <2>6, <3>1
    <3> QED BY <3>2, <3>3, Zenon DEF WholeChunk
  <2>8. ChunkFits'
    <3>1. /\ jr_tx'.recs \in Seq(Recorded')
          /\ Len(jr_tx'.recs) <= req'.count
          /\ jr_tx'.total \in Nat
      BY <1>4, <2>2, <2>3, <2>4, <2>5
    <3>2. /\ jr_tx'.counts.held \in Nat /\ jr_tx'.counts.gone \in Nat
          /\ jr_tx'.counts.gone <= Cardinality(forgotten')
          /\ jr_tx'.counts.gone + jr_tx'.counts.held = Cardinality(Recorded')
      BY <1>1, <1>2, <1>4, <2>4
    <3> QED BY <3>1, <3>2, Zenon DEF ChunkFits
  <2> QED BY <2>7, <2>8, Zenon DEF ChunkInv
<1>6. CASE JrReadError
  <2>1. /\ jr_tx'.recs = <<>> /\ jr_tx'.total = 0 /\ jr_tx'.whole = FALSE
        /\ jr_tx'.counts = Counts
    BY <1>6 DEF JrReadError, EmptyChunk, Chunk
  <2>2. <<>> \in Seq(Recorded) /\ Len(<<>>) <= req.count
    BY <1>3
  <2>3. ChunkFits'
    <3>1. /\ jr_tx'.recs \in Seq(Recorded')
          /\ Len(jr_tx'.recs) <= req'.count
          /\ jr_tx'.total \in Nat
      BY <1>4, <2>1, <2>2
    <3>2. /\ jr_tx'.counts.held \in Nat /\ jr_tx'.counts.gone \in Nat
          /\ jr_tx'.counts.gone <= Cardinality(forgotten')
          /\ jr_tx'.counts.gone + jr_tx'.counts.held = Cardinality(Recorded')
      BY <1>1, <1>2, <1>4, <2>1
    <3> QED BY <3>1, <3>2, Zenon DEF ChunkFits
  <2> QED BY <2>1, <2>3 DEF ChunkInv
<1> QED BY <1>5, <1>6

(***************************************************************************)
(* Every step keeps the chunk being collected within the answer's limits.  *)
(***************************************************************************)
LEMMA ChunkStep ==
  ASSUME JournalInv, QueueInv, LinkInv, ChunkInv, [Next]_vars, Grows
  PROVE  ChunkInv'
<1>1. ASSUME pc' # "chunk"
      PROVE  ChunkInv'
  BY <1>1 DEF ChunkInv
<1>2. ASSUME pc = "chunk", UNCHANGED <<req, jr_tx>>
      PROVE  ChunkInv'
  <2>1. Recorded' = Recorded /\ Cardinality(forgotten) <= Cardinality(forgotten')
    BY <1>2 DEF Grows
  <2>2. Cardinality(forgotten) \in Nat /\ Cardinality(forgotten') \in Nat
    BY JournalSets DEF Grows
  <2> QED BY <1>2, <2>1, <2>2 DEF ChunkInv, ChunkFits, WholeChunk, GoodAnswer
<1>3. ASSUME UNCHANGED <<pc, req, jr_tx>>
      PROVE  ChunkInv'
  BY <1>1, <1>2, <1>3
<1>4. CASE UNCHANGED vars
  BY <1>3, <1>4 DEF vars, jrVars
<1>5. CASE \/ FlushStart \/ FlushGet \/ FlushDone \/ FcbRotate \/ FcbAppend
           \/ AppendError \/ JournalLiveCb \/ JournalLiveCbError
           \/ AdvRestart \/ ButtonDebounce
  BY <1>1, <1>5 DEF FlushStart, FlushGet, FlushDone, FcbRotate, FcbAppend,
       AppendError, JournalLiveCb, JournalLiveCbError, AdvRestart,
       ButtonDebounce, Run, Goto
<1>6. CASE JrStart \/ JrClear \/ JrClearError
  BY <1>1, <1>6 DEF JrStart, JrClear, JrClearError, Run, Goto
<1>7. CASE JrRead \/ JrReadSkips \/ JrReadError
  BY <1>7, ReadEffect
<1>8. CASE JrNotSent \/ JrIgnored \/ JrChunkMoved \/ JrChunk \/ JrCleared
  BY <1>1, <1>8 DEF JrNotSent, JrIgnored, JrChunkMoved, JrChunk, JrCleared,
       JrDone, Goto
<1>9. CASE AskDump \/ AskNext \/ AskClear \/ Retry
  BY <1>3, <1>9 DEF AskDump, AskNext, AskClear, Retry, WriteJournal
<1>10. CASE \/ EventLogWrite \/ ShellClear \/ Connect \/ JournalAttMtuUpdated
            \/ Disconnected \/ AdvTimeout \/ Press \/ Idle
  BY <1>3, <1>10 DEF EventLogWrite, ShellClear, Connect, JournalAttMtuUpdated,
       Disconnected, AdvTimeout, Press, Idle, vars, jrVars
<1> QED BY <1>4, <1>5, <1>6, <1>7, <1>8, <1>9, <1>10
           DEF Next, WorkQueue, Flush, JournalWork

(***************************************************************************)
(* The client holds nothing that was not recorded, and nothing at all      *)
(* without a connection.                                                   *)
(***************************************************************************)
LEMMA SeqKept ==
  ASSUME NEW R, NEW Q, R \subseteq Q, NEW seq \in Seq(R)
  PROVE  seq \in Seq(Q)
OBVIOUS

(***************************************************************************)
(* Every step keeps the client's copy made of recorded events.             *)
(***************************************************************************)
LEMMA ClientStep ==
  ASSUME JournalInv, QueueInv, LinkInv, ClientInv, ChunkInv, [Next]_vars, Grows
  PROVE  ClientInv'
<1> DEFINE Flags == /\ awaiting' \in BOOLEAN /\ disturbed' \in BOOLEAN
                    /\ missed' \in BOOLEAN /\ misread' \in BOOLEAN
<1>1. /\ Recorded \subseteq Recorded' /\ copy \in Seq(Recorded')
      /\ live \subseteq Recorded'
  BY SeqKept DEF ClientInv, Grows
<1>2. ASSUME Flags, link' = link \/ link' = TRUE,
             phase' = phase, awaiting' = awaiting, copy' = copy,
             last_total' = last_total, live' \subseteq Recorded'
      PROVE  ClientInv'
  <2>1. copy' \in Seq(Recorded') /\ last_total' \in Nat
    BY <1>1, <1>2, Zenon DEF ClientInv
  <2>2. phase' \in {"idle", "dump", "done", "clear", "cleared"}
    BY <1>2 DEF ClientInv
  <2>3. ~link' => phase' = "idle" /\ copy' = <<>> /\ ~awaiting'
    <3>1. CASE link'
      BY <3>1, Zenon
    <3>2. CASE ~link'
      <4>1. ~link
        BY <1>2, <3>2, Zenon
      <4>2. phase = "idle" /\ copy = <<>> /\ ~awaiting
        BY <4>1, Zenon DEF ClientInv
      <4> QED BY <1>2, <4>2, Zenon
    <3> QED BY <3>1, <3>2, Zenon
  <2> QED BY <1>2, <2>1, <2>2, <2>3, Zenon DEF ClientInv
<1>3. awaiting \in BOOLEAN /\ disturbed \in BOOLEAN /\ missed \in BOOLEAN
      /\ misread \in BOOLEAN
  BY DEF ClientInv
<1>4. ASSUME link' = link \/ link' = TRUE, UNCHANGED <<client, disturbed>>,
             missed' = missed \/ missed' = TRUE,
             misread' = misread \/ misread' = TRUE
      PROVE  ClientInv'
  BY <1>1, <1>2, <1>3, <1>4, Zenon DEF client
<1>5. ASSUME link, link' = link, Flags,
             phase' \in {"idle", "dump", "done", "clear", "cleared"},
             copy' \in Seq(Recorded'), live' = live, last_total' \in Nat
      PROVE  ClientInv'
  BY <1>1, <1>5, Zenon DEF ClientInv
<1>6. CASE UNCHANGED vars
  BY <1>4, <1>6 DEF vars, linkVars, ghosts
<1>7. CASE \/ FlushStart \/ FlushGet \/ FlushDone \/ FcbRotate \/ FcbAppend
           \/ AppendError \/ JournalLiveCbError
  BY <1>4, <1>7 DEF FlushStart, FlushGet, FlushDone, FcbRotate, FcbAppend,
       AppendError, JournalLiveCbError, linkVars, ghosts
<1>8. CASE JournalLiveCb
  <2>1. /\ pc = "live" /\ link' = link /\ phase' = phase /\ awaiting' = awaiting
        /\ copy' = copy /\ last_total' = last_total
        /\ disturbed' = disturbed /\ missed' = missed /\ misread' = misread
        /\ live' \subseteq live \cup {taken}
    BY <1>8 DEF JournalLiveCb, Goto, linkVars, ghosts
  <2>2. taken \in Recorded
    BY <2>1 DEF JournalInv
  <2> QED BY <1>1, <1>2, <1>3, <2>1, <2>2
<1>9. CASE JrStart \/ JrRead \/ JrReadSkips \/ JrReadError \/ JrClear \/ JrClearError
           \/ JrNotSent \/ JrIgnored
  BY <1>4, <1>9 DEF JrStart, JrRead, JrReadSkips, JrReadError, JrClear, JrClearError,
       JrNotSent, JrIgnored, linkVars, ghosts
<1>10. CASE JrChunkMoved
  <2>1. /\ link /\ link' = link /\ awaiting' = FALSE /\ disturbed' = FALSE
        /\ misread' = FALSE /\ missed' = missed /\ phase' = phase
        /\ copy' = <<>> /\ live' = live /\ last_total' = 0
    BY <1>10 DEF JrChunkMoved, Sendable, linkVars
  <2>2. phase \in {"idle", "dump", "done", "clear", "cleared"}
    BY DEF ClientInv
  <2>3. <<>> \in Seq(Recorded') /\ 0 \in Nat
    OBVIOUS
  <2> QED BY <1>3, <1>5, <2>1, <2>2, <2>3
<1>11. CASE JrChunk
  <2>1. /\ link /\ link' = link /\ awaiting' = FALSE
        /\ missed' = missed
        /\ phase' \in {"dump", "done"}
        /\ copy' = copy \o jr_tx.recs /\ live' = live
        /\ last_total' = jr_tx.total
        /\ pc = "chunk"
    BY <1>11 DEF JrChunk, Sendable, linkVars, JrDone, Goto
  <2>2. disturbed' \in BOOLEAN /\ misread' \in BOOLEAN
    BY <1>11, Zenon DEF JrChunk
  <2>3. ChunkFits
    BY <2>1 DEF ChunkInv
  <2>4. jr_tx.recs \in Seq(Recorded') /\ jr_tx.total \in Nat
    BY <1>1, <2>3 DEF ChunkFits
  <2>5. copy' \in Seq(Recorded')
    BY <1>1, <2>1, <2>4
  <2> QED BY <1>3, <1>5, <2>1, <2>2, <2>4, <2>5
<1>12. CASE JrCleared
  <2>1. /\ link /\ link' = link /\ awaiting' = FALSE
        /\ misread' = misread /\ missed' = missed /\ disturbed' = disturbed
        /\ phase' = "cleared" /\ copy' = copy /\ live' = live
        /\ last_total' = last_total
    BY <1>12 DEF JrCleared, Sendable, linkVars, ghosts
  <2>2. last_total \in Nat
    BY DEF ClientInv
  <2> QED BY <1>1, <1>3, <1>5, <2>1, <2>2
<1>13. CASE AskDump
  <2>1. /\ link /\ link' = link /\ awaiting' = TRUE
        /\ misread' = FALSE /\ missed' = FALSE /\ disturbed' = FALSE
        /\ phase' = "dump" /\ copy' = <<>> /\ live' = live /\ last_total' = 0
    BY <1>13 DEF AskDump, WriteJournal, linkVars
  <2>2. <<>> \in Seq(Recorded') /\ 0 \in Nat
    OBVIOUS
  <2> QED BY <1>5, <2>1, <2>2
<1>14. CASE AskNext \/ AskClear \/ Retry
  <2>1. /\ link /\ link' = link /\ awaiting' = TRUE
        /\ misread' = misread /\ missed' = missed /\ disturbed' = disturbed
        /\ phase' \in {phase, "clear"} /\ copy' = copy /\ live' = live
        /\ last_total' = last_total
    BY <1>14 DEF AskNext, AskClear, Retry, WriteJournal, linkVars, ghosts
  <2>2. last_total \in Nat /\ phase \in {"idle", "dump", "done", "clear", "cleared"}
    BY DEF ClientInv
  <2> QED BY <1>1, <1>3, <1>5, <2>1, <2>2
<1>15. CASE Disconnected
  <2>1. /\ misread' = misread /\ missed' = missed /\ disturbed' = disturbed
        /\ phase' = "idle" /\ copy' = <<>> /\ live' = {} /\ last_total' = 0
        /\ awaiting' = FALSE
    BY <1>15 DEF Disconnected, ClientLeaves, ghosts
  <2>2. <<>> \in Seq(Recorded') /\ 0 \in Nat
    OBVIOUS
  <2> QED BY <1>3, <2>1, <2>2, Zenon DEF ClientInv
<1>16. CASE Connect
  <2>1. link' = TRUE /\ UNCHANGED <<client, disturbed, missed, misread>>
    BY <1>16, Zenon DEF Connect, ghosts
  <2> QED BY <1>4, <2>1
<1>17. CASE EventLogWrite \/ ShellClear \/ JournalAttMtuUpdated \/ AdvTimeout
            \/ AdvRestart \/ Press \/ Idle
  BY <1>4, <1>17 DEF EventLogWrite, ShellClear, JournalAttMtuUpdated,
       AdvTimeout, AdvRestart, Press, Idle, vars, linkVars, ghosts
<1>18. CASE ButtonDebounce
  <2>1. link' = link /\ UNCHANGED <<client, disturbed, missed, misread>>
    BY <1>18, Zenon DEF ButtonDebounce, ghosts
  <2> QED BY <1>4, <2>1
<1> QED BY <1>6, <1>7, <1>8, <1>9, <1>10, <1>11, <1>12, <1>13, <1>14, <1>15,
           <1>16, <1>17, <1>18 DEF Next, WorkQueue, Flush, JournalWork

-----------------------------------------------------------------------------
(* Requests, answers and advertising.                                      *)

JrPending == Contains(workq, "jr") \/ pc \in JrPcs

\* The radio advertises again only when no answer is on its way.
AdvInv ==
  ~woken =>
    /\ adv => ~JrPending
    /\ adv \/ link => ~adv_timer /\ ~Contains(workq, "adv")
    /\ ~(adv_timer /\ Contains(workq, "adv"))
    /\ JrFirst(workq)

(***************************************************************************)
(* A step that adds no request and no advertising restart keeps AdvInv.    *)
(***************************************************************************)
LEMMA AdvQuiet ==
  ASSUME AdvInv, adv' = adv, adv_timer' = adv_timer, link' = link,
         woken' = woken,
         JrPending' => JrPending,
         Contains(workq', "adv") => Contains(workq, "adv"),
         JrFirst(workq) => JrFirst(workq')
  PROVE  AdvInv'
BY Zenon DEF AdvInv

(***************************************************************************)
(* adv_restart_work queues behind jr_work (ble.c, lines 68-92), so that    *)
(* the badge does not advertise before the answer is sent, unless a press  *)
(* starts advertising.                                                     *)
(***************************************************************************)
LEMMA AdvStep ==
  ASSUME QueueInv, LinkInv, AdvInv, [Next]_vars
  PROVE  AdvInv'
<1>1. CASE UNCHANGED vars
  <2>1. /\ adv' = adv /\ adv_timer' = adv_timer /\ link' = link
        /\ woken' = woken /\ workq' = workq /\ pc' = pc
    BY <1>1 DEF vars, linkVars
  <2> QED BY <2>1, AdvQuiet DEF JrPending
<1>2. ASSUME UNCHANGED <<linkVars, workq>>, pc' \in JrPcs => pc \in JrPcs
      PROVE  AdvInv'
  <2>1. /\ adv' = adv /\ adv_timer' = adv_timer /\ link' = link
        /\ woken' = woken /\ workq' = workq
    BY <1>2 DEF linkVars
  <2> QED BY <1>2, <2>1, AdvQuiet DEF JrPending
<1>3. CASE \/ FlushGet \/ FlushDone \/ FcbRotate \/ FcbAppend \/ AppendError
           \/ JournalLiveCb \/ JournalLiveCbError
  BY <1>2, <1>3 DEF FlushGet, FlushDone, FcbRotate, FcbAppend, AppendError,
       JournalLiveCb, JournalLiveCbError, Goto, JrPcs
<1>4. CASE \/ JrRead \/ JrReadSkips \/ JrReadError \/ JrClear \/ JrClearError \/ JrNotSent
           \/ JrIgnored \/ JrChunkMoved \/ JrChunk \/ JrCleared
  BY <1>2, <1>4 DEF JrRead, JrReadSkips, JrReadError, JrClear, JrClearError, JrNotSent,
       JrIgnored, JrChunkMoved, JrChunk, JrCleared, JrDone, Goto, JrPcs
<1>5. CASE ShellClear \/ Idle
  BY <1>2, <1>5 DEF ShellClear, Idle, vars
<1>6. CASE FlushStart \/ JrStart
  <2>1. /\ UNCHANGED linkVars
        /\ \E w \in {"flush", "jr"} : \E step :
             Run(w, step) /\ (step \in JrPcs => w = "jr")
    BY <1>6 DEF FlushStart, JrStart, JrPcs
  <2>2. PICK w \in {"flush", "jr"} : \E s : Run(w, s) /\ (s \in JrPcs => w = "jr")
    BY <2>1
  <2>3. PICK step : Run(w, step) /\ (step \in JrPcs => w = "jr")
    BY <2>2
  <2>4. /\ pc' = step
        /\ \A x : Contains(workq', x) <=> Contains(workq, x) /\ x # w
        /\ Contains(workq, w)
        /\ JrFirst(workq) => JrFirst(workq')
    BY <2>3, RunEffect
  <2>5. adv' = adv /\ adv_timer' = adv_timer /\ link' = link /\ woken' = woken
    BY <2>1 DEF linkVars
  <2> QED BY <2>3, <2>4, <2>5, AdvQuiet DEF JrPending
<1>7. CASE AskDump \/ AskNext \/ AskClear \/ Retry
  <2>1. workq' = Submitted("jr") /\ link /\ UNCHANGED linkVars
    BY <1>7 DEF AskDump, AskNext, AskClear, Retry, WriteJournal
  <2>2. ~adv /\ UNCHANGED <<adv, adv_timer, link, woken>>
    BY <2>1 DEF LinkInv, linkVars
  <2>3. /\ \A x : Contains(workq', x) <=> Contains(workq, x) \/ x = "jr"
        /\ JrFirst(workq) /\ ~Contains(workq, "adv") => JrFirst(workq')
    BY <2>1, SubmittedEffect DEF Works
  <2>4. Contains(workq', "adv") <=> Contains(workq, "adv")
    BY <2>3
  <2> QED BY <2>1, <2>2, <2>3, <2>4 DEF AdvInv
<1>8. CASE Press
  <2>1. workq' = Submitted("button") /\ UNCHANGED linkVars /\ pc' = pc
    BY <1>8 DEF Press
  <2>2. /\ \A x : Contains(workq', x) <=> Contains(workq, x) \/ x = "button"
        /\ JrFirst(workq) => JrFirst(workq')
    BY <2>1, SubmittedEffect DEF Works
  <2>3. adv' = adv /\ adv_timer' = adv_timer /\ link' = link /\ woken' = woken
    BY <2>1 DEF linkVars
  <2> QED BY <2>1, <2>2, <2>3, AdvQuiet DEF JrPending
<1>9. CASE EventLogWrite \/ Connect \/ Disconnected
  <2>1. LogEvent(workq) /\ pc' = pc
    BY <1>9, Zenon DEF EventLogWrite, Connect, Disconnected
  <2>2. /\ Contains(workq', "jr") <=> Contains(workq, "jr")
        /\ Contains(workq', "adv") <=> Contains(workq, "adv")
        /\ JrFirst(workq) => JrFirst(workq')
    BY <2>1, LogEventEffect
  <2>3. JrPending' <=> JrPending
    BY <2>1, <2>2 DEF JrPending
  <2>4. CASE EventLogWrite
    <3>1. adv' = adv /\ adv_timer' = adv_timer /\ link' = link /\ woken' = woken
      BY <2>4, Zenon DEF EventLogWrite, linkVars
    <3> QED BY <2>2, <2>3, <3>1, AdvQuiet
  <2>5. CASE Connect
    <3>1. adv /\ adv' = FALSE /\ adv_timer' = adv_timer /\ woken' = woken
      BY <2>5, Zenon DEF Connect
    <3> QED BY <2>2, <2>3, <3>1, Zenon DEF AdvInv
  <2>6. CASE Disconnected
    <3>1. /\ link /\ link' = FALSE /\ adv' = adv /\ woken' = woken
      BY <2>6, Zenon DEF Disconnected
    <3>2. ~adv
      BY <3>1, Zenon DEF LinkInv
    <3> QED BY <2>2, <2>3, <3>1, <3>2, Zenon DEF AdvInv
  <2> QED BY <1>9, <2>4, <2>5, <2>6
<1>10. CASE JournalAttMtuUpdated
  <2>1. /\ adv' = adv /\ adv_timer' = adv_timer /\ link' = link
        /\ woken' = woken /\ workq' = workq /\ pc' = pc
    BY <1>10 DEF JournalAttMtuUpdated
  <2> QED BY <2>1, AdvQuiet DEF JrPending
<1>11. CASE AdvTimeout
  <2>1. /\ adv_timer /\ adv_timer' = FALSE /\ workq' = Submitted("adv")
        /\ pc' = pc /\ adv' = adv /\ link' = link /\ woken' = woken
    BY <1>11 DEF AdvTimeout
  <2>2. /\ \A x : Contains(workq', x) <=> Contains(workq, x) \/ x = "adv"
        /\ JrFirst(workq) => JrFirst(workq')
    BY <2>1, SubmittedEffect DEF Works
  <2> QED BY <2>1, <2>2 DEF AdvInv
<1>12. CASE AdvRestart
  <2>1. /\ Run("adv", "idle") /\ adv' = ~link /\ link' = link
        /\ adv_timer' = adv_timer
        /\ woken' = (woken /\ (adv \/ link \/ adv_timer \/ Contains(workq, "jr")))
    BY <1>12 DEF AdvRestart
  <2>2. /\ pc' = "idle"
        /\ \A x : Contains(workq', x) <=> Contains(workq, x) /\ x # "adv"
        /\ Contains(workq, "adv")
        /\ JrFirst(workq) => JrFirst(workq')
        /\ JrFirst(workq) => ~Contains(workq, "jr")
    BY <2>1, RunEffect
  <2> SUFFICES ASSUME ~woken'
               PROVE  AdvInv'
    BY DEF AdvInv
  <2>3. ~link /\ ~adv_timer /\ ~Contains(workq, "jr")
    <3>1. CASE woken
      BY <2>1, <3>1
    <3>2. CASE ~woken
      BY <2>2, <3>2 DEF AdvInv
    <3> QED BY <3>1, <3>2
  <2>4. ~JrPending'
    BY <2>2, <2>3 DEF JrPending, JrPcs
  <2>5. ~Contains(workq', "adv") /\ ~Contains(workq', "jr")
    BY <2>2, <2>3
  <2>6. JrFirst(workq')
    BY <2>5 DEF JrFirst, Contains
  <2> QED BY <2>1, <2>3, <2>4, <2>5, <2>6, Zenon DEF AdvInv
<1>13. CASE ButtonDebounce
  <2>1. /\ LogEvent(Tail(workq)) /\ workq # <<>> /\ Head(workq) = "button"
        /\ pc' = "idle" /\ link' = link /\ adv_timer' = adv_timer
        /\ (adv' = adv /\ woken' = woken) \/ woken' = TRUE
    BY <1>13, Zenon DEF ButtonDebounce, Goto
  <2>2. /\ Contains(workq', "jr") <=> Contains(workq, "jr")
        /\ Contains(workq', "adv") <=> Contains(workq, "adv")
        /\ JrFirst(workq) => JrFirst(workq')
    BY <2>1, ButtonEffect
  <2>3. JrPending' => JrPending
    BY <2>1, <2>2 DEF JrPending, JrPcs
  <2>4. CASE adv' = adv /\ woken' = woken
    BY <2>1, <2>2, <2>3, <2>4, AdvQuiet
  <2>5. CASE woken' = TRUE
    BY <2>5, Zenon DEF AdvInv
  <2> QED BY <2>1, <2>4, <2>5
<1> QED BY <1>1, <1>3, <1>4, <1>5, <1>6, <1>7, <1>8, <1>9, <1>10, <1>11,
           <1>12, <1>13 DEF Next, WorkQueue, Flush, JournalWork

\* The answer on its way is to the request that is out.
AskInv ==
  link /\ ~woken =>
    /\ JrPending => awaiting /\ jr_req.conn = conn /\ jr_req.count <= att_mtu_val
    /\ pc \in JrPcs => req = jr_req /\ ~Contains(workq, "jr")
    /\ pc \in {"read", "chunk"} => req.op = "dump"
    /\ pc \in {"clear", "cleared"} => req.op = "clear"
    /\ awaiting => phase \in {"dump", "clear"} /\ jr_req.op = phase
    /\ awaiting /\ phase = "dump" => jr_req.arg = Len(copy)

(***************************************************************************)
(* A step that touches neither the request nor the client keeps AskInv.    *)
(***************************************************************************)
LEMMA AskQuiet ==
  ASSUME AskInv, link' = link, woken' = woken, conn' = conn,
         att_mtu_val' = att_mtu_val, jr_req' = jr_req, req' = req,
         phase' = phase, awaiting' = awaiting, copy' = copy,
         Contains(workq', "jr") <=> Contains(workq, "jr"),
         pc' = pc \/ (pc \notin JrPcs /\ pc' \notin JrPcs)
  PROVE  AskInv'
<1>1. JrPending' <=> JrPending
  BY DEF JrPending
<1>2. CASE pc' = pc
  BY <1>1, <1>2, Zenon DEF AskInv
<1>3. CASE pc \notin JrPcs /\ pc' \notin JrPcs
  <2>1. pc' \notin {"read", "chunk"} /\ pc' \notin {"clear", "cleared"}
    BY <1>3 DEF JrPcs
  <2> QED BY <1>1, <1>3, <2>1, Zenon DEF AskInv
<1> QED BY <1>2, <1>3

(***************************************************************************)
(* No answer is on its way when the client asks anew.                      *)
(***************************************************************************)
LEMMA AskEffect ==
  ASSUME QueueInv, LinkInv, ClientInv, AskInv,
         AskDump \/ AskNext \/ AskClear \/ Retry
  PROVE  AskInv'
<1>1. /\ workq' = Submitted("jr") /\ link /\ awaiting' = TRUE
      /\ UNCHANGED linkVars /\ pc' = pc /\ req' = req
  BY DEF AskDump, AskNext, AskClear, Retry, WriteJournal
<1>2. /\ link' = link /\ woken' = woken /\ conn' = conn
      /\ att_mtu_val' = att_mtu_val
  BY <1>1 DEF linkVars
<1> SUFFICES ASSUME ~woken
             PROVE  AskInv'
  BY <1>2 DEF AskInv
<1>3. PICK op, arg : WriteJournal(op, arg) /\ op = phase' /\ (phase' = "dump" => arg = Len(copy'))
                     /\ phase' \in {"dump", "clear"} /\ ~JrPending
  <2>1. CASE AskDump
    <3>1. ~awaiting
      BY <1>1, <2>1 DEF AskInv, AskDump
    <3>2. ~JrPending
      BY <1>1, <3>1 DEF AskInv
    <3>3. Len(<<>>) = 0
      OBVIOUS
    <3> QED BY <2>1, <3>2, <3>3 DEF AskDump
  <2>2. CASE AskNext
    <3>1. ~JrPending
      BY <1>1, <2>2 DEF AskInv, AskNext
    <3> QED BY <2>2, <3>1 DEF AskNext
  <2>3. CASE AskClear
    <3>1. ~JrPending
      BY <1>1, <2>3 DEF AskInv, AskClear
    <3> QED BY <2>3, <3>1 DEF AskClear
  <2>4. CASE Retry
    <3>1. ~JrPending
      BY <2>4 DEF Retry, JrPending
    <3>2. /\ WriteJournal(jr_req.op, jr_req.arg) /\ awaiting
          /\ phase' = phase /\ copy' = copy
      BY <2>4 DEF Retry
    <3> QED BY <1>1, <3>1, <3>2 DEF AskInv
  <2> QED BY <2>1, <2>2, <2>3, <2>4
<1>4. jr_req' = Request(op, arg)
  BY <1>3 DEF WriteJournal
<1>5. /\ jr_req'.op = op /\ jr_req'.arg = arg /\ jr_req'.conn = conn
      /\ jr_req'.count = att_mtu_val
  BY <1>4 DEF Request
<1>6. att_mtu_val <= att_mtu_val
  BY JournalDumpAssumption DEF LinkInv, JournalDumpAssumption
<1>7. pc' \notin JrPcs
  BY <1>1, <1>3 DEF JrPending
<1>8. pc' \notin {"read", "chunk"} /\ pc' \notin {"clear", "cleared"}
  BY <1>7 DEF JrPcs
<1> QED BY <1>1, <1>2, <1>3, <1>5, <1>6, <1>7, <1>8, Zenon DEF AskInv

(***************************************************************************)
(* The handler works on the request that is out (JrStart), and its answer  *)
(* is to that request.                                                     *)
(***************************************************************************)
LEMMA JrStartEffect ==
  ASSUME QueueInv, AskInv, JrStart
  PROVE  AskInv'
<1> DEFINE step == IF jr_req.op = "clear" THEN "clear" ELSE "read"
<1>1. /\ Run("jr", step) /\ req' = jr_req /\ jr_req' = jr_req
      /\ UNCHANGED linkVars /\ UNCHANGED client
  BY DEF JrStart
<1>2. /\ link' = link /\ woken' = woken /\ conn' = conn
      /\ att_mtu_val' = att_mtu_val
      /\ phase' = phase /\ awaiting' = awaiting /\ copy' = copy
  BY <1>1 DEF linkVars, client
<1>3. /\ Contains(workq, "jr") /\ ~Contains(workq', "jr") /\ pc' = step
  BY <1>1, RunEffect
<1> SUFFICES ASSUME link, ~woken
             PROVE  AskInv'
  BY <1>2, Zenon DEF AskInv
<1>4. /\ awaiting /\ jr_req.conn = conn /\ jr_req.count <= att_mtu_val
      /\ phase \in {"dump", "clear"} /\ jr_req.op = phase
      /\ phase = "dump" => jr_req.arg = Len(copy)
  BY <1>3 DEF AskInv, JrPending
<1>5. CASE jr_req.op = "clear"
  <2>1. pc' = "clear"
    BY <1>3, <1>5
  <2>2. pc' \notin {"read", "chunk"}
    BY <2>1
  <2> QED BY <1>1, <1>2, <1>3, <1>4, <1>5, <2>2, Zenon DEF AskInv
<1>6. CASE jr_req.op # "clear"
  <2>1. pc' = "read" /\ jr_req.op = "dump"
    BY <1>3, <1>4, <1>6
  <2>2. pc' \notin {"clear", "cleared"}
    BY <2>1
  <2> QED BY <1>1, <1>2, <1>3, <1>4, <2>1, <2>2, Zenon DEF AskInv
<1> QED BY <1>5, <1>6

(***************************************************************************)
(* Filling in the answer changes neither the request nor the client.       *)
(***************************************************************************)
LEMMA AnswerEffect ==
  ASSUME QueueInv, AskInv, LinkInv,
         \/ JrRead \/ JrReadSkips \/ JrReadError \/ JrClear \/ JrClearError
  PROVE  AskInv'
<1>1. /\ workq' = workq /\ req' = req /\ jr_req' = jr_req
      /\ UNCHANGED linkVars /\ UNCHANGED client
  BY DEF JrRead, JrReadSkips, JrReadError, JrClear, JrClearError, jrVars
<1>2. /\ link' = link /\ woken' = woken /\ conn' = conn
      /\ att_mtu_val' = att_mtu_val
      /\ phase' = phase /\ awaiting' = awaiting /\ copy' = copy
  BY <1>1 DEF linkVars, client
<1>3. \/ pc = "read" /\ pc' = "chunk"
      \/ pc = "clear" /\ pc' = "cleared"
  BY DEF JrRead, JrReadSkips, JrReadError, JrClear, JrClearError, Goto
<1>4. /\ pc \in JrPcs /\ pc' \in JrPcs
      /\ pc' \in {"read", "chunk"} => pc \in {"read", "chunk"}
      /\ pc' \in {"clear", "cleared"} => pc \in {"clear", "cleared"}
  BY <1>3 DEF JrPcs
<1>5. JrPending /\ JrPending'
  BY <1>4 DEF JrPending
<1> QED BY <1>1, <1>2, <1>4, <1>5, Zenon DEF AskInv

(***************************************************************************)
(* The end of the request handler answers what was asked, or leaves the    *)
(* request with nobody waiting for it.                                     *)
(***************************************************************************)
LEMMA DoneEffect ==
  ASSUME QueueInv, LinkInv, ClientInv, AskInv,
         JrNotSent \/ JrIgnored \/ JrChunkMoved \/ JrChunk \/ JrCleared
  PROVE  AskInv'
<1>1. /\ workq' = workq /\ jr_req' = jr_req /\ UNCHANGED linkVars
      /\ pc \in {"chunk", "cleared"} /\ pc' = "idle"
  BY DEF JrNotSent, JrIgnored, JrChunkMoved, JrChunk, JrCleared, JrDone, Goto
<1>2. /\ link' = link /\ woken' = woken /\ conn' = conn
      /\ att_mtu_val' = att_mtu_val
  BY <1>1 DEF linkVars
<1>3. /\ pc \in JrPcs /\ pc' \notin JrPcs
      /\ pc' \notin {"read", "chunk"} /\ pc' \notin {"clear", "cleared"}
  BY <1>1 DEF JrPcs
<1> SUFFICES ASSUME link, ~woken
             PROVE  AskInv'
  BY <1>2, Zenon DEF AskInv
<1>4. ~JrPending'
  BY <1>1, <1>3 DEF AskInv, JrPending
<1>5. \/ awaiting' = FALSE
      \/ awaiting' = awaiting /\ phase' = phase /\ copy' = copy
  BY DEF JrNotSent, JrIgnored, JrChunkMoved, JrChunk, JrCleared, client
<1> QED BY <1>1, <1>2, <1>3, <1>4, <1>5, Zenon DEF AskInv

(***************************************************************************)
(* Every step keeps the request that is pending and the client that waits  *)
(* in agreement.                                                           *)
(***************************************************************************)
LEMMA AskStep ==
  ASSUME QueueInv, LinkInv, ClientInv, AdvInv, AskInv, [Next]_vars
  PROVE  AskInv'
<1>1. ASSUME UNCHANGED <<linkVars, jrVars, client, workq>>,
             pc' = pc \/ (pc \notin JrPcs /\ pc' \notin JrPcs)
      PROVE  AskInv'
  BY <1>1, AskQuiet DEF linkVars, jrVars, client
<1>2. CASE UNCHANGED vars
  BY <1>1, <1>2 DEF vars
<1>3. CASE FlushGet \/ FlushDone \/ FcbRotate \/ FcbAppend \/ AppendError
  BY <1>1, <1>3 DEF FlushGet, FlushDone, FcbRotate, FcbAppend, AppendError,
       Goto, JrPcs
<1>4. CASE JournalLiveCb \/ JournalLiveCbError
  <2>1. /\ UNCHANGED <<linkVars, jrVars, workq>>
        /\ phase' = phase /\ awaiting' = awaiting /\ copy' = copy
        /\ pc \notin JrPcs /\ pc' \notin JrPcs
    BY <1>4 DEF JournalLiveCb, JournalLiveCbError, Goto, JrPcs, client
  <2> QED BY <2>1, AskQuiet DEF linkVars, jrVars
<1>5. CASE FlushStart
  <2>1. Run("flush", "flush") /\ UNCHANGED <<linkVars, jrVars, client>>
    BY <1>5 DEF FlushStart
  <2>2. /\ Contains(workq', "jr") <=> Contains(workq, "jr")
        /\ pc = "idle" /\ pc' = "flush"
    BY <2>1, RunEffect
  <2>3. pc \notin JrPcs /\ pc' \notin JrPcs
    BY <2>2 DEF JrPcs
  <2> QED BY <2>1, <2>2, <2>3, AskQuiet DEF linkVars, jrVars, client
<1>6. CASE JrStart
  BY <1>6, JrStartEffect
<1>7. CASE JrRead \/ JrReadSkips \/ JrReadError \/ JrClear \/ JrClearError
  BY <1>7, AnswerEffect
<1>8. CASE JrNotSent \/ JrIgnored \/ JrChunkMoved \/ JrChunk \/ JrCleared
  BY <1>8, DoneEffect
<1>9. CASE AskDump \/ AskNext \/ AskClear \/ Retry
  BY <1>9, AskEffect
<1>10. CASE ShellClear \/ Idle
  BY <1>1, <1>10 DEF ShellClear, Idle, vars
<1>11. CASE EventLogWrite \/ Connect \/ Disconnected
  <2>1. LogEvent(workq) /\ pc' = pc
    BY <1>11, Zenon DEF EventLogWrite, Connect, Disconnected
  <2>2. Contains(workq', "jr") <=> Contains(workq, "jr")
    BY <2>1, LogEventEffect
  <2>3. CASE EventLogWrite
    <3>1. UNCHANGED <<linkVars, jrVars, client>>
      BY <2>3, Zenon DEF EventLogWrite
    <3> QED BY <2>1, <2>2, <3>1, AskQuiet DEF linkVars, jrVars, client
  <2>4. CASE Connect
    <3>1. adv /\ woken' = woken /\ UNCHANGED client
      BY <2>4, Zenon DEF Connect
    <3>2. ~link
      BY <3>1, Zenon DEF LinkInv
    <3>3. ~awaiting' /\ ~awaiting
      BY <3>1, <3>2 DEF ClientInv, client
    <3> SUFFICES ASSUME ~woken
                 PROVE  AskInv'
      BY <3>1, Zenon DEF AskInv
    <3>4. ~JrPending' /\ pc' \notin JrPcs
      BY <2>1, <2>2, <3>1 DEF AdvInv, JrPending
    <3>5. /\ pc' \notin {"read", "chunk"} /\ pc' \notin {"clear", "cleared"}
      BY <3>4 DEF JrPcs
    <3> QED BY <3>3, <3>4, <3>5, Zenon DEF AskInv
  <2>5. CASE Disconnected
    <3>1. link' = FALSE
      BY <2>5, Zenon DEF Disconnected
    <3> QED BY <3>1, Zenon DEF AskInv
  <2> QED BY <1>11, <2>3, <2>4, <2>5
<1>12. CASE JournalAttMtuUpdated
  <2>1. /\ att_mtu_val' = MtuCount /\ UNCHANGED <<jrVars, client>>
        /\ link' = link /\ woken' = woken /\ conn' = conn
        /\ workq' = workq /\ pc' = pc
    BY <1>12 DEF JournalAttMtuUpdated
  <2>2. /\ jr_req' = jr_req /\ req' = req
        /\ phase' = phase /\ awaiting' = awaiting /\ copy' = copy
    BY <2>1 DEF jrVars, client
  <2>3. jr_req.count <= att_mtu_val'
    BY <2>1, JournalDumpAssumption DEF LinkInv, Requests, JournalDumpAssumption
  <2>4. JrPending' <=> JrPending
    BY <2>1 DEF JrPending
  <2>5. CASE link /\ ~woken
    <3>1. JrPending' => awaiting' /\ jr_req'.conn = conn' /\ jr_req'.count <= att_mtu_val'
      BY <2>1, <2>2, <2>3, <2>4, <2>5, Zenon DEF AskInv
    <3>2. /\ pc' \in JrPcs => req' = jr_req' /\ ~Contains(workq', "jr")
          /\ pc' \in {"read", "chunk"} => req'.op = "dump"
          /\ pc' \in {"clear", "cleared"} => req'.op = "clear"
      BY <2>1, <2>2, <2>5 DEF AskInv
    <3>3. /\ awaiting' => phase' \in {"dump", "clear"} /\ jr_req'.op = phase'
          /\ awaiting' /\ phase' = "dump" => jr_req'.arg = Len(copy')
      BY <2>1, <2>2, <2>4, <2>5 DEF AskInv
    <3> QED BY <3>1, <3>2, <3>3, Zenon DEF AskInv
  <2>6. CASE ~(link /\ ~woken)
    BY <2>1, <2>6, Zenon DEF AskInv
  <2> QED BY <2>5, <2>6
<1>13. CASE AdvTimeout \/ Press
  <2>1. PICK w \in {"adv", "button"} : workq' = Submitted(w)
    BY <1>13 DEF AdvTimeout, Press
  <2>2. Contains(workq', "jr") <=> Contains(workq, "jr")
    BY <2>1, SubmittedEffect DEF Works
  <2>3. /\ pc' = pc /\ UNCHANGED <<link, conn, att_mtu_val, woken, jrVars, client>>
    BY <1>13 DEF AdvTimeout, Press, linkVars
  <2> QED BY <2>2, <2>3, AskQuiet DEF jrVars, client
<1>14. CASE AdvRestart
  <2>1. /\ Run("adv", "idle") /\ link' = link
        /\ UNCHANGED <<conn, att_mtu_val, jrVars, client>>
        /\ woken' = (woken /\ (adv \/ link \/ adv_timer \/ Contains(workq, "jr")))
    BY <1>14 DEF AdvRestart
  <2>2. /\ Contains(workq', "jr") <=> Contains(workq, "jr")
        /\ pc = "idle" /\ pc' = "idle"
    BY <2>1, RunEffect
  <2>3. CASE woken' = woken
    BY <2>1, <2>2, <2>3, AskQuiet DEF jrVars, client
  <2>4. CASE ~link'
    BY <2>4, Zenon DEF AskInv
  <2>5. CASE link' /\ woken' # woken
    BY <2>1, <2>5 DEF LinkInv
  <2> QED BY <2>3, <2>4, <2>5
<1>15. CASE ButtonDebounce
  <2>1. /\ LogEvent(Tail(workq)) /\ workq # <<>> /\ Head(workq) = "button"
        /\ pc = "idle" /\ pc' = "idle"
        /\ UNCHANGED <<link, conn, att_mtu_val, jrVars, client>>
        /\ woken' = woken \/ woken' = TRUE
    BY <1>15, Zenon DEF ButtonDebounce, Goto
  <2>2. Contains(workq', "jr") <=> Contains(workq, "jr")
    BY <2>1, ButtonEffect
  <2>3. CASE woken' = woken
    BY <2>1, <2>2, <2>3, AskQuiet DEF jrVars, client
  <2>4. CASE woken' = TRUE
    BY <2>4, Zenon DEF AskInv
  <2> QED BY <2>1, <2>3, <2>4
<1> QED BY <1>2, <1>3, <1>4, <1>5, <1>6, <1>7, <1>8, <1>9, <1>10, <1>11,
           <1>12, <1>13, <1>14, <1>15 DEF Next, WorkQueue, Flush, JournalWork

-----------------------------------------------------------------------------
(* The client's copy.                                                      *)

CopyRun == ~disturbed /\ ~misread => RunFrom(Recorded, copy, base.gone)

CopyTotal ==
  phase = "dump" /\ copy # <<>> /\ ~misread => last_total = base.held

CopyWhole == phase = "done" /\ ~misread => Len(copy) >= base.held

\* What was recorded after the last chunk was read.
TailHasRest ==
  phase = "done" /\ ~missed =>
    \A k \in Recorded : Rank(k) >= base.gone + base.held => k \in live \cup InTheAir

CopyInv ==
  /\ base.gone \in Nat /\ base.held \in Nat
  /\ base.gone <= Cardinality(forgotten)
  /\ link /\ ~woken => CopyRun /\ CopyTotal /\ CopyWhole /\ TailHasRest

(***************************************************************************)
(* Two runs, the second from where the first ends, are one run.            *)
(***************************************************************************)
LEMMA RunConcat ==
  ASSUME NEW R, NEW c \in Seq(R), NEW s \in Seq(R), NEW g \in Nat,
         RunFrom(R, c, g), RunFrom(R, s, g + Len(c))
  PROVE  RunFrom(R, c \o s, g)
<1>1. /\ Len(c) \in Nat /\ Len(s) \in Nat /\ Len(c \o s) = Len(c) + Len(s)
      /\ \A i \in 1..Len(c) : (c \o s)[i] = c[i]
      /\ \A i \in 1..Len(s) : (c \o s)[Len(c) + i] = s[i]
  OBVIOUS
<1> DEFINE q == c \o s
<1> HIDE DEF q
<1> SUFFICES ASSUME NEW i \in 1..Len(q)
             PROVE  q[i] \in R /\ Below(R, q[i]) = g + i - 1
  BY DEF RunFrom, q
<1>2. CASE i \in 1..Len(c)
  <2>1. q[i] = c[i]
    BY <1>1, <1>2 DEF q
  <2> QED BY <1>2, <2>1 DEF RunFrom
<1>3. CASE i \notin 1..Len(c)
  <2>1. PICK j \in 1..Len(s) : i = Len(c) + j
    <3>1. i - Len(c) \in 1..Len(s) /\ i = Len(c) + (i - Len(c))
      BY <1>1, <1>3 DEF q
    <3> QED BY <3>1
  <2>2. q[i] = s[j]
    BY <1>1, <2>1 DEF q
  <2>3. s[j] \in R /\ Below(R, s[j]) = g + Len(c) + j - 1
    BY DEF RunFrom
  <2> QED BY <1>1, <2>1, <2>2, <2>3
<1> QED BY <1>2, <1>3

(***************************************************************************)
(* The journal may grow and give up records under the copy: the ranks      *)
(* stay, and the tail brings what is new.                                  *)
(***************************************************************************)
LEMMA CopyQuiet ==
  ASSUME JournalInv, CopyInv, Grows,
         link' = link, woken' = woken, copy' = copy, base' = base,
         disturbed' = disturbed, misread' = misread \/ misread' = TRUE,
         last_total' = last_total,
         phase' = phase \/ phase' \notin {"dump", "done"},
         missed' = missed \/ missed' = TRUE,
         missed' \/ live \cup InTheAir \subseteq live' \cup InTheAir'
  PROVE  CopyInv'
<1>1. base'.gone \in Nat /\ base'.held \in Nat /\ base'.gone <= Cardinality(forgotten')
  <2>1. /\ base.gone \in Nat /\ base.held \in Nat /\ base.gone <= Cardinality(forgotten)
        /\ Cardinality(forgotten) \in Nat
    BY JournalSets DEF CopyInv
  <2>2. Cardinality(forgotten') \in Nat /\ Cardinality(forgotten) <= Cardinality(forgotten')
    BY DEF Grows
  <2> QED BY <2>1, <2>2
<1>2. ASSUME link, ~woken
      PROVE  CopyRun' /\ CopyTotal' /\ CopyWhole' /\ TailHasRest'
  <2>1. CopyRun /\ CopyTotal /\ CopyWhole /\ TailHasRest
    BY <1>2 DEF CopyInv
  <2>2. CopyRun'
    <3> SUFFICES ASSUME ~disturbed, ~misread
                 PROVE  RunFrom(Recorded', copy, base.gone)
      BY DEF CopyRun
    <3>1. RunFrom(Recorded, copy, base.gone)
      BY <2>1 DEF CopyRun
    <3>2. Recorded \subseteq Recorded' /\ \A k \in Recorded : Below(Recorded', k) = Below(Recorded, k)
      BY DEF Grows, Rank
    <3> QED BY <3>1, <3>2, RunKept
  <2>3. CopyTotal'
    BY <2>1 DEF CopyTotal
  <2>4. CopyWhole'
    BY <2>1 DEF CopyWhole
  <2>5. TailHasRest'
    <3> SUFFICES ASSUME phase' = "done", ~missed',
                        NEW k \in Recorded',
                        Below(Recorded', k) >= base'.gone + base'.held
                 PROVE  k \in live' \cup InTheAir'
      BY DEF TailHasRest, Rank
    <3>1. CASE k \in Recorded
      <4>1. Rank(k) >= base.gone + base.held
        BY <3>1 DEF Grows
      <4>2. phase = "done" /\ ~missed
        OBVIOUS
      <4> QED BY <2>1, <3>1, <4>1, <4>2 DEF TailHasRest
    <3>2. CASE k \notin Recorded
      BY <3>2 DEF Grows, InTheAir
    <3> QED BY <3>1, <3>2
  <2> QED BY <2>2, <2>3, <2>4, <2>5
<1> QED BY <1>1, <1>2, Zenon DEF CopyInv

(***************************************************************************)
(* A step after which the client holds nothing keeps CopyInv.              *)
(***************************************************************************)
LEMMA CopyEmpty ==
  ASSUME JournalInv, CopyInv, Grows, base' = base,
         (link' /\ ~woken') => copy' = <<>> /\ phase' # "done"
  PROVE  CopyInv'
<1>1. base'.gone \in Nat /\ base'.held \in Nat /\ base'.gone <= Cardinality(forgotten')
  <2>1. /\ base.gone \in Nat /\ base.held \in Nat /\ base.gone <= Cardinality(forgotten)
        /\ Cardinality(forgotten) \in Nat
    BY JournalSets DEF CopyInv
  <2>2. Cardinality(forgotten') \in Nat /\ Cardinality(forgotten) <= Cardinality(forgotten')
    BY DEF Grows
  <2> QED BY <2>1, <2>2
<1>2. ASSUME link', ~woken'
      PROVE  CopyRun' /\ CopyTotal' /\ CopyWhole' /\ TailHasRest'
  <2>1. copy' = <<>> /\ phase' # "done"
    BY <1>2
  <2>2. RunFrom(Recorded', <<>>, base'.gone)
    BY DEF RunFrom
  <2> QED BY <2>1, <2>2 DEF CopyRun, CopyTotal, CopyWhole, TailHasRest
<1> QED BY <1>1, <1>2, Zenon DEF CopyInv

(***************************************************************************)
(* A chunk that the client takes continues its copy, or tells it that the  *)
(* indices have moved (gatt_badge.c, lines 388-389).                       *)
(***************************************************************************)
LEMMA ChunkEffect ==
  ASSUME JournalInv, LinkInv, ClientInv, ChunkInv, AskInv, CopyInv, JrChunk
  PROVE  CopyInv'
<1>1. /\ pc = "chunk" /\ pc' = "idle" /\ link /\ phase = "dump" /\ awaiting
      /\ jr_tx.total >= last_total
      /\ copy' = copy \o jr_tx.recs
      /\ last_total' = jr_tx.total
      /\ phase' = IF jr_tx.more THEN "dump" ELSE "done"
      /\ base' = jr_tx.counts
      /\ misread' = (misread \/ ~jr_tx.whole)
      /\ link' = link /\ woken' = woken
      /\ Recorded' = Recorded /\ forgotten' = forgotten
  BY DEF JrChunk, JrDone, Goto, Sendable, linkVars, journal, Recorded
<1>2. ~disturbed' => /\ ~disturbed
                     /\ copy = <<>> \/ base.gone = base'.gone \/ ~(base.held <= base'.held)
  BY Zenon DEF JrChunk
<1>3. ChunkFits /\ (~misread' => ~misread /\ WholeChunk)
  BY <1>1 DEF ChunkInv
<1> DEFINE c == jr_tx.counts
<1>4. /\ c.gone \in Nat /\ c.held \in Nat /\ c.gone <= Cardinality(forgotten)
      /\ c.gone + c.held = Cardinality(Recorded)
      /\ jr_tx.recs \in Seq(Recorded)
  BY <1>3 DEF ChunkFits
<1>5. copy \in Seq(Recorded) /\ last_total \in Nat
  BY DEF ClientInv
<1>6. base.gone \in Nat /\ base.held \in Nat
  BY DEF CopyInv
<1>7. ASSUME ~woken
      PROVE  CopyRun' /\ CopyTotal' /\ CopyWhole' /\ TailHasRest'
  <2>1. req.arg = Len(copy)
    BY <1>1, <1>7 DEF AskInv, JrPcs
  <2>2. /\ CopyRun
        /\ copy # <<>> /\ ~misread => last_total = base.held
    BY <1>1, <1>7 DEF CopyInv, CopyTotal
  <2>3. Len(copy) \in Nat /\ Len(jr_tx.recs) \in Nat /\ Len(copy') = Len(copy) + Len(jr_tx.recs)
    BY <1>1, <1>4, <1>5
  <2>4. CopyRun'
    <3> SUFFICES ASSUME ~disturbed', ~misread'
                 PROVE  RunFrom(Recorded, copy \o jr_tx.recs, c.gone)
      BY <1>1 DEF CopyRun
    <3>1. RunFrom(Recorded, copy, base.gone)
      BY <1>2, <1>3, <2>2 DEF CopyRun
    <3>2. RunFrom(Recorded, jr_tx.recs, c.gone + Len(copy)) /\ jr_tx.total = c.held
      BY <1>3, <2>1 DEF WholeChunk, GoodAnswer
    <3>3. CASE copy = <<>>
      <4>1. RunFrom(Recorded, copy, c.gone)
        BY <3>3 DEF RunFrom
      <4> QED BY <1>4, <1>5, <3>2, <4>1, RunConcat
    <3>4. CASE base.gone = c.gone
      BY <1>4, <1>5, <3>1, <3>4, <3>2, RunConcat
    <3>5. CASE copy # <<>> /\ ~(base.held <= c.held)
      BY <1>1, <1>3, <1>4, <1>6, <2>2, <3>5, <3>2
    <3> QED BY <1>1, <1>2, <3>3, <3>4, <3>5
  <2>5. CopyTotal'
    <3> SUFFICES ASSUME ~misread'
                 PROVE  last_total' = base'.held
      BY DEF CopyTotal
    <3> QED BY <1>1, <1>3 DEF WholeChunk, GoodAnswer
  <2>6. CopyWhole'
    <3> SUFFICES ASSUME phase' = "done", ~misread'
                 PROVE  Len(copy') >= base'.held
      BY <1>1 DEF CopyWhole
    <3>1. ~jr_tx.more /\ GoodAnswer
      BY <1>1, <1>3 DEF WholeChunk
    <3>2. ~(Len(copy) + Len(jr_tx.recs) < c.held)
      BY <2>1, <3>1 DEF GoodAnswer
    <3> QED BY <1>1, <1>4, <2>3, <3>2
  <2>7. TailHasRest'
    <3> SUFFICES ASSUME NEW k \in Recorded, Below(Recorded, k) >= c.gone + c.held
                 PROVE  FALSE
      BY <1>1 DEF TailHasRest, Rank
    <3>1. Recorded \in SUBSET Nat /\ IsFiniteSet(Recorded) /\ k \in Nat
      BY JournalSets
    <3>2. Below(Recorded, k) \in Nat /\ Below(Recorded, k) < Cardinality(Recorded)
      BY <3>1, BelowBounds
    <3> QED BY <1>4, <3>2
  <2> QED BY <2>4, <2>5, <2>6, <2>7
<1>8. base'.gone \in Nat /\ base'.held \in Nat /\ base'.gone <= Cardinality(forgotten')
  BY <1>1, <1>4
<1> QED BY <1>1, <1>7, <1>8, Zenon DEF CopyInv

(***************************************************************************)
(* Every step keeps the client's copy a run of consecutive records.        *)
(***************************************************************************)
LEMMA CopyStep ==
  ASSUME JournalInv, QueueInv, LinkInv, ClientInv, ChunkInv, AskInv, CopyInv,
         [Next]_vars, Grows
  PROVE  CopyInv'
<1>1. ASSUME link' = link, woken' = woken, UNCHANGED <<client, base, disturbed, missed>>,
             misread' = misread, pc # "live" \/ pc' = pc, taken' = taken \/ pc # "live"
      PROVE  CopyInv'
  <2>1. live \cup InTheAir \subseteq live' \cup InTheAir'
    BY <1>1 DEF InTheAir, client
  <2> QED BY <1>1, <2>1, CopyQuiet DEF client
<1>2. CASE UNCHANGED vars
  BY <1>1, <1>2 DEF vars, linkVars, ghosts, queueVars
<1>3. CASE FlushStart \/ FlushGet \/ FlushDone \/ FcbRotate \/ FcbAppend \/ AppendError
  BY <1>1, <1>3 DEF FlushStart, FlushGet, FlushDone, FcbRotate, FcbAppend,
       AppendError, Run, Goto, linkVars, ghosts
<1>4. CASE JournalLiveCb
  <2>1. /\ link' = link /\ woken' = woken /\ copy' = copy
        /\ base' = base /\ disturbed' = disturbed /\ misread' = misread
        /\ last_total' = last_total /\ phase' = phase /\ missed' = missed
        /\ live' = IF link THEN live \cup {taken} ELSE live
    BY <1>4 DEF JournalLiveCb, linkVars, ghosts
  <2>2. CASE link
    <3>1. live \cup InTheAir \subseteq live'
      BY <2>1, <2>2 DEF InTheAir
    <3> QED BY <2>1, <3>1, CopyQuiet
  <2>3. CASE ~link
    BY <2>1, <2>3, CopyEmpty
  <2> QED BY <2>2, <2>3
<1>5. CASE JournalLiveCbError
  BY <1>5, CopyQuiet DEF JournalLiveCbError, linkVars, client
<1>6. CASE \/ JrStart \/ JrRead \/ JrReadSkips \/ JrReadError \/ JrClear
           \/ JrClearError \/ JrNotSent \/ JrIgnored
  BY <1>1, <1>6 DEF JrStart, JrRead, JrReadSkips, JrReadError, JrClear,
       JrClearError, JrNotSent, JrIgnored, JrDone, Run, Goto, linkVars, ghosts, queueVars
<1>7. CASE JrChunkMoved
  BY <1>7, CopyEmpty, Zenon DEF JrChunkMoved, ClientInv
<1>8. CASE JrChunk
  BY <1>8, ChunkEffect
<1>9. CASE JrCleared
  <2>1. /\ link' = link /\ woken' = woken /\ copy' = copy
        /\ base' = base /\ disturbed' = disturbed /\ misread' = misread
        /\ last_total' = last_total /\ phase' = "cleared" /\ missed' = missed
        /\ live' = live /\ pc = "cleared"
    BY <1>9 DEF JrCleared, linkVars, JrDone, Goto, ghosts
  <2>2. live \cup InTheAir \subseteq live' \cup InTheAir'
    BY <2>1 DEF InTheAir
  <2> QED BY <2>1, <2>2, CopyQuiet
<1>10. CASE AskDump
  BY <1>10, CopyEmpty DEF AskDump
<1>11. CASE AskNext \/ AskClear \/ Retry
  <2>1. /\ link' = link /\ woken' = woken /\ copy' = copy
        /\ base' = base /\ disturbed' = disturbed /\ misread' = misread
        /\ last_total' = last_total /\ missed' = missed
        /\ phase' \in {phase, "clear"}
        /\ live' = live /\ pc' = pc /\ taken' = taken
    BY <1>11 DEF AskNext, AskClear, Retry, WriteJournal, linkVars, ghosts, queueVars
  <2>2. live \cup InTheAir \subseteq live' \cup InTheAir'
    BY <2>1 DEF InTheAir
  <2> QED BY <2>1, <2>2, CopyQuiet
<1>12. CASE Connect
  <2>1. adv /\ base' = base /\ UNCHANGED client
    BY <1>12, Zenon DEF Connect, ghosts
  <2>2. ~link
    BY <2>1, Zenon DEF LinkInv
  <2>3. copy' = <<>> /\ phase' = "idle"
    BY <2>1, <2>2 DEF ClientInv, client
  <2> QED BY <2>1, <2>3, CopyEmpty
<1>13. CASE Disconnected
  <2>1. link' = FALSE /\ base' = base
    BY <1>13, Zenon DEF Disconnected, ghosts
  <2> QED BY <2>1, CopyEmpty
<1>14. CASE AdvRestart
  <2>1. /\ link' = link /\ base' = base /\ UNCHANGED <<client, ghosts, taken>>
        /\ pc' = pc
        /\ woken' = (woken /\ (adv \/ link \/ adv_timer \/ Contains(workq, "jr")))
    BY <1>14 DEF AdvRestart, Run, Goto, ghosts, queueVars
  <2>2. CASE link
    <3>1. woken' = woken
      BY <2>1, <2>2 DEF LinkInv
    <3> QED BY <1>1, <2>1, <3>1 DEF ghosts
  <2>3. CASE ~link
    BY <2>1, <2>3, CopyEmpty
  <2> QED BY <2>2, <2>3
<1>15. CASE ButtonDebounce
  <2>1. /\ link' = link /\ UNCHANGED <<client, ghosts, taken>> /\ pc' = pc
        /\ woken' = woken \/ woken' = TRUE
    BY <1>15, Zenon DEF ButtonDebounce, Goto
  <2>2. CASE woken' = woken
    BY <1>1, <2>1, <2>2 DEF ghosts
  <2>3. CASE woken' = TRUE
    BY <2>1, <2>3, CopyEmpty DEF ghosts
  <2> QED BY <2>1, <2>2, <2>3
<1>16. CASE EventLogWrite
  <2>1. UNCHANGED <<linkVars, client, ghosts, taken, pc>>
    BY <1>16, Zenon DEF EventLogWrite
  <2> QED BY <1>1, <2>1 DEF linkVars, ghosts
<1>17. CASE ShellClear \/ JournalAttMtuUpdated \/ AdvTimeout \/ Press \/ Idle
  BY <1>1, <1>17 DEF ShellClear, JournalAttMtuUpdated, AdvTimeout, Press, Idle,
       vars, linkVars, ghosts, queueVars
<1> QED BY <1>2, <1>3, <1>4, <1>5, <1>6, <1>7, <1>8, <1>9, <1>10,
           <1>11, <1>12, <1>13, <1>14, <1>15, <1>16, <1>17
           DEF Next, WorkQueue, Flush, JournalWork

-----------------------------------------------------------------------------
(* The inductive invariant, and what follows from it.                      *)

IInv ==
  /\ JournalInv /\ QueueInv /\ LinkInv /\ ClientInv
  /\ ChunkInv /\ AdvInv /\ AskInv /\ CopyInv

(***************************************************************************)
(* The badge boots with the records that event_log_init() has found, it    *)
(* advertises, and nobody has asked for anything.                          *)
(***************************************************************************)
LEMMA Initially ==
  ASSUME Init
  PROVE  IInv
<1>1. /\ taken \in Recovered /\ accepted = taken /\ kept = 1..taken
      /\ slots = kept /\ forgotten = {} /\ workq = <<>> /\ pc = "idle"
      /\ adv = TRUE /\ adv_timer = FALSE /\ link = FALSE /\ conn = 0
      /\ att_mtu_val = 1 /\ jr_req = NoRequest /\ req = NoRequest
      /\ phase = "idle" /\ awaiting = FALSE /\ copy = <<>> /\ last_total = 0
      /\ live = {} /\ base = NoCounts /\ disturbed = FALSE /\ missed = FALSE
      /\ misread = FALSE /\ woken = FALSE
  BY Zenon DEF Init
<1>2. taken \in Nat /\ taken <= NumSectors * SlotsPerSector
  BY <1>1, JournalDumpAssumption DEF JournalDumpAssumption
<1>3. IsFiniteSet(1..taken) /\ Cardinality(1..taken) = taken
  BY <1>2, FS_Interval
<1>4. JournalInv
  BY <1>1, <1>2, <1>3 DEF JournalInv
<1>5. QueueInv
  BY <1>1 DEF QueueInv, Once
<1>6. LinkInv
  <2>1. NoRequest \in Requests /\ 1 \in 1..MtuCount
    BY JournalDumpAssumption DEF Requests, NoRequest, JournalDumpAssumption
  <2>2. conn \in Nat
    BY <1>1
  <2> QED BY <1>1, <2>1, <2>2, Zenon DEF LinkInv
<1>7. ClientInv
  <2>1. /\ <<>> \in Seq(Recorded) /\ last_total \in Nat
        /\ phase \in {"idle", "dump", "done", "clear", "cleared"}
    BY <1>1
  <2> QED BY <1>1, <2>1, Zenon DEF ClientInv
<1>8. ChunkInv
  BY <1>1 DEF ChunkInv
<1>9. AdvInv
  BY <1>1 DEF AdvInv, JrPending, JrPcs, Contains, JrFirst
<1>10. AskInv
  BY <1>1 DEF AskInv
<1>11. CopyInv
  <2>1. Cardinality(forgotten) = 0
    BY <1>1, FS_EmptySet
  <2> QED BY <1>1, <2>1 DEF CopyInv, NoCounts
<1> QED BY <1>4, <1>5, <1>6, <1>7, <1>8, <1>9, <1>10, <1>11 DEF IInv

(***************************************************************************)
(* Every step of the flush, the request handler, the client, the           *)
(* connection and the shell preserves it.                                  *)
(***************************************************************************)
LEMMA Inductive ==
  ASSUME IInv, [Next]_vars
  PROVE  IInv'
<1>1. JournalInv /\ QueueInv /\ LinkInv /\ ClientInv /\ ChunkInv /\ AdvInv
        /\ AskInv /\ CopyInv
  BY DEF IInv
<1>2. JournalInv' /\ Grows
  BY <1>1, JournalStep
<1>3. QueueInv' /\ LinkInv' /\ AdvInv' /\ AskInv'
  BY <1>1, QueueStep, LinkStep, AdvStep, AskStep
<1>4. ClientInv' /\ ChunkInv' /\ CopyInv'
  BY <1>1, <1>2, ClientStep, ChunkStep, CopyStep
<1> QED BY <1>2, <1>3, <1>4 DEF IInv

(***************************************************************************)
(* The inductive invariant holds in every reachable state.                 *)
(***************************************************************************)
THEOREM Invariance == Spec => []IInv
<1>1. Init => IInv
  BY Initially
<1>2. IInv /\ [Next]_vars => IInv'
  BY Inductive
<1> QED BY <1>1, <1>2, PTL DEF Spec

(***************************************************************************)
(* Type correctness: the journal, the workqueue and what the client has    *)
(* are what they should be, and the ring never uses more slots than there  *)
(* are.                                                                    *)
(***************************************************************************)
THEOREM TypeCorrect == Spec => []TypeOK
<1>1. ASSUME IInv
      PROVE  TypeOK
  <2>1. JournalInv /\ QueueInv /\ LinkInv /\ ClientInv /\ ChunkInv
    BY <1>1 DEF IInv
  <2>2. /\ kept \subseteq slots
        /\ slots \subseteq 1..taken
        /\ forgotten \subseteq (1..taken) \ kept
        /\ Cardinality(slots) <= NumSectors * SlotsPerSector
        /\ taken <= accepted
    <3>1. \A f \in forgotten : f \notin kept
      BY <2>1, JournalSets DEF JournalInv
    <3> QED BY <2>1, <3>1 DEF JournalInv
  <2>3. Range(workq) \subseteq Works
    BY <2>1 DEF QueueInv, Range
  <2>4. Len(workq) = Cardinality(Range(workq))
    <3> DEFINE n == Len(workq)
    <3>1. /\ n \in Nat /\ workq \in [1..n -> Range(workq)]
      BY <2>1 DEF QueueInv, Range
    <3>2. workq \in Bijection(1..n, Range(workq))
      BY <2>1, <3>1 DEF QueueInv, Once, Range, Bijection, Injection, Surjection,
                        IsInjective
    <3>3. ExistsBijection(1..n, Range(workq))
      BY <3>2 DEF ExistsBijection
    <3> QED BY <3>1, <3>3, FS_CountingElements
  <2>5. pc \in {"idle", "flush", "append", "live"} \cup JrPcs
    BY <2>1 DEF QueueInv
  <2>6. {adv, adv_timer, link, awaiting, disturbed, missed, misread, woken}
          \subseteq BOOLEAN
    BY <2>1, Zenon DEF LinkInv, ClientInv
  <2>7. ~(adv /\ link)
    BY <2>1 DEF LinkInv
  <2>8. {jr_req.count, req.count, att_mtu_val} \subseteq 0..MtuCount
    BY <2>1, JournalDumpAssumption DEF LinkInv, Requests, JournalDumpAssumption
  <2>9. pc = "chunk" => Len(jr_tx.recs) <= req.count
    BY <2>1 DEF ChunkInv, ChunkFits
  <2>10. phase \in {"idle", "dump", "done", "clear", "cleared"}
    BY <2>1 DEF ClientInv
  <2>11. Range(copy) \cup live \subseteq Recorded /\ last_total \in Nat
    BY <2>1 DEF ClientInv, Range
  <2> QED BY <2>2, <2>3, <2>4, <2>5, <2>6, <2>7, <2>8, <2>9, <2>10, <2>11, Zenon
             DEF TypeOK
<1> QED BY <1>1, Invariance, PTL

(***************************************************************************)
(* An answer goes to the client that asked, for any number of connections, *)
(* requests, lost answers and faults (write_journal(), journal_notify()),  *)
(* while no press has started advertising beside adv_restart_work.         *)
(***************************************************************************)
THEOREM AnswerGoesToAskerSafe == Spec => []AnswerGoesToAsker
<1>1. ASSUME IInv
      PROVE  AnswerGoesToAsker
  <2>1. LinkInv /\ ChunkInv /\ AskInv
    BY <1>1 DEF IInv
  <2> SUFFICES ASSUME link, ~woken
               PROVE  /\ Contains(workq, "jr") => jr_req.conn = conn
                      /\ pc \in JrPcs => req.conn = conn
                      /\ pc = "chunk" => Len(jr_tx.recs) <= att_mtu_val
    BY Zenon DEF AnswerGoesToAsker
  <2>2. Contains(workq, "jr") => jr_req.conn = conn
    BY <2>1 DEF AskInv, JrPending
  <2>3. pc \in JrPcs => req = jr_req /\ jr_req.conn = conn /\ jr_req.count <= att_mtu_val
    BY <2>1 DEF AskInv, JrPending
  <2>4. ASSUME pc = "chunk"
        PROVE  Len(jr_tx.recs) <= att_mtu_val
    <3>1. Len(jr_tx.recs) <= req.count /\ Len(jr_tx.recs) \in Nat
      BY <2>1, <2>4 DEF ChunkInv, ChunkFits
    <3>2. req.count <= att_mtu_val
      BY <2>3, <2>4 DEF JrPcs
    <3>3. req.count \in Nat /\ att_mtu_val \in Nat
      BY <2>1, JournalDumpAssumption DEF LinkInv, Requests, JournalDumpAssumption
    <3> QED BY <3>1, <3>2, <3>3
  <2> QED BY <2>2, <2>3, <2>4
<1> QED BY <1>1, Invariance, PTL

(***************************************************************************)
(* What a client has put together is a run of the journal, whatever is     *)
(* recorded, rotated away or cleared between its chunks.                   *)
(***************************************************************************)
LEMMA RunHasNoGap ==
  ASSUME NEW R \in SUBSET Nat, IsFiniteSet(R), NEW seq \in Seq(R), NEW g \in Nat,
         RunFrom(R, seq, g), NEW i \in 1..(Len(seq) - 1)
  PROVE  /\ seq[i] < seq[i + 1]
         /\ \A r \in R : ~(seq[i] < r /\ r < seq[i + 1])
<1>1. i \in 1..Len(seq) /\ i + 1 \in 1..Len(seq)
  OBVIOUS
<1>2. /\ seq[i] \in R /\ seq[i + 1] \in R
      /\ Below(R, seq[i]) = g + i - 1 /\ Below(R, seq[i + 1]) = g + (i + 1) - 1
  BY <1>1 DEF RunFrom
<1>3. PICK a, b \in R : a = seq[i] /\ b = seq[i + 1]
  BY <1>2
<1>4. Below(R, b) = Below(R, a) + 1
  BY <1>1, <1>2, <1>3
<1>5. a < b /\ \A r \in R : ~(a < r /\ r < b)
  BY <1>4, BelowNext
<1> QED BY <1>3, <1>5

(***************************************************************************)
(* A copy the client made of the journal over BLE is a run of consecutive  *)
(* records, unless the indices moved between two chunks without a smaller  *)
(* total to tell it, a record could not be read for a chunk it took, or a  *)
(* press started advertising.                                              *)
(***************************************************************************)
THEOREM CopyIsRunSafe == Spec => []CopyIsRun
<1>1. ASSUME IInv
      PROVE  CopyIsRun
  <2>1. JournalInv /\ ClientInv /\ CopyInv
    BY <1>1 DEF IInv
  <2>2. Recorded \in SUBSET Nat /\ IsFiniteSet(Recorded)
    BY <2>1, JournalSets
  <2> SUFFICES ASSUME ~disturbed, ~misread, ~woken, NEW i \in 1..(Len(copy) - 1)
               PROVE  /\ copy[i] < copy[i + 1]
                      /\ \A r \in Recorded : ~(copy[i] < r /\ r < copy[i + 1])
    BY Zenon DEF CopyIsRun
  <2>3. copy \in Seq(Recorded) /\ base.gone \in Nat
    BY <2>1 DEF ClientInv, CopyInv
  <2>4. link
    <3>1. copy # <<>>
      OBVIOUS
    <3> QED BY <2>1, <3>1, Zenon DEF ClientInv
  <2>5. RunFrom(Recorded, copy, base.gone)
    BY <2>1, <2>4, Zenon DEF CopyInv, CopyRun
  <2> QED BY <2>2, <2>3, <2>5, RunHasNoGap
<1> QED BY <1>1, Invariance, PTL

(***************************************************************************)
(* A finished dump and the live tail have every record the journal holds,  *)
(* unless a notification of the tail was lost, a record could not be read  *)
(* for a chunk, the indices moved unnoticed, or a press started            *)
(* advertising.                                                            *)
(***************************************************************************)
THEOREM NothingMissedSafe == Spec => []NothingMissed
<1>1. ASSUME IInv
      PROVE  NothingMissed
  <2>1. JournalInv /\ ClientInv /\ CopyInv
    BY <1>1 DEF IInv
  <2>2. /\ Recorded \in SUBSET Nat /\ IsFiniteSet(Recorded)
        /\ Cardinality(forgotten) \in Nat
    BY <2>1, JournalSets
  <2> SUFFICES ASSUME phase = "done", ~disturbed, ~missed, ~misread, ~woken,
                      NEW k \in kept, k \notin InTheAir
               PROVE  k \in Range(copy) \cup live
    BY Zenon DEF NothingMissed
  <2>3. link
    BY <2>1 DEF ClientInv
  <2>4. CopyRun /\ CopyWhole /\ TailHasRest
    BY <2>1, <2>3, Zenon DEF CopyInv
  <2>5. /\ k \in Recorded
        /\ Rank(k) = Cardinality(forgotten) + Index(kept, k)
        /\ Index(kept, k) \in Nat
    BY <2>1, RankOfIndex DEF Recorded
  <2>6. /\ base.gone \in Nat /\ base.held \in Nat
        /\ base.gone <= Cardinality(forgotten)
    BY <2>1 DEF CopyInv
  <2>7. CASE Rank(k) >= base.gone + base.held
    BY <2>4, <2>5, <2>7 DEF TailHasRest
  <2>8. CASE ~(Rank(k) >= base.gone + base.held)
    <3>1. Len(copy) \in Nat /\ Len(copy) >= base.held
      BY <2>1, <2>4 DEF CopyWhole, ClientInv
    <3>2. PICK i \in 1..Len(copy) : Rank(k) = base.gone + i - 1
      <4>1. Rank(k) - base.gone + 1 \in 1..Len(copy)
        BY <2>2, <2>5, <2>6, <2>8, <3>1
      <4>2. Rank(k) = base.gone + (Rank(k) - base.gone + 1) - 1
        BY <2>2, <2>5, <2>6
      <4> QED BY <4>1, <4>2
    <3>3. copy[i] \in Recorded /\ Below(Recorded, copy[i]) = base.gone + i - 1
      BY <2>4 DEF CopyRun, RunFrom
    <3>4. PICK a \in Recorded : a = copy[i]
      BY <3>3
    <3>5. a = k
      BY <2>2, <2>5, <3>2, <3>3, <3>4, BelowInjective DEF Rank
    <3>6. copy[i] \in Range(copy)
      BY <2>1 DEF ClientInv, Range
    <3> QED BY <3>4, <3>5, <3>6
  <2> QED BY <2>7, <2>8
<1> QED BY <1>1, Invariance, PTL

-----------------------------------------------------------------------------
(* The journal the dump is read from is taken from BoundedJournal, whose   *)
(* actions have guards of their own.  The code has no such checks.         *)

\* The event a flush has got is not in the ring yet.
Fresh == pc = "append" => taken \notin slots \cup forgotten

JournalAllows ==
  /\ pc = "append" => \A k \in Recorded : k < taken
  /\ \A n \in Nat : \A old \in kept \cap OldestSectors(n) :
       \A k \in kept \ OldestSectors(n) : old < k
  /\ RingFull => OldestSectors(1) # {}

(***************************************************************************)
(* Only journal_flush_handler() gets an event from evt_q, and it appends   *)
(* it, or gives up, before it gets the next.                               *)
(***************************************************************************)
LEMMA FreshStep ==
  ASSUME JournalInv, QueueInv, Fresh, [Next]_vars
  PROVE  Fresh'
<1> SUFFICES ASSUME pc' = "append"
             PROVE  taken' \notin slots' \cup forgotten'
  BY DEF Fresh
<1>1. CASE UNCHANGED vars
  BY <1>1 DEF Fresh, vars, journal, queueVars
<1>2. CASE FlushGet
  <2>1. /\ slots \subseteq 1..taken /\ forgotten \subseteq 1..taken
        /\ taken \in Nat
    BY DEF JournalInv
  <2>2. slots' = slots /\ forgotten' = forgotten /\ taken' = taken + 1
    BY <1>2 DEF FlushGet, journal
  <2> QED BY <2>1, <2>2
<1>3. CASE FcbRotate
  <2>1. PICK S : Erase(S)
    BY <1>3 DEF FcbRotate
  <2>2. /\ slots' = slots \ S /\ forgotten' = forgotten \cup (kept \cap S)
        /\ kept \subseteq slots /\ taken' = taken /\ pc = "append"
    BY <1>3, <2>1 DEF FcbRotate, Erase, Journal!Forget, queueVars, JournalInv
  <2> QED BY <2>2 DEF Fresh
<1>4. CASE EventLogWrite \/ Connect \/ Disconnected
  BY <1>4 DEF EventLogWrite, Connect, Disconnected, Fresh, journal
<1>5. CASE \/ AskDump \/ AskNext \/ AskClear \/ Retry \/ JournalAttMtuUpdated
           \/ AdvTimeout \/ Press
  BY <1>5 DEF AskDump, AskNext, AskClear, Retry, WriteJournal,
              JournalAttMtuUpdated, AdvTimeout, Press, Fresh, journal, queueVars
<1>6. ~ (ShellClear \/ AdvRestart \/ ButtonDebounce \/ Idle)
  BY DEF ShellClear, AdvRestart, ButtonDebounce, Idle, Run, Goto, vars
<1>7. ~ (FlushStart \/ FlushDone \/ FcbAppend \/ AppendError \/ JournalLiveCb
           \/ JournalLiveCbError)
  BY DEF FlushStart, FlushDone, FcbAppend, AppendError, JournalLiveCb,
         JournalLiveCbError, Run, Goto
<1>8. ~ JournalWork
  BY DEF JournalWork, JrStart, JrRead, JrReadSkips, JrReadError, JrClear, JrClearError,
         JrNotSent, JrIgnored, JrChunkMoved, JrChunk, JrCleared, JrDone, Run,
         Goto
<1> QED BY <1>1, <1>2, <1>3, <1>4, <1>5, <1>6, <1>7, <1>8
           DEF Next, WorkQueue, Flush

(***************************************************************************)
(* The slots of the oldest sectors are older than all others.              *)
(***************************************************************************)
LEMMA OldestFirst ==
  ASSUME JournalInv, NEW n \in Nat, NEW old \in OldestSectors(n),
         NEW k \in slots, k \notin OldestSectors(n)
  PROVE  old < k
<1>1. old \in slots /\ slots \in SUBSET Nat /\ IsFiniteSet(slots)
  BY JournalSets DEF OldestSectors
<1> SUFFICES ASSUME k <= old
             PROVE  FALSE
  BY <1>1
<1> DEFINE K == {j \in slots : j <= k}
<1> DEFINE O == {j \in slots : j <= old}
<1>2. K \in SUBSET O /\ IsFiniteSet(O)
  <2>1. \A j \in slots : j <= k => j <= old
    BY <1>1
  <2> QED BY <1>1, <2>1, FS_Subset
<1>3. /\ Cardinality(K) <= Cardinality(O)
      /\ Cardinality(K) \in Nat /\ Cardinality(O) \in Nat
  BY <1>2, FS_Subset, FS_CardinalityType
<1>4. n * SlotsPerSector \in Nat
  BY JournalDumpAssumption DEF JournalDumpAssumption
<1>5. /\ Cardinality(O) <= n * SlotsPerSector
      /\ ~(Cardinality(K) <= n * SlotsPerSector)
  BY Zenon DEF OldestSectors
<1> HIDE DEF K, O
<1> QED BY <1>3, <1>4, <1>5

(***************************************************************************)
(* A full ring has an oldest sector to give up, so a flush that rotates    *)
(* makes room.                                                             *)
(***************************************************************************)
LEMMA FullHasOldest ==
  ASSUME JournalInv, RingFull
  PROVE  OldestSectors(1) # {}
<1>1. /\ NumSectors \in Nat \ {0} /\ SlotsPerSector \in Nat \ {0}
      /\ NumSectors * SlotsPerSector \in Nat
      /\ 1 * SlotsPerSector = SlotsPerSector
  BY JournalDumpAssumption DEF JournalDumpAssumption
<1>2. NumSectors * SlotsPerSector > 0
  BY <1>1
<1>3. slots \in SUBSET Nat /\ IsFiniteSet(slots)
  BY JournalSets
<1>4. 0 \in 0..(Cardinality(slots) - 1)
  BY <1>1, <1>2 DEF RingFull
<1>5. PICK k \in slots : Below(slots, k) = 0
  BY <1>3, <1>4, BelowOnto
<1>6. {j \in slots : j < k} = {}
  <2>1. IsFiniteSet({j \in slots : j < k})
    BY <1>3, FS_Subset
  <2> QED BY <1>5, <2>1, FS_EmptySet DEF Below
<1>7. {j \in slots : j <= k} = {k}
  <2>1. \A j \in slots : j \in Nat /\ ~(j < k)
    BY <1>3, <1>6
  <2>2. k \in Nat
    BY <1>3
  <2>3. \A j \in slots : j <= k <=> j = k
    BY <2>1, <2>2
  <2> QED BY <2>3
<1>8. Cardinality({j \in slots : j <= k}) = 1
  BY <1>7, FS_Singleton
<1>9. Cardinality({j \in slots : j <= k}) <= 1 * SlotsPerSector
  BY <1>1, <1>8
<1>10. k \in OldestSectors(1)
  BY <1>9, Zenon DEF OldestSectors
<1> QED BY <1>10

(***************************************************************************)
(* The order that BoundedJournal asks for always holds where the code      *)
(* appends, rotates or clears: what journal_flush_handler() has got is     *)
(* newer than every record there was, the oldest sectors hold the oldest   *)
(* records, and a full ring has a sector to give up.  So no step of the    *)
(* code is lost because the journal is modelled by its promise.            *)
(***************************************************************************)
THEOREM JournalAllowsAll == Spec => []JournalAllows
<1>1. Init => Fresh
  BY DEF Init, Fresh
<1>2. ASSUME IInv, Fresh, [Next]_vars
      PROVE  Fresh'
  BY <1>2, FreshStep DEF IInv
<1>3. ASSUME IInv, Fresh
      PROVE  JournalAllows
  <2>1. JournalInv
    BY <1>3 DEF IInv
  <2>2. ASSUME pc = "append", NEW k \in Recorded
        PROVE  k < taken
    <3>1. k \in slots \cup forgotten /\ taken \notin slots \cup forgotten
      BY <1>3, <2>1, <2>2 DEF Fresh, JournalInv, Recorded
    <3>2. k \in 1..taken /\ k # taken /\ taken \in Nat
      BY <2>1, <3>1 DEF JournalInv
    <3> QED BY <3>2
  <2>3. ASSUME NEW n \in Nat, NEW old \in kept \cap OldestSectors(n),
               NEW k \in kept \ OldestSectors(n)
        PROVE  old < k
    BY <2>1, OldestFirst DEF JournalInv
  <2>4. RingFull => OldestSectors(1) # {}
    BY <2>1, FullHasOldest
  <2> QED BY <2>2, <2>3, <2>4, Zenon DEF JournalAllows
<1> QED BY <1>1, <1>2, <1>3, Invariance, PTL DEF Spec
=============================================================================
