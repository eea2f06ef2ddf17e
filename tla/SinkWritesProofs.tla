-------------------------- MODULE SinkWritesProofs --------------------------
(***************************************************************************)
(* What the target table holds for any keys, values, batch sizes and        *)
(* faults, however often a batch is interrupted and written again.          *)
(***************************************************************************)
EXTENDS SinkWrites, FiniteSetTheorems, SequenceTheorems, TLAPS

Rows == [Keys -> Values \union {Absent}]
Statement == [kind : {"delete"}, key : Keys] \union [kind : {"merge", "append"}, rows : Rows]

\* The source's rows after each of its changes.
History == [n \in 0..Len(log) |-> Source(n)]

\* The rows of one key.
RowsOf(val) == IF val = Absent THEN <<>> ELSE <<val>>

Calm == Keys \ disordered

\* Keys no change in flight touches; keys the batch touches; keys the remaining
\* statements touch, and those of them the remaining row deletes touch.
Affects(s, k) == IF s.kind = "delete" THEN s.key = k ELSE s.rows[k] # Absent
Quiet == {k \in Keys : \A i \in (done + 1)..tried : ~Touches(log[i], k)}
Hit == {k \in Keys : \E i \in 1..Len(batch) : Touches(batch[i], k)}
Pending == {k \in Keys : \E i \in 1..Len(todo) : Affects(todo[i], k)}
ToDelete == {k \in Keys : \E i \in 1..Len(todo) : todo[i].kind = "delete" /\ todo[i].key = k}

TypeInv ==
    /\ sink \in {"dremio", "iceberg"}
    /\ log \in Seq(Event)
    /\ done \in Nat /\ tried \in Nat /\ done <= tried /\ tried <= Len(log)
    /\ batch \in Seq(Event) /\ todo \in Seq(Statement) /\ late \subseteq Statement
    /\ target \in [Keys -> Seq(Values)]
    /\ disordered \subseteq Keys

\* The source's changes are legal.
LegalInv ==
    \A i \in 1..Len(log) :
        \/ /\ log[i].op = "upsert" /\ log[i].val # Absent
           /\ log[i].old = log[i].key \/ History[i - 1][log[i].key] = Absent
        \/ log[i].op = "delete" /\ log[i].val = Absent /\ log[i].old = log[i].key

\* The batch is the part of the log behind the committed one, and what it leaves
\* of a key that meets no known reordering is what its statements write last.
BatchInv ==
    batch # <<>> =>
        /\ done + Len(batch) <= tried
        /\ \A i \in 1..Len(batch) : batch[i] = log[done + i]
        /\ \A k \in Calm \intersect Hit :
              History[done + Len(batch)][k] =
                 IF sink = "dremio" /\ \E i \in Deletes(batch) : batch[i].old = k
                 THEN Absent ELSE LastPerKey(batch)[k]

\* The statements to come are the end of write_batch's plan for the batch.
PlanInv ==
    /\ todo # <<>> => batch # <<>>
    /\ \A i \in 1..Len(todo) :
          IF todo[i].kind = "delete"
          THEN \E j \in 1..Len(batch) :
                  batch[j].old = todo[i].key /\ (sink = "dremio" => j \in Deletes(batch))
          ELSE todo[i].rows = LastPerKey(batch)
    /\ sink = "dremio" => \A i \in 1..Len(todo) :
          /\ todo[i].kind # "append" /\ (i > 1 => todo[i].kind = "delete")
          /\ todo[i].kind = "merge" => \A j \in Deletes(batch) : batch[j].old \in ToDelete
    /\ sink = "iceberg" =>
          /\ \A i \in 1..Len(todo) :
                todo[i].kind # "merge" /\ (i < Len(todo) => todo[i].kind = "delete")
          /\ todo # <<>> /\ Upserts(batch) # {} => todo[Len(todo)].kind = "append"

\* Each sink meets faults of its own, and no job of Dremio ever adds a second row.
FaultInv ==
    /\ sink = "iceberg" => faults \subseteq {"rowDelete"} /\ late = {}
    /\ sink = "dremio" =>
          /\ "rowDelete" \notin faults /\ (late # {} => "lateJob" \in faults)
          /\ \A s \in late : s.kind # "append"
          /\ \A k \in Keys : Len(target[k]) <= 1

\* Without faults, or if only answers are lost, the rows of a key are those of some
\* moment between the last commit and the last attempt, or are being replaced by
\* Iceberg; they are the committed ones if nothing in flight touches the key, and
\* the batch's once its last statement about the key is done.
ExactInv ==
    Only({"answerLost"}) => \A k \in Calm :
        /\ \/ sink = "iceberg" /\ target[k] = <<>>
           \/ \E m \in done..tried : target[k] = RowsOf(History[m][k])
        /\ k \in Quiet => target[k] = RowsOf(History[done][k])
        /\ k \in Hit \ Pending => target[k] = RowsOf(History[done + Len(batch)][k])
        /\ sink = "iceberg" /\ k \in Pending \ ToDelete => target[k] = <<>>

\* If row deletes fail, the current row is still among the rows of the key.
SurvivesInv ==
    sink = "iceberg" => \A k \in Calm :
        /\ k \in Quiet /\ History[done][k] # Absent => History[done][k] \in ToSet(target[k])
        /\ k \in Hit \ Pending /\ History[done + Len(batch)][k] # Absent
             => History[done + Len(batch)][k] \in ToSet(target[k])

Inv == TypeInv /\ LegalInv /\ BatchInv /\ PlanInv /\ FaultInv /\ ExactInv /\ SurvivesInv

-----------------------------------------------------------------------------
(* Sorting, the greatest of a set of indices, sequences *)

\* Sorted lists all the numbers of the set, each once, in order.  The number of those up
\* to and including an element numbers the elements from 1.
LEMMA SSorted ==
    ASSUME NEW R \in SUBSET Nat, IsFiniteSet(R)
    PROVE  /\ Sorted(R) \in Seq(R) /\ Increasing(Sorted(R))
           /\ ToSet(Sorted(R)) = R
<1> DEFINE Upto(i) == {j \in R : j <= i}
<1>1. PICK n \in Nat : n = Cardinality(R)
  BY FS_CardinalityType
<1>2. \A i, j \in R : Upto(i) \subseteq R /\ (j \in Upto(i) <=> j <= i)
  OBVIOUS
<1> HIDE DEF Upto
<1>3. PICK rank : rank = [i \in R |-> Cardinality(Upto(i))]
  OBVIOUS
<1>4. ASSUME NEW i \in R PROVE IsFiniteSet(Upto(i)) /\ rank[i] \in 1..n
  <2>1. IsFiniteSet(Upto(i)) /\ Cardinality(Upto(i)) <= n
    BY <1>1, <1>2, FS_Subset
  <2>2. i \in Upto(i)
    BY <1>2
  <2>3. Cardinality(Upto(i)) \in Nat /\ Cardinality(Upto(i)) # 0
    BY <2>1, <2>2, FS_CardinalityType, FS_EmptySet
  <2>4. QED
    BY <1>3, <2>1, <2>3
<1>5. ASSUME NEW i \in R, NEW j \in R, i < j PROVE rank[i] < rank[j]
  <2>1. Upto(i) \subseteq Upto(j) /\ j \in Upto(j) /\ j \notin Upto(i)
    <3>1. i \in Nat /\ j \in Nat /\ \A k \in Upto(i) : k \in R /\ k \in Nat
      BY <1>2
    <3>2. QED
      BY <1>2, <1>5, <3>1
  <2>2. Cardinality(Upto(i)) <= Cardinality(Upto(j)) /\ Cardinality(Upto(i)) # Cardinality(Upto(j))
    BY <1>4, <2>1, FS_Subset
  <2>3. rank[i] \in Nat /\ rank[j] \in Nat
    BY <1>4
  <2>4. QED
    BY <1>3, <2>2, <2>3
<1>6. ASSUME NEW i \in R, NEW j \in R, rank[i] = rank[j] PROVE i = j
  <2>1. i \in Nat /\ j \in Nat /\ rank[i] \in Nat /\ rank[j] \in Nat
    BY <1>4
  <2>2. (i < j => rank[i] < rank[j]) /\ (j < i => rank[j] < rank[i])
    BY <1>5
  <2>3. QED
    BY <1>6, <2>1, <2>2
<1>7. rank \in Surjection(R, 1..n)
  <2>1. rank \in Injection(R, 1..n)
    BY <1>3, <1>4, <1>6 DEF Injection, IsInjective
  <2>2. QED
    BY <1>1, <2>1, FS_Interval, FS_Injection
<1>8. PICK s : s = Sorted(R)
  OBVIOUS
<1>9. s = [m \in 1..n |-> CHOOSE i \in R : Cardinality(Upto(i)) = m]
  BY <1>1, <1>8 DEF Sorted, Upto
<1>10. ASSUME NEW m \in 1..n PROVE s[m] \in R /\ rank[s[m]] = m
  <2>1. \E i \in R : Cardinality(Upto(i)) = m
    BY <1>3, <1>7 DEF Surjection
  <2>2. s[m] \in R /\ Cardinality(Upto(s[m])) = m
    BY <1>9, <2>1
  <2>3. QED
    BY <1>3, <2>2
<1>11. s \in [1..n -> R]
  BY <1>9, <1>10
<1>12. Increasing(s)
  <2> SUFFICES ASSUME NEW a \in 1..n, NEW b \in 1..n, a < b PROVE s[a] < s[b]
    BY <1>9 DEF Increasing
  <2>1. s[a] \in R /\ s[b] \in R /\ rank[s[a]] = a /\ rank[s[b]] = b
    BY <1>10
  <2>2. s[b] < s[a] => rank[s[b]] < rank[s[a]]
    BY <1>5, <2>1
  <2>3. s[a] \in Nat /\ s[b] \in Nat
    BY <2>1
  <2>4. QED
    BY <2>1, <2>2, <2>3
<1>13. ToSet(s) = R
  <2>1. ASSUME NEW i \in R PROVE rank[i] \in 1..n /\ s[rank[i]] = i
    <3>1. rank[i] \in 1..n
      BY <1>4
    <3>2. s[rank[i]] \in R /\ rank[s[rank[i]]] = rank[i]
      BY <1>10, <3>1
    <3>3. QED
      BY <1>6, <3>1, <3>2
  <2>2. QED
    BY <1>11, <2>1 DEF ToSet
<1>14. QED
  BY <1>8, <1>11, <1>12, <1>13, SeqDef DEF ToSet

LEMMA SGreatest ==
    ASSUME NEW n \in Nat, NEW H \in SUBSET (0..n), H # {}
    PROVE  Max(H) \in H /\ Max(H) \in 0..n /\ \A i \in H : i <= Max(H)
<1>1. H \in SUBSET Nat /\ IsFiniteSet(H)
  <2>1. IsFiniteSet(0..n) /\ 0..n \subseteq Nat
    BY FS_Interval
  <2>2. QED
    BY <2>1, FS_Subset
<1>2. PICK c \in Nat : c = Cardinality(H) /\ c # 0
  BY <1>1, FS_CardinalityType, FS_EmptySet
<1>3. PICK s : s = Sorted(H)
  OBVIOUS
<1>4. s \in [1..c -> H] /\ Increasing(s) /\ ToSet(s) = H
  <2>1. DOMAIN s = 1..c
    BY <1>2, <1>3 DEF Sorted
  <2>2. s \in Seq(H) /\ Increasing(s) /\ ToSet(s) = H
    BY <1>1, <1>3, SSorted
  <2>3. QED
    BY <2>1, <2>2, LenProperties
<1>5. \A i \in H : i <= s[c]
  <2> SUFFICES ASSUME NEW i \in H PROVE i <= s[c]
    OBVIOUS
  <2>1. PICK j \in 1..c : i = s[j]
    BY <1>4 DEF ToSet
  <2>2. j = c \/ s[j] < s[c]
    BY <1>2, <1>4 DEF Increasing
  <2>3. i \in Nat /\ s[c] \in H
    BY <1>1, <1>2, <1>4
  <2>4. s[c] \in Nat
    BY <1>1, <2>3
  <2>5. QED
    BY <2>1, <2>2, <2>3, <2>4
<1>6. s[c] \in H
  BY <1>2, <1>4
<1>7. \E m \in H : \A i \in H : m >= i
  BY <1>5, <1>6
<1>8. Max(H) \in H /\ \A i \in H : Max(H) >= i
  BY <1>7 DEF Max
<1>9. QED
  BY <1>8

\* What Tail leaves of a sequence.
LEMMA QTail ==
    ASSUME NEW S, NEW s \in Seq(S), s # <<>>
    PROVE  /\ Head(s) \in S /\ Head(s) = s[1] /\ 1 \in 1..Len(s)
           /\ Tail(s) \in Seq(S) /\ Len(Tail(s)) = Len(s) - 1 /\ Len(s) \in Nat \ {0}
           /\ \A i \in 1..Len(Tail(s)) : i + 1 \in 1..Len(s) /\ Tail(s)[i] = s[i + 1]
           /\ \A i \in 1..Len(s) : i = 1 \/ (i - 1 \in 1..Len(Tail(s)) /\ s[i] = Tail(s)[i - 1])
<1>1. Len(s) \in Nat /\ Len(s) # 0 /\ Head(s) = s[1]
  BY EmptySeq, LenProperties, HeadTailProperties
<1>2. s[1] \in S
  BY <1>1, ElementOfSeq
<1>3. Tail(s) \in Seq(S) /\ Len(Tail(s)) = Len(s) - 1
  BY <1>1, HeadTailProperties
<1>4. \A i \in 1..Len(Tail(s)) : Tail(s)[i] = s[i + 1]
  BY <1>1, HeadTailProperties
<1>5. QED
  BY <1>1, <1>2, <1>3, <1>4

\* The sequence r is s, m elements long, and then t, n elements long.
Joins(r, s, t, m, n) ==
    /\ Len(r) = m + n
    /\ \A i \in 1..m : r[i] = s[i]
    /\ \A i \in 1..n : r[m + i] = t[i]

LEMMA QConcat ==
    ASSUME NEW S, NEW s \in Seq(S), NEW t \in Seq(S), NEW m, NEW n, m = Len(s), n = Len(t)
    PROVE  /\ s \o t \in Seq(S) /\ Joins(s \o t, s, t, m, n)
           /\ m \in Nat /\ n \in Nat
<1>1. m \in Nat /\ n \in Nat
  BY LenProperties
<1>2. QED
  BY <1>1, ConcatProperties DEF Joins

-----------------------------------------------------------------------------
(* The source's rows *)

\* A row stays as long as no change touches its key.
LEMMA HStill ==
    ASSUME TypeInv, NEW m \in 0..Len(log), NEW n \in 0..Len(log), m <= n, NEW k \in Keys,
           \A i \in (m + 1)..n : ~Touches(log[i], k)
    PROVE  History[n][k] = History[m][k]
<1>1. PICK len \in Nat : len = Len(log)
  BY LenProperties DEF TypeInv
<1>2. m \in 0..len /\ n \in 0..len
  BY <1>1
<1>3. \A i : i \in 1..n /\ Touches(log[i], k) <=> i \in 1..m /\ Touches(log[i], k)
  BY <1>2
<1>4. {i \in 1..n : Touches(log[i], k)} = {i \in 1..m : Touches(log[i], k)}
  BY <1>3
<1>5. QED
  BY <1>4 DEF History, Source

\* The last change that touches a key leaves its row.
LEMMA HLast ==
    ASSUME TypeInv, NEW n \in 0..Len(log), NEW j \in 1..n, NEW k \in Keys,
           Touches(log[j], k), \A i \in (j + 1)..n : ~Touches(log[i], k)
    PROVE  History[n][k] = IF log[j].key = k THEN log[j].val ELSE Absent
<1>1. n \in Nat /\ j \in Nat
  BY LenProperties DEF TypeInv
<1>2. PICK hits : hits = {i \in 1..n : Touches(log[i], k)}
  OBVIOUS
<1>3. j \in hits /\ \A i \in hits : i \in Nat /\ i <= j
  BY <1>1, <1>2
<1>4. hits \in SUBSET (0..n) /\ hits # {}
  BY <1>1, <1>2, <1>3
<1>5. PICK m : m = Max(hits)
  OBVIOUS
<1>6. m \in hits /\ j <= m
  BY <1>1, <1>3, <1>4, <1>5, SGreatest
<1>7. m = j
  <2>1. m \in Nat /\ m <= j
    BY <1>3, <1>6
  <2>2. QED
    BY <1>1, <1>6, <2>1
<1>8. QED
  BY <1>2, <1>3, <1>5, <1>7 DEF History, Source

LEMMA HType ==
    ASSUME TypeInv, NEW n \in 0..Len(log), NEW k \in Keys
    PROVE  /\ History[n][k] \in Values \union {Absent}
           /\ RowsOf(History[n][k]) \in Seq(Values)
<1>1. n \in Nat /\ \A i \in 1..n : log[i].val \in Values \union {Absent}
  <2>1. n \in Nat /\ \A i \in 1..n : i \in 1..Len(log)
    BY LenProperties DEF TypeInv
  <2>2. \A i \in 1..Len(log) : log[i] \in Event
    BY ElementOfSeq DEF TypeInv
  <2>3. QED
    BY <2>1, <2>2 DEF Event
<1>2. PICK hits : hits = {i \in 1..n : Touches(log[i], k)}
  OBVIOUS
<1>3. hits # {} => Max(hits) \in 1..n
  <2>1. hits \in SUBSET (0..n) /\ hits \subseteq 1..n
    BY <1>1, <1>2
  <2>2. QED
    BY <1>1, <2>1, SGreatest
<1>4. History[n][k] \in Values \union {Absent}
  BY <1>1, <1>2, <1>3 DEF History, Source
<1>5. QED
  BY <1>4, EmptySeq DEF RowsOf

\* They do not depend on what is logged later.
LEMMA HPrefix ==
    ASSUME TypeInv, log' \in Seq(Event), Len(log) <= Len(log'),
           \A i \in 1..Len(log) : log'[i] = log[i]
    PROVE  \A n \in 0..Len(log) : History'[n] = History[n]
<1>1. PICK len \in Nat : len = Len(log)
  BY LenProperties DEF TypeInv
<1>2. Len(log') \in Nat
  BY LenProperties
<1>3. ASSUME NEW n \in 0..len PROVE Source(n)' = Source(n)
  <2>1. \A k : {i \in 1..n : Touches(log'[i], k)} = {i \in 1..n : Touches(log[i], k)}
    BY <1>1, <1>3
  <2>2. ASSUME NEW k \in Keys, NEW hits, hits = {i \in 1..n : Touches(log[i], k)}, hits # {}
        PROVE  log'[Max(hits)] = log[Max(hits)]
    <3>1. n \in Nat /\ hits \in SUBSET (0..n) /\ hits \subseteq 1..n
      BY <1>1, <1>3, <2>2
    <3>2. Max(hits) \in 1..n
      BY <2>2, <3>1, SGreatest
    <3>3. QED
      BY <1>1, <1>3, <3>2
  <2>3. QED
    BY <2>1, <2>2 DEF Source
<1>4. QED
  BY <1>1, <1>2, <1>3 DEF History

-----------------------------------------------------------------------------
(* Batches and their statements *)

LEMMA LEvents ==
    ASSUME NEW b \in Seq(Event)
    PROVE  /\ Len(b) \in Nat /\ DOMAIN b = 1..Len(b)
           /\ Upserts(b) \union Deletes(b) = 1..Len(b)
           /\ \A i \in 1..Len(b) :
                 b[i] \in Event /\ b[i].old \in Keys /\ b[i].key \in Keys
                 /\ b[i].val \in Values \union {Absent}
<1>1. Len(b) \in Nat /\ DOMAIN b = 1..Len(b)
  BY LenProperties
<1>2. \A i \in 1..Len(b) : b[i] \in Event
  BY ElementOfSeq
<1>3. QED
  BY <1>1, <1>2 DEF Event, Upserts, Deletes, IsUpsert, IsDelete

\* What LastPerKey keeps.
LEMMA LLast ==
    ASSUME NEW b \in Seq(Event), NEW k \in Keys
    PROVE  \/ /\ \A i \in Upserts(b) : b[i].key # k
              /\ LastPerKey(b)[k] = Absent
           \/ \E j \in Upserts(b) :
                 /\ b[j].key = k /\ LastPerKey(b)[k] = b[j].val
                 /\ \A i \in Upserts(b) : b[i].key = k => i <= j
<1>1. PICK hits : hits = {i \in Upserts(b) : b[i].key = k}
  OBVIOUS
<1>2. PICK n \in Nat : n = Len(b)
  BY LEvents
<1>3. hits \in SUBSET (0..n)
  BY <1>1, <1>2, LEvents
<1>4. CASE hits = {}
  BY <1>1, <1>4 DEF LastPerKey
<1>5. CASE hits # {}
  <2>1. PICK j : j = Max(hits)
    OBVIOUS
  <2>2. j \in hits /\ \A i \in hits : i <= j
    BY <1>3, <1>5, <2>1, SGreatest
  <2>3. LastPerKey(b)[k] = b[j].val
    BY <1>1, <1>5, <2>1 DEF LastPerKey
  <2>4. QED
    BY <1>1, <2>2, <2>3
<1>6. QED
  BY <1>4, <1>5

LEMMA LRows ==
    ASSUME NEW b \in Seq(Event) PROVE LastPerKey(b) \in Rows
<1>1. \A k \in Keys : LastPerKey(b)[k] \in Values \union {Absent}
  BY LLast, LEvents
<1>2. QED
  BY <1>1 DEF LastPerKey, Rows

\* The statements d are the row deletes of the events of b with indices in I.
Lists(d, b, I) ==
    /\ \A i \in 1..Len(d) : \E j \in I : d[i] = RowDelete(b[j].old)
    /\ \A j \in I : \E i \in 1..Len(d) : d[i] = RowDelete(b[j].old)

LEMMA LDeletes ==
    ASSUME NEW b \in Seq(Event), NEW I \in SUBSET (1..Len(b)), NEW d, d = RowDeletes(b, I)
    PROVE  d \in Seq(Statement) /\ Lists(d, b, I)
<1>1. I \in SUBSET Nat /\ IsFiniteSet(I)
  <2>1. 1..Len(b) \subseteq Nat /\ IsFiniteSet(1..Len(b))
    BY LEvents, FS_Interval
  <2>2. QED
    BY <2>1, FS_Subset
<1>2. PICK order : order = Sorted(I)
  OBVIOUS
<1>3. order \in Seq(I) /\ ToSet(order) = I
  BY <1>1, <1>2, SSorted
<1>4. PICK n \in Nat : n = Len(order) /\ order \in [1..n -> I]
  BY <1>3, LenProperties
<1>5. d = [i \in 1..n |-> RowDelete(b[order[i]].old)]
  BY <1>2, <1>4 DEF RowDeletes
<1>6. \A i \in 1..n : order[i] \in I /\ d[i] = RowDelete(b[order[i]].old) /\ d[i] \in Statement
  <2>1. \A i \in 1..n : order[i] \in I /\ b[order[i]].old \in Keys
    BY <1>4, LEvents
  <2>2. QED
    BY <1>5, <2>1 DEF RowDelete, Statement
<1>7. d \in Seq(Statement) /\ Len(d) = n
  <2>1. d \in [1..n -> Statement]
    BY <1>5, <1>6
  <2>2. QED
    BY <2>1, SeqDef, LenProperties
<1>8. \A j \in I : \E i \in 1..n : order[i] = j
  BY <1>3, <1>4 DEF ToSet
<1>9. ASSUME NEW i \in 1..n PROVE \E j \in I : d[i] = RowDelete(b[j].old)
  BY <1>6
<1>10. ASSUME NEW j \in I PROVE \E i \in 1..n : d[i] = RowDelete(b[j].old)
  <2>1. PICK i \in 1..n : order[i] = j
    BY <1>8
  <2>2. d[i] = RowDelete(b[j].old)
    BY <1>6, <2>1
  <2>3. QED
    BY <2>2
<1>11. QED
  BY <1>7, <1>9, <1>10 DEF Lists

\* A MERGE or an append is the only one of its kind and carries the last upserts.
LEMMA LWrite ==
    ASSUME NEW b \in Seq(Event), NEW kind \in {"merge", "append"}
    PROVE  /\ Write(kind, b) \in Seq(Statement)
           /\ Upserts(b) = {} => Len(Write(kind, b)) = 0
           /\ Upserts(b) # {} => /\ Len(Write(kind, b)) = 1
                                 /\ Write(kind, b)[1].kind = kind
                                 /\ Write(kind, b)[1].rows = LastPerKey(b)
<1>1. PICK w : w = [kind |-> kind, rows |-> LastPerKey(b)]
  OBVIOUS
<1>2. w \in Statement /\ w.kind = kind /\ w.rows = LastPerKey(b)
  BY <1>1, LRows DEF Statement
<1>3. <<w>> \in Seq(Statement) /\ Len(<<w>>) = 1 /\ <<w>>[1] = w
  BY <1>2
<1>4. QED
  BY <1>1, <1>2, <1>3, EmptySeq DEF Write

\* The plan of write_batch: which statements there are, and in which order.
LEMMA LPlan ==
    ASSUME TypeInv, NEW b \in Seq(Event), NEW s, s = Statements(b)
    PROVE  /\ s \in Seq(Statement)
           /\ \A i \in 1..Len(s) :
                 IF s[i].kind = "delete"
                 THEN \E j \in 1..Len(b) :
                         b[j].old = s[i].key /\ (sink = "dremio" => j \in Deletes(b))
                 ELSE s[i].rows = LastPerKey(b)
           /\ sink = "dremio" => \A i \in 1..Len(s) :
                 s[i].kind # "append" /\ (i > 1 => s[i].kind = "delete")
           /\ sink = "iceberg" => \A i \in 1..Len(s) :
                 s[i].kind # "merge" /\ (i < Len(s) => s[i].kind = "delete")
           /\ \A j \in 1..Len(b) : sink = "iceberg" \/ j \in Deletes(b) =>
                 \E i \in 1..Len(s) : s[i] = RowDelete(b[j].old)
           /\ Upserts(b) # {} =>
                 \E i \in 1..Len(s) : s[i].kind # "delete" /\ (sink = "iceberg" => i = Len(s))
<1>1. Upserts(b) \subseteq 1..Len(b) /\ Deletes(b) \subseteq 1..Len(b)
      /\ Upserts(b) \union Deletes(b) = 1..Len(b)
  BY LEvents
<1>2. PICK d : d = RowDeletes(b, Deletes(b))
  OBVIOUS
<1>3. d \in Seq(Statement) /\ Lists(d, b, Deletes(b))
  BY <1>1, <1>2, LDeletes
<1>4. CASE sink = "dremio"
  <2>1. PICK w : w = Write("merge", b)
    OBVIOUS
  <2>2. /\ w \in Seq(Statement)
        /\ Upserts(b) = {} => Len(w) = 0
        /\ Upserts(b) # {} => Len(w) = 1 /\ w[1].kind = "merge" /\ w[1].rows = LastPerKey(b)
    BY <2>1, LWrite
  <2>3. s = w \o d
    BY <1>2, <1>4, <2>1 DEF Statements, DremioStatements
  <2>4. PICK m, n : m = Len(w) /\ n = Len(d)
    OBVIOUS
  <2>5. s \in Seq(Statement) /\ Joins(s, w, d, m, n) /\ m \in Nat /\ n \in Nat /\ m <= 1
    <3>1. s \in Seq(Statement) /\ Joins(s, w, d, m, n) /\ m \in Nat /\ n \in Nat
      BY <1>3, <2>2, <2>3, <2>4, QConcat
    <3>2. QED
      BY <2>2, <2>4, <3>1
  <2>6. ASSUME NEW i \in 1..n PROVE \E j \in Deletes(b) : s[m + i] = RowDelete(b[j].old)
    BY <1>3, <2>4, <2>5 DEF Joins, Lists
  <2>7. ASSUME NEW i \in 1..Len(s)
        PROVE  \/ i = 1 /\ s[i].kind = "merge" /\ s[i].rows = LastPerKey(b)
               \/ s[i].kind = "delete" /\ \E j \in Deletes(b) : b[j].old = s[i].key
    <3>1. CASE i \in 1..m
      BY <2>2, <2>4, <2>5, <3>1 DEF Joins
    <3>2. CASE i \notin 1..m
      <4>1. i - m \in 1..n /\ m + (i - m) = i
        BY <2>5, <3>2 DEF Joins
      <4>2. PICK j \in Deletes(b) : s[i] = RowDelete(b[j].old)
        BY <2>6, <4>1
      <4>3. QED
        BY <4>2 DEF RowDelete
    <3>3. QED
      BY <3>1, <3>2
  <2>8. ASSUME NEW j \in Deletes(b)
        PROVE  \E i \in 1..Len(s) : s[i] = RowDelete(b[j].old)
    <3>1. PICK i \in 1..n : d[i] = RowDelete(b[j].old)
      BY <1>3, <2>4 DEF Lists
    <3>2. m + i \in 1..Len(s)
      BY <2>5 DEF Joins
    <3>3. QED
      BY <2>5, <3>1, <3>2 DEF Joins
  <2>9. Upserts(b) # {} => 1 \in 1..Len(s) /\ s[1].kind # "delete"
    BY <2>2, <2>4, <2>5 DEF Joins
  <2>10. \A i \in 1..Len(s) : s[i].kind # "append" /\ (i > 1 => s[i].kind = "delete")
    BY <2>7
  <2>11. QED
    BY <1>1, <1>4, <2>5, <2>7, <2>8, <2>9, <2>10
<1>5. CASE sink = "iceberg"
  <2>1. PICK u, w : u = RowDeletes(b, Upserts(b)) /\ w = Write("append", b)
    OBVIOUS
  <2>2. /\ w \in Seq(Statement)
        /\ Upserts(b) = {} => Len(w) = 0
        /\ Upserts(b) # {} => Len(w) = 1 /\ w[1].kind = "append" /\ w[1].rows = LastPerKey(b)
    BY <2>1, LWrite
  <2>3. u \in Seq(Statement) /\ Lists(u, b, Upserts(b))
    BY <1>1, <2>1, LDeletes
  <2>4. PICK e : e = d \o u
    OBVIOUS
  <2>5. s = e \o w
    BY <1>2, <1>5, <2>1, <2>4 DEF Statements, IcebergStatements
  <2>6. PICK m, n, l, p : m = Len(d) /\ n = Len(u) /\ l = Len(e) /\ p = Len(w)
    OBVIOUS
  <2>7. /\ e \in Seq(Statement) /\ Joins(e, d, u, m, n)
        /\ m \in Nat /\ n \in Nat /\ l = m + n
    <3>1. /\ e \in Seq(Statement) /\ Joins(e, d, u, m, n)
          /\ m \in Nat /\ n \in Nat
      BY <1>3, <2>3, <2>4, <2>6, QConcat
    <3>2. QED
      BY <2>6, <3>1 DEF Joins
  <2>8. s \in Seq(Statement) /\ Joins(s, e, w, l, p) /\ l \in Nat /\ p \in Nat /\ p <= 1
    <3>1. s \in Seq(Statement) /\ Joins(s, e, w, l, p) /\ l \in Nat /\ p \in Nat
      BY <2>2, <2>5, <2>6, <2>7, QConcat
    <3>2. p <= 1
      BY <2>2, <2>6
    <3>3. QED
      BY <3>1, <3>2
  <2>9. ASSUME NEW i \in 1..l PROVE \E j \in 1..Len(b) : s[i] = RowDelete(b[j].old)
    <3>1. s[i] = e[i] /\ i \in 1..(m + n)
      BY <2>7, <2>8 DEF Joins
    <3>2. CASE i \in 1..m
      <4>1. e[i] = d[i]
        BY <2>7, <3>2 DEF Joins
      <4>2. QED
        BY <1>1, <1>3, <2>6, <3>1, <3>2, <4>1 DEF Lists
    <3>3. CASE i \notin 1..m
      <4>1. i - m \in 1..n /\ m + (i - m) = i
        BY <2>7, <3>1, <3>3
      <4>2. e[i] = u[i - m]
        BY <2>7, <4>1 DEF Joins
      <4>3. QED
        BY <1>1, <2>3, <2>6, <3>1, <4>1, <4>2 DEF Lists
    <3>4. QED
      BY <3>2, <3>3
  <2>10. ASSUME NEW i \in 1..Len(s)
         PROVE  \/ /\ i = Len(s) /\ s[i].kind = "append" /\ s[i].rows = LastPerKey(b)
                \/ /\ s[i].kind = "delete" /\ \E j \in 1..Len(b) : b[j].old = s[i].key
    <3>1. CASE i \in 1..l
      <4>1. PICK j \in 1..Len(b) : s[i] = RowDelete(b[j].old)
        BY <2>9, <3>1
      <4>2. QED
        BY <4>1 DEF RowDelete
    <3>2. CASE i \notin 1..l
      <4>1. p = 1 /\ i = l + 1 /\ i = Len(s)
        BY <2>8, <3>2 DEF Joins
      <4>2. s[i] = w[1]
        BY <2>8, <4>1 DEF Joins
      <4>3. QED
        BY <2>2, <2>6, <4>1, <4>2
    <3>3. QED
      BY <3>1, <3>2
  <2>11. ASSUME NEW j \in 1..Len(b) PROVE \E i \in 1..Len(s) : s[i] = RowDelete(b[j].old)
    <3>1. CASE j \in Deletes(b)
      <4>1. PICK i \in 1..m : d[i] = RowDelete(b[j].old)
        BY <1>3, <2>6, <3>1 DEF Lists
      <4>2. i \in 1..Len(s) /\ i \in 1..l
        BY <2>7, <2>8 DEF Joins
      <4>3. QED
        BY <2>7, <2>8, <4>1, <4>2 DEF Joins
    <3>2. CASE j \in Upserts(b)
      <4>1. PICK i \in 1..n : u[i] = RowDelete(b[j].old)
        BY <2>3, <2>6, <3>2 DEF Lists
      <4>2. m + i \in 1..Len(s) /\ m + i \in 1..l
        BY <2>7, <2>8 DEF Joins
      <4>3. QED
        BY <2>7, <2>8, <4>1, <4>2 DEF Joins
    <3>3. QED
      BY <1>1, <3>1, <3>2
  <2>12. Upserts(b) # {} => Len(s) \in 1..Len(s) /\ s[Len(s)].kind # "delete"
    <3> SUFFICES ASSUME Upserts(b) # {} PROVE Len(s) \in 1..Len(s) /\ s[Len(s)].kind # "delete"
      OBVIOUS
    <3>1. p = 1 /\ Len(s) = l + 1 /\ w[1].kind = "append"
      BY <2>2, <2>6, <2>8 DEF Joins
    <3>2. s[l + 1] = w[1]
      BY <2>8, <3>1 DEF Joins
    <3>3. QED
      BY <2>8, <3>1, <3>2
  <2>13. \A i \in 1..Len(s) : s[i].kind # "merge" /\ (i < Len(s) => s[i].kind = "delete")
    BY <2>10
  <2>14. QED
    BY <1>5, <2>8, <2>10, <2>11, <2>12, <2>13
<1>6. QED
  BY <1>4, <1>5 DEF TypeInv

\* The target after a statement.
LEMMA LExecuted ==
    ASSUME TypeInv, NEW s \in Statement, NEW t, t = Executed(s)
    PROVE  /\ t \in [Keys -> Seq(Values)]
           /\ \A k \in Keys : ~Affects(s, k) => t[k] = target[k]
           /\ s.kind = "delete" => \A k \in Keys : Affects(s, k) => t[k] = <<>>
           /\ s.kind = "append" => \A k \in Keys :
                 Affects(s, k) => s.rows[k] \in Values /\ t[k] = Append(target[k], s.rows[k])
           /\ s.kind = "merge" => \A k \in Keys :
                 Affects(s, k) /\ Len(target[k]) <= 1 => t[k] = RowsOf(s.rows[k])
           /\ s.kind # "append" => \A k \in Keys : Len(target[k]) <= 1 => Len(t[k]) <= 1
<1>1. \A k \in Keys : target[k] \in Seq(Values)
  BY DEF TypeInv
<1>2. CASE s.kind = "delete"
  <2>1. s.key \in Keys /\ t = [target EXCEPT ![s.key] = <<>>]
    BY <1>2 DEF Statement, Executed
  <2>2. t \in [Keys -> Seq(Values)]
    BY <2>1, EmptySeq DEF TypeInv
  <2>3. \A k \in Keys : IF Affects(s, k) THEN t[k] = <<>> ELSE t[k] = target[k]
    BY <1>2, <2>1 DEF Affects, TypeInv
  <2>4. \A k \in Keys : Len(target[k]) <= 1 => Len(t[k]) <= 1
    BY <2>3, EmptySeq
  <2>5. QED
    BY <1>2, <2>2, <2>3, <2>4
<1>3. CASE s.kind = "append"
  <2>1. /\ s.rows \in Rows
        /\ t = [k \in Keys |-> IF s.rows[k] = Absent THEN target[k]
                               ELSE Append(target[k], s.rows[k])]
    BY <1>3 DEF Statement, Executed
  <2>2. \A k \in Keys : IF Affects(s, k) THEN s.rows[k] \in Values /\ t[k] = Append(target[k], s.rows[k])
                                         ELSE t[k] = target[k]
    BY <1>3, <2>1 DEF Affects, Rows
  <2>3. \A k \in Keys : t[k] \in Seq(Values)
    BY <1>1, <2>2, AppendProperties
  <2>4. t \in [Keys -> Seq(Values)]
    BY <2>1, <2>3
  <2>5. QED
    BY <1>3, <2>2, <2>4
<1>4. CASE s.kind = "merge"
  <2>1. /\ s.rows \in Rows
        /\ t = [k \in Keys |-> IF s.rows[k] = Absent THEN target[k]
                               ELSE IF target[k] = <<>> THEN <<s.rows[k]>>
                               ELSE [i \in DOMAIN target[k] |-> s.rows[k]]]
    BY <1>4 DEF Statement, Executed
  <2>2. ASSUME NEW k \in Keys, ~Affects(s, k) PROVE t[k] = target[k]
    BY <1>4, <2>1, <2>2 DEF Affects
  <2>3. ASSUME NEW k \in Keys, Affects(s, k)
        PROVE  /\ t[k] \in Seq(Values)
               /\ Len(target[k]) <= 1 => t[k] = RowsOf(s.rows[k]) /\ Len(t[k]) <= 1
    <3>1. PICK v \in Values : v = s.rows[k] /\ v # Absent
      BY <1>4, <2>1, <2>3 DEF Affects, Rows
    <3>2. RowsOf(v) = <<v>> /\ <<v>> \in Seq(Values) /\ Len(<<v>>) = 1
      BY <3>1 DEF RowsOf
    <3>3. CASE target[k] = <<>>
      BY <2>1, <3>1, <3>2, <3>3
    <3>4. CASE target[k] # <<>>
      <4>1. PICK n \in Nat : n = Len(target[k]) /\ DOMAIN target[k] = 1..n /\ n # 0
        BY <1>1, <3>4, EmptySeq, LenProperties
      <4>2. t[k] = [i \in 1..n |-> v]
        BY <2>1, <3>1, <3>4, <4>1
      <4>3. t[k] \in Seq(Values)
        BY <3>1, <4>2, SeqDef
      <4>4. n <= 1 => t[k] = <<v>>
        BY <4>1, <4>2
      <4>5. ASSUME Len(target[k]) <= 1 PROVE t[k] = RowsOf(s.rows[k]) /\ Len(t[k]) <= 1
        <5>1. t[k] = <<v>>
          BY <4>1, <4>4, <4>5
        <5>2. QED
          BY <3>1, <3>2, <5>1
      <4>6. QED
        BY <4>3, <4>5
    <3>5. QED
      BY <3>3, <3>4
  <2>4. t \in [Keys -> Seq(Values)]
    BY <1>1, <2>1, <2>2, <2>3
  <2>5. QED
    BY <1>4, <2>2, <2>3, <2>4
<1>5. QED
  BY <1>2, <1>3, <1>4 DEF Statement

-----------------------------------------------------------------------------
(* One statement *)

\* What does not depend on statements and target.
LEMMA IKeep ==
    ASSUME LegalInv, BatchInv, UNCHANGED <<sink, log, done, tried, batch, disordered>>
    PROVE  /\ LegalInv' /\ BatchInv'
           /\ History' = History /\ Calm' = Calm /\ Quiet' = Quiet /\ Hit' = Hit
<1>1. History' = History
  BY DEF History, Source
<1>2. Calm' = Calm /\ Quiet' = Quiet /\ Hit' = Hit
  BY DEF Calm, Quiet, Hit
<1>3. LegalInv'
  BY <1>1 DEF LegalInv
<1>4. BatchInv'
  BY <1>1, <1>2 DEF BatchInv
<1>5. QED
  BY <1>1, <1>2, <1>3, <1>4

\* The plan without its first statement.
LEMMA IPlanTail ==
    ASSUME TypeInv, PlanInv, todo # <<>>, todo' = Tail(todo), UNCHANGED <<sink, batch>>
    PROVE  /\ PlanInv' /\ todo' \in Seq(Statement)
           /\ \A k \in Keys : k \in Pending <=> Affects(Head(todo), k) \/ k \in Pending'
           /\ \A k \in Keys : k \in ToDelete <=>
                 (Head(todo).kind = "delete" /\ Head(todo).key = k) \/ k \in ToDelete'
<1>1. PICK s : s = Head(todo)
  OBVIOUS
<1>2. /\ todo' \in Seq(Statement) /\ Len(todo') = Len(todo) - 1
      /\ Len(todo) \in Nat \ {0} /\ s = todo[1] /\ 1 \in 1..Len(todo)
      /\ \A i \in 1..Len(todo') : i + 1 \in 1..Len(todo) /\ todo'[i] = todo[i + 1]
      /\ \A i \in 1..Len(todo) : i = 1 \/ (i - 1 \in 1..Len(todo') /\ todo[i] = todo'[i - 1])
  BY <1>1, QTail DEF TypeInv
<1>3. \A k \in Keys : k \in Pending <=> Affects(s, k) \/ k \in Pending'
  BY <1>2 DEF Pending
<1>4. \A k \in Keys : k \in ToDelete <=> (s.kind = "delete" /\ s.key = k) \/ k \in ToDelete'
  BY <1>2 DEF ToDelete
<1>5. PlanInv'
  <2>1. batch' # <<>> /\ sink' \in {"dremio", "iceberg"}
    BY DEF PlanInv, TypeInv
  <2>2. ASSUME NEW i \in 1..Len(todo')
        PROVE  IF todo'[i].kind = "delete"
               THEN \E j \in 1..Len(batch) :
                       batch[j].old = todo'[i].key /\ (sink = "dremio" => j \in Deletes(batch))
               ELSE todo'[i].rows = LastPerKey(batch)
    BY <1>2, <2>2 DEF PlanInv
  <2>3. ASSUME sink = "dremio", NEW i \in 1..Len(todo')
        PROVE  todo'[i].kind = "delete"
    <3>1. i + 1 > 1 /\ i + 1 \in 1..Len(todo)
      BY <1>2
    <3>2. QED
      BY <1>2, <2>3, <3>1 DEF PlanInv
  <2>4. ASSUME sink = "iceberg", NEW i \in 1..Len(todo')
        PROVE  todo'[i].kind # "merge" /\ (i < Len(todo') => todo'[i].kind = "delete")
    <3>1. i + 1 \in 1..Len(todo) /\ todo'[i] = todo[i + 1] /\ (i < Len(todo') => i + 1 < Len(todo))
      BY <1>2
    <3>2. QED
      BY <2>4, <3>1 DEF PlanInv
  <2>5. ASSUME sink = "iceberg", todo' # <<>>, Upserts(batch) # {}
        PROVE  todo'[Len(todo')].kind = "append"
    <3>1. Len(todo') # 0 /\ Len(todo') \in Nat
      BY <1>2, <2>5, EmptySeq
    <3>2. todo'[Len(todo')] = todo[Len(todo)]
      BY <1>2, <3>1
    <3>3. QED
      BY <2>5, <3>2 DEF PlanInv
  <2>6. QED
    BY <2>1, <2>2, <2>3, <2>4, <2>5 DEF PlanInv
<1>6. QED
  BY <1>1, <1>2, <1>3, <1>4, <1>5

\* The changes of the batch as changes of the log.
LEMMA LFlight ==
    ASSUME TypeInv, LegalInv, BatchInv, NEW j \in 1..Len(batch)
    PROVE  /\ done + j \in (done + 1)..tried /\ done + j \in 1..Len(log)
           /\ done + j \in done..tried /\ done + j \in 0..Len(log)
           /\ batch[j] = log[done + j] /\ batch[j].old \in Keys /\ batch[j].key \in Keys
           /\ \A k \in Keys : Touches(batch[j], k) => k \in Hit /\ k \notin Quiet
           /\ j \in Deletes(batch) =>
                 batch[j].key = batch[j].old /\ History[done + j][batch[j].old] = Absent
           /\ j \in Upserts(batch) => /\ batch[j].val \in Values
                                      /\ History[done + j][batch[j].key] = batch[j].val
<1>1. PICK n, d, t, l : n = Len(batch) /\ d = done /\ t = tried /\ l = Len(log)
  OBVIOUS
<1>2. /\ n \in Nat /\ d \in Nat /\ t \in Nat /\ l \in Nat /\ j \in 1..n /\ d + n <= t /\ t <= l
      /\ batch[j] = log[d + j] /\ batch[j] \in Event
  <2>1. batch # <<>> /\ n \in Nat /\ l \in Nat /\ batch[j] \in Event
    BY <1>1, EmptySeq, LenProperties, ElementOfSeq DEF TypeInv
  <2>2. QED
    BY <1>1, <2>1 DEF TypeInv, BatchInv
<1>3. PICK m : m = d + j
  OBVIOUS
<1>4. m \in (d + 1)..t /\ m \in 1..l /\ m \in d..t /\ m \in 0..l
  BY <1>2, <1>3
<1>5. batch[j] = log[m] /\ batch[j].old \in Keys /\ batch[j].key \in Keys
  BY <1>2, <1>3 DEF Event
<1>6. \A k \in Keys : Touches(batch[j], k) => k \in Hit /\ k \notin Quiet
  BY <1>1, <1>4, <1>5 DEF Hit, Quiet
<1>7. \A k \in Keys : Touches(batch[j], k) =>
          History[m][k] = IF batch[j].key = k THEN batch[j].val ELSE Absent
  <2> SUFFICES ASSUME NEW k \in Keys, Touches(batch[j], k)
               PROVE  History[m][k] = IF batch[j].key = k THEN batch[j].val ELSE Absent
    OBVIOUS
  <2>1. m \in 0..Len(log) /\ m \in 1..m /\ \A i \in (m + 1)..m : ~Touches(log[i], k)
    BY <1>1, <1>2, <1>4
  <2>2. QED
    BY <1>5, <2>1, HLast
<1>8. j \in Deletes(batch) => /\ batch[j].key = batch[j].old
                              /\ History[m][batch[j].old] = Absent
  <2> SUFFICES ASSUME j \in Deletes(batch)
               PROVE  batch[j].key = batch[j].old /\ History[m][batch[j].old] = Absent
    OBVIOUS
  <2>1. log[m].op = "delete"
    BY <1>5 DEF Deletes, IsDelete
  <2>2. batch[j].val = Absent /\ batch[j].old = batch[j].key
    BY <1>1, <1>4, <1>5, <2>1 DEF LegalInv
  <2>3. QED
    BY <1>5, <1>7, <2>2 DEF Touches
<1>9. j \in Upserts(batch) => /\ batch[j].val \in Values
                              /\ History[m][batch[j].key] = batch[j].val
  <2> SUFFICES ASSUME j \in Upserts(batch)
               PROVE  batch[j].val \in Values /\ History[m][batch[j].key] = batch[j].val
    OBVIOUS
  <2>1. log[m].op = "upsert"
    BY <1>5 DEF Upserts, IsUpsert
  <2>2. batch[j].val # Absent
    BY <1>1, <1>4, <1>5, <2>1 DEF LegalInv
  <2>3. QED
    BY <1>2, <1>5, <1>7, <2>2 DEF Touches, Event
<1>10. QED
  BY <1>1, <1>3, <1>4, <1>5, <1>6, <1>8, <1>9

\* The statement about to be executed, the keys it affects, and what is left to do.
LEMMA LNext ==
    ASSUME TypeInv, LegalInv, BatchInv, PlanInv, todo # <<>>, NEW s, s = Head(todo),
           NEW rest, rest = Tail(todo), NEW k \in Calm, Affects(s, k)
    PROVE  /\ s \in Statement /\ k \in Keys /\ k \in Hit /\ k \notin Quiet
           /\ s.kind = "delete" => \/ sink = "iceberg"
                                   \/ \E j \in Deletes(batch) : batch[j].old = k
           /\ s.kind # "delete" => \E j \in Upserts(batch) :
                 batch[j].key = k /\ s.rows[k] = batch[j].val /\ s.rows[k] = LastPerKey(batch)[k]
           /\ (\A i \in 1..Len(rest) : ~Affects(rest[i], k)) =>
                 History[done + Len(batch)][k] =
                    IF s.kind = "delete" THEN Absent ELSE s.rows[k]
<1>1. /\ s \in Statement /\ s = todo[1] /\ 1 \in 1..Len(todo) /\ Len(todo) \in Nat
      /\ Len(rest) = Len(todo) - 1
      /\ \A i \in 1..Len(rest) : i + 1 \in 1..Len(todo) /\ rest[i] = todo[i + 1]
      /\ \A i \in 1..Len(todo) : i = 1 \/ (i - 1 \in 1..Len(rest) /\ todo[i] = rest[i - 1])
  BY QTail DEF TypeInv
<1>2. k \in Keys /\ batch # <<>> /\ batch \in Seq(Event)
  BY DEF Calm, PlanInv, TypeInv
<1>3. CASE s.kind = "delete"
  <2>1. PICK j \in 1..Len(batch) : batch[j].old = k /\ (sink = "dremio" => j \in Deletes(batch))
    BY <1>1, <1>3 DEF PlanInv, Affects
  <2>2. k \in Hit /\ k \notin Quiet
    BY <1>2, <2>1, LFlight DEF Touches
  <2>3. sink = "iceberg" \/ \E i \in Deletes(batch) : batch[i].old = k
    BY <2>1 DEF TypeInv
  <2>4. ASSUME \A i \in 1..Len(rest) : ~Affects(rest[i], k)
        PROVE  History[done + Len(batch)][k] = Absent
    <3>1. CASE sink = "dremio"
      BY <1>2, <2>2, <2>3, <3>1 DEF BatchInv
    <3>2. CASE sink = "iceberg"
      <4>1. History[done + Len(batch)][k] = LastPerKey(batch)[k]
        BY <1>2, <2>2, <3>2 DEF BatchInv
      <4>2. SUFFICES ASSUME LastPerKey(batch)[k] # Absent PROVE FALSE
        BY <4>1
      <4>3. Upserts(batch) # {}
        BY <1>2, <4>2, LLast
      <4>4. PICK n : n = Len(todo)
        OBVIOUS
      <4>5. n \in 1..Len(todo) /\ todo[n].kind = "append"
        BY <1>1, <3>2, <4>3, <4>4 DEF PlanInv
      <4>6. n # 1
        BY <1>1, <1>3, <4>5
      <4>7. todo[n] = rest[n - 1] /\ n - 1 \in 1..Len(rest)
        BY <1>1, <4>5, <4>6
      <4>8. todo[n].rows = LastPerKey(batch)
        BY <4>5 DEF PlanInv
      <4>9. QED
        BY <2>4, <4>2, <4>5, <4>7, <4>8 DEF Affects
    <3>3. QED
      BY <3>1, <3>2 DEF TypeInv
  <2>5. QED
    BY <1>1, <1>2, <1>3, <2>2, <2>3, <2>4
<1>4. CASE s.kind # "delete"
  <2>1. s.rows = LastPerKey(batch) /\ s.rows[k] # Absent
    BY <1>1, <1>4 DEF PlanInv, Affects
  <2>2. PICK j \in Upserts(batch) : batch[j].key = k /\ s.rows[k] = batch[j].val
    BY <1>2, <2>1, LLast
  <2>3. j \in 1..Len(batch)
    BY <1>2, LEvents
  <2>4. k \in Hit /\ k \notin Quiet
    BY <1>2, <2>2, <2>3, LFlight DEF Touches
  <2>5. ASSUME \A i \in 1..Len(rest) : ~Affects(rest[i], k)
        PROVE  History[done + Len(batch)][k] = s.rows[k]
    <3>1. CASE sink = "iceberg"
      BY <1>2, <2>1, <2>4, <3>1 DEF BatchInv
    <3>2. CASE sink = "dremio"
      <4>1. s.kind = "merge"
        BY <1>1, <1>4, <3>2 DEF PlanInv, Statement
      <4>2. k \notin ToDelete
        <5>1. \A i \in 1..Len(todo) : ~(todo[i].kind = "delete" /\ todo[i].key = k)
          BY <1>1, <1>4, <2>5 DEF Affects
        <5>2. QED
          BY <5>1 DEF ToDelete
      <4>3. \A i \in Deletes(batch) : batch[i].old # k
        BY <1>1, <3>2, <4>1, <4>2 DEF PlanInv
      <4>4. QED
        BY <1>2, <2>1, <2>4, <4>3 DEF BatchInv
    <3>3. QED
      BY <3>1, <3>2 DEF TypeInv
  <2>6. QED
    BY <1>1, <1>2, <1>4, <2>1, <2>2, <2>4, <2>5
<1>5. QED
  BY <1>3, <1>4

\* What the statement makes of a key it affects.
LEMMA LApplied ==
    ASSUME Inv, todo # <<>>, NEW s, s = Head(todo), NEW rest, rest = Tail(todo),
           NEW t, t = Executed(s), NEW k \in Calm, Affects(s, k)
    PROVE  /\ Only({"answerLost"}) =>
                 /\ \/ sink = "iceberg" /\ t[k] = <<>>
                    \/ \E m \in done..tried : t[k] = RowsOf(History[m][k])
                 /\ (\A i \in 1..Len(rest) : ~Affects(rest[i], k)) =>
                       t[k] = RowsOf(History[done + Len(batch)][k])
                 /\ s.kind = "delete" => t[k] = <<>>
           /\ sink = "iceberg" /\ (\A i \in 1..Len(rest) : ~Affects(rest[i], k))
              /\ History[done + Len(batch)][k] # Absent =>
                 History[done + Len(batch)][k] \in ToSet(t[k])
<1> USE DEF Inv
<1>1. /\ s \in Statement /\ k \in Keys /\ k \in Hit /\ k \notin Quiet
      /\ s.kind = "delete" => \/ sink = "iceberg"
                              \/ \E j \in Deletes(batch) : batch[j].old = k
      /\ s.kind # "delete" => \E j \in Upserts(batch) :
            batch[j].key = k /\ s.rows[k] = batch[j].val /\ s.rows[k] = LastPerKey(batch)[k]
      /\ (\A i \in 1..Len(rest) : ~Affects(rest[i], k)) =>
            History[done + Len(batch)][k] = IF s.kind = "delete" THEN Absent ELSE s.rows[k]
  BY LNext
<1>2. /\ Len(todo) \in Nat /\ s = todo[1] /\ 1 \in 1..Len(todo)
      /\ \A i \in 1..Len(todo) : i = 1 \/ i > 1
  BY QTail DEF TypeInv
<1>3. batch \in Seq(Event) /\ target[k] \in Seq(Values)
  BY <1>1 DEF TypeInv
<1>4. Upserts(batch) \subseteq 1..Len(batch) /\ Deletes(batch) \subseteq 1..Len(batch)
  BY <1>3, LEvents
<1>5. CASE s.kind = "delete"
  <2>1. t[k] = <<>> /\ RowsOf(Absent) = <<>>
    BY <1>1, <1>5, LExecuted DEF RowsOf
  <2>2. sink = "iceberg" \/ \E m \in done..tried : t[k] = RowsOf(History[m][k])
    <3>1. ASSUME NEW j \in Deletes(batch), batch[j].old = k
          PROVE  \E m \in done..tried : t[k] = RowsOf(History[m][k])
      <4>1. done + j \in done..tried /\ History[done + j][k] = Absent
        BY <1>4, <3>1, LFlight
      <4>2. QED
        BY <2>1, <4>1
    <3>2. QED
      BY <1>1, <1>5, <3>1
  <2>3. QED
    BY <1>1, <1>5, <2>1, <2>2
<1>6. CASE s.kind # "delete"
  <2>1. PICK j \in Upserts(batch) : batch[j].key = k /\ s.rows[k] = batch[j].val
    BY <1>1, <1>6
  <2>2. PICK v : v = s.rows[k]
    OBVIOUS
  <2>3. /\ done + j \in done..tried /\ History[done + j][k] = v
        /\ v \in Values /\ v # Absent /\ RowsOf(v) = <<v>>
    BY <1>4, <2>1, <2>2, LFlight, ConstantsAssumption DEF RowsOf
  <2>4. CASE s.kind = "append"
    <3>1. t[k] = Append(target[k], v)
      BY <1>1, <2>2, <2>4, LExecuted
    <3>2. v \in ToSet(t[k])
      <4>1. PICK old, new : old \in Seq(Values) /\ old = target[k] /\ new = Append(old, v)
        BY <1>3
      <4>2. new \in Seq(Values) /\ Len(new) = Len(old) + 1 /\ new[Len(old) + 1] = v
        BY <2>3, <4>1, AppendProperties
      <4>3. DOMAIN new = 1..Len(new) /\ Len(old) + 1 \in 1..Len(new)
        BY <4>2, LenProperties
      <4>4. QED
        BY <3>1, <4>1, <4>2, <4>3 DEF ToSet
    <3>3. Only({"answerLost"}) => t[k] = <<v>>
      <4>1. sink = "iceberg"
        BY <1>2, <2>4 DEF PlanInv, TypeInv
      <4>2. Len(todo) = 1
        <5>1. PICK n \in Nat : n = Len(todo) /\ 1 \in 1..n
          BY <1>2
        <5>2. 1 < n => todo[1].kind = "delete"
          BY <4>1, <5>1 DEF PlanInv
        <5>3. QED
          BY <1>2, <2>4, <5>1, <5>2
      <4>3. k \in Pending /\ k \notin ToDelete
        BY <1>1, <1>2, <2>4, <4>2 DEF Pending, ToDelete
      <4>4. Only({"answerLost"}) => target[k] = <<>>
        BY <4>1, <4>3 DEF ExactInv
      <4>5. QED
        BY <3>1, <4>4
    <3>4. QED
      BY <1>1, <1>6, <2>2, <2>3, <3>2, <3>3
  <2>5. CASE s.kind = "merge"
    <3>1. sink = "dremio" /\ Len(target[k]) <= 1
      BY <1>1, <1>2, <2>5 DEF PlanInv, TypeInv, FaultInv
    <3>2. t[k] = RowsOf(v)
      BY <1>1, <2>2, <2>5, <3>1, LExecuted
    <3>3. QED
      BY <1>1, <1>6, <2>2, <2>3, <3>1, <3>2
  <2>6. QED
    BY <1>1, <1>6, <2>4, <2>5 DEF Statement
<1>7. QED
  BY <1>5, <1>6

\* Rows of keys that a job does not add to.
LEMMA IDremioRows ==
    ASSUME TypeInv, FaultInv, sink = "dremio", NEW s \in Statement, s.kind # "append",
           target' = Executed(s)
    PROVE  target' \in [Keys -> Seq(Values)] /\ \A k \in Keys : Len(target'[k]) <= 1
<1>1. PICK t : t = Executed(s)
  OBVIOUS
<1>2. t \in [Keys -> Seq(Values)] /\ \A k \in Keys : Len(target[k]) <= 1 => Len(t[k]) <= 1
  BY <1>1, LExecuted
<1>3. QED
  BY <1>1, <1>2 DEF FaultInv

LEMMA IExecute == ASSUME Inv, Execute PROVE Inv'
<1> USE DEF Inv
<1>1. PICK s : s = Head(todo)
  OBVIOUS
<1>2. /\ todo # <<>> /\ target' = Executed(s) /\ todo' = Tail(todo)
      /\ UNCHANGED <<sink, log, done, tried, batch, late, disordered, faults>>
  BY <1>1 DEF Execute
<1>3. /\ LegalInv' /\ BatchInv'
      /\ History' = History /\ Calm' = Calm /\ Quiet' = Quiet /\ Hit' = Hit
  BY <1>2, IKeep
<1>4. /\ PlanInv' /\ todo' \in Seq(Statement)
      /\ \A k \in Keys : k \in Pending <=> Affects(s, k) \/ k \in Pending'
      /\ \A k \in Keys : k \in ToDelete <=> (s.kind = "delete" /\ s.key = k) \/ k \in ToDelete'
  BY <1>1, <1>2, IPlanTail
<1>5. s \in Statement /\ s = todo[1] /\ 1 \in 1..Len(todo)
  BY <1>1, <1>2, QTail DEF TypeInv
<1>6. /\ target' \in [Keys -> Seq(Values)]
      /\ \A k \in Keys : ~Affects(s, k) => target'[k] = target[k]
  BY <1>2, <1>5, LExecuted
<1>7. TypeInv'
  BY <1>2, <1>4, <1>6 DEF TypeInv
<1>8. FaultInv'
  <2>1. sink = "dremio" => s.kind # "append"
    BY <1>5 DEF PlanInv
  <2>2. sink = "dremio" => \A k \in Keys : Len(target'[k]) <= 1
    BY <1>2, <1>5, <2>1, IDremioRows
  <2>3. QED
    BY <1>2, <2>2 DEF FaultInv
<1>9. \A k \in Keys : k \notin Pending' => \A i \in 1..Len(todo') : ~Affects(todo'[i], k)
  BY DEF Pending
<1>10. ExactInv'
  <2> SUFFICES ASSUME Only({"answerLost"}), NEW k \in Calm
               PROVE  /\ \/ sink = "iceberg" /\ target'[k] = <<>>
                         \/ \E m \in done..tried : target'[k] = RowsOf(History[m][k])
                      /\ k \in Quiet => target'[k] = RowsOf(History[done][k])
                      /\ k \in Hit \ Pending' =>
                            target'[k] = RowsOf(History[done + Len(batch)][k])
                      /\ sink = "iceberg" /\ k \in Pending' \ ToDelete' => target'[k] = <<>>
    BY <1>2, <1>3 DEF ExactInv, Only
  <2>1. k \in Keys
    BY DEF Calm
  <2>2. CASE Affects(s, k)
    <3>1. /\ \/ sink = "iceberg" /\ target'[k] = <<>>
             \/ \E m \in done..tried : target'[k] = RowsOf(History[m][k])
          /\ (\A i \in 1..Len(todo') : ~Affects(todo'[i], k)) =>
                target'[k] = RowsOf(History[done + Len(batch)][k])
          /\ s.kind = "delete" => target'[k] = <<>>
      BY <1>1, <1>2, <2>2, LApplied, SMTT(40)
    <3>2. k \notin Quiet
      BY <1>1, <1>2, <2>2, LNext
    <3>3. sink = "iceberg" /\ k \in Pending' => s.kind = "delete"
      <4>1. ASSUME s.kind # "delete", sink = "iceberg" PROVE Len(todo') = 0
        <5>1. PICK n \in Nat : n = Len(todo) /\ 1 \in 1..n /\ Len(todo') = n - 1
          BY <1>2, <1>5, QTail DEF TypeInv
        <5>2. 1 < n => todo[1].kind = "delete"
          BY <4>1, <5>1 DEF PlanInv
        <5>3. QED
          BY <1>5, <4>1, <5>1, <5>2
      <4>2. QED
        BY <4>1 DEF Pending
    <3>4. QED
      BY <1>9, <2>1, <3>1, <3>2, <3>3
  <2>3. CASE ~Affects(s, k)
    <3>1. target'[k] = target[k] /\ (k \in Pending <=> k \in Pending')
          /\ (k \in ToDelete <=> k \in ToDelete')
      BY <1>4, <1>6, <2>1, <2>3 DEF Affects
    <3>2. QED
      BY <3>1 DEF ExactInv
  <2>4. QED
    BY <2>2, <2>3
<1>11. SurvivesInv'
  <2> SUFFICES ASSUME sink = "iceberg", NEW k \in Calm
               PROVE  /\ k \in Quiet /\ History[done][k] # Absent
                           => History[done][k] \in ToSet(target'[k])
                      /\ k \in Hit \ Pending' /\ History[done + Len(batch)][k] # Absent
                           => History[done + Len(batch)][k] \in ToSet(target'[k])
    BY <1>2, <1>3 DEF SurvivesInv
  <2>1. k \in Keys
    BY DEF Calm
  <2>2. CASE Affects(s, k)
    <3>1. (\A i \in 1..Len(todo') : ~Affects(todo'[i], k))
            /\ History[done + Len(batch)][k] # Absent =>
               History[done + Len(batch)][k] \in ToSet(target'[k])
      BY <1>1, <1>2, <2>2, LApplied
    <3>2. k \notin Quiet
      BY <1>1, <1>2, <2>2, LNext
    <3>3. QED
      BY <1>9, <2>1, <3>1, <3>2
  <2>3. CASE ~Affects(s, k)
    <3>1. target'[k] = target[k] /\ (k \in Pending <=> k \in Pending')
      BY <1>4, <1>6, <2>1, <2>3
    <3>2. QED
      BY <3>1 DEF SurvivesInv
  <2>4. QED
    BY <2>2, <2>3
<1>12. QED
  BY <1>3, <1>4, <1>7, <1>8, <1>10, <1>11

-----------------------------------------------------------------------------
(* Writing a batch *)

LEMMA SLeast ==
    ASSUME NEW n \in Nat, NEW H \in SUBSET (0..n), H # {}
    PROVE  \E l \in H : \A i \in H : l <= i
<1>1. PICK G : G = {g \in 0..n : n - g \in H}
  OBVIOUS
<1>2. PICK h \in H : TRUE
  OBVIOUS
<1>3. h \in 0..n /\ n - h \in 0..n /\ n - (n - h) = h
  BY <1>2
<1>4. G \in SUBSET (0..n) /\ G # {}
  BY <1>1, <1>2, <1>3
<1>5. PICK m \in G : m \in 0..n /\ \A g \in G : g <= m
  BY <1>4, SGreatest
<1>6. ASSUME NEW i \in H PROVE n - m <= i
  <2>1. i \in 0..n /\ n - i \in 0..n /\ n - (n - i) = i
    BY <1>6
  <2>2. n - i <= m
    BY <1>1, <1>5, <2>1
  <2>3. QED
    BY <1>5, <2>1, <2>2
<1>7. QED
  BY <1>1, <1>5, <1>6

\* If the batch meets no known reordering of a key, its last statements about the key
\* leave what its changes leave.
LEMMA LFinal ==
    ASSUME TypeInv, LegalInv, NEW b \in Seq(Event), NEW n \in Nat, n = Len(b),
           done + n <= Len(log), \A i \in 1..n : b[i] = log[done + i],
           NEW k \in Keys, ~Reorders(b, k), \E i \in 1..n : Touches(b[i], k)
    PROVE  /\ History[done + n][k] =
                 IF sink = "dremio" /\ \E i \in Deletes(b) : b[i].old = k
                 THEN Absent ELSE LastPerKey(b)[k]
           /\ \/ \E i \in 1..n : b[i].old = k /\ (sink = "iceberg" \/ i \in Deletes(b))
              \/ LastPerKey(b)[k] # Absent
<1>1. /\ done \in Nat /\ Len(log) \in Nat /\ sink \in {"dremio", "iceberg"}
      /\ DOMAIN b = 1..n
      /\ Upserts(b) \union Deletes(b) = 1..n
  BY LEvents, LenProperties DEF TypeInv
<1>2. PICK T : T = {i \in 1..n : Touches(b[i], k)}
  OBVIOUS
<1>3. T \in SUBSET (0..n) /\ T # {}
  BY <1>1, <1>2
<1>4. PICK l \in T : \A i \in T : i <= l
  <2>1. Max(T) \in T /\ \A i \in T : i <= Max(T)
    BY <1>3, SGreatest
  <2>2. QED
    BY <2>1
<1>5. l \in 1..n /\ Touches(b[l], k)
  BY <1>2, <1>4
<1>6. History[done + n][k] = IF b[l].key = k THEN b[l].val ELSE Absent
  <2>1. PICK m, j : /\ m = done + n /\ j = done + l
                    /\ m \in 0..Len(log) /\ m \in Nat /\ j \in Nat /\ j \in 1..m
    <3>1. done \in Nat /\ l \in 1..n /\ done + n <= Len(log)
      BY <1>1, <1>5
    <3>2. /\ done + n \in 0..Len(log) /\ done + n \in Nat
          /\ done + l \in Nat /\ done + l \in 1..(done + n)
      BY <1>1, <3>1
    <3>3. QED
      BY <3>2
  <2>2. b[l] = log[j]
    BY <1>5, <2>1
  <2>3. ASSUME NEW i \in (j + 1)..m PROVE ~Touches(log[i], k)
    <3>1. i - done \in 1..n /\ done + (i - done) = i /\ ~(i - done <= l)
      BY <1>1, <1>5, <2>1
    <3>2. i - done \notin T
      BY <1>4, <3>1
    <3>3. b[i - done] = log[i]
      BY <3>1
    <3>4. QED
      BY <1>2, <3>1, <3>2, <3>3
  <2>4. History[m][k] = IF log[j].key = k THEN log[j].val ELSE Absent
    <3>1. j \in 1..m /\ Touches(log[j], k)
      BY <1>5, <2>1, <2>2
    <3>2. QED
      BY <2>1, <2>3, <3>1, HLast
  <2>5. QED
    BY <2>1, <2>2, <2>4
<1>7. \A i \in 1..n : /\ b[i].old \in Keys /\ b[i].key \in Keys
                      /\ i \in Upserts(b) => b[i].val # Absent
                      /\ i \in Deletes(b) => b[i].val = Absent /\ b[i].old = b[i].key
  <2> SUFFICES ASSUME NEW i \in 1..n
               PROVE  /\ i \in Upserts(b) => b[i].val # Absent
                      /\ i \in Deletes(b) => b[i].val = Absent /\ b[i].old = b[i].key
    BY LEvents
  <2>1. done + i \in 1..Len(log) /\ b[i] = log[done + i]
    BY <1>1
  <2>2. QED
    BY <2>1 DEF LegalInv, Upserts, Deletes, IsUpsert, IsDelete
<1>8. \/ /\ \A i \in Upserts(b) : b[i].key # k
         /\ LastPerKey(b)[k] = Absent
      \/ \E j \in Upserts(b) :
            /\ b[j].key = k /\ LastPerKey(b)[k] = b[j].val
            /\ \A i \in Upserts(b) : b[i].key = k => i <= j
  BY LLast
<1>9. l \in Upserts(b) /\ b[l].key = k => LastPerKey(b)[k] = b[l].val
  <2> SUFFICES ASSUME l \in Upserts(b), b[l].key = k PROVE LastPerKey(b)[k] = b[l].val
    OBVIOUS
  <2>1. PICK j \in Upserts(b) : b[j].key = k /\ LastPerKey(b)[k] = b[j].val /\ l <= j
    BY <1>8
  <2>2. j \in T /\ j \in Nat /\ l \in Nat
    BY <1>1, <1>2, <1>5, <2>1 DEF Touches
  <2>3. j = l
    BY <1>4, <2>1, <2>2
  <2>4. QED
    BY <2>1, <2>3
<1>10. ASSUME NEW i \in 1..n, Touches(b[i], k), i # l PROVE i < l
  <2>1. i \in T /\ i \in Nat /\ l \in Nat
    BY <1>2, <1>5, <1>10
  <2>2. QED
    BY <1>4, <1>10, <2>1
<1>11. CASE sink = "dremio"
  <2>1. /\ \A i, j \in DOMAIN b :
              ~(i < j /\ IsDelete(b[i]) /\ b[i].key = k /\ IsUpsert(b[j]) /\ b[j].key = k)
        /\ \A e \in ToSet(b) : e.old = k => e.key = k
    BY <1>11 DEF Reorders, DremioReorders
  <2>2. b[l].key = k
    BY <1>1, <1>5, <2>1 DEF Touches, ToSet
  <2>3. CASE \E i \in Deletes(b) : b[i].old = k
    <3>1. PICK i \in Deletes(b) : b[i].old = k /\ b[i].key = k /\ i \in 1..n
      BY <1>1, <1>7, <2>3
    <3>2. l \in Deletes(b)
      <4>1. l # i => i < l
        BY <1>10, <3>1 DEF Touches
      <4>2. l \in Upserts(b) => ~(i < l)
        BY <1>1, <1>5, <2>1, <2>2, <3>1 DEF Upserts, Deletes
      <4>3. QED
        BY <1>1, <1>5, <3>1, <4>1, <4>2
    <3>3. QED
      BY <1>5, <1>6, <1>7, <1>11, <2>2, <2>3, <3>1, <3>2
  <2>4. CASE ~\E i \in Deletes(b) : b[i].old = k
    <3>1. l \in Upserts(b)
      BY <1>1, <1>5, <1>7, <2>2, <2>4
    <3>2. QED
      BY <1>5, <1>6, <1>7, <1>9, <2>2, <2>4, <3>1
  <2>5. QED
    BY <2>3, <2>4
<1>12. CASE sink = "iceberg"
  <2>1. \A i, j \in DOMAIN b :
           ~(/\ i < j /\ IsUpsert(b[i]) /\ b[i].key = k
             /\ b[j].old = k /\ (IsDelete(b[j]) \/ b[j].key # k))
    BY <1>12 DEF Reorders, IcebergReorders
  <2>2. CASE l \in Upserts(b) /\ b[l].key = k
    BY <1>5, <1>6, <1>7, <1>9, <1>12, <2>2
  <2>3. CASE ~(l \in Upserts(b) /\ b[l].key = k)
    <3>1. b[l].old = k /\ (IsDelete(b[l]) \/ b[l].key # k)
      BY <1>1, <1>5, <1>7, <2>3 DEF Touches, Upserts, Deletes
    <3>2. b[l].key = k => b[l].val = Absent
      BY <1>1, <1>5, <1>7, <2>3
    <3>3. ASSUME NEW j \in Upserts(b), b[j].key = k PROVE FALSE
      <4>1. j \in 1..n /\ Touches(b[j], k) /\ j # l
        BY <1>1, <2>3, <3>3 DEF Touches
      <4>2. j < l
        BY <1>10, <4>1
      <4>3. QED
        BY <1>1, <1>5, <2>1, <3>1, <3>3, <4>1, <4>2 DEF Upserts
    <3>4. LastPerKey(b)[k] = Absent
      BY <1>8, <3>3
    <3>5. QED
      BY <1>5, <1>6, <1>12, <3>1, <3>2, <3>4
  <2>4. QED
    BY <2>2, <2>3
<1>13. QED
  BY <1>1, <1>11, <1>12

LEMMA IWriteBatch == ASSUME Inv, NEW n, WriteBatch(n) PROVE Inv'
<1> USE DEF Inv
<1>1. /\ batch = <<>> /\ todo = <<>> /\ n \in Nat \ {0} /\ done + n <= Len(log)
      /\ done \in Nat /\ tried \in Nat /\ Len(log) \in Nat /\ done <= tried /\ tried <= Len(log)
  BY ConstantsAssumption, LenProperties DEF WriteBatch, Idle, PlanInv, TypeInv
<1>2. PICK b, s : b = batch' /\ s = todo'
  OBVIOUS
<1>3. b \in Seq(Event) /\ n = Len(b) /\ \A i \in 1..n : b[i] = log[done + i]
  <2>1. b = SubSeq(log, done + 1, done + n) /\ log \in Seq(Event)
    BY <1>2 DEF WriteBatch, TypeInv
  <2>2. PICK m, p : m = done + 1 /\ p = done + n
    OBVIOUS
  <2>3. /\ m \in 1..(Len(log) + 1) /\ p \in 0..Len(log) /\ p - m + 1 = n /\ ~(p < m)
        /\ \A i \in 1..n : m + i - 1 = done + i
    BY <1>1, <2>2
  <2>4. b \in Seq(Event) /\ Len(b) = n /\ \A i \in 1..n : b[i] = log[m + i - 1]
    <3>1. m \in Int /\ p \in Int /\ \A i \in m..p : i \in 1..Len(log)
      BY <1>1, <2>2
    <3>2. \A i \in m..p : log[i] \in Event
      BY <2>1, <3>1, ElementOfSeq
    <3>3. PICK q : q = SubSeq(log, m, p)
      OBVIOUS
    <3>4. /\ q \in Seq(Event) /\ Len(q) = IF m <= p THEN p - m + 1 ELSE 0
          /\ \A i \in 1..(p - m + 1) : q[i] = log[m + i - 1]
      BY <3>1, <3>2, <3>3, SubSeqProperties
    <3>5. b = q /\ m <= p
      BY <1>1, <2>1, <2>2, <3>3
    <3>6. QED
      BY <2>3, <3>4, <3>5
  <2>5. QED
    BY <2>3, <2>4
<1>4. s = Statements(b)
  BY <1>2 DEF WriteBatch
<1>5. /\ s \in Seq(Statement)
      /\ \A i \in 1..Len(s) :
            IF s[i].kind = "delete"
            THEN \E j \in 1..Len(b) :
                    b[j].old = s[i].key /\ (sink = "dremio" => j \in Deletes(b))
            ELSE s[i].rows = LastPerKey(b)
      /\ sink = "dremio" => \A i \in 1..Len(s) :
            s[i].kind # "append" /\ (i > 1 => s[i].kind = "delete")
      /\ sink = "iceberg" => \A i \in 1..Len(s) :
            s[i].kind # "merge" /\ (i < Len(s) => s[i].kind = "delete")
      /\ \A j \in 1..Len(b) : sink = "iceberg" \/ j \in Deletes(b) =>
            \E i \in 1..Len(s) : s[i] = RowDelete(b[j].old)
      /\ Upserts(b) # {} =>
            \E i \in 1..Len(s) : s[i].kind # "delete" /\ (sink = "iceberg" => i = Len(s))
  BY <1>3, <1>4, LPlan, SMTT(40)
<1>6. /\ tried' \in Nat /\ done + n <= tried' /\ tried <= tried' /\ tried' <= Len(log)
  <2>1. tried' = Max({tried, done + n})
    BY DEF WriteBatch
  <2>2. {tried, done + n} \in SUBSET (0..Len(log)) /\ {tried, done + n} # {}
    BY <1>1
  <2>3. /\ Max({tried, done + n}) \in 0..Len(log)
        /\ \A i \in {tried, done + n} : i <= Max({tried, done + n})
    BY <1>1, <2>2, SGreatest
  <2>4. QED
    BY <1>1, <2>1, <2>3
<1>7. UNCHANGED <<sink, log, done, late, target, faults>>
  BY DEF WriteBatch
<1>8. History' = History
  BY <1>7 DEF History, Source
<1>9. disordered' = disordered \union {k \in Keys : Reorders(b, k)}
  BY <1>2 DEF WriteBatch
<1>10. \A k \in Calm' : k \in Keys /\ k \in Calm /\ ~Reorders(b, k)
  BY <1>9 DEF Calm
<1>11. /\ \A k : k \in Hit' <=> k \in Keys /\ \E i \in 1..n : Touches(b[i], k)
       /\ \A k \in Quiet' : k \in Quiet
  <2>1. \A i \in (done + 1)..tried : i \in (done' + 1)..tried' /\ log'[i] = log[i]
    BY <1>1, <1>6, <1>7
  <2>2. QED
    BY <1>2, <1>3, <2>1 DEF Hit, Quiet
<1>12. ASSUME NEW k \in Calm', k \in Hit'
       PROVE  /\ History[done + n][k] =
                    IF sink = "dremio" /\ \E i \in Deletes(b) : b[i].old = k
                    THEN Absent ELSE LastPerKey(b)[k]
              /\ \/ \E i \in 1..n : b[i].old = k /\ (sink = "iceberg" \/ i \in Deletes(b))
                 \/ LastPerKey(b)[k] # Absent
  BY <1>1, <1>3, <1>10, <1>11, <1>12, LFinal
<1>13. TypeInv'
  BY <1>1, <1>2, <1>3, <1>5, <1>6, <1>7, <1>9 DEF TypeInv
<1>14. LegalInv'
  BY <1>7, <1>8 DEF LegalInv
<1>15. BatchInv'
  BY <1>2, <1>3, <1>6, <1>7, <1>8, <1>12 DEF BatchInv
<1>16. PlanInv'
  <2>1. b # <<>>
    BY <1>1, <1>3, EmptySeq
  <2>2. ASSUME sink = "dremio", NEW j \in Deletes(b) PROVE b[j].old \in ToDelete'
    <3>1. j \in 1..Len(b) /\ b[j].old \in Keys
      BY <1>3, <2>2, LEvents
    <3>2. PICK i \in 1..Len(s) : s[i] = RowDelete(b[j].old)
      BY <1>5, <2>2, <3>1
    <3>3. QED
      BY <1>2, <3>1, <3>2 DEF ToDelete, RowDelete
  <2>3. ASSUME sink = "iceberg", Upserts(b) # {} PROVE s[Len(s)].kind = "append"
    <3>1. PICK i \in 1..Len(s) : s[i].kind # "delete" /\ i = Len(s)
      BY <1>5, <2>3
    <3>2. s[i] \in Statement /\ s[i].kind # "merge"
      BY <1>5, <2>3, ElementOfSeq
    <3>3. QED
      BY <3>1, <3>2 DEF Statement
  <2>4. QED
    BY <1>2, <1>3, <1>5, <1>7, <2>1, <2>2, <2>3, SMTT(40) DEF PlanInv
<1>17. FaultInv'
  BY <1>7 DEF FaultInv
<1>18. ASSUME NEW k \in Calm', k \in Hit' PROVE k \in Pending'
  <2>1. CASE \E i \in 1..n : b[i].old = k /\ (sink = "iceberg" \/ i \in Deletes(b))
    <3>1. PICK i \in 1..Len(s) : s[i] = RowDelete(k)
      <4>1. PICK j \in 1..n : b[j].old = k /\ (sink = "iceberg" \/ j \in Deletes(b))
        BY <2>1
      <4>2. \E i \in 1..Len(s) : s[i] = RowDelete(b[j].old)
        BY <1>3, <1>5, <4>1
      <4>3. QED
        BY <4>1, <4>2
    <3>2. QED
      BY <1>2, <1>10, <1>18, <3>1 DEF Pending, Affects, RowDelete
  <2>2. CASE LastPerKey(b)[k] # Absent
    <3>1. Upserts(b) # {}
      BY <1>3, <1>10, <1>18, <2>2, LLast
    <3>2. PICK i \in 1..Len(s) : s[i].kind # "delete" /\ s[i].rows = LastPerKey(b)
      BY <1>5, <3>1
    <3>3. QED
      BY <1>2, <1>10, <1>18, <2>2, <3>2 DEF Pending, Affects
  <2>3. QED
    BY <1>12, <1>18, <2>1, <2>2
<1>19. ASSUME NEW k \in Calm', sink = "iceberg", Only({"answerLost"}), k \in Pending' \ ToDelete'
       PROVE  target[k] = <<>>
  <2>1. \A j \in 1..n : b[j].old # k
    <3> SUFFICES ASSUME NEW j \in 1..n, b[j].old = k PROVE FALSE
      OBVIOUS
    <3>1. PICK i \in 1..Len(s) : s[i] = RowDelete(k)
      BY <1>3, <1>5, <1>19
    <3>2. QED
      BY <1>2, <1>10, <1>19, <3>1 DEF ToDelete, RowDelete
  <2>2. PICK i \in 1..Len(s) : Affects(s[i], k)
    BY <1>2, <1>19 DEF Pending
  <2>3. s[i].kind # "delete"
    BY <1>2, <1>10, <1>19, <2>2 DEF Affects, ToDelete
  <2>4. LastPerKey(b)[k] # Absent
    BY <1>5, <2>2, <2>3 DEF Affects
  <2>5. PICK j \in 1..n : b[j].key = k
    BY <1>3, <1>10, <2>4, LLast, LEvents
  <2>6. PICK H : H = {h \in 1..n : Touches(b[h], k)}
    OBVIOUS
  <2>7. H \in SUBSET (0..n) /\ H # {}
    BY <1>1, <2>5, <2>6 DEF Touches
  <2>8. PICK f \in H : \A h \in H : f <= h
    BY <1>1, <2>7, SLeast
  <2>9. f \in 1..n /\ b[f].key = k /\ b[f].old # k
    BY <2>1, <2>6, <2>8 DEF Touches
  <2>10. PICK p \in Nat : p = done + f - 1 /\ p + 1 = done + f /\ p \in 0..Len(log)
                          /\ p + 1 \in 1..Len(log)
    BY <1>1, <2>9
  <2>11. tried <= p
    <3>1. ~(done + f <= tried)
      BY <1>3, <1>10, <1>19, <2>9, LenProperties DEF Reorders, IcebergReorders
    <3>2. QED
      BY <1>1, <2>9, <2>10, <3>1
  <2>12. History[p][k] = Absent
    <3>1. log[p + 1] = b[f] /\ p + 1 - 1 = p
      BY <1>3, <2>9, <2>10
    <3>2. \/ log[p + 1].op = "upsert" /\ log[p + 1].old = log[p + 1].key
          \/ log[p + 1].op = "upsert" /\ History[p][log[p + 1].key] = Absent
          \/ log[p + 1].op = "delete" /\ log[p + 1].old = log[p + 1].key
      BY <2>10, <3>1 DEF LegalInv
    <3>3. QED
      BY <2>9, <3>1, <3>2
  <2>13. ASSUME NEW m \in done..tried PROVE History[m][k] = Absent
    <3>1. m \in 0..Len(log) /\ m <= p
      BY <1>1, <2>10, <2>11
    <3>2. ASSUME NEW h \in (m + 1)..p PROVE ~Touches(log[h], k)
      <4>1. h - done \in 1..n /\ done + (h - done) = h /\ ~(f <= h - done)
        BY <1>1, <2>9, <2>10, <3>1
      <4>2. h - done \notin H
        BY <2>8, <4>1
      <4>3. log[h] = b[h - done]
        BY <1>3, <4>1
      <4>4. QED
        BY <2>6, <4>1, <4>2, <4>3
    <3>3. History[p][k] = History[m][k]
      BY <1>10, <2>10, <3>1, <3>2, HStill
    <3>4. QED
      BY <2>12, <3>3
  <2>14. \/ target[k] = <<>>
         \/ \E m \in done..tried : target[k] = RowsOf(History[m][k])
    BY <1>10, <1>19 DEF ExactInv
  <2>15. QED
    BY <2>13, <2>14 DEF RowsOf
<1>20. ExactInv'
  <2> SUFFICES ASSUME Only({"answerLost"}), NEW k \in Calm'
               PROVE  /\ \/ sink = "iceberg" /\ target[k] = <<>>
                         \/ \E m \in done..tried' : target[k] = RowsOf(History[m][k])
                      /\ k \in Quiet' => target[k] = RowsOf(History[done][k])
                      /\ k \notin Hit' \ Pending'
                      /\ sink = "iceberg" /\ k \in Pending' \ ToDelete' => target[k] = <<>>
    BY <1>7, <1>8 DEF ExactInv, Only
  <2>1. \A m \in done..tried : m \in done..tried'
    BY <1>1, <1>6
  <2>2. QED
    BY <1>10, <1>11, <1>18, <1>19, <2>1 DEF ExactInv
<1>21. SurvivesInv'
  BY <1>7, <1>8, <1>10, <1>11, <1>18 DEF SurvivesInv
<1>22. QED
  BY <1>13, <1>14, <1>15, <1>16, <1>17, <1>20, <1>21

-----------------------------------------------------------------------------
(* The other steps *)

LEMMA IInit == ASSUME Init PROVE Inv
<1>1. /\ sink \in {"dremio", "iceberg"} /\ log = <<>> /\ done = 0 /\ tried = 0 /\ batch = <<>>
      /\ todo = <<>> /\ late = {} /\ target = [k \in Keys |-> <<>>] /\ disordered = {}
      /\ faults = {} /\ Len(log) = 0 /\ Len(batch) = 0 /\ Len(todo) = 0
  BY ConstantsAssumption, EmptySeq DEF Init
<1>2. \A k \in Keys : target[k] = <<>> /\ Len(target[k]) = 0
  BY <1>1, EmptySeq
<1>3. \A k \in Keys : History[0][k] = Absent
  <2>1. \A k : {i \in 1..0 : Touches(log[i], k)} = {}
    OBVIOUS
  <2>2. \A k \in Keys : Source(0)[k] = Absent
    BY <2>1 DEF Source
  <2>3. QED
    BY <1>1, <2>2 DEF History
<1>4. TypeInv
  BY <1>1, EmptySeq DEF TypeInv
<1>5. LegalInv /\ BatchInv /\ PlanInv
  BY <1>1 DEF LegalInv, BatchInv, PlanInv
<1>6. FaultInv
  BY <1>1, <1>2 DEF FaultInv
<1>7. Hit = {} /\ Pending = {}
  BY <1>1 DEF Hit, Pending
<1>8. Calm \subseteq Keys
  BY DEF Calm
<1>9. ExactInv
  <2>1. \A k \in Keys : target[k] = RowsOf(History[0][k])
    BY <1>2, <1>3 DEF RowsOf
  <2>2. 0 \in done..tried
    BY <1>1
  <2>3. QED
    BY <1>1, <1>7, <1>8, <2>1, <2>2 DEF ExactInv
<1>10. SurvivesInv
  BY <1>1, <1>3, <1>7, <1>8 DEF SurvivesInv
<1>11. QED
  BY <1>4, <1>5, <1>6, <1>9, <1>10 DEF Inv

\* The source changes while a batch may be in flight.
LEMMA IChange == ASSUME Inv, NEW e \in Event, Change(e) PROVE Inv'
<1> USE DEF Inv
<1>1. /\ log \in Seq(Event) /\ log' = Append(log, e)
      /\ UNCHANGED <<sink, done, tried, batch, todo, late, target, disordered, faults>>
  BY DEF Change, TypeInv
<1>2. PICK len \in Nat : len = Len(log)
  BY <1>1, LenProperties
<1>3. /\ log' \in Seq(Event) /\ Len(log') = len + 1
      /\ \A i \in 1..len : log'[i] = log[i]
      /\ log'[len + 1] = e
  BY <1>1, <1>2, AppendProperties
<1>4. \A n \in 0..len : History'[n] = History[n]
  BY <1>2, <1>3, HPrefix
<1>5. /\ done \in Nat /\ tried \in Nat /\ done <= tried /\ tried <= len
      /\ Len(batch) \in Nat /\ (batch # <<>> => done + Len(batch) <= tried)
  BY <1>2, LenProperties DEF TypeInv, BatchInv
<1>6. TypeInv'
  BY <1>1, <1>3, <1>5 DEF TypeInv
<1>7. /\ Calm' = Calm /\ Hit' = Hit /\ Pending' = Pending /\ ToDelete' = ToDelete
  BY <1>1 DEF Calm, Hit, Pending, ToDelete
<1>8. Quiet' = Quiet
  <2>1. \A i \in (done + 1)..tried : log'[i] = log[i]
    BY <1>3, <1>5
  <2>2. QED
    BY <1>1, <2>1 DEF Quiet
<1>9. Hit # {} => batch # <<>>
  BY EmptySeq DEF Hit
<1>10. LegalInv'
  <2> SUFFICES ASSUME NEW i \in 1..(len + 1)
               PROVE  \/ /\ log'[i].op = "upsert" /\ log'[i].val # Absent
                         /\ \/ log'[i].old = log'[i].key
                            \/ History'[i - 1][log'[i].key] = Absent
                      \/ /\ log'[i].op = "delete" /\ log'[i].val = Absent
                         /\ log'[i].old = log'[i].key
    BY <1>3 DEF LegalInv
  <2>1. CASE i \in 1..len
    <3>1. History'[i - 1] = History[i - 1] /\ log'[i] = log[i]
      BY <1>2, <1>3, <1>4, <2>1
    <3>2. QED
      BY <1>2, <2>1, <3>1 DEF LegalInv
  <2>2. CASE i = len + 1
    <3>1. log'[i] = e /\ i - 1 = len
      BY <1>2, <1>3, <2>2
    <3>2. History'[len] = Source(Len(log))
      BY <1>2, <1>4 DEF History
    <3>3. \/ e.op = "upsert" /\ e.val # Absent /\ e.old = e.key
          \/ e.op = "delete" /\ e.val = Absent /\ e.old = e.key
          \/ e.op = "upsert" /\ e.val # Absent /\ Source(Len(log))[e.key] = Absent
      BY DEF Change
    <3>4. QED
      BY <3>1, <3>2, <3>3
  <2>3. QED
    BY <1>2, <2>1, <2>2
<1>11. BatchInv'
  <2>1. ASSUME batch # <<>> PROVE History'[done + Len(batch)] = History[done + Len(batch)]
    BY <1>4, <1>5, <2>1
  <2>2. \A i \in 1..Len(batch) : batch # <<>> => log'[done + i] = log[done + i]
    BY <1>3, <1>5
  <2>3. QED
    BY <1>1, <1>7, <2>1, <2>2 DEF BatchInv
<1>12. PlanInv' /\ FaultInv'
  BY <1>1, <1>7 DEF PlanInv, FaultInv
<1>13. /\ \A m \in done..tried : History'[m] = History[m]
       /\ History'[done] = History[done]
       /\ Hit # {} => History'[done + Len(batch)] = History[done + Len(batch)]
  BY <1>4, <1>5, <1>9
<1>14. ExactInv'
  BY <1>1, <1>7, <1>8, <1>13 DEF ExactInv, Only
<1>15. SurvivesInv'
  BY <1>1, <1>7, <1>8, <1>13 DEF SurvivesInv
<1>16. QED
  BY <1>6, <1>10, <1>11, <1>12, <1>14, <1>15

LEMMA IAnswerLost == ASSUME Inv, AnswerLost PROVE Inv'
<1> USE DEF Inv
<1>1. PICK s : s = Head(todo)
  OBVIOUS
<1>2. /\ sink = "dremio" /\ todo # <<>> /\ target' = Executed(s)
      /\ faults' = faults \union {"answerLost"}
      /\ UNCHANGED <<sink, log, done, tried, batch, todo, late, disordered>>
  BY <1>1 DEF AnswerLost, Occurs
<1>3. /\ LegalInv' /\ BatchInv'
      /\ History' = History /\ Calm' = Calm /\ Quiet' = Quiet /\ Hit' = Hit
  BY <1>2, IKeep
<1>4. Pending' = Pending /\ ToDelete' = ToDelete
  BY <1>2 DEF Pending, ToDelete
<1>5. PlanInv'
  BY <1>2, <1>4 DEF PlanInv
<1>6. s \in Statement /\ s = todo[1] /\ 1 \in 1..Len(todo) /\ s.kind # "append"
  <2>1. s \in Statement /\ s = todo[1] /\ 1 \in 1..Len(todo)
    BY <1>1, <1>2, QTail DEF TypeInv
  <2>2. QED
    BY <1>2, <2>1 DEF PlanInv
<1>7. target' \in [Keys -> Seq(Values)] /\ \A k \in Keys : Len(target'[k]) <= 1
  BY <1>2, <1>6, IDremioRows
<1>8. TypeInv' /\ FaultInv' /\ SurvivesInv'
  BY <1>2, <1>7 DEF TypeInv, FaultInv, SurvivesInv
<1>9. ExactInv'
  <2> SUFFICES ASSUME Only({"answerLost"}), NEW k \in Calm
               PROVE  /\ \E m \in done..tried : target'[k] = RowsOf(History[m][k])
                      /\ k \in Quiet => target'[k] = RowsOf(History[done][k])
                      /\ k \in Hit \ Pending =>
                            target'[k] = RowsOf(History[done + Len(batch)][k])
    BY <1>2, <1>3, <1>4 DEF ExactInv, Only
  <2>1. CASE Affects(s, k)
    <3>1. \E m \in done..tried : target'[k] = RowsOf(History[m][k])
      BY <1>1, <1>2, <2>1, LApplied, ZenonT(60)
    <3>2. k \notin Quiet /\ k \in Keys
      BY <1>1, <1>2, <2>1, LNext
    <3>3. k \in Pending
      BY <1>6, <2>1, <3>2 DEF Pending
    <3>4. QED
      BY <3>1, <3>2, <3>3
  <2>2. CASE ~Affects(s, k)
    <3>1. target'[k] = target[k]
      BY <1>2, <1>6, <2>2, LExecuted DEF Calm
    <3>2. QED
      BY <1>2, <3>1 DEF ExactInv
  <2>3. QED
    BY <2>1, <2>2
<1>10. QED
  BY <1>3, <1>5, <1>8, <1>9

LEMMA IPollTimesOut == ASSUME Inv, PollTimesOut PROVE Inv'
<1> USE DEF Inv
<1>1. PICK s : s = Head(todo)
  OBVIOUS
<1>2. /\ sink = "dremio" /\ todo # <<>> /\ late' = late \union {s}
      /\ faults' = faults \union {"lateJob"}
      /\ UNCHANGED <<sink, log, done, tried, batch, todo, target, disordered>>
  BY <1>1 DEF PollTimesOut, Occurs
<1>3. LegalInv' /\ BatchInv'
  BY <1>2, IKeep
<1>4. s \in Statement /\ s.kind # "append"
  <2>1. s \in Statement /\ s = todo[1] /\ 1 \in 1..Len(todo)
    BY <1>1, <1>2, QTail DEF TypeInv
  <2>2. QED
    BY <1>2, <2>1 DEF PlanInv
<1>5. PlanInv'
  BY <1>2 DEF PlanInv, ToDelete
<1>6. TypeInv' /\ FaultInv' /\ SurvivesInv'
  BY <1>2, <1>4 DEF TypeInv, FaultInv, SurvivesInv
<1>7. ExactInv'
  BY <1>2 DEF ExactInv, Only
<1>8. QED
  BY <1>3, <1>5, <1>6, <1>7

LEMMA ILateJobEnds == ASSUME Inv, NEW s \in late, LateJobEnds(s) PROVE Inv'
<1> USE DEF Inv
<1>1. /\ target' = Executed(s) /\ late' = late \ {s}
      /\ UNCHANGED <<sink, log, done, tried, batch, todo, disordered, faults>>
  BY DEF LateJobEnds
<1>2. sink = "dremio" /\ "lateJob" \in faults /\ s \in Statement /\ s.kind # "append"
  BY DEF TypeInv, FaultInv
<1>3. LegalInv' /\ BatchInv'
  BY <1>1, IKeep
<1>4. target' \in [Keys -> Seq(Values)] /\ \A k \in Keys : Len(target'[k]) <= 1
  BY <1>1, <1>2, IDremioRows
<1>5. PlanInv'
  BY <1>1 DEF PlanInv, ToDelete
<1>6. TypeInv' /\ FaultInv' /\ SurvivesInv'
  BY <1>1, <1>2, <1>4 DEF TypeInv, FaultInv, SurvivesInv
<1>7. ExactInv'
  BY <1>1, <1>2 DEF ExactInv, Only
<1>8. QED
  BY <1>3, <1>5, <1>6, <1>7

LEMMA IUnauthorized == ASSUME Inv, Unauthorized PROVE Inv'
<1> USE DEF Inv
<1>1. /\ sink = "dremio" /\ todo # <<>> /\ todo' = Tail(todo)
      /\ faults' = faults \union {"unauthorized"}
      /\ UNCHANGED <<sink, log, done, tried, batch, late, target, disordered>>
  BY DEF Unauthorized, Occurs
<1>2. LegalInv' /\ BatchInv'
  BY <1>1, IKeep
<1>3. PlanInv' /\ todo' \in Seq(Statement)
  BY <1>1, IPlanTail
<1>4. TypeInv' /\ FaultInv' /\ SurvivesInv'
  BY <1>1, <1>3 DEF TypeInv, FaultInv, SurvivesInv
<1>5. ExactInv'
  BY <1>1 DEF ExactInv, Only
<1>6. QED
  BY <1>2, <1>3, <1>4, <1>5

LEMMA IRowDeleteFails == ASSUME Inv, RowDeleteFails PROVE Inv'
<1> USE DEF Inv
<1>1. PICK s : s = Head(todo)
  OBVIOUS
<1>2. /\ sink = "iceberg" /\ todo # <<>> /\ s.kind = "delete" /\ todo' = Tail(todo)
      /\ faults' = faults \union {"rowDelete"}
      /\ UNCHANGED <<sink, log, done, tried, batch, late, target, disordered>>
  BY <1>1 DEF RowDeleteFails, Occurs
<1>3. /\ LegalInv' /\ BatchInv'
      /\ History' = History /\ Calm' = Calm /\ Quiet' = Quiet /\ Hit' = Hit
  BY <1>2, IKeep
<1>4. /\ PlanInv' /\ todo' \in Seq(Statement)
      /\ \A k \in Keys : k \in Pending <=> Affects(s, k) \/ k \in Pending'
  BY <1>1, <1>2, IPlanTail
<1>5. TypeInv' /\ FaultInv'
  BY <1>2, <1>4 DEF TypeInv, FaultInv
<1>6. ExactInv'
  BY <1>2 DEF ExactInv, Only
<1>7. SurvivesInv'
  <2> SUFFICES ASSUME NEW k \in Calm
               PROVE  /\ k \in Quiet /\ History[done][k] # Absent
                           => History[done][k] \in ToSet(target[k])
                      /\ k \in Hit \ Pending' /\ History[done + Len(batch)][k] # Absent
                           => History[done + Len(batch)][k] \in ToSet(target[k])
    BY <1>2, <1>3 DEF SurvivesInv
  <2>1. CASE Affects(s, k) /\ k \notin Pending'
    <3>1. k \in Keys /\ \A i \in 1..Len(todo') : ~Affects(todo'[i], k)
      BY <2>1 DEF Pending, Calm
    <3>2. History[done + Len(batch)][k] = Absent
      BY <1>1, <1>2, <2>1, <3>1, LNext
    <3>3. QED
      BY <1>2, <3>2 DEF SurvivesInv
  <2>2. CASE ~(Affects(s, k) /\ k \notin Pending')
    <3>1. k \in Keys
      BY DEF Calm
    <3>2. k \in Pending => k \in Pending'
      BY <1>4, <2>2, <3>1
    <3>3. QED
      BY <1>2, <3>2 DEF SurvivesInv
  <2>3. QED
    BY <2>1, <2>2
<1>8. QED
  BY <1>3, <1>4, <1>5, <1>6, <1>7

LEMMA ICommit == ASSUME Inv, Commit PROVE Inv'
<1> USE DEF Inv
<1>1. /\ batch # <<>> /\ todo = <<>> /\ batch' = <<>> /\ done' = done + Len(batch)
      /\ UNCHANGED <<sink, log, tried, todo, late, target, disordered, faults>>
  BY DEF Commit, Idle
<1>2. PICK n \in Nat : n = Len(batch)
  BY LenProperties DEF TypeInv
<1>3. /\ done \in Nat /\ tried \in Nat /\ Len(log) \in Nat /\ tried <= Len(log)
      /\ done' = done + n /\ done + n <= tried
      /\ \A i \in 1..n : batch[i] = log[done + i]
  BY <1>1, <1>2, LenProperties DEF TypeInv, BatchInv
<1>4. /\ History' = History /\ Calm' = Calm
  BY <1>1 DEF History, Source, Calm
<1>5. Len(batch') = 0 /\ Len(todo) = 0
  BY <1>1, EmptySeq
<1>6. Hit' = {} /\ Pending = {} /\ Pending' = {}
  BY <1>1, <1>5 DEF Hit, Pending
<1>7. TypeInv'
  BY <1>1, <1>3, EmptySeq DEF TypeInv
<1>8. LegalInv' /\ BatchInv' /\ PlanInv' /\ FaultInv'
  BY <1>1, <1>4, <1>5 DEF LegalInv, BatchInv, PlanInv, FaultInv
<1>9. ASSUME NEW k \in Keys, k \notin Hit, NEW m \in done..(done + n)
      PROVE  History[done + n][k] = History[m][k]
  <2>1. m \in 0..Len(log) /\ done + n \in 0..Len(log) /\ m <= done + n
    BY <1>3
  <2>2. ASSUME NEW i \in (m + 1)..(done + n) PROVE ~Touches(log[i], k)
    <3>1. i - done \in 1..n /\ done + (i - done) = i
      BY <1>3
    <3>2. QED
      BY <1>2, <1>3, <1>9, <3>1 DEF Hit
  <2>3. QED
    BY <2>1, <2>2, HStill
<1>10. ASSUME NEW k \in Keys, k \notin Hit, k \in Quiet' PROVE k \in Quiet
  <2> SUFFICES ASSUME NEW i \in (done + 1)..tried PROVE ~Touches(log[i], k)
    BY DEF Quiet
  <2>1. CASE i \in (done + n + 1)..tried
    BY <1>1, <1>3, <1>10, <2>1 DEF Quiet
  <2>2. CASE i \notin (done + n + 1)..tried
    <3>1. i - done \in 1..n /\ done + (i - done) = i
      BY <1>3, <2>2
    <3>2. QED
      BY <1>2, <1>3, <1>10, <3>1 DEF Hit
  <2>3. QED
    BY <2>1, <2>2
<1>11. ExactInv'
  <2> SUFFICES ASSUME Only({"answerLost"}), NEW k \in Calm
               PROVE  /\ \/ sink = "iceberg" /\ target[k] = <<>>
                         \/ \E m \in (done + n)..tried : target[k] = RowsOf(History[m][k])
                      /\ k \in Quiet' => target[k] = RowsOf(History[done + n][k])
    BY <1>1, <1>3, <1>4, <1>6 DEF ExactInv, Only
  <2>1. k \in Keys /\ done + n \in (done + n)..tried
    BY <1>3 DEF Calm
  <2>2. CASE k \in Hit
    BY <1>2, <1>6, <2>1, <2>2 DEF ExactInv
  <2>3. CASE k \notin Hit
    <3>1. k \in Quiet' => target[k] = RowsOf(History[done + n][k])
      <4>1. done \in done..(done + n)
        BY <1>3
      <4>2. QED
        BY <1>9, <1>10, <2>1, <2>3, <4>1 DEF ExactInv
    <3>2. ASSUME NEW m \in done..tried, target[k] = RowsOf(History[m][k])
          PROVE  \E l \in (done + n)..tried : target[k] = RowsOf(History[l][k])
      <4>1. CASE m \in done..(done + n)
        BY <1>9, <2>1, <2>3, <3>2, <4>1
      <4>2. CASE m \notin done..(done + n)
        <5>1. m \in (done + n)..tried
          BY <1>3, <4>2
        <5>2. QED
          BY <3>2, <5>1
      <4>3. QED
        BY <4>1, <4>2
    <3>3. \/ sink = "iceberg" /\ target[k] = <<>>
          \/ \E m \in done..tried : target[k] = RowsOf(History[m][k])
      BY DEF ExactInv
    <3>4. QED
      BY <3>1, <3>2, <3>3
  <2>4. QED
    BY <2>2, <2>3
<1>12. SurvivesInv'
  <2> SUFFICES ASSUME sink = "iceberg", NEW k \in Calm, k \in Quiet',
                      History[done + n][k] # Absent
               PROVE  History[done + n][k] \in ToSet(target[k])
    BY <1>1, <1>3, <1>4, <1>6 DEF SurvivesInv
  <2>1. k \in Keys /\ done \in done..(done + n)
    BY <1>3 DEF Calm
  <2>2. CASE k \in Hit
    BY <1>2, <1>6, <2>2 DEF SurvivesInv
  <2>3. CASE k \notin Hit
    BY <1>9, <1>10, <2>1, <2>3 DEF SurvivesInv
  <2>4. QED
    BY <2>2, <2>3
<1>13. QED
  BY <1>7, <1>8, <1>11, <1>12

LEMMA IRestart == ASSUME Inv, Restart PROVE Inv'
<1> USE DEF Inv
<1>1. /\ batch' = <<>> /\ todo' = <<>>
      /\ UNCHANGED <<sink, log, done, tried, late, target, disordered, faults>>
  BY DEF Restart
<1>2. History' = History /\ Calm' = Calm /\ Quiet' = Quiet
  BY <1>1 DEF History, Source, Calm, Quiet
<1>3. Len(batch') = 0 /\ Len(todo') = 0
  BY <1>1, EmptySeq
<1>4. Hit' = {} /\ Pending' = {}
  BY <1>3 DEF Hit, Pending
<1>5. TypeInv'
  BY <1>1, EmptySeq DEF TypeInv
<1>6. LegalInv' /\ BatchInv' /\ PlanInv' /\ FaultInv'
  BY <1>1, <1>2, <1>3 DEF LegalInv, BatchInv, PlanInv, FaultInv
<1>7. ExactInv' /\ SurvivesInv'
  BY <1>1, <1>2, <1>4 DEF ExactInv, SurvivesInv, Only
<1>8. QED
  BY <1>5, <1>6, <1>7

-----------------------------------------------------------------------------
(* The properties *)

LEMMA IStep == Inv /\ [Next]_vars => Inv'
<1> SUFFICES ASSUME Inv, [Next]_vars PROVE Inv'
  OBVIOUS
<1>1. CASE \E e \in Event : Change(e)
  BY <1>1, IChange
<1>2. CASE \E n \in 1..MaxBatch : WriteBatch(n)
  BY <1>2, IWriteBatch
<1>3. CASE Execute
  BY <1>3, IExecute
<1>4. CASE AnswerLost
  BY <1>4, IAnswerLost
<1>5. CASE PollTimesOut
  BY <1>5, IPollTimesOut
<1>6. CASE Unauthorized
  BY <1>6, IUnauthorized
<1>7. CASE RowDeleteFails
  BY <1>7, IRowDeleteFails
<1>8. CASE \E s \in late : LateJobEnds(s)
  BY <1>8, ILateJobEnds
<1>9. CASE Commit
  BY <1>9, ICommit
<1>10. CASE Restart
  BY <1>10, IRestart
<1>11. CASE UNCHANGED vars
  <2>1. UNCHANGED <<sink, log, done, tried, batch, todo, late, target, disordered, faults>>
    BY <1>11 DEF vars
  <2>2. /\ LegalInv' /\ BatchInv'
        /\ History' = History /\ Calm' = Calm /\ Quiet' = Quiet /\ Hit' = Hit
    BY <2>1, IKeep DEF Inv
  <2>3. Pending' = Pending /\ ToDelete' = ToDelete
    BY <2>1 DEF Pending, ToDelete
  <2>4. TypeInv' /\ PlanInv' /\ FaultInv'
    BY <2>1, <2>3 DEF Inv, TypeInv, PlanInv, FaultInv
  <2>5. ExactInv' /\ SurvivesInv'
    BY <2>1, <2>2, <2>3 DEF Inv, ExactInv, SurvivesInv, Only
  <2>6. QED
    BY <2>2, <2>4, <2>5 DEF Inv
<1>12. QED
  BY <1>1, <1>2, <1>3, <1>4, <1>5, <1>6, <1>7, <1>8, <1>9, <1>10, <1>11 DEF Next

LEMMA ISafe == Spec => []Inv
  BY IInit, IStep, PTL DEF Spec

\* When nothing is in flight, no change in flight touches a key.
LEMMA ISettled ==
    ASSUME Inv, Settled
    PROVE  \A k \in Keys \ disordered :
              k \in Calm /\ k \in Quiet /\ History[done][k] = Source(done)[k]
<1>1. done \in 0..Len(log)
  BY LenProperties DEF Inv, TypeInv
<1>2. \A i \in (done + 1)..tried : FALSE
  BY <1>1 DEF Settled
<1>3. QED
  BY <1>1, <1>2 DEF Calm, Quiet, History

\* Source is the source's table: each change removes the row with its old key and then
\* sets, or for a delete leaves empty, the row with its key.
OneByOne ==
    /\ Source(0) = [k \in Keys |-> Absent]
    /\ \A n \in 0..(Len(log) - 1) :
          Source(n + 1) = [Source(n) EXCEPT ![log[n + 1].old] = Absent,
                                            ![log[n + 1].key] = log[n + 1].val]

\* The table the target is compared with is the one that the source's changes leave
\* when they are applied in their order, as a client of the source database sees it
\* (core/event.py:28-47).
THEOREM SourceIsTheTable == Spec => []OneByOne
<1>1. ASSUME TypeInv PROVE OneByOne
  <2>1. PICK len \in Nat : len = Len(log) /\ \A i \in 1..len : log[i] \in Event
    BY <1>1, LenProperties, ElementOfSeq DEF TypeInv
  <2>2. \A n \in 0..len : History[n] = Source(n) /\ Source(n) = [k \in Keys |-> Source(n)[k]]
    BY <2>1 DEF History, Source
  <2>3. Source(0) = [k \in Keys |-> Absent]
    <3>1. \A k : {i \in 1..0 : Touches(log[i], k)} = {}
      OBVIOUS
    <3>2. QED
      BY <3>1 DEF Source
  <2>4. ASSUME NEW n \in 0..(len - 1)
        PROVE  Source(n + 1) = [Source(n) EXCEPT ![log[n + 1].old] = Absent,
                                                 ![log[n + 1].key] = log[n + 1].val]
    <3>1. PICK m \in Nat : m = n + 1 /\ m \in 0..len /\ n \in 0..len /\ n <= m /\ m \in 1..m
                           /\ m \in 1..len /\ \A i \in (m + 1)..m : FALSE
      BY <2>1
    <3>2. PICK e \in Event : e = log[m]
      BY <2>1, <3>1
    <3>3. ASSUME NEW k \in Keys, Touches(e, k)
          PROVE  Source(m)[k] = IF e.key = k THEN e.val ELSE Absent
      BY <1>1, <2>1, <2>2, <3>1, <3>2, <3>3, HLast
    <3>4. ASSUME NEW k \in Keys, ~Touches(e, k) PROVE Source(m)[k] = Source(n)[k]
      <4>1. \A i \in (n + 1)..m : ~Touches(log[i], k)
        BY <3>1, <3>2, <3>4
      <4>2. QED
        BY <1>1, <2>1, <2>2, <3>1, <4>1, HStill
    <3>5. PICK before, after : before = Source(n) /\ after = Source(m)
      OBVIOUS
    <3>6. before = [k \in Keys |-> before[k]] /\ after = [k \in Keys |-> after[k]]
      BY <2>2, <3>1, <3>5
    <3>7. after = [before EXCEPT ![e.old] = Absent, ![e.key] = e.val]
      BY <3>3, <3>4, <3>5, <3>6 DEF Touches, Event
    <3>8. QED
      BY <3>1, <3>2, <3>5, <3>7
  <2>5. QED
    BY <2>1, <2>3, <2>4 DEF OneByOne
<1>2. Inv => OneByOne
  BY <1>1 DEF Inv
<1>3. QED
  BY <1>2, ISafe, PTL

\* However batches are cut, interrupted, repeated and answered, the target is the
\* source's table once they are committed, but for the keys of the known reorderings:
\* upserts, then deletes for Dremio (core/dremio_sink.py:206-239), row deletes, then
\* an append for Iceberg (core/iceberg_sink.py:405-463).
THEOREM TargetMirrors == Spec => []AppliedInOrder
<1>1. ASSUME Inv, Settled, Only({"answerLost"}), NEW k \in Keys \ disordered
      PROVE  Mirrors(k)
  <2>1. k \in Calm /\ k \in Quiet /\ History[done][k] = Source(done)[k]
    BY <1>1, ISettled
  <2>2. target[k] = RowsOf(History[done][k])
    BY <1>1, <2>1 DEF Inv, ExactInv
  <2>3. QED
    BY <2>1, <2>2 DEF Mirrors, RowsOf
<1>2. Inv => AppliedInOrder
  BY <1>1 DEF AppliedInOrder
<1>3. QED
  BY <1>2, ISafe, PTL

\* No key has a second row while no row delete fails, whatever jobs are lost, skipped
\* or end late, at any moment of a batch (core/dremio_sink.py:206-239,
\* core/iceberg_sink.py:405-463).
THEOREM RowsStaySingle == Spec => []OneRowPerKey
<1>1. ASSUME Inv, "rowDelete" \notin faults, NEW k \in Keys \ disordered
      PROVE  Len(target[k]) <= 1
  <2>1. CASE sink = "dremio"
    BY <1>1, <2>1 DEF Inv, FaultInv
  <2>2. CASE sink = "iceberg"
    <3>1. Only({"answerLost"}) /\ k \in Calm
      BY <1>1, <2>2 DEF Inv, FaultInv, Only, Calm
    <3>2. target[k] = <<>> \/ \E m \in done..tried : target[k] = RowsOf(History[m][k])
      BY <1>1, <3>1 DEF Inv, ExactInv
    <3>3. PICK row : target[k] = row /\ (row = <<>> \/ \E v : row = <<v>>)
      BY <3>2 DEF RowsOf
    <3>4. Len(row) <= 1
      BY <3>3, EmptySeq
    <3>5. QED
      BY <3>3, <3>4
  <2>3. QED
    BY <1>1, <2>1, <2>2 DEF Inv, TypeInv
<1>2. Inv => OneRowPerKey
  BY <1>1 DEF OneRowPerKey
<1>3. QED
  BY <1>2, ISafe, PTL

\* A failing row delete is logged and skipped (core/iceberg_sink.py:433-443): it leaves
\* old rows, and the current row is still appended.
THEOREM CurrentRowStays == Spec => []CurrentRowSurvives
<1>1. ASSUME Inv, Settled, Only({"answerLost", "rowDelete"}), NEW k \in Keys \ disordered,
             Source(done)[k] # Absent
      PROVE  Source(done)[k] \in ToSet(target[k])
  <2>1. k \in Calm /\ k \in Quiet /\ History[done][k] = Source(done)[k]
    BY <1>1, ISettled
  <2>2. CASE sink = "iceberg"
    BY <1>1, <2>1, <2>2 DEF Inv, SurvivesInv
  <2>3. CASE sink = "dremio"
    <3>1. Only({"answerLost"})
      BY <1>1, <2>3 DEF Inv, FaultInv, Only
    <3>2. target[k] = <<Source(done)[k]>>
      BY <1>1, <2>1, <3>1 DEF Inv, ExactInv, RowsOf
    <3>3. PICK v : v = Source(done)[k]
      OBVIOUS
    <3>4. v \in ToSet(<<v>>)
      BY DEF ToSet
    <3>5. QED
      BY <3>2, <3>3, <3>4
  <2>4. QED
    BY <1>1, <2>2, <2>3 DEF Inv, TypeInv
<1>2. Inv => CurrentRowSurvives
  BY <1>1 DEF CurrentRowSurvives
<1>3. QED
  BY <1>2, ISafe, PTL

\* The MERGE comes first, so that a row which the changes in flight keep never leaves
\* the Dremio table, between two statements or after an interruption
\* (core/dremio_sink.py:206-239).
THEOREM RowsNeverVanish == Spec => []NoRowGap
<1>1. ASSUME Inv, sink = "dremio", Only({"answerLost"}), NEW k \in Keys \ disordered,
             \A n \in done..tried : Source(n)[k] # Absent
      PROVE  target[k] # <<>>
  <2>1. PICK m \in done..tried : target[k] = RowsOf(History[m][k])
    BY <1>1 DEF Inv, ExactInv, Calm
  <2>2. History[m][k] = Source(m)[k]
    <3>1. m \in 0..Len(log)
      BY <1>1, <2>1, LenProperties DEF Inv, TypeInv
    <3>2. QED
      BY <3>1 DEF History
  <2>3. \A v : <<v>> # <<>>
    OBVIOUS
  <2>4. QED
    BY <1>1, <2>1, <2>2, <2>3 DEF RowsOf
<1>2. Inv => NoRowGap
  BY <1>1 DEF NoRowGap
<1>3. QED
  BY <1>2, ISafe, PTL

=============================================================================
