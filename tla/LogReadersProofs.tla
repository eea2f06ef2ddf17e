-------------------------- MODULE LogReadersProofs --------------------------
(***************************************************************************)
(* What the log readers keep for logs of any length, any number of         *)
(* transactions, files and shards: a saved offset leaves nothing unwritten *)
(* behind, and a stream yields no row twice except where two windows meet. *)
(***************************************************************************)
EXTENDS LogReaders, FiniteSetTheorems, SequenceTheorems, TLAPS

Kept == written \union ToSet(yielded) \union excused
Windows == kind \in {"oracle", "sqlserver"}
Entry == [unit : Units, row : BOOLEAN]

\* The log is well formed; LSNs never decrease along it.
LogInv ==
    /\ kind \in Kinds /\ sequenced \in BOOLEAN /\ (sequenced => kind = "datastream")
    /\ log \in Seq(Entry)
    /\ floor \in Nat /\ since \in Nat /\ (Windows => floor <= Head0)
    /\ kind = "sqlserver" => \A i, j \in Indices : i <= j => Unit(i) <= Unit(j)

\* Rows are read in order; a closed stream has none.
SessionInv ==
    /\ up \in BOOLEAN /\ cursor \in Nat
    /\ offset = 0 \/ offset \in RowsNow
    /\ fetched \in Seq(RowsNow) /\ Increasing(fetched)
    /\ yielded \in Seq(RowsNow) /\ ToSet(yielded) \subseteq seen
    /\ seen \subseteq RowsNow
    /\ ~up => fetched = <<>> /\ yielded = <<>> /\ listed = <<>> /\ seen = {}

\* A reader of windows has dealt with everything before the next window, and has
\* met only rows up to where that window begins.
WindowsInv ==
    Windows =>
        /\ cursor <= Head0
        /\ \A i \in seen \union ToSet(fetched) : Position(i) <= cursor
        /\ \A i \in seen \intersect ToSet(fetched) : Position(i) = start
        /\ up => \A i \in RowsNow : since <= Position(i) /\ Position(i) < cursor
                                    => i \in Kept \union ToSet(fetched)

\* A reader of files has dealt with all files up to the current one, and knows the
\* next ones: whatever it does not know has arrived too late.
FilesInv ==
    kind = "datastream" =>
        /\ \A i \in seen : Unit(i) <= cursor
        /\ \A i \in ToSet(fetched) : Unit(i) = cursor /\ i \notin seen
        /\ listed \in Seq(Units) /\ Increasing(listed)
        /\ \A u \in ToSet(listed) : cursor < u
        /\ up /\ ~sequenced => \A i \in RowsNow :
              /\ Unit(i) <= cursor => i \in Kept \union ToSet(fetched)
              /\ listed # <<>> /\ cursor < Unit(i) /\ Unit(i) < LastOf(listed) /\ i \notin excused
                    => Unit(i) \in ToSet(listed)

\* Pairs <<i, o>>: a stream that resumes at the offset of row o does not read row i.
Before ==
    {p \in RowsNow \X RowsNow :
        \/ Windows /\ since <= Position(p[1]) /\ Position(p[1]) < Position(p[2])
        \/ /\ kind = "datastream"
           /\ Unit(p[1]) < Unit(p[2]) \/ (Unit(p[1]) = Unit(p[2]) /\ p[1] <= p[2])
        \/ kind = "dynamodb" /\ Unit(p[1]) = Unit(p[2]) /\ p[1] <= p[2]}

\* A reader of shards remembers what it yielded, and what its first offset covers
\* was written.
ShardsInv ==
    kind = "dynamodb" =>
        /\ ToSet(fetched) \intersect seen = {} /\ seen \subseteq Kept
        /\ start = 0 \/ start \in RowsNow
        /\ \A i \in RowsNow : <<i, start>> \in Before => i \in written \union excused

\* What the saved offset, the last row yielded and the rows still to yield would
\* leave behind as offsets.
PassedInv ==
    ~sequenced =>
        /\ \A i \in RowsNow : <<i, offset>> \in Before => i \in written \union excused
        /\ yielded # <<>> => \A i \in RowsNow : <<i, LastOf(yielded)>> \in Before => i \in Kept
        /\ \A o \in ToSet(fetched) : \A i \in RowsNow :
              <<i, o>> \in Before => i \in Kept \/ (i \in ToSet(fetched) /\ i <= o)

Inv == LogInv /\ SessionInv /\ WindowsInv /\ FilesInv /\ ShardsInv /\ PassedInv

-----------------------------------------------------------------------------
(* Sorting a finite set of numbers *)

\* Sorted lists all the numbers of the set, each once, in order.  The number of those up
\* to and including an element numbers the elements from 1.
LEMMA SSorted ==
    ASSUME NEW R \in SUBSET Nat, IsFiniteSet(R)
    PROVE  /\ Sorted(R) \in Seq(R) /\ Increasing(Sorted(R))
           /\ ToSet(Sorted(R)) = R
           /\ R # {} => Sorted(R) # <<>>
<1> DEFINE Upto(i) == {j \in R : j <= i}
<1>1. PICK n \in Nat : n = Cardinality(R)
  BY FS_CardinalityType
<1>2. \A i, j \in R : Upto(i) \subseteq R /\ (j \in Upto(i) <=> j <= i)
  OBVIOUS
<1> HIDE DEF Upto
<1>3. PICK rank : rank = [i \in R |-> Cardinality(Upto(i))]
  OBVIOUS
<1>4. ASSUME NEW i \in R PROVE IsFiniteSet(Upto(i)) /\ rank[i] \in 1..n
  <2>1. IsFiniteSet(Upto(i)) /\ Cardinality(Upto(i)) <= n
    BY <1>1, <1>2, FS_Subset
  <2>2. i \in Upto(i)
    BY <1>2
  <2>3. Cardinality(Upto(i)) \in Nat /\ Cardinality(Upto(i)) # 0
    BY <2>1, <2>2, FS_CardinalityType, FS_EmptySet
  <2>4. QED
    BY <1>3, <2>1, <2>3
<1>5. ASSUME NEW i \in R, NEW j \in R, i < j PROVE rank[i] < rank[j]
  <2>1. Upto(i) \subseteq Upto(j) /\ j \in Upto(j) /\ j \notin Upto(i)
    <3>1. i \in Nat /\ j \in Nat /\ \A k \in Upto(i) : k \in R /\ k \in Nat
      BY <1>2
    <3>2. QED
      BY <1>2, <1>5, <3>1
  <2>2. Cardinality(Upto(i)) <= Cardinality(Upto(j)) /\ Cardinality(Upto(i)) # Cardinality(Upto(j))
    BY <1>4, <2>1, FS_Subset
  <2>3. rank[i] \in Nat /\ rank[j] \in Nat
    BY <1>4
  <2>4. QED
    BY <1>3, <2>2, <2>3
<1>6. ASSUME NEW i \in R, NEW j \in R, rank[i] = rank[j] PROVE i = j
  <2>1. i \in Nat /\ j \in Nat /\ rank[i] \in Nat /\ rank[j] \in Nat
    BY <1>4
  <2>2. (i < j => rank[i] < rank[j]) /\ (j < i => rank[j] < rank[i])
    BY <1>5
  <2>3. QED
    BY <1>6, <2>1, <2>2
<1>7. rank \in Surjection(R, 1..n)
  <2>1. rank \in Injection(R, 1..n)
    BY <1>3, <1>4, <1>6 DEF Injection, IsInjective
  <2>2. QED
    BY <1>1, <2>1, FS_Interval, FS_Injection
<1>8. PICK s : s = Sorted(R)
  OBVIOUS
<1>9. s = [m \in 1..n |-> CHOOSE i \in R : Cardinality(Upto(i)) = m]
  BY <1>1, <1>8 DEF Sorted, Upto
<1>10. ASSUME NEW m \in 1..n PROVE s[m] \in R /\ rank[s[m]] = m
  <2>1. \E i \in R : Cardinality(Upto(i)) = m
    BY <1>3, <1>7 DEF Surjection
  <2>2. s[m] \in R /\ Cardinality(Upto(s[m])) = m
    BY <1>9, <2>1
  <2>3. QED
    BY <1>3, <2>2
<1>11. s \in [1..n -> R]
  BY <1>9, <1>10
<1>12. Increasing(s)
  <2> SUFFICES ASSUME NEW a \in 1..n, NEW b \in 1..n, a < b PROVE s[a] < s[b]
    BY <1>9 DEF Increasing
  <2>1. s[a] \in R /\ s[b] \in R /\ rank[s[a]] = a /\ rank[s[b]] = b
    BY <1>10
  <2>2. s[b] < s[a] => rank[s[b]] < rank[s[a]]
    BY <1>5, <2>1
  <2>3. s[a] \in Nat /\ s[b] \in Nat
    BY <2>1
  <2>4. QED
    BY <2>1, <2>2, <2>3
<1>13. ToSet(s) = R
  <2>1. ASSUME NEW i \in R PROVE rank[i] \in 1..n /\ s[rank[i]] = i
    <3>1. rank[i] \in 1..n
      BY <1>4
    <3>2. s[rank[i]] \in R /\ rank[s[rank[i]]] = rank[i]
      BY <1>10, <3>1
    <3>3. QED
      BY <1>6, <3>1, <3>2
  <2>2. QED
    BY <1>11, <2>1 DEF ToSet
<1>14. QED
  BY <1>8, <1>11, <1>12, <1>13, SeqDef DEF ToSet

\* The first and the last element of an increasing sequence.
LEMMA QEnds ==
    ASSUME NEW S \in SUBSET Nat, NEW s \in Seq(S), s # <<>>, Increasing(s)
    PROVE  /\ Head(s) \in S /\ Head(s) \in ToSet(s)
           /\ Tail(s) \in Seq(S) /\ Increasing(Tail(s))
           /\ ToSet(s) = {Head(s)} \union ToSet(Tail(s))
           /\ \A x \in ToSet(Tail(s)) : Head(s) < x
           /\ LastOf(s) \in ToSet(s) /\ \A x \in ToSet(s) : x <= LastOf(s)
           /\ Tail(s) # <<>> => LastOf(Tail(s)) = LastOf(s)
<1>1. PICK n \in Nat \ {0} : n = Len(s) /\ DOMAIN s = 1..n /\ s \in [1..n -> S]
  BY EmptySeq, LenProperties
<1>2. PICK t : t = Tail(s)
  OBVIOUS
<1>3. /\ t \in Seq(S) /\ Len(t) = n - 1 /\ DOMAIN t = 1..(n - 1)
      /\ \A i \in 1..(n - 1) : t[i] = s[i + 1]
  BY <1>1, <1>2, HeadTailProperties, LenProperties
<1>4. Head(s) = s[1] /\ s[1] \in S
  BY <1>1
<1>5. \A i, j \in 1..n : i < j => s[i] < s[j]
  BY <1>1 DEF Increasing
<1>6. Increasing(t)
  <2> SUFFICES ASSUME NEW i \in 1..(n - 1), NEW j \in 1..(n - 1), i < j PROVE t[i] < t[j]
    BY <1>3 DEF Increasing
  <2>1. i + 1 \in 1..n /\ j + 1 \in 1..n /\ i + 1 < j + 1
    OBVIOUS
  <2>2. s[i + 1] < s[j + 1]
    BY <1>5, <2>1
  <2>3. QED
    BY <1>3, <2>2
<1>7. ToSet(s) = {s[1]} \union ToSet(t)
  <2>1. ASSUME NEW i \in 1..n PROVE s[i] \in {s[1]} \union ToSet(t)
    <3>1. CASE i = 1
      BY <3>1
    <3>2. CASE i # 1
      <4>1. i - 1 \in 1..(n - 1) /\ (i - 1) + 1 = i
        BY <3>2
      <4>2. s[i] = t[i - 1]
        BY <1>3, <4>1
      <4>3. QED
        BY <1>3, <4>1, <4>2 DEF ToSet
    <3>3. QED
      BY <3>1, <3>2
  <2>2. ASSUME NEW i \in 1..(n - 1) PROVE t[i] \in ToSet(s)
    BY <1>1, <1>3 DEF ToSet
  <2>3. QED
    BY <1>1, <1>3, <2>1, <2>2 DEF ToSet
<1>8. ASSUME NEW i \in 1..(n - 1) PROVE s[1] < t[i]
  BY <1>3, <1>5
<1>9. LastOf(s) = s[n] /\ s[n] \in ToSet(s) /\ \A i \in 1..n : s[i] <= s[n]
  <2>1. n \in 1..n /\ LastOf(s) = s[n] /\ s[n] \in ToSet(s)
    BY <1>1 DEF LastOf, ToSet
  <2>2. ASSUME NEW i \in 1..n PROVE s[i] <= s[n]
    <3>1. s[i] \in Nat /\ s[n] \in Nat /\ (i < n => s[i] < s[n])
      BY <1>1, <1>5, <2>1
    <3>2. QED
      BY <3>1
  <2>3. QED
    BY <2>1, <2>2
<1>10. t # <<>> => LastOf(t) = LastOf(s)
  <2> SUFFICES ASSUME t # <<>> PROVE LastOf(t) = LastOf(s)
    OBVIOUS
  <2>1. n - 1 \in 1..(n - 1) /\ (n - 1) + 1 = n
    BY <1>1, <1>3, EmptySeq
  <2>2. QED
    BY <1>3, <1>9, <2>1 DEF LastOf
<1>11. QED
  BY <1>1, <1>2, <1>3, <1>4, <1>6, <1>7, <1>8, <1>9, <1>10 DEF ToSet

\* A row that is yielded becomes the last one.
LEMMA QAppend ==
    ASSUME NEW S, NEW s \in Seq(S), NEW e \in S
    PROVE  /\ Append(s, e) \in Seq(S) /\ Append(s, e) # <<>>
           /\ ToSet(Append(s, e)) = ToSet(s) \union {e}
           /\ LastOf(Append(s, e)) = e
<1>1. PICK n \in Nat : n = Len(s) /\ DOMAIN s = 1..n
  BY LenProperties
<1>2. PICK t : t = Append(s, e)
  OBVIOUS
<1>3. /\ t \in Seq(S) /\ t # <<>> /\ Len(t) = n + 1 /\ DOMAIN t = 1..(n + 1)
      /\ \A i \in 1..n : t[i] = s[i]
      /\ t[n + 1] = e
  BY <1>1, <1>2, AppendProperties, LenProperties
<1>4. ToSet(t) = ToSet(s) \union {e}
  BY <1>1, <1>3 DEF ToSet
<1>5. QED
  BY <1>2, <1>3, <1>4 DEF LastOf

-----------------------------------------------------------------------------
(* The steps *)

LEMMA IInit == Init => Inv
<1> SUFFICES ASSUME Init PROVE Inv
  OBVIOUS
<1> USE ConstantsAssumption
<1>1. log = <<>> /\ Len(log) = 0 /\ log \in Seq(Entry) /\ Indices = {} /\ RowsNow = {}
  BY EmptySeq DEF Init, Indices, RowsNow
<1>2. fetched = <<>> /\ yielded = <<>> /\ listed = <<>> /\ DOMAIN fetched = {} /\ DOMAIN listed = {}
  BY EmptySeq, LenProperties DEF Init
<1>3. ToSet(fetched) = {} /\ ToSet(yielded) = {} /\ ToSet(listed) = {}
  BY <1>2 DEF ToSet
<1>4. Increasing(fetched) /\ Increasing(listed)
  BY <1>2 DEF Increasing
<1>5. Head0 \in Nat
  BY <1>1 DEF Head0, LastUnit
<1>6. LogInv
  BY <1>1, <1>5 DEF Init, LogInv, Head0, LastUnit
<1>7. SessionInv
  BY <1>2, <1>3, <1>4, EmptySeq DEF Init, SessionInv
<1>8. WindowsInv
  BY <1>3, <1>5 DEF Init, WindowsInv
<1>9. FilesInv
  BY <1>1, <1>2, <1>3, <1>4, EmptySeq DEF Init, FilesInv
<1>10. ShardsInv /\ PassedInv
  BY <1>1, <1>2, <1>3 DEF Init, ShardsInv, PassedInv
<1>11. QED
  BY <1>6, <1>7, <1>8, <1>9, <1>10 DEF Inv

\* Rows are finitely many numbers, and the log's head is one, too.
LEMMA LRows ==
    ASSUME LogInv
    PROVE  /\ Len(log) \in Nat /\ Indices = 1..Len(log)
           /\ RowsNow \subseteq Indices /\ RowsNow \in SUBSET Nat /\ IsFiniteSet(RowsNow)
           /\ \A i \in Indices : Unit(i) \in Units /\ Position(i) \in Nat
           /\ Head0 \in Nat
           /\ Windows => \A i \in Indices : Position(i) <= Head0
<1> USE ConstantsAssumption
<1>1. Len(log) \in Nat /\ DOMAIN log = 1..Len(log) /\ \A i \in 1..Len(log) : log[i] \in Entry
  BY LenProperties, ElementOfSeq DEF LogInv
<1>2. Indices = 1..Len(log) /\ RowsNow \subseteq Indices /\ RowsNow \in SUBSET Nat
  BY <1>1 DEF Indices, RowsNow
<1>3. IsFiniteSet(RowsNow)
  <2>1. IsFiniteSet(1..Len(log)) /\ RowsNow \in SUBSET (1..Len(log))
    BY <1>1, <1>2, FS_Interval
  <2>2. QED
    BY <2>1, FS_Subset
<1>4. \A i \in Indices : Unit(i) \in Units /\ Position(i) \in Nat
  BY <1>1, <1>2 DEF Unit, Position, Entry, Units
<1>5. log # <<>> => Len(log) \in Indices
  BY <1>2, EmptySeq DEF LogInv
<1>6. LastUnit \in Nat
  BY <1>4, <1>5 DEF LastUnit, Unit, Units
<1>7. Head0 \in Nat
  BY <1>1, <1>6 DEF Head0
<1>8. ASSUME Windows, NEW i \in Indices PROVE Position(i) <= Head0
  <2>1. CASE kind = "oracle"
    BY <1>1, <1>2, <2>1 DEF Position, Head0
  <2>2. CASE kind = "sqlserver"
    <3>1. log # <<>> /\ i <= Len(log) /\ Len(log) \in Indices
      BY <1>1, <1>2, <1>5, EmptySeq
    <3>2. Unit(i) <= Unit(Len(log))
      BY <2>2, <3>1 DEF LogInv
    <3>3. QED
      BY <2>2, <3>1, <3>2 DEF Position, Head0, LastUnit, Unit
  <2>3. QED
    BY <1>8, <2>1, <2>2 DEF Windows
<1>9. QED
  BY <1>1, <1>2, <1>3, <1>4, <1>7, <1>8

\* As long as nothing is logged, rows and what offsets pass stay as they are.
LEMMA LSame ==
    ASSUME LogInv, UNCHANGED <<kind, sequenced, log>>, floor' \in Nat, since' \in Nat,
           Windows => floor' <= Head0
    PROVE  /\ LogInv' /\ (Windows' <=> Windows) /\ RowsNow' = RowsNow /\ Head0' = Head0
           /\ \A i : Unit(i)' = Unit(i) /\ Position(i)' = Position(i)
           /\ since' = since => Before' = Before
<1>1. (Windows' <=> Windows) /\ RowsNow' = RowsNow /\ Head0' = Head0 /\ Indices' = Indices
  BY DEF Windows, RowsNow, Head0, Indices, LastUnit
<1>2. \A i : Unit(i)' = Unit(i) /\ Position(i)' = Position(i)
  BY DEF Unit, Position
<1>3. since' = since => Before' = Before
  BY DEF Before, RowsNow, Indices, Unit, Position, Windows
<1>4. LogInv'
  BY <1>1 DEF LogInv, Unit
<1>5. QED
  BY <1>1, <1>2, <1>3, <1>4

LEMMA LBefore ==
    ASSUME NEW i, NEW o
    PROVE  /\ <<i, o>> \in Before => i \in RowsNow /\ o \in RowsNow
           /\ i \in RowsNow /\ o \in RowsNow =>
                 /\ Windows => (<<i, o>> \in Before
                                  <=> since <= Position(i) /\ Position(i) < Position(o))
                 /\ kind = "datastream" => (<<i, o>> \in Before
                                  <=> Unit(i) < Unit(o) \/ (Unit(i) = Unit(o) /\ i <= o))
                 /\ kind = "dynamodb" => (<<i, o>> \in Before <=> Unit(i) = Unit(o) /\ i <= o)
BY DEF Before, Windows

LEMMA IYield == ASSUME Inv, Yield PROVE Inv'
<1> USE DEF Inv
<1>1. /\ UNCHANGED <<kind, sequenced, log, floor, since>>
      /\ UNCHANGED <<up, cursor, start, listed, offset, written, excused>>
      /\ up /\ fetched # <<>> /\ fetched' = Tail(fetched)
      /\ yielded' = Append(yielded, Head(fetched)) /\ seen' = seen \union {Head(fetched)}
  BY DEF Yield, service, database
<1>2. /\ LogInv' /\ (Windows' <=> Windows) /\ RowsNow' = RowsNow /\ Head0' = Head0
      /\ \A i : Unit(i)' = Unit(i) /\ Position(i)' = Position(i)
      /\ Before' = Before
  BY <1>1, LSame DEF LogInv
<1>3. PICK h : h = Head(fetched)
  OBVIOUS
<1>4. /\ h \in RowsNow /\ h \in ToSet(fetched) /\ h \in Nat
      /\ fetched' \in Seq(RowsNow) /\ Increasing(fetched')
      /\ ToSet(fetched) = {h} \union ToSet(fetched')
      /\ \A x \in ToSet(fetched') : h < x
  BY <1>1, <1>3, LRows, QEnds DEF SessionInv
<1>5. /\ yielded' \in Seq(RowsNow) /\ yielded' # <<>>
      /\ ToSet(yielded') = ToSet(yielded) \union {h} /\ LastOf(yielded') = h
  BY <1>1, <1>3, <1>4, QAppend DEF SessionInv
<1>6. Kept' = Kept \union {h}
  BY <1>1, <1>5 DEF Kept
<1>7. h \notin ToSet(fetched')
  BY <1>4
<1>8. seen' = seen \union {h}
  BY <1>1, <1>3
<1>9. SessionInv'
  BY <1>1, <1>2, <1>4, <1>5, <1>8 DEF SessionInv
<1>10. WindowsInv'
  BY <1>1, <1>2, <1>4, <1>6, <1>7, <1>8, LRows DEF WindowsInv, SessionInv
<1>11. FilesInv'
  <2> SUFFICES ASSUME kind = "datastream" PROVE FilesInv'
    BY <1>1 DEF FilesInv
  <2>1. \A i \in seen' : Unit(i)' <= cursor'
    BY <1>1, <1>2, <1>4, <1>8, LRows DEF FilesInv, SessionInv
  <2>2. \A i \in ToSet(fetched') : Unit(i)' = cursor' /\ i \notin seen'
    BY <1>1, <1>2, <1>4, <1>7, <1>8 DEF FilesInv
  <2>3. Kept \union ToSet(fetched) = Kept' \union ToSet(fetched')
    BY <1>4, <1>6
  <2>4. QED
    BY <1>1, <1>2, <2>1, <2>2, <2>3 DEF FilesInv
<1>12. ShardsInv'
  BY <1>1, <1>2, <1>4, <1>6, <1>7, <1>8 DEF ShardsInv
<1>13. PassedInv'
  <2> SUFFICES ASSUME ~sequenced
               PROVE  /\ \A i \in RowsNow : <<i, offset>> \in Before => i \in written \union excused
                      /\ \A i \in RowsNow : <<i, h>> \in Before => i \in Kept \union {h}
                      /\ \A o \in ToSet(fetched') : \A i \in RowsNow : <<i, o>> \in Before =>
                            i \in Kept \union {h} \/ (i \in ToSet(fetched') /\ i <= o)
    BY <1>1, <1>2, <1>5, <1>6 DEF PassedInv
  <2>1. ASSUME NEW i \in RowsNow, <<i, h>> \in Before PROVE i \in Kept \union {h}
    <3>1. i \in Kept \/ (i \in ToSet(fetched) /\ i <= h)
      BY <1>4, <2>1 DEF PassedInv
    <3>2. i \in Nat
      BY LRows
    <3>3. QED
      BY <1>4, <3>1, <3>2
  <2>2. QED
    BY <1>4, <2>1 DEF PassedInv
<1>14. QED
  BY <1>2, <1>9, <1>10, <1>11, <1>12, <1>13

LEMMA ISave == ASSUME Inv, Save PROVE Inv'
<1> USE DEF Inv
<1>1. /\ UNCHANGED <<kind, sequenced, log, floor, since>>
      /\ UNCHANGED <<up, cursor, start, listed, fetched, seen, excused>>
      /\ up /\ yielded # <<>> /\ yielded' = <<>>
      /\ written' = written \union ToSet(yielded) /\ offset' = LastOf(yielded)
  BY DEF Save, service, database
<1>2. /\ LogInv' /\ (Windows' <=> Windows) /\ RowsNow' = RowsNow /\ Head0' = Head0
      /\ \A i : Unit(i)' = Unit(i) /\ Position(i)' = Position(i)
      /\ Before' = Before
  BY <1>1, LSame DEF LogInv
<1>3. ToSet(yielded') = {} /\ yielded' \in Seq(RowsNow)
  BY <1>1, EmptySeq, LenProperties DEF ToSet
<1>4. Kept' = Kept /\ written' \union excused' = Kept /\ written \subseteq written'
  BY <1>1, <1>3 DEF Kept
<1>5. offset' \in RowsNow
  BY <1>1, EmptySeq, ElementOfSeq DEF SessionInv, LastOf
<1>6. SessionInv'
  BY <1>1, <1>2, <1>3, <1>5 DEF SessionInv
<1>7. WindowsInv'
  BY <1>1, <1>2, <1>4, LRows DEF WindowsInv, SessionInv
<1>8. FilesInv'
  BY <1>1, <1>2, <1>4, LRows DEF FilesInv, SessionInv
<1>9. ShardsInv'
  BY <1>1, <1>2, <1>4 DEF ShardsInv
<1>10. PassedInv'
  BY <1>1, <1>2, <1>4 DEF PassedInv
<1>11. QED
  BY <1>2, <1>6, <1>7, <1>8, <1>9, <1>10

LEMMA ICrash == ASSUME Inv, Crash PROVE Inv'
<1> USE DEF Inv
<1>1. /\ UNCHANGED <<kind, sequenced, log, floor, since, offset, written, excused>>
      /\ up' = FALSE /\ cursor' = 0 /\ start' = 0 /\ listed' = <<>>
      /\ fetched' = <<>> /\ yielded' = <<>> /\ seen' = {}
  BY DEF Crash, service, database
<1>2. /\ LogInv' /\ (Windows' <=> Windows) /\ RowsNow' = RowsNow /\ Head0' = Head0
      /\ Before' = Before
  BY <1>1, LSame DEF LogInv
<1>3. /\ ToSet(fetched') = {} /\ ToSet(yielded') = {} /\ ToSet(listed') = {}
      /\ Increasing(fetched') /\ Increasing(listed')
  BY <1>1, EmptySeq, LenProperties DEF ToSet, Increasing
<1>4. SessionInv'
  BY <1>1, <1>2, <1>3, EmptySeq DEF SessionInv
<1>5. WindowsInv'
  BY <1>1, <1>2, <1>3, LRows DEF WindowsInv
<1>6. FilesInv'
  BY <1>1, <1>2, <1>3, EmptySeq DEF FilesInv
<1>7. 0 \notin RowsNow
  BY LRows
<1>8. ShardsInv'
  BY <1>1, <1>2, <1>3, <1>7 DEF ShardsInv, Before
<1>9. PassedInv'
  BY <1>1, <1>2, <1>3 DEF PassedInv
<1>10. QED
  BY <1>2, <1>4, <1>5, <1>6, <1>8, <1>9

\* Steps after which nothing new has to be read: log is purged, a shard is closed.
LEMMA IMonotone ==
    ASSUME Inv, UNCHANGED <<service, log, session, offset, written, since>>,
           excused \subseteq excused', floor' \in Nat, Windows => floor' <= Head0
    PROVE  Inv'
<1> USE DEF Inv
<1>1. /\ UNCHANGED <<kind, sequenced, log, since>>
      /\ UNCHANGED <<up, cursor, start, listed, fetched, yielded, seen, offset, written>>
  BY DEF service, session
<1>2. /\ LogInv' /\ (Windows' <=> Windows) /\ RowsNow' = RowsNow /\ Head0' = Head0
      /\ \A i : Unit(i)' = Unit(i) /\ Position(i)' = Position(i)
      /\ Before' = Before
  BY <1>1, LSame DEF LogInv
<1>3. Kept \subseteq Kept' /\ written \union excused \subseteq written' \union excused'
  BY <1>1 DEF Kept
<1>4. SessionInv'
  BY <1>1, <1>2 DEF SessionInv
<1>5. WindowsInv'
  BY <1>1, <1>2, <1>3 DEF WindowsInv
<1>6. FilesInv'
  BY <1>1, <1>2, <1>3 DEF FilesInv
<1>7. ShardsInv'
  BY <1>1, <1>2, <1>3 DEF ShardsInv
<1>8. PassedInv'
  BY <1>1, <1>2, <1>3 DEF PassedInv
<1>9. QED
  BY <1>2, <1>4, <1>5, <1>6, <1>7, <1>8

\* The rows of a window that are still to come are in it, or torn from it.
LEMMA IReadWindow == ASSUME Inv, ReadWindow PROVE Inv'
<1> USE DEF Inv
<1>1. /\ UNCHANGED <<kind, sequenced, log, floor, since>>
      /\ UNCHANGED <<up, listed, yielded, seen, offset, written>>
      /\ up /\ Windows /\ fetched = <<>> /\ cursor < Head0
      /\ fetched' = Sorted(Window(cursor, Head0))
      /\ cursor' = Head0 /\ start' = cursor
      /\ excused' = excused \union Torn
  BY DEF ReadWindow, service, database, Windows
<1>2. /\ LogInv' /\ (Windows' <=> Windows) /\ RowsNow' = RowsNow /\ Head0' = Head0
      /\ \A i : Unit(i)' = Unit(i) /\ Position(i)' = Position(i)
      /\ Before' = Before
  BY <1>1, LSame DEF LogInv
<1>3. PICK W : W = Window(cursor, Head0)
  OBVIOUS
<1>4. W \in SUBSET RowsNow /\ \A i \in W : cursor <= Position(i) /\ Position(i) <= Head0
  BY <1>3 DEF Window
<1>5. IsFiniteSet(W) /\ W \in SUBSET Nat
  BY <1>4, LRows, FS_Subset
<1>6. fetched' \in Seq(RowsNow) /\ Increasing(fetched') /\ ToSet(fetched') = W
  BY <1>1, <1>3, <1>4, <1>5, SSorted, SeqMonotonic
<1>7. ToSet(fetched) = {} /\ Kept' = Kept \union Torn
  BY <1>1, EmptySeq, LenProperties DEF ToSet, Kept
<1>8. ASSUME NEW i \in RowsNow, since <= Position(i), Position(i) < Head0
      PROVE  i \in Kept' \union W
  <2>1. Position(i) \in Nat /\ cursor \in Nat
    BY LRows DEF SessionInv
  <2>2. CASE Position(i) < cursor
    BY <1>1, <1>7, <1>8, <2>2 DEF WindowsInv
  <2>3. CASE cursor <= Position(i)
    <3>1. Committed(i) => i \in W
      BY <1>3, <1>8, <2>1, <2>3, LRows DEF Window
    <3>2. ~Committed(i) => i \in Torn
      BY <1>8 DEF Torn, Committed
    <3>3. QED
      BY <1>7, <3>1, <3>2
  <2>4. QED
    BY <2>1, <2>2, <2>3
<1>9. SessionInv'
  BY <1>1, <1>2, <1>6, LRows DEF SessionInv
<1>10. WindowsInv'
  <2>1. \A i \in seen : Position(i) <= cursor /\ Position(i) \in Nat
    BY <1>1, LRows DEF WindowsInv, SessionInv
  <2>2. \A i \in W : Position(i) \in Nat
    BY <1>4, LRows
  <2>3. cursor \in Nat /\ Head0 \in Nat
    BY LRows DEF SessionInv
  <2>4. QED
    BY <1>1, <1>2, <1>4, <1>6, <1>8, <2>1, <2>2, <2>3 DEF WindowsInv
<1>11. FilesInv' /\ ShardsInv'
  BY <1>1 DEF FilesInv, ShardsInv, Windows
<1>12. ASSUME NEW o \in W, NEW i \in RowsNow, <<i, o>> \in Before
       PROVE  i \in Kept' \/ (i \in W /\ i <= o)
  <2>1. since <= Position(i) /\ Position(i) < Position(o)
    BY <1>1, <1>12, LBefore
  <2>2. Position(i) < Head0
    BY <1>4, <2>1, LRows
  <2>3. i \in Kept' \union W
    BY <1>8, <2>1, <2>2
  <2>4. i \in Indices /\ o \in Indices /\ i \in Nat /\ o \in Nat
    BY <1>4, LRows
  <2>5. i <= o
    <3>1. CASE kind = "oracle"
      BY <2>1, <2>4, <3>1 DEF Position
    <3>2. CASE kind = "sqlserver"
      <4>1. Unit(i) < Unit(o) /\ Unit(i) \in Nat /\ Unit(o) \in Nat
        BY <2>1, <2>4, <3>2, LRows DEF Position, Units
      <4>2. o <= i => Unit(o) <= Unit(i)
        BY <2>4, <3>2 DEF LogInv
      <4>3. QED
        BY <2>4, <4>1, <4>2
    <3>3. QED
      BY <1>1, <3>1, <3>2 DEF Windows
  <2>6. QED
    BY <2>3, <2>5
<1>13. PassedInv'
  BY <1>1, <1>2, <1>6, <1>7, <1>12 DEF PassedInv
<1>14. QED
  BY <1>2, <1>9, <1>10, <1>11, <1>13

\* The list names every file behind the last one.
LEMMA IListFiles == ASSUME Inv, ListFiles PROVE Inv'
<1> USE ConstantsAssumption DEF Inv
<1>1. /\ UNCHANGED <<kind, sequenced, log, floor, since>>
      /\ UNCHANGED <<up, cursor, start, fetched, yielded, seen, offset, written, excused>>
      /\ up /\ kind = "datastream"
      /\ listed' = Sorted({u \in Units : Exists(u) /\ u > cursor})
  BY DEF ListFiles, service, database
<1>2. /\ LogInv' /\ (Windows' <=> Windows) /\ RowsNow' = RowsNow /\ Head0' = Head0
      /\ \A i : Unit(i)' = Unit(i) /\ Position(i)' = Position(i)
      /\ Before' = Before
  BY <1>1, LSame DEF LogInv
<1>3. PICK F : F = {u \in Units : Exists(u) /\ u > cursor}
  OBVIOUS
<1>4. F \in SUBSET Nat /\ F \in SUBSET Units /\ IsFiniteSet(F)
  <2>1. IsFiniteSet(Units)
    BY FS_Interval DEF Units
  <2>2. F \in SUBSET Units /\ F \in SUBSET Nat
    BY <1>3 DEF Units
  <2>3. QED
    BY <2>1, <2>2, FS_Subset
<1>5. listed' \in Seq(Units) /\ Increasing(listed') /\ ToSet(listed') = F
  BY <1>1, <1>3, <1>4, SSorted, SeqMonotonic
<1>6. \A i \in RowsNow : cursor < Unit(i) => Unit(i) \in F
  BY <1>3, LRows DEF Exists, SessionInv, Units
<1>7. Kept' = Kept
  BY <1>1 DEF Kept
<1>8. SessionInv'
  BY <1>1, <1>2 DEF SessionInv
<1>9. \A u \in F : cursor < u
  BY <1>3, <1>4 DEF SessionInv
<1>10. FilesInv'
  BY <1>1, <1>2, <1>5, <1>6, <1>7, <1>9 DEF FilesInv
<1>11. WindowsInv' /\ ShardsInv'
  BY <1>1 DEF WindowsInv, ShardsInv, Windows
<1>12. PassedInv'
  BY <1>1, <1>2, <1>7 DEF PassedInv
<1>13. QED
  BY <1>2, <1>8, <1>10, <1>11, <1>12

\* The records of a file: those that can be read are read in order, the others excused.
LEMMA LRecords ==
    ASSUME LogInv, NEW R \in SUBSET RowsNow, ReadRecords(R)
    PROVE  /\ fetched' \in Seq(RowsNow) /\ Increasing(fetched') /\ ToSet(fetched') \subseteq R
           /\ R \subseteq ToSet(fetched') \union excused' /\ excused \subseteq excused'
           /\ R = {} => fetched' = <<>> /\ excused' = excused
<1>1. PICK S \in SUBSET R : fetched' = Sorted(S) /\ excused' = excused \union (R \ S)
  BY DEF ReadRecords
<1>2. IsFiniteSet(S) /\ S \in SUBSET Nat /\ S \in SUBSET RowsNow
  BY LRows, FS_Subset
<1>3. /\ fetched' \in Seq(S) /\ Increasing(fetched') /\ ToSet(fetched') = S
  BY <1>1, <1>2, SSorted
<1>4. fetched' \in Seq(RowsNow)
  BY <1>2, <1>3, SeqMonotonic
<1>5. R = {} => fetched' = <<>>
  <2> SUFFICES ASSUME R = {} PROVE fetched' = <<>>
    OBVIOUS
  <2>1. Len(fetched') \in Nat /\ DOMAIN fetched' = 1..Len(fetched') /\ ToSet(fetched') = {}
    BY <1>3, LenProperties
  <2>2. Len(fetched') = 0
    <3>1. 1 \notin DOMAIN fetched'
      BY <2>1 DEF ToSet
    <3>2. QED
      BY <2>1, <3>1
  <2>3. QED
    BY <1>3, <2>2, EmptySeq
<1>6. QED
  BY <1>1, <1>3, <1>4, <1>5

\* Of the next file every record is read or skipped.
LEMMA IReadFile == ASSUME Inv, ReadFile PROVE Inv'
<1> USE ConstantsAssumption DEF Inv
<1>1. /\ UNCHANGED <<kind, sequenced, log, floor, since>>
      /\ UNCHANGED <<up, start, yielded, seen, offset, written>>
      /\ up /\ kind = "datastream" /\ fetched = <<>> /\ listed # <<>>
      /\ cursor' = Head(listed) /\ listed' = Tail(listed)
      /\ ReadRecords(InUnit(Head(listed)))
  BY DEF ReadFile, service, database
<1>2. /\ LogInv' /\ (Windows' <=> Windows) /\ RowsNow' = RowsNow /\ Head0' = Head0
      /\ \A i : Unit(i)' = Unit(i) /\ Position(i)' = Position(i)
      /\ Before' = Before
  BY <1>1, LSame DEF LogInv
<1>3. PICK u : u = Head(listed)
  OBVIOUS
<1>4. /\ u \in Units /\ u \in ToSet(listed) /\ u \in Nat
      /\ listed' \in Seq(Units) /\ Increasing(listed')
      /\ ToSet(listed) = {u} \union ToSet(listed')
      /\ \A x \in ToSet(listed') : u < x
      /\ LastOf(listed) \in Nat /\ u <= LastOf(listed)
      /\ listed' # <<>> => LastOf(listed') = LastOf(listed)
  <2>1. Units \in SUBSET Nat /\ listed \in Seq(Units) /\ Increasing(listed)
    BY <1>1 DEF Units, FilesInv
  <2>2. \A x \in ToSet(listed) : x \in Units
    BY <2>1, LenProperties, ElementOfSeq DEF ToSet
  <2>3. QED
    BY <1>1, <1>3, <2>1, <2>2, QEnds
<1>5. cursor < u /\ cursor \in Nat
  BY <1>1, <1>4 DEF FilesInv, SessionInv
<1>6. InUnit(u) \in SUBSET RowsNow /\ \A i \in RowsNow : i \in InUnit(u) <=> Unit(i) = u
  BY DEF InUnit
<1>8. /\ fetched' \in Seq(RowsNow) /\ Increasing(fetched') /\ ToSet(fetched') \subseteq InUnit(u)
      /\ InUnit(u) \subseteq ToSet(fetched') \union excused' /\ excused \subseteq excused'
  BY <1>1, <1>3, <1>6, LRecords
<1>9. ToSet(fetched) = {} /\ Kept \subseteq Kept' /\ excused' \subseteq Kept'
  BY <1>1, <1>8, EmptySeq, LenProperties DEF ToSet, Kept
<1>10. \A i \in RowsNow : Unit(i) \in Nat
  BY LRows DEF Units
<1>11. ASSUME ~sequenced, NEW i \in RowsNow, Unit(i) <= u
       PROVE  i \in Kept' \union ToSet(fetched')
  <2>1. CASE Unit(i) <= cursor
    BY <1>1, <1>9, <1>11, <2>1 DEF FilesInv
  <2>2. CASE Unit(i) = u
    BY <1>6, <1>8, <1>9, <2>2
  <2>3. CASE cursor < Unit(i) /\ Unit(i) < u
    <3>1. Unit(i) < LastOf(listed) /\ Unit(i) \notin ToSet(listed)
      BY <1>4, <1>10, <2>3
    <3>2. i \in excused
      BY <1>1, <1>11, <2>3, <3>1 DEF FilesInv
    <3>3. QED
      BY <1>8, <1>9, <3>2
  <2>4. QED
    BY <1>4, <1>5, <1>10, <1>11, <2>1, <2>2, <2>3
<1>12. SessionInv'
  BY <1>1, <1>2, <1>3, <1>4, <1>8 DEF SessionInv
<1>13. FilesInv'
  <2>1. \A i \in seen : Unit(i) <= cursor /\ Unit(i) \in Nat
    BY <1>1, <1>10 DEF FilesInv, SessionInv
  <2>2. \A i \in ToSet(fetched') : Unit(i) = u
    BY <1>6, <1>8
  <2>3. \A i \in seen' : Unit(i)' <= cursor'
    BY <1>1, <1>2, <1>3, <1>4, <1>5, <2>1
  <2>4. \A i \in ToSet(fetched') : Unit(i)' = cursor' /\ i \notin seen'
    BY <1>1, <1>2, <1>3, <1>4, <1>5, <2>1, <2>2
  <2>5. ASSUME ~sequenced, NEW i \in RowsNow, listed' # <<>>, u < Unit(i),
               Unit(i) < LastOf(listed'), i \notin excused'
        PROVE  Unit(i) \in ToSet(listed')
    <3>1. cursor < Unit(i) /\ i \notin excused
      BY <1>4, <1>5, <1>8, <1>10, <2>5
    <3>2. Unit(i) \in ToSet(listed)
      BY <1>1, <1>4, <2>5, <3>1 DEF FilesInv
    <3>3. QED
      BY <1>4, <1>10, <2>5, <3>2
  <2>6. QED
    BY <1>1, <1>2, <1>3, <1>4, <1>11, <2>3, <2>4, <2>5 DEF FilesInv
<1>14. WindowsInv' /\ ShardsInv'
  BY <1>1 DEF WindowsInv, ShardsInv, Windows
<1>15. ASSUME ~sequenced, NEW o \in ToSet(fetched'), NEW i \in RowsNow, <<i, o>> \in Before
       PROVE  i \in Kept' \/ (i \in ToSet(fetched') /\ i <= o)
  <2>1. Unit(o) = u
    BY <1>6, <1>8
  <2>2. Unit(i) < u \/ (Unit(i) = u /\ i <= o)
    BY <1>1, <1>15, <2>1, LBefore
  <2>3. i \in Kept' \union ToSet(fetched')
    BY <1>4, <1>10, <1>11, <1>15, <2>2
  <2>4. i \in ToSet(fetched') => Unit(i) = u
    BY <1>6, <1>8
  <2>5. QED
    BY <1>4, <1>10, <2>2, <2>3, <2>4
<1>16. PassedInv'
  BY <1>1, <1>2, <1>8, <1>9, <1>15 DEF PassedInv
<1>17. QED
  BY <1>2, <1>12, <1>13, <1>14, <1>16

\* A shard is read on behind what this stream has yielded of it.
LEMMA IReadShard == ASSUME Inv, ReadShard PROVE Inv'
<1> USE DEF Inv
<1>1. /\ UNCHANGED <<kind, sequenced, log, floor, since>>
      /\ UNCHANGED <<up, start, listed, yielded, seen, offset, written, excused>>
      /\ up /\ kind = "dynamodb" /\ fetched = <<>>
  BY DEF ReadShard, service, database
<1>2. /\ LogInv' /\ (Windows' <=> Windows) /\ RowsNow' = RowsNow /\ Head0' = Head0
      /\ \A i : Unit(i)' = Unit(i) /\ Position(i)' = Position(i)
      /\ Before' = Before
  BY <1>1, LSame DEF LogInv
<1>3. PICK u : u = listed[cursor]
  OBVIOUS
<1>4. PICK next : next = {i \in InUnit(u) : i > ShardStart(u) /\ i \notin seen}
  OBVIOUS
<1>5. \/ fetched' = Sorted(next) /\ cursor' = cursor
      \/ fetched' = fetched /\ cursor' = cursor + 1
  BY <1>3, <1>4 DEF ReadShard
<1>6. next \in SUBSET RowsNow /\ \A i \in next : Unit(i) = u /\ i \notin seen
  BY <1>4 DEF InUnit
<1>7. IsFiniteSet(next) /\ next \in SUBSET Nat
  BY <1>6, LRows, FS_Subset
<1>8. ToSet(fetched) = {} /\ ToSet(<<>>) = {}
  BY <1>1, EmptySeq, LenProperties DEF ToSet
<1>9. /\ cursor' \in Nat /\ fetched' \in Seq(RowsNow) /\ Increasing(fetched')
      /\ ToSet(fetched') = next \/ ToSet(fetched') = {}
  <2>1. CASE fetched' = Sorted(next) /\ cursor' = cursor
    BY <1>6, <1>7, <2>1, SSorted, SeqMonotonic DEF SessionInv
  <2>2. CASE fetched' = fetched /\ cursor' = cursor + 1
    BY <1>8, <2>2 DEF SessionInv
  <2>3. QED
    BY <1>5, <2>1, <2>2
<1>10. Kept' = Kept
  BY <1>1 DEF Kept
<1>11. SessionInv'
  BY <1>1, <1>2, <1>9 DEF SessionInv
<1>12. WindowsInv' /\ FilesInv'
  BY <1>1 DEF WindowsInv, FilesInv, Windows
<1>13. ShardsInv'
  BY <1>1, <1>2, <1>6, <1>9, <1>10 DEF ShardsInv
<1>14. ASSUME NEW o \in ToSet(fetched'), NEW i \in RowsNow, <<i, o>> \in Before
       PROVE  i \in Kept \/ (i \in ToSet(fetched') /\ i <= o)
  <2>1. ToSet(fetched') = next /\ o \in next /\ Unit(o) = u
    BY <1>6, <1>9, <1>14
  <2>2. Unit(i) = u /\ i <= o /\ i \in Nat
    BY <1>1, <1>6, <1>14, <2>1, LBefore, LRows
  <2>3. CASE i \in seen
    BY <1>1, <2>3 DEF ShardsInv
  <2>4. CASE i > ShardStart(u) /\ i \notin seen
    BY <1>4, <2>1, <2>2, <2>4 DEF InUnit
  <2>5. CASE ~(i > ShardStart(u))
    <3>1. start \in RowsNow /\ Unit(start) = u /\ ShardStart(u) = start
      <4>1. i > 0
        BY LRows
      <4>2. ShardStart(u) # 0
        BY <2>5, <4>1
      <4>3. start # 0 /\ Unit(start) = u /\ ShardStart(u) = start
        BY <4>2 DEF ShardStart
      <4>4. QED
        BY <1>1, <4>3 DEF ShardsInv
    <3>2. start \in Nat /\ i <= start
      BY <2>2, <2>5, <3>1, LRows
    <3>3. <<i, start>> \in Before
      BY <1>1, <2>2, <3>1, <3>2, LBefore
    <3>4. QED
      BY <1>1, <3>3 DEF ShardsInv, Kept
  <2>6. QED
    BY <2>3, <2>4, <2>5
<1>15. PassedInv'
  BY <1>1, <1>2, <1>10, <1>14 DEF PassedInv
<1>16. QED
  BY <1>2, <1>11, <1>12, <1>13, <1>15

\* What every opening does: a stream starts with nothing yielded.
LEMMA IOpened ==
    ASSUME Inv, Open
    PROVE  /\ UNCHANGED <<kind, sequenced, log, floor, yielded, seen, offset, written>>
           /\ up' /\ up' = TRUE /\ start' = offset
           /\ seen = {} /\ yielded = <<>> /\ ToSet(yielded) = {} /\ ToSet(<<>>) = {}
           /\ excused \subseteq excused' /\ Kept = written \union excused
           /\ Kept' = written \union excused'
           /\ since' # since => offset = 0 /\ Windows
           /\ <<>> \in Seq(RowsNow) /\ Increasing(<<>>)
           /\ 0 \notin RowsNow
<1> USE DEF Inv
<1>1. /\ UNCHANGED <<kind, sequenced, log, floor, yielded, seen, offset, written>>
      /\ ~up /\ up' = TRUE /\ start' = offset /\ excused \subseteq excused'
      /\ since' # since => offset = 0 /\ Windows
  <2>1. excused \subseteq excused'
    BY DEF Open, ReadRecords
  <2>2. QED
    BY <2>1 DEF Open, service, database, Windows
<1>2. seen = {} /\ yielded = <<>>
  BY <1>1 DEF SessionInv
<1>3. DOMAIN <<>> = {} /\ <<>> \in Seq(RowsNow)
  BY EmptySeq, LenProperties
<1>4. ToSet(<<>>) = {} /\ Increasing(<<>>)
  BY <1>3 DEF ToSet, Increasing
<1>5. Kept = written \union excused /\ Kept' = written \union excused'
  BY <1>1, <1>2, <1>4 DEF Kept
<1>6. 0 \notin RowsNow
  BY LRows
<1>7. QED
  BY <1>1, <1>2, <1>3, <1>4, <1>5, <1>6

\* The first window begins at the saved position, or where promises begin.
LEMMA IOpenWindows == ASSUME Inv, Open, Windows PROVE Inv'
<1> USE DEF Inv
<1>1. /\ fetched' = <<>> /\ excused' = excused /\ ~sequenced
      /\ kind \in {"oracle", "sqlserver"}
      /\ cursor' = IF offset = 0 THEN IF kind = "oracle" THEN Len(log) ELSE floor
                   ELSE Position(offset)
      /\ since' = IF offset = 0 THEN cursor' ELSE since
  <2>1. ReadRecords({})
    <3>1. {i \in RowsNow : kind = "datastream" /\ Unit(i) = SavedFile /\ i > offset} = {}
      BY DEF Windows
    <3>2. QED
      BY <3>1 DEF Open
  <2>2. fetched' = <<>> /\ excused' = excused
    BY <2>1, LRecords
  <2>3. QED
    BY <2>2 DEF Open, Windows, Position, LogInv
<1>2. cursor' \in Nat /\ cursor' <= Head0 /\ since' \in Nat
  <2>1. CASE offset = 0
    BY <1>1, <2>1, LRows DEF LogInv, Head0
  <2>2. CASE offset # 0
    BY <1>1, <2>2, LRows DEF LogInv, SessionInv
  <2>3. QED
    BY <2>1, <2>2
<1>3. /\ LogInv' /\ (Windows' <=> Windows) /\ RowsNow' = RowsNow /\ Head0' = Head0
      /\ \A i : Unit(i)' = Unit(i) /\ Position(i)' = Position(i)
      /\ since' = since => Before' = Before
  BY <1>2, IOpened, LSame DEF LogInv
<1>4. ASSUME NEW i \in RowsNow, since' <= Position(i), Position(i) < cursor'
      PROVE  i \in written \union excused
  <2>1. offset \in RowsNow /\ cursor' = Position(offset) /\ since' = since
    BY <1>1, <1>2, <1>4, LRows DEF SessionInv
  <2>2. <<i, offset>> \in Before
    BY <1>4, <2>1, LBefore
  <2>3. QED
    BY <1>1, <2>2 DEF PassedInv
<1>5. SessionInv'
  BY <1>1, <1>2, <1>3, IOpened DEF SessionInv
<1>6. WindowsInv'
  BY <1>1, <1>2, <1>3, <1>4, IOpened DEF WindowsInv
<1>7. FilesInv' /\ ShardsInv'
  BY <1>1, IOpened DEF FilesInv, ShardsInv
<1>8. PassedInv'
  <2>1. ASSUME NEW i \in RowsNow, <<i, offset>> \in Before' PROVE i \in written \union excused
    <3>1. offset # 0
      BY <1>3, <2>1, IOpened DEF Before
    <3>2. <<i, offset>> \in Before
      BY <1>1, <1>3, <2>1, <3>1
    <3>3. QED
      BY <1>1, <2>1, <3>2 DEF PassedInv
  <2>2. QED
    BY <1>1, <1>3, <2>1, IOpened DEF PassedInv
<1>9. QED
  BY <1>3, <1>5, <1>6, <1>7, <1>8

\* A file that was begun is read on behind the saved record, or skipped.
LEMMA IOpenFiles == ASSUME Inv, Open, kind = "datastream" PROVE Inv'
<1> USE ConstantsAssumption DEF Inv
<1>1. PICK rest : rest = {i \in RowsNow : kind = "datastream" /\ Unit(i) = SavedFile /\ i > offset}
  OBVIOUS
<1>2. /\ cursor' = IF SkipsAll THEN MaxUnit ELSE SavedFile
      /\ listed' = <<>> /\ since' = since
      /\ ReadRecords(rest)
  BY <1>1, IOpened DEF Open
<1>3. /\ LogInv' /\ (Windows' <=> Windows) /\ RowsNow' = RowsNow /\ Head0' = Head0
      /\ \A i : Unit(i)' = Unit(i) /\ Position(i)' = Position(i)
      /\ Before' = Before
  BY <1>2, IOpened, LSame DEF LogInv
<1>4. SavedFile # 0 => ~sequenced /\ offset \in RowsNow /\ SavedFile = Unit(offset)
  BY DEF SavedFile, SessionInv
<1>5. \A i \in RowsNow : Unit(i) \in Nat \ {0} /\ i \in Nat
  BY LRows DEF Units
<1>6. SavedFile \in Nat /\ cursor' \in Nat /\ (SavedFile # 0 => cursor' = SavedFile)
  BY <1>2, <1>4, <1>5 DEF SkipsAll
<1>7. /\ rest \in SUBSET RowsNow
      /\ \A i \in RowsNow : i \in rest <=> Unit(i) = SavedFile /\ i > offset
  BY <1>1
<1>8. SavedFile = 0 => rest = {}
  BY <1>5, <1>7
<1>9. /\ fetched' \in Seq(RowsNow) /\ Increasing(fetched')
      /\ ToSet(fetched') \subseteq rest /\ (SavedFile = 0 => ToSet(fetched') = {})
      /\ SavedFile # 0 => rest \subseteq ToSet(fetched') \union excused'
  BY <1>2, <1>7, <1>8, LRecords
<1>10. ASSUME ~sequenced, NEW i \in RowsNow, Unit(i) <= cursor'
       PROVE  i \in written \union excused' \union ToSet(fetched')
  <2>1. SavedFile # 0 /\ cursor' = SavedFile
    BY <1>2, <1>5, <1>6, <1>10 DEF SkipsAll
  <2>2. CASE i \in rest
    BY <1>9, <2>1, <2>2
  <2>3. CASE i \notin rest
    <3>1. Unit(i) < Unit(offset) \/ (Unit(i) = Unit(offset) /\ i <= offset)
      BY <1>4, <1>5, <1>7, <1>10, <2>1, <2>3
    <3>2. <<i, offset>> \in Before
      BY <1>4, <2>1, <3>1, LBefore
    <3>3. QED
      BY <1>10, <3>2, IOpened DEF PassedInv
  <2>4. QED
    BY <2>2, <2>3
<1>11. SessionInv'
  BY <1>2, <1>3, <1>6, <1>9, IOpened DEF SessionInv
<1>12. FilesInv'
  <2>1. \A i \in ToSet(fetched') : Unit(i) = cursor'
    BY <1>6, <1>7, <1>9
  <2>2. <<>> \in Seq(Units)
    BY EmptySeq
  <2>3. QED
    BY <1>2, <1>3, <1>10, <2>1, <2>2, IOpened DEF FilesInv
<1>13. WindowsInv' /\ ShardsInv'
  BY IOpened DEF WindowsInv, ShardsInv, Windows
<1>14. PassedInv'
  <2> SUFFICES ASSUME ~sequenced
               PROVE  /\ \A i \in RowsNow : <<i, offset>> \in Before => i \in written \union excused'
                      /\ \A o \in ToSet(fetched') : \A i \in RowsNow : <<i, o>> \in Before =>
                            i \in written \union excused' \/ (i \in ToSet(fetched') /\ i <= o)
    BY <1>3, IOpened DEF PassedInv
  <2>1. \A i \in RowsNow : <<i, offset>> \in Before => i \in written \union excused'
    BY IOpened DEF PassedInv
  <2>2. ASSUME NEW o \in ToSet(fetched'), NEW i \in RowsNow, <<i, o>> \in Before
        PROVE  i \in written \union excused' \/ (i \in ToSet(fetched') /\ i <= o)
    <3>1. o \in RowsNow /\ Unit(o) = SavedFile /\ SavedFile = cursor' /\ SavedFile # 0
      BY <1>6, <1>7, <1>9
    <3>2. Unit(i) < Unit(o) \/ (Unit(i) = Unit(o) /\ i <= o)
      BY <2>2, <3>1, LBefore
    <3>3. i \in written \union excused' \union ToSet(fetched')
      BY <1>5, <1>10, <3>1, <3>2
    <3>4. i \in ToSet(fetched') => Unit(i) = SavedFile
      BY <1>7, <1>9
    <3>5. QED
      BY <1>5, <3>1, <3>2, <3>3, <3>4
  <2>3. QED
    BY <2>1, <2>2
<1>15. QED
  BY <1>3, <1>11, <1>12, <1>13, <1>14

\* What the saved sequence number covers of its shard was written.
LEMMA IOpenShards == ASSUME Inv, Open, kind = "dynamodb" PROVE Inv'
<1> USE DEF Inv
<1>1. fetched' = <<>> /\ excused' = excused /\ cursor' = 1 /\ since' = since /\ ~sequenced
  <2>1. ReadRecords({})
    <3>1. {i \in RowsNow : kind = "datastream" /\ Unit(i) = SavedFile /\ i > offset} = {}
      OBVIOUS
    <3>2. QED
      BY <3>1 DEF Open
  <2>2. fetched' = <<>> /\ excused' = excused
    BY <2>1, LRecords
  <2>3. QED
    BY <2>2, IOpened DEF Open, LogInv
<1>2. /\ LogInv' /\ (Windows' <=> Windows) /\ RowsNow' = RowsNow /\ Head0' = Head0
      /\ Before' = Before
  BY <1>1, IOpened, LSame DEF LogInv
<1>3. SessionInv'
  BY <1>1, <1>2, IOpened DEF SessionInv
<1>4. WindowsInv' /\ FilesInv'
  BY IOpened DEF WindowsInv, FilesInv, Windows
<1>5. \A i \in RowsNow : <<i, offset>> \in Before => i \in written \union excused
  BY <1>1 DEF PassedInv
<1>6. ShardsInv'
  BY <1>1, <1>2, <1>5, IOpened DEF ShardsInv, SessionInv
<1>7. PassedInv'
  BY <1>1, <1>2, <1>5, IOpened DEF PassedInv
<1>8. QED
  BY <1>2, <1>3, <1>4, <1>6, <1>7

-----------------------------------------------------------------------------
(* The log grows *)

\* The rows that are logged come behind the others, which stay what they are.
LEMMA LGrow ==
    ASSUME LogInv, NEW u \in Units, NEW n \in 1..2, NEW b \in BOOLEAN, Append2(u, n, b),
           kind' = kind, since' = since
    PROVE  /\ log' \in Seq(Entry) /\ Len(log') = Len(log) + n /\ LastUnit' = u
           /\ RowsNow \subseteq RowsNow'
           /\ \A i \in RowsNow' \ RowsNow :
                 i \in (Len(log) + 1)..(Len(log) + n) /\ Unit(i)' = u
           /\ \A i \in RowsNow : Unit(i)' = Unit(i) /\ Position(i)' = Position(i)
           /\ \A i \in Indices' : \/ i \in Indices /\ Unit(i)' = Unit(i)
                                  \/ i \notin Indices /\ i > Len(log) /\ Unit(i)' = u
           /\ \A i, o \in RowsNow : <<i, o>> \in Before' <=> <<i, o>> \in Before
<1>1. PICK m \in Nat : m = Len(log) /\ DOMAIN log = 1..m
  BY LenProperties DEF LogInv
<1>2. PICK more : more = [i \in 1..n |-> [unit |-> u, row |-> b]]
  OBVIOUS
<1>3. more \in Seq(Entry) /\ Len(more) = n /\ \A i \in 1..n : more[i] = [unit |-> u, row |-> b]
  <2>1. more \in [1..n -> Entry] /\ n \in Nat
    BY <1>2 DEF Entry
  <2>2. more \in Seq(Entry)
    BY <2>1, SeqDef
  <2>3. Len(more) \in Nat /\ 1..Len(more) = 1..n
    BY <2>1, <2>2, LenProperties
  <2>4. QED
    BY <1>2, <2>1, <2>2, <2>3
<1>4. /\ log' \in Seq(Entry) /\ Len(log') = m + n
      /\ \A i \in 1..(m + n) : log'[i] = IF i <= m THEN log[i] ELSE more[i - m]
  <2>1. log' = log \o more /\ log \in Seq(Entry) /\ more \in Seq(Entry)
    BY <1>2, <1>3 DEF Append2, LogInv
  <2>2. PICK r : r = log \o more
    OBVIOUS
  <2>3. /\ r \in Seq(Entry) /\ Len(r) = Len(log) + Len(more)
        /\ \A i \in 1..(Len(log) + Len(more)) :
              r[i] = IF i <= Len(log) THEN log[i] ELSE more[i - Len(log)]
    BY <2>1, <2>2, ConcatProperties
  <2>4. QED
    BY <1>1, <1>3, <2>1, <2>2, <2>3
<1>5. \A i \in 1..m : log'[i] = log[i]
  BY <1>4
<1>6. \A i \in (m + 1)..(m + n) : log'[i] = [unit |-> u, row |-> b]
  <2> SUFFICES ASSUME NEW i \in (m + 1)..(m + n) PROVE log'[i] = [unit |-> u, row |-> b]
    OBVIOUS
  <2>1. i - m \in 1..n /\ i \in 1..(m + n) /\ ~(i <= m)
    OBVIOUS
  <2>2. QED
    BY <1>3, <1>4, <2>1
<1>7. Indices = 1..m /\ Indices' = 1..(m + n)
  BY <1>1, <1>4 DEF Indices
<1>8. \A i \in 1..m : Unit(i)' = Unit(i)
  BY <1>5 DEF Unit
<1>9. \A i \in (m + 1)..(m + n) : Unit(i)' = u
  BY <1>6 DEF Unit
<1>10. RowsNow \subseteq 1..m /\ RowsNow \subseteq RowsNow' /\ RowsNow' \subseteq 1..(m + n)
       /\ \A i \in RowsNow' \ RowsNow : i \in (m + 1)..(m + n)
  <2>1. RowsNow \subseteq 1..m /\ RowsNow' \subseteq 1..(m + n)
    BY <1>7 DEF RowsNow
  <2>2. \A i \in 1..m : i \in RowsNow <=> i \in RowsNow'
    BY <1>5, <1>7 DEF RowsNow
  <2>3. QED
    BY <2>1, <2>2
<1>11. \A i \in 1..m : Position(i)' = Position(i)
  BY <1>8 DEF Position
<1>12. LastUnit' = u
  <2>1. log' # <<>> /\ Len(log') \in (m + 1)..(m + n)
    BY <1>4, EmptySeq
  <2>2. QED
    BY <1>6, <2>1 DEF LastUnit
<1>13. \A i, o \in RowsNow : <<i, o>> \in Before' <=> <<i, o>> \in Before
  BY <1>8, <1>10, <1>11 DEF Before, Windows
<1>14. \A i \in Indices' : \/ i \in Indices /\ Unit(i)' = Unit(i)
                           \/ i \notin Indices /\ i > m /\ Unit(i)' = u
  BY <1>7, <1>8, <1>9
<1>15. QED
  BY <1>1, <1>4, <1>8, <1>9, <1>10, <1>11, <1>12, <1>13, <1>14

\* New rows disturb nothing when no offset passes them, or they are excused.
LEMMA IGrow ==
    ASSUME Inv, LogInv', UNCHANGED <<service, session, offset, written, since>>,
           excused \subseteq excused',
           Windows => Head0' \in Nat /\ Head0 <= Head0',
           RowsNow \subseteq RowsNow',
           \A i \in RowsNow : Unit(i)' = Unit(i) /\ Position(i)' = Position(i),
           \A i, o \in RowsNow : <<i, o>> \in Before' <=> <<i, o>> \in Before,
           NEW fresh, fresh = RowsNow' \ RowsNow,
           \A i \in fresh : Windows => Position(i)' \in Nat /\ Head0 <= Position(i)',
           \A i \in fresh : kind = "datastream" /\ i \notin excused' =>
                /\ cursor < Unit(i)'
                /\ listed # <<>> => ~(Unit(i)' < LastOf(listed)),
           \A i \in fresh : \A o \in seen \union ToSet(fetched) \union {offset} :
                o \in RowsNow /\ <<i, o>> \in Before' => i \in excused',
           kind = "dynamodb" => \A i \in fresh : start \in RowsNow => <<i, start>> \notin Before'
    PROVE  Inv'
<1> USE DEF Inv
<1>1. /\ UNCHANGED <<kind, sequenced, since>>
      /\ UNCHANGED <<up, cursor, start, listed, fetched, yielded, seen, offset, written>>
      /\ (Windows' <=> Windows)
  BY DEF service, session, Windows
<1>2. Kept \subseteq Kept' /\ written \union excused \subseteq written' \union excused'
      /\ excused' \subseteq Kept'
  BY <1>1 DEF Kept
<1>3. \A o \in ToSet(fetched) \union ToSet(yielded) \union seen : o \in RowsNow
  BY LenProperties, ElementOfSeq DEF SessionInv, ToSet
<1>4. yielded # <<>> => LastOf(yielded) \in ToSet(yielded)
  BY EmptySeq, LenProperties DEF SessionInv, ToSet, LastOf
<1>5. SessionInv'
  BY <1>1, SeqMonotonic DEF SessionInv
<1>6. WindowsInv'
  <2> SUFFICES ASSUME Windows PROVE WindowsInv'
    BY <1>1 DEF WindowsInv
  <2>1. cursor <= Head0 /\ cursor \in Nat /\ Head0 \in Nat /\ Head0' \in Nat
    BY LRows DEF WindowsInv, SessionInv
  <2>2. cursor' <= Head0'
    BY <1>1, <2>1
  <2>3. \A i \in seen' \union ToSet(fetched') : Position(i)' <= cursor'
    BY <1>1, <1>3 DEF WindowsInv
  <2>4. \A i \in seen' \intersect ToSet(fetched') : Position(i)' = start'
    BY <1>1, <1>3 DEF WindowsInv
  <2>5. ASSUME up', NEW i \in RowsNow', since' <= Position(i)', Position(i)' < cursor'
        PROVE  i \in Kept' \union ToSet(fetched')
    <3>1. CASE i \in RowsNow
      BY <1>1, <1>2, <2>5, <3>1 DEF WindowsInv
    <3>2. CASE i \in fresh
      BY <1>1, <2>1, <2>5, <3>2
    <3>3. QED
      BY <3>1, <3>2
  <2>6. QED
    BY <2>2, <2>3, <2>4, <2>5 DEF WindowsInv
<1>7. FilesInv'
  <2> SUFFICES ASSUME kind = "datastream" PROVE FilesInv'
    BY <1>1 DEF FilesInv
  <2>1. \A i \in seen' : Unit(i)' <= cursor'
    BY <1>1, <1>3 DEF FilesInv
  <2>2. \A i \in ToSet(fetched') : Unit(i)' = cursor' /\ i \notin seen'
    BY <1>1, <1>3 DEF FilesInv
  <2>3. ASSUME up', ~sequenced', NEW i \in RowsNow'
        PROVE  /\ Unit(i)' <= cursor' => i \in Kept' \union ToSet(fetched')
               /\ listed' # <<>> /\ cursor' < Unit(i)' /\ Unit(i)' < LastOf(listed')
                  /\ i \notin excused' => Unit(i)' \in ToSet(listed')
    <3>1. CASE i \in RowsNow
      BY <1>1, <1>2, <2>3, <3>1 DEF FilesInv
    <3>2. CASE i \in fresh /\ i \in excused'
      BY <1>2, <3>2
    <3>3. CASE i \in fresh /\ i \notin excused'
      <4>1. cursor < Unit(i)' /\ (listed # <<>> => ~(Unit(i)' < LastOf(listed)))
        BY <3>3
      <4>2. Unit(i)' \in Nat
        <5>1. log' \in Seq(Entry) /\ i \in 1..Len(log')
          BY <2>3 DEF LogInv, RowsNow, Indices
        <5>2. log'[i] \in Entry
          BY <5>1, ElementOfSeq
        <5>3. QED
          BY <5>2 DEF Unit, Entry, Units
      <4>3. QED
        BY <1>1, <4>1, <4>2 DEF SessionInv
    <3>4. QED
      BY <3>1, <3>2, <3>3
  <2>4. QED
    BY <1>1, <2>1, <2>2, <2>3 DEF FilesInv
<1>8. ShardsInv'
  <2> SUFFICES ASSUME kind = "dynamodb" PROVE ShardsInv'
    BY <1>1 DEF ShardsInv
  <2>1. ASSUME NEW i \in RowsNow', <<i, start>> \in Before'
        PROVE  i \in written' \union excused'
    <3>1. start \in RowsNow
      <4>1. start # 0
        BY <2>1, LRows DEF Before, RowsNow, Indices
      <4>2. QED
        BY <4>1 DEF ShardsInv
    <3>2. CASE i \in RowsNow
      BY <1>2, <2>1, <3>1, <3>2 DEF ShardsInv
    <3>3. CASE i \in fresh
      BY <2>1, <3>1, <3>3
    <3>4. QED
      BY <3>2, <3>3
  <2>2. QED
    BY <1>1, <1>2, <2>1 DEF ShardsInv
<1>9. PassedInv'
  <2> SUFFICES ASSUME ~sequenced PROVE PassedInv'
    BY <1>1 DEF PassedInv
  <2>1. ASSUME NEW i \in RowsNow', <<i, offset>> \in Before'
        PROVE  i \in written' \union excused'
    <3>1. offset \in RowsNow
      <4>1. offset # 0
        BY <2>1 DEF Before, RowsNow, Indices
      <4>2. QED
        BY <4>1 DEF SessionInv
    <3>2. CASE i \in RowsNow
      BY <1>2, <2>1, <3>1, <3>2 DEF PassedInv
    <3>3. CASE i \in fresh
      BY <2>1, <3>1, <3>3
    <3>4. QED
      BY <3>2, <3>3
  <2>2. ASSUME yielded # <<>>, NEW i \in RowsNow', <<i, LastOf(yielded)>> \in Before'
        PROVE  i \in Kept'
    <3>1. LastOf(yielded) \in RowsNow /\ LastOf(yielded) \in seen
      BY <1>3, <1>4, <2>2 DEF SessionInv
    <3>2. CASE i \in RowsNow
      BY <1>2, <2>2, <3>1, <3>2 DEF PassedInv
    <3>3. CASE i \in fresh
      BY <1>2, <2>2, <3>1, <3>3
    <3>4. QED
      BY <3>2, <3>3
  <2>3. ASSUME NEW o \in ToSet(fetched), NEW i \in RowsNow', <<i, o>> \in Before'
        PROVE  i \in Kept' \/ (i \in ToSet(fetched) /\ i <= o)
    <3>1. CASE i \in RowsNow
      BY <1>2, <1>3, <2>3, <3>1 DEF PassedInv
    <3>2. CASE i \in fresh
      BY <1>2, <1>3, <2>3, <3>2
    <3>3. QED
      BY <3>1, <3>2
  <2>4. QED
    BY <1>1, <2>1, <2>2, <2>3 DEF PassedInv
<1>10. QED
  BY <1>5, <1>6, <1>7, <1>8, <1>9

LEMMA IOracleLogs == ASSUME Inv, OracleLogs PROVE Inv'
<1> USE DEF Inv
<1>1. /\ UNCHANGED <<service, floor, session, offset, written, since, excused>>
      /\ UNCHANGED <<kind, sequenced, floor>>
      /\ kind = "oracle"
  BY DEF OracleLogs, service
<1>2. PICK u \in Units, b \in BOOLEAN : Append2(u, 1, b)
  BY DEF OracleLogs
<1>3. PICK fresh : fresh = RowsNow' \ RowsNow
  OBVIOUS
<1>4. /\ log' \in Seq(Entry) /\ Len(log') = Len(log) + 1 /\ RowsNow \subseteq RowsNow'
      /\ \A i \in fresh : i = Len(log) + 1
      /\ \A i \in RowsNow : Unit(i)' = Unit(i) /\ Position(i)' = Position(i)
      /\ \A i, o \in RowsNow : <<i, o>> \in Before' <=> <<i, o>> \in Before
  BY <1>1, <1>2, <1>3, LGrow, LRows
<1>5. Len(log) \in Nat /\ \A o \in RowsNow : o \in Nat /\ o <= Len(log)
  BY LRows
<1>6. Head0 = Len(log) /\ Head0' = Len(log) + 1
  BY <1>1, <1>4 DEF Head0
<1>7. LogInv'
  BY <1>1, <1>4, <1>5, <1>6, SMTT(30) DEF LogInv, Windows
<1>8. \A i \in fresh : Position(i)' = Len(log) + 1
  BY <1>1, <1>4 DEF Position
<1>9. \A i \in fresh, o \in RowsNow : <<i, o>> \notin Before'
  <2> SUFFICES ASSUME NEW i \in fresh, NEW o \in RowsNow, <<i, o>> \in Before' PROVE FALSE
    OBVIOUS
  <2>1. Position(i)' < Position(o)'
    BY <1>1 DEF Before, Windows
  <2>2. Position(o)' = o
    BY <1>1 DEF Position
  <2>3. QED
    BY <1>5, <1>8, <2>1, <2>2
<1>10. QED
  BY <1>1, <1>3, <1>4, <1>5, <1>6, <1>7, <1>8, <1>9, IGrow, SMTT(30)

LEMMA ISQLServerCaptures == ASSUME Inv, SQLServerCaptures PROVE Inv'
<1> USE ConstantsAssumption DEF Inv
<1>1. /\ UNCHANGED <<service, floor, session, offset, written, since, excused>>
      /\ UNCHANGED <<kind, sequenced, floor>>
      /\ kind = "sqlserver" /\ Windows
  BY DEF SQLServerCaptures, service, Windows
<1>2. PICK u : u = LastUnit + 1
  OBVIOUS
<1>3. LastUnit \in Nat /\ Head0 = LastUnit /\ u \in Units /\ u \in Nat
  BY <1>1, <1>2, LRows DEF SQLServerCaptures, Head0, Units
<1>4. PICK n \in 1..2 : Append2(u, n, TRUE)
  BY <1>2 DEF SQLServerCaptures
<1>5. PICK fresh : fresh = RowsNow' \ RowsNow
  OBVIOUS
<1>6. /\ log' \in Seq(Entry) /\ LastUnit' = u /\ RowsNow \subseteq RowsNow'
      /\ \A i \in fresh : Unit(i)' = u
      /\ \A i \in RowsNow : Unit(i)' = Unit(i) /\ Position(i)' = Position(i)
      /\ \A i, o \in RowsNow : <<i, o>> \in Before' <=> <<i, o>> \in Before
      /\ \A i \in Indices' : \/ i \in Indices /\ Unit(i)' = Unit(i)
                             \/ i \notin Indices /\ i > Len(log) /\ Unit(i)' = u
  BY <1>1, <1>3, <1>4, <1>5, LGrow
<1>7. Head0' = u
  BY <1>1, <1>6 DEF Head0
<1>8. \A i \in Indices : Unit(i) <= LastUnit /\ Unit(i) \in Nat
  BY <1>1, <1>3, LRows DEF Position, Units
<1>9. ASSUME NEW i \in Indices', NEW j \in Indices', i <= j PROVE Unit(i)' <= Unit(j)'
  <2>1. i \in Nat /\ j \in Nat /\ Len(log) \in Nat /\ Indices = 1..Len(log)
    BY <1>6, LRows, LenProperties DEF Indices
  <2>2. CASE i \in Indices /\ j \in Indices
    BY <1>1, <1>6, <1>9, <2>2 DEF LogInv
  <2>3. CASE i \in Indices /\ j \notin Indices
    BY <1>2, <1>3, <1>6, <1>8, <2>3
  <2>4. CASE i \notin Indices
    <3>1. j \notin Indices
      BY <1>6, <1>9, <2>1, <2>4
    <3>2. QED
      BY <1>3, <1>6, <2>4, <3>1
  <2>5. QED
    BY <2>2, <2>3, <2>4
<1>10. LogInv'
  BY <1>1, <1>2, <1>3, <1>6, <1>7, <1>9 DEF LogInv, Windows
<1>11. \A i \in fresh : Position(i)' = u
  BY <1>1, <1>6 DEF Position
<1>12. \A i \in fresh, o \in RowsNow : <<i, o>> \notin Before'
  <2> SUFFICES ASSUME NEW i \in fresh, NEW o \in RowsNow, <<i, o>> \in Before' PROVE FALSE
    OBVIOUS
  <2>1. Position(i)' < Position(o)'
    BY <1>1 DEF Before, Windows
  <2>2. Position(o)' = Unit(o) /\ Unit(o) <= LastUnit /\ Unit(o) \in Nat
    BY <1>1, <1>6, <1>8, LRows DEF Position
  <2>3. QED
    BY <1>2, <1>3, <1>11, <2>1, <2>2
<1>13. /\ Head0' \in Nat /\ Head0 <= Head0'
       /\ \A i \in fresh : Position(i)' \in Nat /\ Head0 <= Position(i)'
  BY <1>2, <1>3, <1>7, <1>11
<1>14. /\ UNCHANGED <<service, session, offset, written, since>>
       /\ excused \subseteq excused' /\ kind = "sqlserver"
       /\ \A i \in fresh : \A o \in seen \union ToSet(fetched) \union {offset} :
                o \in RowsNow /\ <<i, o>> \in Before' => i \in excused'
  BY <1>1, <1>12
<1>15. QED
  BY <1>5, <1>6, <1>10, <1>13, <1>14, IGrow

\* A file that arrives behind the reader is excused at once.
LEMMA IFileArrives == ASSUME Inv, FileArrives PROVE Inv'
<1> USE DEF Inv
<1>1. /\ UNCHANGED <<service, floor, session, offset, written, since>>
      /\ UNCHANGED <<kind, sequenced, floor, listed, offset>>
      /\ kind = "datastream" /\ ~Windows
  BY DEF FileArrives, service, session, Windows
<1>2. PICK u \in Units, n \in 1..2 :
          /\ ~Exists(u) /\ Append2(u, n, TRUE)
          /\ excused' = IF \/ u <= cursor
                           \/ listed # <<>> /\ u < LastOf(listed)
                           \/ offset # 0 /\ u < Unit(offset)
                        THEN excused \union ((Len(log) + 1)..(Len(log) + n)) ELSE excused
  BY DEF FileArrives
<1>3. PICK fresh : fresh = RowsNow' \ RowsNow
  OBVIOUS
<1>4. /\ log' \in Seq(Entry) /\ RowsNow \subseteq RowsNow'
      /\ \A i \in fresh : i \in (Len(log) + 1)..(Len(log) + n) /\ Unit(i)' = u
      /\ \A i \in RowsNow : Unit(i)' = Unit(i) /\ Position(i)' = Position(i)
      /\ \A i, o \in RowsNow : <<i, o>> \in Before' <=> <<i, o>> \in Before
  BY <1>1, <1>2, <1>3, LGrow
<1>5. LogInv'
  BY <1>1, <1>4 DEF LogInv, Windows
<1>6. \A i \in fresh : i \notin excused' =>
          /\ ~(u <= cursor) /\ (listed # <<>> => ~(u < LastOf(listed)))
          /\ (offset # 0 => ~(u < Unit(offset)))
  BY <1>2, <1>4
<1>7. u \in Nat /\ cursor \in Nat /\ \A o \in RowsNow : Unit(o) \in Nat /\ Unit(o) # u
  BY <1>2, LRows DEF Units, SessionInv, Exists
<1>8. \A o \in seen \union ToSet(fetched) : o \in RowsNow /\ Unit(o) <= cursor
  <2>1. \A o \in ToSet(fetched) : o \in RowsNow
    BY LenProperties, ElementOfSeq DEF SessionInv, ToSet
  <2>2. QED
    BY <1>1, <1>7, <2>1 DEF FilesInv, SessionInv
<1>9. ASSUME NEW i \in fresh, NEW o \in seen \union ToSet(fetched) \union {offset},
             o \in RowsNow, <<i, o>> \in Before'
      PROVE  i \in excused'
  <2>1. Unit(i)' <= Unit(o)'
    BY <1>1, <1>4, <1>7, <1>9 DEF Before, Windows
  <2>2. u < Unit(o)
    BY <1>4, <1>7, <1>9, <2>1
  <2>3. CASE o \in seen \union ToSet(fetched)
    BY <1>6, <1>7, <1>8, <2>2, <2>3
  <2>4. CASE o = offset
    <3>1. o # 0
      BY <1>9, LRows
    <3>2. QED
      BY <1>6, <2>2, <2>4, <3>1
  <2>5. QED
    BY <2>3, <2>4
<1>10. \A i \in fresh : i \notin excused' =>
          /\ cursor < Unit(i)' /\ (listed # <<>> => ~(Unit(i)' < LastOf(listed)))
  BY <1>4, <1>6, <1>7
<1>11. excused \subseteq excused'
  BY <1>2
<1>12. QED
  BY <1>1, <1>3, <1>4, <1>5, <1>9, <1>10, <1>11, IGrow

LEMMA IShardGrows == ASSUME Inv, ShardGrows PROVE Inv'
<1> USE DEF Inv
<1>1. /\ UNCHANGED <<service, floor, session, offset, written, since, excused>>
      /\ UNCHANGED <<kind, sequenced, floor>>
      /\ kind = "dynamodb" /\ ~Windows
  BY DEF ShardGrows, service, Windows
<1>2. PICK u \in Units, b \in BOOLEAN : Append2(u, 1, b)
  BY DEF ShardGrows
<1>3. PICK fresh : fresh = RowsNow' \ RowsNow
  OBVIOUS
<1>4. /\ log' \in Seq(Entry) /\ RowsNow \subseteq RowsNow'
      /\ \A i \in fresh : i = Len(log) + 1
      /\ \A i \in RowsNow : Unit(i)' = Unit(i) /\ Position(i)' = Position(i)
      /\ \A i, o \in RowsNow : <<i, o>> \in Before' <=> <<i, o>> \in Before
  BY <1>1, <1>2, <1>3, LGrow, LRows
<1>5. LogInv'
  BY <1>1, <1>4 DEF LogInv, Windows
<1>6. \A i \in fresh, o \in RowsNow : <<i, o>> \notin Before'
  <2> SUFFICES ASSUME NEW i \in fresh, NEW o \in RowsNow, <<i, o>> \in Before' PROVE FALSE
    OBVIOUS
  <2>1. i <= o
    BY <1>1 DEF Before, Windows
  <2>2. QED
    BY <1>4, <2>1, LRows
<1>7. QED
  BY <1>1, <1>3, <1>4, <1>5, <1>6, IGrow

-----------------------------------------------------------------------------
(* Theorems *)

LEMMA IStep == ASSUME Inv, [Next]_vars PROVE Inv'
<1>1. CASE Purge
  <2>1. /\ UNCHANGED <<service, log, session, offset, written, since>>
        /\ excused \subseteq excused' /\ floor' = floor + 1 /\ floor < Head0
    BY <1>1 DEF Purge
  <2>2. floor \in Nat /\ Head0 \in Nat
    BY LRows DEF Inv, LogInv
  <2>3. QED
    BY <2>1, <2>2, IMonotone
<1>2. CASE ShardCloses \/ UNCHANGED vars
  <2>1. UNCHANGED <<service, log, floor, session, offset, written, since, excused>>
    BY <1>2 DEF ShardCloses, vars, database
  <2>2. QED
    BY <2>1, IMonotone DEF Inv, LogInv
<1>3. CASE Open
  <2>1. kind = "dynamodb" \/ kind = "datastream" \/ Windows
    BY ConstantsAssumption DEF Inv, LogInv, Windows
  <2>2. QED
    BY <1>3, <2>1, IOpenWindows, IOpenFiles, IOpenShards
<1>4. QED
  BY <1>1, <1>2, <1>3, IOracleLogs, ISQLServerCaptures, IFileArrives, IShardGrows, IReadWindow,
     IListFiles, IReadFile, IReadShard, IYield, ISave, ICrash DEF Next, Read

LEMMA ISafe == Spec => []Inv
BY IInit, IStep, PTL DEF Spec

\* Wherever batches end and whenever the process crashes, what a saved SCN, LSN, file
\* position or sequence number leaves behind is in the sink, but for the rows the
\* windows tear and the files that are late, unreadable or purged (oracle.py:435-509,
\* sqlserver.py:231-307, datastream.py:351-441, dynamodb.py:141-190).
THEOREM PassedSafe == Spec => []PassedIsWritten
<1>1. Inv => PassedIsWritten
  <2> SUFFICES ASSUME Inv, ~sequenced, offset # 0, NEW i \in Passed
               PROVE  i \in written \union excused
    BY DEF PassedIsWritten, Passed
  <2> USE DEF Inv
  <2>1. offset \in RowsNow
    BY DEF SessionInv
  <2>2. <<i, offset>> \in Before /\ i \in RowsNow
    <3>1. CASE Windows
      BY <2>1, <3>1, LBefore DEF Passed, Windows
    <3>2. CASE kind = "datastream"
      BY <2>1, <3>2, LBefore DEF Passed, InUnit
    <3>3. CASE kind = "dynamodb"
      BY <2>1, <3>3, LBefore DEF Passed, InUnit
    <3>4. QED
      BY <3>1, <3>2, <3>3, ConstantsAssumption DEF LogInv, Windows
  <2>3. QED
    BY <2>2 DEF PassedInv
<1>2. QED
  BY <1>1, ISafe, PTL

\* A stream hands the worker a row a second time only at the SCN or LSN that ends one
\* window and begins the next; files and shards are read once (oracle.py:435-509,
\* sqlserver.py:231-307, datastream.py:351-441, dynamodb.py:141-190).
THEOREM RepeatsSafe == Spec => RepeatsOnlyAtBoundary
<1>1. ASSUME Inv, Yield, Head(fetched) \in seen
      PROVE  kind \in {"oracle", "sqlserver"} /\ Position(Head(fetched)) = start
  <2>1. PICK h : h = Head(fetched)
    OBVIOUS
  <2>2. h \in ToSet(fetched) /\ h \in seen
    BY <1>1, <2>1, LRows, QEnds DEF Yield, Inv, SessionInv
  <2>3. Windows
    BY <1>1, <2>2, ConstantsAssumption DEF Inv, LogInv, FilesInv, ShardsInv, Windows
  <2>4. Position(h) = start
    BY <1>1, <2>2, <2>3 DEF Inv, WindowsInv
  <2>5. QED
    BY <2>1, <2>3, <2>4 DEF Windows
<1>2. Inv /\ [Next]_vars => [Yield /\ Head(fetched) \in seen =>
          kind \in {"oracle", "sqlserver"} /\ Position(Head(fetched)) = start]_vars
  BY <1>1
<1>3. QED
  BY <1>2, ISafe, PTL DEF Spec, RepeatsOnlyAtBoundary

=============================================================================
