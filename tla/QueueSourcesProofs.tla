------------------------- MODULE QueueSourcesProofs -------------------------
(***************************************************************************)
(* What the sources with queues in memory keep for any tables, changes and *)
(* queue size: an acknowledged change is somewhere while its worker lives, *)
(* and a saved offset stands for written changes.                          *)
(***************************************************************************)
EXTENDS QueueSources, FiniteSetTheorems, SequenceTheorems, TLAPS

Queues == Tables \union {Shared}

\* The queues as functions; what they and the batches hold has been committed.
QueuesOK ==
    /\ queue \in [Queues -> Seq(Events)]
    /\ \A q \in Queues : InQueue(q) \subseteq 0..head
    /\ \A t \in Tables : batch[t] \subseteq 1..head

\* Which thread exists when: a table's receiver is started by its worker, and
\* some states belong to one source only.
Threads ==
    /\ \A t \in Tables :
          /\ worker[t] # "off" => t \in registered
          /\ worker[t] \in {"off", "open", "starting"} =>
                reader[t] = "none" /\ batch[t] = {} /\ last[t] = 0
          /\ worker[t] = "starting" => SavesOffset
          /\ reader[t] \in {"connecting", "ending"} => kind = "postgres"
    /\ stale => kind = "postgres"

\* The conjuncts of TypeOK, grouped: what is shared, what each worker and what
\* each receiver keeps.
SharedTypes ==
    /\ kind \in Kinds /\ tables \subseteq Tables /\ split \in BOOLEAN
    /\ head \in 0..NChanges /\ confirmed \in 0..head /\ written \subseteq 1..head
    /\ stale \in BOOLEAN /\ lost \subseteq Changes

WorkerTypes ==
    /\ offset \in [Tables -> 0..NChanges]
    /\ registered \subseteq tables
    /\ worker \in [Tables -> WorkerStates]
    /\ batch \in [Tables -> SUBSET Changes] /\ last \in [Tables -> 0..NChanges]
    /\ since \in [Tables -> 0..NChanges]

ReaderTypes ==
    /\ told \subseteq registered
    /\ reader \in [Tables -> ReaderStates]
    /\ covers \in [Tables -> SUBSET tables] /\ from \in [Tables -> 0..NChanges + 1]
    /\ scan \in [Tables -> 0..NChanges] /\ sent \in [Tables -> SUBSET Changes]
    /\ lane \in [Tables -> 1..3]

Bounded == \A q \in Queues : Len(queue[q]) <= QueueSize

BaseInv == SharedTypes /\ WorkerTypes /\ ReaderTypes /\ QueuesOK /\ Bounded /\ Threads

\* Without a registered table nothing has been promised to it.
Promised ==
    ~SavesOffset => \A t \in Tables \ registered : since[t] = NChanges

AckInv == BaseInv /\ Promised /\ AcknowledgedIsHeld

Owed(t, c) == Table[c] = t /\ since[t] < c

\* A Spanner source of one table whose change stream has one partition.
Lone == kind = "spanner" /\ (\A t, u \in tables : t = u) /\ ~split

\* Where a change may be that its thread was sent.
Accounted(t, c) == c \in InQueue(t) \union batch[t] \union written \union lost

\* The events a thread dispatches carry their changes' timestamps, wait in the order of
\* these, and not behind one that was taken.
InCommitOrder(t) ==
    /\ \A i \in 1..Len(queue[t]) :
          /\ queue[t][i].change \in sent[t]
          /\ queue[t][i].offset = Stamp[queue[t][i].change]
          /\ last[t] <= queue[t][i].offset
    /\ \A i, j \in 1..Len(queue[t]) : i < j => queue[t][i].offset <= queue[t][j].offset
    /\ last[t] = 0 \/ \E d \in sent[t] : last[t] = Stamp[d]

\* A thread is sent a partition from its start, in the order of the commits.
InOrder(t) ==
    /\ sent[t] \subseteq 1..head
    /\ \A d \in sent[t] : \A c \in Changes : from[t] <= Stamp[c] /\ c <= d => c \in sent[t]

\* What the thread was sent is somewhere, and what it did not ask for was written.
NoneMissing(t) ==
    \A c \in Changes : Owed(t, c) /\ (c \in sent[t] \/ Stamp[c] < from[t]) => Accounted(t, c)

\* What a resume at the saved offset leaves out has been written, or was dropped.
Covered(t) ==
    \A c \in Changes : Owed(t, c) /\ Stamp[c] < offset[t] => c \in written \union lost

Resumable(t) ==
    /\ scan[t] = 0
    /\ worker[t] \in {"off", "open", "starting"} => queue[t] = <<>>
    /\ worker[t] = "stream" => InCommitOrder(t) /\ InOrder(t) /\ NoneMissing(t)
    /\ Covered(t)

OffsetInv == Lone => \A t \in tables : Resumable(t)

-----------------------------------------------------------------------------
(* Queues *)

\* What an event is made of.
LEMMA IsEvent ==
    ASSUME NEW c \in Changes, NEW o \in 0..NChanges
    PROVE  Event(c, o) \in Events /\ Event(c, o).change = c /\ Event(c, o).offset = o
BY DEF Event, Events

LEMMA EventParts ==
    ASSUME NEW e \in Events
    PROVE  /\ e.change \in 0..NChanges /\ e.offset \in 0..NChanges
           /\ e # Sentinel => e.change \in Changes
           /\ Sentinel \in Events /\ Sentinel.change = 0 /\ Sentinel.offset = 0
BY ConstantsAssumption DEF Events, Sentinel, Event, Changes

\* A put adds one element at the end of one queue.
LEMMA QPut ==
    ASSUME QueuesOK, NEW q \in Queues, NEW e \in Events, Put(q, e)
    PROVE  /\ queue' \in [Queues -> Seq(Events)]
           /\ \A p \in Queues \ {q} : queue'[p] = queue[p]
           /\ Len(queue'[q]) = Len(queue[q]) + 1
           /\ \A i \in 1..Len(queue[q]) : queue'[q][i] = queue[q][i]
           /\ queue'[q][Len(queue[q]) + 1] = e
           /\ InQueue(q)' = InQueue(q) \union {e.change}
           /\ \A p \in Queues \ {q} : InQueue(p)' = InQueue(p)
<1>1. queue[q] \in Seq(Events)
  BY DEF QueuesOK
<1>2. queue' = [queue EXCEPT ![q] = Append(queue[q], e)] /\ DOMAIN queue = Queues
  BY DEF Put, QueuesOK
<1>3. /\ Append(queue[q], e) \in Seq(Events)
      /\ Len(Append(queue[q], e)) = Len(queue[q]) + 1
      /\ \A i \in 1..Len(queue[q]) : Append(queue[q], e)[i] = queue[q][i]
      /\ Append(queue[q], e)[Len(queue[q]) + 1] = e
      /\ Len(queue[q]) \in Nat
  BY <1>1, AppendProperties, LenProperties
<1>4. queue'[q] = Append(queue[q], e) /\ \A p \in Queues \ {q} : queue'[p] = queue[p]
  BY <1>2
<1>5. queue' \in [Queues -> Seq(Events)]
  BY <1>2, <1>3 DEF QueuesOK
<1>6. InQueue(q)' = InQueue(q) \union {e.change}
  <2>1. InQueue(q)' \subseteq InQueue(q) \union {e.change}
    BY <1>3, <1>4 DEF InQueue
  <2>2. InQueue(q) \union {e.change} \subseteq InQueue(q)'
    BY <1>3, <1>4 DEF InQueue
  <2>3. QED
    BY <2>1, <2>2
<1>7. QED
  BY <1>3, <1>4, <1>5, <1>6 DEF InQueue

\* A get takes the first element of one queue.
LEMMA QGet ==
    ASSUME QueuesOK, NEW q \in Queues, queue[q] # <<>>,
           queue' = [queue EXCEPT ![q] = Tail(@)]
    PROVE  /\ queue' \in [Queues -> Seq(Events)]
           /\ \A p \in Queues \ {q} : queue'[p] = queue[p]
           /\ Head(queue[q]) \in Events
           /\ Len(queue[q]) \in Nat \ {0} /\ Head(queue[q]) = queue[q][1]
           /\ Len(queue'[q]) = Len(queue[q]) - 1
           /\ \A i \in 1..Len(queue'[q]) : queue'[q][i] = queue[q][i + 1]
           /\ InQueue(q) = InQueue(q)' \union {Head(queue[q]).change}
           /\ \A p \in Queues \ {q} : InQueue(p)' = InQueue(p)
<1>1. queue[q] \in Seq(Events)
  BY DEF QueuesOK
<1>2. queue' = [queue EXCEPT ![q] = Tail(queue[q])] /\ DOMAIN queue = Queues
  BY DEF QueuesOK
<1>3. /\ Head(queue[q]) \in Events
      /\ Tail(queue[q]) \in Seq(Events)
      /\ Len(Tail(queue[q])) = Len(queue[q]) - 1
      /\ \A i \in 1..Len(Tail(queue[q])) : Tail(queue[q])[i] = queue[q][i + 1]
  BY <1>1, HeadTailProperties
<1>4. Len(queue[q]) \in Nat \ {0} /\ Head(queue[q]) = queue[q][1]
  BY <1>1, EmptySeq
<1>5. queue'[q] = Tail(queue[q]) /\ \A p \in Queues \ {q} : queue'[p] = queue[p]
  BY <1>2
<1>6. queue' \in [Queues -> Seq(Events)]
  BY <1>2, <1>3 DEF QueuesOK
<1>7. InQueue(q) = InQueue(q)' \union {Head(queue[q]).change}
  <2>1. InQueue(q)' \union {Head(queue[q]).change} \subseteq InQueue(q)
    BY <1>3, <1>4, <1>5 DEF InQueue
  <2>2. ASSUME NEW i \in 1..Len(queue[q])
        PROVE  queue[q][i].change \in InQueue(q)' \union {Head(queue[q]).change}
    <3>1. CASE i = 1
      BY <1>4, <3>1
    <3>2. CASE i # 1
      <4>1. i - 1 \in 1..Len(queue'[q])
        BY <1>3, <1>4, <1>5, <3>2
      <4>2. queue'[q][i - 1] = queue[q][(i - 1) + 1]
        BY <1>3, <1>5, <4>1
      <4>3. (i - 1) + 1 = i
        OBVIOUS
      <4>4. QED
        BY <4>1, <4>2, <4>3 DEF InQueue
    <3>3. QED
      BY <3>1, <3>2
  <2>3. QED
    BY <2>1, <2>2 DEF InQueue
<1>8. \A p \in Queues \ {q} : InQueue(p)' = InQueue(p)
  BY <1>5 DEF InQueue
<1>9. QED
  BY <1>3, <1>4, <1>5, <1>6, <1>7, <1>8

\* The queue a table's worker reads exists.
LEMMA QOf == ASSUME NEW t \in Tables PROVE QueueOf(t) \in Queues
BY DEF QueueOf, Queues

\* A new process or a new source object has empty queues.
LEMMA QNew ==
    ASSUME NEW f, f = [q \in Tables \union {Shared} |-> <<>>]
    PROVE  /\ f \in [Queues -> Seq(Events)]
           /\ \A q \in Queues : f[q] = <<>> /\ Len(f[q]) = 0
<1>1. <<>> \in Seq(Events) /\ Len(<<>>) = 0
  BY EmptySeq
<1>2. QED
  BY <1>1 DEF Queues

-----------------------------------------------------------------------------
(* Types and threads, step by step *)

LEMMA BTypes == BaseInv => TypeOK
<1> SUFFICES ASSUME BaseInv PROVE TypeOK
  OBVIOUS
<1>1. \A q \in DOMAIN queue : queue[q] \in Seq(Events) /\ Len(queue[q]) <= QueueSize
  BY DEF BaseInv, QueuesOK, Bounded
<1>2. QED
  BY <1>1 DEF BaseInv, SharedTypes, WorkerTypes, ReaderTypes, TypeOK

LEMMA BInit == Init => BaseInv
<1> SUFFICES ASSUME Init PROVE BaseInv
  OBVIOUS
<1> USE ConstantsAssumption DEF Init, NewProcess
<1>1. /\ queue \in [Queues -> Seq(Events)]
      /\ \A q \in Queues : queue[q] = <<>> /\ Len(queue[q]) = 0
  BY QNew
<1>2. SharedTypes
  <2>1. kind \in Kinds /\ tables \subseteq Tables /\ split \in BOOLEAN
    OBVIOUS
  <2>2. head \in 0..NChanges /\ confirmed \in 0..head /\ written \subseteq 1..head
    OBVIOUS
  <2>3. stale \in BOOLEAN /\ lost \subseteq Changes
    OBVIOUS
  <2>4. QED
    BY <2>1, <2>2, <2>3 DEF SharedTypes
<1>3. WorkerTypes
  BY DEF WorkerTypes, WorkerStates
<1>4. ReaderTypes
  BY DEF ReaderTypes, ReaderStates
<1>5. QueuesOK /\ Bounded
  BY <1>1 DEF QueuesOK, Bounded, InQueue
<1>6. Threads
  BY DEF Threads
<1>7. QED
  BY <1>2, <1>3, <1>4, <1>5, <1>6 DEF BaseInv

\* Steps that touch neither a queue nor a batch, and move the log only forwards.
LEMMA BQuiet ==
    ASSUME BaseInv, UNCHANGED <<queue, batch>>, head <= head', head' \in 0..NChanges
    PROVE  QueuesOK' /\ Bounded'
<1>1. head \in 0..NChanges /\ NChanges \in Nat
  BY ConstantsAssumption DEF BaseInv, SharedTypes
<1>2. 0..head \subseteq 0..head' /\ 1..head \subseteq 1..head'
  BY <1>1
<1>3. \A q \in Queues : InQueue(q)' = InQueue(q)
  BY DEF InQueue
<1>4. QueuesOK'
  BY <1>2, <1>3 DEF BaseInv, QueuesOK
<1>5. QED
  BY <1>4 DEF BaseInv, Bounded

LEMMA BCommit == ASSUME BaseInv, Commit \/ UNCHANGED vars PROVE BaseInv'
<1> USE ConstantsAssumption
<1>1. /\ UNCHANGED <<service, volatile, confirmed, offset, written, stale, lost, since>>
      /\ head <= head' /\ head' \in 0..NChanges
  <2>1. head \in 0..NChanges
    BY DEF BaseInv, SharedTypes
  <2>2. CASE UNCHANGED vars
    BY <2>1, <2>2 DEF vars
  <2>3. CASE Commit /\ head + 1 \in Changes
    <3>1. Stamp[head + 1] \in Changes /\ head + 1 <= Stamp[head + 1]
      BY <2>3
    <3>2. QED
      BY <2>1, <2>3, <3>1 DEF Commit, Changes
  <2>4. CASE Commit /\ head + 1 \notin Changes
    BY <2>1, <2>4 DEF Commit, Changes
  <2>5. QED
    BY <2>2, <2>3, <2>4
<1>2. SharedTypes'
  BY <1>1 DEF BaseInv, SharedTypes, service, position
<1>3. WorkerTypes' /\ ReaderTypes'
  BY <1>1 DEF BaseInv, WorkerTypes, ReaderTypes, service, position, volatile
<1>4. QueuesOK' /\ Bounded'
  BY <1>1, BQuiet DEF volatile
<1>5. Threads'
  BY <1>1 DEF BaseInv, Threads, service, position, volatile, SavesOffset
<1>6. QED
  BY <1>2, <1>3, <1>4, <1>5 DEF BaseInv

\* The worker registers its table and opens the stream.
LEMMA BOpen ==
    ASSUME BaseInv, NEW t \in Tables, Register(t) \/ PostgresOpen(t) \/ CheckReader(t)
    PROVE  BaseInv'
<1> USE ConstantsAssumption DEF BaseInv
<1>1. CASE Register(t)
  <2>1. UNCHANGED <<service, batch, last, reader, covers, position, told, head,
                   confirmed, offset, written, stale, lost>>
    BY <1>1 DEF Register
  <2>2. /\ queue' \in [Queues -> Seq(Events)]
        /\ \A q \in Queues : queue'[q] = queue[q] \/ (queue'[q] = <<>> /\ Len(queue'[q]) = 0)
    BY <1>1, EmptySeq DEF Register, QueuesOK, Queues
  <2>3. SharedTypes' /\ WorkerTypes' /\ ReaderTypes'
    BY <1>1, <2>1 DEF Register, SharedTypes, WorkerTypes, ReaderTypes, service, position, WorkerStates
  <2>4. QueuesOK' /\ Bounded'
    BY <2>1, <2>2 DEF QueuesOK, InQueue, Bounded
  <2>5. Threads'
    BY <1>1, <2>1 DEF Register, Threads, service, position, SavesOffset, WorkerTypes
  <2>6. QED
    BY <2>3, <2>4, <2>5
<1>2. CASE PostgresOpen(t)
  <2>1. SharedTypes' /\ WorkerTypes'
    BY <1>2 DEF PostgresOpen, SharedTypes, WorkerTypes, service, position, WorkerStates
  <2>2. ReaderTypes'
    BY <1>2 DEF PostgresOpen, StartReader, StartPosition, ReaderTypes, service, position, ReaderStates
  <2>3. QueuesOK' /\ Bounded'
    BY <1>2, BQuiet DEF PostgresOpen, SharedTypes
  <2>4. Threads'
    BY <1>2 DEF PostgresOpen, StartReader, Threads, service, position, SavesOffset, WorkerTypes, ReaderTypes
  <2>5. QED
    BY <2>1, <2>2, <2>3, <2>4
<1>3. CASE CheckReader(t)
  <2>1. SharedTypes' /\ WorkerTypes' /\ ReaderTypes'
    BY <1>3 DEF CheckReader, SharedTypes, WorkerTypes, ReaderTypes, service, position, WorkerStates
  <2>2. QueuesOK' /\ Bounded'
    BY <1>3, BQuiet DEF CheckReader, SharedTypes
  <2>3. Threads'
    BY <1>3 DEF CheckReader, Threads, service, position, SavesOffset, WorkerTypes
  <2>4. QED
    BY <2>1, <2>2, <2>3
<1>4. QED
  BY <1>1, <1>2, <1>3

LEMMA BStartThread == ASSUME BaseInv, NEW t \in Tables, StartThread(t) PROVE BaseInv'
<1> USE ConstantsAssumption DEF BaseInv
<1>1. StartPosition(t) \in 0..NChanges + 1
  BY DEF StartPosition, SharedTypes, WorkerTypes
<1>2. SharedTypes' /\ WorkerTypes'
  BY <1>1 DEF StartThread, SharedTypes, WorkerTypes, service, position, WorkerStates
<1>3. ReaderTypes'
  <2>1. head \in 0..NChanges /\ 0 \in 0..NChanges /\ {} \subseteq Changes /\ 1 \in 1..3
    BY DEF SharedTypes
  <2>2. UNCHANGED <<tables, registered, told>> /\ StartReader(t)
    BY DEF StartThread, service
  <2>3. /\ reader' \in [Tables -> ReaderStates] /\ covers' \in [Tables -> SUBSET tables]
        /\ from' \in [Tables -> 0..NChanges + 1]
    BY <1>1, <2>2 DEF StartReader, ReaderTypes, WorkerTypes, ReaderStates
  <2>4. /\ scan' \in [Tables -> 0..NChanges] /\ sent' \in [Tables -> SUBSET Changes]
        /\ lane' \in [Tables -> 1..3]
    BY <2>1, <2>2 DEF StartReader, ReaderTypes
  <2>5. QED
    BY <2>2, <2>3, <2>4 DEF ReaderTypes
<1>4. QueuesOK' /\ Bounded'
  BY BQuiet DEF StartThread, SharedTypes
<1>5. Threads'
  BY DEF StartThread, StartReader, Threads, service, position, SavesOffset, WorkerTypes, ReaderTypes
<1>6. QED
  BY <1>2, <1>3, <1>4, <1>5

\* A receiver appends a committed change, or the sentinel, where there is room.
LEMMA BPut ==
    ASSUME BaseInv, NEW q \in Queues, NEW e \in Events, e.change <= head,
           HasRoom(q), Put(q, e), UNCHANGED <<batch, head>>
    PROVE  QueuesOK' /\ Bounded'
<1> USE ConstantsAssumption DEF BaseInv
<1>1. /\ queue' \in [Queues -> Seq(Events)]
      /\ \A p \in Queues \ {q} : queue'[p] = queue[p]
      /\ Len(queue'[q]) = Len(queue[q]) + 1
      /\ InQueue(q)' = InQueue(q) \union {e.change}
      /\ \A p \in Queues \ {q} : InQueue(p)' = InQueue(p)
  BY QPut
<1>2. Bounded'
  <2>1. queue[q] \in Seq(Events)
    BY DEF QueuesOK
  <2>2. Len(queue[q]) \in Nat
    BY <2>1, LenProperties
  <2>3. Len(queue'[q]) <= QueueSize
    BY <1>1, <2>2 DEF HasRoom
  <2>4. QED
    BY <1>1, <2>3 DEF Bounded
<1>3. QueuesOK'
  <2>1. e.change \in 0..head
    BY EventParts DEF SharedTypes
  <2>2. \A p \in Queues : InQueue(p)' \subseteq 0..head
    BY <1>1, <2>1 DEF QueuesOK
  <2>3. QED
    BY <1>1, <2>2 DEF QueuesOK
<1>4. QED
  BY <1>2, <1>3

LEMMA BPostgres ==
    ASSUME BaseInv, NEW r \in Tables,
           PostgresConsume(r) \/ Connect(r) \/ ReaderFails(r) \/ ReaderEnds(r)
    PROVE  BaseInv'
<1> USE ConstantsAssumption DEF BaseInv
<1>1. CASE PostgresConsume(r)
  <2>1. /\ UNCHANGED <<service, registered, worker, batch, last, reader, covers, position,
                   told, head, offset, written, stale, lost, since>>
        /\ confirmed' = confirmed + 1 /\ confirmed < head
    BY <1>1 DEF PostgresConsume
  <2>2. confirmed + 1 \in Changes /\ Table[confirmed + 1] \in Tables
    BY <2>1 DEF SharedTypes, Changes
  <2>3. SharedTypes' /\ WorkerTypes' /\ ReaderTypes'
    BY <2>1 DEF SharedTypes, WorkerTypes, ReaderTypes, service, position
  <2>4. QueuesOK' /\ Bounded'
    <3>1. CASE UNCHANGED queue
      BY <2>1, <3>1, BQuiet DEF SharedTypes
    <3>2. CASE HasRoom(Table[confirmed + 1]) /\ Put(Table[confirmed + 1], Event(confirmed + 1, 0))
      <4>1. /\ Event(confirmed + 1, 0) \in Events
            /\ Event(confirmed + 1, 0).change = confirmed + 1
        BY <2>2 DEF Event, Events, Changes
      <4>2. QED
        BY <2>1, <2>2, <3>2, <4>1, BPut DEF SharedTypes, Queues
    <3>3. QED
      BY <1>1, <3>1, <3>2 DEF PostgresConsume
  <2>5. Threads'
    BY <2>1 DEF Threads, service, position, SavesOffset
  <2>6. QED
    BY <2>3, <2>4, <2>5
<1>2. CASE Connect(r) \/ ReaderFails(r) \/ ReaderEnds(r)
  <2>1. UNCHANGED <<service, queue, registered, worker, batch, last, covers, position,
                   told, head, confirmed, offset, written, stale, lost, since>>
    BY <1>2 DEF Connect, ReaderFails, ReaderEnds
  <2>2. \E st \in ReaderStates : reader' = [reader EXCEPT ![r] = st]
    BY <1>2 DEF Connect, ReaderFails, ReaderEnds, ReaderStates
  <2>3. SharedTypes' /\ WorkerTypes' /\ ReaderTypes'
    BY <2>1, <2>2 DEF SharedTypes, WorkerTypes, ReaderTypes, service, position
  <2>4. QueuesOK' /\ Bounded'
    BY <2>1, BQuiet DEF SharedTypes
  <2>5. Threads'
    BY <1>2, <2>1 DEF Connect, ReaderFails, ReaderEnds, Threads, service, position, SavesOffset, ReaderTypes
  <2>6. QED
    BY <2>3, <2>4, <2>5
<1>3. QED
  BY <1>1, <1>2

LEMMA BSentinel ==
    ASSUME BaseInv, NEW r \in Tables, NEW t \in Tables, PutSentinel(r, t) PROVE BaseInv'
<1> USE ConstantsAssumption DEF BaseInv
<1>1. /\ UNCHANGED <<service, registered, worker, batch, last, reader, position, head,
                   confirmed, offset, written, stale, lost, since>>
      /\ t \in registered /\ told' = told \union {t}
      /\ covers' = [covers EXCEPT ![r] = registered]
  BY DEF PutSentinel
<1>2. SharedTypes' /\ WorkerTypes' /\ ReaderTypes'
  BY <1>1 DEF SharedTypes, WorkerTypes, ReaderTypes, service, position
<1>3. QueuesOK' /\ Bounded'
  <2>1. Sentinel \in Events /\ Sentinel.change = 0
    BY DEF Sentinel, Event, Events
  <2>2. QED
    BY <1>1, <2>1, BPut DEF PutSentinel, SharedTypes, Queues
<1>4. Threads'
  BY <1>1 DEF Threads, service, position, SavesOffset
<1>5. QED
  BY <1>2, <1>3, <1>4

\* CockroachDB's and Spanner's receivers.
LEMMA BDispatch ==
    ASSUME BaseInv, NEW r \in Tables,
           Dispatch(r) \/ PartitionFails(r)
    PROVE  BaseInv'
<1> USE ConstantsAssumption DEF BaseInv
<1>1. CASE Dispatch(r)
  <2>1. /\ UNCHANGED <<service, registered, worker, batch, last, reader, covers, from, scan,
                   lane, told, head, confirmed, offset, written, stale, since>>
    BY <1>1 DEF Dispatch
  <2>2. PICK c \in Changes :
            /\ c <= head /\ sent' = [sent EXCEPT ![r] = @ \union {c}]
            /\ \/ /\ HasRoom(Table[c]) /\ Put(Table[c], Event(c, OffsetOf(r, c)))
                  /\ UNCHANGED lost
               \/ UNCHANGED queue /\ lost' \in {lost, lost \union {c}}
    <3>1. PICK c \in Changes :
            /\ c <= head /\ sent' = [sent EXCEPT ![r] = @ \union {c}]
            /\ Offer(Table[c], Event(c, OffsetOf(r, c))) \/ UNCHANGED <<queue, lost>>
      BY <1>1 DEF Dispatch, Sends
    <3>2. Event(c, OffsetOf(r, c)).change = c
      BY DEF Event
    <3>3. QED
      BY <3>1, <3>2 DEF Offer, Drop
  <2>3. SharedTypes' /\ WorkerTypes' /\ ReaderTypes'
    <3>1. lost' \subseteq Changes
      BY <2>2 DEF SharedTypes
    <3>2. SharedTypes'
      BY <2>1, <3>1 DEF SharedTypes, service, position
    <3>3. sent' \in [Tables -> SUBSET Changes]
      BY <2>2 DEF ReaderTypes
    <3>4. ReaderTypes'
      BY <2>1, <3>3 DEF ReaderTypes, service, position
    <3>5. WorkerTypes'
      BY <2>1 DEF WorkerTypes, service, position
    <3>6. QED
      BY <3>2, <3>4, <3>5
  <2>4. QueuesOK' /\ Bounded'
    <3>1. CASE UNCHANGED queue
      BY <2>1, <3>1, BQuiet DEF SharedTypes
    <3>2. CASE HasRoom(Table[c]) /\ Put(Table[c], Event(c, OffsetOf(r, c)))
      <4>1. OffsetOf(r, c) \in 0..NChanges /\ c \in 0..NChanges
        BY DEF OffsetOf, Changes, ReaderTypes
      <4>2. Event(c, OffsetOf(r, c)) \in Events /\ Event(c, OffsetOf(r, c)).change = c
        BY <4>1 DEF Event, Events
      <4>3. QED
        BY <2>1, <2>2, <3>2, <4>2, BPut DEF SharedTypes, Queues
    <3>3. QED
      BY <2>2, <3>1, <3>2
  <2>5. Threads'
    BY <2>1 DEF Threads, service, position, SavesOffset
  <2>6. QED
    BY <2>3, <2>4, <2>5
<1>2. CASE PartitionFails(r)
  <2>1. SharedTypes' /\ WorkerTypes' /\ ReaderTypes'
    BY <1>2 DEF PartitionFails, SharedTypes, WorkerTypes, ReaderTypes, service, position
  <2>2. QueuesOK' /\ Bounded'
    BY <1>2, BQuiet DEF PartitionFails, SharedTypes
  <2>3. Threads'
    BY <1>2 DEF PartitionFails, Threads, service, position, SavesOffset
  <2>4. QED
    BY <2>1, <2>2, <2>3
<1>3. QED
  BY <1>1, <1>2

LEMMA BPost == ASSUME BaseInv, Post \/ PostUnanswered \/ StaleConsume PROVE BaseInv'
<1> USE ConstantsAssumption DEF BaseInv
<1>1. /\ UNCHANGED <<service, registered, worker, batch, last, reader, covers, position,
                 told, head, offset, written, stale, lost, since>>
      /\ confirmed < head /\ confirmed' \in {confirmed, confirmed + 1}
      /\ UNCHANGED queue \/ (HasRoom(Shared) /\ Put(Shared, Event(confirmed + 1, 0)))
  BY DEF Post, PostUnanswered, StaleConsume, volatile
<1>2. SharedTypes' /\ WorkerTypes' /\ ReaderTypes'
  BY <1>1 DEF SharedTypes, WorkerTypes, ReaderTypes, service, position
<1>3. QueuesOK' /\ Bounded'
  <2>1. CASE UNCHANGED queue
    BY <1>1, <2>1, BQuiet DEF SharedTypes
  <2>2. CASE HasRoom(Shared) /\ Put(Shared, Event(confirmed + 1, 0))
    <3>1. /\ Event(confirmed + 1, 0) \in Events
          /\ Event(confirmed + 1, 0).change = confirmed + 1 /\ confirmed + 1 <= head
      <4>1. confirmed + 1 \in Changes /\ confirmed + 1 <= head /\ 0 \in 0..NChanges
        BY <1>1 DEF SharedTypes, Changes
      <4>2. QED
        BY <4>1, IsEvent
    <3>2. QED
      BY <1>1, <2>2, <3>1, BPut DEF Queues
  <2>3. QED
    BY <1>1, <2>1, <2>2
<1>4. Threads'
  BY <1>1 DEF Threads, service, position, SavesOffset
<1>5. QED
  BY <1>2, <1>3, <1>4

\* What a worker that flushes or leaves keeps: the offset it saves is a position.
LEMMA BFlush ==
    ASSUME BaseInv, NEW t \in Tables, NEW changes \in SUBSET (1..head),
           NEW o \in 0..NChanges, FlushUpTo(t, changes, o), UNCHANGED head
    PROVE  /\ written' \subseteq 1..head'
           /\ offset' \in [Tables -> 0..NChanges]
           /\ batch' = [batch EXCEPT ![t] = {}] /\ batch' \in [Tables -> SUBSET Changes]
           /\ \A u \in Tables : batch'[u] \subseteq 1..head'
BY DEF BaseInv, SharedTypes, WorkerTypes, QueuesOK, FlushUpTo

\* A worker takes the first change of its queue.
LEMMA BGet ==
    ASSUME BaseInv, NEW q \in Queues, queue[q] # <<>>,
           queue' = [queue EXCEPT ![q] = Tail(@)], UNCHANGED head
    PROVE  /\ queue' \in [Queues -> Seq(Events)]
           /\ \A p \in Queues : InQueue(p)' \subseteq 0..head'
           /\ Bounded'
           /\ Head(queue[q]) \in Events /\ Head(queue[q]).change \in 0..head
<1> USE DEF BaseInv
<1>1. /\ queue' \in [Queues -> Seq(Events)]
      /\ \A p \in Queues \ {q} : queue'[p] = queue[p]
      /\ Len(queue[q]) \in Nat \ {0} /\ Head(queue[q]) \in Events
      /\ Len(queue'[q]) = Len(queue[q]) - 1
      /\ InQueue(q) = InQueue(q)' \union {Head(queue[q]).change}
      /\ \A p \in Queues \ {q} : InQueue(p)' = InQueue(p)
  BY QGet
<1>2. Bounded'
  BY <1>1, ConstantsAssumption DEF Bounded
<1>3. \A p \in Queues : InQueue(p)' \subseteq 0..head'
  BY <1>1 DEF QueuesOK
<1>4. Head(queue[q]).change \in 0..head
  BY <1>1 DEF QueuesOK
<1>5. QED
  BY <1>1, <1>2, <1>3, <1>4

LEMMA BTake ==
    ASSUME BaseInv, NEW t \in Tables,
           Take(t) \/ TakeForeign(t) \/ TakeUnreadable(t) \/ HeartbeatFlush(t)
    PROVE  BaseInv'
<1> USE ConstantsAssumption DEF BaseInv
<1> DEFINE q == QueueOf(t)
<1>1. q \in Queues
  BY QOf
<1>2. CASE Take(t)
  <2>1. /\ UNCHANGED <<service, registered, worker, reader, covers, position, told, head,
                   confirmed, stale, lost, since>>
        /\ queue[q] # <<>> /\ queue' = [queue EXCEPT ![q] = Tail(@)]
        /\ Head(queue[q]) # Sentinel
        /\ last' = [last EXCEPT ![t] = Head(queue[q]).offset]
        /\ worker[t] = "stream"
    BY <1>2 DEF Take
  <2>2. /\ queue' \in [Queues -> Seq(Events)]
        /\ \A p \in Queues : InQueue(p)' \subseteq 0..head'
        /\ Bounded'
        /\ Head(queue[q]) \in Events /\ Head(queue[q]).change \in 0..head
    BY <1>1, <2>1, BGet
  <2> DEFINE c == Head(queue[q]).change
  <2>3. c \in 1..head /\ Head(queue[q]).offset \in 0..NChanges
    <3>1. Head(queue[q]).offset \in 0..NChanges /\ c \in Changes
      BY <2>1, <2>2 DEF Events
    <3>2. QED
      BY <2>2, <3>1 DEF SharedTypes, Changes
  <2>4. batch[t] \union {c} \in SUBSET (1..head)
    BY <2>3 DEF QueuesOK
  <2>5. /\ written' \subseteq 1..head'
        /\ offset' \in [Tables -> 0..NChanges]
        /\ \A u \in Tables \ {t} : batch'[u] = batch[u]
        /\ batch' \in [Tables -> SUBSET Changes]
        /\ \A u \in Tables : batch'[u] \subseteq 1..head'
    <3>1. CASE /\ batch' = [batch EXCEPT ![t] = @ \union {c}]
               /\ UNCHANGED <<written, offset>>
      <4>1. written' \subseteq 1..head' /\ offset' \in [Tables -> 0..NChanges]
        BY <2>1, <3>1 DEF QueuesOK, WorkerTypes, SharedTypes
      <4>2. /\ \A u \in Tables : batch[u] \in SUBSET Changes /\ batch[u] \subseteq 1..head
            /\ batch \in [Tables -> SUBSET Changes] /\ 1..head \subseteq Changes
        BY DEF SharedTypes, WorkerTypes, QueuesOK, Changes
      <4>3. /\ \A u \in Tables \ {t} : batch'[u] = batch[u]
            /\ batch'[t] = batch[t] \union {c}
            /\ batch' \in [Tables -> SUBSET Changes]
        BY <2>4, <3>1, <4>2
      <4>4. \A u \in Tables : batch'[u] \subseteq 1..head'
        BY <2>1, <2>4, <4>2, <4>3
      <4>5. QED
        BY <4>1, <4>3, <4>4
    <3>2. CASE FlushUpTo(t, batch[t] \union {c}, Head(queue[q]).offset)
      BY <2>1, <2>3, <2>4, <3>2, BFlush DEF WorkerTypes
    <3>3. QED
      BY <1>2, <3>1, <3>2 DEF Take
  <2>6. SharedTypes' /\ WorkerTypes' /\ ReaderTypes'
    BY <2>1, <2>3, <2>5 DEF SharedTypes, WorkerTypes, ReaderTypes, service, position
  <2>7. Threads'
    BY <2>1, <2>5 DEF Threads, service, position, SavesOffset, WorkerTypes
  <2>8. QED
    BY <2>2, <2>5, <2>6, <2>7 DEF QueuesOK
<1>3. CASE TakeForeign(t)
  <2>1. /\ UNCHANGED <<service, registered, worker, batch, last, reader, covers, position,
                   told, head, confirmed, offset, written, stale, lost, since>>
        /\ queue[q] # <<>> /\ queue' = [queue EXCEPT ![q] = Tail(@)]
    BY <1>3 DEF TakeForeign
  <2>2. /\ queue' \in [Queues -> Seq(Events)]
        /\ \A p \in Queues : InQueue(p)' \subseteq 0..head'
        /\ Bounded'
    BY <1>1, <2>1, BGet
  <2>3. SharedTypes' /\ WorkerTypes' /\ ReaderTypes'
    BY <2>1 DEF SharedTypes, WorkerTypes, ReaderTypes, service, position
  <2>4. Threads'
    BY <2>1 DEF Threads, service, position, SavesOffset
  <2>5. QED
    BY <2>1, <2>2, <2>3, <2>4 DEF QueuesOK
<1>4. CASE HeartbeatFlush(t)
  <2>1. /\ UNCHANGED <<service, queue, registered, worker, last, reader, covers, position,
                   told, head, confirmed, stale, lost, since>>
        /\ FlushUpTo(t, batch[t], last[t]) /\ worker[t] = "stream"
    BY <1>4 DEF HeartbeatFlush
  <2>2. batch[t] \in SUBSET (1..head) /\ last[t] \in 0..NChanges
    BY DEF QueuesOK, WorkerTypes
  <2>3. /\ written' \subseteq 1..head'
        /\ offset' \in [Tables -> 0..NChanges]
        /\ batch' = [batch EXCEPT ![t] = {}] /\ batch' \in [Tables -> SUBSET Changes]
        /\ \A u \in Tables : batch'[u] \subseteq 1..head'
    BY <2>1, <2>2, BFlush
  <2>4. SharedTypes' /\ WorkerTypes' /\ ReaderTypes'
    BY <2>1, <2>3 DEF SharedTypes, WorkerTypes, ReaderTypes, service, position
  <2>5. Threads'
    BY <2>1, <2>3 DEF Threads, service, position, SavesOffset, WorkerTypes
  <2>6. QueuesOK' /\ Bounded'
    BY <2>1, <2>3 DEF QueuesOK, InQueue, Bounded
  <2>7. QED
    BY <2>4, <2>5, <2>6
<1>5. CASE TakeUnreadable(t)
  <2>1. /\ UNCHANGED <<service, registered, worker, batch, last, reader, covers, position,
                   told, head, confirmed, offset, written, stale, since>>
        /\ queue[Shared] # <<>> /\ queue' = [queue EXCEPT ![Shared] = Tail(@)]
        /\ lost' = lost \union {Head(queue[Shared]).change} /\ Head(queue[Shared]) # Sentinel
    BY <1>5 DEF TakeUnreadable
  <2>2. Shared \in Queues
    BY DEF Queues
  <2>3. /\ queue' \in [Queues -> Seq(Events)]
        /\ \A p \in Queues : InQueue(p)' \subseteq 0..head'
        /\ Bounded'
        /\ Head(queue[Shared]) \in Events
    BY <2>1, <2>2, BGet
  <2>4. Head(queue[Shared]).change \in Changes
    BY <2>1, <2>3 DEF Events
  <2>5. SharedTypes' /\ WorkerTypes' /\ ReaderTypes'
    BY <2>1, <2>4 DEF SharedTypes, WorkerTypes, ReaderTypes, service, position
  <2>6. Threads'
    BY <2>1 DEF Threads, service, position, SavesOffset
  <2>7. QED
    BY <2>1, <2>3, <2>5, <2>6 DEF QueuesOK
<1>6. QED
  BY <1>2, <1>3, <1>4, <1>5

LEMMA BLeave ==
    ASSUME BaseInv, NEW t \in Tables, TakeSentinel(t) \/ StopWorker(t) \/ WorkerDies(t)
    PROVE  BaseInv'
<1> USE ConstantsAssumption DEF BaseInv
<1> DEFINE q == QueueOf(t)
<1>1. /\ UNCHANGED <<service, registered, reader, covers, position, told, head, confirmed,
                   stale, lost>>
      /\ worker[t] = "stream"
      /\ worker' = [worker EXCEPT ![t] = "ended"]
      /\ last' = [last EXCEPT ![t] = 0]
      /\ since' = IF SavesOffset THEN since ELSE [since EXCEPT ![t] = NChanges]
      /\ UNCHANGED queue \/ (queue[q] # <<>> /\ queue' = [queue EXCEPT ![q] = Tail(@)])
  BY DEF TakeSentinel, StopWorker, WorkerDies, Leave
<1>2. /\ written' \subseteq 1..head'
      /\ offset' \in [Tables -> 0..NChanges]
      /\ batch' = [batch EXCEPT ![t] = {}] /\ batch' \in [Tables -> SUBSET Changes]
      /\ \A u \in Tables : batch'[u] \subseteq 1..head'
  <2>1. CASE TakeSentinel(t) \/ StopWorker(t)
    <3>1. FlushUpTo(t, batch[t], IF batch[t] = {} THEN offset[t] ELSE last[t])
      BY <2>1 DEF TakeSentinel, StopWorker, Leave
    <3>2. /\ batch[t] \in SUBSET (1..head)
          /\ (IF batch[t] = {} THEN offset[t] ELSE last[t]) \in 0..NChanges
      BY DEF QueuesOK, WorkerTypes
    <3>3. QED
      BY <1>1, <3>1, <3>2, BFlush
  <2>2. CASE WorkerDies(t)
    BY <1>1, <2>2 DEF WorkerDies, SharedTypes, WorkerTypes, QueuesOK
  <2>3. QED
    BY <2>1, <2>2
<1>3. /\ queue' \in [Queues -> Seq(Events)]
      /\ \A p \in Queues : InQueue(p)' \subseteq 0..head'
      /\ Bounded'
  <2>1. CASE UNCHANGED queue
    BY <1>1, <2>1 DEF QueuesOK, InQueue, Bounded
  <2>2. CASE queue[q] # <<>> /\ queue' = [queue EXCEPT ![q] = Tail(@)]
    BY <1>1, <2>2, QOf, BGet
  <2>3. QED
    BY <1>1, <2>1, <2>2
<1>4. SharedTypes' /\ ReaderTypes'
  BY <1>1, <1>2 DEF SharedTypes, ReaderTypes, service, position
<1>5. WorkerTypes'
  BY <1>1, <1>2 DEF WorkerTypes, service, position, WorkerStates
<1>6. Threads'
  BY <1>1, <1>2 DEF Threads, service, position, SavesOffset, WorkerTypes
<1>7. QED
  BY <1>2, <1>3, <1>4, <1>5, <1>6 DEF QueuesOK

LEMMA BRestart == ASSUME BaseInv, RestartEngine \/ RestartProcess PROVE BaseInv'
<1> USE ConstantsAssumption DEF BaseInv
<1>1. /\ NewObjects
      /\ UNCHANGED <<service, head, confirmed, offset, written, lost>>
      /\ stale' \in BOOLEAN /\ (stale' => kind = "postgres")
  <2>1. CASE RestartEngine
    <3>1. (stale \/ (kind = "postgres" /\ Alive)) \in BOOLEAN
      BY DEF Alive, SharedTypes
    <3>2. QED
      BY <2>1, <3>1 DEF RestartEngine, Threads
  <2>2. CASE RestartProcess
    BY <2>2 DEF RestartProcess
  <2>3. QED
    BY <2>1, <2>2
<1>2. /\ queue' \in [Queues -> Seq(Events)]
      /\ \A q \in Queues : queue'[q] = <<>> /\ Len(queue'[q]) = 0
  BY <1>1, QNew DEF NewObjects
<1>3. SharedTypes'
  BY <1>1 DEF SharedTypes, service, position
<1>4. WorkerTypes'
  BY <1>1 DEF NewObjects, WorkerTypes, service, position, WorkerStates
<1>5. ReaderTypes'
  BY <1>1 DEF NewObjects, ReaderTypes, service, position, ReaderStates
<1>6. QueuesOK' /\ Bounded'
  BY <1>1, <1>2 DEF NewObjects, QueuesOK, Bounded, InQueue
<1>7. Threads'
  BY <1>1 DEF NewObjects, Threads, service, position, SavesOffset
<1>8. QED
  BY <1>3, <1>4, <1>5, <1>6, <1>7

LEMMA BStep == ASSUME BaseInv, [Next]_vars PROVE BaseInv'
<1>1. CASE Commit \/ UNCHANGED vars \/ Post \/ PostUnanswered \/ StaleConsume
  BY <1>1, BCommit, BPost
<1>2. CASE RestartEngine \/ RestartProcess
  BY <1>2, BRestart
<1>3. ASSUME NEW t \in Tables,
             Register(t) \/ WorkerStep(t) \/ StopWorker(t) \/ WorkerDies(t)
      PROVE  BaseInv'
  BY <1>3, BOpen, BStartThread, BTake, BLeave DEF WorkerStep
<1>4. ASSUME NEW t \in Tables, Receiver(t) \/ ReaderFails(t) \/ PartitionFails(t)
      PROVE  BaseInv'
  BY <1>4, BPostgres, BSentinel, BDispatch DEF Receiver
<1>5. QED
  BY <1>1, <1>2, <1>3, <1>4 DEF Next

\* Every variable keeps its type and no queue grows beyond its size, whatever
\* receivers, workers, stops and crashes do in whatever order (postgres.py:250,
\* cockroachdb.py:107, spanner.py:116, debezium.py:189).
THEOREM QueueSourcesTypes == Spec => []TypeOK
<1>1. Spec => []BaseInv
  BY BInit, BStep, PTL DEF Spec
<1>2. QED
  BY <1>1, BTypes, PTL

-----------------------------------------------------------------------------
(* PostgreSQL and Debezium: what was acknowledged is held *)

Watched == (kind = "postgres" /\ ~stale) \/ (kind = "debezium" /\ Cardinality(tables) = 1)

\* Where a change that was acknowledged may be.
Places(t) == Held(t) \union written \union (IF kind = "debezium" THEN lost ELSE {})

Kept(t) == \A c \in Changes : Owed(t, c) /\ c <= confirmed => c \in Places(t)

LEMMA AStatement == AcknowledgedIsHeld <=> (Watched => \A t \in tables : Kept(t))
BY DEF AcknowledgedIsHeld, Watched, Kept, Owed, Places

\* A configuration of one table has no other.
LEMMA ALone ==
    ASSUME BaseInv, Cardinality(tables) = 1
    PROVE  \A t, u \in tables : t = u
<1>1. IsFiniteSet(tables)
  BY ConstantsAssumption, FS_Subset DEF BaseInv, SharedTypes
<1>2. PICK x : tables = {x}
  BY <1>1, FS_Singleton
<1>3. QED
  BY <1>2

\* Whoever reads the queue of t is t's own worker.
LEMMA AOwnQueue ==
    ASSUME BaseInv, Watched, NEW t \in tables, NEW u \in Tables, worker[u] = "stream"
    PROVE  QueueOf(t) = QueueOf(u) => t = u
<1>1. u \in tables
  BY DEF BaseInv, Threads, WorkerTypes
<1>2. CASE kind = "postgres"
  BY <1>2 DEF QueueOf
<1>3. CASE kind = "debezium" /\ Cardinality(tables) = 1
  BY <1>1, <1>3, ALone
<1>4. QED
  BY <1>2, <1>3 DEF Watched

\* A table keeps what it holds when no change of its own is lost and nothing new
\* is acknowledged, or when its worker's promise ends.
LEMMA AMono ==
    ASSUME BaseInv, NEW t \in Tables, Kept(t), confirmed' = confirmed,
           \/ since'[t] = NChanges
           \/ /\ since'[t] = since[t]
              /\ \A c \in Changes : Table[c] = t /\ c \in Places(t) => c \in Places(t)'
    PROVE  Kept(t)'
<1> USE ConstantsAssumption
<1>1. CASE since'[t] = NChanges
  BY <1>1 DEF Kept, Owed, Changes
<1>2. CASE since'[t] # NChanges
  BY <1>2 DEF Kept, Owed
<1>3. QED
  BY <1>1, <1>2

LEMMA AInit == Init => AckInv
<1> SUFFICES ASSUME Init PROVE AckInv
  OBVIOUS
<1>1. Promised
  BY DEF Init, Promised
<1>2. \A t \in tables : Kept(t)
  BY ConstantsAssumption DEF Init, Kept, Owed, Changes
<1>3. QED
  BY <1>1, <1>2, BInit, AStatement DEF AckInv

LEMMA APromised == ASSUME AckInv, [Next]_vars PROVE Promised'
<1> USE ConstantsAssumption DEF AckInv, BaseInv
<1>1. kind' = kind /\ (SavesOffset' <=> SavesOffset)
  BY DEF Next, Commit, Post, PostUnanswered, StaleConsume, RestartEngine, RestartProcess,
         Register, WorkerStep, PostgresOpen, CheckReader, StartThread, Take, TakeForeign,
         TakeUnreadable, HeartbeatFlush, TakeSentinel, StopWorker, WorkerDies, Receiver, Connect,
         PostgresConsume, ReaderEnds, Dispatch, PutSentinel, ReaderFails, PartitionFails,
         vars, service, position, SavesOffset
<1>2. SUFFICES ASSUME ~SavesOffset PROVE Promised'
  BY <1>1 DEF Promised
<1>3. ASSUME NEW t \in Tables, Register(t) PROVE Promised'
  BY <1>1, <1>3 DEF Register, Promised, WorkerTypes
<1>4. ASSUME NEW t \in Tables, TakeSentinel(t) \/ StopWorker(t) \/ WorkerDies(t)
      PROVE  Promised'
  BY <1>1, <1>2, <1>4 DEF TakeSentinel, StopWorker, WorkerDies, Leave, Promised, WorkerTypes
<1>5. CASE RestartEngine \/ RestartProcess
  BY <1>1, <1>2, <1>5 DEF RestartEngine, RestartProcess, NewObjects, Promised
<1>6. ASSUME NEW t \in Tables, StartThread(t) PROVE FALSE
  BY <1>2, <1>6 DEF StartThread, Threads
<1>7. ASSUME UNCHANGED <<registered, since>> PROVE Promised'
  BY <1>1, <1>7 DEF Promised
<1>8. CASE Commit \/ Post \/ PostUnanswered \/ StaleConsume \/ UNCHANGED vars
  BY <1>7, <1>8 DEF Commit, Post, PostUnanswered, StaleConsume, vars, volatile
<1>9. ASSUME NEW t \in Tables,
             \/ PostgresOpen(t) \/ CheckReader(t) \/ Take(t) \/ TakeForeign(t)
             \/ TakeUnreadable(t) \/ HeartbeatFlush(t) \/ Receiver(t) \/ ReaderFails(t) \/ PartitionFails(t)
      PROVE  Promised'
  BY <1>7, <1>9 DEF PostgresOpen, CheckReader, Take, TakeForeign, TakeUnreadable, HeartbeatFlush, Receiver,
         Connect, PostgresConsume, ReaderEnds, Dispatch, PutSentinel, ReaderFails, PartitionFails
<1>10. QED
  BY <1>3, <1>4, <1>5, <1>6, <1>8, <1>9 DEF Next, WorkerStep

\* Steps of the database and of the receivers.
LEMMA AReceive ==
    ASSUME AckInv, Watched, NEW r \in Tables,
           \/ Commit \/ UNCHANGED vars \/ PostgresConsume(r) \/ Post \/ PostUnanswered
           \/ Connect(r) \/ ReaderFails(r) \/ ReaderEnds(r)
           \/ \E u \in Tables : PutSentinel(r, u)
    PROVE  \A t \in tables : Kept(t)'
<1> USE ConstantsAssumption DEF AckInv
<1> SUFFICES ASSUME NEW t \in tables PROVE Kept(t)'
  OBVIOUS
<1>1. Kept(t) /\ t \in Tables /\ UNCHANGED <<service, since, batch, written, lost>>
  BY AStatement DEF BaseInv, SharedTypes, Commit, PostgresConsume, Post, PostUnanswered,
     Connect, ReaderFails, ReaderEnds, PutSentinel, vars, volatile
<1>2. QueueOf(t)' = QueueOf(t) /\ QueueOf(t) \in Queues
  BY <1>1, QOf DEF QueueOf, service, position
<1>3. CASE Commit \/ UNCHANGED vars \/ Connect(r) \/ ReaderFails(r) \/ ReaderEnds(r)
  <2>1. UNCHANGED <<queue, confirmed>>
    BY <1>3 DEF Commit, Connect, ReaderFails, ReaderEnds, vars, volatile
  <2>2. QED
    BY <1>1, <1>2, <2>1, AMono DEF Places, Held, InQueue, service, position
<1>4. ASSUME NEW q \in Queues, NEW e \in Events, Put(q, e), confirmed' = confirmed
      PROVE  Kept(t)'
  <2>1. InQueue(QueueOf(t)) \subseteq InQueue(QueueOf(t))'
    BY <1>2, <1>4, QPut DEF BaseInv
  <2>2. QED
    BY <1>1, <1>2, <1>4, <2>1, AMono DEF Places, Held, service, position
<1>5. CASE \E u \in Tables : PutSentinel(r, u)
  BY <1>4, <1>5 DEF PutSentinel, Events, Queues
<1>6. CASE PostUnanswered
  <2>1. Event(confirmed + 1, 0) \in Events
    BY <1>6 DEF PostUnanswered, BaseInv, SharedTypes, Event, Events, Changes
  <2>2. QED
    BY <1>4, <1>6, <2>1 DEF PostUnanswered, Queues
<1>7. CASE PostgresConsume(r) \/ Post
  <2> DEFINE c == confirmed + 1
  <2>1. c \in Changes /\ confirmed' = c /\ confirmed \in Nat
    BY <1>7 DEF PostgresConsume, Post, BaseInv, SharedTypes, Changes
  <2>e. Event(c, 0) \in Events /\ Event(c, 0).change = c
    BY <2>1 DEF Event, Events
  <2>2. InQueue(QueueOf(t)) \subseteq InQueue(QueueOf(t))'
    <3>1. CASE UNCHANGED queue
      BY <1>2, <3>1 DEF InQueue
    <3>2. ASSUME NEW q \in Queues, Put(q, Event(c, 0))
          PROVE  InQueue(QueueOf(t)) \subseteq InQueue(QueueOf(t))'
      BY <1>2, <2>e, <3>2, QPut DEF BaseInv
    <3>3. Table[c] \in Queues /\ Shared \in Queues
      BY <2>1 DEF Queues
    <3>4. QED
      BY <1>7, <3>1, <3>2, <3>3 DEF PostgresConsume, Post
  <2>3. Owed(t, c) => c \in InQueue(QueueOf(t))'
    <3> SUFFICES ASSUME Owed(t, c) PROVE c \in InQueue(QueueOf(t))'
      OBVIOUS
    <3>1. CASE PostgresConsume(r)
      <4>1. kind = "postgres" /\ since[t] < c
        BY <3>1 DEF PostgresConsume, Owed
      <4>2. t \in registered
        BY <1>1, <2>1, <4>1 DEF Promised, SavesOffset, Changes
      <4>3. Table[c] = t /\ Put(t, Event(c, 0))
        BY <3>1, <4>2 DEF PostgresConsume, Owed
      <4>4. QED
        BY <1>2, <2>e, <4>1, <4>3, QPut DEF BaseInv, QueueOf
    <3>2. CASE Post
      BY <1>2, <2>e, <3>2, QPut DEF Post, BaseInv, QueueOf
    <3>3. QED
      BY <1>7, <3>1, <3>2
  <2>4. ASSUME NEW d \in Changes, Owed(t, d), d <= c
        PROVE  d \in Places(t)'
    <3>1. CASE d = c
      BY <1>2, <2>3, <2>4, <3>1 DEF Places, Held
    <3>2. CASE d # c
      <4>1. d <= confirmed
        BY <2>1, <2>4, <3>2 DEF Changes
      <4>2. QED
        BY <1>1, <1>2, <2>2, <2>4, <4>1 DEF Kept, Places, Held, service, position
    <3>3. QED
      BY <3>1, <3>2
  <2>5. QED
    BY <1>1, <2>1, <2>4 DEF Kept, Owed
<1>8. QED
  BY <1>3, <1>5, <1>6, <1>7

\* Steps of a worker.
LEMMA AWork ==
    ASSUME AckInv, Watched, NEW u \in Tables,
           \/ Register(u) \/ PostgresOpen(u) \/ CheckReader(u)
           \/ Take(u) \/ TakeForeign(u) \/ TakeUnreadable(u) \/ HeartbeatFlush(u)
           \/ TakeSentinel(u) \/ StopWorker(u) \/ WorkerDies(u)
    PROVE  \A t \in tables : Kept(t)'
<1> USE ConstantsAssumption DEF AckInv
<1> SUFFICES ASSUME NEW t \in tables PROVE Kept(t)'
  OBVIOUS
<1>1. Kept(t) /\ t \in Tables /\ ~SavesOffset
  BY AStatement DEF BaseInv, SharedTypes, Watched, SavesOffset
<1>2. /\ UNCHANGED <<service, kind, confirmed>>
      /\ lost \subseteq lost'
      /\ QueueOf(t)' = QueueOf(t) /\ QueueOf(t) \in Queues /\ QueueOf(u) \in Queues
  BY <1>1, QOf DEF Register, PostgresOpen, CheckReader, Take, TakeForeign, TakeUnreadable, HeartbeatFlush,
     TakeUnreadable, TakeSentinel, StopWorker, WorkerDies, QueueOf, service, position
<1>3. CASE Register(u)
  <2>1. UNCHANGED <<batch, written>> /\ since' = [since EXCEPT ![u] = confirmed]
    BY <1>1, <1>3 DEF Register, Watched
  <2>2. CASE t = u
    BY <1>1, <1>2, <2>1, <2>2 DEF Kept, Owed, BaseInv, SharedTypes, WorkerTypes, Changes
  <2>3. CASE t # u
    <3>1. InQueue(QueueOf(t))' = InQueue(QueueOf(t))
      BY <1>2, <1>3, <2>3 DEF Register, QueueOf, InQueue, BaseInv, QueuesOK
    <3>2. since'[t] = since[t]
      BY <2>1, <2>3 DEF BaseInv, WorkerTypes
    <3>3. QED
      BY <1>1, <1>2, <2>1, <3>1, <3>2, AMono DEF Places, Held
  <2>4. QED
    BY <2>2, <2>3
<1>4. CASE PostgresOpen(u) \/ CheckReader(u)
  <2>1. UNCHANGED <<queue, batch, written, since>>
    BY <1>4 DEF PostgresOpen, CheckReader
  <2>2. QED
    BY <1>1, <1>2, <2>1, AMono DEF Places, Held, InQueue
<1>5. CASE Take(u)
  <2>0. PICK q \in Queues : q = QueueOf(u)
    BY <1>2
  <2>1. /\ worker[u] = "stream" /\ queue[q] # <<>> /\ since' = since
        /\ queue' = [queue EXCEPT ![q] = Tail(@)]
    BY <1>5, <2>0 DEF Take
  <2>2. /\ InQueue(q) = InQueue(q)' \union {Head(queue[q]).change}
        /\ \A p \in Queues \ {q} : InQueue(p)' = InQueue(p)
    BY <1>2, <2>1, QGet DEF BaseInv
  <2>3. /\ batch[u] \union {Head(queue[q]).change} \subseteq batch'[u] \union written'
        /\ \A v \in Tables \ {u} : batch'[v] = batch[v]
        /\ written \subseteq written'
    BY <1>5, <2>0 DEF Take, FlushUpTo, BaseInv, WorkerTypes
  <2>4. CASE t = u
    BY <1>1, <1>2, <2>0, <2>1, <2>2, <2>3, <2>4, AMono DEF Places, Held
  <2>5. CASE t # u
    <3>1. QueueOf(t) # q
      BY <2>0, <2>1, <2>5, AOwnQueue
    <3>2. Held(t)' = Held(t)
      BY <1>1, <1>2, <2>2, <2>3, <2>5, <3>1 DEF Held
    <3>3. QED
      BY <1>1, <1>2, <2>1, <2>3, <3>2, AMono DEF Places
  <2>6. QED
    BY <2>4, <2>5
<1>6. CASE TakeForeign(u)
  <2>0. PICK q \in Queues : q = QueueOf(u)
    BY <1>2
  <2>1. /\ worker[u] = "stream" /\ queue[q] # <<>> /\ UNCHANGED <<since, batch, written>>
        /\ queue' = [queue EXCEPT ![q] = Tail(@)]
        /\ Table[Head(queue[q]).change] # u
    BY <1>6, <2>0 DEF TakeForeign, Foreign
  <2>2. /\ InQueue(q) = InQueue(q)' \union {Head(queue[q]).change}
        /\ \A p \in Queues \ {q} : InQueue(p)' = InQueue(p)
    BY <1>2, <2>1, QGet DEF BaseInv
  <2>3. CASE t = u
    BY <1>1, <1>2, <2>0, <2>1, <2>2, <2>3, AMono DEF Places, Held
  <2>4. CASE t # u
    <3>1. QueueOf(t) # q
      BY <2>0, <2>1, <2>4, AOwnQueue
    <3>2. QED
      BY <1>1, <1>2, <2>1, <2>2, <3>1, AMono DEF Places, Held
  <2>5. QED
    BY <2>3, <2>4
<1>7. CASE HeartbeatFlush(u)
  <2>1. UNCHANGED <<queue, since>> /\ FlushUpTo(u, batch[u], last[u])
    BY <1>7 DEF HeartbeatFlush
  <2>2. Held(t) \union written \subseteq Held(t)' \union written'
    BY <1>1, <1>2, <2>1 DEF FlushUpTo, Held, InQueue, BaseInv, WorkerTypes
  <2>3. QED
    BY <1>1, <1>2, <2>1, <2>2, AMono DEF Places
<1>8. CASE TakeSentinel(u) \/ StopWorker(u) \/ WorkerDies(u)
  <2>1. worker[u] = "stream" /\ since' = [since EXCEPT ![u] = NChanges]
    BY <1>1, <1>8 DEF TakeSentinel, StopWorker, WorkerDies, Leave
  <2>2. CASE t = u
    BY <1>1, <1>2, <2>1, <2>2, AMono DEF BaseInv, WorkerTypes
  <2>3. CASE t # u
    <3>1. QueueOf(t) # QueueOf(u)
      BY <2>1, <2>3, AOwnQueue
    <3>2. InQueue(QueueOf(t))' = InQueue(QueueOf(t))
      <4>1. queue'[QueueOf(t)] = queue[QueueOf(t)]
        BY <1>2, <1>8, <3>1 DEF TakeSentinel, StopWorker, WorkerDies, BaseInv, QueuesOK
      <4>2. QED
        BY <1>2, <4>1 DEF InQueue
    <3>3. batch'[t] = batch[t] /\ written \subseteq written' /\ since'[t] = since[t]
      BY <1>1, <1>8, <2>1, <2>3
         DEF TakeSentinel, StopWorker, WorkerDies, Leave, FlushUpTo, BaseInv, WorkerTypes
    <3>4. QED
      BY <1>1, <1>2, <3>2, <3>3, AMono DEF Places, Held
  <2>4. QED
    BY <2>2, <2>3
<1>9. CASE TakeUnreadable(u)
  <2>1. /\ kind = "debezium" /\ worker[u] = "stream" /\ queue[Shared] # <<>>
        /\ UNCHANGED <<since, batch, written>>
        /\ queue' = [queue EXCEPT ![Shared] = Tail(@)]
        /\ lost' = lost \union {Head(queue[Shared]).change}
    BY <1>9 DEF TakeUnreadable
  <2>2. Shared \in Queues /\ QueueOf(t) = Shared
    BY <2>1 DEF Queues, QueueOf
  <2>3. InQueue(Shared) = InQueue(Shared)' \union {Head(queue[Shared]).change}
    BY <2>1, <2>2, QGet DEF BaseInv
  <2>4. QED
    BY <1>1, <1>2, <2>1, <2>2, <2>3, AMono DEF Places, Held
<1>10. QED
  BY <1>3, <1>4, <1>5, <1>6, <1>7, <1>8, <1>9

\* A new source object has promised nothing yet.
LEMMA ARestart ==
    ASSUME AckInv, Watched', RestartEngine \/ RestartProcess
    PROVE  \A t \in tables : Kept(t)'
<1> USE ConstantsAssumption DEF AckInv
<1>1. ~SavesOffset /\ tables \subseteq Tables
  BY DEF Watched, SavesOffset, RestartEngine, RestartProcess, service, position, BaseInv, SharedTypes
<1>2. since' = [t \in Tables |-> NChanges]
  BY <1>1 DEF RestartEngine, RestartProcess, NewObjects
<1>3. QED
  BY <1>1, <1>2 DEF Kept, Owed, Changes

LEMMA AStep == ASSUME AckInv, [Next]_vars PROVE AckInv'
<1>1. BaseInv' /\ Promised'
  BY BStep, APromised DEF AckInv
<1>2. ASSUME Watched' PROVE \A t \in tables' : Kept(t)'
  <2>1. CASE RestartEngine \/ RestartProcess
    BY <1>2, <2>1, ARestart DEF RestartEngine, RestartProcess, service, position
  <2>2. CASE ~(RestartEngine \/ RestartProcess)
    <3>1. UNCHANGED <<kind, tables, stale>>
      BY <2>2 DEF Next, Commit, Post, PostUnanswered, StaleConsume, Register, WorkerStep,
         PostgresOpen, CheckReader, StartThread, Take, TakeForeign, TakeUnreadable, HeartbeatFlush,
         TakeSentinel, StopWorker, WorkerDies, Receiver, Connect, PostgresConsume,
         ReaderEnds, Dispatch, PutSentinel, ReaderFails, PartitionFails, vars, service, position
    <3>2. Watched /\ ~SavesOffset
      BY <1>2, <3>1 DEF Watched, SavesOffset
    <3>3. ~StaleConsume
      BY <3>2 DEF StaleConsume, Watched, AckInv, BaseInv, Threads
    <3>4. ASSUME NEW t \in Tables
          PROVE  ~StartThread(t) /\ ~Dispatch(t) /\ ~PartitionFails(t)
      BY <3>2 DEF StartThread, Dispatch, PartitionFails, AckInv, BaseInv, Threads, SavesOffset
    <3>5. CASE Commit \/ UNCHANGED vars \/ Post \/ PostUnanswered
      <4>1. \A t \in tables : t \in Tables
        BY DEF AckInv, BaseInv, SharedTypes
      <4>2. QED
        BY <3>1, <3>2, <3>5, <4>1, AReceive
    <3>6. ASSUME NEW t \in Tables,
                 Register(t) \/ WorkerStep(t) \/ StopWorker(t) \/ WorkerDies(t)
          PROVE  \A u \in tables' : Kept(u)'
      BY <3>1, <3>2, <3>4, <3>6, AWork DEF WorkerStep
    <3>7. ASSUME NEW t \in Tables, Receiver(t) \/ ReaderFails(t) \/ PartitionFails(t)
          PROVE  \A u \in tables' : Kept(u)'
      BY <3>1, <3>2, <3>4, <3>7, AReceive DEF Receiver
    <3>8. QED
      BY <2>2, <3>3, <3>5, <3>6, <3>7 DEF Next
  <2>3. QED
    BY <2>1, <2>2
<1>3. AcknowledgedIsHeld'
  BY <1>2 DEF AcknowledgedIsHeld, Watched, Kept, Owed, Places
<1>4. QED
  BY <1>1, <1>3 DEF AckInv

\* A change that PostgreSQL's slot or Debezium was told has arrived is in the queue,
\* in the batch or in the sink for as long as the table's worker lives: a full queue
\* makes the sender wait (postgres.py:250-252, debezium.py:189-198), and only an event
\* of Debezium that cannot be converted is given up (debezium.py:226-229).
THEOREM AcknowledgedSafe == Spec => []AcknowledgedIsHeld
<1>1. AckInv => AcknowledgedIsHeld
  BY DEF AckInv
<1>2. QED
  BY <1>1, AInit, AStep, PTL DEF Spec

-----------------------------------------------------------------------------
(* Spanner: what a saved offset covers *)

LEMMA OInit == Init => OffsetInv
<1> SUFFICES ASSUME Init, NEW t \in tables PROVE Resumable(t)
  BY DEF OffsetInv
<1>1. t \in Tables /\ t \in Queues
  BY DEF Init, Queues
<1>2. queue[t] = <<>>
  BY <1>1 DEF Init, NewProcess, Queues
<1>3. Covered(t)
  BY <1>1, ConstantsAssumption DEF Init, Covered, Changes
<1>4. QED
  BY <1>1, <1>2, <1>3 DEF Init, NewProcess, Resumable

\* Only the one table has a worker and a receiver.
LEMMA OAlone ==
    ASSUME BaseInv, Lone, NEW t \in tables, NEW u \in Tables,
           worker[u] # "off" \/ reader[u] # "none"
    PROVE  u = t /\ worker[u] # "off"
BY DEF BaseInv, Threads, Lone, WorkerTypes

\* What precedes the last event the worker was given has left the queue.
Behind(t) ==
    \A c \in Changes : Owed(t, c) /\ Stamp[c] < last[t] => c \in batch[t] \union written \union lost

Ordered(t) == InCommitOrder(t) /\ InOrder(t) /\ NoneMissing(t)

LEMMA OBehind == SharedTypes /\ ReaderTypes => \A t \in Tables : Ordered(t) => Behind(t)
<1> SUFFICES ASSUME SharedTypes, ReaderTypes, NEW t \in Tables, Ordered(t),
                    NEW c \in Changes, Owed(t, c), Stamp[c] < last[t]
             PROVE  c \in batch[t] \union written \union lost
  BY DEF Behind
<1> USE ConstantsAssumption DEF Ordered
<1>1. Stamp[c] \in Nat
  BY DEF Changes
<1>2. PICK d \in sent[t] : last[t] = Stamp[d]
  BY <1>1 DEF InCommitOrder
<1>3. d \in Changes
  BY <1>2 DEF InOrder, SharedTypes, Changes
<1>4. c <= d
  BY <1>1, <1>2, <1>3 DEF Changes
<1>5. Accounted(t, c)
  <2>1. CASE from[t] <= Stamp[c]
    BY <1>2, <1>4, <2>1 DEF InOrder, NoneMissing
  <2>2. CASE Stamp[c] < from[t]
    BY <2>2 DEF NoneMissing
  <2>3. from[t] \in Int
    BY DEF ReaderTypes
  <2>4. QED
    BY <1>1, <2>1, <2>2, <2>3
<1>6. c \notin InQueue(t)
  <2> SUFFICES ASSUME NEW i \in 1..Len(queue[t]), queue[t][i].change = c PROVE FALSE
    BY DEF InQueue
  <2>1. last[t] <= Stamp[c]
    BY DEF InCommitOrder
  <2>2. Stamp[d] \in Nat
    BY <1>3 DEF Changes
  <2>3. QED
    BY <1>1, <1>2, <2>1, <2>2
<1>7. QED
  BY <1>5, <1>6 DEF Accounted

LEMMA OBehindNext == (SharedTypes /\ ReaderTypes => \A t \in Tables : Ordered(t) => Behind(t))'
BY OBehind, PTL

\* The steps that leave the one table's queue, batch and offset as they are.
LEMMA OQuiet ==
    ASSUME NEW t, Resumable(t), UNCHANGED <<offset, since, written, lost, from, scan, sent>>,
           UNCHANGED <<worker[t], queue[t], batch[t], last[t]>>, head <= head',
           head \in Int, head' \in Int
    PROVE  Resumable(t)'
<1>1. InQueue(t)' = InQueue(t)
  BY DEF InQueue
<1>2. 1..head \subseteq 1..head'
  OBVIOUS
<1>3. worker'[t] = "stream" => InCommitOrder(t)' /\ InOrder(t)' /\ NoneMissing(t)'
  BY <1>1, <1>2 DEF Resumable, InCommitOrder, InOrder, NoneMissing, Accounted, Owed
<1>4. QED
  BY <1>3 DEF Resumable, Covered, Owed

\* The other sources' steps, and those that end a partition or its thread.
LEMMA OOther ==
    ASSUME BaseInv, Lone, BaseInv', NEW t \in tables, Resumable(t), NEW r \in Tables,
           \/ Commit \/ UNCHANGED vars \/ Post \/ PostUnanswered \/ StaleConsume
           \/ PostgresOpen(r) \/ TakeForeign(r) \/ TakeUnreadable(r) \/ Connect(r)
           \/ PostgresConsume(r) \/ ReaderEnds(r) \/ \E u \in Tables : PutSentinel(r, u)
           \/ ReaderFails(r) \/ PartitionFails(r)
    PROVE  Resumable(t)'
<1>1. /\ ~Post /\ ~PostUnanswered /\ ~StaleConsume /\ ~PostgresOpen(r) /\ ~TakeForeign(r)
      /\ ~TakeUnreadable(r) /\ ~Connect(r) /\ ~PostgresConsume(r) /\ ~ReaderEnds(r)
      /\ \A u \in Tables : ~PutSentinel(r, u)
  BY DEF Post, PostUnanswered, StaleConsume, PostgresOpen, TakeForeign, TakeUnreadable, Foreign,
     Connect, PostgresConsume, ReaderEnds, PutSentinel, BaseInv, Threads, Lone
<1>2. head \in 0..NChanges /\ head' \in 0..NChanges
  BY DEF BaseInv, SharedTypes
<1>3. head <= head'
  <2>1. CASE Commit
    <3>1. head + 1 \in Changes
      BY <1>2, <2>1, ConstantsAssumption DEF Commit, Changes
    <3>2. QED
      BY <1>2, <2>1, <3>1, ConstantsAssumption DEF Commit, Changes
  <2>2. CASE ReaderFails(r) \/ PartitionFails(r) \/ UNCHANGED vars
    BY <1>2, <2>2 DEF ReaderFails, PartitionFails, vars
  <2>3. QED
    BY <1>1, <2>1, <2>2
<1>4. /\ UNCHANGED <<offset, since, written, lost, from, scan, sent>>
      /\ UNCHANGED <<worker, queue, batch, last>>
  BY <1>1 DEF Commit, ReaderFails, PartitionFails, vars, volatile, position
<1>5. head \in Int /\ head' \in Int
  BY <1>2
<1>6. QED
  BY <1>3, <1>4, <1>5, OQuiet

\* A stream begins where the saved offset ends, or with what is committed from now on.
LEMMA OStart ==
    ASSUME BaseInv, Lone, NEW t \in tables, Resumable(t), NEW u \in Tables,
           Register(u) \/ CheckReader(u) \/ StartThread(u)
    PROVE  Resumable(t)'
<1> USE ConstantsAssumption
<1>1. u = t /\ t \in Tables
  BY OAlone DEF Register, CheckReader, StartThread, Lone, BaseInv, SharedTypes
<1>2. /\ worker[t] \in {"off", "open", "starting"}
      /\ reader[t] = "none" /\ batch[t] = {} /\ last[t] = 0 /\ queue[t] = <<>>
  BY <1>1 DEF Register, CheckReader, StartThread, BaseInv, Threads, Resumable
<1>3. CASE Register(u)
  <2>1. queue'[t] = <<>> /\ worker'[t] = "open"
    BY <1>1, <1>3 DEF Register, BaseInv, WorkerTypes, QueuesOK, Queues, Lone
  <2>2. UNCHANGED <<offset, written, lost, since, scan>>
    BY <1>3 DEF Register, Lone, position
  <2>3. QED
    BY <2>1, <2>2 DEF Resumable, Covered, Owed
<1>4. CASE CheckReader(u)
  <2>1. ~Alive
    BY <1>2, <1>1, OAlone DEF Alive
  <2>2. /\ UNCHANGED <<offset, written, lost, since, scan, queue>>
        /\ worker'[t] = "starting"
    BY <1>1, <1>4, <2>1 DEF CheckReader, position, BaseInv, WorkerTypes
  <2>3. QED
    BY <1>2, <2>2 DEF Resumable, Covered, Owed
<1>5. CASE StartThread(u)
  <2>1. /\ UNCHANGED <<offset, written, lost, queue, batch, last, head>>
        /\ worker'[t] = "stream" /\ scan'[t] = 0 /\ sent'[t] = {}
        /\ from'[t] = IF offset[t] = 0 THEN head + 1 ELSE offset[t]
        /\ since'[t] = IF offset[t] = 0 THEN head ELSE since[t]
    BY <1>1, <1>5 DEF StartThread, StartReader, StartPosition, Lone, BaseInv, WorkerTypes, ReaderTypes
  <2>2. offset[t] \in 0..NChanges /\ head \in 0..NChanges
    BY <1>1 DEF BaseInv, SharedTypes, WorkerTypes
  <2>3. ASSUME NEW c \in Changes, Owed(t, c)', Stamp[c] < from'[t] \/ Stamp[c] < offset'[t]
        PROVE  c \in written \union lost
    <3>1. Stamp[c] \in Changes /\ c <= Stamp[c]
      OBVIOUS
    <3>2. offset[t] # 0
      BY <2>1, <2>2, <2>3, <3>1 DEF Owed, Changes
    <3>3. Owed(t, c) /\ Stamp[c] < offset[t]
      BY <2>1, <2>3, <3>2 DEF Owed
    <3>4. QED
      BY <3>3 DEF Resumable, Covered
  <2>4. Len(<<>>) = 0
    BY EmptySeq
  <2>5. InCommitOrder(t)' /\ InOrder(t)'
    BY <1>2, <2>1, <2>4 DEF InCommitOrder, InOrder
  <2>6. NoneMissing(t)' /\ Covered(t)'
    BY <2>1, <2>3 DEF NoneMissing, Covered, Accounted
  <2>7. QED
    BY <2>1, <2>5, <2>6 DEF Resumable
<1>6. QED
  BY <1>3, <1>4, <1>5

\* The thread is sent the next change of the partition: it joins the queue behind what
\* was committed before it, or is dropped.
LEMMA ODispatch ==
    ASSUME BaseInv, Lone, NEW t \in tables, Resumable(t), NEW r \in Tables, Dispatch(r)
    PROVE  Resumable(t)'
<1> USE ConstantsAssumption
<1>1. r = t /\ t \in Tables /\ t \in Queues /\ worker[t] # "off"
  BY OAlone DEF Dispatch, Lone, BaseInv, SharedTypes, Queues
<1>2. /\ UNCHANGED <<kind, split, offset, since, written, worker, head, from, scan, batch, last>>
      /\ kind = "spanner"
  BY <1>1 DEF Dispatch, service, Lone
<1>3. PICK c \in Changes :
          /\ Sends(t, c) /\ \A d \in Changes : Sends(t, d) => c <= d
          /\ sent' = [sent EXCEPT ![t] = @ \union {c}]
          /\ IF Table[c] \in registered THEN Offer(Table[c], Event(c, OffsetOf(t, c)))
                                        ELSE UNCHANGED <<queue, lost>>
  BY <1>1, <1>2 DEF Dispatch
<1>4. sent'[t] = sent[t] \union {c} /\ c <= head /\ head \in 0..NChanges
  BY <1>1, <1>3 DEF Sends, BaseInv, SharedTypes, ReaderTypes
<1>5. worker[t] \notin {"off", "open", "starting"}
  BY <1>1 DEF BaseInv, Threads, Dispatch
<1>6. t \in registered /\ \A x \in registered : x = t
  BY <1>1 DEF BaseInv, Threads, WorkerTypes, Lone
<1>7. scan[t] = 0 /\ OffsetOf(t, c) = Stamp[c]
  BY <1>3 DEF Resumable, OffsetOf, Changes
<1>8. PICK e : e = Event(c, Stamp[c])
  OBVIOUS
<1>9. e \in Events /\ e.change = c /\ e.offset = Stamp[c]
  <2>1. Stamp[c] \in 0..NChanges
    BY DEF Changes
  <2>2. QED
    BY <1>8, <2>1, IsEvent
<1>10. \/ Table[c] = t /\ HasRoom(t) /\ Put(t, e) /\ UNCHANGED lost
       \/ UNCHANGED queue /\ lost' = lost \union {c}
       \/ UNCHANGED <<queue, lost>> /\ Table[c] # t
  BY <1>3, <1>6, <1>7, <1>8, <1>9 DEF Offer, Drop
<1>11. /\ InQueue(t) \subseteq InQueue(t)' /\ lost \subseteq lost'
       /\ Table[c] = t => c \in InQueue(t)' \union lost'
  <2>1. CASE UNCHANGED queue /\ (lost' = lost \union {c} \/ (UNCHANGED lost /\ Table[c] # t))
    BY <2>1 DEF InQueue
  <2>2. CASE Put(t, e) /\ UNCHANGED lost
    <3>1. InQueue(t)' = InQueue(t) \union {e.change}
      BY <1>1, <1>9, <2>2, QPut DEF BaseInv
    <3>2. QED
      BY <1>9, <2>2, <3>1
  <2>3. QED
    BY <1>10, <2>1, <2>2
<1>12. ASSUME worker[t] = "stream" PROVE InCommitOrder(t)' /\ InOrder(t)' /\ NoneMissing(t)'
  <2>1. InCommitOrder(t) /\ InOrder(t) /\ NoneMissing(t)
    BY <1>12 DEF Resumable
  <2>2. \A d \in sent[t] : d \in Changes /\ d <= c /\ Stamp[d] <= Stamp[c]
    <3> SUFFICES ASSUME NEW d \in sent[t] PROVE d \in Changes /\ d <= c /\ Stamp[d] <= Stamp[c]
      OBVIOUS
    <3>1. d \in Changes
      BY <1>4, <2>1 DEF InOrder, Changes
    <3>2. ~(c <= d)
      BY <1>3, <2>1 DEF InOrder, Sends
    <3>3. d <= c
      BY <3>1, <3>2 DEF Changes
    <3>4. QED
      BY <3>1, <3>3
  <2>3. InOrder(t)'
    <3>1. ASSUME NEW d \in Changes, from[t] <= Stamp[d], d <= c PROVE d \in sent'[t]
      <4>1. CASE d \in sent[t]
        BY <1>4, <4>1
      <4>2. CASE d \notin sent[t]
        <5>1. Sends(t, d)
          BY <1>2, <1>3, <1>4, <3>1, <4>2 DEF Sends, Lone, Changes
        <5>2. d = c
          BY <1>3, <3>1, <5>1 DEF Changes
        <5>3. QED
          BY <1>4, <5>2
      <4>3. QED
        BY <4>1, <4>2
    <3>2. sent'[t] \subseteq 1..head'
      BY <1>2, <1>4, <2>1 DEF InOrder, Changes
    <3>3. QED
      BY <1>2, <1>4, <2>1, <3>1, <3>2 DEF InOrder
  <2>4. NoneMissing(t)'
    BY <1>2, <1>4, <1>11, <2>1 DEF NoneMissing, Accounted, Owed
  <2>5. last[t] <= Stamp[c]
    BY <2>1, <2>2 DEF InCommitOrder, Changes
  <2>6. InCommitOrder(t)'
    <3>1. CASE UNCHANGED queue
      BY <1>2, <1>4, <2>1, <3>1 DEF InCommitOrder
    <3>2. CASE Put(t, e)
      <4>1. /\ Len(queue'[t]) = Len(queue[t]) + 1
            /\ \A i \in 1..Len(queue[t]) : queue'[t][i] = queue[t][i]
            /\ queue'[t][Len(queue[t]) + 1] = e
        BY <1>1, <1>9, <3>2, QPut DEF BaseInv
      <4>2. Len(queue[t]) \in Nat
        BY <1>1, LenProperties DEF BaseInv, QueuesOK
      <4>3. \A i \in 1..Len(queue[t]) : queue[t][i].change \in sent[t] /\ queue[t][i].offset <= Stamp[c]
        BY <2>1, <2>2 DEF InCommitOrder
      <4>4. ASSUME NEW i \in 1..Len(queue'[t])
            PROVE  /\ queue'[t][i].change \in sent'[t]
                   /\ queue'[t][i].offset = Stamp[queue'[t][i].change]
                   /\ last'[t] <= queue'[t][i].offset
                   /\ queue'[t][i].offset <= Stamp[c]
        <5>1. CASE i = Len(queue[t]) + 1
          BY <1>2, <1>4, <1>9, <2>5, <4>1, <5>1 DEF Changes
        <5>2. CASE i # Len(queue[t]) + 1
          <6>1. i \in 1..Len(queue[t]) /\ queue'[t][i] = queue[t][i]
            BY <4>1, <4>2, <5>2
          <6>2. QED
            BY <1>2, <1>4, <2>1, <4>3, <6>1 DEF InCommitOrder
        <5>3. QED
          BY <5>1, <5>2
      <4>5. ASSUME NEW i \in 1..Len(queue'[t]), NEW j \in 1..Len(queue'[t]), i < j
            PROVE  queue'[t][i].offset <= queue'[t][j].offset
        <5>1. i \in 1..Len(queue[t]) /\ queue'[t][i] = queue[t][i]
          BY <4>1, <4>2, <4>5
        <5>2. CASE j = Len(queue[t]) + 1
          BY <1>9, <4>1, <4>4, <5>2
        <5>3. CASE j # Len(queue[t]) + 1
          <6>1. j \in 1..Len(queue[t]) /\ queue'[t][j] = queue[t][j]
            BY <4>1, <4>2, <5>3
          <6>2. QED
            BY <2>1, <4>5, <5>1, <6>1 DEF InCommitOrder
        <5>4. QED
          BY <5>2, <5>3
      <4>6. last'[t] = 0 \/ \E d \in sent'[t] : last'[t] = Stamp[d]
        BY <1>2, <1>4, <2>1 DEF InCommitOrder
      <4>7. QED
        BY <4>4, <4>5, <4>6 DEF InCommitOrder
    <3>3. QED
      BY <1>10, <3>1, <3>2
  <2>7. QED
    BY <2>3, <2>4, <2>6
<1>13. Covered(t)'
  BY <1>2, <1>11 DEF Covered, Resumable, Owed
<1>14. QED
  BY <1>2, <1>5, <1>7, <1>12, <1>13 DEF Resumable

\* The batch goes to the sink with the event taken, and with it the event's timestamp.
LEMMA OTake ==
    ASSUME BaseInv, BaseInv', Lone, NEW t \in tables, Resumable(t), NEW u \in Tables, Take(u)
    PROVE  Resumable(t)'
<1> USE ConstantsAssumption
<1>1. u = t /\ t \in Tables /\ t \in Queues
  BY OAlone DEF Take, Lone, BaseInv, SharedTypes, Queues
<1>2. QueueOf(t) = t
  BY DEF QueueOf, Lone
<1>3. /\ UNCHANGED <<worker, head, from, scan, sent, since, lost>>
      /\ worker[t] = "stream" /\ queue[t] # <<>> /\ queue' = [queue EXCEPT ![t] = Tail(@)]
  BY <1>1, <1>2 DEF Take, position
<1>4. PICK e : e = Head(queue[t])
  OBVIOUS
<1>5. /\ e \in Events /\ e = queue[t][1]
      /\ Len(queue[t]) \in Nat \ {0} /\ Len(queue'[t]) = Len(queue[t]) - 1
      /\ \A i \in 1..Len(queue'[t]) : queue'[t][i] = queue[t][i + 1]
      /\ InQueue(t) = InQueue(t)' \union {e.change}
  BY <1>1, <1>3, <1>4, QGet DEF BaseInv
<1>6. /\ last'[t] = e.offset
      /\ \/ batch'[t] = batch[t] \union {e.change} /\ UNCHANGED <<written, offset>>
         \/ /\ batch'[t] = {} /\ written' = written \union (batch[t] \union {e.change})
            /\ offset'[t] = e.offset
  BY <1>1, <1>2, <1>4 DEF Take, FlushUpTo, SavesOffset, Lone, BaseInv, WorkerTypes
<1>7. InCommitOrder(t) /\ InOrder(t) /\ NoneMissing(t) /\ Covered(t)
  BY <1>3 DEF Resumable
<1>8. InCommitOrder(t)'
  <2>1. \A i \in 1..Len(queue'[t]) : i + 1 \in 1..Len(queue[t]) /\ 1 < i + 1 /\ queue'[t][i] = queue[t][i + 1]
    BY <1>5
  <2>2. 1 \in 1..Len(queue[t])
    BY <1>5
  <2>3. e.change \in sent[t] /\ e.offset = Stamp[e.change]
    BY <1>5, <1>7, <2>2 DEF InCommitOrder
  <2>4. \A i \in 1..Len(queue'[t]) :
            /\ queue'[t][i].change \in sent[t]
            /\ queue'[t][i].offset = Stamp[queue'[t][i].change]
            /\ e.offset <= queue'[t][i].offset
    BY <1>5, <1>7, <2>1, <2>2 DEF InCommitOrder
  <2>5. ASSUME NEW i \in 1..Len(queue'[t]), NEW j \in 1..Len(queue'[t]), i < j
        PROVE  queue'[t][i].offset <= queue'[t][j].offset
    <3>1. /\ i + 1 \in 1..Len(queue[t]) /\ j + 1 \in 1..Len(queue[t])
          /\ queue'[t][i] = queue[t][i + 1] /\ queue'[t][j] = queue[t][j + 1]
      BY <2>1
    <3>2. i + 1 < j + 1
      BY <2>5
    <3>3. QED
      BY <1>7, <3>1, <3>2 DEF InCommitOrder
  <2>6. QED
    BY <1>3, <1>6, <2>3, <2>4, <2>5 DEF InCommitOrder
<1>9. InOrder(t)'
  BY <1>3, <1>7 DEF InOrder
<1>10. NoneMissing(t)'
  BY <1>3, <1>5, <1>6, <1>7 DEF NoneMissing, Owed, Accounted
<1>11. Behind(t)'
  <2>1. SharedTypes' /\ ReaderTypes' /\ Ordered(t)'
    BY <1>8, <1>9, <1>10 DEF Ordered, BaseInv
  <2>2. QED
    BY <1>1, <2>1, OBehindNext
<1>12. Covered(t)'
  <2>1. CASE UNCHANGED <<written, offset>>
    BY <1>3, <1>7, <2>1 DEF Covered, Owed
  <2>2. CASE batch'[t] = {} /\ offset'[t] = e.offset
    BY <1>6, <1>11, <2>2 DEF Behind, Covered
  <2>3. QED
    BY <1>6, <2>1, <2>2
<1>13. QED
  BY <1>3, <1>8, <1>9, <1>10, <1>12 DEF Resumable

\* The batch goes to the sink before the timestamp of its last event is saved; a worker
\* that dies saves nothing.
LEMMA OLeave ==
    ASSUME BaseInv, Lone, NEW t \in tables, Resumable(t), NEW u \in Tables,
           HeartbeatFlush(u) \/ TakeSentinel(u) \/ StopWorker(u) \/ WorkerDies(u)
    PROVE  Resumable(t)'
<1> USE ConstantsAssumption
<1>1. worker[u] = "stream"
  BY DEF HeartbeatFlush, TakeSentinel, StopWorker, WorkerDies, Leave
<1>2. u = t /\ t \in Tables /\ t \in Queues /\ QueueOf(t) = t /\ SavesOffset
  BY <1>1, OAlone DEF Lone, BaseInv, SharedTypes, Queues, QueueOf, SavesOffset
<1>3. InCommitOrder(t) /\ InOrder(t) /\ NoneMissing(t) /\ Covered(t) /\ scan[t] = 0
  BY <1>1, <1>2 DEF Resumable
<1>4. UNCHANGED <<from, scan, sent, head, since, lost>>
  BY <1>2 DEF HeartbeatFlush, TakeSentinel, StopWorker, WorkerDies, Leave, position
<1>5. Behind(t)
  BY <1>2, <1>3, OBehind DEF Ordered, BaseInv
<1>6. CASE HeartbeatFlush(u)
  <2>1. /\ UNCHANGED <<worker, queue, last>>
        /\ written' = written \union batch[t] /\ batch'[t] = {} /\ offset'[t] = last[t]
    BY <1>2, <1>6 DEF HeartbeatFlush, FlushUpTo, BaseInv, WorkerTypes
  <2>2. InQueue(t)' = InQueue(t)
    BY <2>1 DEF InQueue
  <2>3. InCommitOrder(t)' /\ InOrder(t)' /\ NoneMissing(t)'
    BY <1>3, <1>4, <2>1, <2>2 DEF InCommitOrder, InOrder, NoneMissing, Accounted, Owed
  <2>4. Covered(t)'
    BY <1>4, <1>5, <2>1 DEF Covered, Behind, Owed
  <2>5. QED
    BY <1>1, <1>2, <1>3, <1>4, <2>1, <2>3, <2>4 DEF Resumable
<1>7. CASE TakeSentinel(u) \/ StopWorker(u) \/ WorkerDies(u)
  <2>1. worker'[t] = "ended"
    BY <1>2, <1>7 DEF TakeSentinel, StopWorker, WorkerDies, Leave, BaseInv, WorkerTypes
  <2>2. \/ UNCHANGED <<offset, written>>
        \/ /\ written' = written \union batch[t]
           /\ offset'[t] = IF batch[t] = {} THEN offset[t] ELSE last[t]
    BY <1>2, <1>7 DEF TakeSentinel, StopWorker, WorkerDies, Leave, FlushUpTo, BaseInv, WorkerTypes
  <2>3. Covered(t)'
    BY <1>3, <1>4, <1>5, <2>2 DEF Covered, Behind, Owed
  <2>4. QED
    BY <1>3, <1>4, <2>1, <2>3 DEF Resumable
<1>8. QED
  BY <1>6, <1>7

\* A new source object starts with an empty queue and the offset of the old one.
LEMMA ORestart ==
    ASSUME BaseInv, Lone, NEW t \in tables, Resumable(t), RestartEngine \/ RestartProcess
    PROVE  Resumable(t)'
<1>1. t \in Tables /\ t \in Queues
  BY DEF BaseInv, SharedTypes, Queues
<1>2. NewObjects /\ UNCHANGED <<service, offset, written, lost>>
  BY DEF RestartEngine, RestartProcess
<1>3. /\ worker'[t] = "off" /\ queue'[t] = <<>> /\ scan'[t] = 0
      /\ since' = since
  BY <1>1, <1>2 DEF NewObjects, Queues, Lone, SavesOffset
<1>4. QED
  BY <1>2, <1>3 DEF Resumable, Covered, Owed

LEMMA OStep == ASSUME BaseInv, OffsetInv, [Next]_vars PROVE OffsetInv'
<1> SUFFICES ASSUME Lone', NEW t \in tables' PROVE Resumable(t)'
  BY DEF OffsetInv
<1>1. UNCHANGED <<kind, tables, split>>
  BY DEF Next, Commit, Post, PostUnanswered, StaleConsume, RestartEngine, RestartProcess,
     Register, WorkerStep, PostgresOpen, CheckReader, StartThread, Take, TakeForeign,
     TakeUnreadable, HeartbeatFlush, TakeSentinel, StopWorker, WorkerDies, Receiver, Connect,
     PostgresConsume, ReaderEnds, Dispatch, PutSentinel, ReaderFails, PartitionFails, vars, service
<1>2. Lone /\ t \in tables
  BY <1>1 DEF Lone
<1>3. Resumable(t)
  BY <1>2 DEF OffsetInv
<1>4. t \in Tables /\ BaseInv'
  BY <1>2, BStep DEF BaseInv, SharedTypes
<1>5. CASE Commit \/ UNCHANGED vars \/ Post \/ PostUnanswered \/ StaleConsume
  BY <1>2, <1>3, <1>4, <1>5, OOther
<1>6. CASE RestartEngine \/ RestartProcess
  BY <1>2, <1>3, <1>6, ORestart
<1>7. ASSUME NEW u \in Tables,
             Register(u) \/ WorkerStep(u) \/ StopWorker(u) \/ WorkerDies(u)
      PROVE  Resumable(t)'
  <2>1. CASE Register(u) \/ CheckReader(u) \/ StartThread(u)
    BY <1>2, <1>3, <2>1, OStart
  <2>2. CASE PostgresOpen(u) \/ TakeForeign(u) \/ TakeUnreadable(u)
    BY <1>2, <1>3, <1>4, <2>2, OOther
  <2>3. CASE HeartbeatFlush(u) \/ TakeSentinel(u) \/ StopWorker(u) \/ WorkerDies(u)
    BY <1>2, <1>3, <2>3, OLeave
  <2>4. CASE Take(u)
    BY <1>2, <1>3, <1>4, <2>4, OTake
  <2>5. QED
    BY <1>7, <2>1, <2>2, <2>3, <2>4 DEF WorkerStep
<1>8. ASSUME NEW u \in Tables, Receiver(u) \/ ReaderFails(u) \/ PartitionFails(u)
      PROVE  Resumable(t)'
  <2>1. CASE Dispatch(u)
    BY <1>2, <1>3, <2>1, ODispatch
  <2>2. CASE ReaderFails(u) \/ PartitionFails(u)
    BY <1>2, <1>3, <1>4, <2>2, OOther
  <2>3. CASE Connect(u) \/ PostgresConsume(u) \/ ReaderEnds(u) \/ \E q \in Tables : PutSentinel(u, q)
    BY <1>2, <1>3, <1>4, <2>3, OOther
  <2>4. QED
    BY <1>8, <2>1, <2>2, <2>3 DEF Receiver
<1>9. QED
  BY <1>5, <1>6, <1>7, <1>8 DEF Next

\* A Spanner source of one table and one partition: what a resume at its saved commit
\* timestamp leaves out, from where its first stream began, is in the sink, or was
\* dropped by itself, so that the resume skips nothing (spanner.py:117-139, 250-265,
\* engine.py:322-325).
THEOREM OffsetSafe == Spec => []OffsetCoversWritten
<1>1. Init => BaseInv /\ OffsetInv
  BY BInit, OInit
<1>2. (BaseInv /\ OffsetInv) /\ [Next]_vars => (BaseInv /\ OffsetInv)'
  BY BStep, OStep
<1>3. BaseInv /\ OffsetInv => OffsetCoversWritten
  <2> SUFFICES ASSUME BaseInv, OffsetInv, kind = "spanner", Cardinality(tables) = 1, ~split
               PROVE  \A t \in tables : Covered(t)
    BY DEF OffsetCoversWritten, Covered, Owed
  <2>1. Lone
    BY ALone DEF Lone
  <2>2. QED
    BY <2>1 DEF OffsetInv, Resumable
<1>4. QED
  BY <1>1, <1>2, <1>3, PTL DEF Spec

=============================================================================
