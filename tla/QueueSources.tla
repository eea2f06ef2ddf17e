---------------------------- MODULE QueueSources ----------------------------
(***************************************************************************)
(* The sources whose table streams are fed by one receiver through queues  *)
(* in memory: PostgreSQL (a replication thread), CockroachDB (a changefeed *)
(* thread), Spanner (a change stream thread) and Debezium (an HTTP handler *)
(* and one queue for all tables).  The module shows what becomes of a      *)
(* change between the database and the sink: who has promised it to whom   *)
(* when a queue is full, a table registers late, a thread or the process   *)
(* ends, and from where reading resumes.                                   *)
(*                                                                         *)
(* The database's log is 1..head, change c belongs to Table[c] and is a    *)
(* row of its own.  A timestamp is the number of the last change committed *)
(* by then, so the changes of one transaction share Stamp[c].  A flush is  *)
(* one step here and always succeeds: TableWorker models its inside.       *)
(* The source, the tables configured for it and, for Spanner, whether its  *)
(* change stream has two partitions are chosen in Init (two partitions only *)
(* with one table, to bound the state space).                               *)
(***************************************************************************)
EXTENDS Integers, Sequences, FiniteSets

CONSTANTS
    Kinds,       \* the sources to consider
    Tables,      \* tables that may be configured
    NChanges,    \* bound: changes the database ever commits
    NShared,     \* bound: those it commits for two tables, but for PostgreSQL
    Table,       \* Table[c]: the table of change c
    Stamp,       \* Stamp[c]: its commit timestamp, the last change of its transaction
    Partition,   \* Partition[c]: the partition of c in a split Spanner stream
    QueueSize    \* 500 (PostgreSQL) or 10000 (the others)

Changes == 1..NChanges
Shared == "shared"   \* the one queue of Debezium

\* What a queue holds: a change and the offset its event carries.
Event(c, o) == [change |-> c, offset |-> o]
Sentinel == Event(0, 0)   \* the None that ends a PostgreSQL stream

ASSUME ConstantsAssumption ==
    /\ Kinds \subseteq {"postgres", "debezium", "cockroachdb", "spanner"}
    /\ IsFiniteSet(Tables)
    /\ NChanges \in Nat /\ NShared \in 0..NChanges
    /\ Table \in [Changes -> Tables]
    /\ Stamp \in [Changes -> Changes]
    /\ \A c \in Changes : c <= Stamp[c] /\ Stamp[Stamp[c]] = Stamp[c]
    /\ \A c, d \in Changes : c <= d => Stamp[c] <= Stamp[d]
    /\ Partition \in [Changes -> {1, 2}]
    /\ QueueSize \in Nat \ {0}

VARIABLES
    kind,        \* the source's type
    tables,      \* its configured tables, a worker for each
    split,       \* the Spanner stream has two partitions
    head,        \* changes committed at the database so far
    confirmed,   \* what the server will not send again (slot; Debezium's own offset)
    offset,      \* offset[t]: the offset store's row, 0 for none or "snap:done"
    written,     \* changes in the sink
    queue,       \* queue[t] or queue["shared"]
    registered,  \* keys of _table_queues
    worker,      \* worker[t]: where the thread of table t is
    batch,       \* batch[t]: its batch
    last,        \* last[t]: the offset of the last event it received in this stream
    reader,      \* reader[t]: the receiving thread that t's stream() started
    covers,      \* covers[t]: the tables of its changefeed, or that its last loop lists
    from,        \* from[t]: the earliest timestamp that thread asked for
    scan,        \* scan[t]: the timestamp of its initial scan, 0 for none
    sent,        \* sent[t]: the changes it has been sent
    lane,        \* lane[t]: the partition that thread reads; 3: none is left
    told,        \* tables whose queue has been given the sentinel
    stale,       \* a previous engine's replication thread still owns the slot
    lost,        \* history: changes dropped by a full queue or as unreadable
    since        \* history: promises about t begin after this change

service == <<kind, tables, split>>
position == <<from, scan, sent, lane>>
volatile == <<queue, registered, worker, batch, last, reader, covers, position, told>>
vars == <<service, volatile, head, confirmed, offset, written, stale, lost, since>>

WorkerStates == {"off", "open", "starting", "stream", "ended"}
ReaderStates == {"none", "connecting", "running", "ending", "ended"}

QueueOf(t) == IF kind = "debezium" THEN Shared ELSE t
\* PostgreSQL events carry no offset and Debezium's is never read back.
SavesOffset == kind \in {"cockroachdb", "spanner"}

HasRoom(q) == Len(queue[q]) < QueueSize
Put(q, e) == queue' = [queue EXCEPT ![q] = Append(@, e)]
InQueue(q) == {queue[q][i].change : i \in 1..Len(queue[q])}
Held(t) == InQueue(QueueOf(t)) \union batch[t]
Alive == \E t \in Tables : reader[t] \in {"connecting", "running", "ending"}

-----------------------------------------------------------------------------
NewProcess ==
    /\ queue = [q \in Tables \union {Shared} |-> <<>>]
    /\ registered = {}
    /\ worker = [t \in Tables |-> "off"]
    /\ batch = [t \in Tables |-> {}]
    /\ last = [t \in Tables |-> 0]
    /\ reader = [t \in Tables |-> "none"]
    /\ covers = [t \in Tables |-> {}]
    /\ from = [t \in Tables |-> 0]
    /\ scan = [t \in Tables |-> 0]
    /\ sent = [t \in Tables |-> {}]
    /\ lane = [t \in Tables |-> 1]
    /\ told = {}

Init ==
    /\ kind \in Kinds
    /\ tables \in SUBSET Tables \ {{}}
    /\ split \in BOOLEAN /\ (split => kind = "spanner" /\ Cardinality(tables) = 1)
    /\ head = 0 /\ confirmed = 0 /\ written = {}
    /\ offset = [t \in Tables |-> 0]
    /\ NewProcess
    /\ stale = FALSE /\ lost = {}
    /\ since = [t \in Tables |-> NChanges]

\* A transaction commits, with all its changes.
Commit ==
    /\ head < IF kind # "postgres" /\ Cardinality(tables) > 1 THEN NShared ELSE NChanges
    /\ head' = Stamp[head + 1]
    /\ UNCHANGED <<service, volatile, confirmed, offset, written, stale, lost,
                   since>>

-----------------------------------------------------------------------------
(* stream(): registering a table and starting the receiver *)

\* A table's worker calls stream(): a fresh queue replaces any earlier one.
Register(t) ==
    /\ worker[t] = "off" /\ t \in tables
    /\ worker' = [worker EXCEPT ![t] = IF kind = "debezium" THEN "stream" ELSE "open"]
    /\ registered' = registered \union {t}
    /\ queue' = IF kind = "debezium" THEN queue ELSE [queue EXCEPT ![t] = <<>>]
    /\ since' = IF kind \in {"postgres", "debezium"}
                THEN [since EXCEPT ![t] = confirmed] ELSE since
    /\ UNCHANGED <<service, batch, last, reader, covers, position, told, head,
                   confirmed, offset, written, stale, lost>>

\* The first timestamp asked for, given the offset of the table that starts the
\* thread: CockroachDB's cursor is exclusive, Spanner's start inclusive, and now
\* when there is no offset.
StartPosition(t) ==
    CASE kind = "cockroachdb" -> offset[t] + 1
      [] kind = "spanner" -> IF offset[t] = 0 THEN head + 1 ELSE offset[t]
      [] OTHER -> 0

\* A changefeed without cursor scans its tables first.
StartReader(t) ==
    /\ reader' = [reader EXCEPT ![t] = IF kind = "postgres" THEN "connecting" ELSE "running"]
    /\ covers' = IF kind = "cockroachdb" THEN [covers EXCEPT ![t] = registered] ELSE covers
    /\ from' = [from EXCEPT ![t] = StartPosition(t)]
    /\ scan' = [scan EXCEPT ![t] = IF kind = "cockroachdb" /\ offset[t] = 0 THEN head ELSE 0]
    /\ sent' = [sent EXCEPT ![t] = {}]
    /\ lane' = [lane EXCEPT ![t] = 1]

\* Under _stream_lock; _stream_started is never reset, whatever becomes of the
\* thread.
PostgresOpen(t) ==
    /\ kind = "postgres" /\ worker[t] = "open"
    /\ worker' = [worker EXCEPT ![t] = "stream"]
    /\ IF \A r \in Tables : reader[r] = "none"
       THEN StartReader(t) ELSE UNCHANGED <<reader, covers, position>>
    /\ UNCHANGED <<service, queue, registered, batch, last, told, head, confirmed,
                   offset, written, stale, lost, since>>

\* CockroachDB and Spanner: a lock made for this call alone protects nothing,
\* so the look at the thread and its start are two steps.
CheckReader(t) ==
    /\ kind \in {"cockroachdb", "spanner"} /\ worker[t] = "open"
    /\ worker' = [worker EXCEPT ![t] = IF Alive THEN "stream" ELSE "starting"]
    /\ UNCHANGED <<service, queue, registered, batch, last, reader, covers,
                   position, told, head, confirmed, offset, written, stale, lost,
                   since>>

StartThread(t) ==
    /\ worker[t] = "starting"
    /\ worker' = [worker EXCEPT ![t] = "stream"]
    /\ StartReader(t)
    /\ since' = IF kind = "spanner" /\ offset[t] = 0 THEN [since EXCEPT ![t] = head] ELSE since
    /\ UNCHANGED <<service, queue, registered, batch, last, told, head, confirmed,
                   offset, written, stale, lost>>

-----------------------------------------------------------------------------
(* The receivers *)

\* Mutation: put_nowait, and the event is given up when the queue is full.
PostgresConsumeNoWait(r) ==
    /\ kind = "postgres" /\ reader[r] = "running" /\ ~stale
    /\ confirmed < head
    /\ LET c == confirmed + 1 IN
          /\ IF Table[c] \in registered /\ HasRoom(Table[c])
             THEN Put(Table[c], Event(c, 0)) ELSE UNCHANGED queue
          /\ confirmed' = c
    /\ UNCHANGED <<service, registered, worker, batch, last, reader, covers,
                   position, told, head, offset, written, stale, lost, since>>

\* _consume: the put waits for room, an event without a queue is dropped, and
\* the slot is told that it is flushed.
PostgresConsume(r) ==
    /\ kind = "postgres" /\ reader[r] = "running" /\ ~stale
    /\ confirmed < head
    /\ LET c == confirmed + 1 IN
          /\ IF Table[c] \in registered
             THEN HasRoom(Table[c]) /\ Put(Table[c], Event(c, 0))
             ELSE UNCHANGED queue
          /\ confirmed' = c
    /\ UNCHANGED <<service, registered, worker, batch, last, reader, covers,
                   position, told, head, offset, written, stale, lost, since>>

\* The thread of an engine that was stopped in the same process: nothing closes
\* its source, it keeps the slot and fills queues nobody reads.
StaleConsume ==
    /\ stale /\ confirmed < head
    /\ confirmed' = confirmed + 1
    /\ UNCHANGED <<service, volatile, head, offset, written, stale, lost, since>>

\* PostgreSQL lets one connection use the slot.  A refused one raises outside the
\* try block: the thread is gone and no queue hears of it.
Connect(r) ==
    /\ reader[r] = "connecting"
    /\ \/ ~stale /\ reader' = [reader EXCEPT ![r] = "running"]
       \/ reader' = [reader EXCEPT ![r] = "ended"]
    /\ UNCHANGED <<service, queue, registered, worker, batch, last, covers,
                   position, told, head, confirmed, offset, written, stale, lost,
                   since>>

\* The stream is lost later; a changefeed thread just ends.
ReaderFails(r) ==
    /\ kind \in {"postgres", "cockroachdb"} /\ reader[r] = "running"
    /\ reader' = [reader EXCEPT ![r] = IF kind = "postgres" THEN "ending" ELSE "ended"]
    /\ UNCHANGED <<service, queue, registered, worker, batch, last, covers,
                   position, told, head, confirmed, offset, written, stale, lost,
                   since>>

\* Mutation: put_nowait, so a full queue gets no sentinel.
PutSentinelNoWait(r, t) ==
    /\ reader[r] = "ending" /\ t \in registered \ told
    /\ told # {} => registered = covers[r]
    /\ IF HasRoom(t) THEN Put(t, Sentinel) ELSE UNCHANGED queue
    /\ told' = told \union {t}
    /\ covers' = [covers EXCEPT ![r] = registered]
    /\ UNCHANGED <<service, registered, worker, batch, last, reader, position, head,
                   confirmed, offset, written, stale, lost, since>>

\* The sentinel waits for room in each queue in turn.  A table that registers
\* meanwhile changes the dict under the loop, which raises.
PutSentinel(r, t) ==
    /\ reader[r] = "ending" /\ t \in registered \ told
    /\ told # {} => registered = covers[r]
    /\ HasRoom(t) /\ Put(t, Sentinel)
    /\ told' = told \union {t}
    /\ covers' = [covers EXCEPT ![r] = registered]
    /\ UNCHANGED <<service, registered, worker, batch, last, reader, position, head,
                   confirmed, offset, written, stale, lost, since>>

ReaderEnds(r) ==
    /\ reader[r] = "ending"
    /\ registered \subseteq told \/ (told # {} /\ registered # covers[r])
    /\ reader' = [reader EXCEPT ![r] = "ended"]
    /\ UNCHANGED <<service, queue, registered, worker, batch, last, covers,
                   position, told, head, confirmed, offset, written, stale, lost,
                   since>>

Drop(c) == lost' = lost \union {c} /\ UNCHANGED queue

\* Mutation: the queue has no bound.
OfferUnbounded(t, e) == Put(t, e) /\ UNCHANGED lost

\* put_nowait drops the event when the queue is full; one that cannot be made into
\* an event (a query for the schema fails, a field is missing) is dropped alone.
Offer(t, e) ==
    \/ HasRoom(t) /\ Put(t, e) /\ UNCHANGED lost
    \/ Drop(e.change)

\* What the thread of r has still to be sent: the changefeed names its tables, a
\* partition has its own changes.
Sends(r, c) ==
    /\ c <= head /\ c \notin sent[r] /\ from[r] <= Stamp[c]
    /\ kind = "cockroachdb" => Table[c] \in covers[r]
    /\ kind = "spanner" => lane[r] = IF split THEN Partition[c] ELSE 1

\* Every row of an initial scan carries the timestamp of the scan.
OffsetOf(r, c) == IF c <= scan[r] THEN scan[r] ELSE Stamp[c]

\* _dispatch and _dispatch_data_change.  A Spanner partition is in the order of the
\* commits; a changefeed is so for each row only.
Dispatch(r) ==
    /\ kind \in {"cockroachdb", "spanner"} /\ reader[r] = "running"
    /\ \E c \in Changes :
          /\ Sends(r, c)
          /\ kind = "spanner" => \A d \in Changes : Sends(r, d) => c <= d
          /\ sent' = [sent EXCEPT ![r] = @ \union {c}]
          /\ IF Table[c] \in registered THEN Offer(Table[c], Event(c, OffsetOf(r, c)))
                                        ELSE UNCHANGED <<queue, lost>>
    /\ UNCHANGED <<service, registered, worker, batch, last, reader, covers, from,
                   scan, lane, told, head, confirmed, offset, written, stale,
                   since>>

\* The query of a partition ends or fails: it is not read again, and only now
\* does the thread turn to the next one.
PartitionFails(r) ==
    /\ kind = "spanner" /\ reader[r] = "running" /\ lane[r] < 3
    /\ lane' = [lane EXCEPT ![r] = IF split THEN @ + 1 ELSE 3]
    /\ UNCHANGED <<service, queue, registered, worker, batch, last, reader, covers,
                   from, scan, sent, told, head, confirmed, offset, written, stale,
                   lost, since>>

\* do_POST answers 200: Debezium goes on to its next change.  With 503 and 400
\* nothing changes here.
Post ==
    /\ kind = "debezium" /\ confirmed < head
    /\ HasRoom(Shared)
    /\ Put(Shared, Event(confirmed + 1, 0))
    /\ confirmed' = confirmed + 1
    /\ UNCHANGED <<service, registered, worker, batch, last, reader, covers,
                   position, told, head, offset, written, stale, lost, since>>

\* The answer is lost: Debezium will post the change again.
PostUnanswered ==
    /\ kind = "debezium" /\ confirmed < head
    /\ HasRoom(Shared)
    /\ Put(Shared, Event(confirmed + 1, 0))
    /\ UNCHANGED <<service, registered, worker, batch, last, reader, covers,
                   position, told, head, confirmed, offset, written, stale, lost,
                   since>>

-----------------------------------------------------------------------------
(* The workers *)

\* Mutation: the offset saved is that of the last change the reading thread was sent.
FlushReaderPosition(t, changes, o) ==
    /\ written' = written \union changes
    /\ batch' = [batch EXCEPT ![t] = {}]
    /\ offset' = IF SavesOffset /\ sent[t] # {}
                 THEN [offset EXCEPT ![t] = CHOOSE s \in Changes :
                         /\ \E c \in sent[t] : s = Stamp[c]
                         /\ \A c \in sent[t] : Stamp[c] <= s]
                 ELSE offset

FlushUpTo(t, changes, o) ==
    /\ written' = written \union changes
    /\ batch' = [batch EXCEPT ![t] = {}]
    /\ offset' = IF SavesOffset THEN [offset EXCEPT ![t] = o] ELSE offset

\* Debezium's streams drop what belongs to another table, although it has left
\* the queue for good.
Foreign(t, c) == kind = "debezium" /\ Table[c] # t

TakeForeign(t) ==
    /\ worker[t] = "stream" /\ queue[QueueOf(t)] # <<>>
    /\ LET e == Head(queue[QueueOf(t)]) IN
          /\ e # Sentinel /\ Foreign(t, e.change)
          /\ queue' = [queue EXCEPT ![QueueOf(t)] = Tail(@)]
    /\ UNCHANGED <<service, registered, worker, batch, last, reader, covers,
                   position, told, head, confirmed, offset, written, stale, lost,
                   since>>

\* Debezium's _convert raises: the event has been answered and taken, and the
\* stream goes on without it.
TakeUnreadable(t) ==
    /\ worker[t] = "stream" /\ kind = "debezium" /\ queue[Shared] # <<>>
    /\ LET e == Head(queue[Shared]) IN
          /\ e # Sentinel /\ ~Foreign(t, e.change)
          /\ queue' = [queue EXCEPT ![Shared] = Tail(@)]
          /\ lost' = lost \union {e.change}
    /\ UNCHANGED <<service, registered, worker, batch, last, reader, covers,
                   position, told, head, confirmed, offset, written, stale, since>>

\* An event joins the batch; the flush that batch_size or batch_timeout may ask
\* for follows at once.
Take(t) ==
    /\ worker[t] = "stream" /\ queue[QueueOf(t)] # <<>>
    /\ LET e == Head(queue[QueueOf(t)]) IN
          /\ e # Sentinel /\ ~Foreign(t, e.change)
          /\ queue' = [queue EXCEPT ![QueueOf(t)] = Tail(@)]
          /\ last' = [last EXCEPT ![t] = e.offset]
          /\ \/ batch' = [batch EXCEPT ![t] = @ \union {e.change}] /\ UNCHANGED <<written, offset>>
             \/ FlushUpTo(t, batch[t] \union {e.change}, e.offset)
    /\ UNCHANGED <<service, registered, worker, reader, covers, position, told,
                   head, confirmed, stale, lost, since>>

\* Mutation: heartbeats are not flushed on.
HeartbeatFlushNever(t) ==
    /\ worker[t] = "stream" /\ kind = "spanner" /\ queue[QueueOf(t)] = <<>>
    /\ batch[t] # {} /\ FlushUpTo(t, batch[t], last[t])
    /\ UNCHANGED <<service, queue, registered, worker, last, reader, covers,
                   position, told, head, confirmed, stale, lost, since>>

\* The queue stays empty for a second and the stream yields None, except
\* CockroachDB's, which yields nothing.
HeartbeatFlush(t) ==
    /\ worker[t] = "stream" /\ kind # "cockroachdb"
    /\ queue[QueueOf(t)] = <<>>
    /\ batch[t] # {}
    /\ FlushUpTo(t, batch[t], last[t])
    /\ UNCHANGED <<service, queue, registered, worker, last, reader, covers,
                   position, told, head, confirmed, stale, lost, since>>

\* After the sentinel, or when the worker notices a stop: the rest is flushed.
Leave(t) ==
    /\ worker[t] = "stream"
    /\ worker' = [worker EXCEPT ![t] = "ended"]
    /\ last' = [last EXCEPT ![t] = 0]
    /\ FlushUpTo(t, batch[t], IF batch[t] = {} THEN offset[t] ELSE last[t])
    /\ since' = IF SavesOffset THEN since ELSE [since EXCEPT ![t] = NChanges]

TakeSentinel(t) ==
    /\ queue[QueueOf(t)] # <<>> /\ Head(queue[QueueOf(t)]) = Sentinel
    /\ Leave(t)
    /\ queue' = [queue EXCEPT ![QueueOf(t)] = Tail(@)]
    /\ UNCHANGED <<service, registered, reader, covers, position, told, head,
                   confirmed, stale, lost>>

StopWorker(t) ==
    /\ Leave(t)
    /\ UNCHANGED <<service, queue, registered, reader, covers, position, told, head,
                   confirmed, stale, lost>>

\* An exception ends the thread; its queue stays registered and fills up.
WorkerDies(t) ==
    /\ worker[t] = "stream"
    /\ worker' = [worker EXCEPT ![t] = "ended"]
    /\ batch' = [batch EXCEPT ![t] = {}]
    /\ last' = [last EXCEPT ![t] = 0]
    /\ since' = IF SavesOffset THEN since ELSE [since EXCEPT ![t] = NChanges]
    /\ UNCHANGED <<service, queue, registered, reader, covers, position, told, head,
                   confirmed, offset, written, stale, lost>>

-----------------------------------------------------------------------------
NewObjects ==
    /\ registered' = {} /\ told' = {}
    /\ worker' = [t \in Tables |-> "off"]
    /\ queue' = [q \in Tables \union {Shared} |-> <<>>]
    /\ batch' = [t \in Tables |-> {}]
    /\ last' = [t \in Tables |-> 0]
    /\ reader' = [t \in Tables |-> "none"]
    /\ covers' = [t \in Tables |-> {}]
    /\ from' = [t \in Tables |-> 0]
    /\ scan' = [t \in Tables |-> 0]
    /\ sent' = [t \in Tables |-> {}]
    /\ lane' = [t \in Tables |-> 1]
    /\ since' = IF SavesOffset THEN since ELSE [t \in Tables |-> NChanges]

\* Stop and start in one process: a new source object, while the old one is never
\* closed.  With Debezium the port is still taken and the new engine fails.
RestartEngine ==
    /\ kind # "debezium"
    /\ \A t \in tables : worker[t] = "ended"
    /\ NewObjects
    /\ stale' = (stale \/ (kind = "postgres" /\ Alive))
    /\ UNCHANGED <<service, head, confirmed, offset, written, lost>>

RestartProcess ==
    /\ \E t \in tables : worker[t] # "off"
    /\ NewObjects
    /\ stale' = FALSE
    /\ UNCHANGED <<service, head, confirmed, offset, written, lost>>

Receiver(r) ==
    \/ Connect(r) \/ PostgresConsume(r) \/ ReaderEnds(r) \/ Dispatch(r)
    \/ \E t \in Tables : PutSentinel(r, t)

WorkerStep(t) ==
    \/ PostgresOpen(t) \/ CheckReader(t) \/ StartThread(t)
    \/ Take(t) \/ TakeForeign(t) \/ TakeUnreadable(t) \/ HeartbeatFlush(t) \/ TakeSentinel(t)

Next ==
    \/ Commit \/ Post \/ PostUnanswered \/ StaleConsume \/ RestartEngine \/ RestartProcess
    \/ \E t \in Tables :
          \/ Register(t) \/ WorkerStep(t) \/ StopWorker(t) \/ WorkerDies(t)
          \/ Receiver(t) \/ ReaderFails(t) \/ PartitionFails(t)

Spec == Init /\ [][Next]_vars

\* Threads that exist run, and of Debezium's posts that find room one is answered
\* at last; nothing else is promised.
FairSpec ==
    /\ Spec
    /\ \A t \in Tables : WF_vars(Receiver(t)) /\ WF_vars(WorkerStep(t))
    /\ SF_vars(Post)

-----------------------------------------------------------------------------
(* Properties *)

Events == [change : Changes, offset : 0..NChanges] \union {Sentinel}

\* Every variable keeps its type, and no queue grows beyond its size.
TypeOK ==
    /\ kind \in Kinds /\ tables \subseteq Tables /\ split \in BOOLEAN
    /\ head \in 0..NChanges /\ confirmed \in 0..head /\ written \subseteq 1..head
    /\ offset \in [Tables -> 0..NChanges]
    /\ \A q \in DOMAIN queue : queue[q] \in Seq(Events) /\ Len(queue[q]) <= QueueSize
    /\ registered \subseteq tables /\ told \subseteq registered
    /\ worker \in [Tables -> WorkerStates] /\ reader \in [Tables -> ReaderStates]
    /\ batch \in [Tables -> SUBSET Changes] /\ last \in [Tables -> 0..NChanges]
    /\ covers \in [Tables -> SUBSET tables] /\ from \in [Tables -> 0..NChanges + 1]
    /\ scan \in [Tables -> 0..NChanges] /\ sent \in [Tables -> SUBSET Changes]
    /\ lane \in [Tables -> 1..3] /\ since \in [Tables -> 0..NChanges]
    /\ stale \in BOOLEAN /\ lost \subseteq Changes

\* PostgreSQL and Debezium are told that a change has arrived when it is only in
\* memory.  From then on, and for as long as the table's worker lives, it is in
\* the queue, in the batch or in the sink: a full queue makes the sender wait,
\* it drops nothing.  The one exception is an event of Debezium that cannot be
\* converted.  (Two tables of one Debezium source take events from each other; a
\* slot held by a previous engine's thread is read by nobody.)
AcknowledgedIsHeld ==
    \/ (kind = "postgres" /\ ~stale)
    \/ (kind = "debezium" /\ Cardinality(tables) = 1)
    => \A t \in tables : \A c \in Changes :
            Table[c] = t /\ since[t] < c /\ c <= confirmed =>
                \/ c \in Held(t) \union written
                \/ kind = "debezium" /\ c \in lost

\* Spanner resumes at the saved commit timestamp: with one table and one partition,
\* whatever a stream resumed there is not sent again has been written since the
\* first stream began, or was dropped by itself, whatever crashed or ended.  (A
\* CockroachDB offset promises nothing of the kind: see README.md.)
OffsetCoversWritten ==
    kind = "spanner" /\ Cardinality(tables) = 1 /\ ~split =>
        \A t \in tables : \A c \in Changes :
            Table[c] = t /\ since[t] < c /\ Stamp[c] < offset[t] => c \in written \union lost

OneReader == Cardinality({r \in Tables : reader[r] # "none"}) <= 1

\* The receiver serves change c: it is, or will be, read and has somewhere to go.
Listening(c) ==
    /\ c <= head /\ worker[Table[c]] = "stream" /\ OneReader
    /\ CASE kind = "debezium" -> Cardinality(tables) = 1 /\ confirmed < c
         [] kind = "postgres" -> confirmed < c /\ ~stale /\ \E r \in Tables : reader[r] = "running"
         [] OTHER -> \E r \in Tables : reader[r] = "running" /\ Sends(r, c)

Interrupted(c) ==
    \/ \E t \in tables : worker[t] \in {"off", "ended"}
    \/ stale \/ ~OneReader
    \/ (kind # "debezium" /\ \A r \in Tables : reader[r] # "running")
    \/ (kind = "spanner" /\ \E r \in Tables :
            reader[r] = "running" /\ lane[r] # (IF split THEN Partition[c] ELSE 1))

\* A change the receiver can read reaches the sink (or, where nothing but the
\* next change makes the worker flush, its batch) or is itself dropped, unless one
\* of the source's workers has ended: a single full queue holds up all its tables.
EveryTableServed ==
    \A c \in Changes :
        Listening(c) ~> \/ c \in written \union lost
                        \/ kind = "cockroachdb" /\ c \in batch[Table[c]]
                        \/ Interrupted(c)

\* When a replication stream is lost after every table has registered, every
\* worker's stream ends, so that the engine sees it: the sentinel waits behind a
\* full queue.  Only a worker that ended before can hold it up.
LossEndsStreams ==
    \A t \in Tables :
        /\ \E r \in Tables : reader[r] = "ending"
        /\ registered = tables /\ told = {} /\ worker[t] = "stream"
        ~> \/ worker[t] # "stream"
           \/ \E u \in tables : worker[u] = "ended" /\ u \notin told
=============================================================================
