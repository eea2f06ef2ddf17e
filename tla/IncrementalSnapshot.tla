------------------------- MODULE IncrementalSnapshot -------------------------
(***************************************************************************)
(* The first copy of a table in chunks, as TableWorker._run_incremental_-  *)
(* snapshot takes it: rows ordered by a cursor column, the value of the    *)
(* last one saved as the offset "snap:<column>:<value>" after each chunk,  *)
(* "snap:done" at the end.  The table changes meanwhile, the process may   *)
(* crash or be stopped between any two steps, the configured cursor column *)
(* may be another at the next start, and reading the schema may fail.      *)
(*                                                                         *)
(* The value becomes text on its way, and the database compares the column *)
(* with the text: it may read it back as the value, refuse it, or find     *)
(* nothing above it, and NULL becomes the word None.                       *)
(*                                                                         *)
(* Rows are numbers, which is also the order of a document's _id: for      *)
(* MongoDB a column whose values are the rows themselves stands for _id.   *)
(***************************************************************************)
EXTENDS Integers, FiniteSets

CONSTANTS
    Rows,         \* rows the table may have
    Columns,      \* columns that may serve as cursor
    Val,          \* Val[col][r]: the row's value in that column, or None
    ChunkSize,    \* snapshot_chunk_size
    MaxCrashes,   \* bound: crashes and stops
    MaxChanges,   \* bound: rows inserted and deleted
    Kinds         \* the databases to consider

None == -1    \* NULL, or a field the document lacks; in a cursor, the word None
Before == -2  \* no value yet: a first chunk has no lower bound

ASSUME ConstantsAssumption ==
    /\ Rows \subseteq Nat /\ IsFiniteSet(Rows)
    /\ Val \in [Columns -> [Rows -> Nat \union {None}]]
    /\ ChunkSize \in Nat \ {0}
    /\ MaxCrashes \in Nat /\ MaxChanges \in Nat
    /\ Kinds \subseteq {"mysql", "postgres", "mongodb"}

VARIABLES
    kind,       \* "mysql" also for MariaDB and SQL Server, "postgres" for Oracle
    castable,   \* columns whose values their text is read back as
    columns,    \* columns the table has
    configured, \* the column options or the primary key name
    table,      \* rows now in the table
    steady,     \* history: rows there since before the snapshot began
    pc,         \* where the worker is
    col, last,  \* cursor_col and last_val
    chunk, end, \* the chunk read and its last row
    saved,      \* the offset store's row: kind, column, value
    sink, parked,
    mixed,      \* history: a chunk was read by a value of another column, or
                \* above values that the word None is greater than
    fellBack,   \* history: no cursor column was found
    crashes, changes

service == <<kind, castable>>
worker == <<pc, col, last, chunk, end>>
vars == <<service, columns, configured, table, steady, worker, saved, sink, parked,
          mixed, fellBack, crashes, changes>>

NoOffset == [kind |-> "none", col |-> CHOOSE c \in Columns : TRUE, val |-> Before]
Cursor(c, v) == [kind |-> "cursor", col |-> c, val |-> v]
Done == [NoOffset EXCEPT !.kind = "done"]
Streamed == [NoOffset EXCEPT !.kind = "stream"]

ControlPoints == {"off", "chunk", "flush", "save", "stream", "error"}
Delivered == sink \union parked

-----------------------------------------------------------------------------
Init ==
    /\ kind \in Kinds /\ castable \in SUBSET Columns
    /\ columns = Columns /\ configured \in Columns
    /\ table \in SUBSET Rows /\ steady = table
    /\ pc = "off" /\ col = configured /\ last = Before
    /\ chunk = {} /\ end \in Rows
    /\ saved = NoOffset
    /\ sink = {} /\ parked = {}
    /\ mixed = FALSE /\ fellBack = FALSE /\ crashes = 0 /\ changes = 0

(* The database and the operator *)

InsertRow ==
    /\ changes < MaxChanges /\ changes' = changes + 1
    /\ \E r \in Rows \ table : table' = table \union {r}
    /\ UNCHANGED <<service, columns, configured, steady, worker, saved, sink, parked,
                   mixed, fellBack, crashes>>

DeleteRow ==
    /\ changes < MaxChanges /\ changes' = changes + 1
    /\ \E r \in table : table' = table \ {r} /\ steady' = steady \ {r}
    /\ UNCHANGED <<service, columns, configured, worker, saved, sink, parked,
                   mixed, fellBack, crashes>>

\* ALTER TABLE: a column that is not the key goes.
DropColumn ==
    /\ \E c \in columns \ {configured} : columns' = columns \ {c}
    /\ UNCHANGED <<service, configured, table, steady, worker, saved, sink, parked,
                   mixed, fellBack, crashes, changes>>

\* snapshot_cursor_column is edited; it takes effect at the next start.
Configure ==
    /\ pc = "off"
    /\ configured' \in columns
    /\ UNCHANGED <<service, columns, table, steady, worker, saved, sink, parked,
                   mixed, fellBack, crashes, changes>>

-----------------------------------------------------------------------------
(* TableWorker.run and _run_incremental_snapshot *)

\* The saved column if the table still has it, else the configured one.
ResumeColumn ==
    IF saved.kind = "cursor" /\ saved.col \in columns THEN saved.col ELSE configured

\* Mutation: a resumed snapshot begins at the first row.
StartAnew ==
    /\ pc = "off" /\ saved.kind \in {"none", "cursor"}
    /\ pc' = "chunk"
    /\ col' \in {ResumeColumn, configured} /\ last' = Before
    /\ mixed' = (mixed \/ (saved.kind = "cursor" /\ saved.col # col'))
    /\ UNCHANGED <<service, columns, configured, table, steady, chunk, end, saved, sink,
                   parked, fellBack, crashes, changes>>

\* The value that was saved is kept even where its column is not, because it is
\* gone or because the schema could not be read.
Start ==
    /\ pc = "off" /\ saved.kind \in {"none", "cursor"}
    /\ pc' = "chunk"
    /\ col' \in {ResumeColumn, configured} /\ last' = saved.val
    /\ mixed' = (mixed \/ (saved.kind = "cursor" /\ saved.col # col'))
    /\ UNCHANGED <<service, columns, configured, table, steady, chunk, end, saved, sink,
                   parked, fellBack, crashes, changes>>

\* The snapshot has been taken, or a stream has saved its own offset.
StartStreaming ==
    /\ pc = "off" /\ saved.kind \in {"done", "stream"}
    /\ pc' = "stream"
    /\ UNCHANGED <<service, columns, configured, table, steady, col, last, chunk, end,
                   saved, sink, parked, mixed, fellBack, crashes, changes>>

\* get_pk_column swallows any exception of get_schema: without a cursor column
\* every row is read and none is kept, no offset is saved, streaming begins.
StartWithoutColumn ==
    /\ pc = "off" /\ saved.kind \in {"none", "cursor"}
    /\ pc' = "stream" /\ fellBack' = TRUE
    /\ UNCHANGED <<service, columns, configured, table, steady, col, last, chunk, end,
                   saved, sink, parked, mixed, crashes, changes>>

\* What the text of v may mean in a comparison: the word None is 0 to MySQL's numbers
\* and has a place among texts.
Bounds(c, v) == IF v = None THEN {None} \union {Val[c][r] : r \in Rows} ELSE {v}

\* WHERE col > text: NULL is never greater, and a number of MongoDB's is not compared
\* with a text at all.
Selects(c, b, r) == b < Val[c][r] /\ (b = Before \/ c \in castable)

\* Mutation: rows equal to the last one are taken again.
CandidatesFrom(c, b) == {r \in table : b <= Val[c][r] /\ (b = Before \/ c \in castable)}

Candidates(c, b) == {r \in table : Selects(c, b, r)}

\* Row r may come before row q: MongoDB sorts by _id whatever the cursor, MySQL puts
\* NULL first, PostgreSQL last.
Precedes(c, r, q) ==
    CASE kind = "mongodb" -> r <= q
      [] kind = "mysql" -> Val[c][r] <= Val[c][q]
      [] OTHER -> Val[c][q] = None \/ (Val[c][r] # None /\ Val[c][r] <= Val[c][q])

\* The ChunkSize first candidates, rows that tie in any order.
IsChunk(rows, lastRow, c, b) ==
    /\ rows \subseteq Candidates(c, b) /\ lastRow \in rows
    /\ Cardinality(rows) <= ChunkSize
    /\ rows # Candidates(c, b) => Cardinality(rows) = ChunkSize
    /\ \A r \in rows : Precedes(c, r, lastRow)
    /\ \A r \in Candidates(c, b) \ rows : Precedes(c, lastRow, r)

\* SQL refuses a text that it cannot make a value of the column.
Refused(c, v) == kind # "mongodb" /\ v # Before /\ c \notin castable

ReadChunk ==
    /\ pc = "chunk" /\ col \in columns /\ ~Refused(col, last)
    /\ \E b \in Bounds(col, last), rows \in SUBSET table : \E r \in rows :
          /\ IsChunk(rows, r, col, b)
          /\ chunk' = rows /\ end' = r
          /\ mixed' = (mixed \/ b # last)
    /\ pc' = "flush"
    /\ UNCHANGED <<service, columns, configured, table, steady, col, last, saved, sink,
                   parked, fellBack, crashes, changes>>

\* The query names a column that is gone or has a text it refuses, such as the word
\* None for a number: the worker ends.
QueryFails ==
    /\ pc = "chunk"
    /\ col \notin columns \/ Refused(col, last) \/ (last = None /\ kind # "mongodb")
    /\ pc' = "error"
    /\ UNCHANGED <<service, columns, configured, table, steady, col, last, chunk, end,
                   saved, sink, parked, mixed, fellBack, crashes, changes>>

\* Mutation: a chunk that fails is not parked.
FlushChunkLoses ==
    /\ pc = "flush"
    /\ sink' \in {sink, sink \union chunk}
    /\ pc' = "save"
    /\ UNCHANGED <<service, columns, configured, table, steady, col, last, chunk, end,
                   saved, parked, mixed, fellBack, crashes, changes>>

\* _flush writes the chunk, or parks it when that fails.
FlushChunk ==
    /\ pc = "flush"
    /\ \/ sink' = sink \union chunk /\ UNCHANGED parked
       \/ parked' = parked \union chunk /\ UNCHANGED sink
    /\ pc' = "save"
    /\ UNCHANGED <<service, columns, configured, table, steady, col, last, chunk, end,
                   saved, mixed, fellBack, crashes, changes>>

\* str(after.get(cursor_col, last_val)): a field that is missing leaves the value, which
\* only the first chunk can have, None.
SaveProgress ==
    /\ pc = "save"
    /\ last' = Val[col][end]
    /\ saved' = Cursor(col, Val[col][end])
    /\ pc' = "chunk" /\ chunk' = {}
    /\ UNCHANGED <<service, columns, configured, table, steady, col, end, sink, parked,
                   mixed, fellBack, crashes, changes>>

\* Mutation: a chunk that is not full counts as the last one.
FinishEarly ==
    /\ pc = "chunk" /\ col \in columns /\ ~Refused(col, last)
    /\ \E b \in Bounds(col, last) :
          Cardinality(Candidates(col, b)) < ChunkSize /\ mixed' = (mixed \/ b # last)
    /\ saved' = Done /\ pc' = "stream"
    /\ UNCHANGED <<service, columns, configured, table, steady, col, last, chunk, end, sink,
                   parked, fellBack, crashes, changes>>

\* An empty chunk.
Finish ==
    /\ pc = "chunk" /\ col \in columns /\ ~Refused(col, last)
    /\ \E b \in Bounds(col, last) : Candidates(col, b) = {} /\ mixed' = (mixed \/ b # last)
    /\ saved' = Done /\ pc' = "stream"
    /\ UNCHANGED <<service, columns, configured, table, steady, col, last, chunk, end, sink,
                   parked, fellBack, crashes, changes>>

\* The first batch of the stream is flushed with its offset.
StreamSaves ==
    /\ pc = "stream" /\ saved' = Streamed /\ saved # Streamed
    /\ UNCHANGED <<service, columns, configured, table, steady, worker, sink, parked,
                   mixed, fellBack, crashes, changes>>

\* The stop flag is looked at between chunks only.
Stop ==
    /\ pc \in {"chunk", "stream"} /\ crashes < MaxCrashes
    /\ pc' = "off" /\ crashes' = crashes + 1
    /\ UNCHANGED <<service, columns, configured, table, steady, col, last, chunk, end,
                   saved, sink, parked, mixed, fellBack, changes>>

\* A crash anywhere, or a worker that ended with an error, started anew.
Crash ==
    /\ pc # "off" /\ crashes < MaxCrashes
    /\ pc' = "off" /\ crashes' = crashes + 1 /\ chunk' = {}
    /\ UNCHANGED <<service, columns, configured, table, steady, col, last, end, saved, sink,
                   parked, mixed, fellBack, changes>>

WorkerStep ==
    \/ Start \/ StartStreaming \/ StartWithoutColumn
    \/ ReadChunk \/ QueryFails \/ FlushChunk \/ SaveProgress \/ Finish \/ StreamSaves

Next ==
    \/ InsertRow \/ DeleteRow \/ DropColumn \/ Configure
    \/ WorkerStep \/ Stop \/ Crash

Spec == Init /\ [][Next]_vars

\* The worker runs whenever it can.
FairSpec == Spec /\ WF_vars(WorkerStep)

-----------------------------------------------------------------------------
(* Properties *)

Offsets == [kind : {"none", "cursor", "done", "stream"}, col : Columns, val : Nat \union {None, Before}]

\* Every variable keeps its type.
TypeOK ==
    /\ kind \in Kinds /\ castable \subseteq Columns /\ columns \subseteq Columns /\ configured \in columns
    /\ table \subseteq Rows /\ steady \subseteq table
    /\ pc \in ControlPoints /\ col \in Columns /\ last \in Nat \union {None, Before}
    /\ chunk \subseteq Rows /\ end \in Rows
    /\ saved \in Offsets
    /\ sink \subseteq Rows /\ parked \subseteq Rows
    /\ mixed \in BOOLEAN /\ fellBack \in BOOLEAN
    /\ crashes \in Nat /\ changes \in Nat

\* The column sorts as the query does, and its text stands for its values.
Trusted(c) ==
    /\ c \in castable
    /\ \A r, q \in Rows : None \notin {Val[c][r], Val[c][q]} /\ Precedes(c, r, q) =>
                            Val[c][r] <= Val[c][q]

\* Row r has a value in column c that no other row has.
Distinct(c, r) == Val[c][r] # None /\ \A q \in Rows \ {r} : Val[c][q] # Val[c][r]

\* What is not above value v of column c has been delivered.
CoveredUpTo(c, v) ==
    \A r \in steady : Distinct(c, r) /\ ~Selects(c, v, r) => r \in Delivered

\* A saved cursor stands for rows that are in the sink or parked: a restart skips
\* none of them, wherever the crash fell.  The exceptions are rows whose value is NULL
\* or shared with another row, a value that belongs to a column of an earlier
\* configuration, the word None for a NULL at the end of the first chunk, MongoDB
\* collections filtered by a column they are not sorted by, and columns that their
\* values' text is not compared with.
CursorIsCovered ==
    saved.kind = "cursor" /\ ~mixed /\ Trusted(saved.col) => CoveredUpTo(saved.col, saved.val)

\* When the snapshot counts as done, or a stream has begun to save offsets, every
\* row that was there throughout is in the sink or parked, unless besides those
\* exceptions the cursor column could not be found.
SnapshotComplete ==
    /\ saved.kind \in {"done", "stream"} /\ ~mixed /\ ~fellBack /\ Trusted(col)
    => \A r \in steady : Distinct(col, r) => r \in Delivered

\* The saved cursor never moves back within a column: a resumed snapshot goes on
\* where the last one ended.
CursorAdvances ==
    [][saved.kind = "cursor" /\ saved'.kind = "cursor" /\ saved.col = saved'.col
       => saved.val <= saved'.val]_vars

\* A snapshot that is not interrupted any more ends, although rows are inserted
\* and chunks fail meanwhile.
SnapshotEnds == <>[](pc \in {"stream", "error"})
=============================================================================
