----------------------------- MODULE LogReaders -----------------------------
(***************************************************************************)
(* The sources whose streams read a log in portions: Oracle mines a window *)
(* of SCNs, SQL Server queries a window of LSNs, Datastream reads one file *)
(* of a bucket after the other, DynamoDB one shard after the other.  The    *)
(* module shows which rows such a stream yields, in one life and across    *)
(* crashes, when transactions span windows, files arrive late or cannot be *)
(* read, shards stay open and old log is purged.                           *)
(*                                                                         *)
(* The log is a sequence of entries; a row's number is its index.  What the *)
(* worker does with the rows is one step here: Save writes what was yielded *)
(* and stores the offset of the last row, as TableWorker shows in detail.  *)
(***************************************************************************)
EXTENDS Integers, Sequences, FiniteSets, SequencesExt, SortedSets

CONSTANTS
    Kinds,      \* the sources to consider
    Sequenced,  \* the choices for sequenced, below
    MaxLog,     \* bound: entries of the log
    MaxUnit     \* bound: transactions, files or shards

ASSUME ConstantsAssumption ==
    /\ Kinds \subseteq {"oracle", "sqlserver", "datastream", "dynamodb"}
    /\ Sequenced \subseteq BOOLEAN
    /\ MaxLog \in Nat /\ MaxUnit \in Nat \ {0}

Units == 1..MaxUnit

VARIABLES
    kind,       \* the source's type
    sequenced,  \* Datastream records carry a sequence number, which is what is saved
    pathsAbove, \* and that number sorts below the paths of the files
    log,        \* entries [unit, row]; Oracle's others are commits
    closed,     \* DynamoDB: shards that end; the others are still written to
    floor,      \* what is below has been purged from the database's log
    up,         \* a stream is open
    cursor,     \* current_scn, current_lsn, last_file, or the shard being read
    start,      \* where the last window began; DynamoDB: the offset stream() was given
    listed,     \* DynamoDB: shards the stream knows; Datastream: files still to read
    fetched,    \* rows read and not yet yielded
    yielded,    \* rows yielded and not yet saved
    seen,       \* history: rows this stream has yielded
    offset,     \* the row whose offset is saved; 0 for none
    written,    \* rows in the sink
    since,      \* history: the first offset-less stream began here
    excused     \* history: rows lost by one of the ways named below

service == <<kind, sequenced, pathsAbove>>
database == <<log, closed, floor>>
session == <<up, cursor, start, listed, fetched, yielded, seen>>
vars == <<service, database, session, offset, written, since, excused>>

Indices == 1..Len(log)
RowsNow == {i \in Indices : log[i].row}
Unit(i) == log[i].unit
LastUnit == IF log = <<>> THEN 0 ELSE log[Len(log)].unit
InUnit(u) == {i \in RowsNow : Unit(i) = u}

\* The value a row's offset is made of.
Position(i) == IF kind = "oracle" THEN i ELSE Unit(i)
Head0 == IF kind = "oracle" THEN Len(log) ELSE LastUnit
Committed(i) == kind = "oracle" => \E j \in Indices : ~log[j].row /\ Unit(j) = Unit(i)
LastOf(s) == s[Len(s)]

-----------------------------------------------------------------------------
Init ==
    /\ kind \in Kinds
    /\ sequenced \in Sequenced /\ (sequenced => kind = "datastream")
    /\ pathsAbove \in BOOLEAN /\ (pathsAbove => sequenced)
    /\ log = <<>> /\ closed = {} /\ floor = 0
    /\ up = FALSE /\ cursor = 0 /\ start = 0 /\ listed = <<>>
    /\ fetched = <<>> /\ yielded = <<>> /\ seen = {}
    /\ offset = 0 /\ written = {} /\ since = 0 /\ excused = {}

-----------------------------------------------------------------------------
(* The services *)

Append2(u, n, isRow) == log' = log \o [i \in 1..n |-> [unit |-> u, row |-> isRow]]
Exists(u) == \E i \in Indices : Unit(i) = u

\* Oracle: a transaction writes a row or commits.
OracleLogs ==
    /\ kind = "oracle" /\ Len(log) < MaxLog
    /\ \E u \in Units : \E isRow \in BOOLEAN :
          /\ ~\E i \in Indices : Unit(i) = u /\ ~log[i].row
          /\ isRow \/ Exists(u)
          /\ Append2(u, 1, isRow)
    /\ UNCHANGED <<service, closed, floor, session, offset, written, since, excused>>

\* SQL Server: the capture job adds all rows of a transaction under one LSN.
SQLServerCaptures ==
    /\ kind = "sqlserver" /\ LastUnit < MaxUnit
    /\ \E n \in 1..2 : Len(log) + n <= MaxLog /\ Append2(LastUnit + 1, n, TRUE)
    /\ UNCHANGED <<service, closed, floor, session, offset, written, since, excused>>

\* Datastream: a file appears with all its records, not always in the order of
\* the names.  One whose name the reader has passed is never listed again.
FileArrives ==
    /\ kind = "datastream"
    /\ \E u \in Units, n \in 1..2 :
          /\ ~Exists(u) /\ Len(log) + n <= MaxLog
          /\ Append2(u, n, TRUE)
          /\ excused' = IF \/ u <= cursor
                           \/ listed # <<>> /\ u < LastOf(listed)
                           \/ offset # 0 /\ u < Unit(offset)
                        THEN excused \union ((Len(log) + 1)..(Len(log) + n)) ELSE excused
    /\ UNCHANGED <<service, closed, floor, session, offset, written, since>>

\* DynamoDB: a record is added to an open shard, or the shard is split and a
\* later one takes its place.
ShardGrows ==
    /\ kind = "dynamodb" /\ Len(log) < MaxLog
    /\ \E u \in Units \ closed : Append2(u, 1, TRUE)
    /\ UNCHANGED <<service, closed, floor, session, offset, written, since, excused>>

ShardCloses ==
    /\ kind = "dynamodb"
    /\ \E u \in Units \ closed : closed' = closed \union {u}
    /\ UNCHANGED <<service, log, floor, session, offset, written, since, excused>>

\* The CDC cleanup job, or the removal of archived logs.
Purge ==
    /\ kind \in {"oracle", "sqlserver"}
    /\ floor < Head0 /\ floor' = floor + 1
    /\ excused' = excused \union {i \in RowsNow : Position(i) < floor + 1 /\ i \notin written}
    /\ UNCHANGED <<service, log, closed, session, offset, written, since>>

-----------------------------------------------------------------------------
(* stream() *)

\* The file and record number saved, if that is what was saved.
SavedFile == IF offset = 0 \/ sequenced THEN 0 ELSE Unit(offset)

\* A sequence number is taken for the name of a file wholly processed.
SkipsAll == sequenced /\ offset # 0 /\ ~pathsAbove

\* The records of a file.  One that cannot be converted is skipped alone and the next
\* one's offset passes it; of a file that cannot be read all are.
ReadRecords(rows) ==
    \E readable \in SUBSET rows :
        fetched' = Sorted(readable) /\ excused' = excused \union (rows \ readable)

\* Oracle without an offset opens at CURRENT_SCN, SQL Server at the lowest LSN.
Open ==
    /\ ~up /\ up' = TRUE
    /\ start' = offset
    /\ cursor' = CASE kind = "oracle" -> IF offset = 0 THEN Len(log) ELSE offset
                   [] kind = "sqlserver" -> IF offset = 0 THEN floor ELSE Unit(offset)
                   [] kind = "datastream" -> IF SkipsAll THEN MaxUnit ELSE SavedFile
                   [] OTHER -> 1
    /\ since' = IF offset = 0 /\ kind \in {"oracle", "sqlserver"} THEN cursor' ELSE since
    /\ listed' = IF kind = "dynamodb" THEN Sorted({Unit(i) : i \in Indices} \union {1}) ELSE <<>>
    /\ ReadRecords({i \in RowsNow : kind = "datastream" /\ Unit(i) = SavedFile /\ i > offset})
    /\ UNCHANGED <<service, database, yielded, seen, offset, written>>

\* Mutation: the window starts behind the last one.
WindowAfter(low, high) ==
    {i \in RowsNow : low < Position(i) /\ Position(i) <= high /\ Committed(i)}

\* Mutation: every window begins with the log.
WindowWhole(low, high) == {i \in RowsNow : since <= Position(i) /\ Position(i) <= high /\ Committed(i)}

\* What the database returns for a window: both ends belong to it, and LogMiner
\* returns the rows of transactions committed by its end.
Window(low, high) ==
    {i \in RowsNow : low <= Position(i) /\ Position(i) <= high /\ Committed(i)}

\* A row of a transaction still open at the window's end will be below the next
\* window when it commits.
Torn == {i \in RowsNow : kind = "oracle" /\ Position(i) < Head0 /\ ~Committed(i)}

\* The query of a purged window fails, and the same window is tried again.
ReadWindow ==
    /\ up /\ kind \in {"oracle", "sqlserver"} /\ fetched = <<>>
    /\ floor <= cursor /\ cursor < Head0
    /\ fetched' = Sorted(Window(cursor, Head0))
    /\ cursor' = Head0 /\ start' = cursor
    /\ excused' = excused \union Torn
    /\ UNCHANGED <<service, database, up, listed, yielded, seen, offset, written, since>>

\* _list_files: the files whose names are greater than the last one's.
ListFiles ==
    /\ up /\ kind = "datastream" /\ fetched = <<>> /\ listed = <<>>
    /\ LET files == {u \in Units : Exists(u) /\ u > cursor} IN
          files # {} /\ listed' = Sorted(files)
    /\ UNCHANGED <<service, database, up, cursor, start, fetched, yielded, seen, offset,
                   written, since, excused>>

ReadFile ==
    /\ up /\ kind = "datastream" /\ fetched = <<>> /\ listed # <<>>
    /\ cursor' = Head(listed) /\ listed' = Tail(listed)
    /\ ReadRecords(InUnit(Head(listed)))
    /\ UNCHANGED <<service, database, up, start, yielded, seen, offset, written, since>>

\* The saved sequence number belongs to one shard; the others start anew.
ShardStart(u) == IF start # 0 /\ Unit(start) = u THEN start ELSE 0

ReadShard ==
    /\ up /\ kind = "dynamodb" /\ fetched = <<>> /\ cursor <= Len(listed)
    /\ LET u == listed[cursor]
           next == {i \in InUnit(u) : i > ShardStart(u) /\ i \notin seen}
       IN \/ next # {} /\ fetched' = Sorted(next) /\ UNCHANGED cursor
          \* the iterator of a closed shard ends
          \/ next = {} /\ u \in closed /\ cursor' = cursor + 1 /\ UNCHANGED fetched
    /\ UNCHANGED <<service, database, up, start, listed, yielded, seen, offset, written,
                   since, excused>>

Yield ==
    /\ up /\ fetched # <<>>
    /\ fetched' = Tail(fetched)
    /\ yielded' = Append(yielded, Head(fetched))
    /\ seen' = seen \union {Head(fetched)}
    /\ UNCHANGED <<service, database, up, cursor, start, listed, offset, written, since, excused>>

\* Mutation: the offset is that of the last row read.
SaveFetched ==
    /\ up /\ yielded # <<>>
    /\ written' = written \union ToSet(yielded)
    /\ offset' = LastOf(yielded \o fetched)
    /\ yielded' = <<>>
    /\ UNCHANGED <<service, database, up, cursor, start, listed, fetched, seen, since, excused>>

Save ==
    /\ up /\ yielded # <<>>
    /\ written' = written \union ToSet(yielded)
    /\ offset' = LastOf(yielded)
    /\ yielded' = <<>>
    /\ UNCHANGED <<service, database, up, cursor, start, listed, fetched, seen, since, excused>>

Crash ==
    /\ up /\ up' = FALSE
    /\ cursor' = 0 /\ start' = 0 /\ listed' = <<>>
    /\ fetched' = <<>> /\ yielded' = <<>> /\ seen' = {}
    /\ UNCHANGED <<service, database, offset, written, since, excused>>

Read == ReadWindow \/ ListFiles \/ ReadFile \/ ReadShard \/ Yield

Next ==
    \/ OracleLogs \/ SQLServerCaptures \/ FileArrives \/ ShardGrows \/ ShardCloses \/ Purge
    \/ Open \/ Read \/ Save \/ Crash

Spec == Init /\ [][Next]_vars

\* An open stream goes on reading and the worker goes on asking it.
FairSpec == Spec /\ WF_vars(Read)

-----------------------------------------------------------------------------
(* Properties *)

\* The rows a stream that opens at the saved offset does not read.
Passed ==
    IF offset = 0 THEN {}
    ELSE CASE kind \in {"oracle", "sqlserver"} ->
                  {i \in RowsNow : since <= Position(i) /\ Position(i) < Position(offset)}
           [] kind = "datastream" ->
                  IF sequenced THEN IF pathsAbove THEN {} ELSE RowsNow
                  ELSE {i \in RowsNow : Unit(i) < Unit(offset)} \union
                       {i \in InUnit(Unit(offset)) : i <= offset}
           [] OTHER -> {i \in InUnit(Unit(offset)) : i <= offset}

\* The README's promise for Datastream: after a crash the stream goes on with the
\* record behind the last one saved.
ResumesMidFile == kind = "datastream" => Passed \subseteq written \union excused

\* What a saved offset leaves behind has been written, wherever a batch ended and
\* whenever the process crashed, except a row of a transaction that was still open
\* at the end of a LogMiner window, a file that arrived behind its successors, a
\* file or a record that could not be read, and what the database purged before it
\* was read.
PassedIsWritten == ~sequenced => Passed \subseteq written \union excused

\* Within one life a stream yields a row again only if its position is the end of
\* one window and the start of the next; files and shards are read once.
RepeatsOnlyAtBoundary ==
    [][Yield /\ Head(fetched) \in seen =>
          kind \in {"oracle", "sqlserver"} /\ Position(Head(fetched)) = start]_vars

\* The open stream can reach row i.
Served(i) ==
    /\ up /\ i \in RowsNow /\ i \notin excused
    /\ CASE kind = "oracle" -> Committed(i) /\ cursor <= i /\ floor <= cursor
         [] kind = "sqlserver" -> cursor < Unit(i) /\ floor <= cursor
         [] kind = "datastream" -> cursor < Unit(i)
         [] OTHER -> /\ Unit(i) \in ToSet(listed)
                     /\ \A u \in ToSet(listed) : u < Unit(i) => u \in closed
                     /\ ShardStart(Unit(i)) < i

\* Every row the stream can reach is yielded, as long as the process lives and no
\* purge overtakes the reader: an Oracle row whose transaction commits in time, a
\* file that sorts behind the last one, a record of the first open shard.
ReachableIsYielded ==
    \A i \in 1..MaxLog :
        i \in Indices /\ Served(i) ~> i \in seen \/ ~up \/ i \in excused \/ floor > cursor
=============================================================================
