----------------------------- MODULE SinkWrites -----------------------------
(***************************************************************************)
(* One target table with a primary key and the batches a worker writes to  *)
(* it: write_batch of core/dremio_sink.py (MERGE, then DELETE statements)  *)
(* and of core/iceberg_sink.py in merge mode (row deletes, then an         *)
(* append), statement by statement, with restarts that write uncommitted   *)
(* changes again.  The source is a log of legal changes of keyed rows.     *)
(*                                                                         *)
(* Insert, snapshot row and update are one event, "upsert": both sinks     *)
(* treat them alike once the key of the row to remove is known.  A batch   *)
(* that fails is parked, and is not written again here.                    *)
(***************************************************************************)
EXTENDS Integers, FiniteSets, SequencesExt, SortedSets

CONSTANTS
    Keys,         \* primary keys
    Values,       \* the rest of a row
    Absent,       \* no row
    Sinks,        \* sink kinds the configuration may name
    KeyUpdates,   \* updates may change the key; then they carry the old one
    MaxBatch,     \* batch_size
    Faults,       \* what may go wrong, see below
    MaxEvents,    \* bound: changes of the source
    MaxRestarts   \* bound: restarts of the worker

FaultKinds == {"answerLost",     \* Dremio: a job is done, polling it fails
               "lateJob",        \* Dremio: a job outlives the poll's 60 s
               "unauthorized",   \* Dremio: credentials rejected three times
               "rowDelete"}      \* Iceberg: table.delete raises

ASSUME ConstantsAssumption ==
    /\ Absent \notin Values
    /\ Sinks \subseteq {"dremio", "iceberg"}
    /\ KeyUpdates \in BOOLEAN
    /\ MaxBatch \in Nat \ {0}
    /\ Faults \subseteq FaultKinds
    /\ MaxEvents \in Nat /\ MaxRestarts \in Nat

VARIABLES
    sink,        \* the sink kind the configuration names
    log,         \* the source's changes
    done,        \* changes whose offset is saved
    tried,       \* history: longest prefix of the log that was handed to the sink
    batch,       \* the batch that is being written
    todo,        \* statements write_batch has not finished
    late,        \* jobs that were given up and still run
    target,      \* target[k]: values of the rows with key k
    disordered,  \* history: keys hit by a known reordering
    faults,      \* history: what has gone wrong so far
    restarts

vars == <<sink, log, done, tried, batch, todo, late, target, disordered, faults, restarts>>

-----------------------------------------------------------------------------
(* Changes and the rows they leave *)

\* A change removes the row with key old, if it has one, and an upsert then sets
\* the row with key key; the two differ only when an update changes the key.
Event == [op : {"upsert", "delete"}, old : Keys, key : Keys, val : Values \union {Absent}]

Touches(e, k) == e.old = k \/ e.key = k

\* The source's rows after its first n changes: what the last change of a key left.
Source(n) ==
    [k \in Keys |-> LET hits == {i \in 1..n : Touches(log[i], k)}
                    IN IF hits = {} \/ log[Max(hits)].key # k THEN Absent
                       ELSE log[Max(hits)].val]

Change(e) ==
    /\ Len(log) < MaxEvents
    /\ LET rows == Source(Len(log)) IN
          \/ e.op = "upsert" /\ e.val # Absent /\ e.old = e.key
          \/ e.op = "delete" /\ e.val = Absent /\ e.old = e.key /\ rows[e.key] # Absent
          \/ /\ KeyUpdates /\ e.op = "upsert" /\ e.val # Absent
             /\ rows[e.old] # Absent /\ rows[e.key] = Absent
    /\ log' = Append(log, e)
    /\ UNCHANGED <<sink, done, tried, batch, todo, late, target, disordered, faults, restarts>>

-----------------------------------------------------------------------------
(* write_batch as a sequence of statements *)

IsUpsert(e) == e.op = "upsert"
IsDelete(e) == e.op = "delete"
Upserts(events) == {i \in DOMAIN events : IsUpsert(events[i])}
Deletes(events) == {i \in DOMAIN events : IsDelete(events[i])}

\* Mutation: the first event of a key is kept.
FirstPerKey(events) ==
    [k \in Keys |-> LET hits == {i \in Upserts(events) : events[i].key = k}
                    IN IF hits = {} THEN Absent ELSE events[Min(hits)].val]

\* One row per key, the last upsert's.
LastPerKey(events) ==
    [k \in Keys |-> LET hits == {i \in Upserts(events) : events[i].key = k}
                    IN IF hits = {} THEN Absent ELSE events[Max(hits)].val]

RowDelete(k) == [kind |-> "delete", key |-> k]

\* The row deletes of the events with these indices, in the order of the batch.
RowDeletes(events, indices) ==
    LET order == Sorted(indices) IN [n \in DOMAIN order |-> RowDelete(events[order[n]].old)]

Write(kind, events) ==
    IF Upserts(events) = {} THEN <<>> ELSE <<[kind |-> kind, rows |-> LastPerKey(events)]>>

\* Mutation: the deletes come first.
DremioDeletesFirst(events) ==
    RowDeletes(events, Deletes(events)) \o Write("merge", events)

DremioStatements(events) ==
    Write("merge", events) \o RowDeletes(events, Deletes(events))

\* Mutation: only deletes and key-changing updates remove rows first.
IcebergDeletesOnly(events) ==
    RowDeletes(events, {i \in DOMAIN events : IsDelete(events[i]) \/ events[i].old # events[i].key})
        \o Write("append", events)

\* An upsert removes the row of its before-image, else the one with its own key.
IcebergStatements(events) ==
    RowDeletes(events, Deletes(events)) \o RowDeletes(events, Upserts(events))
        \o Write("append", events)

\* Mutation: Dremio's upserts are deletes and inserts, too.
StatementsDeleteFirst(events) == IcebergStatements(events)

Statements(events) ==
    IF sink = "dremio" THEN DremioStatements(events) ELSE IcebergStatements(events)

\* The target after a statement.  A MERGE updates every row that matches.
Executed(s) ==
    CASE s.kind = "delete" -> [target EXCEPT ![s.key] = <<>>]
      [] s.kind = "append" ->
            [k \in Keys |-> IF s.rows[k] = Absent THEN target[k]
                            ELSE Append(target[k], s.rows[k])]
      [] s.kind = "merge" ->
            [k \in Keys |-> IF s.rows[k] = Absent THEN target[k]
                            ELSE IF target[k] = <<>> THEN <<s.rows[k]>>
                            ELSE [i \in DOMAIN target[k] |-> s.rows[k]]]

-----------------------------------------------------------------------------
(* The orders the sinks are known to get wrong *)

\* Dremio deletes last: k is deleted, then upserted.  A key-changing update leaves
\* the row with the old key.
DremioReorders(b, k) ==
    \/ \E i, j \in DOMAIN b :
          i < j /\ IsDelete(b[i]) /\ b[i].key = k /\ IsUpsert(b[j]) /\ b[j].key = k
    \/ \E e \in ToSet(b) : e.old = k /\ e.key # k

\* Iceberg appends last: k is upserted, then deleted or left by a key-changing
\* update.  A key-changing update that is written again removes nothing from the
\* key it set the first time.
IcebergReorders(b, k) ==
    \/ \E i, j \in DOMAIN b :
          /\ i < j /\ IsUpsert(b[i]) /\ b[i].key = k
          /\ b[j].old = k /\ (IsDelete(b[j]) \/ b[j].key # k)
    \/ \E i \in DOMAIN b :
          done + i <= tried /\ b[i].key = k /\ b[i].old # k

Reorders(b, k) == IF sink = "dremio" THEN DremioReorders(b, k) ELSE IcebergReorders(b, k)

-----------------------------------------------------------------------------
Init ==
    /\ sink \in Sinks
    /\ log = <<>> /\ done = 0 /\ tried = 0
    /\ batch = <<>> /\ todo = <<>> /\ late = {}
    /\ target = [k \in Keys |-> <<>>]
    /\ disordered = {} /\ faults = {}
    /\ restarts = 0

Idle == batch = <<>>

\* The worker cuts its batch anywhere and calls write_batch.
WriteBatch(n) ==
    /\ Idle
    /\ n \in 1..MaxBatch /\ done + n <= Len(log)
    /\ batch' = SubSeq(log, done + 1, done + n)
    /\ todo' = Statements(batch')
    /\ tried' = Max({tried, done + n})
    /\ disordered' = disordered \union {k \in Keys : Reorders(batch', k)}
    /\ UNCHANGED <<sink, log, done, late, target, faults, restarts>>

Execute ==
    /\ todo # <<>>
    /\ target' = Executed(Head(todo))
    /\ todo' = Tail(todo)
    /\ UNCHANGED <<sink, log, done, tried, batch, late, disordered, faults, restarts>>

Occurs(fault) == fault \in Faults /\ faults' = faults \union {fault}

\* Polling a finished job raises: _sql submits the statement again.
AnswerLost ==
    /\ Occurs("answerLost") /\ sink = "dremio" /\ todo # <<>>
    /\ target' = Executed(Head(todo))
    /\ UNCHANGED <<sink, log, done, tried, batch, todo, late, disordered, restarts>>

\* _poll gives a job up that is not complete, and _sql submits it again.
PollTimesOut ==
    /\ Occurs("lateJob") /\ sink = "dremio" /\ todo # <<>>
    /\ late' = late \union {Head(todo)}
    /\ UNCHANGED <<sink, log, done, tried, batch, todo, target, disordered, restarts>>

LateJobEnds(s) ==
    /\ s \in late
    /\ target' = Executed(s)
    /\ late' = late \ {s}
    /\ UNCHANGED <<sink, log, done, tried, batch, todo, disordered, faults, restarts>>

\* Three answers of 401: _sql leaves its loop and returns None.
Unauthorized ==
    /\ Occurs("unauthorized") /\ sink = "dremio" /\ todo # <<>>
    /\ todo' = Tail(todo)
    /\ UNCHANGED <<sink, log, done, tried, batch, late, target, disordered, restarts>>

\* A row delete that raises is logged, and the next one follows.
RowDeleteFails ==
    /\ Occurs("rowDelete") /\ sink = "iceberg" /\ todo # <<>>
    /\ Head(todo).kind = "delete"
    /\ todo' = Tail(todo)
    /\ UNCHANGED <<sink, log, done, tried, batch, late, target, disordered, restarts>>

\* write_batch returns and _flush saves the offset of the batch's last event.
Commit ==
    /\ ~Idle /\ todo = <<>>
    /\ done' = done + Len(batch)
    /\ batch' = <<>>
    /\ UNCHANGED <<sink, log, tried, todo, late, target, disordered, faults, restarts>>

\* The process ends inside a batch; the next one resumes at the saved offset.
Restart ==
    /\ ~Idle /\ restarts < MaxRestarts
    /\ restarts' = restarts + 1
    /\ batch' = <<>> /\ todo' = <<>>
    /\ UNCHANGED <<sink, log, done, tried, late, target, disordered, faults>>

Next ==
    \/ \E e \in Event : Change(e)
    \/ \E n \in 1..MaxBatch : WriteBatch(n)
    \/ Execute \/ AnswerLost \/ PollTimesOut \/ Unauthorized \/ RowDeleteFails
    \/ \E s \in late : LateJobEnds(s)
    \/ Commit \/ Restart

Spec == Init /\ [][Next]_vars

-----------------------------------------------------------------------------
(* Properties *)

\* The target holds for key k what the committed changes, one by one, leave.
Mirrors(k) ==
    LET row == Source(done)[k]
    IN target[k] = IF row = Absent THEN <<>> ELSE <<row>>

\* Nothing is half written: no batch is open and none was interrupted since.
Settled == Idle /\ tried = done

\* No fault but those of kinds has occurred.
Only(kinds) == faults \subseteq kinds

\* The target is the source's table, "a clean current-state table"
\* (core/iceberg_sink.py:28), but for the keys of the known reorderings: however
\* batches are cut, interrupted and repeated, and whatever answers are lost.
AppliedInOrder ==
    Settled /\ Only({"answerLost"}) => \A k \in Keys \ disordered : Mirrors(k)

\* At no moment a key has two rows in the target, except where a reordering left
\* one behind or a row delete failed.  Late and skipped jobs do not add one.
OneRowPerKey ==
    "rowDelete" \notin faults => \A k \in Keys \ disordered : Len(target[k]) <= 1

\* Row deletes that fail leave superseded rows behind, but never cost the row that
\* is current.
CurrentRowSurvives ==
    Settled /\ Only({"answerLost", "rowDelete"}) =>
        \A k \in Keys \ disordered :
            Source(done)[k] # Absent => Source(done)[k] \in ToSet(target[k])

\* A row that existed all through the changes in flight is there for every reader
\* of the Dremio table, also between two statements and after an interruption.
NoRowGap ==
    sink = "dremio" /\ Only({"answerLost"}) =>
        \A k \in Keys \ disordered :
            (\A n \in done..tried : Source(n)[k] # Absent) => target[k] # <<>>

=============================================================================
