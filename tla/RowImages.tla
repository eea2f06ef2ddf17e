------------------------------ MODULE RowImages ------------------------------
(***************************************************************************)
(* What a change of a row becomes on its way to the Dremio sink: the       *)
(* images each source puts into its events, the batch they share, and the  *)
(* MERGE and DELETE statements made of the batch.  SinkWrites asks whether *)
(* every statement of a batch is executed; this module takes that for      *)
(* granted and asks whether the columns they carry add up to the source's  *)
(* rows.                                                                    *)
(*                                                                         *)
(* A row has its key k, a column v, and a column w that may be Null: in a   *)
(* document or item the attribute is then absent; in PostgreSQL a value of  *)
(* w is wide enough to be stored out of line (TOAST).                       *)
(***************************************************************************)
EXTENDS Integers, FiniteSets, SequencesExt

CONSTANTS
    Kinds,      \* the sources to consider
    Keys, Values,
    Null,
    Copies,     \* the tables to begin with
    NChanges,   \* bound: changes of the source's table
    MaxBatch    \* bound: events the worker collects before it flushes

AllKinds == {"mysql", "postgres", "oracle", "sqlserver", "mongodb", "dynamodb",
             "snowflake", "cockroachdb", "spanner", "spanner_new_first", "datastream",
             "debezium"}

Cols == {"k", "v", "w"}
Rows == {r \in [Cols -> Keys \union Values \union {Null}] :
            r["k"] \in Keys /\ r["v"] \in Values /\ r["w"] \in Values \union {Null}}

\* One row per key.
Single(rows) == \A r, q \in rows : r["k"] = q["k"] => r = q

ASSUME ImagesAssumption ==
    /\ Kinds \subseteq AllKinds
    /\ Null \notin Keys \union Values
    /\ IsFiniteSet(Keys)
    /\ \A rows \in Copies : rows \subseteq Rows /\ IsFiniteSet(rows) /\ Single(rows)
    /\ NChanges \in Nat /\ MaxBatch \in Nat \ {0}

VARIABLES
    kind,       \* the source's type
    table,      \* the rows of the source's table
    taken,      \* Snowflake: the rows when its stream was made
    origin,     \* Snowflake: the key a key's row had then, Null for a row made since
    unread,     \* Snowflake: whether changes were made since the last read
    batch,      \* the worker's batch
    sink,       \* the rows of the target
    changes,    \* changes made so far
    harmed      \* history: keys whose row in the target may differ, and why below

imageVars == <<kind, table, taken, origin, unread, batch, sink, changes, harmed>>

KeysOf(rows) == {r["k"] : r \in rows}
RowsOf(rows, key) == {r \in rows : r["k"] = key}

\* Their events describe the columns of the one row they carry.
Schemaless == {"mongodb", "dynamodb", "datastream"}

\* Real Debezium envelopes name no primary key: rows are appended to the target.
Keyed == kind # "debezium"

\* Sources that let a row's key change by an update and log it as one change.
MovesKeys == {"mysql", "postgres", "oracle", "snowflake"}
\* Those that log it as a delete and an insert.
SplitsKeys == {"sqlserver", "cockroachdb", "debezium", "datastream"}

\* A Spanner mod is [keys, old values, new values] to the code, as the emulator has it;
\* its docstring has the new values first, which is the kind spanner_new_first.
NewFirst == kind = "spanner_new_first"

-----------------------------------------------------------------------------
(* Events *)

Nothing == [c \in {} |-> Null]
Pick(row, cols) == [c \in cols |-> row[c]]
Present(row) == {c \in Cols : row[c] # Null}
Image(row) == IF kind \in Schemaless THEN Pick(row, Present(row)) ELSE row
Get(image, col) == IF col \in DOMAIN image THEN image[col] ELSE Null

\* The schema of an event: of the table, or inferred from the image.
Event(op, before, after) ==
    [op |-> op, before |-> before, after |-> after,
     schema |-> IF kind \in Schemaless
                THEN DOMAIN (IF op = "delete" THEN before ELSE after) ELSE Cols]

\* Taken for old values, the values of an insert are dropped.
InsertEvent(row) == Event("insert", Nothing, IF NewFirst THEN Pick(row, {"k"}) ELSE Image(row))

DeleteEvent(row) ==
    Event("delete", IF NewFirst \/ kind \in {"mongodb", "cockroachdb"} THEN Pick(row, {"k"})
                                                                       ELSE Image(row), Nothing)

Changed(old, new) == {c \in Cols : old[c] # new[c]}

\* _parse_set: the columns of the SET clause, the key among them only if it changes.
LogMinerAfter(old, new) == Pick(new, Changed(old, new))

\* Mutation: the tuple before the change is taken for the one after it.
DecodeTupleBefore(old, new) == old

\* _decode_tuple: an unchanged TOAST column arrives as 'u' and becomes None.
DecodeTuple(old, new) == IF old["w"] = new["w"] THEN [new EXCEPT !["w"] = Null] ELSE new

\* Mutation: the keys of the mod are not added to the modified columns.
ModAfterNoKeys(old, new) == Pick(IF NewFirst THEN old ELSE new, Changed(old, new))

\* With OLD_AND_NEW_VALUES a mod has the key and the modified columns.
ModAfter(old, new) == Pick(IF NewFirst THEN old ELSE new, {"k"} \union Changed(old, new))

UpdateImages(old, new) ==
    CASE kind = "oracle" -> {LogMinerAfter(old, new)}
      [] kind = "postgres" -> {DecodeTuple(old, new)}
      [] kind \in {"spanner", "spanner_new_first"} -> {ModAfter(old, new)}
      \* watch() without full_document: an update has no document, a replacement has.
      [] kind = "mongodb" -> {Pick(new, {"k"}), Image(new)}
      [] OTHER -> {Image(new)}

\* _parse_op does not know UPDATE-DELETE: without a deleted flag the old row is inserted.
Removals(old) == {DeleteEvent(old)} \union (IF kind = "datastream" THEN {InsertEvent(old)} ELSE {})

\* The events one update yields, one sequence for each way the source may log it.
UpdateEvents(old, new) ==
    IF kind \in SplitsKeys /\ old["k"] # new["k"]
    THEN {<<d, InsertEvent(new)>> : d \in Removals(old)}
    ELSE {<<Event("update", Nothing, i)>> : i \in UpdateImages(old, new)}

-----------------------------------------------------------------------------
(* DremioSink.write_batch *)

Upserts(events) == {i \in DOMAIN events : events[i].op # "delete"}
AfterKey(e) == Get(e.after, "k")

\* Mutation: the first event of a key is kept.
FirstPerKey(events) ==
    {i \in Upserts(events) :
        \A j \in Upserts(events) : j < i => AfterKey(events[j]) # AfterKey(events[i])}

LastPerKey(events) ==
    {i \in Upserts(events) :
        \A j \in Upserts(events) : j > i => AfterKey(events[j]) # AfterKey(events[i])}

\* The keys the DELETE statements name.
Deleted(events) ==
    {Get(events[i].before, "k") : i \in {i \in DOMAIN events : events[i].op = "delete"}} \ {Null}

\* A row of the VALUES list: NULL where the event has no such column.
FullRow(e, schema) == [c \in Cols |-> IF c \in schema THEN Get(e.after, c) ELSE Null]

\* _merge: a matched row gets the columns of the schema; a key that is NULL
\* matches nothing.
Merged(rows, e, schema) ==
    LET old == IF AfterKey(e) = Null THEN {} ELSE RowsOf(rows, AfterKey(e))
    IN IF old = {} THEN {FullRow(e, schema)}
       ELSE {[c \in Cols |-> IF c \in schema THEN Get(e.after, c) ELSE r[c]] : r \in old}

\* The schema of a batch is that of its first event.  All upserts, then all deletes.
Written(rows, events) ==
    LET schema == events[1].schema
        merged == LastPerKey(events)
        touched == {AfterKey(events[i]) : i \in merged} \ {Null}
        added == UNION {Merged(rows, events[i], schema) : i \in merged}
    IN IF Keyed
       THEN {r \in {r \in rows : r["k"] \notin touched} \union added : r["k"] \notin Deleted(events)}
       ELSE rows \union {FullRow(events[i], schema) : i \in Upserts(events)}

-----------------------------------------------------------------------------
(* What a change does to the row in the target, beside the change itself *)

PendingDelete(key) == key \in Deleted(batch)

\* The schema of the batch that a change's first event e joins.
BatchSchema(e) == IF batch = <<>> THEN e.schema ELSE batch[1].schema

\* The row will be in the target as it is: no delete of the batch follows, and all its
\* columns are written, or all that have a value where the target has no such row yet.
Arrives(row, e, schema) ==
    /\ ~PendingDelete(row["k"])
    /\ \/ DOMAIN e.after = Cols /\ schema = Cols
       \/ row["k"] \notin harmed /\ Present(row) \subseteq DOMAIN e.after \intersect schema

HarmOfInsert(row, e, schema) ==
    IF ~Keyed THEN harmed
    ELSE IF Arrives(row, e, schema) THEN harmed \ {row["k"]} ELSE harmed \union {row["k"]}

\* The key changes and is logged as the event d of the old row and the event e of the new.
HarmOfSplit(old, new, d, e) ==
    HarmOfInsert(new, e, BatchSchema(d))
    \union (IF d.op = "delete" /\ Keyed THEN {} ELSE {old["k"]})
    \union (IF Keyed THEN {} ELSE {new["k"]})

LostColumns(old, new, e) ==
    \/ kind = "oracle" \/ NewFirst
    \/ kind = "postgres" /\ old["w"] = new["w"] /\ new["w"] # Null
    \/ kind = "spanner" /\ Changed(old, new) \union {"k"} # Cols
    \/ kind = "mongodb" /\ DOMAIN e.after = {"k"}
    \/ kind \in Schemaless /\ ~(DOMAIN e.after = BatchSchema(e) /\ Present(old) \subseteq DOMAIN e.after)
    \/ ~Keyed
    \/ PendingDelete(new["k"])

\* Logged as one event, the change leaves the row of the old key in the target.
HarmOfUpdate(old, new, e) ==
    (IF LostColumns(old, new, e) THEN harmed \union {new["k"]}
     ELSE IF BatchSchema(e) = Cols /\ DOMAIN e.after = Cols THEN harmed \ {new["k"]} ELSE harmed)
    \union (IF old["k"] # new["k"] THEN {old["k"]} ELSE {})

\* Snowflake's stream is a difference with the rows when it was made.  A key that was
\* there and has another row now is named twice, in either order; one that was not
\* there and is gone again is named no more.
HarmOfDifference(gone, key) ==
    gone \union (IF key \in KeysOf(taken) THEN harmed \union {key} ELSE harmed \ {key})

-----------------------------------------------------------------------------
\* The first copy of the table has been written, and Snowflake's stream made.
ImagesInit ==
    /\ kind \in Kinds
    /\ table \in Copies
    /\ taken = table /\ unread = FALSE
    /\ origin = [key \in Keys |-> IF key \in KeysOf(table) THEN key ELSE Null]
    /\ batch = <<>> /\ sink = table
    /\ changes = 0 /\ harmed = {}

\* Snowflake's stream is read as a difference; the others log each change.
Log(events, rowsOrigin) ==
    IF kind = "snowflake"
    THEN unread' = TRUE /\ origin' = rowsOrigin /\ UNCHANGED batch
    ELSE batch' = batch \o events /\ UNCHANGED <<unread, origin>>

Room == changes < NChanges /\ Len(batch) < MaxBatch

Insert ==
    /\ Room
    /\ \E row \in Rows :
          /\ row["k"] \notin KeysOf(table)
          /\ table' = table \union {row}
          /\ Log(<<InsertEvent(row)>>, origin)
          /\ harmed' = IF kind = "snowflake" THEN HarmOfDifference({}, row["k"])
                       ELSE HarmOfInsert(row, InsertEvent(row), BatchSchema(InsertEvent(row)))
    /\ changes' = changes + 1
    /\ UNCHANGED <<kind, taken, sink>>

Update ==
    /\ Room
    /\ \E old \in table, new \in Rows :
          /\ old # new
          /\ \/ old["k"] = new["k"]
             \/ new["k"] \notin KeysOf(table) /\ kind \in MovesKeys \union SplitsKeys
          /\ table' = (table \ {old}) \union {new}
          /\ \E events \in UpdateEvents(old, new) :
                /\ Log(events, [origin EXCEPT ![old["k"]] = Null, ![new["k"]] = origin[old["k"]]])
                /\ harmed' = IF kind = "snowflake"
                             THEN HarmOfDifference({old["k"]} \ {new["k"]}, new["k"])
                             ELSE IF Len(events) = 2
                             THEN HarmOfSplit(old, new, events[1], events[2])
                             ELSE HarmOfUpdate(old, new, events[1])
    /\ changes' = changes + 1
    /\ UNCHANGED <<kind, taken, sink>>

Delete ==
    /\ Room
    /\ \E old \in table :
          /\ table' = table \ {old}
          /\ Log(<<DeleteEvent(old)>>, [origin EXCEPT ![old["k"]] = Null])
          /\ harmed' = IF Keyed /\ (kind = "snowflake" => origin[old["k"]] = old["k"])
                       THEN harmed \ {old["k"]} ELSE harmed \union {old["k"]}
    /\ changes' = changes + 1
    /\ UNCHANGED <<kind, taken, sink>>

\* A row that was updated is a DELETE of its old values and an INSERT of its new ones,
\* both with ISUPDATE, and both are made updates with an after-image.
StreamRows ==
    LET before(r) == RowsOf(taken, origin[r["k"]])
        made == {r \in table : before(r) = {}}
        updated == {r \in table : before(r) \notin {{}, {r}}}
        gone == {r \in taken : \A key \in Keys : origin[key] # r["k"]}
    IN {InsertEvent(r) : r \in made} \union {DeleteEvent(r) : r \in gone}
       \union {Event("update", Nothing, Image(r)) : r \in updated \union UNION {before(r) : r \in updated}}

\* The read is ordered by row id, which says nothing of what happened first and which
\* the two rows of an update share.  A SELECT does not consume a stream: the next read
\* has all these rows again.
PollSnowflake ==
    /\ kind = "snowflake" /\ batch = <<>>
    /\ \E order \in Bijection(1..Cardinality(StreamRows), StreamRows) : batch' = order
    /\ unread' = FALSE
    /\ UNCHANGED <<kind, table, taken, origin, sink, changes, harmed>>

Flush ==
    /\ batch # <<>>
    /\ sink' = Written(sink, batch)
    /\ batch' = <<>>
    /\ UNCHANGED <<kind, table, taken, origin, unread, changes, harmed>>

ImagesNext == Insert \/ Update \/ Delete \/ PollSnowflake \/ Flush

ImagesSpec == ImagesInit /\ [][ImagesNext]_imageVars

-----------------------------------------------------------------------------
(* Properties *)

Settled == batch = <<>> /\ ~unread

\* Once its events are written, a row of the target is the row of the source, or
\* absent like it, unless it met one of the losses that the HarmOf operators name:
\* columns missing from the image of an Oracle, MongoDB or Spanner update, an unchanged
\* TOAST value, values of a Spanner mod in the other order, a key changed by an update
\* but where the source logs a delete of the old one, a batch whose first event
\* describes other columns, a row deleted and inserted again within one batch, and a
\* row that Snowflake's stream, which is never consumed, names twice or no more.
OnlyHarmedDiffer ==
    Settled => \A key \in Keys \ harmed : RowsOf(sink, key) = RowsOf(table, key)

\* An unchanged TOAST value is lost but never replaced by another: the target of
\* a PostgreSQL source has, for each row of the source, the current values or NULL.
LostNotStale ==
    Settled /\ kind = "postgres" =>
        \A r \in table : \A s \in RowsOf(sink, r["k"]) : \A c \in Cols : s[c] \in {r[c], Null}

\* Only a LogMiner update, whose SET clause lacks the key, leaves a row without key.
KeylessRows == kind # "oracle" => Null \notin KeysOf(sink)
=============================================================================
