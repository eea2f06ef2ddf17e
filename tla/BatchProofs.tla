---------------------------- MODULE BatchProofs ----------------------------
(***************************************************************************)
(* What becomes of the batches given to the sink, for any number of rows,  *)
(* values, events, entries, retries and threads: the columns the target    *)
(* gets when a batch is written (RowImages), and what the dead letter      *)
(* queue does with the one that fails (DeadLetterQueue).  The two models   *)
(* have no variable in common, and no lemma of one part is used in the     *)
(* other.                                                                  *)
(***************************************************************************)
EXTENDS DeadLetterQueue, RowImages, FiniteSetTheorems, SequenceTheorems, TLAPS

-----------------------------------------------------------------------------
(* What a written batch leaves in the target *)

Data == Keys \union Values \union {Null}
FullRows == [Cols -> Data]
Images == UNION {[C -> Data] : C \in SUBSET Cols}
Events == [op : {"insert", "update", "delete"}, before : Images, after : Images,
           schema : SUBSET Cols]

\* The rows of the target once a batch, empty or not, is written, and those it
\* will hold once the worker's batch is.  The statements about the target are
\* made of these rows: sink itself lags behind the source by the batch.
Result(rows, events) == IF events = <<>> THEN rows ELSE Written(rows, events)
Reached == IF batch = <<>> THEN sink ELSE Written(sink, batch)

\* The upserts the MERGE keeps of those of one key.
Lasts(events, key) == {i \in LastPerKey(events) : AfterKey(events[i]) = key}

ImagesTypeOK ==
    /\ kind \in Kinds
    /\ table \subseteq Rows /\ IsFiniteSet(table) /\ Single(table)
    /\ taken \subseteq Rows /\ IsFiniteSet(taken) /\ Single(taken)
    /\ origin \in [Keys -> Keys \union {Null}] /\ unread \in BOOLEAN
    /\ harmed \subseteq Keys
    /\ sink \subseteq FullRows
    /\ batch \in Seq(Events)

\* An event names the row it is about, except Oracle's updates, and its schema has
\* the key even where it is inferred from a document.
WellFormed(e) ==
    /\ "k" \in e.schema
    /\ kind \notin Schemaless => e.schema = Cols
    /\ e.op = "delete" => Get(e.before, "k") \in Keys
    /\ e.op # "delete" => AfterKey(e) \in Keys \union {Null}
    /\ e.op # "delete" /\ kind # "oracle" => AfterKey(e) \in Keys

BatchInv == \A i \in DOMAIN batch : WellFormed(batch[i])

\* Where each change is logged, the batch brings the target up to the source.
LogInv ==
    kind # "snowflake" => \A key \in Keys \ harmed : RowsOf(Reached, key) = RowsOf(table, key)

\* The rows Snowflake compares: each row of the table comes from one of those the
\* stream was made of, or from none.
OriginInv ==
    /\ \A key \in Keys : origin[key] # Null => key \in KeysOf(table) /\ origin[key] \in KeysOf(taken)
    /\ \A key, other \in Keys : origin[key] = origin[other] /\ origin[key] # Null => key = other

\* A key that was not harmed is in the difference if, and as, it should be.
Faithful(key) ==
    /\ key \in KeysOf(taken) /\ key \in KeysOf(table) =>
          /\ origin[key] = key /\ RowsOf(taken, key) = RowsOf(table, key)
          /\ RowsOf(Reached, key) = RowsOf(table, key)
    /\ key \in KeysOf(taken) /\ key \notin KeysOf(table) => \A other \in Keys : origin[other] # key
    /\ key \notin KeysOf(taken) /\ key \notin KeysOf(table) => RowsOf(Reached, key) = {}
    /\ ~unread => RowsOf(Reached, key) = RowsOf(table, key)

\* Where the changes are read as a difference, the batch brings the target up to the
\* source's rows at the last read.
StreamInv == kind = "snowflake" => OriginInv /\ \A key \in Keys \ harmed : Faithful(key)

\* A row of a PostgreSQL source has its current values or NULL, harmed or not.
StaleInv ==
    kind = "postgres" =>
        \A r \in table : \A s \in RowsOf(Reached, r["k"]) : \A c \in Cols : s[c] \in {r[c], Null}

ImagesInv ==
    ImagesTypeOK /\ BatchInv /\ LogInv /\ StreamInv /\ StaleInv /\ KeylessRows

-----------------------------------------------------------------------------
(* Rows and images *)

\* A row is a function on the columns.
LEMMA RowType ==
    ASSUME NEW r \in Rows
    PROVE  /\ r \in FullRows /\ r["k"] \in Keys /\ r["v"] \in Values
           /\ \A c \in Cols : r[c] \in Data
           /\ r["k"] # Null /\ r["v"] # Null
  BY ImagesAssumption DEF Rows, FullRows, Data, Cols

\* Rows that agree in every column are equal.
LEMMA RowsEqual ==
    ASSUME NEW r \in FullRows, NEW s \in FullRows, \A c \in Cols : r[c] = s[c]
    PROVE  r = s
  BY DEF FullRows

\* What an image says of a column is a value or NULL.
LEMMA GetType ==
    ASSUME NEW i \in Images, NEW c \in Cols
    PROVE  Get(i, c) \in Data
<1>1. PICK C \in SUBSET Cols : i \in [C -> Data]
  BY DEF Images
<1>2. DOMAIN i = C /\ \A d \in C : i[d] \in Data
  BY <1>1
<1>3. QED
  BY <1>2 DEF Get, Data

\* The columns picked of a row are an image, which says of them what the row says.
LEMMA PickImage ==
    ASSUME NEW r \in FullRows, NEW C \in SUBSET Cols
    PROVE  /\ Pick(r, C) \in Images /\ DOMAIN Pick(r, C) = C
           /\ \A c \in Cols : Get(Pick(r, C), c) = IF c \in C THEN r[c] ELSE Null
<1>1. Pick(r, C) \in [C -> Data]
  BY DEF Pick, FullRows
<1>2. DOMAIN Pick(r, C) = C /\ \A c \in C : Pick(r, C)[c] = r[c]
  BY DEF Pick
<1>3. Pick(r, C) \in Images
  BY <1>1 DEF Images
<1>4. QED
  BY <1>2, <1>3 DEF Get

LEMMA NothingImage == Nothing \in Images
<1>1. Nothing \in [{} -> Data]
  BY DEF Nothing
<1>2. QED
  BY <1>1 DEF Images

\* A full row is an image of itself.
LEMMA FullImage ==
    ASSUME NEW r \in FullRows
    PROVE  /\ r \in Images /\ DOMAIN r = Cols
           /\ \A c \in Cols : Get(r, c) = r[c]
<1>1. DOMAIN r = Cols
  BY DEF FullRows
<1>2. r \in Images
  BY DEF FullRows, Images
<1>3. QED
  BY <1>1, <1>2 DEF Get

\* The image of a row leaves out Null at most.
LEMMA ImageOfRow ==
    ASSUME NEW r \in Rows
    PROVE  /\ Image(r) \in Images /\ DOMAIN Image(r) \subseteq Cols
           /\ "k" \in DOMAIN Image(r) /\ "v" \in DOMAIN Image(r)
           /\ DOMAIN Image(r) = IF kind \in Schemaless THEN Present(r) ELSE Cols
           /\ \A c \in Cols : Get(Image(r), c) = r[c]
<1>1. r \in FullRows /\ r["k"] # Null /\ r["v"] # Null
  BY RowType
<1>2. Present(r) \in SUBSET Cols /\ "k" \in Present(r) /\ "v" \in Present(r)
  BY <1>1 DEF Present, Cols
<1>3. CASE kind \in Schemaless
  <2>1. Image(r) = Pick(r, Present(r))
    BY <1>3 DEF Image
  <2>2. \A c \in Cols : c \notin Present(r) => r[c] = Null
    BY DEF Present
  <2>3. QED
    BY <1>1, <1>2, <1>3, <2>1, <2>2, PickImage
<1>4. CASE kind \notin Schemaless
  <2>1. Image(r) = r
    BY <1>4 DEF Image
  <2>2. QED
    BY <1>1, <1>4, <2>1, FullImage DEF Cols
<1>5. QED
  BY <1>3, <1>4

-----------------------------------------------------------------------------
(* Events *)

\* An event built of two images.
LEMMA EventOfImages ==
    ASSUME NEW op \in {"insert", "update", "delete"},
           NEW before \in Images, NEW after \in Images
    PROVE  LET e == Event(op, before, after)
           IN /\ e \in Events /\ e.op = op /\ e.before = before /\ e.after = after
              /\ e.schema = IF kind \in Schemaless
                            THEN DOMAIN (IF op = "delete" THEN before ELSE after) ELSE Cols
<1>1. DOMAIN before \in SUBSET Cols /\ DOMAIN after \in SUBSET Cols
  BY DEF Images
<1>2. QED
  BY <1>1 DEF Event, Events

\* The event of an insert carries the row, unless Spanner's values are mistaken.
LEMMA InsertEventIs ==
    ASSUME NEW r \in Rows
    PROVE  LET e == InsertEvent(r)
           IN /\ e \in Events /\ e.op = "insert" /\ WellFormed(e)
              /\ AfterKey(e) = r["k"]
              /\ NewFirst => DOMAIN e.after = {"k"}
              /\ ~NewFirst => \A c \in Cols : Get(e.after, c) = r[c]
<1> DEFINE e == InsertEvent(r)
           i == IF NewFirst THEN Pick(r, {"k"}) ELSE Image(r)
<1>1. r \in FullRows /\ r["k"] \in Keys /\ {"k"} \in SUBSET Cols /\ "k" \in Cols
  BY RowType DEF Cols
<1>2. /\ i \in Images /\ "k" \in DOMAIN i /\ Get(i, "k") = r["k"]
      /\ NewFirst => DOMAIN i = {"k"}
      /\ ~NewFirst => \A c \in Cols : Get(i, c) = r[c]
  <2>1. CASE NewFirst
    BY <1>1, <2>1, PickImage
  <2>2. CASE ~NewFirst
    BY <1>1, <2>2, ImageOfRow
  <2>3. QED
    BY <2>1, <2>2
<1>3. /\ e \in Events /\ e.op = "insert" /\ e.after = i
      /\ e.schema = IF kind \in Schemaless THEN DOMAIN i ELSE Cols
  BY <1>2, EventOfImages, NothingImage DEF InsertEvent
<1>4. AfterKey(e) = r["k"]
  BY <1>2, <1>3 DEF AfterKey
<1>5. QED
  BY <1>1, <1>2, <1>3, <1>4 DEF WellFormed

\* The event of a delete names the row's key.
LEMMA DeleteEventIs ==
    ASSUME NEW r \in Rows
    PROVE  LET e == DeleteEvent(r)
           IN /\ e \in Events /\ e.op = "delete" /\ WellFormed(e)
              /\ Get(e.before, "k") = r["k"]
<1> DEFINE e == DeleteEvent(r)
           i == IF NewFirst \/ kind \in {"mongodb", "cockroachdb"} THEN Pick(r, {"k"}) ELSE Image(r)
<1>1. r \in FullRows /\ r["k"] \in Keys /\ {"k"} \in SUBSET Cols /\ "k" \in Cols
  BY RowType DEF Cols
<1>2. i \in Images /\ "k" \in DOMAIN i /\ Get(i, "k") = r["k"]
  <2>1. CASE NewFirst \/ kind \in {"mongodb", "cockroachdb"}
    BY <1>1, <2>1, PickImage
  <2>2. CASE ~(NewFirst \/ kind \in {"mongodb", "cockroachdb"})
    BY <1>1, <2>2, ImageOfRow
  <2>3. QED
    BY <2>1, <2>2
<1>3. /\ e \in Events /\ e.op = "delete" /\ e.before = i
      /\ e.schema = IF kind \in Schemaless THEN DOMAIN i ELSE Cols
  BY <1>2, EventOfImages, NothingImage DEF DeleteEvent
<1>4. QED
  BY <1>1, <1>2, <1>3 DEF WellFormed

\* The image of an update names the row's key except in Oracle's redo.
LEMMA UpdateImageKey ==
    ASSUME NEW old \in Rows, NEW new \in Rows, NEW i \in UpdateImages(old, new),
           NewFirst => old["k"] = new["k"]
    PROVE  /\ i \in Images /\ Get(i, "k") \in {new["k"], Null}
           /\ kind # "oracle" => "k" \in DOMAIN i /\ Get(i, "k") = new["k"]
<1>1. /\ new \in FullRows /\ {"k"} \in SUBSET Cols /\ "k" \in Cols
      /\ Changed(old, new) \in SUBSET Cols /\ {"k"} \union Changed(old, new) \in SUBSET Cols
  BY RowType DEF Cols, Changed
<1>2. CASE kind = "oracle"
  <2>1. i = Pick(new, Changed(old, new))
    BY <1>2 DEF UpdateImages, LogMinerAfter
  <2>2. QED
    BY <1>1, <1>2, <2>1, PickImage
<1>3. CASE kind = "postgres"
  <2>1. i = DecodeTuple(old, new)
    BY <1>3 DEF UpdateImages
  <2>2. i \in FullRows /\ i["k"] = new["k"]
    BY <1>1, <2>1 DEF DecodeTuple, FullRows, Data, Cols
  <2>3. QED
    BY <1>1, <2>2, FullImage
<1>4. CASE kind \in {"spanner", "spanner_new_first"}
  <2>1. PICK row \in {old, new} : i = Pick(row, {"k"} \union Changed(old, new)) /\ row["k"] = new["k"]
    BY <1>4 DEF UpdateImages, ModAfter, NewFirst
  <2>2. row \in FullRows
    BY RowType
  <2>3. QED
    BY <1>1, <2>1, <2>2, PickImage
<1>5. CASE kind = "mongodb" /\ i = Pick(new, {"k"})
  BY <1>1, <1>5, PickImage
<1>6. CASE kind \notin {"oracle", "postgres", "spanner", "spanner_new_first"} /\ i = Image(new)
  BY <1>1, <1>6, ImageOfRow
<1>7. QED
  BY <1>2, <1>3, <1>4, <1>5, <1>6 DEF UpdateImages

\* An update whose event loses no column carries the new row.
LEMMA UpdateImageWhole ==
    ASSUME NEW old \in Rows, NEW new \in Rows, NEW i \in UpdateImages(old, new),
           ~LostColumns(old, new, Event("update", Nothing, i))
    PROVE  /\ Keyed /\ ~PendingDelete(new["k"])
           /\ \A c \in Cols : Get(i, c) = new[c]
           /\ kind \notin Schemaless => DOMAIN i = Cols
<1> DEFINE e == Event("update", Nothing, i)
<1>1. e.after = i
  BY DEF Event
<1>2. /\ kind \notin {"oracle", "spanner_new_first"}
      /\ kind = "postgres" => old["w"] # new["w"] \/ new["w"] = Null
      /\ kind = "spanner" => Changed(old, new) \union {"k"} = Cols
      /\ kind = "mongodb" => DOMAIN i # {"k"}
      /\ Keyed /\ ~PendingDelete(new["k"])
  BY <1>1 DEF LostColumns, NewFirst
<1>3. new \in FullRows /\ {"k"} \in SUBSET Cols /\ Cols \in SUBSET Cols
  BY RowType DEF Cols
<1>4. CASE kind = "postgres"
  <2>1. i = DecodeTuple(old, new)
    BY <1>4 DEF UpdateImages
  <2>2. i \in FullRows /\ \A c \in Cols : i[c] = new[c]
    BY <1>2, <1>3, <1>4, <2>1 DEF DecodeTuple, FullRows, Data, Cols
  <2>3. QED
    BY <1>2, <2>2, FullImage
<1>5. CASE kind = "spanner"
  <2>1. i = Pick(new, Cols)
    BY <1>2, <1>5 DEF UpdateImages, ModAfter, NewFirst
  <2>2. QED
    BY <1>2, <1>3, <2>1, PickImage
<1>6. CASE kind \notin {"oracle", "postgres", "spanner", "spanner_new_first"}
  <2>1. i = Image(new)
    <3>1. CASE kind = "mongodb"
      <4>1. DOMAIN Pick(new, {"k"}) = {"k"}
        BY <1>3, PickImage
      <4>2. QED
        BY <1>2, <3>1, <4>1 DEF UpdateImages
    <3>2. QED
      BY <1>6, <3>1 DEF UpdateImages
  <2>2. QED
    BY <1>2, <2>1, ImageOfRow
<1>7. QED
  BY <1>2, <1>4, <1>5, <1>6

\* The event of an update is well formed and names the row's key or no key.
LEMMA UpdateEventIs ==
    ASSUME NEW old \in Rows, NEW new \in Rows, NEW i \in UpdateImages(old, new),
           NewFirst => old["k"] = new["k"]
    PROVE  LET e == Event("update", Nothing, i)
           IN /\ e \in Events /\ e.op = "update" /\ e.after = i /\ WellFormed(e)
              /\ AfterKey(e) \in {new["k"], Null}
              /\ e.schema = IF kind \in Schemaless THEN DOMAIN i ELSE Cols
<1> DEFINE e == Event("update", Nothing, i)
<1>1. /\ i \in Images /\ Get(i, "k") \in {new["k"], Null} /\ new["k"] \in Keys
      /\ kind # "oracle" => "k" \in DOMAIN i /\ Get(i, "k") = new["k"]
  BY UpdateImageKey, RowType
<1>2. /\ e \in Events /\ e.op = "update" /\ e.after = i
      /\ e.schema = IF kind \in Schemaless THEN DOMAIN i ELSE Cols
  BY <1>1, EventOfImages, NothingImage
<1>3. AfterKey(e) = Get(i, "k")
  BY <1>2 DEF AfterKey
<1>4. "k" \in e.schema
  BY <1>1, <1>2 DEF Schemaless, Cols
<1>5. QED
  BY <1>1, <1>2, <1>3, <1>4 DEF WellFormed

-----------------------------------------------------------------------------
(* write_batch *)

\* The rows of a VALUES list and those a MERGE leaves are full rows of the event's key.
LEMMA MergedRows ==
    ASSUME NEW rows \in SUBSET FullRows, NEW e \in Events, NEW schema \in SUBSET Cols,
           "k" \in schema
    PROVE  /\ FullRow(e, schema) \in FullRows /\ FullRow(e, schema)["k"] = AfterKey(e)
           /\ \A r \in Merged(rows, e, schema) : r \in FullRows /\ r["k"] = AfterKey(e)
<1>1. e.after \in Images /\ Null \in Data /\ "k" \in Cols
  BY DEF Events, Data, Cols
<1>2. \A c \in Cols : Get(e.after, c) \in Data
  BY <1>1, GetType
<1>3. FullRow(e, schema) \in FullRows /\ FullRow(e, schema)["k"] = AfterKey(e)
  BY <1>1, <1>2 DEF FullRow, FullRows, AfterKey
<1>4. ASSUME NEW r \in rows
      PROVE  LET s == [c \in Cols |-> IF c \in schema THEN Get(e.after, c) ELSE r[c]]
             IN s \in FullRows /\ s["k"] = AfterKey(e)
  <2>1. \A c \in Cols : r[c] \in Data
    BY DEF FullRows
  <2>2. QED
    BY <1>1, <1>2, <2>1 DEF FullRows, AfterKey
<1>5. \A r \in RowsOf(rows, AfterKey(e)) : r \in rows
  BY DEF RowsOf
<1>6. QED
  BY <1>3, <1>4, <1>5 DEF Merged

\* A MERGE of an event that carries a row leaves it, if the schema leaves out
\* nothing but columns that are Null already.
LEMMA MergeOfRow ==
    ASSUME NEW rows \in SUBSET FullRows, NEW e \in Events, NEW schema \in SUBSET Cols,
           NEW row \in Rows, AfterKey(e) = row["k"],
           \A c \in Cols : Get(e.after, c) = row[c],
           \A c \in Cols \ schema :
              row[c] = Null /\ \A r \in RowsOf(rows, row["k"]) : r[c] = Null
    PROVE  Merged(rows, e, schema) = {row}
<1>1. row \in FullRows /\ row["k"] # Null
  BY RowType
<1>2. FullRow(e, schema) = row
  BY <1>1 DEF FullRow, FullRows
<1>3. ASSUME NEW r \in RowsOf(rows, row["k"])
      PROVE  [c \in Cols |-> IF c \in schema THEN Get(e.after, c) ELSE r[c]] = row
  BY <1>1 DEF FullRows
<1>4. QED
  BY <1>1, <1>2, <1>3 DEF Merged

\* A batch is a sequence of events, and has a first one unless it is empty.
LEMMA EventsSeq ==
    ASSUME NEW events \in Seq(Events)
    PROVE  /\ Len(events) \in Nat /\ DOMAIN events = 1..Len(events)
           /\ \A i \in DOMAIN events : events[i] \in Events
           /\ events # <<>> => 1 \in DOMAIN events
           /\ events = <<>> <=> DOMAIN events = {}
<1>1. Len(events) \in Nat /\ DOMAIN events = 1..Len(events)
  BY LenProperties
<1>2. \A i \in 1..Len(events) : events[i] \in Events
  BY ElementOfSeq
<1>3. events # <<>> => Len(events) \in Nat \ {0}
  BY EmptySeq
<1>4. events # <<>> => 1 \in DOMAIN events
  BY <1>1, <1>3
<1>5. events = <<>> => DOMAIN events = {}
  OBVIOUS
<1>6. QED
  BY <1>1, <1>2, <1>4, <1>5

\* The batch with one more event.
With(events, e) == events \o <<e>>

\* One more event is the last, and the others stay where they are.
LEMMA AppendSeq ==
    ASSUME NEW events \in Seq(Events), NEW e \in Events
    PROVE  /\ With(events, e) \in Seq(Events) /\ With(events, e) # <<>>
           /\ Len(With(events, e)) = Len(events) + 1
           /\ DOMAIN With(events, e) = DOMAIN events \union {Len(events) + 1}
           /\ \A i \in DOMAIN events : With(events, e)[i] = events[i]
           /\ With(events, e)[Len(events) + 1] = e
<1>1. <<e>> \in Seq(Events) /\ Len(<<e>>) = 1 /\ <<e>>[1] = e
  OBVIOUS
<1>2. /\ With(events, e) \in Seq(Events) /\ Len(With(events, e)) = Len(events) + 1
      /\ \A i \in 1..(Len(events) + 1) :
            With(events, e)[i] = IF i <= Len(events) THEN events[i] ELSE <<e>>[i - Len(events)]
  BY <1>1, ConcatProperties DEF With
<1>3. Len(events) \in Nat /\ DOMAIN events = 1..Len(events)
  BY EventsSeq
<1>4. DOMAIN With(events, e) = 1..(Len(events) + 1)
  BY <1>2, EventsSeq
<1>5. 1..(Len(events) + 1) = 1..Len(events) \union {Len(events) + 1}
  BY <1>3
<1>6. \A i \in DOMAIN events : With(events, e)[i] = events[i]
  BY <1>2, <1>3
<1>7. With(events, e)[Len(events) + 1] = e
  BY <1>1, <1>2, <1>3
<1>8. With(events, e) # <<>>
  BY <1>2, <1>4, <1>5, EventsSeq
<1>9. QED
  BY <1>2, <1>3, <1>4, <1>5, <1>6, <1>7, <1>8

\* A batch of well-formed events stays one.
LEMMA AppendWellFormed ==
    ASSUME NEW events \in Seq(Events), \A i \in DOMAIN events : WellFormed(events[i]),
           NEW e \in Events, WellFormed(e)
    PROVE  /\ With(events, e) \in Seq(Events)
           /\ \A i \in DOMAIN With(events, e) : WellFormed(With(events, e)[i])
<1>1. /\ With(events, e) \in Seq(Events)
      /\ DOMAIN With(events, e) = DOMAIN events \union {Len(events) + 1}
      /\ \A i \in DOMAIN events : With(events, e)[i] = events[i]
      /\ With(events, e)[Len(events) + 1] = e
  BY AppendSeq
<1>2. ASSUME NEW i \in DOMAIN With(events, e) PROVE WellFormed(With(events, e)[i])
  BY <1>1
<1>3. QED
  BY <1>1, <1>2

\* What the rows of a key become: nothing if the batch deletes it, the outcome of
\* the merge of its last upsert, or what they were.
LEMMA WrittenRows ==
    ASSUME Keyed, NEW rows \in SUBSET FullRows, NEW events \in Seq(Events), events # <<>>,
           \A i \in DOMAIN events : WellFormed(events[i]), NEW key \in Keys
    PROVE  RowsOf(Written(rows, events), key) =
              IF key \in Deleted(events) THEN {}
              ELSE IF Lasts(events, key) = {} THEN RowsOf(rows, key)
              ELSE UNION {Merged(rows, events[i], events[1].schema) : i \in Lasts(events, key)}
<1> DEFINE schema == events[1].schema
           merged == LastPerKey(events)
           touched == {AfterKey(events[i]) : i \in merged} \ {Null}
           added == UNION {Merged(rows, events[i], schema) : i \in merged}
           ofKey == UNION {Merged(rows, events[i], schema) : i \in Lasts(events, key)}
<1>1. 1 \in DOMAIN events /\ events[1] \in Events
  BY EventsSeq
<1>2. schema \in SUBSET Cols /\ "k" \in schema
  BY <1>1 DEF Events, WellFormed
<1>3. merged \subseteq DOMAIN events /\ \A i \in DOMAIN events : events[i] \in Events
  BY DEF LastPerKey, Upserts
<1>4. \A i \in merged : \A r \in Merged(rows, events[i], schema) : r["k"] = AfterKey(events[i])
  BY <1>2, <1>3, MergedRows
<1>5. RowsOf(added, key) = ofKey
  BY <1>4 DEF RowsOf, Lasts
<1>6. key # Null /\ (key \in touched <=> Lasts(events, key) # {})
  BY ImagesAssumption DEF Lasts
<1>7. Written(rows, events) =
        {r \in {r \in rows : r["k"] \notin touched} \union added : r["k"] \notin Deleted(events)}
  BY DEF Written
<1>8. RowsOf(Written(rows, events), key) =
        IF key \in Deleted(events) THEN {}
        ELSE (IF key \in touched THEN {} ELSE RowsOf(rows, key)) \union RowsOf(added, key)
  BY <1>7 DEF RowsOf
<1>9. Lasts(events, key) = {} => ofKey = {}
  OBVIOUS
<1>10. QED
  BY <1>5, <1>6, <1>8, <1>9

\* The keys a batch deletes, and its first schema, with one more event.
FirstSchema(events, e) == IF events = <<>> THEN e.schema ELSE events[1].schema

LEMMA AppendDeleted ==
    ASSUME NEW events \in Seq(Events), NEW e \in Events
    PROVE  Deleted(With(events, e)) =
              Deleted(events) \union (IF e.op = "delete" THEN {Get(e.before, "k")} \ {Null} ELSE {})
<1> DEFINE more == With(events, e)
           n == Len(events) + 1
<1>1. /\ DOMAIN more = DOMAIN events \union {n} /\ more[n] = e
      /\ \A i \in DOMAIN events : more[i] = events[i]
  BY AppendSeq
<1>2. \A key : key \in Deleted(more) <=>
              key # Null /\ \E i \in DOMAIN more : more[i].op = "delete" /\ key = Get(more[i].before, "k")
  BY DEF Deleted
<1>3. \A key : key \in Deleted(events) <=>
              key # Null /\ \E i \in DOMAIN events : events[i].op = "delete" /\ key = Get(events[i].before, "k")
  BY DEF Deleted
<1> HIDE DEF more, n
<1>4. \A key : key \in Deleted(more) <=>
              key \in Deleted(events) \/ (key # Null /\ e.op = "delete" /\ key = Get(e.before, "k"))
  BY <1>1, <1>2, <1>3
<1>5. QED
  BY <1>4 DEF more

LEMMA AppendSchema ==
    ASSUME NEW events \in Seq(Events), NEW e \in Events
    PROVE  With(events, e)[1].schema = FirstSchema(events, e)
<1>1. CASE events = <<>>
  <2>1. Len(events) = 0
    BY <1>1, EmptySeq
  <2>2. Len(events) + 1 = 1
    BY <2>1
  <2>3. With(events, e)[Len(events) + 1] = e
    BY AppendSeq
  <2>4. With(events, e)[1] = e
    BY <2>2, <2>3
  <2>5. QED
    BY <1>1, <2>4 DEF FirstSchema
<1>2. CASE events # <<>>
  <2>1. \A i \in DOMAIN events : With(events, e)[i] = events[i]
    BY AppendSeq
  <2>2. 1 \in DOMAIN events
    BY <1>2, EventsSeq
  <2>3. With(events, e)[1] = events[1]
    BY <2>1, <2>2
  <2>4. QED
    BY <1>2, <2>3 DEF FirstSchema
<1>3. QED
  BY <1>1, <1>2

\* The last upserts of a key: an upsert of the key takes their place, any other
\* event leaves them.
LEMMA AppendLasts ==
    ASSUME NEW events \in Seq(Events), NEW e \in Events, NEW key
    PROVE  Lasts(With(events, e), key) =
              IF e.op # "delete" /\ AfterKey(e) = key THEN {Len(events) + 1} ELSE Lasts(events, key)
<1> DEFINE more == With(events, e)
           n == Len(events) + 1
<1>1. /\ DOMAIN more = DOMAIN events \union {n} /\ more[n] = e
      /\ \A i \in DOMAIN events : more[i] = events[i]
  BY AppendSeq
<1>2. n \notin DOMAIN events /\ \A i \in DOMAIN events : i \in Nat /\ i < n
  BY EventsSeq
<1>3. n \in Nat
  BY EventsSeq
<1> HIDE DEF more, n
<1>4. Upserts(more) = Upserts(events) \union (IF e.op # "delete" THEN {n} ELSE {})
  BY <1>1 DEF Upserts
<1>5. \A i \in Upserts(events) : i \in DOMAIN events
  BY DEF Upserts
<1>6. CASE e.op # "delete" /\ AfterKey(e) = key
  <2>1. \A i \in Upserts(events) : AfterKey(more[i]) = key => i \notin LastPerKey(more)
    BY <1>1, <1>2, <1>4, <1>5, <1>6 DEF LastPerKey
  <2>2. n \in LastPerKey(more)
    BY <1>1, <1>2, <1>3, <1>4, <1>5, <1>6 DEF LastPerKey
  <2>3. Lasts(more, key) = {n}
    <3>1. LastPerKey(more) \subseteq Upserts(events) \union {n}
      BY <1>4 DEF LastPerKey
    <3>2. QED
      BY <1>1, <1>6, <2>1, <2>2, <3>1 DEF Lasts
  <2>4. QED
    BY <1>6, <2>3 DEF more, n
<1>7. CASE ~(e.op # "delete" /\ AfterKey(e) = key)
  <2>1. \A i \in Upserts(events) : AfterKey(events[i]) = key =>
           (i \in LastPerKey(more) <=> i \in LastPerKey(events))
    BY <1>1, <1>2, <1>4, <1>5, <1>7 DEF LastPerKey
  <2>2. n \in LastPerKey(more) => AfterKey(more[n]) # key
    BY <1>1, <1>2, <1>4, <1>5, <1>7 DEF LastPerKey
  <2>3. LastPerKey(more) \subseteq Upserts(events) \union {n}
        /\ LastPerKey(events) \subseteq Upserts(events)
    BY <1>4 DEF LastPerKey
  <2>4. \A i \in Upserts(events) : more[i] = events[i]
    BY <1>1, <1>5
  <2>5. Lasts(more, key) = Lasts(events, key)
    BY <2>1, <2>2, <2>3, <2>4 DEF Lasts
  <2>6. QED
    BY <1>7, <2>5 DEF more
<1>8. QED
  BY <1>6, <1>7

\* The rows of a key once a batch, empty or not, is written.
LEMMA ResultRows ==
    ASSUME Keyed, NEW rows \in SUBSET FullRows, NEW events \in Seq(Events),
           \A i \in DOMAIN events : WellFormed(events[i]), NEW key \in Keys
    PROVE  RowsOf(Result(rows, events), key) =
              IF key \in Deleted(events) THEN {}
              ELSE IF Lasts(events, key) = {} THEN RowsOf(rows, key)
              ELSE UNION {Merged(rows, events[i], events[1].schema) : i \in Lasts(events, key)}
<1>1. CASE events = <<>>
  <2>1. DOMAIN events = {}
    BY <1>1, EventsSeq
  <2>2. Deleted(events) = {} /\ Lasts(events, key) = {}
    BY <2>1 DEF Deleted, Lasts, LastPerKey, Upserts
  <2>3. Result(rows, events) = rows
    BY <1>1 DEF Result
  <2>4. QED
    BY <2>2, <2>3
<1>2. CASE events # <<>>
  <2>1. Result(rows, events) = Written(rows, events)
    BY <1>2 DEF Result
  <2>2. QED
    BY <1>2, <2>1, WrittenRows
<1>3. QED
  BY <1>1, <1>2

\* What one more event of the batch changes for a key: a delete of it leaves
\* nothing, an upsert of it is merged into the rows of before the batch unless the
\* batch deletes the key, and other events change nothing.
LEMMA AppendRows ==
    ASSUME Keyed, NEW rows \in SUBSET FullRows, NEW events \in Seq(Events),
           \A i \in DOMAIN events : WellFormed(events[i]),
           NEW e \in Events, WellFormed(e), NEW key \in Keys
    PROVE  RowsOf(Result(rows, With(events, e)), key) =
              IF e.op = "delete" /\ Get(e.before, "k") = key THEN {}
              ELSE IF e.op # "delete" /\ AfterKey(e) = key
              THEN IF key \in Deleted(events) THEN {}
                   ELSE Merged(rows, e, FirstSchema(events, e))
              ELSE RowsOf(Result(rows, events), key)
<1> DEFINE more == With(events, e)
           n == Len(events) + 1
           kept == UNION {Merged(rows, events[i], events[1].schema) : i \in Lasts(events, key)}
<1>1. /\ more \in Seq(Events) /\ DOMAIN more = DOMAIN events \union {n} /\ more[n] = e
      /\ \A i \in DOMAIN events : more[i] = events[i]
  BY AppendSeq
<1>2. \A i \in DOMAIN more : WellFormed(more[i])
  BY <1>1
<1>3. RowsOf(Result(rows, events), key) =
        IF key \in Deleted(events) THEN {}
        ELSE IF Lasts(events, key) = {} THEN RowsOf(rows, key) ELSE kept
  BY ResultRows
<1>4. RowsOf(Result(rows, more), key) =
        IF key \in Deleted(more) THEN {}
        ELSE IF Lasts(more, key) = {} THEN RowsOf(rows, key)
        ELSE UNION {Merged(rows, more[i], more[1].schema) : i \in Lasts(more, key)}
  BY <1>1, <1>2, ResultRows
<1>5. more[1].schema = FirstSchema(events, e)
  BY AppendSchema
<1>6. key # Null
  BY ImagesAssumption
<1>7. key \in Deleted(more) <=>
        key \in Deleted(events) \/ (e.op = "delete" /\ Get(e.before, "k") = key)
  BY <1>6, AppendDeleted
<1>8. CASE e.op # "delete" /\ AfterKey(e) = key
  <2>1. Lasts(more, key) = {n}
    BY <1>8, AppendLasts
  <2>2. UNION {Merged(rows, more[i], more[1].schema) : i \in Lasts(more, key)} =
          Merged(rows, e, FirstSchema(events, e))
    BY <1>1, <1>5, <2>1
  <2>3. QED
    BY <1>4, <1>7, <1>8, <2>1, <2>2
<1>9. CASE ~(e.op # "delete" /\ AfterKey(e) = key)
  <2>1. Lasts(more, key) = Lasts(events, key)
    BY <1>9, AppendLasts
  <2>2. \A i \in Lasts(events, key) : i \in DOMAIN events
    BY DEF Lasts, LastPerKey, Upserts
  <2>3. Lasts(events, key) # {} => more[1].schema = events[1].schema
    BY <1>5, <2>2, EventsSeq DEF FirstSchema
  <2>4. Lasts(events, key) # {} =>
          UNION {Merged(rows, more[i], more[1].schema) : i \in Lasts(more, key)} = kept
    BY <1>1, <2>1, <2>2, <2>3
  <2>5. QED
    BY <1>3, <1>4, <1>7, <1>9, <2>1, <2>4
<1>10. QED
  BY <1>8, <1>9

\* Without a primary key every upsert adds a row, and a delete does nothing.
LEMMA AppendUnkeyed ==
    ASSUME ~Keyed, NEW rows \in SUBSET FullRows, NEW events \in Seq(Events),
           \A i \in DOMAIN events : WellFormed(events[i]),
           NEW e \in Events, WellFormed(e)
    PROVE  Result(rows, With(events, e)) =
              Result(rows, events) \union
                 (IF e.op = "delete" THEN {} ELSE {FullRow(e, Cols)})
<1> DEFINE more == With(events, e)
           n == Len(events) + 1
<1>1. /\ more \in Seq(Events) /\ DOMAIN more = DOMAIN events \union {n} /\ more[n] = e
      /\ \A i \in DOMAIN events : more[i] = events[i]
      /\ more # <<>>
  BY AppendSeq
<1>2. kind \notin Schemaless
  BY DEF Keyed, Schemaless
<1>3. more[1].schema = Cols
  BY <1>1, <1>2, EventsSeq DEF WellFormed
<1>4. events # <<>> => events[1].schema = Cols
  BY <1>2, EventsSeq DEF WellFormed
<1>5. Result(rows, more) = rows \union {FullRow(more[i], Cols) : i \in Upserts(more)}
  BY <1>1, <1>3 DEF Result, Written
<1>6. Upserts(more) = Upserts(events) \union (IF e.op # "delete" THEN {n} ELSE {})
  <2> HIDE DEF more, n
  <2>1. QED
    BY <1>1 DEF Upserts
<1>7. \A i \in Upserts(events) : i \in DOMAIN events
  BY DEF Upserts
<1>8. Result(rows, events) = rows \union {FullRow(events[i], Cols) : i \in Upserts(events)}
  <2>1. CASE events = <<>>
    BY <1>7, <2>1, EventsSeq DEF Result
  <2>2. CASE events # <<>>
    BY <1>4, <2>2 DEF Result, Written
  <2>3. QED
    BY <2>1, <2>2
<1>9. QED
  <2> HIDE DEF more, n
  <2>1. Result(rows, more) = Result(rows, events) \union
           (IF e.op = "delete" THEN {} ELSE {FullRow(e, Cols)})
    BY <1>1, <1>5, <1>6, <1>7, <1>8
  <2>2. QED
    BY <2>1 DEF more

\* What write_batch leaves are full rows; only Oracle's updates lack the key.
LEMMA ResultTypes ==
    ASSUME NEW rows \in SUBSET FullRows, NEW events \in Seq(Events),
           \A i \in DOMAIN events : WellFormed(events[i])
    PROVE  /\ Result(rows, events) \in SUBSET FullRows
           /\ kind # "oracle" /\ Null \notin KeysOf(rows) => Null \notin KeysOf(Result(rows, events))
<1>1. CASE events = <<>>
  BY <1>1 DEF Result
<1>2. CASE events # <<>>
  <2> DEFINE schema == events[1].schema
             merged == LastPerKey(events)
             added == UNION {Merged(rows, events[i], schema) : i \in merged}
  <2>1. /\ 1 \in DOMAIN events /\ \A i \in DOMAIN events : events[i] \in Events
        /\ \A i \in Upserts(events) : i \in DOMAIN events /\ events[i].op # "delete"
        /\ \A i \in merged : i \in Upserts(events)
    BY <1>2, EventsSeq DEF Upserts, LastPerKey
  <2>2. schema \in SUBSET Cols /\ "k" \in schema
    BY <2>1 DEF Events, WellFormed
  <2>3. \A i \in Upserts(events) :
          /\ FullRow(events[i], schema) \in FullRows
          /\ FullRow(events[i], schema)["k"] = AfterKey(events[i])
          /\ \A r \in Merged(rows, events[i], schema) :
                r \in FullRows /\ r["k"] = AfterKey(events[i])
    BY <2>1, <2>2, MergedRows
  <2>4. kind # "oracle" => \A i \in Upserts(events) : AfterKey(events[i]) # Null
    BY <2>1, ImagesAssumption DEF WellFormed
  <2>5. \A r \in Result(rows, events) :
          \/ r \in rows
          \/ \E i \in Upserts(events) : r = FullRow(events[i], schema)
          \/ \E i \in Upserts(events) : r \in Merged(rows, events[i], schema)
    BY <1>2, <2>1 DEF Result, Written
  <2>6. \A r \in Result(rows, events) :
          r \in FullRows /\ (r \in rows \/ \E i \in Upserts(events) : r["k"] = AfterKey(events[i]))
    BY <2>3, <2>5
  <2>7. QED
    BY <2>4, <2>6 DEF KeysOf
<1>3. QED
  BY <1>1, <1>2

\* Two more events: those of a row whose key changes, where a source splits it.
LEMMA AppendTwoSeq ==
    ASSUME NEW events \in Seq(Events), NEW d \in Events, NEW e \in Events
    PROVE  events \o <<d, e>> = With(With(events, d), e)
<1> DEFINE n == Len(events)
           two == events \o <<d, e>>
           one == With(events, d)
           more == With(one, e)
<1>1. <<d, e>> \in Seq(Events) /\ Len(<<d, e>>) = 2 /\ <<d, e>>[1] = d /\ <<d, e>>[2] = e
  OBVIOUS
<1>2. /\ two \in Seq(Events) /\ Len(two) = n + 2
      /\ \A i \in 1..(n + 2) : two[i] = IF i <= n THEN events[i] ELSE <<d, e>>[i - n]
  BY <1>1, ConcatProperties
<1>3. n \in Nat /\ DOMAIN events = 1..n
  BY EventsSeq
<1>4. /\ one \in Seq(Events) /\ one # <<>> /\ Len(one) = n + 1
      /\ DOMAIN one = DOMAIN events \union {n + 1}
      /\ \A i \in DOMAIN events : one[i] = events[i]
      /\ one[n + 1] = d
  BY AppendSeq
<1> HIDE DEF one
<1>5. /\ more \in Seq(Events) /\ more # <<>> /\ Len(more) = Len(one) + 1
      /\ DOMAIN more = DOMAIN one \union {Len(one) + 1}
      /\ \A i \in DOMAIN one : more[i] = one[i]
      /\ more[Len(one) + 1] = e
  BY <1>4, AppendSeq
<1> HIDE DEF more, n
<1>6. /\ Len(more) = n + 2 /\ more[n + 2] = e
      /\ \A i \in 1..(n + 1) : more[i] = one[i]
  BY <1>3, <1>4, <1>5
<1> HIDE DEF two
<1>7. ASSUME NEW i \in 1..(n + 2) PROVE two[i] = more[i]
  <2>1. CASE i <= n
    BY <1>2, <1>3, <1>4, <1>6, <2>1
  <2>2. CASE i = n + 1
    BY <1>1, <1>2, <1>3, <1>4, <1>6, <2>2
  <2>3. CASE i = n + 2
    BY <1>1, <1>2, <1>3, <1>6, <2>3
  <2>4. QED
    BY <1>3, <2>1, <2>2, <2>3
<1>8. two = more
  BY <1>2, <1>3, <1>5, <1>6, <1>7, SeqEqual
<1>9. QED
  BY <1>8 DEF two, one, more

\* A batch of well-formed events with two more.
LEMMA AppendTwoWellFormed ==
    ASSUME NEW events \in Seq(Events), \A i \in DOMAIN events : WellFormed(events[i]),
           NEW d \in Events, WellFormed(d), NEW e \in Events, WellFormed(e),
           NEW mid, mid = With(events, d), NEW more, more = With(mid, e)
    PROVE  /\ mid \in Seq(Events) /\ \A i \in DOMAIN mid : WellFormed(mid[i])
           /\ more \in Seq(Events) /\ \A i \in DOMAIN more : WellFormed(more[i])
<1>1. mid \in Seq(Events) /\ \A i \in DOMAIN mid : WellFormed(mid[i])
  BY AppendWellFormed
<1>2. more \in Seq(Events) /\ \A i \in DOMAIN more : WellFormed(more[i])
  BY <1>1, AppendWellFormed
<1>3. QED
  BY <1>1, <1>2

\* The key an event is about.
About(e) == IF e.op = "delete" THEN Get(e.before, "k") ELSE AfterKey(e)

\* The rows of a key with an event d of one key and an insert e of another behind the
\* batch.
TwoRows(rows, events, d, e, key) ==
    IF AfterKey(e) = key
    THEN IF key \in Deleted(events) THEN {} ELSE Merged(rows, e, FirstSchema(events, d))
    ELSE IF About(d) # key THEN RowsOf(Result(rows, events), key)
    ELSE IF d.op = "delete" \/ key \in Deleted(events) THEN {}
    ELSE Merged(rows, d, FirstSchema(events, d))

\* Neither of the two is touched by the other: the deletes of a batch come last, but
\* d is about another key.
LEMMA AppendTwoRows ==
    ASSUME NEW rows \in SUBSET FullRows, NEW events \in Seq(Events),
           \A i \in DOMAIN events : WellFormed(events[i]),
           NEW d \in Events, WellFormed(d),
           NEW e \in Events, WellFormed(e), e.op = "insert",
           About(d) # AfterKey(e),
           NEW mid, mid = With(events, d), NEW more, more = With(mid, e),
           Keyed, NEW key \in Keys
    PROVE  RowsOf(Result(rows, more), key) = TwoRows(rows, events, d, e, key)
<1>1. mid \in Seq(Events) /\ \A i \in DOMAIN mid : WellFormed(mid[i])
  BY AppendTwoWellFormed
<1>2. FirstSchema(mid, e) = FirstSchema(events, d)
  <2>1. With(events, d) # <<>>
    BY AppendSeq
  <2>2. mid[1].schema = FirstSchema(events, d)
    BY AppendSchema
  <2>3. QED
    BY <2>1, <2>2 DEF FirstSchema
<1>3. Deleted(mid) =
        Deleted(events) \union (IF d.op = "delete" THEN {Get(d.before, "k")} \ {Null} ELSE {})
  BY AppendDeleted
<1>4. RowsOf(Result(rows, With(events, d)), key) =
         IF d.op = "delete" /\ Get(d.before, "k") = key THEN {}
         ELSE IF d.op # "delete" /\ AfterKey(d) = key
         THEN IF key \in Deleted(events) THEN {} ELSE Merged(rows, d, FirstSchema(events, d))
         ELSE RowsOf(Result(rows, events), key)
  BY AppendRows, ZenonT(60)
<1>5. RowsOf(Result(rows, With(mid, e)), key) =
         IF e.op = "delete" /\ Get(e.before, "k") = key THEN {}
         ELSE IF e.op # "delete" /\ AfterKey(e) = key
         THEN IF key \in Deleted(mid) THEN {} ELSE Merged(rows, e, FirstSchema(mid, e))
         ELSE RowsOf(Result(rows, mid), key)
  BY <1>1, AppendRows, ZenonT(60)
<1>6. CASE AfterKey(e) = key
  <2>1. key \in Deleted(mid) <=> key \in Deleted(events)
    BY <1>3, <1>6 DEF About
  <2>2. QED
    BY <1>2, <1>5, <1>6, <2>1 DEF TwoRows
<1>7. CASE AfterKey(e) # key
  BY <1>4, <1>5, <1>7 DEF TwoRows, About
<1>8. QED
  BY <1>6, <1>7

\* Without a primary key the insert behind a delete adds its row.
LEMMA AppendTwoUnkeyed ==
    ASSUME NEW rows \in SUBSET FullRows, NEW events \in Seq(Events),
           \A i \in DOMAIN events : WellFormed(events[i]),
           NEW d \in Events, WellFormed(d), d.op = "delete",
           NEW e \in Events, WellFormed(e), e.op = "insert",
           NEW mid, mid = With(events, d), NEW more, more = With(mid, e),
           ~Keyed
    PROVE  Result(rows, more) = Result(rows, events) \union {FullRow(e, Cols)}
<1>1. mid \in Seq(Events) /\ \A i \in DOMAIN mid : WellFormed(mid[i])
  BY AppendTwoWellFormed
<1>2. Result(rows, mid) =
        Result(rows, events) \union (IF d.op = "delete" THEN {} ELSE {FullRow(d, Cols)})
  BY AppendUnkeyed
<1>3. Result(rows, more) =
        Result(rows, mid) \union (IF e.op = "delete" THEN {} ELSE {FullRow(e, Cols)})
  BY <1>1, AppendUnkeyed
<1>4. QED
  BY <1>2, <1>3

-----------------------------------------------------------------------------
(* The source's table *)

\* A table with the row old, if it is there, replaced by new: the key has new's row
\* alone, and other keys keep theirs unless they lost the row old.
Replaced(rows, old, new, rest) ==
    /\ rest \in SUBSET Rows /\ IsFiniteSet(rest) /\ Single(rest)
    /\ KeysOf(rest) = KeysOf(rows \ {old}) \union {new["k"]}
    /\ RowsOf(rest, new["k"]) = {new}
    /\ \A key \in Keys \ {new["k"]} : RowsOf(rest, key) = RowsOf(rows, key) \ {old}

LEMMA ReplaceRow ==
    ASSUME NEW rows \in SUBSET Rows, IsFiniteSet(rows), Single(rows),
           NEW old, NEW new \in Rows, new["k"] \notin KeysOf(rows \ {old}),
           NEW rest, rest = (rows \ {old}) \union {new}
    PROVE  Replaced(rows, old, new, rest)
<1>1. IsFiniteSet(rows \ {old}) /\ IsFiniteSet(rest)
  BY FS_RemoveElement, FS_AddElement
<1>2. \A r \in rows \ {old} : r["k"] # new["k"]
  BY DEF KeysOf
<1>3. Single(rest)
  BY <1>2 DEF Single
<1>4. KeysOf(rest) = KeysOf(rows \ {old}) \union {new["k"]}
  BY DEF KeysOf
<1>5. RowsOf(rest, new["k"]) = {new}
  BY <1>2 DEF RowsOf
<1>6. \A key \in Keys \ {new["k"]} : RowsOf(rest, key) = RowsOf(rows, key) \ {old}
  BY DEF RowsOf
<1>7. QED
  BY <1>1, <1>3, <1>4, <1>5, <1>6 DEF Replaced

\* A table without one of its rows: its key is gone, and other keys keep their rows.
LEMMA RemoveRow ==
    ASSUME NEW rows \in SUBSET Rows, IsFiniteSet(rows), Single(rows), NEW old \in rows
    PROVE  LET rest == rows \ {old}
           IN /\ rest \in SUBSET Rows /\ IsFiniteSet(rest) /\ Single(rest)
              /\ KeysOf(rest) = KeysOf(rows) \ {old["k"]}
              /\ RowsOf(rest, old["k"]) = {}
              /\ \A key \in Keys \ {old["k"]} : RowsOf(rest, key) = RowsOf(rows, key)
<1>1. IsFiniteSet(rows \ {old})
  BY FS_RemoveElement
<1>2. \A r \in rows \ {old} : r["k"] # old["k"]
  BY DEF Single
<1>3. Single(rows \ {old}) /\ KeysOf(rows \ {old}) = KeysOf(rows) \ {old["k"]}
  BY <1>2 DEF Single, KeysOf
<1>4. RowsOf(rows \ {old}, old["k"]) = {}
  BY <1>2 DEF RowsOf
<1>5. \A key \in Keys \ {old["k"]} : RowsOf(rows \ {old}, key) = RowsOf(rows, key)
  BY DEF RowsOf
<1>6. QED
  BY <1>1, <1>3, <1>4, <1>5

\* The rows of a key: one or none.
LEMMA RowsOfKey ==
    ASSUME NEW rows \in SUBSET Rows, Single(rows)
    PROVE  /\ KeysOf(rows) \subseteq Keys
           /\ \A key : key \notin KeysOf(rows) <=> RowsOf(rows, key) = {}
           /\ \A r \in rows : RowsOf(rows, r["k"]) = {r}
<1>1. \A r \in rows : r["k"] \in Keys
  BY RowType
<1>2. QED
  BY <1>1 DEF KeysOf, RowsOf, Single

-----------------------------------------------------------------------------
(* Steps *)

\* Reached in terms of the lemmas about written batches.
LEMMA ReachedIs ==
    /\ Reached = Result(sink, batch)
    /\ kind' = kind => Reached' = Result(sink', batch')
  BY DEF Reached, Result, Written, Keyed

\* A batch with one more event.
LEMMA LogOne ==
    ASSUME ImagesTypeOK, BatchInv, UNCHANGED <<kind, sink>>,
           NEW e \in Events, WellFormed(e), batch' = batch \o <<e>>
    PROVE  /\ batch' \in Seq(Events) /\ BatchInv'
           /\ Keyed => \A key \in Keys :
                RowsOf(Reached', key) =
                   IF e.op = "delete" /\ Get(e.before, "k") = key THEN {}
                   ELSE IF e.op # "delete" /\ AfterKey(e) = key
                   THEN IF PendingDelete(key) THEN {} ELSE Merged(sink, e, BatchSchema(e))
                   ELSE RowsOf(Reached, key)
           /\ ~Keyed => Reached' = Reached \union
                (IF e.op = "delete" THEN {} ELSE {FullRow(e, Cols)})
<1>1. batch \in Seq(Events) /\ sink \in SUBSET FullRows
      /\ \A i \in DOMAIN batch : WellFormed(batch[i])
  BY DEF ImagesTypeOK, BatchInv
<1>2. batch' \in Seq(Events) /\ \A i \in DOMAIN batch' : WellFormed(batch'[i])
  BY <1>1, AppendSeq DEF With
<1>3. BatchInv'
  BY <1>2 DEF BatchInv, WellFormed, Schemaless, AfterKey
<1>4. Reached = Result(sink, batch) /\ Reached' = Result(sink, With(batch, e))
  BY ReachedIs DEF With
<1>5. FirstSchema(batch, e) = BatchSchema(e) /\ \A key : PendingDelete(key) <=> key \in Deleted(batch)
  BY DEF FirstSchema, BatchSchema, PendingDelete
<1>6. ASSUME Keyed, NEW key \in Keys
      PROVE  RowsOf(Reached', key) =
                IF e.op = "delete" /\ Get(e.before, "k") = key THEN {}
                ELSE IF e.op # "delete" /\ AfterKey(e) = key
                THEN IF PendingDelete(key) THEN {} ELSE Merged(sink, e, BatchSchema(e))
                ELSE RowsOf(Reached, key)
  BY <1>1, <1>4, <1>5, <1>6, AppendRows
<1>7. ~Keyed => Reached' = Reached \union (IF e.op = "delete" THEN {} ELSE {FullRow(e, Cols)})
  BY <1>1, <1>4, AppendUnkeyed
<1>8. QED
  BY <1>2, <1>3, <1>6, <1>7

\* A batch with an event of one key and an insert of another.
LEMMA LogTwo ==
    ASSUME ImagesTypeOK, BatchInv, UNCHANGED <<kind, sink>>,
           NEW d \in Events, WellFormed(d),
           NEW e \in Events, WellFormed(e), e.op = "insert",
           About(d) # AfterKey(e), Keyed \/ d.op = "delete",
           batch' = batch \o <<d, e>>
    PROVE  /\ batch' \in Seq(Events) /\ BatchInv'
           /\ Keyed => \A key \in Keys : RowsOf(Reached', key) = TwoRows(sink, batch, d, e, key)
           /\ ~Keyed => Reached' = Reached \union {FullRow(e, Cols)}
<1>1. batch \in Seq(Events) /\ sink \in SUBSET FullRows
      /\ \A i \in DOMAIN batch : WellFormed(batch[i])
  BY DEF ImagesTypeOK, BatchInv
<1>2. batch' = With(With(batch, d), e)
  BY <1>1, AppendTwoSeq
<1>3. Reached = Result(sink, batch) /\ Reached' = Result(sink, batch')
  BY ReachedIs
<1>4. PICK mid : mid = With(batch, d)
  OBVIOUS
<1>5. PICK more : more = batch'
  OBVIOUS
<1>6. more = With(mid, e)
  BY <1>2, <1>4, <1>5
<1>7. more \in Seq(Events) /\ \A i \in DOMAIN more : WellFormed(more[i])
  BY <1>1, <1>4, <1>6, AppendTwoWellFormed
<1>8. ASSUME Keyed, NEW key \in Keys
      PROVE  RowsOf(Result(sink, more), key) = TwoRows(sink, batch, d, e, key)
  BY <1>1, <1>4, <1>6, <1>8, AppendTwoRows
<1>9. ~Keyed => Result(sink, more) = Result(sink, batch) \union {FullRow(e, Cols)}
  BY <1>1, <1>4, <1>6, AppendTwoUnkeyed
<1>10. BatchInv'
  BY <1>5, <1>7 DEF BatchInv, WellFormed, Schemaless, AfterKey
<1>11. QED
  BY <1>3, <1>5, <1>7, <1>8, <1>9, <1>10

\* The schema a batch will have with an event: the columns, but for a document's.
LEMMA SchemaOfBatch ==
    ASSUME ImagesTypeOK, BatchInv, NEW e \in Events, WellFormed(e)
    PROVE  /\ BatchSchema(e) \in SUBSET Cols /\ "k" \in BatchSchema(e)
           /\ kind \notin Schemaless => BatchSchema(e) = Cols
<1>1. CASE batch = <<>>
  BY <1>1 DEF BatchSchema, WellFormed, Events
<1>2. CASE batch # <<>>
  <2>1. 1 \in DOMAIN batch /\ batch[1] \in Events
    BY <1>2, EventsSeq DEF ImagesTypeOK
  <2>2. WellFormed(batch[1])
    BY <2>1 DEF BatchInv
  <2>3. QED
    BY <1>2, <2>1, <2>2 DEF BatchSchema, WellFormed, Events
<1>3. QED
  BY <1>1, <1>2

\* A column the batch's schema leaves out is in the target as it will be.
LEMMA ColumnsLeftOut ==
    ASSUME ImagesTypeOK, BatchInv, Keyed, NEW e, NEW key \in Keys, ~PendingDelete(key),
           NEW s \in RowsOf(sink, key), NEW c \in Cols \ BatchSchema(e)
    PROVE  \E r \in RowsOf(Reached, key) : r[c] = s[c]
<1>1. batch \in Seq(Events) /\ sink \in SUBSET FullRows
      /\ \A i \in DOMAIN batch : WellFormed(batch[i])
  BY DEF ImagesTypeOK, BatchInv
<1>2. key \notin Deleted(batch) /\ key # Null
  BY ImagesAssumption DEF PendingDelete
<1>3. RowsOf(Reached, key) =
        IF Lasts(batch, key) = {} THEN RowsOf(sink, key)
        ELSE UNION {Merged(sink, batch[i], batch[1].schema) : i \in Lasts(batch, key)}
  BY <1>1, <1>2, ResultRows, ReachedIs
<1>4. CASE Lasts(batch, key) = {}
  BY <1>3, <1>4
<1>5. CASE Lasts(batch, key) # {}
  <2>1. PICK i \in Lasts(batch, key) : TRUE
    BY <1>5
  <2>2. i \in DOMAIN batch /\ AfterKey(batch[i]) = key
    BY DEF Lasts, LastPerKey, Upserts
  <2>3. batch[1].schema = BatchSchema(e)
    BY <1>1, <2>2, EventsSeq DEF BatchSchema
  <2> DEFINE r == [d \in Cols |-> IF d \in BatchSchema(e) THEN Get(batch[i].after, d) ELSE s[d]]
  <2>4. r \in Merged(sink, batch[i], BatchSchema(e))
    BY <1>2, <2>2 DEF Merged
  <2>5. r \in RowsOf(Reached, key)
    BY <1>3, <1>5, <2>3, <2>4
  <2>6. QED
    BY <2>5
<1>6. QED
  BY <1>4, <1>5

\* With the schema of a table a MERGE takes every column of the event.
LEMMA MergeTakesColumns ==
    ASSUME NEW rows \in SUBSET FullRows, NEW e \in Events
    PROVE  \A r \in Merged(rows, e, Cols) : \A c \in Cols : r[c] = Get(e.after, c)
BY DEF Merged, FullRow

\* Where neither batch nor target change, what will be reached does not.
LEMMA ReachedSame ==
    ASSUME UNCHANGED <<kind, batch, sink>>
    PROVE  Reached' = Reached
BY DEF Reached, Written, Keyed

\* What sets the sources apart.
LEMMA KindsDiffer ==
    /\ kind \in Schemaless \union {"snowflake"} => Keyed /\ ~NewFirst
    /\ kind \in Schemaless => kind \notin MovesKeys
    /\ kind = "postgres" => Keyed /\ kind \notin Schemaless /\ kind \notin SplitsKeys /\ ~NewFirst
    /\ kind \in SplitsKeys => kind \notin MovesKeys /\ kind \notin {"snowflake", "postgres"}
    /\ NewFirst => kind \notin MovesKeys \union SplitsKeys
    /\ ~Keyed <=> kind = "debezium"
    /\ ~Keyed => kind \notin Schemaless /\ ~NewFirst
BY DEF Schemaless, Keyed, MovesKeys, SplitsKeys, NewFirst

\* An insert that arrives leaves its row alone: the target had none for the key, or
\* the schema leaves out no column.
LEMMA ArrivingRow ==
    ASSUME ImagesTypeOK, BatchInv, LogInv, kind # "snowflake", Keyed,
           NEW row \in Rows, row["k"] \notin KeysOf(table),
           NEW e, e = InsertEvent(row), NEW first \in Events, WellFormed(first),
           Arrives(row, e, BatchSchema(first))
    PROVE  Merged(sink, e, BatchSchema(first)) = {row}
<1>1. row["k"] \in Keys /\ row["v"] # Null
  BY RowType
<1>2. e \in Events /\ AfterKey(e) = row["k"] /\ (NewFirst => DOMAIN e.after = {"k"})
      /\ (~NewFirst => \A c \in Cols : Get(e.after, c) = row[c])
  BY InsertEventIs
<1>3. ~NewFirst
  <2>1. "v" \in Cols /\ "v" \in Present(row) /\ "v" \notin {"k"}
    BY <1>1 DEF Present, Cols
  <2>2. QED
    BY <1>2, <2>1 DEF Arrives
<1>4. BatchSchema(first) \in SUBSET Cols /\ sink \in SUBSET FullRows
  BY SchemaOfBatch DEF ImagesTypeOK
<1>5. ASSUME NEW c \in Cols \ BatchSchema(first)
      PROVE  row[c] = Null /\ \A r \in RowsOf(sink, row["k"]) : r[c] = Null
  <2>1. row["k"] \notin harmed /\ Present(row) \subseteq BatchSchema(first) /\ ~PendingDelete(row["k"])
    BY <1>5 DEF Arrives
  <2>2. row[c] = Null
    BY <1>5, <2>1 DEF Present
  <2>3. RowsOf(Reached, row["k"]) = {}
    BY <1>1, <2>1, RowsOfKey DEF LogInv, ImagesTypeOK
  <2>4. \A r \in RowsOf(sink, row["k"]) : FALSE
    BY <1>1, <1>5, <2>1, <2>3, ColumnsLeftOut
  <2>5. QED
    BY <2>2, <2>4
<1>6. QED
  BY <1>2, <1>3, <1>4, <1>5, MergeOfRow

\* What Snowflake's own state keeps when a change is made: the keys that are not
\* touched stay as they were.
LEMMA FaithfulKept ==
    ASSUME ImagesInv, kind = "snowflake", UNCHANGED <<kind, taken, sink, batch>>,
           unread' = TRUE, NEW key \in Keys \ harmed,
           RowsOf(table', key) = RowsOf(table, key),
           key \in KeysOf(table') <=> key \in KeysOf(table),
           origin'[key] = origin[key],
           \A other \in Keys : origin'[other] = key => \E third \in Keys : origin[third] = key
    PROVE  Faithful(key)'
<1>1. Faithful(key) /\ Reached' = Reached
  BY ReachedSame DEF ImagesInv, StreamInv
<1>2. QED
  BY <1>1 DEF Faithful

\* A delete: the key has no row in the source, and none once the batch is written.
LEMMA DeleteStep ==
    ASSUME ImagesInv, Delete
    PROVE  ImagesInv'
<1> USE DEF ImagesInv
<1>1. PICK old \in table :
        /\ table' = table \ {old}
        /\ Log(<<DeleteEvent(old)>>, [origin EXCEPT ![old["k"]] = Null])
        /\ harmed' = IF Keyed /\ (kind = "snowflake" => origin[old["k"]] = old["k"])
                     THEN harmed \ {old["k"]} ELSE harmed \union {old["k"]}
  BY DEF Delete
<1>2. UNCHANGED <<kind, taken, sink>>
  BY DEF Delete
<1>3. old \in Rows /\ old["k"] \in Keys
  BY RowType DEF ImagesTypeOK
<1>4. /\ table' \in SUBSET Rows /\ IsFiniteSet(table') /\ Single(table')
      /\ KeysOf(table') = KeysOf(table) \ {old["k"]}
      /\ RowsOf(table', old["k"]) = {}
      /\ \A key \in Keys \ {old["k"]} : RowsOf(table', key) = RowsOf(table, key)
  BY <1>1, RemoveRow DEF ImagesTypeOK
<1>5. PICK d : d = DeleteEvent(old)
  OBVIOUS
<1>6. d \in Events /\ d.op = "delete" /\ WellFormed(d) /\ Get(d.before, "k") = old["k"]
  BY <1>3, <1>5, DeleteEventIs
<1>7. harmed' \subseteq Keys
  BY <1>1, <1>3 DEF ImagesTypeOK
<1>8. KeylessRows'
  BY <1>2 DEF KeylessRows
<1>9. CASE kind = "snowflake"
  <2>1. batch' = batch /\ unread' = TRUE /\ origin' = [origin EXCEPT ![old["k"]] = Null]
    BY <1>1, <1>9 DEF Log
  <2>2. ImagesTypeOK' /\ BatchInv'
    BY <1>2, <1>4, <1>7, <2>1 DEF ImagesTypeOK, BatchInv, WellFormed, Schemaless, AfterKey
  <2>3. /\ OriginInv /\ origin'[old["k"]] = Null /\ Null \notin Keys
        /\ \A key \in Keys \ {old["k"]} : origin'[key] = origin[key]
    BY <1>3, <1>9, <2>1, ImagesAssumption DEF StreamInv, ImagesTypeOK
  <2>4. OriginInv'
    BY <1>2, <1>4, <2>3 DEF OriginInv
  <2>5. ASSUME NEW key \in Keys \ harmed' PROVE Faithful(key)'
    <3>1. CASE key = old["k"]
      <4>1. origin[key] = key
        BY <1>1, <1>9, <2>5, <3>1
      <4>2. \A other \in Keys : origin'[other] # key
        BY <2>3, <3>1, <4>1 DEF OriginInv
      <4>3. key \in KeysOf(taken) /\ key \notin KeysOf(table')
        BY <1>4, <2>3, <3>1, <4>1 DEF OriginInv
      <4>4. QED
        BY <1>2, <2>1, <4>2, <4>3 DEF Faithful
    <3>2. CASE key # old["k"]
      <4>1. key \in Keys \ harmed
        BY <1>1, <2>5, <3>2
      <4>2. \A other \in Keys : origin'[other] = key => origin[other] = key
        BY <2>3
      <4>3. QED
        BY <1>2, <1>4, <1>9, <2>1, <2>3, <3>2, <4>1, <4>2, FaithfulKept
    <3>3. QED
      BY <3>1, <3>2
  <2>6. StreamInv' /\ LogInv' /\ StaleInv'
    BY <1>2, <1>9, <2>4, <2>5 DEF StreamInv, LogInv, StaleInv
  <2>7. QED
    BY <1>8, <2>2, <2>6
<1>10. CASE kind # "snowflake"
  <2>1. batch' = batch \o <<d>> /\ UNCHANGED <<origin, unread>>
    BY <1>1, <1>5, <1>10 DEF Log
  <2>2. /\ batch' \in Seq(Events) /\ BatchInv'
        /\ Keyed => \A key \in Keys :
             RowsOf(Reached', key) =
                IF d.op = "delete" /\ Get(d.before, "k") = key THEN {}
                ELSE IF d.op # "delete" /\ AfterKey(d) = key
                THEN IF PendingDelete(key) THEN {} ELSE Merged(sink, d, BatchSchema(d))
                ELSE RowsOf(Reached, key)
        /\ ~Keyed => Reached' = Reached \union
             (IF d.op = "delete" THEN {} ELSE {FullRow(d, Cols)})
    BY <1>2, <1>6, <2>1, LogOne
  <2>3. ImagesTypeOK'
    BY <1>2, <1>4, <1>7, <2>1, <2>2 DEF ImagesTypeOK
  <2>4. \A key \in Keys \ {old["k"]} : RowsOf(Reached', key) = RowsOf(Reached, key)
    BY <1>6, <2>2
  <2>5. Keyed => RowsOf(Reached', old["k"]) = {}
    BY <1>3, <1>6, <2>2
  <2>6. LogInv'
    <3>1. ASSUME NEW key \in Keys \ harmed'
          PROVE  RowsOf(Reached', key) = RowsOf(table', key)
      <4>1. CASE key = old["k"]
        BY <1>1, <1>4, <2>5, <4>1
      <4>2. CASE key # old["k"]
        BY <1>1, <1>4, <1>10, <2>4, <4>2 DEF LogInv
      <4>3. QED
        BY <4>1, <4>2
    <3>2. QED
      BY <3>1 DEF LogInv
  <2>7. StaleInv'
    <3>1. \A r \in table' : r \in table /\ r["k"] \in Keys \ {old["k"]}
      BY <1>1, <1>4, RowType DEF KeysOf
    <3>2. QED
      BY <1>2, <2>4, <3>1 DEF StaleInv
  <2>8. StreamInv'
    BY <1>2, <1>10 DEF StreamInv
  <2>9. QED
    BY <1>8, <2>2, <2>3, <2>6, <2>7, <2>8
<1>11. QED
  BY <1>9, <1>10

\* An insert: unless its key is harmed, the MERGE leaves the new row alone.
LEMMA InsertStep ==
    ASSUME ImagesInv, Insert
    PROVE  ImagesInv'
<1> USE DEF ImagesInv
<1>1. PICK row \in Rows :
        /\ row["k"] \notin KeysOf(table)
        /\ table' = table \union {row}
        /\ Log(<<InsertEvent(row)>>, origin)
        /\ harmed' = IF kind = "snowflake" THEN HarmOfDifference({}, row["k"])
                     ELSE HarmOfInsert(row, InsertEvent(row), BatchSchema(InsertEvent(row)))
  BY DEF Insert
<1>2. UNCHANGED <<kind, taken, sink>>
  BY DEF Insert
<1>3. row["k"] \in Keys /\ table \in SUBSET Rows
  BY RowType DEF ImagesTypeOK
<1>4. /\ table' \in SUBSET Rows /\ IsFiniteSet(table') /\ Single(table')
      /\ KeysOf(table') = KeysOf(table) \union {row["k"]}
      /\ RowsOf(table', row["k"]) = {row}
      /\ \A key \in Keys \ {row["k"]} : RowsOf(table', key) = RowsOf(table, key)
  <2>1. table \ {row} = table
    BY <1>1 DEF KeysOf
  <2>2. table' = (table \ {row}) \union {row} /\ row["k"] \notin KeysOf(table \ {row})
    BY <1>1, <2>1
  <2>3. /\ table' \in SUBSET Rows /\ IsFiniteSet(table') /\ Single(table')
        /\ KeysOf(table') = KeysOf(table \ {row}) \union {row["k"]}
        /\ RowsOf(table', row["k"]) = {row}
        /\ \A key \in Keys \ {row["k"]} : RowsOf(table', key) = RowsOf(table, key) \ {row}
    <3> HIDE DEF ImagesInv
    <3>1. table \in SUBSET Rows /\ IsFiniteSet(table) /\ Single(table)
      BY DEF ImagesInv, ImagesTypeOK
    <3>2. Replaced(table, row, row, table')
      BY <2>2, <3>1, ReplaceRow
    <3>3. QED
      BY <3>2 DEF Replaced
  <2>4. \A key : RowsOf(table, key) \ {row} = RowsOf(table, key)
    BY <2>1 DEF RowsOf
  <2>5. QED
    BY <2>1, <2>3, <2>4
<1>5. PICK e : e = InsertEvent(row)
  OBVIOUS
<1>6. /\ e \in Events /\ e.op = "insert" /\ WellFormed(e)
      /\ AfterKey(e) = row["k"]
      /\ ~NewFirst => \A c \in Cols : Get(e.after, c) = row[c]
  BY <1>5, InsertEventIs
<1>7. /\ harmed' \subseteq harmed \union {row["k"]}
      /\ harmed \ {row["k"]} \subseteq harmed'
      /\ kind # "snowflake" /\ Keyed /\ row["k"] \notin harmed' => Arrives(row, e, BatchSchema(e))
      /\ kind # "snowflake" /\ ~Keyed => harmed' = harmed
  BY <1>1, <1>5 DEF HarmOfInsert, HarmOfDifference
<1>8. harmed' \subseteq Keys
  BY <1>3, <1>7 DEF ImagesTypeOK
<1>9. KeylessRows'
  BY <1>2 DEF KeylessRows
<1>11. CASE kind = "snowflake"
  <2>1. batch' = batch /\ unread' = TRUE /\ origin' = origin
    BY <1>1, <1>11 DEF Log
  <2>2. ImagesTypeOK' /\ BatchInv'
    BY <1>2, <1>4, <1>8, <2>1 DEF ImagesTypeOK, BatchInv, WellFormed, Schemaless, AfterKey
  <2>3. OriginInv'
    BY <1>2, <1>4, <1>11, <2>1 DEF StreamInv, OriginInv
  <2>4. ASSUME NEW key \in Keys \ harmed' PROVE Faithful(key)'
    <3>1. CASE key = row["k"]
      <4>1. key \notin KeysOf(taken)
        BY <1>1, <1>11, <2>4, <3>1 DEF HarmOfDifference
      <4>2. QED
        BY <1>2, <1>4, <2>1, <3>1, <4>1 DEF Faithful
    <3>2. CASE key # row["k"]
      <4>1. key \in Keys \ harmed
        BY <1>7, <2>4, <3>2
      <4>2. QED
        BY <1>2, <1>4, <1>11, <2>1, <3>2, <4>1, FaithfulKept
    <3>3. QED
      BY <3>1, <3>2
  <2>5. StreamInv' /\ LogInv' /\ StaleInv'
    BY <1>2, <1>11, <2>3, <2>4 DEF StreamInv, LogInv, StaleInv
  <2>6. QED
    BY <1>9, <2>2, <2>5
<1>12. CASE kind # "snowflake"
  <2>1. batch' = batch \o <<e>> /\ UNCHANGED <<origin, unread>>
    BY <1>1, <1>5, <1>12 DEF Log
  <2>2. /\ batch' \in Seq(Events) /\ BatchInv'
        /\ Keyed => \A key \in Keys :
             RowsOf(Reached', key) =
                IF e.op = "delete" /\ Get(e.before, "k") = key THEN {}
                ELSE IF e.op # "delete" /\ AfterKey(e) = key
                THEN IF PendingDelete(key) THEN {} ELSE Merged(sink, e, BatchSchema(e))
                ELSE RowsOf(Reached, key)
        /\ ~Keyed => Reached' = Reached \union
             (IF e.op = "delete" THEN {} ELSE {FullRow(e, Cols)})
    BY <1>2, <1>6, <2>1, LogOne
  <2>3. ImagesTypeOK'
    BY <1>2, <1>4, <1>8, <2>1, <2>2 DEF ImagesTypeOK
  <2>4. BatchSchema(e) \in SUBSET Cols /\ (kind \notin Schemaless => BatchSchema(e) = Cols)
    BY <1>6, SchemaOfBatch
  <2>5. sink \in SUBSET FullRows
    BY DEF ImagesTypeOK
  <2>6. \A key \in Keys \ {row["k"]} : RowsOf(Reached', key) = RowsOf(Reached, key)
    <3>1. CASE Keyed
      BY <1>6, <2>2, <3>1
    <3>2. CASE ~Keyed
      <4>1. Reached' = Reached \union {FullRow(e, Cols)} /\ FullRow(e, Cols)["k"] = row["k"]
        BY <1>6, <2>2, <3>2 DEF FullRow, AfterKey, Cols
      <4>2. QED
        BY <4>1 DEF RowsOf
    <3>3. QED
      BY <3>1, <3>2
  <2>7. ASSUME Keyed, row["k"] \notin harmed'
        PROVE  RowsOf(Reached', row["k"]) = {row}
    <3>1. Arrives(row, e, BatchSchema(e)) /\ ~PendingDelete(row["k"])
      BY <1>7, <1>12, <2>7 DEF Arrives
    <3>2. RowsOf(Reached', row["k"]) = Merged(sink, e, BatchSchema(e))
      BY <1>3, <1>6, <2>2, <2>7, <3>1
    <3>3. Merged(sink, e, BatchSchema(e)) = {row}
      BY <1>1, <1>5, <1>6, <1>12, <2>7, <3>1, ArrivingRow
    <3>4. QED
      BY <3>2, <3>3
  <2>8. LogInv'
    <3>1. ASSUME NEW key \in Keys \ harmed'
          PROVE  RowsOf(Reached', key) = RowsOf(table', key)
      <4>1. CASE key # row["k"]
        BY <1>4, <1>7, <1>12, <2>6, <4>1 DEF LogInv
      <4>2. CASE key = row["k"] /\ Keyed
        BY <1>4, <2>7, <4>2
      <4>3. CASE key = row["k"] /\ ~Keyed
        <5>1. key \in Keys \ harmed /\ ~NewFirst
          BY <1>7, <1>12, <3>1, <4>3, KindsDiffer
        <5>2. RowsOf(Reached, key) = {}
          BY <1>1, <1>3, <1>12, <4>3, <5>1, RowsOfKey DEF LogInv, ImagesTypeOK
        <5>3. FullRow(e, Cols) \in FullRows /\ \A c \in Cols : FullRow(e, Cols)[c] = row[c]
          <6>1. e.after \in Images
            BY <1>6 DEF Events
          <6>2. \A c \in Cols : Get(e.after, c) \in Data
            BY <6>1, GetType
          <6>3. QED
            BY <1>6, <5>1, <6>2 DEF FullRow, FullRows
        <5>4. FullRow(e, Cols) = row
          BY <5>3, RowType, RowsEqual
        <5>5. Reached' = Reached \union {row}
          BY <1>6, <2>2, <4>3, <5>4
        <5>6. RowsOf(Reached', key) = {row}
          BY <4>3, <5>2, <5>5 DEF RowsOf
        <5>7. QED
          BY <1>4, <4>3, <5>6
      <4>4. QED
        BY <4>1, <4>2, <4>3
    <3>2. QED
      BY <3>1 DEF LogInv
  <2>9. StaleInv'
    <3>1. ASSUME kind = "postgres", NEW r \in table', NEW s \in RowsOf(Reached', r["k"]), NEW c \in Cols
          PROVE  s[c] \in {r[c], Null}
      <4>1. r["k"] \in Keys /\ kind \notin Schemaless /\ Keyed /\ ~NewFirst
        BY <1>4, <3>1, RowType, KindsDiffer
      <4>2. CASE r["k"] = row["k"]
        <5>1. r = row
          BY <1>4, <4>2 DEF RowsOf
        <5>2. ~PendingDelete(row["k"])
          BY <1>3, <1>6, <2>2, <3>1, <4>1, <4>2
        <5>3. s \in Merged(sink, e, Cols)
          BY <1>3, <1>6, <2>2, <2>4, <3>1, <4>1, <4>2, <5>2
        <5>4. s[c] = Get(e.after, c)
          BY <1>6, <2>5, <5>3, MergeTakesColumns
        <5>5. QED
          BY <1>6, <4>1, <5>1, <5>4
      <4>3. CASE r["k"] # row["k"]
        <5>1. r \in table
          BY <1>1, <4>3
        <5>2. s \in RowsOf(Reached, r["k"])
          BY <2>6, <4>1, <4>3
        <5>3. QED
          BY <3>1, <5>1, <5>2 DEF StaleInv
      <4>4. QED
        BY <4>2, <4>3
    <3>2. QED
      BY <1>2, <3>1 DEF StaleInv
  <2>10. StreamInv'
    BY <1>2, <1>12 DEF StreamInv
  <2>11. QED
    BY <1>9, <2>2, <2>3, <2>8, <2>9, <2>10
<1>13. QED
  BY <1>11, <1>12

\* The image of a PostgreSQL update has the row's values or NULL.
LEMMA DecodedOrNull ==
    ASSUME kind = "postgres", NEW old \in Rows, NEW new \in Rows,
           NEW i \in UpdateImages(old, new), NEW c \in Cols
    PROVE  Get(i, c) \in {new[c], Null}
<1>1. i = DecodeTuple(old, new) /\ new \in FullRows
  BY RowType DEF UpdateImages
<1>2. i \in FullRows /\ i[c] \in {new[c], Null}
  BY <1>1 DEF DecodeTuple, FullRows, Data, Cols
<1>3. QED
  BY <1>2, FullImage

\* An update of a row of the table, before its events.
Updates(old, new) ==
    /\ old \in table /\ new \in Rows /\ old # new
    /\ \/ old["k"] = new["k"]
       \/ new["k"] \notin KeysOf(table) /\ kind \in MovesKeys \union SplitsKeys
    /\ table' = (table \ {old}) \union {new}
    /\ UNCHANGED <<kind, taken, sink>>

\* What an update makes of the source's table, whatever is logged.
LEMMA UpdatedTable ==
    ASSUME ImagesTypeOK, NEW old, NEW new, Updates(old, new)
    PROVE  /\ old \in Rows /\ new \in Rows /\ old["k"] \in Keys /\ new["k"] \in Keys
           /\ table' \in SUBSET Rows /\ IsFiniteSet(table') /\ Single(table')
           /\ RowsOf(table, old["k"]) = {old} /\ RowsOf(table', new["k"]) = {new}
           /\ old["k"] # new["k"] => RowsOf(table', old["k"]) = {}
           /\ \A key \in Keys \ {old["k"], new["k"]} : RowsOf(table', key) = RowsOf(table, key)
           /\ KeysOf(table') = (KeysOf(table) \ {old["k"]}) \union {new["k"]}
<1>1. table \in SUBSET Rows /\ IsFiniteSet(table) /\ Single(table)
  BY DEF ImagesTypeOK
<1>2. old \in table /\ new \in Rows /\ table' = (table \ {old}) \union {new}
  BY DEF Updates
<1>3. old \in Rows /\ old["k"] \in Keys /\ new["k"] \in Keys
  BY <1>1, <1>2, RowType
<1>4. KeysOf(table \ {old}) = KeysOf(table) \ {old["k"]}
  BY <1>1, <1>2, RemoveRow
<1>5. new["k"] \notin KeysOf(table \ {old})
  BY <1>4 DEF Updates
<1>6. Replaced(table, old, new, table')
  BY <1>1, <1>2, <1>5, ReplaceRow
<1>7. RowsOf(table, old["k"]) = {old}
  BY <1>1, <1>2, RowsOfKey
<1>8. \A key \in Keys \ {old["k"]} : RowsOf(table, key) \ {old} = RowsOf(table, key)
  BY DEF RowsOf
<1>9. QED
  BY <1>2, <1>3, <1>4, <1>6, <1>7, <1>8 DEF Replaced

\* What an update logged as one event adds to the history: the new key if columns are
\* lost, the old one if the key changes; it leaves other keys alone.
LEMMA UpdateHarm ==
    ASSUME NEW old, NEW new, NEW e, harmed' = HarmOfUpdate(old, new, e)
    PROVE  /\ harmed' \subseteq harmed \union {old["k"], new["k"]}
           /\ harmed \ {new["k"]} \subseteq harmed'
           /\ LostColumns(old, new, e) => new["k"] \in harmed'
           /\ BatchSchema(e) # Cols => harmed \subseteq harmed'
           /\ old["k"] # new["k"] => old["k"] \in harmed'
BY DEF HarmOfUpdate

\* An update Snowflake will read as a difference: other keys stay as they were.
LEMMA SnowflakeUpdateStep ==
    ASSUME ImagesInv, kind = "snowflake", NEW old, NEW new, Updates(old, new),
           batch' = batch, unread' = TRUE,
           origin' = [origin EXCEPT ![old["k"]] = Null, ![new["k"]] = origin[old["k"]]],
           harmed' = HarmOfDifference({old["k"]} \ {new["k"]}, new["k"])
    PROVE  ImagesInv'
<1>1. ImagesTypeOK /\ BatchInv /\ StreamInv /\ KeylessRows /\ OriginInv
  BY DEF ImagesInv, StreamInv
<1>2. UNCHANGED <<kind, taken, sink>>
  BY DEF Updates
<1>3. /\ old["k"] \in Keys /\ new["k"] \in Keys
      /\ table' \in SUBSET Rows /\ IsFiniteSet(table') /\ Single(table')
      /\ \A key \in Keys \ {old["k"], new["k"]} : RowsOf(table', key) = RowsOf(table, key)
      /\ KeysOf(table') = (KeysOf(table) \ {old["k"]}) \union {new["k"]}
  BY <1>1, UpdatedTable
<1>4. /\ harmed' \subseteq Keys /\ harmed \ {new["k"]} \subseteq harmed'
      /\ old["k"] # new["k"] => old["k"] \in harmed'
      /\ new["k"] \in KeysOf(taken) => new["k"] \in harmed'
  BY <1>1, <1>3 DEF HarmOfDifference, ImagesTypeOK
<1>5. /\ origin' \in [Keys -> Keys \union {Null}] /\ origin'[new["k"]] = origin[old["k"]]
      /\ old["k"] # new["k"] => origin'[old["k"]] = Null
      /\ \A key \in Keys \ {old["k"], new["k"]} : origin'[key] = origin[key]
  BY <1>1, <1>3, ImagesAssumption DEF ImagesTypeOK
<1>6. Null \notin Keys /\ (old["k"] # new["k"] => origin[new["k"]] = Null)
  <2>1. old["k"] # new["k"] => new["k"] \notin KeysOf(table)
    BY DEF Updates
  <2>2. QED
    BY <1>1, <1>3, <2>1, ImagesAssumption DEF OriginInv
<1>7. ImagesTypeOK' /\ BatchInv' /\ KeylessRows'
  <2>1. ImagesTypeOK'
    BY <1>1, <1>2, <1>3, <1>4, <1>5 DEF ImagesTypeOK
  <2>2. BatchInv'
    BY <1>1, <1>2 DEF BatchInv, WellFormed, Schemaless, AfterKey
  <2>3. KeylessRows'
    BY <1>1, <1>2 DEF KeylessRows
  <2>4. QED
    BY <2>1, <2>2, <2>3
<1>8. OriginInv'
  <2>1. \A key \in Keys : origin'[key] # Null => key \in KeysOf(table') /\ origin'[key] \in KeysOf(taken')
    BY <1>1, <1>2, <1>3, <1>5 DEF OriginInv
  <2>2. \A key \in Keys : origin'[key] # Null =>
           \/ key = new["k"] /\ origin'[key] = origin[old["k"]]
           \/ key \notin {old["k"], new["k"]} /\ origin'[key] = origin[key]
    BY <1>5
  <2>3. \A key, other \in Keys : origin'[key] = origin'[other] /\ origin'[key] # Null => key = other
    BY <1>1, <1>3, <2>2 DEF OriginInv
  <2>4. QED
    BY <2>1, <2>3 DEF OriginInv
<1>9. ASSUME NEW key \in Keys \ harmed' PROVE Faithful(key)'
  <2>1. CASE key = new["k"]
    <3>1. key \notin KeysOf(taken') /\ key \in KeysOf(table')
      BY <1>2, <1>3, <1>4, <1>9, <2>1
    <3>2. QED
      BY <3>1 DEF Faithful
  <2>2. CASE key # new["k"]
    <3>1. key \in Keys \ harmed /\ key # old["k"]
      BY <1>4, <1>9, <2>2
    <3>2. \A other \in Keys : origin'[other] = key => \E third \in Keys : origin[third] = key
      BY <1>3, <1>5, <1>6
    <3>3. QED
      BY <1>2, <1>3, <1>5, <2>2, <3>1, <3>2, FaithfulKept
  <2>3. QED
    BY <2>1, <2>2
<1>10. StreamInv' /\ LogInv' /\ StaleInv'
  BY <1>2, <1>8, <1>9 DEF StreamInv, LogInv, StaleInv
<1>11. QED
  BY <1>7, <1>10 DEF ImagesInv

\* An update logged as an event of the old key and an insert of the new one.
LEMMA SplitUpdateStep ==
    ASSUME ImagesInv, NEW old, NEW new, Updates(old, new),
           kind \in SplitsKeys, old["k"] # new["k"],
           NEW d \in Removals(old), NEW e, e = InsertEvent(new),
           batch' = batch \o <<d, e>>, UNCHANGED <<origin, unread>>,
           harmed' = HarmOfSplit(old, new, d, e)
    PROVE  ImagesInv'
<1>1. ImagesTypeOK /\ BatchInv /\ LogInv /\ KeylessRows
  BY DEF ImagesInv
<1>2. UNCHANGED <<kind, taken, sink>> /\ new["k"] \notin KeysOf(table)
  BY DEF Updates
<1>3. kind \notin {"snowflake", "postgres"} /\ ~NewFirst
  BY KindsDiffer
<1>4. /\ old \in Rows /\ new \in Rows /\ old["k"] \in Keys /\ new["k"] \in Keys
      /\ table' \in SUBSET Rows /\ IsFiniteSet(table') /\ Single(table')
      /\ RowsOf(table', new["k"]) = {new} /\ RowsOf(table', old["k"]) = {}
      /\ \A key \in Keys \ {old["k"], new["k"]} : RowsOf(table', key) = RowsOf(table, key)
  BY <1>1, UpdatedTable
<1>5. /\ d \in Events /\ WellFormed(d) /\ About(d) = old["k"] /\ (Keyed \/ d.op = "delete")
  <2>1. CASE d = DeleteEvent(old)
    BY <1>4, <2>1, DeleteEventIs DEF About
  <2>2. CASE kind = "datastream" /\ d = InsertEvent(old)
    BY <1>4, <2>2, InsertEventIs DEF About, Keyed
  <2>3. QED
    BY <2>1, <2>2 DEF Removals
<1>6. e \in Events /\ e.op = "insert" /\ WellFormed(e) /\ AfterKey(e) = new["k"]
  BY <1>4, InsertEventIs
<1>7. /\ batch' \in Seq(Events) /\ BatchInv'
      /\ Keyed => \A key \in Keys : RowsOf(Reached', key) = TwoRows(sink, batch, d, e, key)
      /\ ~Keyed => Reached' = Reached \union {FullRow(e, Cols)}
  BY <1>1, <1>2, <1>5, <1>6, LogTwo
<1>8. /\ harmed' \subseteq harmed \union {old["k"], new["k"]}
      /\ harmed \ {new["k"]} \subseteq harmed'
      /\ Keyed /\ new["k"] \notin harmed' => Arrives(new, e, BatchSchema(d))
      /\ Keyed /\ old["k"] \notin harmed' => d.op = "delete"
      /\ ~Keyed => old["k"] \in harmed' /\ new["k"] \in harmed'
  BY DEF HarmOfSplit, HarmOfInsert
<1>9. ImagesTypeOK' /\ KeylessRows'
  <2>1. harmed' \subseteq Keys
    BY <1>1, <1>4, <1>8 DEF ImagesTypeOK
  <2>2. ImagesTypeOK'
    BY <1>1, <1>2, <1>4, <1>7, <2>1 DEF ImagesTypeOK
  <2>3. QED
    BY <1>1, <1>2, <2>2 DEF KeylessRows
<1>10. LogInv'
  <2>1. ASSUME NEW key \in Keys \ harmed'
        PROVE  RowsOf(Reached', key) = RowsOf(table', key)
    <3>1. CASE Keyed /\ key = old["k"]
      BY <1>4, <1>5, <1>6, <1>7, <1>8, <2>1, <3>1 DEF TwoRows
    <3>2. CASE Keyed /\ key = new["k"]
      <4>1. Arrives(new, e, BatchSchema(d)) /\ key \notin Deleted(batch)
        BY <1>8, <2>1, <3>2 DEF Arrives, PendingDelete
      <4>2. FirstSchema(batch, d) = BatchSchema(d)
        BY DEF FirstSchema, BatchSchema
      <4>3. RowsOf(Reached', key) = Merged(sink, e, BatchSchema(d))
        BY <1>6, <1>7, <3>2, <4>1, <4>2 DEF TwoRows
      <4>4. Merged(sink, e, BatchSchema(d)) = {new}
        BY <1>1, <1>2, <1>3, <1>4, <1>5, <3>2, <4>1, ArrivingRow
      <4>5. QED
        BY <1>4, <3>2, <4>3, <4>4
    <3>3. CASE key \notin {old["k"], new["k"]}
      <4>1. RowsOf(Reached', key) = RowsOf(Reached, key)
        <5>1. CASE Keyed
          <6>1. Reached = Result(sink, batch)
            BY ReachedIs
          <6>2. QED
            BY <1>5, <1>6, <1>7, <3>3, <5>1, <6>1 DEF TwoRows
        <5>2. CASE ~Keyed
          <6>1. Reached' = Reached \union {FullRow(e, Cols)} /\ FullRow(e, Cols)["k"] = new["k"]
            BY <1>6, <1>7, <5>2 DEF FullRow, AfterKey, Cols
          <6>2. QED
            BY <3>3, <6>1 DEF RowsOf
        <5>3. QED
          BY <5>1, <5>2
      <4>2. key \in Keys \ harmed
        BY <1>8, <2>1, <3>3
      <4>3. QED
        BY <1>1, <1>3, <1>4, <3>3, <4>1, <4>2 DEF LogInv
    <3>4. CASE ~Keyed /\ key \in {old["k"], new["k"]}
      BY <1>8, <2>1, <3>4
    <3>5. QED
      BY <3>1, <3>2, <3>3, <3>4
  <2>2. QED
    BY <2>1 DEF LogInv
<1>11. StreamInv' /\ StaleInv'
  BY <1>2, <1>3 DEF StreamInv, StaleInv
<1>12. QED
  BY <1>7, <1>9, <1>10, <1>11 DEF ImagesInv

\* An update logged as one event: it loses columns and harms its key, or its image is
\* the new row and the columns the batch's schema leaves out are Null before and after.
LEMMA LoggedUpdateStep ==
    ASSUME ImagesInv, NEW old, NEW new, Updates(old, new), kind # "snowflake",
           kind \in SplitsKeys => old["k"] = new["k"],
           NEW i \in UpdateImages(old, new), NEW e, e = Event("update", Nothing, i),
           batch' = batch \o <<e>>, UNCHANGED <<origin, unread>>,
           harmed' = HarmOfUpdate(old, new, e)
    PROVE  ImagesInv'
<1>1. ImagesTypeOK /\ BatchInv /\ LogInv /\ StaleInv /\ KeylessRows
  BY DEF ImagesInv
<1>2. UNCHANGED <<kind, taken, sink>> /\ (NewFirst => old["k"] = new["k"])
  BY KindsDiffer DEF Updates
<1>3. /\ old \in Rows /\ new \in Rows /\ old["k"] \in Keys /\ new["k"] \in Keys
      /\ table' \in SUBSET Rows /\ IsFiniteSet(table') /\ Single(table')
      /\ RowsOf(table, old["k"]) = {old} /\ RowsOf(table', new["k"]) = {new}
      /\ \A key \in Keys \ {old["k"], new["k"]} : RowsOf(table', key) = RowsOf(table, key)
      /\ KeysOf(table') = (KeysOf(table) \ {old["k"]}) \union {new["k"]}
  BY <1>1, UpdatedTable
<1>4. /\ e \in Events /\ e.op = "update" /\ e.after = i /\ WellFormed(e)
      /\ AfterKey(e) \in {new["k"], Null} /\ AfterKey(e) = Get(i, "k")
      /\ kind # "oracle" => AfterKey(e) = new["k"]
  <2>1. /\ e \in Events /\ e.op = "update" /\ e.after = i /\ WellFormed(e)
        /\ AfterKey(e) \in {new["k"], Null}
    BY <1>2, <1>3, UpdateEventIs
  <2>2. AfterKey(e) = Get(i, "k")
    BY <2>1 DEF AfterKey
  <2>3. kind # "oracle" => Get(i, "k") = new["k"]
    BY <1>2, <1>3, UpdateImageKey
  <2>4. QED
    BY <2>1, <2>2, <2>3
<1>5. /\ batch' \in Seq(Events) /\ BatchInv'
      /\ Keyed => \A key \in Keys :
           RowsOf(Reached', key) =
              IF e.op = "delete" /\ Get(e.before, "k") = key THEN {}
              ELSE IF e.op # "delete" /\ AfterKey(e) = key
              THEN IF PendingDelete(key) THEN {} ELSE Merged(sink, e, BatchSchema(e))
              ELSE RowsOf(Reached, key)
      /\ ~Keyed => Reached' = Reached \union
           (IF e.op = "delete" THEN {} ELSE {FullRow(e, Cols)})
  BY <1>1, <1>2, <1>4, LogOne
<1>6. /\ harmed' \subseteq harmed \union {old["k"], new["k"]}
      /\ harmed \ {new["k"]} \subseteq harmed'
      /\ LostColumns(old, new, e) => new["k"] \in harmed'
      /\ BatchSchema(e) # Cols => harmed \subseteq harmed'
      /\ old["k"] # new["k"] => old["k"] \in harmed'
  BY UpdateHarm
<1>7. old["k"] # new["k"] => kind \notin Schemaless
  BY KindsDiffer DEF Updates
<1>8. /\ BatchSchema(e) \in SUBSET Cols /\ sink \in SUBSET FullRows
      /\ kind \notin Schemaless => BatchSchema(e) = Cols
  BY <1>1, <1>4, SchemaOfBatch DEF ImagesTypeOK
<1>9. ImagesTypeOK' /\ KeylessRows'
  <2>1. harmed' \subseteq Keys
    BY <1>1, <1>2, <1>3, <1>6 DEF ImagesTypeOK
  <2>2. ImagesTypeOK'
    BY <1>1, <1>2, <1>3, <1>5, <2>1 DEF ImagesTypeOK
  <2>3. QED
    BY <1>1, <1>2, <2>2 DEF KeylessRows
<1>11. \A key \in Keys \ {new["k"]} : RowsOf(Reached', key) = RowsOf(Reached, key)
  <2>1. CASE Keyed
    <3>1. \A key \in Keys \ {new["k"]} : AfterKey(e) # key
      BY <1>4, ImagesAssumption
    <3>2. QED
      BY <1>4, <1>5, <2>1, <3>1
  <2>2. CASE ~Keyed
    <3>1. Reached' = Reached \union {FullRow(e, Cols)} /\ FullRow(e, Cols)["k"] = AfterKey(e)
      BY <1>4, <1>5, <2>2 DEF FullRow, AfterKey, Cols
    <3>2. AfterKey(e) = new["k"]
      BY <1>4, <2>2 DEF Keyed
    <3>3. QED
      BY <3>1, <3>2 DEF RowsOf
  <2>3. QED
    BY <2>1, <2>2
<1>12. ASSUME new["k"] \notin harmed'
       PROVE  RowsOf(Reached', new["k"]) = {new}
  <2>1. ~LostColumns(old, new, e)
    BY <1>6, <1>12
  <2>2. /\ Keyed /\ ~PendingDelete(new["k"]) /\ \A c \in Cols : Get(i, c) = new[c]
        /\ kind \notin Schemaless => DOMAIN i = Cols
    BY <1>2, <1>3, <2>1, UpdateImageWhole
  <2>3. AfterKey(e) = new["k"]
    BY <1>4, <2>2 DEF Cols
  <2>4. RowsOf(Reached', new["k"]) = Merged(sink, e, BatchSchema(e))
    BY <1>3, <1>4, <1>5, <2>2, <2>3
  <2>5. ASSUME NEW c \in Cols \ BatchSchema(e)
        PROVE  new[c] = Null /\ \A r \in RowsOf(sink, new["k"]) : r[c] = Null
    <3>1. kind \in Schemaless
      BY <1>8, <2>5
    <3>2. DOMAIN i = BatchSchema(e) /\ Present(old) \subseteq DOMAIN i
      BY <1>4, <2>1, <3>1 DEF LostColumns
    <3>3. new[c] = Null /\ old[c] = Null
      BY <2>2, <2>5, <3>2 DEF Get, Present
    <3>4. old["k"] = new["k"]
      BY <1>7, <3>1
    <3>5. BatchSchema(e) # Cols
      BY <2>5
    <3>6. RowsOf(Reached, new["k"]) = {old}
      BY <1>1, <1>3, <1>6, <1>12, <3>4, <3>5 DEF LogInv
    <3>7. \A r \in RowsOf(sink, new["k"]) : r[c] = old[c]
      <4>1. ASSUME NEW r \in RowsOf(sink, new["k"])
            PROVE  \E s \in RowsOf(Reached, new["k"]) : s[c] = r[c]
        BY <1>1, <1>3, <2>2, <2>5, ColumnsLeftOut
      <4>2. QED
        BY <3>6, <4>1
    <3>8. QED
      BY <3>3, <3>7
  <2>6. Merged(sink, e, BatchSchema(e)) = {new}
    BY <1>3, <1>4, <1>8, <2>2, <2>3, <2>5, MergeOfRow
  <2>7. QED
    BY <2>4, <2>6
<1>13. LogInv'
  <2>1. ASSUME NEW key \in Keys \ harmed'
        PROVE  RowsOf(Reached', key) = RowsOf(table', key)
    <3>1. CASE key = new["k"]
      BY <1>3, <1>12, <2>1, <3>1
    <3>2. CASE key # new["k"]
      <4>1. key # old["k"] /\ key \in Keys \ harmed
        BY <1>6, <2>1, <3>2
      <4>2. QED
        BY <1>1, <1>3, <1>11, <3>2, <4>1 DEF LogInv
    <3>3. QED
      BY <3>1, <3>2
  <2>2. QED
    BY <2>1 DEF LogInv
<1>14. StaleInv'
  <2>1. ASSUME kind = "postgres", NEW r \in table', NEW s \in RowsOf(Reached', r["k"]), NEW c \in Cols
        PROVE  s[c] \in {r[c], Null}
    <3>1. kind \notin Schemaless /\ Keyed /\ r["k"] \in Keys
      BY <1>3, <2>1, RowType, KindsDiffer
    <3>2. CASE r["k"] = new["k"]
      <4>1. r = new
        BY <1>3, <3>2 DEF RowsOf
      <4>2. AfterKey(e) = new["k"]
        BY <1>4, <2>1
      <4>3. s \in Merged(sink, e, Cols)
        <5>1. RowsOf(Reached', new["k"]) =
                IF PendingDelete(new["k"]) THEN {} ELSE Merged(sink, e, BatchSchema(e))
          BY <1>3, <1>4, <1>5, <3>1, <4>2
        <5>2. QED
          BY <1>8, <2>1, <3>1, <3>2, <5>1
      <4>4. s[c] = Get(i, c)
        BY <1>4, <1>8, <4>3, MergeTakesColumns
      <4>5. QED
        BY <1>3, <2>1, <4>1, <4>4, DecodedOrNull
    <3>3. CASE r["k"] # new["k"]
      <4>1. r \in table
        BY <3>3 DEF Updates
      <4>2. s \in RowsOf(Reached, r["k"])
        BY <1>11, <3>1, <3>3
      <4>3. QED
        BY <1>1, <2>1, <4>1, <4>2 DEF StaleInv
    <3>4. QED
      BY <3>2, <3>3
  <2>2. QED
    BY <1>2, <2>1 DEF StaleInv
<1>15. StreamInv'
  BY <1>2 DEF StreamInv
<1>16. QED
  BY <1>5, <1>9, <1>13, <1>14, <1>15 DEF ImagesInv

\* An update is one of the three.
LEMMA UpdateStep ==
    ASSUME ImagesInv, Update
    PROVE  ImagesInv'
<1>1. PICK old \in table, new \in Rows :
        /\ old # new
        /\ \/ old["k"] = new["k"]
           \/ new["k"] \notin KeysOf(table) /\ kind \in MovesKeys \union SplitsKeys
        /\ table' = (table \ {old}) \union {new}
        /\ \E events \in UpdateEvents(old, new) :
              /\ Log(events, [origin EXCEPT ![old["k"]] = Null, ![new["k"]] = origin[old["k"]]])
              /\ harmed' = IF kind = "snowflake"
                           THEN HarmOfDifference({old["k"]} \ {new["k"]}, new["k"])
                           ELSE IF Len(events) = 2
                           THEN HarmOfSplit(old, new, events[1], events[2])
                           ELSE HarmOfUpdate(old, new, events[1])
  BY DEF Update
<1>2. Updates(old, new)
  BY <1>1 DEF Updates, Update
<1>3. PICK events \in UpdateEvents(old, new) :
        /\ Log(events, [origin EXCEPT ![old["k"]] = Null, ![new["k"]] = origin[old["k"]]])
        /\ harmed' = IF kind = "snowflake"
                     THEN HarmOfDifference({old["k"]} \ {new["k"]}, new["k"])
                     ELSE IF Len(events) = 2
                     THEN HarmOfSplit(old, new, events[1], events[2])
                     ELSE HarmOfUpdate(old, new, events[1])
  BY <1>1
<1>4. CASE kind = "snowflake"
  BY <1>2, <1>3, <1>4, SnowflakeUpdateStep DEF Log
<1>5. CASE kind # "snowflake" /\ kind \in SplitsKeys /\ old["k"] # new["k"]
  <2>1. PICK d \in Removals(old) : events = <<d, InsertEvent(new)>>
    BY <1>5 DEF UpdateEvents
  <2>2. PICK e : e = InsertEvent(new)
    OBVIOUS
  <2>3. events = <<d, e>> /\ Len(events) = 2 /\ events[1] = d /\ events[2] = e
    BY <2>1, <2>2
  <2>4. batch' = batch \o <<d, e>> /\ UNCHANGED <<origin, unread>>
    BY <1>3, <1>5, <2>3 DEF Log
  <2>5. harmed' = HarmOfSplit(old, new, d, e)
    BY <1>3, <1>5, <2>3
  <2>6. QED
    BY <1>2, <1>5, <2>2, <2>4, <2>5, SplitUpdateStep
<1>6. CASE kind # "snowflake" /\ ~(kind \in SplitsKeys /\ old["k"] # new["k"])
  <2>1. PICK i \in UpdateImages(old, new) : events = <<Event("update", Nothing, i)>>
    BY <1>3, <1>6 DEF UpdateEvents
  <2>2. PICK e : e = Event("update", Nothing, i)
    OBVIOUS
  <2>3. events = <<e>> /\ Len(events) = 1 /\ events[1] = e
    BY <2>1, <2>2
  <2>4. batch' = batch \o <<e>> /\ UNCHANGED <<origin, unread>>
    BY <1>3, <1>6, <2>3 DEF Log
  <2>5. harmed' = HarmOfUpdate(old, new, e)
    BY <1>3, <1>6, <2>3
  <2>6. QED
    BY <1>2, <1>6, <2>2, <2>4, <2>5, LoggedUpdateStep
<1>7. QED
  BY <1>4, <1>5, <1>6

LEMMA FlushStep ==
    ASSUME ImagesInv, Flush
    PROVE  ImagesInv'
<1>1. ImagesTypeOK /\ BatchInv /\ LogInv /\ StreamInv /\ StaleInv /\ KeylessRows
  BY DEF ImagesInv
<1>2. /\ batch # <<>> /\ sink' = Written(sink, batch) /\ batch' = <<>>
      /\ UNCHANGED <<kind, table, taken, origin, unread, changes, harmed>>
  BY DEF Flush
<1>3. sink' = Result(sink, batch) /\ Reached' = sink' /\ Reached = sink'
  BY <1>2 DEF Result, Reached
<1>4. /\ sink' \in SUBSET FullRows
      /\ kind # "oracle" /\ Null \notin KeysOf(sink) => Null \notin KeysOf(sink')
  BY <1>1, <1>3, ResultTypes DEF ImagesTypeOK, BatchInv
<1>5. ImagesTypeOK' /\ BatchInv'
  BY <1>1, <1>2, <1>4 DEF ImagesTypeOK, BatchInv
<1>6. KeylessRows'
  BY <1>1, <1>2, <1>4 DEF KeylessRows
<1>8. LogInv' /\ StreamInv' /\ StaleInv'
  BY <1>1, <1>2, <1>3 DEF LogInv, StreamInv, OriginInv, Faithful, StaleInv
<1>9. QED
  BY <1>5, <1>6, <1>8 DEF ImagesInv

LEMMA StutterStep ==
    ASSUME ImagesInv, UNCHANGED imageVars
    PROVE  ImagesInv'
<1>1. ImagesTypeOK /\ BatchInv /\ LogInv /\ StreamInv /\ StaleInv /\ KeylessRows
  BY DEF ImagesInv
<1>2. UNCHANGED <<kind, table, taken, origin, unread, batch, sink, changes, harmed>>
  BY DEF imageVars
<1>3. Reached' = Reached
  BY <1>2, ReachedSame
<1>4. ImagesTypeOK' /\ BatchInv' /\ KeylessRows'
  BY <1>1, <1>2 DEF ImagesTypeOK, BatchInv, WellFormed, Schemaless, AfterKey, KeylessRows
<1>5. LogInv' /\ StreamInv' /\ StaleInv'
  BY <1>1, <1>2, <1>3 DEF LogInv, StreamInv, OriginInv, Faithful, StaleInv
<1>6. QED
  BY <1>4, <1>5 DEF ImagesInv

LEMMA ImagesStart == ImagesInit => ImagesInv
<1> SUFFICES ASSUME ImagesInit PROVE ImagesInv
  OBVIOUS
<1>1. /\ kind \in Kinds /\ taken = table /\ unread = FALSE
      /\ origin = [key \in Keys |-> IF key \in KeysOf(table) THEN key ELSE Null]
      /\ batch = <<>> /\ sink = table /\ harmed = {}
  BY DEF ImagesInit
<1>2. /\ table \in SUBSET Rows /\ IsFiniteSet(table) /\ Single(table)
      /\ <<>> \in Seq(Events) /\ DOMAIN batch = {}
  BY <1>1, ImagesAssumption DEF ImagesInit
<1>3. \A r \in table : r \in FullRows /\ r["k"] \in Keys /\ r["k"] # Null
  BY <1>2, RowType
<1>4. ImagesTypeOK /\ BatchInv
  BY <1>1, <1>2, <1>3 DEF ImagesTypeOK, BatchInv
<1>5. Reached = table
  BY <1>1 DEF Reached
<1>6. LogInv /\ KeylessRows
  BY <1>1, <1>3, <1>5 DEF LogInv, KeylessRows, KeysOf
<1>7. StaleInv
  BY <1>2, <1>5 DEF StaleInv, RowsOf, Single
<1>8. StreamInv
  <2>1. Null \notin Keys
    BY ImagesAssumption
  <2>2. OriginInv
    BY <1>1, <2>1 DEF OriginInv
  <2>3. ASSUME NEW key \in Keys PROVE Faithful(key)
    <3>1. key \notin KeysOf(table) => RowsOf(table, key) = {}
      BY <1>2, RowsOfKey
    <3>2. QED
      BY <1>1, <1>5, <2>1, <3>1 DEF Faithful
  <2>4. QED
    BY <2>2, <2>3 DEF StreamInv
<1>9. QED
  BY <1>4, <1>6, <1>7, <1>8 DEF ImagesInv

\* A poll reads finitely many rows: one for each row of a changed key, before and after.
LEMMA StreamFinite ==
    ASSUME ImagesTypeOK
    PROVE  IsFiniteSet(StreamRows)
<1> DEFINE up == [r \in taken \union table |-> Event("update", Nothing, Image(r))]
           del == [r \in taken |-> DeleteEvent(r)]
           ins == [r \in table |-> InsertEvent(r)]
           Ups == {Event("update", Nothing, Image(r)) : r \in taken \union table}
           Dels == {DeleteEvent(r) : r \in taken}
           Inss == {InsertEvent(r) : r \in table}
<1>1. IsFiniteSet(taken) /\ IsFiniteSet(table) /\ IsFiniteSet(taken \union table)
  BY FS_Union DEF ImagesTypeOK
<1>2. IsFiniteSet(Ups)
  <2>1. up \in Surjection(taken \union table, Ups)
    BY DEF Surjection
  <2>2. QED
    BY <1>1, <2>1, FS_Surjection
<1>3. IsFiniteSet(Dels)
  <2>1. del \in Surjection(taken, Dels)
    BY DEF Surjection
  <2>2. QED
    BY <1>1, <2>1, FS_Surjection
<1>4. IsFiniteSet(Inss)
  <2>1. ins \in Surjection(table, Inss)
    BY DEF Surjection
  <2>2. QED
    BY <1>1, <2>1, FS_Surjection
<1>5. IsFiniteSet((Ups \union Dels) \union Inss)
  <2> HIDE DEF Ups, Dels, Inss
  <2>1. IsFiniteSet(Ups \union Dels)
    BY <1>2, <1>3, FS_Union
  <2>2. QED
    BY <1>4, <2>1, FS_Union
<1>6. StreamRows \subseteq (Ups \union Dels) \union Inss
  BY DEF StreamRows, RowsOf
<1>7. QED
  BY <1>5, <1>6, FS_Subset

\* The update of a row's image is an event about its key, and carries the row.
LEMMA RereadIs ==
    ASSUME kind = "snowflake", NEW r \in Rows
    PROVE  LET e == Event("update", Nothing, Image(r))
           IN /\ e \in Events /\ e.op = "update" /\ WellFormed(e) /\ About(e) = r["k"]
              /\ \A c \in Cols : Get(e.after, c) = r[c]
<1> DEFINE e == Event("update", Nothing, Image(r))
<1>1. Image(r) \in UpdateImages(r, r)
  BY DEF UpdateImages
<1>2. e \in Events /\ e.op = "update" /\ e.after = Image(r) /\ WellFormed(e)
      /\ AfterKey(e) \in {r["k"], Null}
  BY <1>1, UpdateEventIs
<1>3. AfterKey(e) \in Keys
  BY <1>2 DEF WellFormed
<1>4. About(e) = r["k"]
  BY <1>2, <1>3, ImagesAssumption DEF About
<1>5. QED
  BY <1>2, <1>4, ImageOfRow

\* Insertions, deletions and the two halves of updates that a poll reads.
Made(e, r) == e = InsertEvent(r) /\ RowsOf(taken, origin[r["k"]]) = {}
Gone(e, r) == e = DeleteEvent(r) /\ \A key \in Keys : origin[key] # r["k"]
After(e, r) ==
    e = Event("update", Nothing, Image(r)) /\ RowsOf(taken, origin[r["k"]]) \notin {{}, {r}}
Ahead(e, r, q) ==
    /\ e = Event("update", Nothing, Image(q)) /\ q["k"] = origin[r["k"]]
    /\ RowsOf(taken, origin[r["k"]]) # {r}

LEMMA StreamMember ==
    ASSUME NEW e
    PROVE  e \in StreamRows <=>
              \/ \E r \in table : Made(e, r) \/ After(e, r)
              \/ \E q \in taken : Gone(e, q) \/ \E r \in table : Ahead(e, r, q)
<1> DEFINE Before(r) == RowsOf(taken, origin[r["k"]])
           Again == {r \in table : Before(r) \notin {{}, {r}}}
           Both == Again \union UNION {Before(r) : r \in Again}
<1>1. ASSUME NEW q
      PROVE  q \in Both <=> \/ q \in table /\ Before(q) \notin {{}, {q}}
                            \/ q \in taken /\ \E r \in table : q["k"] = origin[r["k"]] /\ Before(r) # {r}
  <2>1. \A r : q \in Before(r) <=> q \in taken /\ q["k"] = origin[r["k"]]
    BY DEF RowsOf
  <2> HIDE DEF Before
  <2>2. q \in UNION {Before(r) : r \in Again} <=> \E r \in table : Before(r) \notin {{}, {r}} /\ q \in Before(r)
    OBVIOUS
  <2>3. QED
    BY <2>1, <2>2
<1>2. e \in {InsertEvent(r) : r \in {r \in table : Before(r) = {}}} <=> \E r \in table : Made(e, r)
  BY DEF Made
<1>3. e \in {DeleteEvent(q) : q \in {r \in taken : \A key \in Keys : origin[key] # r["k"]}}
         <=> \E q \in taken : Gone(e, q)
  BY DEF Gone
<1>4. e \in {Event("update", Nothing, Image(q)) : q \in Both}
         <=> \/ \E r \in table : After(e, r)
             \/ \E q \in taken, r \in table : Ahead(e, r, q)
  <2> HIDE DEF Both
  <2>1. e \in {Event("update", Nothing, Image(q)) : q \in Both}
           <=> \E q \in Both : e = Event("update", Nothing, Image(q))
    OBVIOUS
  <2>2. QED
    BY <1>1, <2>1 DEF After, Ahead
<1>5. e \in StreamRows <=>
         \/ e \in {InsertEvent(r) : r \in {r \in table : Before(r) = {}}}
         \/ e \in {DeleteEvent(q) : q \in {r \in taken : \A key \in Keys : origin[key] # r["k"]}}
         \/ e \in {Event("update", Nothing, Image(q)) : q \in Both}
  BY DEF StreamRows
<1>6. QED
  BY <1>2, <1>3, <1>4, <1>5

\* Every event a poll reads is well formed.
LEMMA StreamEvent ==
    ASSUME ImagesTypeOK, kind = "snowflake", NEW e \in StreamRows
    PROVE  e \in Events /\ WellFormed(e) /\ About(e) \in Keys
<1>1. taken \in SUBSET Rows /\ table \in SUBSET Rows
  BY DEF ImagesTypeOK
<1>2. PICK r \in table \union taken :
         e \in {InsertEvent(r), DeleteEvent(r), Event("update", Nothing, Image(r))}
  BY StreamMember DEF Made, Gone, After, Ahead
<1>3. r \in Rows /\ r["k"] \in Keys
  BY <1>1, RowType
<1>4. CASE e = InsertEvent(r)
  BY <1>3, <1>4, InsertEventIs DEF About
<1>5. CASE e = DeleteEvent(r)
  BY <1>3, <1>5, DeleteEventIs DEF About
<1>6. CASE e = Event("update", Nothing, Image(r))
  BY <1>3, <1>6, RereadIs
<1>7. QED
  BY <1>2, <1>4, <1>5, <1>6

\* The keys the rows of a poll are about.
LEMMA MemberKeys ==
    ASSUME ImagesTypeOK, kind = "snowflake", NEW e
    PROVE  /\ \A r \in table : Made(e, r) =>
                e \in Events /\ e.op = "insert" /\ About(e) = r["k"] /\ \A c \in Cols : Get(e.after, c) = r[c]
           /\ \A r \in table : After(e, r) =>
                e \in Events /\ e.op = "update" /\ About(e) = r["k"] /\ \A c \in Cols : Get(e.after, c) = r[c]
           /\ \A q \in taken : Gone(e, q) => e.op = "delete" /\ About(e) = q["k"]
           /\ \A r \in table, q \in taken : Ahead(e, r, q) => About(e) = q["k"]
<1>1. taken \in SUBSET Rows /\ table \in SUBSET Rows /\ ~NewFirst
  BY KindsDiffer DEF ImagesTypeOK
<1>2. ASSUME NEW r \in table, Made(e, r)
      PROVE  e \in Events /\ e.op = "insert" /\ About(e) = r["k"] /\ \A c \in Cols : Get(e.after, c) = r[c]
  BY <1>1, <1>2, InsertEventIs DEF Made, About
<1>3. ASSUME NEW r \in table, After(e, r)
      PROVE  e \in Events /\ e.op = "update" /\ About(e) = r["k"] /\ \A c \in Cols : Get(e.after, c) = r[c]
  BY <1>1, <1>3, RereadIs DEF After
<1>4. ASSUME NEW q \in taken, Gone(e, q) PROVE e.op = "delete" /\ About(e) = q["k"]
  BY <1>1, <1>4, DeleteEventIs DEF Gone, About
<1>5. ASSUME NEW r \in table, NEW q \in taken, Ahead(e, r, q) PROVE About(e) = q["k"]
  BY <1>1, <1>5, RereadIs DEF Ahead
<1>6. QED
  BY <1>2, <1>3, <1>4, <1>5

\* A key whose row is the one it was, or that never had one, is not read.
LEMMA PollOfUntouched ==
    ASSUME ImagesTypeOK, OriginInv, kind = "snowflake", NEW key \in Keys, Faithful(key),
           key \in KeysOf(taken) <=> key \in KeysOf(table),
           NEW e \in StreamRows
    PROVE  About(e) # key
<1> SUFFICES ASSUME About(e) = key PROVE FALSE
  OBVIOUS
<1>1. key \in KeysOf(taken) \/ key \in KeysOf(table)
  BY StreamMember, MemberKeys DEF KeysOf
<1>2. origin[key] = key /\ RowsOf(taken, key) = RowsOf(table, key) /\ key # Null
  BY <1>1, ImagesAssumption DEF Faithful
<1>3. \A r \in table : r["k"] = key => RowsOf(taken, origin[r["k"]]) = {r}
  BY <1>2, RowsOfKey DEF ImagesTypeOK
<1>4. \A r \in table : r["k"] \in Keys
  BY RowType DEF ImagesTypeOK
<1>5. ~ \E r \in table : Made(e, r) \/ After(e, r)
  BY <1>3, MemberKeys DEF Made, After
<1>6. ~ \E q \in taken : Gone(e, q)
  BY <1>2, MemberKeys DEF Gone
<1>7. ASSUME NEW q \in taken, NEW r \in table, Ahead(e, r, q) PROVE FALSE
  <2>1. q["k"] = key
    BY <1>7, MemberKeys
  <2>2. origin[r["k"]] = key
    BY <1>7, <2>1 DEF Ahead
  <2>3. r["k"] = key
    BY <1>2, <1>4, <2>2 DEF OriginInv
  <2>4. QED
    BY <1>3, <1>7, <2>3 DEF Ahead
<1>8. QED
  BY <1>5, <1>6, <1>7, StreamMember

\* A key whose row is gone is deleted.
LEMMA PollOfGone ==
    ASSUME ImagesTypeOK, kind = "snowflake", NEW key \in Keys, Faithful(key),
           key \in KeysOf(taken), key \notin KeysOf(table)
    PROVE  \E e \in StreamRows : e.op = "delete" /\ About(e) = key
<1>1. PICK q \in taken : q["k"] = key
  BY DEF KeysOf
<1>2. PICK e : e = DeleteEvent(q)
  OBVIOUS
<1>3. Gone(e, q)
  BY <1>1, <1>2 DEF Gone, Faithful
<1>4. QED
  BY <1>1, <1>3, StreamMember, MemberKeys

\* A row under a key that had none is read once, as it is.
LEMMA PollOfNew ==
    ASSUME ImagesTypeOK, OriginInv, kind = "snowflake", NEW r \in table,
           r["k"] \notin KeysOf(taken)
    PROVE  \E e \in StreamRows :
              /\ e \in Events /\ e.op # "delete" /\ AfterKey(e) = r["k"]
              /\ \A c \in Cols : Get(e.after, c) = r[c]
              /\ \A f \in StreamRows : About(f) = r["k"] => f = e
<1>1. r \in Rows /\ \A s \in table : s["k"] = r["k"] => s = r
  BY DEF ImagesTypeOK, Single
<1>2. \A q \in taken : q["k"] # r["k"]
  BY DEF KeysOf
<1>3. PICK f : f = IF RowsOf(taken, origin[r["k"]]) = {} THEN InsertEvent(r)
                   ELSE Event("update", Nothing, Image(r))
  OBVIOUS
<1>4. r \notin taken
  BY <1>2
<1>5. RowsOf(taken, origin[r["k"]]) # {r}
  BY <1>4 DEF RowsOf
<1>6. Made(f, r) \/ After(f, r)
  BY <1>3, <1>5 DEF Made, After
<1>7. f \in StreamRows /\ f \in Events /\ f.op # "delete" /\ About(f) = r["k"]
      /\ \A c \in Cols : Get(f.after, c) = r[c]
  BY <1>6, StreamMember, MemberKeys
<1>8. ASSUME NEW e \in StreamRows, About(e) = r["k"] PROVE e = f
  <2>1. PICK s \in table : Made(e, s) \/ After(e, s)
    BY <1>2, <1>8, StreamMember, MemberKeys
  <2>2. s = r
    BY <1>1, <1>8, <2>1, MemberKeys
  <2>3. QED
    BY <1>3, <2>1, <2>2 DEF Made, After
<1>9. QED
  BY <1>7, <1>8 DEF About

\* A poll: what its batch leaves of a key is the source's row, whatever the order of
\* the difference, for each key that is not harmed.
LEMMA PollStep ==
    ASSUME ImagesInv, PollSnowflake
    PROVE  ImagesInv'
<1>1. ImagesTypeOK /\ StreamInv /\ KeylessRows
  BY DEF ImagesInv
<1>2. /\ kind = "snowflake" /\ batch = <<>> /\ unread' = FALSE
      /\ UNCHANGED <<kind, table, taken, origin, sink, changes, harmed>>
  BY DEF PollSnowflake
<1>3. PICK order \in Bijection(1..Cardinality(StreamRows), StreamRows) : batch' = order
  BY DEF PollSnowflake
<1>4. PICK n : n = Cardinality(StreamRows)
  OBVIOUS
<1>5. /\ n \in Nat /\ order \in [1..n -> StreamRows]
      /\ \A i, j \in 1..n : order[i] = order[j] => i = j
      /\ \A e \in StreamRows : \E i \in 1..n : order[i] = e
  <2>1. n \in Nat
    BY <1>1, <1>4, StreamFinite, FS_CardinalityType
  <2>2. QED
    BY <1>3, <1>4, <2>1 DEF Bijection, Injection, Surjection, IsInjective
<1>6. \A i \in 1..n : order[i] \in StreamRows
  BY <1>5
<1>7. \A i \in 1..n : order[i] \in Events /\ WellFormed(order[i])
  BY <1>1, <1>2, <1>6, StreamEvent
<1>8. order \in Seq(Events) /\ DOMAIN order = 1..n
  <2>1. order \in [1..n -> Events] /\ DOMAIN order = 1..n
    BY <1>5, <1>7
  <2>2. QED
    BY <1>5, <2>1 DEF Seq
<1>9. Reached = sink /\ Reached' = Result(sink, order)
  BY <1>2, <1>3, ReachedIs DEF Reached
<1>10. ASSUME NEW key \in Keys
       PROVE  RowsOf(Reached', key) =
                 IF key \in Deleted(order) THEN {}
                 ELSE IF Lasts(order, key) = {} THEN RowsOf(sink, key)
                 ELSE UNION {Merged(sink, order[i], order[1].schema) : i \in Lasts(order, key)}
  <2>1. Keyed /\ sink \in SUBSET FullRows /\ \A i \in DOMAIN order : WellFormed(order[i])
    BY <1>1, <1>2, <1>7, <1>8 DEF Keyed, ImagesTypeOK
  <2>2. QED
    BY <1>8, <1>9, <2>1, ResultRows
<1>11. ASSUME NEW key \in Keys
       PROVE  /\ key \in Deleted(order) <=> \E e \in StreamRows : e.op = "delete" /\ About(e) = key
              /\ \A i \in Lasts(order, key) : i \in 1..n /\ About(order[i]) = key
  <2>1. key # Null
    BY ImagesAssumption
  <2>2. key \in Deleted(order) <=>
           \E i \in 1..n : order[i].op = "delete" /\ Get(order[i].before, "k") = key
    BY <1>8, <2>1 DEF Deleted
  <2>3. \A i \in Lasts(order, key) :
           i \in 1..n /\ order[i].op # "delete" /\ AfterKey(order[i]) = key
    BY <1>8 DEF Lasts, LastPerKey, Upserts
  <2>4. QED
    BY <1>5, <1>6, <2>2, <2>3 DEF About
<1>12. ASSUME NEW key \in Keys \ harmed
       PROVE  RowsOf(Reached', key) = RowsOf(table, key)
  <2>1. OriginInv /\ Faithful(key)
    BY <1>1, <1>2 DEF StreamInv
  <2>2. CASE key \in KeysOf(taken) <=> key \in KeysOf(table)
    <3>1. \A e \in StreamRows : About(e) # key
      BY <1>1, <1>2, <2>1, <2>2, PollOfUntouched
    <3>2. key \notin Deleted(order) /\ Lasts(order, key) = {}
      BY <1>6, <1>11, <3>1
    <3>3. RowsOf(sink, key) = RowsOf(table, key)
      <4>1. key \notin KeysOf(table) => RowsOf(table, key) = {}
        BY <1>1, RowsOfKey DEF ImagesTypeOK
      <4>2. QED
        BY <1>9, <2>1, <2>2, <4>1 DEF Faithful
    <3>4. QED
      BY <1>10, <3>2, <3>3
  <2>3. CASE key \in KeysOf(taken) /\ key \notin KeysOf(table)
    <3>1. key \in Deleted(order)
      BY <1>1, <1>2, <1>11, <2>1, <2>3, PollOfGone
    <3>2. RowsOf(table, key) = {}
      BY <1>1, <2>3, RowsOfKey DEF ImagesTypeOK
    <3>3. QED
      BY <1>10, <3>1, <3>2
  <2>4. CASE key \notin KeysOf(taken) /\ key \in KeysOf(table)
    <3>1. PICK r \in table : r["k"] = key
      BY <2>4 DEF KeysOf
    <3>2. RowsOf(table, key) = {r} /\ r \in Rows
      BY <1>1, <3>1, RowsOfKey DEF ImagesTypeOK
    <3>3. PICK e \in StreamRows :
             /\ e \in Events /\ e.op # "delete" /\ AfterKey(e) = key
             /\ \A c \in Cols : Get(e.after, c) = r[c]
             /\ \A f \in StreamRows : About(f) = key => f = e
      BY <1>1, <1>2, <2>1, <2>4, <3>1, PollOfNew
    <3>4. PICK m \in 1..n : order[m] = e
      BY <1>5
    <3>5. m \in Lasts(order, key)
      <4>1. \A j \in Upserts(order) : AfterKey(order[j]) = key => j = m
        <5>1. ASSUME NEW j \in Upserts(order), AfterKey(order[j]) = key PROVE j = m
          <6>1. j \in 1..n /\ order[j].op # "delete"
            BY <1>8 DEF Upserts
          <6>2. order[j] = e
            BY <1>6, <3>3, <5>1, <6>1 DEF About
          <6>3. QED
            BY <1>5, <3>4, <6>1, <6>2
        <5>2. QED
          BY <5>1
      <4>2. m \in Upserts(order) /\ m \in Nat
        BY <1>5, <1>8, <3>3, <3>4 DEF Upserts
      <4>3. \A j \in Upserts(order) : j > m => AfterKey(order[j]) # key
        BY <4>1, <4>2
      <4>4. QED
        BY <3>3, <3>4, <4>2, <4>3 DEF Lasts, LastPerKey
    <3>6. \A i \in Lasts(order, key) : order[i] = e
      BY <1>6, <1>11, <3>3
    <3>7. key \notin Deleted(order)
      BY <1>11, <3>3
    <3>8. order[1].schema = Cols
      <4>1. 1 \in 1..n
        BY <1>5, <3>4
      <4>2. QED
        BY <1>2, <1>7, <4>1 DEF WellFormed, Schemaless
    <3>9. RowsOf(Reached', key) = Merged(sink, e, Cols)
      <4>1. UNION {Merged(sink, order[i], order[1].schema) : i \in Lasts(order, key)} =
              Merged(sink, e, Cols)
        BY <3>5, <3>6, <3>8
      <4>2. QED
        BY <1>10, <3>5, <3>7, <4>1
    <3>10. Merged(sink, e, Cols) = {r}
      <4>1. sink \in SUBSET FullRows /\ Cols \in SUBSET Cols
            /\ \A c \in Cols \ Cols : FALSE
        BY <1>1 DEF ImagesTypeOK
      <4>2. QED
        BY <3>1, <3>2, <3>3, <4>1, MergeOfRow
    <3>11. QED
      BY <3>2, <3>9, <3>10
  <2>5. QED
    BY <2>2, <2>3, <2>4
<1>13. ImagesTypeOK'
  BY <1>1, <1>2, <1>3, <1>8 DEF ImagesTypeOK
<1>14. BatchInv'
  BY <1>2, <1>3, <1>7, <1>8 DEF BatchInv, WellFormed, Schemaless, AfterKey
<1>15. StreamInv'
  <2>1. OriginInv'
    BY <1>1, <1>2 DEF StreamInv, OriginInv
  <2>2. ASSUME NEW key \in Keys \ harmed' PROVE Faithful(key)'
    <3>1. Faithful(key) /\ RowsOf(Reached', key) = RowsOf(table, key)
      BY <1>1, <1>2, <1>12, <2>2 DEF StreamInv
    <3>2. key \notin KeysOf(table) => RowsOf(table, key) = {}
      BY <1>1, RowsOfKey DEF ImagesTypeOK
    <3>3. QED
      BY <1>2, <3>1, <3>2 DEF Faithful
  <2>3. QED
    BY <2>1, <2>2 DEF StreamInv
<1>16. LogInv' /\ StaleInv' /\ KeylessRows'
  BY <1>1, <1>2 DEF LogInv, StaleInv, KeylessRows
<1>17. QED
  BY <1>13, <1>14, <1>15, <1>16 DEF ImagesInv

-----------------------------------------------------------------------------
(* The theorems *)

\* In a settled state nothing is left to reach.
LEMMA InvImplies == ImagesInv => OnlyHarmedDiffer /\ LostNotStale /\ KeylessRows
<1> SUFFICES ASSUME ImagesInv PROVE OnlyHarmedDiffer /\ LostNotStale
  BY DEF ImagesInv
<1>1. ImagesTypeOK /\ LogInv /\ StreamInv /\ StaleInv
  BY DEF ImagesInv
<1>2. Settled => Reached = sink
  BY DEF Settled, Reached
<1>3. ASSUME Settled, NEW key \in Keys \ harmed
      PROVE  RowsOf(sink, key) = RowsOf(table, key)
  <2>1. CASE kind # "snowflake"
    BY <1>1, <1>2, <1>3, <2>1 DEF LogInv
  <2>2. CASE kind = "snowflake"
    BY <1>1, <1>2, <1>3, <2>2 DEF StreamInv, Faithful, Settled
  <2>3. QED
    BY <2>1, <2>2
<1>4. LostNotStale
  BY <1>1, <1>2 DEF LostNotStale, StaleInv
<1>5. QED
  BY <1>3, <1>4 DEF OnlyHarmedDiffer

LEMMA ImagesStep == ImagesInv /\ [ImagesNext]_imageVars => ImagesInv'
BY InsertStep, UpdateStep, DeleteStep, PollStep, FlushStep, StutterStep DEF ImagesNext

LEMMA ImagesInductive == ImagesSpec => []ImagesInv
<1>1. ImagesInit => ImagesInv
  BY ImagesStart
<1>2. ImagesInv /\ [ImagesNext]_imageVars => ImagesInv'
  BY ImagesStep
<1>3. QED
  BY <1>1, <1>2, PTL DEF ImagesSpec

\* The rows, images and events of a run have their types.
THEOREM ImagesTypeCorrect == ImagesSpec => []ImagesTypeOK
<1>1. ImagesInv => ImagesTypeOK
  BY DEF ImagesInv
<1>2. QED
  BY <1>1, ImagesInductive, PTL

\* For every source, any rows and batches of any length: once its events are
\* written, a row of the target is the source's row or absent like it, unless its
\* key met one of the losses that the HarmOf operators name.
THEOREM OnlyHarmedSafe == ImagesSpec => []OnlyHarmedDiffer
  BY ImagesInductive, InvImplies, PTL

\* A TOAST value that an update of PostgreSQL leaves out becomes NULL in the target,
\* never a value the row had before (postgres.py, _decode_tuple).
THEOREM NotStaleSafe == ImagesSpec => []LostNotStale
  BY ImagesInductive, InvImplies, PTL

\* Rows without key come from Oracle's LogMiner alone: the events of every other
\* source name the key of the row they carry.
THEOREM KeysNeverLost == ImagesSpec => []KeylessRows
  BY ImagesInductive, InvImplies, PTL

-----------------------------------------------------------------------------
(* The table and the threads of the dead letter queue *)

USE ConstantsAssumption DEF Entries, Statuses

\* An operator request requeues or discards a set of entries that exist.
LEMMA OperatorSteps ==
    ASSUME TypeOK, Operator
    PROVE  \E S \in SUBSET Pushed :
              S \in SUBSET Entries /\ (Requeue(S) \/ Drop(S))
<1>1. Pushed \subseteq Entries
  BY DEF TypeOK, Pushed
<1>2. CASE \E e \in Entries : Retry(e) \/ Discard(e)
  BY <1>1, <1>2 DEF Retry, Discard
<1>3. CASE RetryAll
  BY <1>1, <1>3 DEF RetryAll
<1>4. CASE DiscardAll
  BY <1>1, <1>4 DEF DiscardAll
<1>5. QED
  BY <1>2, <1>3, <1>4 DEF Operator

\* Every variable keeps its type through every step.
LEMMA TypeStep == TypeOK /\ [Next]_vars => TypeOK'
<1> SUFFICES ASSUME TypeOK, [Next]_vars PROVE TypeOK'
  OBVIOUS
<1> USE DEF TypeOK, Pushed, Pending, Current
<1>1. CASE Push
  BY <1>1 DEF Push
<1>2. CASE Operator
  <2>1. ASSUME NEW S \in SUBSET Entries, Requeue(S) PROVE TypeOK'
    BY <2>1 DEF Requeue
  <2>2. ASSUME NEW S \in SUBSET Entries, Drop(S) PROVE TypeOK'
    BY <2>2 DEF Drop
  <2>3. QED
    BY <1>2, <2>1, <2>2, OperatorSteps
<1>3. CASE Engine
  BY <1>3 DEF Engine, ProcessCrash, EngineStart, EngineStop
<1>4. ASSUME NEW w \in Replayers, Replay(w) \/ AbortRound(w) PROVE TypeOK'
  <2>1. CASE BeginRound(w)
    BY <2>1 DEF BeginRound
  <2>2. CASE ReplayWrites(w)
    BY <2>2 DEF ReplayWrites
  <2>3. CASE ReplayFails(w) \/ MarkReplayedFails(w)
    BY <2>3 DEF ReplayFails, MarkReplayedFails
  <2>4. CASE MarkReplayed(w)
    BY <2>4 DEF MarkReplayed, SetStatus, NextEntry
  <2>5. CASE CountFailure(w)
    BY <2>5 DEF CountFailure, MarkFailed, NextEntry
  <2>6. CASE Exit(w) \/ AbortRound(w)
    BY <2>6 DEF Exit, AbortRound
  <2>7. QED
    BY <1>4, <2>1, <2>2, <2>3, <2>4, <2>5, <2>6 DEF Replay
<1>5. CASE UNCHANGED vars
  BY <1>5 DEF vars
<1>6. QED
  BY <1>1, <1>2, <1>3, <1>4, <1>5 DEF Next

\* The queue starts empty and no thread runs.
LEMMA InitType == Init => TypeOK
  BY DEF Init, TypeOK

\* Type correctness of the table and its replaying threads.
THEOREM TypeCorrect == Spec => []TypeOK
  BY InitType, TypeStep, PTL DEF Spec

-----------------------------------------------------------------------------
(* Delivery, for any number of threads *)

\* A thread reaches mark_replayed only with an entry the sink has applied.
LEMMA DeliveryStep == TypeOK /\ DeliveryInv /\ [Next]_vars => DeliveryInv'
<1> SUFFICES ASSUME TypeOK, DeliveryInv, [Next]_vars PROVE DeliveryInv'
  OBVIOUS
<1> USE DEF TypeOK, DeliveryInv, ReplayedWasWritten, Pushed, Pending, Current
<1>1. CASE Push
  BY <1>1 DEF Push
<1>2. CASE Operator
  BY <1>2, OperatorSteps DEF Requeue, Drop
<1>3. CASE Engine
  BY <1>3 DEF Engine, ProcessCrash, EngineStart, EngineStop
<1>4. ASSUME NEW w \in Replayers, Replay(w) \/ AbortRound(w) PROVE DeliveryInv'
  <2>1. CASE BeginRound(w)
    BY <2>1 DEF BeginRound
  <2>2. CASE ReplayWrites(w)
    BY <2>2 DEF ReplayWrites
  <2>3. CASE ReplayFails(w) \/ MarkReplayedFails(w)
    BY <2>3 DEF ReplayFails, MarkReplayedFails
  <2>4. CASE MarkReplayed(w)
    BY <2>4 DEF MarkReplayed, SetStatus, NextEntry
  <2>5. CASE CountFailure(w)
    BY <2>5 DEF CountFailure, MarkFailed, NextEntry
  <2>6. CASE Exit(w) \/ AbortRound(w)
    BY <2>6 DEF Exit, AbortRound
  <2>7. QED
    BY <1>4, <2>1, <2>2, <2>3, <2>4, <2>5, <2>6 DEF Replay
<1>5. CASE UNCHANGED vars
  BY <1>5 DEF vars
<1>6. QED
  BY <1>1, <1>2, <1>3, <1>4, <1>5 DEF Next

\* An entry shown as replayed has been applied by the sink, even when a stopped
\* engine's thread and its successor replay the queue at the same time.
THEOREM ReplayedSafe == Spec => []ReplayedWasWritten
<1>1. Init => TypeOK /\ DeliveryInv
  BY InitType DEF Init, DeliveryInv, ReplayedWasWritten, Pushed
<1>2. (TypeOK /\ DeliveryInv) /\ [Next]_vars => (TypeOK /\ DeliveryInv)'
  BY TypeStep, DeliveryStep
<1>3. TypeOK /\ DeliveryInv => ReplayedWasWritten
  BY DEF DeliveryInv
<1>4. QED
  BY <1>1, <1>2, <1>3, PTL DEF Spec

\* A batch the sink never got stays in the queue until its attempts are used up
\* or an operator takes it out.
THEOREM ParkingIsNotDropping == Spec => UndeliveredStaysQueued
<1>1. Init => TypeOK /\ DeliveryInv
  BY InitType DEF Init, DeliveryInv, ReplayedWasWritten, Pushed
<1>2. (TypeOK /\ DeliveryInv) /\ [Next]_vars => (TypeOK /\ DeliveryInv)'
  BY TypeStep, DeliveryStep
<1>3. ASSUME TypeOK, DeliveryInv, [Next]_vars, ~Operator,
             NEW e \in Entries, e \in Pending, e \notin delivered, status'[e] # "pending"
      PROVE  status'[e] = "exhausted" /\ retries'[e] >= MaxRetries
  <2> USE <1>3 DEF TypeOK, DeliveryInv, Pending, Pushed, Current
  <2>1. PICK w \in Replayers : MarkReplayed(w) \/ CountFailure(w)
    BY DEF Next, Push, Engine, ProcessCrash, EngineStart, EngineStop, Replay, BeginRound,
           ReplayWrites, ReplayFails, MarkReplayedFails, Exit, AbortRound, vars
  <2>2. CASE MarkReplayed(w)
    BY <2>2 DEF MarkReplayed, SetStatus
  <2>3. CASE CountFailure(w)
    BY <2>3 DEF CountFailure, MarkFailed
  <2>4. QED
    BY <2>1, <2>2, <2>3
<1>4. (TypeOK /\ DeliveryInv) /\ [Next]_vars =>
        [\A e \in Entries :
            e \in Pending /\ e \notin delivered /\ status'[e] # "pending" =>
               \/ Operator
               \/ status'[e] = "exhausted" /\ retries'[e] >= MaxRetries]_vars
  BY <1>3
<1>5. QED
  BY <1>1, <1>2, <1>4, PTL DEF Spec, UndeliveredStaysQueued

-----------------------------------------------------------------------------
(* The retry budget, for any finite number of threads *)

\* No more threads have an entry in their list than there are threads.
LEMMA HoldersType ==
    ASSUME NEW e \in Entries
    PROVE  /\ IsFiniteSet(Holders(e))
           /\ Cardinality(Holders(e)) \in Nat
           /\ Cardinality(Holders(e)) <= Cardinality(Replayers)
           /\ Cardinality(Replayers) \in Nat
<1>1. Holders(e) \subseteq Replayers
  BY DEF Holders
<1>2. QED
  BY <1>1, ConstantsAssumption, FS_Subset, FS_CardinalityType

\* A list that loses its entries, or keeps them, holds no attempt more than before.
LEMMA FewerHolders ==
    ASSUME NEW e \in Entries, Holders(e)' \subseteq Holders(e)
    PROVE  Cardinality(Holders(e)') \in Nat
           /\ Cardinality(Holders(e)') <= Cardinality(Holders(e))
  BY HoldersType, FS_Subset, FS_CardinalityType

\* A step that leaves an entry's row alone, and puts it into no list, keeps its budget.
LEMMA BudgetKept ==
    ASSUME TypeOK, BudgetInv,
           NEW e \in Entries, retries'[e] = retries[e],
           status'[e] = "pending" => status[e] = "pending",
           Holders(e)' \subseteq Holders(e)
    PROVE  /\ retries'[e] + Cardinality(Holders(e)') <= MaxRetries + Cardinality(Replayers) - 1
           /\ status'[e] = "pending" => retries'[e] < MaxRetries
<1>1. retries[e] \in Nat /\ MaxRetries \in Nat
  BY ConstantsAssumption DEF TypeOK
<1>2. QED
  BY <1>1, HoldersType, FewerHolders DEF BudgetInv

\* An entry with an attempt left can be in every list.
LEMMA BudgetOpen ==
    ASSUME NEW e \in Entries, NEW r \in Nat, r < MaxRetries, NEW n \in Nat,
           n <= Cardinality(Replayers)
    PROVE  r + n <= MaxRetries + Cardinality(Replayers) - 1
<1>1. MaxRetries \in Nat /\ Cardinality(Replayers) \in Nat
  BY ConstantsAssumption, HoldersType
<1>2. QED
  BY <1>1

\* The attempts of the rounds under way stay within the budget.
LEMMA BudgetStep == TypeOK /\ BudgetInv /\ [Next]_vars => BudgetInv'
<1> SUFFICES ASSUME TypeOK, BudgetInv, [Next]_vars, NEW e \in Entries
             PROVE  /\ retries'[e] + Cardinality(Holders(e)') <= MaxRetries + Cardinality(Replayers) - 1
                    /\ status'[e] = "pending" => retries'[e] < MaxRetries
  BY DEF BudgetInv
<1>0. /\ retries[e] \in Nat /\ status \in [Entries -> Statuses] /\ retries \in [Entries -> Nat]
      /\ todo \in [Replayers -> SUBSET Entries]
      /\ MaxRetries \in Nat \ {0}
  BY ConstantsAssumption DEF TypeOK
<1>a. ASSUME todo' = todo PROVE Holders(e)' = Holders(e)
  BY <1>a DEF Holders
<1>b. ASSUME todo' = todo, retries'[e] = 0
      PROVE  /\ retries'[e] + Cardinality(Holders(e)') <= MaxRetries + Cardinality(Replayers) - 1
             /\ status'[e] = "pending" => retries'[e] < MaxRetries
  BY <1>0, <1>a, <1>b, HoldersType, BudgetOpen
<1>c. ASSUME todo' = todo, retries'[e] = retries[e],
             status'[e] = "pending" => status[e] = "pending"
      PROVE  /\ retries'[e] + Cardinality(Holders(e)') <= MaxRetries + Cardinality(Replayers) - 1
             /\ status'[e] = "pending" => retries'[e] < MaxRetries
  BY <1>a, <1>c, BudgetKept
<1>1. CASE Push
  <2>1. CASE nextId = e
    BY <1>0, <1>1, <1>b, <2>1 DEF Push
  <2>2. CASE nextId # e
    BY <1>0, <1>1, <1>c, <2>2 DEF Push
  <2>3. QED
    BY <2>1, <2>2
<1>2. CASE Operator
  <2>1. PICK S \in SUBSET Entries : Requeue(S) \/ Drop(S)
    BY <1>2, OperatorSteps
  <2>2. CASE Requeue(S)
    BY <1>0, <1>b, <1>c, <2>2 DEF Requeue
  <2>3. CASE Drop(S)
    BY <1>0, <1>c, <2>3 DEF Drop
  <2>4. QED
    BY <2>1, <2>2, <2>3
<1>3. CASE Engine
  <2>1. retries' = retries /\ status' = status /\ Holders(e)' \subseteq Holders(e)
    BY <1>0, <1>3 DEF Engine, ProcessCrash, EngineStart, EngineStop, Holders
  <2>2. QED
    BY <2>1, BudgetKept
<1>4. ASSUME NEW w \in Replayers, Replay(w) \/ AbortRound(w)
      PROVE  /\ retries'[e] + Cardinality(Holders(e)') <= MaxRetries + Cardinality(Replayers) - 1
             /\ status'[e] = "pending" => retries'[e] < MaxRetries
  <2>1. CASE BeginRound(w)
    <3>1. retries' = retries /\ status' = status
      BY <2>1 DEF BeginRound
    <3>2. CASE status[e] = "pending"
      <4>1. retries[e] < MaxRetries
        BY <3>2 DEF BudgetInv
      <4>2. Cardinality(Holders(e)') \in Nat /\ Cardinality(Holders(e)') <= Cardinality(Replayers)
        <5>1. Holders(e)' \subseteq Replayers
          BY DEF Holders
        <5>2. QED
          BY <5>1, ConstantsAssumption, FS_Subset, FS_CardinalityType
      <4>3. QED
        BY <1>0, <3>1, <4>1, <4>2, BudgetOpen
    <3>3. CASE status[e] # "pending"
      <4>1. Holders(e)' \subseteq Holders(e)
        BY <1>0, <2>1, <3>3 DEF BeginRound, Holders, Pending, Pushed
      <4>2. QED
        BY <3>1, <4>1, BudgetKept
    <3>4. QED
      BY <3>2, <3>3
  <2>2. CASE ReplayWrites(w) \/ ReplayFails(w) \/ MarkReplayedFails(w)
    BY <2>2, <1>c DEF ReplayWrites, ReplayFails, MarkReplayedFails
  <2>3. CASE MarkReplayed(w)
    <3>1. PICK f \in Current(w) : SetStatus(f, "replayed") /\ NextEntry(w, f)
      BY <2>3 DEF MarkReplayed
    <3>2. retries'[e] = retries[e] /\ (status'[e] = "pending" => status[e] = "pending")
      BY <1>0, <3>1 DEF SetStatus
    <3>3. Holders(e)' \subseteq Holders(e)
      BY <1>0, <3>1 DEF NextEntry, Holders
    <3>4. QED
      BY <3>2, <3>3, BudgetKept
  <2>4. CASE CountFailure(w)
    <3>1. PICK f \in Current(w) : MarkFailed(f) /\ NextEntry(w, f)
      BY <2>4 DEF CountFailure
    <3>2. f \in todo[w] /\ f \in Entries
      BY <1>0 DEF Current
    <3>3. CASE f # e
      <4>1. retries'[e] = retries[e] /\ status'[e] = status[e]
        BY <1>0, <3>1, <3>3 DEF MarkFailed
      <4>2. Holders(e)' \subseteq Holders(e)
        BY <1>0, <3>1 DEF NextEntry, Holders
      <4>3. QED
        BY <4>1, <4>2, BudgetKept
    <3>4. CASE f = e
      <4>1. /\ retries'[e] = retries[e] + 1
            /\ status'[e] = "pending" => retries[e] + 1 < MaxRetries
        BY <1>0, <3>1, <3>4 DEF MarkFailed
      <4>2. Holders(e)' = Holders(e) \ {w} /\ w \in Holders(e)
        BY <1>0, <3>1, <3>2, <3>4 DEF NextEntry, Holders
      <4>3. Cardinality(Holders(e)') = Cardinality(Holders(e)) - 1
        BY <4>2, HoldersType, FS_RemoveElement
      <4>4. retries[e] + Cardinality(Holders(e)) <= MaxRetries + Cardinality(Replayers) - 1
        BY DEF BudgetInv
      <4>5. QED
        BY <1>0, <4>1, <4>3, <4>4, HoldersType
    <3>5. QED
      BY <3>3, <3>4
  <2>5. CASE Exit(w) \/ AbortRound(w)
    <3>1. retries' = retries /\ status' = status /\ Holders(e)' \subseteq Holders(e)
      BY <1>0, <2>5 DEF Exit, AbortRound, Holders
    <3>2. QED
      BY <3>1, BudgetKept
  <2>6. QED
    BY <1>4, <2>1, <2>2, <2>3, <2>4, <2>5 DEF Replay
<1>5. CASE UNCHANGED vars
  BY <1>5, <1>c DEF vars
<1>6. QED
  BY <1>1, <1>2, <1>3, <1>4, <1>5 DEF Next

\* An entry is retried max_retries times, and at most once more by every other thread
\* that had it in its list, however operators reset it meanwhile.
THEOREM BudgetSafe == Spec => []RetryBudget
<1>1. Init => TypeOK /\ BudgetInv
  <2> SUFFICES ASSUME Init PROVE TypeOK /\ BudgetInv
    OBVIOUS
  <2>1. ASSUME NEW e \in Entries
        PROVE  /\ retries[e] = 0
               /\ Cardinality(Holders(e)) \in Nat
               /\ Cardinality(Holders(e)) <= Cardinality(Replayers)
    BY HoldersType DEF Init
  <2>2. QED
    BY <2>1, InitType, BudgetOpen, ConstantsAssumption DEF BudgetInv
<1>2. (TypeOK /\ BudgetInv) /\ [Next]_vars => (TypeOK /\ BudgetInv)'
  BY TypeStep, BudgetStep
<1>3. TypeOK /\ BudgetInv => RetryBudget
  <2> SUFFICES ASSUME TypeOK, BudgetInv, NEW e \in Pushed
               PROVE  /\ retries[e] <= MaxRetries + Cardinality(Replayers) - 1
                      /\ status[e] = "pending" => retries[e] < MaxRetries
    BY DEF RetryBudget
  <2>1. e \in Entries
    BY ConstantsAssumption DEF TypeOK, Pushed, Entries
  <2>2. retries[e] \in Nat /\ MaxRetries \in Nat
    BY <2>1, ConstantsAssumption DEF TypeOK
  <2>3. QED
    BY <2>1, <2>2, HoldersType DEF BudgetInv
<1>4. QED
  BY <1>1, <1>2, <1>3, PTL DEF Spec

=============================================================================
