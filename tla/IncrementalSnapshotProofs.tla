----------------------- MODULE IncrementalSnapshotProofs -----------------------
(* What a saved cursor and a finished snapshot stand for, for every table,  *)
(* chunk size and number of crashes.                                        *)
EXTENDS IncrementalSnapshot, TLAPS

\* The worker is between two chunks or in one.
Copying == pc \in {"chunk", "flush", "save"}

\* The value in memory stands for rows that are delivered, like a saved one.
LastIsCovered == Copying /\ ~mixed /\ Trusted(col) => CoveredUpTo(col, last)

\* The chunk in hand holds every row up to its end that is not delivered yet.
ChunkReachesEnd ==
    pc \in {"flush", "save"} /\ ~mixed /\ Trusted(col) =>
        \A r \in steady : Distinct(col, r) /\ Val[col][r] <= Val[col][end] =>
            r \in Delivered \union chunk

\* A chunk is flushed before its cursor is saved.
ChunkIsDelivered == pc = "save" => chunk \subseteq Delivered

\* A snapshot that has saved nothing starts at the first row, and the stream
\* begins behind a finished snapshot unless the cursor column was missing.
Phases ==
    /\ saved.kind = "none" => saved.val = Before
    /\ Copying => saved.kind \in {"none", "cursor"}
    /\ pc = "stream" /\ ~fellBack => saved.kind \in {"done", "stream"}

IInv ==
    /\ TypeOK /\ LastIsCovered /\ ChunkReachesEnd /\ ChunkIsDelivered /\ Phases
    /\ CursorIsCovered /\ SnapshotComplete

-----------------------------------------------------------------------------

LEMMA CNoOffset ==
    ASSUME TypeOK
    PROVE  NoOffset \in Offsets /\ NoOffset.val = Before /\ NoOffset.kind = "none"
BY DEF TypeOK, NoOffset, Offsets, Before

LEMMA CInit == Init => IInv
<1> SUFFICES ASSUME Init PROVE IInv
  OBVIOUS
<1> USE ConstantsAssumption
<1>1. NoOffset \in Offsets /\ NoOffset.val = Before /\ NoOffset.kind = "none"
  BY DEF Init, NoOffset, Offsets, Before
<1>2. TypeOK
  BY <1>1 DEF Init, TypeOK, ControlPoints, Before
<1>3. QED
  BY <1>1, <1>2 DEF Init, IInv, LastIsCovered, ChunkReachesEnd, ChunkIsDelivered, Phases,
                    Copying, CursorIsCovered, SnapshotComplete

LEMMA CType == ASSUME TypeOK, [Next]_vars PROVE TypeOK'
<1> USE ConstantsAssumption DEF TypeOK, service
<1>1. CASE InsertRow \/ DeleteRow \/ DropColumn \/ Configure
  <2>1. CASE InsertRow
    BY <2>1 DEF InsertRow, worker
  <2>2. CASE DeleteRow
    BY <2>2 DEF DeleteRow, worker
  <2>3. CASE DropColumn
    BY <2>3 DEF DropColumn, worker
  <2>4. CASE Configure
    BY <2>4 DEF Configure, worker
  <2>5. QED
    BY <1>1, <2>1, <2>2, <2>3, <2>4
<1>2. CASE Start \/ StartStreaming \/ StartWithoutColumn
  <2>1. saved.val \in Nat \union {None, Before} /\ (saved.kind = "cursor" => saved.col \in Columns)
    BY DEF Offsets
  <2>2. ResumeColumn \in Columns
    BY DEF ResumeColumn
  <2>3. QED
    BY <1>2, <2>1, <2>2 DEF Start, StartStreaming, StartWithoutColumn, ControlPoints
<1>3. CASE ReadChunk \/ QueryFails \/ FlushChunk
  BY <1>3 DEF ReadChunk, QueryFails, FlushChunk, ControlPoints
<1>4. CASE SaveProgress
  <2>1. Val[col][end] \in Nat \union {None}
    OBVIOUS
  <2>2. Cursor(col, Val[col][end]) \in Offsets
    BY <2>1 DEF Cursor, Offsets
  <2>3. QED
    BY <1>4, <2>1, <2>2 DEF SaveProgress, ControlPoints
<1>5. CASE Finish \/ StreamSaves
  <2>1. Done \in Offsets /\ Streamed \in Offsets
    BY CNoOffset DEF Done, Streamed, NoOffset, Offsets
  <2>2. QED
    BY <1>5, <2>1 DEF Finish, StreamSaves, ControlPoints, worker
<1>6. CASE Stop \/ Crash
  <2>1. CASE Stop
    BY <2>1 DEF Stop, ControlPoints
  <2>2. CASE Crash
    BY <2>2 DEF Crash, ControlPoints
  <2>3. QED
    BY <1>6, <2>1, <2>2
<1>7. CASE UNCHANGED vars
  BY <1>7 DEF vars, worker
<1>8. QED
  BY <1>1, <1>2, <1>3, <1>4, <1>5, <1>6, <1>7 DEF Next, WorkerStep

\* A value that tells its row from the others is a number, above Before and the
\* word None.
LEMMA CValues ==
    ASSUME TypeOK, NEW c \in Columns, NEW r \in Rows
    PROVE  /\ Val[c][r] \in Nat \union {None} /\ Before < Val[c][r] /\ None <= Val[c][r]
           /\ Distinct(c, r) => Val[c][r] \in Nat
BY ConstantsAssumption DEF TypeOK, Distinct, None, Before

\* A chunk read behind a covered value reaches its last row without a gap.
LEMMA CChunk ==
    ASSUME TypeOK, Trusted(col), CoveredUpTo(col, last),
           NEW rows \in SUBSET table, NEW e \in rows, IsChunk(rows, e, col, last),
           NEW r \in steady, Distinct(col, r), Val[col][r] <= Val[col][e]
    PROVE  r \in Delivered \union rows
<1>1. r \in Rows /\ e \in Rows /\ r \in table /\ col \in Columns
  BY DEF TypeOK
<1>2. Val[col][r] \in Nat /\ Val[col][e] \in Nat
  BY <1>1, CValues DEF None
<1>3. CASE ~Selects(col, last, r)
  BY <1>3 DEF CoveredUpTo
<1>4. CASE Selects(col, last, r) /\ r \notin rows
  <2>1. r \in Candidates(col, last) \ rows
    BY <1>1, <1>4 DEF Candidates
  <2>2. Precedes(col, e, r)
    BY <2>1 DEF IsChunk
  <2>3. None \notin {Val[col][e], Val[col][r]}
    BY <1>2 DEF None
  <2>4. Val[col][e] <= Val[col][r]
    BY <1>1, <2>2, <2>3 DEF Trusted
  <2>5. Val[col][e] = Val[col][r]
    BY <1>2, <2>4
  <2>6. e \in Rows \ {r}
    BY <1>1, <1>4
  <2>7. QED
    BY <2>5, <2>6 DEF Distinct
<1>5. QED
  BY <1>3, <1>4

\* A step that saves nothing, delivers nothing less and leaves the worker where it
\* is keeps the invariant: the table and the operator's.
LEMMA CEnvironment ==
    ASSUME IInv, InsertRow \/ DeleteRow \/ DropColumn \/ Configure \/ UNCHANGED vars
    PROVE  IInv'
<1>1. TypeOK'
  BY CType DEF IInv, Next
<1>2. /\ steady' \subseteq steady
      /\ UNCHANGED <<service, worker, saved, sink, parked, mixed, fellBack>>
  BY DEF InsertRow, DeleteRow, DropColumn, Configure, vars
<1>3. \A c : Trusted(c)' <=> Trusted(c)
  BY <1>2 DEF Trusted, Precedes, service
<1>4. \A c, v : CoveredUpTo(c, v) => CoveredUpTo(c, v)'
  BY <1>2 DEF CoveredUpTo, Selects, service, Distinct, Delivered
<1>5. LastIsCovered'
  BY <1>2, <1>3, <1>4 DEF IInv, LastIsCovered, Copying, worker
<1>6. ChunkReachesEnd' /\ ChunkIsDelivered'
  BY <1>2, <1>3 DEF IInv, ChunkReachesEnd, ChunkIsDelivered, worker, Delivered, Distinct
<1>7. CursorIsCovered'
  BY <1>2, <1>3, <1>4 DEF IInv, CursorIsCovered, worker
<1>8. Phases' /\ SnapshotComplete'
  BY <1>2, <1>3 DEF IInv, Phases, Copying, SnapshotComplete, worker, Delivered, Distinct
<1>9. QED
  BY <1>1, <1>5, <1>6, <1>7, <1>8 DEF IInv

LEMMA CStart == ASSUME IInv, Start \/ StartStreaming \/ StartWithoutColumn PROVE IInv'
<1>1. TypeOK'
  BY CType DEF IInv, Next, WorkerStep
<1>2. UNCHANGED <<service, steady, saved, sink, parked>>
  BY DEF Start, StartStreaming, StartWithoutColumn
<1>3. /\ \A c : Trusted(c)' <=> Trusted(c)
      /\ \A c, v : CoveredUpTo(c, v)' <=> CoveredUpTo(c, v)
  BY <1>2 DEF Trusted, Precedes, service, CoveredUpTo, Selects, Distinct, Delivered
<1>4. CASE Start
  <2>1. saved.kind = "none" => CoveredUpTo(col', last')
    BY <1>4, ConstantsAssumption, <1>1
       DEF Start, IInv, Phases, CoveredUpTo, Selects, TypeOK, Before, None
  <2>2. saved.kind = "cursor" /\ ~mixed' => saved.col = col' /\ ~mixed
    BY <1>4 DEF Start
  <2>3. LastIsCovered'
    BY <1>3, <1>4, <2>1, <2>2 DEF Start, IInv, LastIsCovered, CursorIsCovered
  <2>4. mixed => mixed'
    BY <1>4 DEF Start
  <2>5. CursorIsCovered'
    BY <1>2, <1>3, <2>4 DEF IInv, CursorIsCovered
  <2>6. ChunkReachesEnd' /\ ChunkIsDelivered' /\ Phases' /\ SnapshotComplete'
    BY <1>4 DEF Start, IInv, ChunkReachesEnd, ChunkIsDelivered, Phases, Copying, SnapshotComplete
  <2>7. QED
    BY <1>1, <2>3, <2>5, <2>6 DEF IInv
<1>5. CASE StartStreaming \/ StartWithoutColumn
  <2>1. pc' = "stream" /\ UNCHANGED <<col, mixed>> /\ (fellBack => fellBack')
    BY <1>5, <1>1 DEF StartStreaming, StartWithoutColumn
  <2>2. CursorIsCovered'
    BY <1>2, <1>3, <2>1 DEF IInv, CursorIsCovered
  <2>3. SnapshotComplete'
    BY <1>2, <1>3, <2>1 DEF IInv, SnapshotComplete, Distinct, Delivered
  <2>4. Phases'
    BY <1>2, <1>5, <2>1 DEF IInv, Phases, Copying, StartStreaming, StartWithoutColumn
  <2>5. QED
    BY <1>1, <2>1, <2>2, <2>3, <2>4 DEF IInv, LastIsCovered, Copying, ChunkReachesEnd, ChunkIsDelivered
<1>6. QED
  BY <1>4, <1>5

LEMMA CReadChunk == ASSUME IInv, ReadChunk PROVE IInv'
<1>1. TypeOK'
  BY CType DEF IInv, Next, WorkerStep
<1>2. UNCHANGED <<service, steady, saved, sink, parked, fellBack, col, last>>
  BY DEF ReadChunk
<1>3. /\ \A c : Trusted(c)' <=> Trusted(c)
      /\ \A c, v : CoveredUpTo(c, v)' <=> CoveredUpTo(c, v)
  BY <1>2 DEF Trusted, Precedes, service, CoveredUpTo, Selects, Distinct, Delivered
<1>4. pc = "chunk" /\ pc' = "flush"
  BY DEF ReadChunk
<1>5. ~mixed' => ~mixed
  BY DEF ReadChunk
<1>6. LastIsCovered' /\ CursorIsCovered'
  BY <1>2, <1>3, <1>4, <1>5 DEF IInv, LastIsCovered, Copying, CursorIsCovered
<1>7. ChunkReachesEnd'
  <2> SUFFICES ASSUME ~mixed', Trusted(col), NEW r \in steady, Distinct(col, r),
                      Val[col][r] <= Val[col][end']
               PROVE  r \in Delivered \union chunk'
    BY <1>2, <1>3 DEF ChunkReachesEnd, Distinct, Delivered
  <2>1. CoveredUpTo(col, last)
    BY <1>4, <1>5 DEF IInv, LastIsCovered, Copying
  <2>2. PICK rows \in SUBSET table : \E e \in rows :
            IsChunk(rows, e, col, last) /\ chunk' = rows /\ end' = e
    BY DEF ReadChunk
  <2>3. QED
    BY <2>1, <2>2, CChunk DEF IInv
<1>8. ChunkIsDelivered' /\ Phases' /\ SnapshotComplete'
  BY <1>2, <1>3, <1>4 DEF IInv, ChunkIsDelivered, Phases, Copying, SnapshotComplete,
                          Distinct, Delivered
<1>9. QED
  BY <1>1, <1>6, <1>7, <1>8 DEF IInv

LEMMA CFlush == ASSUME IInv, FlushChunk PROVE IInv'
<1>1. TypeOK'
  BY CType DEF IInv, Next, WorkerStep
<1>2. /\ UNCHANGED <<service, steady, saved, mixed, fellBack, col, last, chunk, end>>
      /\ pc = "flush" /\ pc' = "save"
  BY DEF FlushChunk
<1>3. Delivered' = Delivered \union chunk
  BY DEF FlushChunk, Delivered
<1>4. /\ \A c : Trusted(c)' <=> Trusted(c)
      /\ \A c, v : CoveredUpTo(c, v) => CoveredUpTo(c, v)'
  BY <1>2, <1>3 DEF Trusted, Precedes, service, CoveredUpTo, Selects, Distinct
<1>5. LastIsCovered' /\ CursorIsCovered'
  BY <1>2, <1>4 DEF IInv, LastIsCovered, Copying, CursorIsCovered
<1>6. ChunkReachesEnd' /\ ChunkIsDelivered'
  BY <1>2, <1>3, <1>4 DEF IInv, ChunkReachesEnd, ChunkIsDelivered, Distinct
<1>7. Phases' /\ SnapshotComplete'
  BY <1>2, <1>3, <1>4 DEF IInv, Phases, Copying, SnapshotComplete, Distinct
<1>8. QED
  BY <1>1, <1>5, <1>6, <1>7 DEF IInv

LEMMA CSave == ASSUME IInv, SaveProgress PROVE IInv'
<1>1. TypeOK'
  BY CType DEF IInv, Next, WorkerStep
<1>2. /\ UNCHANGED <<service, steady, sink, parked, mixed, fellBack, col>>
      /\ pc = "save" /\ pc' = "chunk"
      /\ last' = Val[col][end]
      /\ saved'.kind = "cursor" /\ saved'.col = col /\ saved'.val = last'
  BY DEF SaveProgress, Cursor
<1>3. /\ \A c : Trusted(c)' <=> Trusted(c)
      /\ \A c, v : CoveredUpTo(c, v)' <=> CoveredUpTo(c, v)
  BY <1>2 DEF Trusted, Precedes, service, CoveredUpTo, Selects, Distinct, Delivered
<1>4. ~mixed /\ Trusted(col) => CoveredUpTo(col, last')
  <2> SUFFICES ASSUME ~mixed, Trusted(col), NEW r \in steady, Distinct(col, r),
                      ~Selects(col, last', r)
               PROVE  r \in Delivered
    BY DEF CoveredUpTo
  <2>1. r \in Rows /\ col \in Columns /\ end \in Rows
    BY DEF IInv, TypeOK
  <2>2. Val[col][r] <= Val[col][end]
    BY <1>2, <2>1, CValues DEF IInv, Selects, Trusted, None
  <2>3. QED
    BY <1>2, <2>2 DEF IInv, ChunkReachesEnd, ChunkIsDelivered
<1>5. LastIsCovered' /\ CursorIsCovered'
  BY <1>2, <1>3, <1>4 DEF LastIsCovered, CursorIsCovered
<1>6. ChunkReachesEnd' /\ ChunkIsDelivered' /\ Phases' /\ SnapshotComplete'
  BY <1>2 DEF ChunkReachesEnd, ChunkIsDelivered, Phases, Copying, SnapshotComplete
<1>7. QED
  BY <1>1, <1>5, <1>6 DEF IInv

LEMMA CFinish == ASSUME IInv, Finish PROVE IInv'
<1>1. TypeOK'
  BY CType DEF IInv, Next, WorkerStep
<1>2. /\ UNCHANGED <<service, steady, sink, parked, fellBack, col>>
      /\ pc = "chunk" /\ pc' = "stream"
      /\ saved'.kind = "done"
      /\ ~mixed' => ~mixed /\ Candidates(col, last) = {}
  BY DEF Finish, Done, NoOffset
<1>3. \A c : Trusted(c)' <=> Trusted(c)
  BY <1>2 DEF Trusted, Precedes, service
<1>4. ~mixed' /\ Trusted(col) => \A r \in steady : Distinct(col, r) => r \in Delivered
  <2> SUFFICES ASSUME ~mixed', Trusted(col), NEW r \in steady, Distinct(col, r)
               PROVE  r \in Delivered
    OBVIOUS
  <2>1. CoveredUpTo(col, last)
    BY <1>2 DEF IInv, LastIsCovered, Copying
  <2>2. ~Selects(col, last, r)
    BY <1>2 DEF IInv, TypeOK, Candidates
  <2>3. QED
    BY <2>1, <2>2 DEF CoveredUpTo
<1>5. SnapshotComplete'
  BY <1>2, <1>3, <1>4 DEF SnapshotComplete, Distinct, Delivered
<1>6. LastIsCovered' /\ ChunkReachesEnd' /\ ChunkIsDelivered' /\ Phases' /\ CursorIsCovered'
  BY <1>2 DEF LastIsCovered, ChunkReachesEnd, ChunkIsDelivered, Phases, Copying, CursorIsCovered
<1>7. QED
  BY <1>1, <1>5, <1>6 DEF IInv

LEMMA CStream == ASSUME IInv, StreamSaves PROVE IInv'
<1>1. TypeOK'
  BY CType DEF IInv, Next, WorkerStep
<1>2. /\ UNCHANGED <<service, steady, sink, parked, mixed, fellBack, col, pc>>
      /\ pc = "stream"
      /\ saved'.kind = "stream"
  BY DEF StreamSaves, Streamed, NoOffset, worker
<1>3. \A c : Trusted(c)' <=> Trusted(c)
  BY <1>2 DEF Trusted, Precedes, service
<1>4. SnapshotComplete'
  BY <1>2, <1>3 DEF IInv, Phases, SnapshotComplete, Distinct, Delivered
<1>5. LastIsCovered' /\ ChunkReachesEnd' /\ ChunkIsDelivered' /\ Phases' /\ CursorIsCovered'
  BY <1>2 DEF LastIsCovered, ChunkReachesEnd, ChunkIsDelivered, Phases, Copying, CursorIsCovered
<1>6. QED
  BY <1>1, <1>4, <1>5 DEF IInv

LEMMA CEnd == ASSUME IInv, QueryFails \/ Stop \/ Crash PROVE IInv'
<1>1. TypeOK'
  BY CType DEF IInv, Next, WorkerStep
<1>2. /\ UNCHANGED <<service, steady, saved, sink, parked, mixed, fellBack, col>>
      /\ pc' \in {"off", "error"}
  BY DEF QueryFails, Stop, Crash
<1>3. /\ \A c : Trusted(c)' <=> Trusted(c)
      /\ \A c, v : CoveredUpTo(c, v)' <=> CoveredUpTo(c, v)
  BY <1>2 DEF Trusted, Precedes, service, CoveredUpTo, Selects, Distinct, Delivered
<1>4. CursorIsCovered'
  BY <1>2, <1>3 DEF IInv, CursorIsCovered
<1>5. SnapshotComplete'
  BY <1>2, <1>3 DEF IInv, SnapshotComplete, Distinct, Delivered
<1>6. LastIsCovered' /\ ChunkReachesEnd' /\ ChunkIsDelivered' /\ Phases'
  BY <1>2 DEF IInv, LastIsCovered, ChunkReachesEnd, ChunkIsDelivered, Phases, Copying
<1>7. QED
  BY <1>1, <1>4, <1>5, <1>6 DEF IInv

LEMMA CStep == ASSUME IInv, [Next]_vars PROVE IInv'
BY CEnvironment, CStart, CReadChunk, CFlush, CSave, CFinish, CStream, CEnd DEF Next, WorkerStep

-----------------------------------------------------------------------------
\* The inductive invariant of the chunked snapshot holds for every table, chunk
\* size and number of crashes.
THEOREM IncrementalSnapshotInvariant == Spec => []IInv
BY CInit, CStep, PTL DEF Spec

\* Every variable keeps its type.
THEOREM IncrementalSnapshotTypes == Spec => []TypeOK
<1>1. IInv => TypeOK
  BY DEF IInv
<1>2. QED
  BY <1>1, IncrementalSnapshotInvariant, PTL

\* A saved cursor stands for delivered rows, wherever a crash fell (engine.py:300-303):
\* every row that was there throughout, whose value is its own and not above the saved
\* one, where the column sorts like the query and its text is read back as its value.
THEOREM IncrementalSnapshotCursor == Spec => []CursorIsCovered
<1>1. IInv => CursorIsCovered
  BY DEF IInv
<1>2. QED
  BY <1>1, IncrementalSnapshotInvariant, PTL

\* A snapshot marked done has delivered every row that was there throughout and whose
\* value in the cursor column is its own (engine.py:307), under the same conditions.
THEOREM IncrementalSnapshotCompleteness == Spec => []SnapshotComplete
<1>1. IInv => SnapshotComplete
  BY DEF IInv
<1>2. QED
  BY <1>1, IncrementalSnapshotInvariant, PTL

-----------------------------------------------------------------------------
(* The cursor as a sequence of values *)

\* What the worker has in memory is what it saved last, and the chunk in hand ends
\* above it.
InStep ==
    /\ Copying => last = saved.val
    /\ pc \in {"flush", "save"} => last < Val[col][end]

LEMMA CInStep == ASSUME TypeOK, InStep, [Next]_vars PROVE InStep'
<1> USE DEF InStep, Copying
<1>1. CASE InsertRow \/ DeleteRow \/ DropColumn \/ Configure \/ UNCHANGED vars
  BY <1>1 DEF InsertRow, DeleteRow, DropColumn, Configure, worker, vars
<1>2. CASE Start \/ StartStreaming \/ StartWithoutColumn
  BY <1>2 DEF Start, StartStreaming, StartWithoutColumn
<1>3. CASE ReadChunk
  <2>1. PICK b \in Bounds(col, last), rows \in SUBSET table : \E r \in rows :
            IsChunk(rows, r, col, b) /\ end' = r
    BY <1>3 DEF ReadChunk
  <2>2. b < Val[col][end'] /\ end' \in Rows /\ col \in Columns
    BY <2>1 DEF IsChunk, Candidates, Selects, TypeOK
  <2>3. Val[col][end'] \in Int /\ \A r \in Rows : Val[col][r] \in Int /\ None <= Val[col][r]
    BY <2>2, CValues DEF None
  <2>4. b \in Int /\ last <= b /\ last \in Int
    BY <2>2, <2>3 DEF Bounds, TypeOK, None, Before
  <2>5. last < Val[col][end']
    BY <2>2, <2>3, <2>4
  <2>6. QED
    BY <1>3, <2>5 DEF ReadChunk
<1>4. CASE FlushChunk \/ QueryFails
  BY <1>4 DEF FlushChunk, QueryFails
<1>5. CASE SaveProgress
  BY <1>5 DEF SaveProgress, Cursor
<1>6. CASE Finish \/ StreamSaves
  BY <1>6 DEF Finish, StreamSaves, worker
<1>7. CASE Stop \/ Crash
  BY <1>7 DEF Stop, Crash
<1>8. QED
  BY <1>1, <1>2, <1>3, <1>4, <1>5, <1>6, <1>7 DEF Next, WorkerStep

\* Only SaveProgress writes a cursor, and it writes a greater one.
LEMMA CAdvances ==
    ASSUME TypeOK, InStep, [Next]_vars,
           saved.kind = "cursor", saved'.kind = "cursor"
    PROVE  saved.val <= saved'.val
<1>1. saved.val \in Nat \union {None, Before}
  BY DEF TypeOK, Offsets
<1>2. CASE SaveProgress
  <2>1. Val[col][end] \in Nat \union {None}
    BY ConstantsAssumption DEF TypeOK
  <2>2. QED
    BY <1>1, <1>2, <2>1 DEF SaveProgress, Cursor, InStep, Copying, Before, None
<1>3. CASE ~SaveProgress
  <2>1. saved' = saved
    BY <1>3 DEF Next, WorkerStep, InsertRow, DeleteRow, DropColumn, Configure, Start,
                StartStreaming, StartWithoutColumn, ReadChunk, QueryFails, FlushChunk,
                Finish, StreamSaves, Stop, Crash, vars, Done, Streamed, NoOffset
  <2>2. QED
    BY <1>1, <2>1 DEF Before, None
<1>4. QED
  BY <1>2, <1>3

\* A saved cursor never moves back: a resumed snapshot goes on from the value it
\* saved, and a chunk ends above the value it was asked for (engine.py:267-303).
THEOREM IncrementalSnapshotAdvances == Spec => CursorAdvances
<1>1. Init => InStep
  BY DEF Init, InStep, Copying
<1>2. TypeOK /\ InStep /\ [Next]_vars => InStep'
  BY CInStep
<1>3. TypeOK /\ InStep /\ [Next]_vars =>
        [saved.kind = "cursor" /\ saved'.kind = "cursor" /\ saved.col = saved'.col
         => saved.val <= saved'.val]_vars
  BY CAdvances
<1>4. QED
  BY <1>1, <1>2, <1>3, IncrementalSnapshotTypes, PTL DEF Spec, CursorAdvances
=============================================================================
