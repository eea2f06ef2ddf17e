---------------------------- MODULE TableWorker ----------------------------
(***************************************************************************)
(* One TableWorker thread (core/engine.py) replicating one table: the      *)
(* initial full snapshot, the streaming loop, and _flush with its write,   *)
(* offset commit, acknowledgement and parking steps, together with the     *)
(* durable offset store, the sink and the dead letter queue it writes to.  *)
(*                                                                         *)
(* The source is a log of changes 1..head.  Every change inserts a row of  *)
(* its own, so the snapshot read when the log had length h yields exactly  *)
(* the changes 1..h, and "row c reached the sink" is c \in written.        *)
(* A batch is the set of the changes in the Python list: the order inside  *)
(* one batch is the sink's business, not the worker's.                     *)
(*                                                                         *)
(* The sources this module stands for carry an offset in every streamed    *)
(* event: MySQL, MariaDB, MongoDB, DynamoDB (one shard), Oracle, SQL       *)
(* Server.  They differ in the constants below.  None of them yields a     *)
(* heartbeat: while the table is idle the iterator blocks, and the worker  *)
(* looks neither at the clock nor at the stop flag.                        *)
(***************************************************************************)
EXTENDS Integers, FiniteSets

CONSTANTS
    NChanges,    \* bound: number of changes the source ever commits
    Label,       \* Label[c]: the offset that the event of change c carries
    Inclusive,   \* TRUE: resuming at an offset re-reads the changes carrying it
    StartAt,     \* where stream(table, None) begins: "beginning" or "current"
    MaxBatch,    \* upper end of the batch sizes the tuner may choose
    DoSnapshot,  \* options.snapshot_on_first_run
    WithDLQ      \* the worker was given a dead letter queue

Changes == 1..NChanges

ASSUME ConstantsAssumption ==
    /\ NChanges \in Nat
    /\ Label \in [Changes -> Changes]
    /\ \A c, d \in Changes : c <= d => Label[c] <= Label[d]
    /\ Inclusive \in BOOLEAN
    /\ StartAt \in {"beginning", "current"}
    /\ MaxBatch \in Nat \ {0}
    /\ DoSnapshot \in BOOLEAN
    /\ WithDLQ \in BOOLEAN

\* The values of the offset store's row, in the order they succeed each other.
NoOffset == -1   \* no row: offset_store.get returns None
SnapDone == 0    \* the string "snap:done"
Offsets  == {NoOffset, SnapDone} \union Changes

VARIABLES
    head,        \* changes committed at the source so far
    offset,      \* the offset store's row for this table (durable)
    written,     \* changes the sink has applied (durable)
    parked,      \* changes in a dead letter queue entry (durable)
    pc,          \* where the worker thread is
    after,       \* where _flush returns to
    batch,       \* the worker's current batch
    lastOffset,  \* offset of the last event received in this stream
    pos,         \* changes the source's iterator has yielded or skipped
    view,        \* length of the log when the last snapshot was read
    base,        \* where the last stream opened without an offset began
    stopFlag     \* TableWorker._stop_flag

vars == <<head, offset, written, parked, pc, after, batch, lastOffset, pos,
          view, base, stopFlag>>

\* The worker thread does not exist or has ended.
Halted == {"down", "stopped", "error"}
Returns == {"snapshot", "mark", "stream", "stopped"}
Flushing == {"write", "commit", "ack", "park"}
ControlPoints == Halted \union Flushing \union {"snapshot", "mark", "open", "stream"}

Accounted == written \union parked

\* What a worker resuming at offset o will not read again.
Covers(o, c) == IF Inclusive THEN Label[c] < o ELSE Label[c] <= o

\* The offset argument of _flush: None in the snapshot phase.
FlushOffset == IF after \in {"stream", "stopped"} THEN lastOffset ELSE NoOffset

-----------------------------------------------------------------------------
\* A transaction commits all its changes at once: no label is split by h.
Whole(h) == \A c \in 1..h, d \in (h + 1)..NChanges : Label[c] # Label[d]

Init ==
    /\ head \in 0..NChanges /\ Whole(head)
    /\ offset = NoOffset
    /\ written = {} /\ parked = {}
    /\ pc = "down" /\ after = "stream"
    /\ batch = {} /\ lastOffset = NoOffset
    /\ pos = 0 /\ view = 0 /\ base = 0
    /\ stopFlag = FALSE

\* The source commits one or more transactions.
Produce ==
    /\ \E h \in Changes :
          /\ h > head
          /\ Whole(h)
          /\ head' = h
    /\ UNCHANGED <<offset, written, parked, pc, after, batch, lastOffset, pos,
                   view, base, stopFlag>>

\* Mutation: the snapshot is taken again at every start.
StartResnapshots ==
    /\ pc \in Halted
    /\ stopFlag' = FALSE /\ batch' = {} /\ lastOffset' = NoOffset /\ pos' = 0
    /\ pc' = "snapshot" /\ view' = head
    /\ UNCHANGED <<head, offset, written, parked, after, base>>

\* A new worker thread reads the saved offset and opens the snapshot if there
\* is none (run, first lines).
Start ==
    /\ pc \in Halted
    /\ stopFlag' = FALSE
    /\ batch' = {}
    /\ lastOffset' = NoOffset
    /\ pos' = 0
    /\ IF offset = NoOffset /\ DoSnapshot
       THEN pc' = "snapshot" /\ view' = head
       ELSE pc' = "open" /\ UNCHANGED view
    /\ UNCHANGED <<head, offset, written, parked, after, base>>

-----------------------------------------------------------------------------
(* The full snapshot *)

BeginFlush(return) == pc' = "write" /\ after' = return

\* Mutation: `>` for `>=`.
MayFlushAbove(return) ==
    \/ BeginFlush(return)
    \/ Cardinality(batch') <= MaxBatch /\ UNCHANGED <<pc, after>>

\* A size-triggered flush is forced at MaxBatch; the tuner, or the timeout in
\* the streaming loop, can make any earlier one happen.
MayFlush(return) ==
    \/ BeginFlush(return)
    \/ Cardinality(batch') < MaxBatch /\ UNCHANGED <<pc, after>>

\* Mutation: the loop runs one row past the end of the result set.
SnapshotRowPastEnd ==
    /\ pc = "snapshot" /\ pos <= view /\ ~stopFlag
    /\ pos' = pos + 1
    /\ batch' = batch \union {pos + 1}
    /\ MayFlush("snapshot")
    /\ UNCHANGED <<head, offset, written, parked, lastOffset, view, base, stopFlag>>

SnapshotRow ==
    /\ pc = "snapshot"
    /\ pos < view
    /\ ~stopFlag
    /\ pos' = pos + 1
    /\ batch' = batch \union {pos + 1}
    /\ MayFlush("snapshot")
    /\ UNCHANGED <<head, offset, written, parked, lastOffset, view, base, stopFlag>>

\* Mutation: `break` instead of `return`, so that a stopped snapshot is marked done.
SnapshotStopBreaks ==
    /\ pc = "snapshot" /\ pos < view /\ stopFlag
    /\ pc' = "mark" /\ batch' = {}
    /\ UNCHANGED <<head, offset, written, parked, after, lastOffset, pos, view,
                   base, stopFlag>>

\* `return` inside the snapshot loop: the partial batch is dropped and no
\* offset is saved.
SnapshotStop ==
    /\ pc = "snapshot"
    /\ pos < view
    /\ stopFlag
    /\ pc' = "stopped"
    /\ batch' = {}
    /\ UNCHANGED <<head, offset, written, parked, after, lastOffset, pos, view,
                   base, stopFlag>>

SnapshotEnd ==
    /\ pc = "snapshot"
    /\ pos = view
    /\ IF batch # {} THEN BeginFlush("mark")
                     ELSE pc' = "mark" /\ UNCHANGED after
    /\ UNCHANGED <<head, offset, written, parked, batch, lastOffset, pos, view,
                   base, stopFlag>>

MarkSnapshotDone ==
    /\ pc = "mark"
    /\ offset' = SnapDone
    /\ pc' = "open"
    /\ UNCHANGED <<head, written, parked, after, batch, lastOffset, pos, view,
                   base, stopFlag>>

-----------------------------------------------------------------------------
(* The streaming loop *)

\* Mutation: the source re-reads the change its offset names.
FirstPositionRereads(p) ==
    IF offset \in Changes
    THEN \A c \in Changes : c <= p <=> Label[c] < offset
    ELSE p = IF StartAt = "beginning" THEN 0 ELSE head

\* stream(table, offset): any "snap:" offset has become None by now.
FirstPosition(p) ==
    IF offset \in Changes
    THEN \A c \in Changes : c <= p <=> Covers(offset, c)
    ELSE p = IF StartAt = "beginning" THEN 0 ELSE head

OpenStream ==
    /\ pc = "open"
    /\ \E p \in 0..NChanges :
          /\ FirstPosition(p)
          /\ pos' = p
          /\ base' = IF offset \in Changes THEN base ELSE p
    /\ pc' = "stream"
    /\ batch' = {}
    /\ lastOffset' = NoOffset
    /\ UNCHANGED <<head, offset, written, parked, after, view, stopFlag>>

Receive ==
    /\ pc = "stream"
    /\ pos < head
    /\ ~stopFlag
    /\ pos' = pos + 1
    /\ batch' = batch \union {pos + 1}
    /\ lastOffset' = Label[pos + 1]
    /\ MayFlush("stream")
    /\ UNCHANGED <<head, offset, written, parked, view, base, stopFlag>>

\* Mutation: lastOffset is taken before the stop flag is looked at.
NoticeStopCountsEvent ==
    /\ pc = "stream" /\ stopFlag /\ pos < head
    /\ lastOffset' = Label[pos + 1]
    /\ IF batch # {} THEN BeginFlush("stopped")
                     ELSE pc' = "stopped" /\ UNCHANGED after
    /\ UNCHANGED <<head, offset, written, parked, batch, pos, view, base, stopFlag>>

\* Mutation: `continue` for `break`, the event being passed over.
NoticeStopContinues ==
    /\ pc = "stream" /\ stopFlag /\ pos < head
    /\ pos' = pos + 1
    /\ IF batch # {} THEN BeginFlush("stream") ELSE UNCHANGED <<pc, after>>
    /\ UNCHANGED <<head, offset, written, parked, batch, lastOffset, view, base, stopFlag>>

\* The stop flag is looked at only when the source yields something.  An event
\* it yields here is dropped: it is neither batched nor does it move lastOffset.
NoticeStop ==
    /\ pc = "stream"
    /\ stopFlag
    /\ pos < head
    /\ IF batch # {} THEN BeginFlush("stopped")
                     ELSE pc' = "stopped" /\ UNCHANGED after
    /\ UNCHANGED <<head, offset, written, parked, batch, lastOffset, pos, view,
                   base, stopFlag>>

\* snapshot(), stream() or the offset store raises outside _flush: the batch in
\* memory is gone and the thread ends in state "error".
WorkerCrashes ==
    /\ pc \in {"snapshot", "mark", "open", "stream"}
    /\ pc' = "error"
    /\ batch' = {}
    /\ UNCHANGED <<head, offset, written, parked, after, lastOffset, pos, view,
                   base, stopFlag>>

-----------------------------------------------------------------------------
(* _flush *)

WriteBatch ==
    /\ pc = "write"
    /\ written' = written \union batch
    /\ pc' = "commit"
    /\ UNCHANGED <<head, offset, parked, after, batch, lastOffset, pos, view,
                   base, stopFlag>>

\* Masking or write_batch raises; the sink may have applied part of the batch.
WriteFails ==
    /\ pc = "write"
    /\ \E applied \in SUBSET batch : written' = written \union applied
    /\ pc' = "park"
    /\ UNCHANGED <<head, offset, parked, after, batch, lastOffset, pos, view,
                   base, stopFlag>>

CommitOffset ==
    /\ pc = "commit"
    /\ offset' = IF FlushOffset # NoOffset THEN FlushOffset ELSE offset
    /\ pc' = "ack"
    /\ UNCHANGED <<head, written, parked, after, batch, lastOffset, pos, view,
                   base, stopFlag>>

\* on_batch_committed, status, tuner, trigger and drift check; the drift check
\* sets the stop flag when schema_drift_action is "pause".
FinishFlush ==
    /\ pc = "ack"
    /\ pc' = after
    /\ batch' = {}
    /\ stopFlag' \in {stopFlag, TRUE}
    /\ UNCHANGED <<head, offset, written, parked, after, lastOffset, pos, view, base>>

\* Anything after the write raises: the exception handler treats the batch as
\* failed although the sink has it (and the offset may have been committed).
PostWriteFails ==
    /\ pc \in {"commit", "ack"}
    /\ pc' = "park"
    /\ UNCHANGED <<head, offset, written, parked, after, batch, lastOffset, pos,
                   view, base, stopFlag>>

\* The exception handler: push to the queue, or without a queue drop the batch.
\* Either way the loop goes on as if the batch had been flushed.
Park ==
    /\ pc = "park"
    /\ parked' = IF WithDLQ THEN parked \union batch ELSE parked
    /\ pc' = after
    /\ batch' = {}
    /\ UNCHANGED <<head, offset, written, after, lastOffset, pos, view, base, stopFlag>>

\* Mutation: an exception of push is swallowed and the loop goes on.
ParkFailsUnseen ==
    /\ pc = "park" /\ WithDLQ
    /\ pc' = after /\ batch' = {}
    /\ UNCHANGED <<head, offset, written, parked, after, lastOffset, pos, view,
                   base, stopFlag>>

\* push itself raises: the exception escapes run's loop.
ParkFails ==
    /\ pc = "park"
    /\ WithDLQ
    /\ pc' = "error"
    /\ batch' = {}
    /\ UNCHANGED <<head, offset, written, parked, after, lastOffset, pos, view,
                   base, stopFlag>>

-----------------------------------------------------------------------------
RequestStop ==
    /\ pc \notin Halted
    /\ ~stopFlag
    /\ stopFlag' = TRUE
    /\ UNCHANGED <<head, offset, written, parked, pc, after, batch, lastOffset,
                   pos, view, base>>

\* The process dies: everything but the three stores is lost.
ProcessCrash ==
    /\ pc # "down"
    /\ pc' = "down"
    /\ batch' = {}
    /\ lastOffset' = NoOffset
    /\ stopFlag' = FALSE
    /\ UNCHANGED <<head, offset, written, parked, after, pos, view, base>>

\* What the running thread does next, whatever the outcome.
WorkerStep ==
    \/ SnapshotRow \/ SnapshotStop \/ SnapshotEnd \/ MarkSnapshotDone
    \/ OpenStream \/ Receive \/ NoticeStop
    \/ WriteBatch \/ WriteFails \/ CommitOffset \/ FinishFlush
    \/ PostWriteFails \/ Park \/ ParkFails

Next == WorkerStep \/ Produce \/ Start \/ WorkerCrashes \/ RequestStop \/ ProcessCrash

Spec == Init /\ [][Next]_vars

\* A started thread keeps running where it is not waiting for the source; nobody
\* promises that it is started again, that the source goes on committing, or that
\* anybody asks it to stop.
FairSpec == Spec /\ WF_vars(WorkerStep)

-----------------------------------------------------------------------------
(* Properties *)

\* Every variable keeps its type.
TypeOK ==
    /\ head \in 0..NChanges
    /\ offset \in Offsets
    /\ written \subseteq Changes
    /\ parked \subseteq Changes
    /\ pc \in ControlPoints
    /\ after \in Returns
    /\ batch \subseteq Changes
    /\ lastOffset \in {NoOffset} \union Changes
    /\ pos \in 0..NChanges
    /\ view \in 0..NChanges
    /\ base \in 0..NChanges
    /\ stopFlag \in BOOLEAN

\* "Commits the offset only after a successful write" (engine.py, line 9), for
\* a worker with a queue: whatever a restart at the saved offset would skip has
\* reached the sink or is parked, for every change since the stream that
\* committed it began.
StreamedIsAccounted ==
    WithDLQ /\ offset \in Changes =>
        \A c \in Changes : c > base /\ Covers(offset, c) => c \in Accounted

\* The same with no exception for what came before the stream: nothing the
\* table ever held is skipped once the worker streams from a saved offset.
CoveredIsAccounted ==
    WithDLQ /\ offset \in Changes =>
        \A c \in Changes : Covers(offset, c) => c \in Accounted

\* "snap:done" is saved only when every row the snapshot read is in the sink or
\* parked, however the snapshot was stopped, crashed and restarted before.
SnapshotComplete ==
    WithDLQ /\ DoSnapshot /\ offset # NoOffset => 1..view \subseteq Accounted

\* A source that resumes strictly after its offset is never made to deliver a
\* committed change again: the batch being written has no committed change.
NoCommittedRedelivery ==
    ~Inclusive /\ pc = "write" /\ offset \in Changes =>
        \A c \in batch : ~Covers(offset, c)

\* The saved offset never moves back: not by a late flush, a restart or a
\* second snapshot.
OffsetMonotone == [][offset' >= offset]_offset

\* What the saved offset leaves behind.
Settled == {c \in Changes : offset \in Changes /\ Covers(offset, c)}

\* The worker implements at-least-once delivery: step by step, its log, its stores
\* and its offset only do what the abstract specification lets them (engine.py:9).
Promise == INSTANCE AtLeastOnce
    WITH committed <- head, delivered <- Accounted, settled <- Settled
KeepsPromise == Promise!Spec

\* What a silent source may leave in memory for ever is less than a batch: once
\* MaxBatch - 1 further changes have followed a change, it reaches the sink or the
\* queue, or the worker halts (engine.py:211-228; batch_timeout alone flushes
\* nothing, as it is looked at only when the source yields).
FollowedIsAccounted ==
    \A c \in Changes :
        c + MaxBatch - 1 <= head ~> (c \in Accounted \/ pc \in Halted)

\* A stop request takes the worker out of its snapshot, or out of its flush, and
\* ends it as soon as the source has something to yield; before, it waits in
\* stream() and nothing can end it (engine.py:187, 211-213).
StopHonoured ==
    /\ stopFlag ~> pc \in Halted \/ pc = "stream"
    /\ stopFlag /\ pc = "stream" /\ pos < head ~> pc \in Halted

-----------------------------------------------------------------------------
(* The inductive invariant behind the safety properties *)

\* Two changes share an offset only if resuming at it re-reads them both: no
\* flush boundary can then separate a covered change from its successors.
SafeLabels == Inclusive \/ \A c, d \in Changes : Label[c] = Label[d] => c = d

Snapshotting ==
    \/ pc \in {"snapshot", "mark"}
    \/ pc \in Flushing /\ after \in {"snapshot", "mark"}

Streaming ==
    \/ pc = "stream"
    \/ pc \in Flushing /\ after \in {"stream", "stopped"}

FlushInv ==
    /\ pc \in Flushing => batch # {}
    /\ pc \in {"commit", "ack"} => batch \subseteq written

SnapshotInv ==
    /\ Snapshotting =>
        /\ DoSnapshot
        /\ offset = NoOffset
        /\ pos <= view
        /\ WithDLQ => 1..pos \subseteq Accounted \union batch
    /\ pc \in Flushing /\ after = "mark" => pos = view
    /\ pc = "mark" => pos = view /\ batch = {}
    /\ DoSnapshot /\ (Streaming \/ pc = "open") => offset # NoOffset

StreamInv ==
    /\ StartAt = "beginning" => base = 0
    /\ Streaming =>
        /\ batch # {} => pos \in Changes /\ lastOffset = Label[pos] /\ lastOffset >= offset
        /\ \A c \in Changes : c > pos => Label[c] >= offset

CoverInv ==
    SafeLabels =>
        /\ StreamedIsAccounted
        /\ Streaming /\ WithDLQ =>
              \A c \in Changes : c > base /\ c <= pos => c \in Accounted \union batch
        /\ Streaming /\ offset \in Changes =>
              \A c \in Changes : c > pos => ~Covers(offset, c)
        /\ Streaming /\ offset \in Changes /\ pc \in {"stream", "write"} =>
              \A c \in batch : ~Covers(offset, c)

\* What the proofs of the properties above carry from step to step: the log
\* behind the reader is in the stores or in the batch, and the offset a commit
\* would save covers no more than that.
IInv == TypeOK /\ FlushInv /\ SnapshotInv /\ SnapshotComplete /\ StreamInv /\ CoverInv

=============================================================================
