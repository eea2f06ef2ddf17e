------------------------- MODULE TableWorkerProofs -------------------------
(***************************************************************************)
(* The safety properties of TableWorker for every log length, labelling,   *)
(* batch size and option, from the inductive invariant IInv.               *)
(***************************************************************************)
EXTENDS TableWorker, TLAPS

USE ConstantsAssumption DEF Changes, Offsets, NoOffset, SnapDone

\* The sets of control points, expanded wherever an action is.
USE DEF Halted, Returns, Flushing, ControlPoints

\* Every variable keeps its type through every step of the worker.
LEMMA TypeStep == TypeOK /\ [Next]_vars => TypeOK'
<1> SUFFICES ASSUME TypeOK, [Next]_vars PROVE TypeOK'
  OBVIOUS
<1> USE DEF TypeOK
<1>1. CASE SnapshotRow
  BY <1>1 DEF SnapshotRow, MayFlush, BeginFlush
<1>2. CASE SnapshotStop
  BY <1>2 DEF SnapshotStop
<1>3. CASE SnapshotEnd
  BY <1>3 DEF SnapshotEnd, BeginFlush
<1>4. CASE MarkSnapshotDone
  BY <1>4 DEF MarkSnapshotDone
<1>5. CASE OpenStream
  BY <1>5 DEF OpenStream
<1>6. CASE Receive
  BY <1>6 DEF Receive, MayFlush, BeginFlush
<1>8. CASE NoticeStop
  BY <1>8 DEF NoticeStop, BeginFlush
<1>9. CASE WriteBatch
  BY <1>9 DEF WriteBatch
<1>10. CASE WriteFails
  BY <1>10 DEF WriteFails
<1>11. CASE CommitOffset
  BY <1>11 DEF CommitOffset, FlushOffset
<1>12. CASE FinishFlush
  <2>1. stopFlag' \in BOOLEAN
    BY <1>12, Zenon DEF FinishFlush
  <2>2. QED
    BY <1>12, <2>1 DEF FinishFlush
<1>13. CASE PostWriteFails
  BY <1>13 DEF PostWriteFails
<1>14. CASE Park
  BY <1>14 DEF Park
<1>15. CASE ParkFails
  BY <1>15 DEF ParkFails
<1>16. CASE Produce
  BY <1>16 DEF Produce
<1>17. CASE Start
  <2>1. offset' \in Offsets /\ pc' \in ControlPoints /\ view' \in 0..NChanges
    BY <1>17, ConstantsAssumption DEF Start
  <2>2. stopFlag' \in BOOLEAN
    BY <1>17 DEF Start
  <2>3. QED
    BY <1>17, <2>1, <2>2 DEF Start
<1>18. CASE WorkerCrashes
  BY <1>18 DEF WorkerCrashes
<1>19. CASE RequestStop
  BY <1>19 DEF RequestStop
<1>20. CASE ProcessCrash
  BY <1>20 DEF ProcessCrash
<1>21. CASE UNCHANGED vars
  BY <1>21 DEF vars
<1>22. QED
  BY <1>1, <1>2, <1>3, <1>4, <1>5, <1>6, <1>8, <1>9, <1>10, <1>11,
     <1>12, <1>13, <1>14, <1>15, <1>16, <1>17, <1>18, <1>19, <1>20, <1>21
     DEF Next, WorkerStep

\* The worker starts with no thread, no saved offset and empty stores.
LEMMA InitType == Init => TypeOK
<1> SUFFICES ASSUME Init PROVE TypeOK
  OBVIOUS
<1>1. /\ offset \in Offsets /\ lastOffset \in {NoOffset} \union Changes
      /\ pos \in 0..NChanges /\ view \in 0..NChanges /\ base \in 0..NChanges
  BY DEF Init
<1>2. stopFlag \in BOOLEAN /\ pc \in ControlPoints /\ after \in Returns
  BY Zenon DEF Init
<1>3. QED
  BY <1>1, <1>2 DEF Init, TypeOK

\* Type correctness of the worker and the stores it writes to.
THEOREM TypeCorrect == Spec => []TypeOK
  BY InitType, TypeStep, PTL DEF Spec

-----------------------------------------------------------------------------
(* The inductive invariant: one lemma for each of its parts, one case for    *)
(* each action of the worker and of its environment.                         *)

\* _flush runs on a non-empty batch, which is in the sink once write_batch returned.
LEMMA FlushStep == IInv /\ [Next]_vars => FlushInv'
<1> SUFFICES ASSUME IInv, [Next]_vars PROVE FlushInv'
  OBVIOUS
<1> USE DEF IInv, TypeOK, FlushInv
<1>1. CASE SnapshotRow
  BY <1>1 DEF SnapshotRow, MayFlush, BeginFlush
<1>2. CASE SnapshotStop
  BY <1>2 DEF SnapshotStop
<1>3. CASE SnapshotEnd
  BY <1>3 DEF SnapshotEnd, BeginFlush
<1>4. CASE MarkSnapshotDone
  BY <1>4 DEF MarkSnapshotDone
<1>5. CASE OpenStream
  BY <1>5 DEF OpenStream
<1>6. CASE Receive
  BY <1>6 DEF Receive, MayFlush, BeginFlush
<1>8. CASE NoticeStop
  BY <1>8 DEF NoticeStop, BeginFlush
<1>9. CASE WriteBatch
  BY <1>9 DEF WriteBatch
<1>10. CASE WriteFails
  BY <1>10 DEF WriteFails
<1>11. CASE CommitOffset
  BY <1>11 DEF CommitOffset, FlushOffset
<1>12. CASE FinishFlush
  BY <1>12 DEF FinishFlush
<1>13. CASE PostWriteFails
  BY <1>13 DEF PostWriteFails
<1>14. CASE Park
  BY <1>14 DEF Park
<1>15. CASE ParkFails
  BY <1>15 DEF ParkFails
<1>16. CASE Produce
  BY <1>16 DEF Produce
<1>17. CASE Start
  BY <1>17 DEF Start
<1>18. CASE WorkerCrashes
  BY <1>18 DEF WorkerCrashes
<1>19. CASE RequestStop
  BY <1>19 DEF RequestStop
<1>20. CASE ProcessCrash
  BY <1>20 DEF ProcessCrash
<1>21. CASE UNCHANGED vars
  BY <1>21 DEF vars
<1>22. QED
  BY <1>1, <1>2, <1>3, <1>4, <1>5, <1>6, <1>8, <1>9, <1>10, <1>11, <1>12, <1>13, <1>14, <1>15, <1>16, <1>17, <1>18, <1>19, <1>20, <1>21 DEF Next, WorkerStep

\* While the snapshot runs no offset is saved, and every row it has read is in the
\* sink, in the queue or in the batch.
LEMMA SnapshotStep == IInv /\ [Next]_vars => SnapshotInv'
<1> SUFFICES ASSUME IInv, [Next]_vars PROVE SnapshotInv'
  OBVIOUS
<1> USE DEF IInv, TypeOK, SnapshotInv, FlushInv, Snapshotting, Streaming, Accounted
<1>1. CASE SnapshotRow
  BY <1>1 DEF SnapshotRow, MayFlush, BeginFlush
<1>2. CASE SnapshotStop
  BY <1>2 DEF SnapshotStop
<1>3. CASE SnapshotEnd
  BY <1>3 DEF SnapshotEnd, BeginFlush
<1>4. CASE MarkSnapshotDone
  BY <1>4 DEF MarkSnapshotDone
<1>5. CASE OpenStream
  BY <1>5 DEF OpenStream
<1>6. CASE Receive
  BY <1>6 DEF Receive, MayFlush, BeginFlush
<1>8. CASE NoticeStop
  BY <1>8 DEF NoticeStop, BeginFlush
<1>9. CASE WriteBatch
  BY <1>9 DEF WriteBatch
<1>10. CASE WriteFails
  BY <1>10 DEF WriteFails
<1>11. CASE CommitOffset
  BY <1>11 DEF CommitOffset, FlushOffset
<1>12. CASE FinishFlush
  BY <1>12 DEF FinishFlush
<1>13. CASE PostWriteFails
  BY <1>13 DEF PostWriteFails
<1>14. CASE Park
  BY <1>14 DEF Park
<1>15. CASE ParkFails
  BY <1>15 DEF ParkFails
<1>16. CASE Produce
  BY <1>16 DEF Produce
<1>17. CASE Start
  BY <1>17 DEF Start
<1>18. CASE WorkerCrashes
  BY <1>18 DEF WorkerCrashes
<1>19. CASE RequestStop
  BY <1>19 DEF RequestStop
<1>20. CASE ProcessCrash
  BY <1>20 DEF ProcessCrash
<1>21. CASE UNCHANGED vars
  BY <1>21 DEF vars
<1>22. QED
  BY <1>1, <1>2, <1>3, <1>4, <1>5, <1>6, <1>8, <1>9, <1>10, <1>11, <1>12, <1>13, <1>14, <1>15, <1>16, <1>17, <1>18, <1>19, <1>20, <1>21 DEF Next, WorkerStep

\* Saving "snap:done" finds every row of the snapshot accounted for, and nothing
\* later takes one away.
LEMMA SnapshotCompleteStep == IInv /\ [Next]_vars => SnapshotComplete'
<1> SUFFICES ASSUME IInv, [Next]_vars PROVE SnapshotComplete'
  OBVIOUS
<1> USE DEF IInv, TypeOK, SnapshotInv, SnapshotComplete, Snapshotting, Streaming, Accounted
<1>1. CASE SnapshotRow
  BY <1>1 DEF SnapshotRow, MayFlush, BeginFlush
<1>2. CASE SnapshotStop
  BY <1>2 DEF SnapshotStop
<1>3. CASE SnapshotEnd
  BY <1>3 DEF SnapshotEnd, BeginFlush
<1>4. CASE MarkSnapshotDone
  BY <1>4 DEF MarkSnapshotDone
<1>5. CASE OpenStream
  BY <1>5 DEF OpenStream
<1>6. CASE Receive
  BY <1>6 DEF Receive, MayFlush, BeginFlush
<1>8. CASE NoticeStop
  BY <1>8 DEF NoticeStop, BeginFlush
<1>9. CASE WriteBatch
  BY <1>9 DEF WriteBatch
<1>10. CASE WriteFails
  BY <1>10 DEF WriteFails
<1>11. CASE CommitOffset
  BY <1>11 DEF CommitOffset, FlushOffset
<1>12. CASE FinishFlush
  BY <1>12 DEF FinishFlush
<1>13. CASE PostWriteFails
  BY <1>13 DEF PostWriteFails
<1>14. CASE Park
  BY <1>14 DEF Park
<1>15. CASE ParkFails
  BY <1>15 DEF ParkFails
<1>16. CASE Produce
  BY <1>16 DEF Produce
<1>17. CASE Start
  BY <1>17 DEF Start
<1>18. CASE WorkerCrashes
  BY <1>18 DEF WorkerCrashes
<1>19. CASE RequestStop
  BY <1>19 DEF RequestStop
<1>20. CASE ProcessCrash
  BY <1>20 DEF ProcessCrash
<1>21. CASE UNCHANGED vars
  BY <1>21 DEF vars
<1>22. QED
  BY <1>1, <1>2, <1>3, <1>4, <1>5, <1>6, <1>8, <1>9, <1>10, <1>11, <1>12, <1>13, <1>14, <1>15, <1>16, <1>17, <1>18, <1>19, <1>20, <1>21 DEF Next, WorkerStep

\* In the streaming loop lastOffset is the label of the last change received, and
\* no change still to come is labelled before the saved offset.
LEMMA StreamStep == IInv /\ [Next]_vars => StreamInv'
<1> SUFFICES ASSUME IInv, [Next]_vars PROVE StreamInv'
  OBVIOUS
<1> USE DEF IInv, TypeOK, StreamInv, FlushInv, SnapshotInv, Snapshotting, Streaming, Accounted, Covers, FirstPosition
<1>1. CASE SnapshotRow
  BY <1>1 DEF SnapshotRow, MayFlush, BeginFlush
<1>2. CASE SnapshotStop
  BY <1>2 DEF SnapshotStop
<1>3. CASE SnapshotEnd
  BY <1>3 DEF SnapshotEnd, BeginFlush
<1>4. CASE MarkSnapshotDone
  BY <1>4 DEF MarkSnapshotDone
<1>5. CASE OpenStream
  BY <1>5 DEF OpenStream
<1>6. CASE Receive
  BY <1>6 DEF Receive, MayFlush, BeginFlush
<1>8. CASE NoticeStop
  BY <1>8 DEF NoticeStop, BeginFlush
<1>9. CASE WriteBatch
  BY <1>9 DEF WriteBatch
<1>10. CASE WriteFails
  BY <1>10 DEF WriteFails
<1>11. CASE CommitOffset
  BY <1>11 DEF CommitOffset, FlushOffset
<1>12. CASE FinishFlush
  BY <1>12 DEF FinishFlush
<1>13. CASE PostWriteFails
  BY <1>13 DEF PostWriteFails
<1>14. CASE Park
  BY <1>14 DEF Park
<1>15. CASE ParkFails
  BY <1>15 DEF ParkFails
<1>16. CASE Produce
  BY <1>16 DEF Produce
<1>17. CASE Start
  BY <1>17 DEF Start
<1>18. CASE WorkerCrashes
  BY <1>18 DEF WorkerCrashes
<1>19. CASE RequestStop
  BY <1>19 DEF RequestStop
<1>20. CASE ProcessCrash
  BY <1>20 DEF ProcessCrash
<1>21. CASE UNCHANGED vars
  BY <1>21 DEF vars
<1>22. QED
  BY <1>1, <1>2, <1>3, <1>4, <1>5, <1>6, <1>8, <1>9, <1>10, <1>11, <1>12, <1>13, <1>14, <1>15, <1>16, <1>17, <1>18, <1>19, <1>20, <1>21 DEF Next, WorkerStep

\* With safe labels the saved offset covers only changes that are accounted for,
\* and everything the stream has yielded is accounted for or in the batch.
LEMMA CoverStep == IInv /\ [Next]_vars => CoverInv'
<1> SUFFICES ASSUME IInv, [Next]_vars PROVE CoverInv'
  OBVIOUS
<1> USE DEF IInv, TypeOK, StreamInv, CoverInv, FlushInv, SnapshotInv, Snapshotting, Streaming, Accounted, Covers, FirstPosition, SafeLabels, StreamedIsAccounted
<1>1. CASE SnapshotRow
  BY <1>1 DEF SnapshotRow, MayFlush, BeginFlush
<1>2. CASE SnapshotStop
  BY <1>2 DEF SnapshotStop
<1>3. CASE SnapshotEnd
  BY <1>3 DEF SnapshotEnd, BeginFlush
<1>4. CASE MarkSnapshotDone
  BY <1>4 DEF MarkSnapshotDone
<1>5. CASE OpenStream
  BY <1>5 DEF OpenStream
<1>6. CASE Receive
  <2> SUFFICES ASSUME SafeLabels PROVE CoverInv'
    BY <1>6 DEF Receive
  <2>1. /\ Streaming /\ pc = "stream"
        /\ pos' = pos + 1 /\ batch' = batch \union {pos + 1} /\ pos + 1 \in Changes
        /\ UNCHANGED <<offset, written, parked, base>>
    BY <1>6 DEF Receive
  <2>2. StreamedIsAccounted'
    BY <2>1
  <2>3. WithDLQ => \A c \in Changes : c > base' /\ c <= pos' => c \in (Accounted \union batch)'
    BY <2>1
  <2>4. offset' \in Changes => \A c \in Changes : c > pos' => ~Covers(offset', c)
    BY <2>1
  <2>5. offset' \in Changes => \A c \in batch' : ~Covers(offset', c)
    BY <2>1
  <2>6. QED
    BY <2>2, <2>3, <2>4, <2>5
<1>8. CASE NoticeStop
  BY <1>8 DEF NoticeStop, BeginFlush
<1>9. CASE WriteBatch
  BY <1>9 DEF WriteBatch
<1>10. CASE WriteFails
  BY <1>10 DEF WriteFails
<1>11. CASE CommitOffset
  <2>1. CASE after \in {"snapshot", "mark"}
    BY <1>11, <2>1 DEF CommitOffset, FlushOffset
  <2>2. CASE after \in {"stream", "stopped"}
    <3>1. pos \in Changes /\ offset' = Label[pos]
      BY <1>11, <2>2 DEF CommitOffset, FlushOffset
    <3>2. ASSUME SafeLabels, NEW c \in Changes, c > pos
          PROVE  ~Covers(Label[pos], c)
      BY <3>1, <3>2
    <3>3. /\ Streaming /\ batch \subseteq written
          /\ pc' = "ack" /\ UNCHANGED <<pos, base, written, parked, batch>>
      BY <1>11, <2>2 DEF CommitOffset
    <3>4. ASSUME SafeLabels, WithDLQ, NEW c \in Changes, c > base, Covers(Label[pos], c)
          PROVE  c \in Accounted
      <4>1. c <= pos
        BY <3>1, <3>2, <3>4
      <4>2. QED
        BY <3>3, <3>4, <4>1
    <3>5. SafeLabels => StreamedIsAccounted'
      BY <3>1, <3>3, <3>4
    <3>6. QED
      BY <3>1, <3>2, <3>3, <3>5
  <2>3. QED
    BY <2>1, <2>2
<1>12. CASE FinishFlush
  BY <1>12 DEF FinishFlush
<1>13. CASE PostWriteFails
  BY <1>13 DEF PostWriteFails
<1>14. CASE Park
  BY <1>14 DEF Park
<1>15. CASE ParkFails
  BY <1>15 DEF ParkFails
<1>16. CASE Produce
  BY <1>16 DEF Produce
<1>17. CASE Start
  BY <1>17 DEF Start
<1>18. CASE WorkerCrashes
  BY <1>18 DEF WorkerCrashes
<1>19. CASE RequestStop
  BY <1>19 DEF RequestStop
<1>20. CASE ProcessCrash
  BY <1>20 DEF ProcessCrash
<1>21. CASE UNCHANGED vars
  BY <1>21 DEF vars
<1>22. QED
  BY <1>1, <1>2, <1>3, <1>4, <1>5, <1>6, <1>8, <1>9, <1>10, <1>11, <1>12, <1>13, <1>14, <1>15, <1>16, <1>17, <1>18, <1>19, <1>20, <1>21 DEF Next, WorkerStep

\* The invariant holds before the first worker starts.
LEMMA InitIInv == Init => IInv
<1> SUFFICES ASSUME Init PROVE IInv
  OBVIOUS
<1>1. TypeOK
  BY InitType
<1>2. FlushInv /\ SnapshotInv /\ SnapshotComplete
  BY DEF Init, FlushInv, SnapshotInv, SnapshotComplete, Snapshotting, Streaming
<1>3. StreamInv /\ CoverInv
  BY DEF Init, StreamInv, CoverInv, Streaming, StreamedIsAccounted
<1>4. QED
  BY <1>1, <1>2, <1>3 DEF IInv

\* The inductive invariant holds in every reachable state.
THEOREM Inductive == Spec => []IInv
<1>1. IInv /\ [Next]_vars => IInv'
  <2> SUFFICES ASSUME IInv, [Next]_vars PROVE IInv'
    OBVIOUS
  <2>1. TypeOK'
    BY TypeStep DEF IInv
  <2>2. QED
    BY <2>1, FlushStep, SnapshotStep, SnapshotCompleteStep, StreamStep, CoverStep
       DEF IInv
<1>2. QED
  BY <1>1, InitIInv, PTL DEF Spec

-----------------------------------------------------------------------------
(* The properties *)

\* "Commits the offset only after a successful write" (engine.py, line 9), read
\* as what a restart needs: provided no flush boundary can fall between changes
\* that share an offset, the saved offset covers only what is in the sink or in
\* the queue, of all that followed the point where streaming began.
THEOREM StreamedSafe == ASSUME SafeLabels PROVE Spec => []StreamedIsAccounted
<1>1. IInv => StreamedIsAccounted
  BY SafeLabels DEF IInv, CoverInv
<1>2. QED
  BY <1>1, Inductive, PTL

\* If moreover a stream without an offset begins at the beginning of the log, as
\* the comment at engine.py line 202 has it, nothing at all is skipped.
THEOREM CoveredSafe ==
    ASSUME SafeLabels, StartAt = "beginning" PROVE Spec => []CoveredIsAccounted
<1>1. IInv => CoveredIsAccounted
  <2> SUFFICES ASSUME IInv PROVE CoveredIsAccounted
    OBVIOUS
  <2>1. StreamedIsAccounted /\ base = 0
    BY SafeLabels, StartAt = "beginning" DEF IInv, CoverInv, StreamInv
  <2>2. QED
    BY <2>1 DEF StreamedIsAccounted, CoveredIsAccounted
<1>2. QED
  BY <1>1, Inductive, PTL

\* "snap:done" is saved only when the whole snapshot is in the sink or the queue.
THEOREM SnapshotSafe == Spec => []SnapshotComplete
<1>1. IInv => SnapshotComplete
  BY DEF IInv
<1>2. QED
  BY <1>1, Inductive, PTL

\* A source that resumes strictly after an offset of its own for every change is
\* never made to write a committed change again.
THEOREM NoRedelivery == ASSUME SafeLabels PROVE Spec => []NoCommittedRedelivery
<1>1. IInv => NoCommittedRedelivery
  <2> SUFFICES ASSUME IInv, pc = "write", offset \in Changes,
                      NEW c \in batch, Covers(offset, c)
               PROVE  FALSE
    BY DEF NoCommittedRedelivery
  <2>1. Streaming
    BY DEF IInv, TypeOK, SnapshotInv, Snapshotting, Streaming
  <2>2. QED
    BY <2>1, SafeLabels DEF IInv, CoverInv
<1>2. QED
  BY <1>1, Inductive, PTL

\* The saved offset never moves back, whatever the labels.
THEOREM OffsetsOnlyAdvance == Spec => OffsetMonotone
<1>1. IInv /\ [Next]_vars => [offset' >= offset]_offset
  <2> SUFFICES ASSUME IInv, [Next]_vars PROVE offset' >= offset
    BY DEF IInv
  <2> USE DEF IInv, TypeOK
  <2>1. CASE MarkSnapshotDone
    BY <2>1 DEF MarkSnapshotDone, SnapshotInv, Snapshotting
  <2>2. CASE CommitOffset
    BY <2>2 DEF CommitOffset, FlushOffset, StreamInv, FlushInv, Streaming
  <2>3. CASE UNCHANGED offset
    BY <2>3
  <2>4. QED
    BY <2>1, <2>2, <2>3
       DEF Next, WorkerStep, vars, SnapshotRow, SnapshotStop, SnapshotEnd, OpenStream,
           Receive, NoticeStop, WriteBatch, WriteFails, FinishFlush,
           PostWriteFails, Park, ParkFails, Produce, Start, WorkerCrashes, RequestStop,
           ProcessCrash
<1>2. QED
  BY <1>1, Inductive, PTL DEF Spec, OffsetMonotone

-----------------------------------------------------------------------------
(* The refinement *)

\* Nothing is delivered before it is committed at the source.
Backed == view <= head /\ batch \subseteq 1..head

LEMMA BackedStep == ASSUME TypeOK, Backed, [Next]_vars PROVE Backed'
<1> USE DEF TypeOK, Backed
<1>1. CASE SnapshotRow
  BY <1>1 DEF SnapshotRow, Changes
<1>2. CASE Receive
  BY <1>2 DEF Receive, Changes
<1>3. CASE Produce
  BY <1>3 DEF Produce, Changes
<1>4. CASE Start
  BY <1>4 DEF Start
<1>5. CASE UNCHANGED <<head, view>> /\ (batch' = batch \/ batch' = {})
  BY <1>5
<1>6. QED
  BY <1>1, <1>2, <1>3, <1>4, <1>5
     DEF Next, WorkerStep, vars, SnapshotStop, SnapshotEnd, MarkSnapshotDone, OpenStream,
         NoticeStop, WriteBatch, WriteFails, CommitOffset, FinishFlush,
         PostWriteFails, Park, ParkFails, WorkerCrashes, RequestStop, ProcessCrash

LEMMA InitBacked == Init => Backed
BY DEF Init, Backed

\* The stores grow by changes the log has.
LEMMA DeliverStep ==
    ASSUME TypeOK, Backed, [Next]_vars
    PROVE  \/ UNCHANGED Accounted
           \/ /\ Accounted \subseteq Accounted' /\ Accounted' \subseteq Accounted \union 1..head
              /\ UNCHANGED <<head, offset>>
<1>1. CASE WriteBatch \/ WriteFails \/ Park
  BY <1>1 DEF WriteBatch, WriteFails, Park, Accounted, Backed
<1>2. CASE UNCHANGED <<written, parked>>
  BY <1>2 DEF Accounted
<1>3. QED
  BY <1>1, <1>2
     DEF Next, WorkerStep, vars, SnapshotRow, SnapshotStop, SnapshotEnd, MarkSnapshotDone,
         OpenStream, Receive, NoticeStop, CommitOffset, FinishFlush,
         PostWriteFails, ParkFails, Produce, Start, WorkerCrashes, RequestStop, ProcessCrash

\* Every step is one of the abstract specification, or none.
LEMMA PromiseStep ==
    ASSUME TypeOK, TypeOK', Backed, CoveredIsAccounted', WithDLQ, [Next]_vars
    PROVE  [Promise!Next]_(Promise!vars)
<1> USE DEF Promise!vars, Promise!Next
<1>1. Settled' \subseteq Accounted'
  BY DEF CoveredIsAccounted, Settled, Covers
<1>2. CASE Produce
  <2>1. head' \in head..NChanges /\ UNCHANGED <<offset, written, parked>>
    BY <1>2, ConstantsAssumption DEF Produce, TypeOK, Changes
  <2>2. QED
    BY <2>1 DEF Promise!Commit, Accounted, Settled, Covers
<1>3. CASE UNCHANGED head /\ UNCHANGED Accounted
  BY <1>1, <1>3 DEF Promise!Settle
<1>4. CASE ~Produce /\ ~UNCHANGED Accounted
  <2>1. /\ Accounted \subseteq Accounted' /\ Accounted' \subseteq Accounted \union 1..head
        /\ UNCHANGED <<head, offset>>
    BY <1>4, DeliverStep
  <2>2. QED
    BY <2>1 DEF Promise!Deliver, Settled, Covers
<1>5. ~Produce => UNCHANGED head
  BY DEF Next, WorkerStep, vars, SnapshotRow, SnapshotStop, SnapshotEnd, MarkSnapshotDone,
         OpenStream, Receive, NoticeStop, WriteBatch, WriteFails,
         CommitOffset, FinishFlush, PostWriteFails, Park, ParkFails, Start, WorkerCrashes,
         RequestStop, ProcessCrash
<1>6. QED
  BY <1>2, <1>3, <1>4, <1>5

\* Where a stream without an offset begins at the beginning of the log, and shared
\* offsets are read again, the worker with a dead letter queue implements at-least-
\* once delivery, for every log, batch size and number of crashes.
THEOREM WorkerKeepsPromise ==
    ASSUME SafeLabels, StartAt = "beginning", WithDLQ PROVE Spec => KeepsPromise
<1>1. Init => Promise!Init
  BY DEF Init, Promise!Init, Accounted, Settled, NoOffset, Changes
<1>2. TypeOK /\ Backed /\ [Next]_vars => Backed'
  BY BackedStep
<1>3. Spec => []Backed
  BY <1>2, InitBacked, TypeCorrect, PTL DEF Spec
<1>4. TypeOK /\ TypeOK' /\ Backed /\ CoveredIsAccounted' /\ [Next]_vars
      => [Promise!Next]_(Promise!vars)
  BY PromiseStep, WithDLQ
<1>5. QED
  BY <1>1, <1>3, <1>4, TypeCorrect, CoveredSafe, SafeLabels, StartAt = "beginning", PTL
     DEF Spec, KeepsPromise, Promise!Spec

=============================================================================
