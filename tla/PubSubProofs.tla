---------------------------- MODULE PubSubProofs ----------------------------
(***************************************************************************)
(* What is acknowledged is safe, for any set of messages and any sizes of  *)
(* pulls and batches, whether or not deadlines are extended in time.       *)
(***************************************************************************)
EXTENDS PubSub, TLAPS

USE ConstantsAssumption DEF MessageStates, Halted, ControlPoints

\* The steps of the service and of the worker's thread, one name for each.
LEMMA Steps ==
    ASSUME Next
    PROVE  \/ \E S \in SUBSET Messages : Pull(S)
           \/ \E m \in Messages :
                 Publish(m) \/ DeadlineLapses(m) \/ AckBad(m) \/ Yield(m) \/ YieldToStopped(m)
           \/ Heartbeat \/ WriteBatch \/ WriteFails \/ CommitOffset \/ AckPending
           \/ FinishFlush \/ PostWriteFails \/ Park \/ ParkFails
           \/ Start \/ WorkerCrashes \/ RequestStop \/ ProcessCrash
BY DEF Next, Deliver, Loop, Flush

-----------------------------------------------------------------------------
\* Every variable keeps its type through every step.
LEMMA TypeStep == TypeOK /\ [Next]_vars => TypeOK'
<1> SUFFICES ASSUME TypeOK, [Next]_vars PROVE TypeOK'
  OBVIOUS
<1> USE DEF TypeOK, Become, In
<1>1. ASSUME NEW S \in SUBSET Messages, Pull(S) PROVE TypeOK'
  BY <1>1 DEF Pull
<1>2. ASSUME NEW m \in Messages, Publish(m) \/ DeadlineLapses(m) \/ AckBad(m) PROVE TypeOK'
  BY <1>2 DEF Publish, DeadlineLapses, AckBad
<1>3. ASSUME NEW m \in Messages, Yield(m) PROVE TypeOK'
  BY <1>3 DEF Yield, AddPending, MayFlush, BeginFlush
<1>4. ASSUME NEW m \in Messages, YieldToStopped(m) PROVE TypeOK'
  BY <1>4 DEF YieldToStopped, AddPending, LeaveLoop, BeginFlush
<1>5. CASE Heartbeat
  BY <1>5 DEF Heartbeat, LeaveLoop, BeginFlush
<1>6. CASE WriteBatch \/ WriteFails \/ CommitOffset
  BY <1>6 DEF WriteBatch, WriteFails, CommitOffset
<1>7. CASE AckPending
  BY <1>7 DEF AckPending
<1>8. CASE FinishFlush \/ PostWriteFails \/ Park \/ ParkFails
  BY <1>8 DEF FinishFlush, PostWriteFails, Park, ParkFails
<1>9. CASE Start
  BY <1>9 DEF Start
<1>10. CASE WorkerCrashes \/ RequestStop \/ ProcessCrash
  BY <1>10 DEF WorkerCrashes, RequestStop, ProcessCrash
<1>11. CASE UNCHANGED vars
  BY <1>11 DEF vars
<1>12. QED
  BY <1>1, <1>2, <1>3, <1>4, <1>5, <1>6, <1>7, <1>8, <1>9, <1>10, <1>11, Steps

LEMMA InitType == Init => TypeOK
BY DEF Init, TypeOK

\* Every variable keeps its type.
THEOREM TypeCorrect == Spec => []TypeOK
BY InitType, TypeStep, PTL DEF Spec

-----------------------------------------------------------------------------
\* A pending ack id stays in the batch, in the stores or among the dropped until
\* it is acknowledged.
LEMMA PendingStep == TypeOK /\ PendingInv /\ [Next]_vars => PendingInv'
<1> SUFFICES ASSUME TypeOK, PendingInv, [Next]_vars PROVE PendingInv'
  OBVIOUS
<1> USE DEF TypeOK, PendingInv, Accounted
<1>1. ASSUME NEW S \in SUBSET Messages, Pull(S) PROVE PendingInv'
  BY <1>1 DEF Pull
<1>2. ASSUME NEW m \in Messages, Publish(m) \/ DeadlineLapses(m) \/ AckBad(m)
      PROVE PendingInv'
  BY <1>2 DEF Publish, DeadlineLapses, AckBad
<1>3. ASSUME NEW m \in Messages, Yield(m) PROVE PendingInv'
  BY <1>3 DEF Yield, AddPending, MayFlush, BeginFlush
<1>4. ASSUME NEW m \in Messages, YieldToStopped(m) PROVE PendingInv'
  BY <1>4 DEF YieldToStopped, AddPending, LeaveLoop, BeginFlush
<1>5. CASE Heartbeat
  BY <1>5 DEF Heartbeat, LeaveLoop, BeginFlush
<1>6. CASE WriteBatch \/ WriteFails \/ CommitOffset \/ AckPending
  BY <1>6 DEF WriteBatch, WriteFails, CommitOffset, AckPending
<1>7. CASE FinishFlush \/ PostWriteFails \/ Park \/ ParkFails
  BY <1>7 DEF FinishFlush, PostWriteFails, Park, ParkFails
<1>8. CASE Start \/ WorkerCrashes \/ RequestStop \/ ProcessCrash
  BY <1>8 DEF Start, WorkerCrashes, RequestStop, ProcessCrash
<1>9. CASE UNCHANGED vars
  BY <1>9 DEF vars
<1>10. QED
  BY <1>1, <1>2, <1>3, <1>4, <1>5, <1>6, <1>7, <1>8, <1>9, Steps

\* Only AckPending acknowledges a message that can be decoded, and it does so
\* when the batch is written.
LEMMA AckStep ==
    TypeOK /\ PendingInv /\ AckedOrDropped /\ [Next]_vars => AckedOrDropped'
<1> SUFFICES ASSUME TypeOK, PendingInv, AckedOrDropped, [Next]_vars PROVE AckedOrDropped'
  OBVIOUS
<1> USE DEF TypeOK, AckedOrDropped, Accounted, Become, In
<1>1. ASSUME NEW S \in SUBSET Messages, Pull(S) PROVE AckedOrDropped'
  BY <1>1 DEF Pull
<1>2. ASSUME NEW m \in Messages, Publish(m) \/ DeadlineLapses(m) \/ AckBad(m)
      PROVE AckedOrDropped'
  BY <1>2 DEF Publish, DeadlineLapses, AckBad
<1>3. ASSUME NEW m \in Messages, Yield(m) \/ YieldToStopped(m) PROVE AckedOrDropped'
  BY <1>3 DEF Yield, YieldToStopped, AddPending
<1>4. CASE AckPending
  <2>1. pending \subseteq Accounted \union dropped
    BY <1>4 DEF AckPending, PendingInv
  <2>2. PICK A \in SUBSET pending :
          message' = [m \in Messages |->
                        IF m \in A THEN "acked"
                        ELSE IF message[m] = "held" THEN "leased" ELSE message[m]]
    BY <1>4 DEF AckPending
  <2>3. \A m \in Messages : message'[m] = "acked" => m \in pending \/ message[m] = "acked"
    BY <2>2
  <2>4. QED
    BY <1>4, <2>1, <2>3 DEF AckPending
<1>5. CASE Heartbeat \/ WriteBatch \/ WriteFails \/ CommitOffset
  BY <1>5 DEF Heartbeat, WriteBatch, WriteFails, CommitOffset
<1>6. CASE FinishFlush \/ PostWriteFails \/ Park \/ ParkFails
  BY <1>6 DEF FinishFlush, PostWriteFails, Park, ParkFails
<1>7. CASE Start \/ WorkerCrashes \/ RequestStop \/ ProcessCrash
  BY <1>7 DEF Start, WorkerCrashes, RequestStop, ProcessCrash
<1>8. CASE UNCHANGED vars
  BY <1>8 DEF vars
<1>9. QED
  BY <1>1, <1>2, <1>3, <1>4, <1>5, <1>6, <1>7, <1>8, Steps

\* The inductive invariant holds in every reachable state.
THEOREM Inductive == Spec => []IInv
<1>1. Init => IInv
  BY InitType DEF Init, IInv, PendingInv, AckedOrDropped, In
<1>2. IInv /\ [Next]_vars => IInv'
  BY TypeStep, PendingStep, AckStep DEF IInv
<1>3. QED
  BY <1>1, <1>2, PTL DEF Spec

\* An acknowledged message that can be decoded is in the sink or in the queue,
\* unless it was the one yielded together with a stop.
THEOREM AckedSafe == Spec => []AckedOrDropped
<1>1. IInv => AckedOrDropped
  BY DEF IInv
<1>2. QED
  BY <1>1, Inductive, PTL

=============================================================================
