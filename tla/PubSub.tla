------------------------------- MODULE PubSub -------------------------------
(***************************************************************************)
(* One Pub/Sub subscription (sources/pubsub.py) replicated by a worker     *)
(* (core/engine.py): pulled messages are yielded one by one, their ack ids *)
(* wait in _pending_acks, and on_batch_committed acknowledges them all.    *)
(* Deadlines may lapse, answers may be lost, writes may fail, the thread   *)
(* and the process may end.                                                *)
(*                                                                         *)
(* The worker always has a dead letter queue, as CDCEngine builds it.  The *)
(* snapshot of this source is empty and stream ignores its offset, so the  *)
(* offset store does not appear; set may still raise (CommitFails).        *)
(***************************************************************************)
EXTENDS FiniteSets, Integers

CONSTANTS
    Messages,        \* messages ever published
    Bad,             \* those whose data is not JSON
    MaxPull,         \* max_messages_per_pull
    MaxBatch,        \* upper end of the worker's batch size
    ExtensionsFail   \* modify_ack_deadline may fail or come too late

ASSUME ConstantsAssumption ==
    /\ Bad \subseteq Messages
    /\ MaxPull \in Nat \ {0}
    /\ MaxBatch \in Nat \ {0}
    /\ ExtensionsFail \in BOOLEAN

VARIABLES
    message,    \* message[m]: what the service knows of m and of its last delivery
    pc,         \* where the worker thread is
    after,      \* where _flush returns to
    response,   \* rest of the last pull, not yielded yet
    batch,      \* the worker's current batch
    pending,    \* messages with an ack id in _pending_acks
    stopFlag,   \* TableWorker._stop_flag
    written,    \* messages whose row the sink has
    parked,     \* messages in a dead letter queue entry
    dropped     \* history: messages yielded to a worker that was asked to stop

vars == <<message, pc, after, response, batch, pending, stopFlag, written,
          parked, dropped>>

\* "leased": delivered, deadline running; "held": the same, and the extender
\* prolongs the deadline because the delivery's ack id is pending.
MessageStates == {"unpublished", "available", "leased", "held", "acked"}

Halted == {"down", "stopped", "error"}
ControlPoints == Halted \union {"stream", "write", "commit", "ack", "report", "park"}

In(state) == {m \in Messages : message[m] = state}
Accounted == written \union parked

\* The service's record after the messages of S change to state.
Become(S, state) == [m \in Messages |-> IF m \in S THEN state ELSE message[m]]

-----------------------------------------------------------------------------
Init ==
    /\ message = [m \in Messages |-> "unpublished"]
    /\ pc = "down" /\ after = "stream"
    /\ response = {} /\ batch = {} /\ pending = {}
    /\ stopFlag = FALSE
    /\ written = {} /\ parked = {} /\ dropped = {}

(* The service *)

Publish(m) ==
    /\ message[m] = "unpublished"
    /\ message' = Become({m}, "available")
    /\ UNCHANGED <<pc, after, response, batch, pending, stopFlag, written, parked, dropped>>

\* stream's finally clause has stopped the extender: the worker has left the loop,
\* which closes the generator, and may still be in its last flush.
ExtenderStopped == pc \in Halted \/ (pc # "stream" /\ after = "stopped")

\* The deadline of a delivery lapses.  Only the ack ids in _pending_acks of a
\* running stream are extended.  A message waiting in a response can lapse while
\* the batch before it is flushed.
DeadlineLapses(m) ==
    /\ \/ message[m] = "leased" /\ (m \in response => pc # "stream")
       \/ message[m] = "held" /\ (ExtensionsFail \/ ExtenderStopped)
    /\ message' = Become({m}, "available")
    /\ UNCHANGED <<pc, after, response, batch, pending, stopFlag, written, parked, dropped>>

-----------------------------------------------------------------------------
(* stream and the loop that consumes it *)

\* A new engine: a new source object without pending ack ids.
Start ==
    /\ pc \in Halted
    /\ pc' = "stream"
    /\ message' = Become(In("held"), "leased")
    /\ response' = {} /\ batch' = {} /\ pending' = {}
    /\ stopFlag' = FALSE
    /\ UNCHANGED <<after, written, parked, dropped>>

Pull(S) ==
    /\ pc = "stream" /\ response = {}
    /\ S # {} /\ S \subseteq In("available")
    /\ Cardinality(S) <= MaxPull
    /\ message' = Become(S, "leased")
    /\ response' = S
    /\ UNCHANGED <<pc, after, batch, pending, stopFlag, written, parked, dropped>>

\* A message that cannot be decoded is acknowledged at once.
AckBad(m) ==
    /\ pc = "stream" /\ m \in response \intersect Bad
    /\ message' = Become({m}, "acked")
    /\ response' = response \ {m}
    /\ UNCHANGED <<pc, after, batch, pending, stopFlag, written, parked, dropped>>

BeginFlush(return) == pc' = "write" /\ after' = return

\* The worker flushes at its batch size or when batch_timeout has passed.
MayFlush ==
    \/ BeginFlush("stream")
    \/ Cardinality(batch') < MaxBatch /\ UNCHANGED <<pc, after>>

\* Mutation: a message that cannot be decoded is yielded all the same.
AddPendingAny(m) ==
    /\ pc = "stream" /\ m \in response
    /\ pending' = pending \union {m}
    /\ message' = IF message[m] = "leased" THEN Become({m}, "held") ELSE message

\* An ack id becomes pending before its event is yielded.  The delivery it names
\* may have lapsed while the message waited in the response.
AddPending(m) ==
    /\ pc = "stream" /\ m \in response \ Bad
    /\ pending' = pending \union {m}
    /\ message' = IF message[m] = "leased" THEN Become({m}, "held") ELSE message

Yield(m) ==
    /\ AddPending(m)
    /\ ~stopFlag
    /\ response' = response \ {m}
    /\ batch' = batch \union {m}
    /\ MayFlush
    /\ UNCHANGED <<stopFlag, written, parked, dropped>>

\* The loop ends: what is left in the batch is flushed, the rest of the response
\* is forgotten.
LeaveLoop ==
    /\ response' = {}
    /\ IF batch # {} THEN BeginFlush("stopped") ELSE pc' = "stopped" /\ UNCHANGED after

\* The loop looks at the stop flag after the event was yielded and breaks: the
\* event is in no batch, but its ack id is pending.
YieldToStopped(m) ==
    /\ AddPending(m)
    /\ stopFlag
    /\ dropped' = dropped \union {m}
    /\ LeaveLoop
    /\ UNCHANGED <<batch, stopFlag, written, parked>>

\* The pull finds nothing or fails and stream yields None; the worker flushes if
\* batch_timeout has passed, or leaves.
Heartbeat ==
    /\ pc = "stream" /\ response = {}
    /\ IF stopFlag THEN LeaveLoop
       ELSE batch # {} /\ BeginFlush("stream") /\ UNCHANGED response
    /\ UNCHANGED <<message, batch, pending, stopFlag, written, parked, dropped>>

\* acknowledge of an undecodable message raises, or the store or the thread fails
\* outside _flush.
WorkerCrashes ==
    /\ pc = "stream"
    /\ pc' = "error"
    /\ response' = {} /\ batch' = {}
    /\ UNCHANGED <<message, after, pending, stopFlag, written, parked, dropped>>

-----------------------------------------------------------------------------
(* _flush *)

WriteBatch ==
    /\ pc = "write"
    /\ written' = written \union batch
    /\ pc' = "commit"
    /\ UNCHANGED <<message, after, response, batch, pending, stopFlag, parked, dropped>>

WriteFails ==
    /\ pc = "write"
    /\ \E applied \in SUBSET batch : written' = written \union applied
    /\ pc' = "park"
    /\ UNCHANGED <<message, after, response, batch, pending, stopFlag, parked, dropped>>

\* offset_store.set
CommitOffset ==
    /\ pc = "commit"
    /\ pc' = "ack"
    /\ UNCHANGED <<message, after, response, batch, pending, stopFlag, written, parked, dropped>>

\* Mutation: everything delivered is acknowledged, yielded or not.
AckDelivered ==
    /\ pc = "ack"
    /\ message' = Become(In("leased") \union In("held"), "acked")
    /\ pending' = {} /\ pc' = "report"
    /\ UNCHANGED <<after, response, batch, stopFlag, written, parked, dropped>>

\* on_batch_committed: every pending ack id, whichever batch it came with.  A
\* request may fail, and the ack id of a lapsed delivery may have no effect; the
\* ids are forgotten all the same.
AckPending ==
    /\ pc = "ack"
    /\ \E A \in SUBSET pending :
          message' = [m \in Messages |->
                        IF m \in A THEN "acked"
                        ELSE IF message[m] = "held" THEN "leased" ELSE message[m]]
    /\ pending' = {}
    /\ pc' = "report"
    /\ UNCHANGED <<after, response, batch, stopFlag, written, parked, dropped>>

\* Status, tuner, trigger, drift check (which may ask the worker to stop).
FinishFlush ==
    /\ pc = "report"
    /\ pc' = after
    /\ batch' = {}
    /\ stopFlag' \in {stopFlag, TRUE}
    /\ UNCHANGED <<message, after, response, pending, written, parked, dropped>>

PostWriteFails ==
    /\ pc \in {"commit", "ack", "report"}
    /\ pc' = "park"
    /\ UNCHANGED <<message, after, response, batch, pending, stopFlag, written, parked, dropped>>

\* Mutation: a failed batch is only logged.
ParkNothing ==
    /\ pc = "park" /\ pc' = after /\ batch' = {}
    /\ UNCHANGED <<message, after, response, pending, stopFlag, written, parked, dropped>>

\* The batch's ack ids stay pending.
Park ==
    /\ pc = "park"
    /\ parked' = parked \union batch
    /\ pc' = after
    /\ batch' = {}
    /\ UNCHANGED <<message, after, response, pending, stopFlag, written, dropped>>

ParkFails ==
    /\ pc = "park"
    /\ pc' = "error"
    /\ response' = {} /\ batch' = {}
    /\ UNCHANGED <<message, after, pending, stopFlag, written, parked, dropped>>

-----------------------------------------------------------------------------
RequestStop ==
    /\ pc \notin Halted /\ ~stopFlag
    /\ stopFlag' = TRUE
    /\ UNCHANGED <<message, pc, after, response, batch, pending, written, parked, dropped>>

ProcessCrash ==
    /\ pc # "down"
    /\ pc' = "down"
    /\ response' = {} /\ batch' = {} /\ pending' = {}
    /\ stopFlag' = FALSE
    /\ UNCHANGED <<message, after, written, parked, dropped>>

Deliver == \E S \in SUBSET Messages : Pull(S)

Flush ==
    \/ WriteBatch \/ WriteFails \/ CommitOffset \/ AckPending \/ FinishFlush
    \/ PostWriteFails \/ Park \/ ParkFails

Loop == Heartbeat \/ \E m \in Messages : AckBad(m) \/ Yield(m) \/ YieldToStopped(m)

Next ==
    \/ Deliver \/ Loop \/ Flush
    \/ Start \/ WorkerCrashes \/ RequestStop \/ ProcessCrash
    \/ \E m \in Messages : Publish(m) \/ DeadlineLapses(m)

Spec == Init /\ [][Next]_vars

\* A running thread makes progress, batch_timeout passes for a batch that keeps
\* growing, and the service delivers again what lapses: a pull that keeps being
\* repeated returns a message that stays available.
FairSpec ==
    /\ Spec
    /\ WF_vars(Loop \/ Flush)
    /\ SF_vars(Loop /\ pc' = "write")
    /\ \A m \in Messages :
          /\ WF_vars(message[m] = "leased" /\ DeadlineLapses(m))
          /\ SF_vars(Deliver /\ m \in response')

-----------------------------------------------------------------------------
(* Properties *)

\* Every variable keeps its type.
TypeOK ==
    /\ message \in [Messages -> MessageStates]
    /\ pc \in ControlPoints
    /\ after \in {"stream", "stopped"}
    /\ response \subseteq Messages
    /\ batch \subseteq Messages \ Bad
    /\ pending \subseteq Messages \ Bad
    /\ stopFlag \in BOOLEAN
    /\ written \subseteq Messages
    /\ parked \subseteq Messages
    /\ dropped \subseteq Messages

\* "messages are acked only AFTER the Iceberg batch write succeeds (via
\* on_batch_committed), preserving at-least-once delivery" (pubsub.py lines 7-8),
\* with a parked batch counted as safe: what the service will never deliver again
\* is in the sink or in the queue.
AckedIsAccounted == In("acked") \ Bad \subseteq Accounted

\* The only exception: the one message yielded together with a stop.
AckedOrDropped == In("acked") \ Bad \subseteq Accounted \union dropped

\* While the worker keeps running, every decodable message that was published is
\* written or parked (or dropped at a stop, as above): none that is in no batch is
\* kept from redelivery for ever.
EventuallyDelivered ==
    <>[](pc \notin Halted) =>
        \A m \in Messages \ Bad :
            message[m] # "unpublished" ~> m \in Accounted \union dropped

-----------------------------------------------------------------------------
(* The inductive invariant behind AckedOrDropped *)

\* Every pending ack id belongs to a message that is safe, dropped, or in the
\* batch that is being flushed; only a batch that is written is committed.
PendingInv ==
    /\ pc \notin Halted => pending \subseteq batch \union Accounted \union dropped
    /\ pc \in {"commit", "ack", "report"} => batch \subseteq written

IInv == TypeOK /\ PendingInv /\ AckedOrDropped

=============================================================================
