-------------------------- MODULE DeadLetterQueue --------------------------
(***************************************************************************)
(* core/dlq.py: the dead letter table and the DLQWorker threads that       *)
(* replay it, together with the operator's requests that ui/backend/app.py *)
(* turns into statements on the same table from its own connection.        *)
(*                                                                         *)
(* Every method of DeadLetterQueue is one SQL statement and so one atomic  *)
(* step; a replay round is a get_pending followed, for each entry of that  *)
(* result, by get_events, write_batch and mark_replayed or mark_failed,    *)
(* all of them separate steps.  CDCEngine.stop sets the DLQWorker's stop   *)
(* event but does not join the thread, and the event is looked at only     *)
(* between rounds: after a stop and a start in the same process a second   *)
(* worker can run while the first finishes its round.                      *)
(***************************************************************************)
EXTENDS Integers, FiniteSets

CONSTANTS
    NEntries,    \* bound: number of batches ever parked
    MaxRetries,  \* options.dlq_max_retries
    RoundLimit,  \* the limit DLQWorker passes to get_pending
    Replayers    \* DLQWorker threads that can exist at a time

Entries == 1..NEntries

ASSUME ConstantsAssumption ==
    /\ NEntries \in Nat
    /\ MaxRetries \in Nat \ {0}
    /\ RoundLimit \in Nat \ {0}
    /\ IsFiniteSet(Replayers)

VARIABLES
    nextId,      \* the id the next push gets (AUTOINCREMENT)
    status,      \* status column
    retries,     \* retry_count column
    delivered,   \* entries whose events the sink has applied at least once
    pc,          \* pc[w]: where DLQWorker w is
    todo,        \* todo[w]: rest of w's get_pending result
    stopping     \* stopping[w]: w's stop event

vars == <<nextId, status, retries, delivered, pc, todo, stopping>>

Statuses == {"pending", "replayed", "exhausted", "discarded"}

Pushed == 1..(nextId - 1)
Pending == {e \in Pushed : status[e] = "pending"}

\* The entry the for loop of w is at: ids ascend.
Current(w) == {e \in todo[w] : \A f \in todo[w] : e <= f}

-----------------------------------------------------------------------------
Init ==
    /\ nextId = 1
    /\ status = [e \in Entries |-> "pending"]
    /\ retries = [e \in Entries |-> 0]
    /\ delivered = {}
    /\ pc = [w \in Replayers |-> "absent"]
    /\ todo = [w \in Replayers |-> {}]
    /\ stopping = [w \in Replayers |-> FALSE]

\* A TableWorker parks a failed batch (push).
Push ==
    /\ nextId \in Entries
    /\ nextId' = nextId + 1
    /\ status' = [status EXCEPT ![nextId] = "pending"]
    /\ retries' = [retries EXCEPT ![nextId] = 0]
    /\ UNCHANGED <<delivered, pc, todo, stopping>>

-----------------------------------------------------------------------------
(* The retry worker *)

\* Mutation: _set_status writes a status nobody reads.
SetStatusUnknown(e, st) == status' = [status EXCEPT ![e] = "done"] /\ UNCHANGED retries

SetStatus(e, st) == status' = [status EXCEPT ![e] = st] /\ UNCHANGED retries

\* Mutation: `>` for `>=`.
MarkFailedLate(e) ==
    /\ retries' = [retries EXCEPT ![e] = @ + 1]
    /\ status' = [status EXCEPT ![e] =
                    IF retries[e] + 1 > MaxRetries THEN "exhausted" ELSE "pending"]

\* Mutation: the first failure exhausts the entry.
MarkFailedAtOnce(e) ==
    /\ retries' = [retries EXCEPT ![e] = @ + 1]
    /\ status' = [status EXCEPT ![e] = "exhausted"]

\* mark_failed: one more retry, whatever the entry's status is by now.
MarkFailed(e) ==
    /\ retries' = [retries EXCEPT ![e] = @ + 1]
    /\ status' = [status EXCEPT ![e] =
                    IF retries[e] + 1 >= MaxRetries THEN "exhausted" ELSE "pending"]

\* The for loop takes the next entry, or the round is over.
NextEntry(w, e) ==
    LET rest == todo[w] \ {e}
    IN  /\ todo' = [todo EXCEPT ![w] = rest]
        /\ pc' = [pc EXCEPT ![w] = IF rest = {} THEN "wait" ELSE "entry"]

\* Mutation: the limit is applied before the status filter.
BeginRoundLimitFirst(w) ==
    LET found == {e \in Pending : e <= RoundLimit}
    IN  /\ pc[w] = "wait" /\ ~stopping[w] /\ found # {}
        /\ todo' = [todo EXCEPT ![w] = found]
        /\ pc' = [pc EXCEPT ![w] = "entry"]
        /\ UNCHANGED <<nextId, status, retries, delivered, stopping>>

\* get_pending: the oldest RoundLimit pending entries.
BeginRound(w) ==
    /\ pc[w] = "wait"
    /\ ~stopping[w]
    /\ Pending # {}
    /\ todo' = [todo EXCEPT ![w] =
                  {e \in Pending : Cardinality({f \in Pending : f < e}) < RoundLimit}]
    /\ pc' = [pc EXCEPT ![w] = "entry"]
    /\ UNCHANGED <<nextId, status, retries, delivered, stopping>>

\* get_events and write_batch succeed.  (get_events is never empty: rows are not
\* deleted and _flush parks no empty batch.)
ReplayWrites(w) ==
    /\ pc[w] = "entry"
    /\ delivered' = delivered \union Current(w)
    /\ pc' = [pc EXCEPT ![w] = "written"]
    /\ UNCHANGED <<nextId, status, retries, todo, stopping>>

\* Mutation: write_batch's exception is swallowed.
ReplayFailsUnseen(w) ==
    /\ pc[w] = "entry"
    /\ pc' = [pc EXCEPT ![w] = "written"]
    /\ UNCHANGED <<nextId, status, retries, delivered, todo, stopping>>

\* get_events or write_batch raises.
ReplayFails(w) ==
    /\ pc[w] = "entry"
    /\ pc' = [pc EXCEPT ![w] = "failed"]
    /\ UNCHANGED <<nextId, status, retries, delivered, todo, stopping>>

MarkReplayed(w) ==
    /\ pc[w] = "written"
    /\ \E e \in Current(w) : SetStatus(e, "replayed") /\ NextEntry(w, e)
    /\ UNCHANGED <<nextId, delivered, stopping>>

\* mark_replayed raises: the same handler counts the entry as failed.
MarkReplayedFails(w) ==
    /\ pc[w] = "written"
    /\ pc' = [pc EXCEPT ![w] = "failed"]
    /\ UNCHANGED <<nextId, status, retries, delivered, todo, stopping>>

CountFailure(w) ==
    /\ pc[w] = "failed"
    /\ \E e \in Current(w) : MarkFailed(e) /\ NextEntry(w, e)
    /\ UNCHANGED <<nextId, delivered, stopping>>

\* mark_failed raises: run logs it and waits for the next round.
AbortRound(w) ==
    /\ pc[w] = "failed"
    /\ todo' = [todo EXCEPT ![w] = {}]
    /\ pc' = [pc EXCEPT ![w] = "wait"]
    /\ UNCHANGED <<nextId, status, retries, delivered, stopping>>

\* `while not self._stop.wait(...)` ends the thread.
Exit(w) ==
    /\ pc[w] = "wait"
    /\ stopping[w]
    /\ pc' = [pc EXCEPT ![w] = "absent"]
    /\ stopping' = [stopping EXCEPT ![w] = FALSE]
    /\ UNCHANGED <<nextId, status, retries, delivered, todo>>

-----------------------------------------------------------------------------
(* The engine: at most one DLQWorker has not been told to stop. *)

EngineStart(w) ==
    /\ \A v \in Replayers : pc[v] = "absent" \/ stopping[v]
    /\ pc[w] = "absent"
    /\ pc' = [pc EXCEPT ![w] = "wait"]
    /\ UNCHANGED <<nextId, status, retries, delivered, todo, stopping>>

EngineStop(w) ==
    /\ pc[w] # "absent"
    /\ ~stopping[w]
    /\ stopping' = [stopping EXCEPT ![w] = TRUE]
    /\ UNCHANGED <<nextId, status, retries, delivered, pc, todo>>

ProcessCrash ==
    /\ \E w \in Replayers : pc[w] # "absent"
    /\ pc' = [w \in Replayers |-> "absent"]
    /\ todo' = [w \in Replayers |-> {}]
    /\ stopping' = [w \in Replayers |-> FALSE]
    /\ UNCHANGED <<nextId, status, retries, delivered>>

-----------------------------------------------------------------------------
(* The operator *)

Requeue(S) ==
    /\ status' = [e \in Entries |-> IF e \in S THEN "pending" ELSE status[e]]
    /\ retries' = [e \in Entries |-> IF e \in S THEN 0 ELSE retries[e]]
    /\ UNCHANGED <<nextId, delivered, pc, todo, stopping>>

Drop(S) ==
    /\ status' = [e \in Entries |-> IF e \in S THEN "discarded" ELSE status[e]]
    /\ UNCHANGED <<nextId, retries, delivered, pc, todo, stopping>>

\* POST /api/dlq/<id>/retry (reset_to_pending).  The page offers it for pending and
\* exhausted entries as it last saw them; the request can find any status.
Retry(e) == e \in Pushed /\ Requeue({e})

\* POST /api/dlq/retry-all (reset_all_exhausted).
RetryAll ==
    LET S == {e \in Pushed : status[e] = "exhausted"} IN S # {} /\ Requeue(S)

\* DELETE /api/dlq/<id> (discard).
Discard(e) == e \in Pushed /\ Drop({e})

\* DELETE /api/dlq (discard_all).
DiscardAll ==
    LET S == {e \in Pushed : status[e] \in {"pending", "exhausted"}}
    IN  S # {} /\ Drop(S)

Operator == (\E e \in Entries : Retry(e) \/ Discard(e)) \/ RetryAll \/ DiscardAll

Replay(w) ==
    \/ BeginRound(w) \/ ReplayWrites(w) \/ ReplayFails(w) \/ MarkReplayed(w)
    \/ MarkReplayedFails(w) \/ CountFailure(w) \/ Exit(w)

Engine == ProcessCrash \/ \E w \in Replayers : EngineStart(w) \/ EngineStop(w)

Next ==
    \/ Push
    \/ Operator
    \/ Engine
    \/ \E w \in Replayers : Replay(w) \/ AbortRound(w)

Spec == Init /\ [][Next]_vars

\* The interval timer fires and a running thread makes progress.
FairSpec == Spec /\ \A w \in Replayers : WF_vars(Replay(w))

-----------------------------------------------------------------------------
(* Properties *)

\* Every variable keeps its type.
TypeOK ==
    /\ nextId \in 1..(NEntries + 1)
    /\ status \in [Entries -> Statuses]
    /\ retries \in [Entries -> Nat]
    /\ delivered \subseteq Entries
    /\ pc \in [Replayers -> {"absent", "wait", "entry", "written", "failed"}]
    /\ todo \in [Replayers -> SUBSET Entries]
    /\ stopping \in [Replayers -> BOOLEAN]

\* An entry shown as replayed ("successfully re-flushed", dlq.py line 9) has
\* really been applied by the sink.
ReplayedWasWritten ==
    \A e \in Pushed : status[e] = "replayed" => e \in delivered

\* An entry is retried max_retries times, and once more only by a round of an
\* earlier engine's DLQWorker that still runs and had it in its list; a pending
\* entry always has an attempt left.  Operators may reset or discard it meanwhile
\* (dlq.py:161-175, engine.py:517).
RetryBudget ==
    \A e \in Pushed :
        /\ retries[e] <= MaxRetries + Cardinality(Replayers) - 1
        /\ status[e] = "pending" => retries[e] < MaxRetries

\* Parking is not dropping (dlq.py line 4): a batch the sink never got leaves
\* the queue only as exhausted after max_retries attempts or by an operator.
UndeliveredStaysQueued ==
    [][\A e \in Entries :
          e \in Pending /\ e \notin delivered /\ status'[e] # "pending" =>
             \/ Operator
             \/ status'[e] = "exhausted" /\ retries'[e] >= MaxRetries]_vars

\* Once operators, engine and database stop interfering and one DLQWorker runs,
\* no pending entry waits for ever behind others that keep failing.
Undisturbed == <>[][~(Operator \/ Engine \/ \E w \in Replayers : AbortRound(w))]_vars
OneRuns == <>[](\E w \in Replayers : pc[w] # "absent" /\ ~stopping[w])
EveryEntrySettles ==
    Undisturbed /\ OneRuns => \A e \in Entries : e \in Pending ~> e \notin Pending

-----------------------------------------------------------------------------
(* The inductive invariant behind the safety properties *)

DeliveryInv ==
    /\ ReplayedWasWritten
    /\ \A w \in Replayers : pc[w] = "written" => Current(w) \subseteq delivered

\* The rounds that will still count an attempt for e.
Holders(e) == {w \in Replayers : e \in todo[w]}

BudgetInv ==
    \A e \in Entries :
        /\ retries[e] + Cardinality(Holders(e)) <= MaxRetries + Cardinality(Replayers) - 1
        /\ status[e] = "pending" => retries[e] < MaxRetries

\* What a thread is about to mark replayed is in the sink, and the attempts of the
\* rounds under way fit in the budget.
IInv == TypeOK /\ DeliveryInv /\ BudgetInv

=============================================================================
