---------------------------- MODULE EngineLifecycle ----------------------------
(***************************************************************************)
(* Starting, stopping and restarting the engine from the UI: the request   *)
(* handlers of ui/backend/app.py, which Flask runs in threads of their own,*)
(* the stopper thread a stop request leaves behind, the engine threads     *)
(* running _engine_run, and the CDCEngine in each of them with one         *)
(* TableWorker for one and the same table.  The offset store and the sink  *)
(* are shared by all engines, as are the globals _engine, _engine_thread   *)
(* and the engine state in _status_store.                                  *)
(*                                                                         *)
(* TableWorker models the worker in detail; here it reads, writes and      *)
(* commits, so that two of them may do so at once.                         *)
(***************************************************************************)
EXTENDS Integers, FiniteSets

CONSTANTS
    MaxEngines,  \* bound: engine threads ever started
    MaxRequests, \* bound: start, stop and restart requests
    MaxResets,   \* bound: offset resets
    NChanges     \* bound: changes the table ever has

ASSUME ConstantsAssumption ==
    {MaxEngines, MaxRequests, MaxResets, NChanges} \subseteq Nat

Engines == 1..MaxEngines
Requests == 1..MaxRequests
None == 0  \* no engine, no thread, nobody

VARIABLES
    engine,     \* _engine: the engine that stop requests see
    thread,     \* _engine_thread, by its engine
    state,      \* _status_store's engine state
    lock,       \* who holds _engine_lock across steps: a request or nobody
    epc,        \* where each engine's thread is
    stopFlag,   \* the engine's workers have been told to stop
    wpc,        \* where each engine's worker is
    pos, hi,    \* what the worker has done, the end of its batch
    saved,      \* the offset store's row, 0 for none
    written,    \* changes the sink has
    rpc, kind,  \* where each request is, what it asks for
    target,     \* the engine a stop request found
    spc,        \* where its stopper thread is
    resets,
    orderly,    \* history: nothing of what OneWorkerPerTable excepts has happened
    lingering   \* history: a join of an engine thread timed out

shared == <<engine, thread, state, lock>>
workers == <<wpc, pos, hi, saved, written>>
requests == <<rpc, kind, target, spc>>
history == <<orderly, lingering>>
vars == <<shared, epc, stopFlag, workers, requests, resets, history>>

EnginePoints == {"none", "spawned", "building", "connecting", "running",
                 "leaving", "ended"}
WorkerPoints == {"none", "open", "stream", "flush", "save", "ended"}
RequestPoints == {"none", "check", "joining", "spawn", "stop", "done"}
StopperPoints == {"none", "flag", "join", "clear"}

Alive(e) == e # None /\ epc[e] \notin {"none", "ended"}
Working(e) == wpc[e] \notin {"none", "ended"}

\* A request and the stopper it may have started are through.
Settled(r) == rpc[r] = "done" /\ spc[r] = "none"

Init ==
    /\ engine = None /\ thread = None /\ state = "stopped" /\ lock = None
    /\ epc = [e \in Engines |-> "none"] /\ stopFlag = [e \in Engines |-> FALSE]
    /\ wpc = [e \in Engines |-> "none"]
    /\ pos = [e \in Engines |-> 0] /\ hi = [e \in Engines |-> 0]
    /\ saved = 0 /\ written = {}
    /\ rpc = [r \in Requests |-> "none"] /\ kind = [r \in Requests |-> "start"]
    /\ target = [r \in Requests |-> None] /\ spc = [r \in Requests |-> "none"]
    /\ resets = 0
    /\ orderly = TRUE /\ lingering = FALSE

-----------------------------------------------------------------------------
(* The requests *)

\* Requests come one after the other, but need not wait for each other.
Request(r) ==
    /\ rpc[r] = "none" /\ \A q \in Requests : q < r => rpc[q] # "none"
    /\ orderly' = (orderly /\ \A q \in Requests : q < r => Settled(q))
    /\ \/ kind' = [kind EXCEPT ![r] = "start"] /\ rpc' = [rpc EXCEPT ![r] = "check"]
       \/ \E k \in {"stop", "restart"} :
              kind' = [kind EXCEPT ![r] = k] /\ rpc' = [rpc EXCEPT ![r] = "stop"]
    /\ UNCHANGED <<shared, epc, stopFlag, workers, target, spc, resets,
                   lingering>>

\* Mutation: the engine state is not looked at.
StartRefusedNever(r) == FALSE

\* The thread is alive and the state does not say that it is winding down.
StartRefused(r) == Alive(thread) /\ state \notin {"stopped", "error"}

\* An engine about to start is taken for one that is winding down.
Unnoticed(r) == ~StartRefused(r) /\ Alive(thread) /\ epc[thread] = "spawned"

\* The configuration names no source, or a namespace that Dremio does not have.
StartInvalid(r) ==
    /\ rpc[r] = "check" /\ rpc' = [rpc EXCEPT ![r] = "done"]
    /\ UNCHANGED <<shared, epc, stopFlag, workers, kind, target, spc, resets, history>>

\* _start_engine up to the lock's release, or up to the join that holds the lock.
StartCheck(r) ==
    /\ rpc[r] = "check" /\ lock = None
    /\ \/ /\ StartRefused(r)
          /\ rpc' = [rpc EXCEPT ![r] = "done"] /\ UNCHANGED lock
       \/ /\ ~StartRefused(r) /\ Alive(thread)
          /\ lock' = r /\ rpc' = [rpc EXCEPT ![r] = "joining"]
       \/ /\ ~Alive(thread)
          /\ rpc' = [rpc EXCEPT ![r] = "spawn"] /\ UNCHANGED lock
    /\ orderly' = (orderly /\ spc[r] = "none" /\ ~Unnoticed(r))
    /\ UNCHANGED <<engine, thread, state, epc, stopFlag, workers, kind, target, spc,
                   resets, lingering>>

\* join(timeout=3) returns, the thread ended or not: a thread that has yet to clear
\* _engine cannot, the lock being held.
StartJoined(r) ==
    /\ rpc[r] = "joining"
    /\ lock' = None /\ rpc' = [rpc EXCEPT ![r] = "spawn"]
    /\ lingering' = (lingering \/ Alive(thread))
    /\ UNCHANGED <<engine, thread, state, epc, stopFlag, workers, kind, target, spc,
                   resets, orderly>>

\* The new thread, outside the lock.
StartSpawn(r) ==
    /\ rpc[r] = "spawn"
    /\ \E e \in Engines :
          /\ epc[e] = "none" /\ \A f \in Engines : f < e => epc[f] # "none"
          /\ thread' = e /\ epc' = [epc EXCEPT ![e] = "spawned"]
    /\ rpc' = [rpc EXCEPT ![r] = "done"]
    /\ UNCHANGED <<engine, state, lock, stopFlag, workers, kind, target, spc, resets,
                   history>>

\* A restart sleeps for a second and goes on as a start.
AfterStop(r) == IF kind[r] = "restart" THEN "check" ELSE "done"

\* Mutation: the engine is forgotten when its stop is requested.
StopRequestForgets(r) ==
    /\ rpc[r] = "stop" /\ lock = None
    /\ rpc' = [rpc EXCEPT ![r] = AfterStop(r)] /\ kind' = [kind EXCEPT ![r] = "start"]
    /\ engine' = None
    /\ target' = [target EXCEPT ![r] = engine]
    /\ spc' = [spc EXCEPT ![r] = IF engine = None THEN "none" ELSE "flag"]
    /\ UNCHANGED <<thread, state, lock, epc, stopFlag, workers, resets, history>>

\* _stop_engine: what it finds under the lock decides.
StopRequest(r) ==
    /\ rpc[r] = "stop" /\ lock = None
    /\ rpc' = [rpc EXCEPT ![r] = AfterStop(r)] /\ kind' = [kind EXCEPT ![r] = "start"]
    /\ IF engine # None
       THEN /\ target' = [target EXCEPT ![r] = engine]
            /\ spc' = [spc EXCEPT ![r] = "flag"]
            /\ UNCHANGED thread
       ELSE /\ thread' = IF Alive(thread) THEN thread ELSE None
            /\ UNCHANGED <<target, spc>>
    /\ orderly' = (orderly /\ (None \notin {engine, thread} => engine = thread))
    /\ UNCHANGED <<engine, state, lock, epc, stopFlag, workers, resets, lingering>>

\* DELETE /api/offsets/...: the row goes, whatever runs.
ResetOffset ==
    /\ resets < MaxResets /\ resets' = resets + 1
    /\ saved' = 0
    /\ UNCHANGED <<shared, epc, stopFlag, wpc, pos, hi, written, requests, history>>

-----------------------------------------------------------------------------
(* The stopper: _do_stop and CDCEngine.stop *)

\* Joining a worker that was never started raises, and the stopper is gone.
StopperFlags(r) ==
    /\ spc[r] = "flag"
    /\ stopFlag' = [stopFlag EXCEPT ![target[r]] = TRUE]
    /\ spc' = [spc EXCEPT ![r] = IF wpc[target[r]] = "none" THEN "none" ELSE "join"]
    /\ UNCHANGED <<shared, epc, workers, rpc, kind, target, resets, history>>

\* The workers are joined for ten seconds each.
StopperJoins(r) ==
    /\ spc[r] = "join"
    /\ state' = "stopped" /\ spc' = [spc EXCEPT ![r] = "clear"]
    /\ orderly' = (orderly /\ ~Working(target[r]))
    /\ UNCHANGED <<engine, thread, lock, epc, stopFlag, workers, rpc, kind, target, resets,
                   lingering>>

\* Whatever thread is the current one is joined, for ten seconds, and forgotten.
StopperClears(r) ==
    /\ spc[r] = "clear"
    /\ thread' = None /\ spc' = [spc EXCEPT ![r] = "none"]
    /\ lingering' = (lingering \/ Alive(thread) \/ Alive(target[r]))
    /\ UNCHANGED <<engine, state, lock, epc, stopFlag, workers, rpc, kind, target, resets,
                   orderly>>

Stopper(r) == StopperFlags(r) \/ StopperJoins(r) \/ StopperClears(r)

Handler(r) ==
    StartInvalid(r) \/ StartCheck(r) \/ StartJoined(r) \/ StartSpawn(r) \/ StopRequest(r)

-----------------------------------------------------------------------------
(* The engine thread: _engine_run and CDCEngine *)

\* core.engine is imported before the state is set.
EngineBegins(e) ==
    /\ epc[e] = "spawned" /\ state' = "starting"
    /\ epc' = [epc EXCEPT ![e] = "building"]
    /\ UNCHANGED <<engine, thread, lock, stopFlag, workers, requests, resets, history>>

\* The constructor connects the sources and makes the workers.
EngineBuilt(e) ==
    /\ epc[e] = "building" /\ lock = None
    /\ engine' = e /\ epc' = [epc EXCEPT ![e] = "connecting"]
    /\ UNCHANGED <<thread, state, lock, stopFlag, workers, requests, resets, history>>

\* Mutation: starting forgets a stop that came before.
EngineStartsAnew(e) ==
    /\ epc[e] = "connecting" /\ state' = "running"
    /\ epc' = [epc EXCEPT ![e] = "running"] /\ wpc' = [wpc EXCEPT ![e] = "open"]
    /\ stopFlag' = [stopFlag EXCEPT ![e] = FALSE]
    /\ UNCHANGED <<engine, thread, lock, pos, hi, saved, written, requests, resets, history>>

\* CDCEngine.start: the sinks are connected, the workers started.
EngineStarts(e) ==
    /\ epc[e] = "connecting" /\ state' = "running"
    /\ epc' = [epc EXCEPT ![e] = "running"] /\ wpc' = [wpc EXCEPT ![e] = "open"]
    /\ UNCHANGED <<engine, thread, lock, stopFlag, pos, hi, saved, written, requests,
                   resets, history>>

\* A source or a sink does not answer.
EngineFails(e) ==
    /\ epc[e] \in {"building", "connecting"} /\ state' = "error"
    /\ epc' = [epc EXCEPT ![e] = "leaving"]
    /\ UNCHANGED <<engine, thread, lock, stopFlag, workers, requests, resets, history>>

\* CDCEngine.join sees no worker alive; the state stays what it is.
EngineJoined(e) ==
    /\ epc[e] = "running" /\ ~Working(e)
    /\ epc' = [epc EXCEPT ![e] = "leaving"]
    /\ UNCHANGED <<shared, stopFlag, workers, requests, resets, history>>

\* The finally clause clears the global, whosever engine it holds.
EngineLeaves(e) ==
    /\ epc[e] = "leaving" /\ lock = None
    /\ engine' = None /\ epc' = [epc EXCEPT ![e] = "ended"]
    /\ UNCHANGED <<thread, state, lock, stopFlag, workers, requests, resets, history>>

EngineRun(e) ==
    \/ EngineBegins(e) \/ EngineBuilt(e) \/ EngineStarts(e) \/ EngineFails(e)
    \/ EngineJoined(e) \/ EngineLeaves(e)

-----------------------------------------------------------------------------
(* The worker *)

WorkerOpens(e) ==
    /\ wpc[e] = "open"
    /\ pos' = [pos EXCEPT ![e] = saved] /\ hi' = [hi EXCEPT ![e] = saved]
    /\ wpc' = [wpc EXCEPT ![e] = "stream"]
    /\ UNCHANGED <<shared, epc, stopFlag, saved, written, requests, resets, history>>

\* A batch is received: it is full, its time is up, or the stop flag ended the loop.
WorkerReceives(e) ==
    /\ wpc[e] = "stream"
    /\ \E n \in (pos[e] + 1)..NChanges : hi' = [hi EXCEPT ![e] = n]
    /\ wpc' = [wpc EXCEPT ![e] = "flush"]
    /\ UNCHANGED <<shared, epc, stopFlag, pos, saved, written, requests, resets, history>>

\* Mutation: a batch that could not be written is committed.
WorkerWritesNothing(e) ==
    /\ wpc[e] = "flush"
    /\ written' \in {written, written \union (pos[e] + 1)..hi[e]}
    /\ wpc' = [wpc EXCEPT ![e] = "save"]
    /\ UNCHANGED <<shared, epc, stopFlag, pos, hi, saved, requests, resets, history>>

WorkerWrites(e) ==
    /\ wpc[e] = "flush"
    /\ written' = written \union (pos[e] + 1)..hi[e]
    /\ wpc' = [wpc EXCEPT ![e] = "save"]
    /\ UNCHANGED <<shared, epc, stopFlag, pos, hi, saved, requests, resets, history>>

WorkerCommits(e) ==
    /\ wpc[e] = "save"
    /\ saved' = hi[e] /\ pos' = [pos EXCEPT ![e] = hi[e]]
    /\ wpc' = [wpc EXCEPT ![e] = "stream"]
    /\ UNCHANGED <<shared, epc, stopFlag, hi, written, requests, resets, history>>

\* Told to stop, with an empty batch: the source yields, an event or a heartbeat,
\* and the flag is looked at.
WorkerEnds(e) ==
    /\ wpc[e] = "stream" /\ stopFlag[e]
    /\ wpc' = [wpc EXCEPT ![e] = "ended"]
    /\ pos' = [pos EXCEPT ![e] = 0] /\ hi' = [hi EXCEPT ![e] = 0]
    /\ UNCHANGED <<shared, epc, stopFlag, saved, written, requests, resets, history>>

\* The source raises: what is in the batch is dropped with the worker.
WorkerFails(e) ==
    /\ wpc[e] \in {"open", "stream"}
    /\ wpc' = [wpc EXCEPT ![e] = "ended"]
    /\ pos' = [pos EXCEPT ![e] = 0] /\ hi' = [hi EXCEPT ![e] = 0]
    /\ UNCHANGED <<shared, epc, stopFlag, saved, written, requests, resets, history>>

Worker(e) ==
    \/ WorkerOpens(e) \/ WorkerReceives(e) \/ WorkerWrites(e) \/ WorkerCommits(e)
    \/ WorkerEnds(e)

\* The worker waits in stream(): there is no change left to yield.
Idle(e) == wpc[e] = "stream" /\ pos[e] = NChanges

Next ==
    \/ \E r \in Requests : Request(r) \/ Handler(r) \/ Stopper(r)
    \/ \E e \in Engines : EngineRun(e) \/ Worker(e) \/ WorkerFails(e)
    \/ ResetOffset

Spec == Init /\ [][Next]_vars

\* The threads are scheduled; a source yields the changes it has, and nobody
\* promises a heartbeat after the last one (MySQL, Oracle, SQL Server, MongoDB,
\* DynamoDB, Snowflake and CockroachDB have none).  No thread takes steps without
\* end here, so that none can keep the others from theirs.
Threads ==
    \/ \E r \in Requests : Handler(r) \/ Stopper(r)
    \/ \E e \in Engines : EngineRun(e) \/ (~Idle(e) /\ Worker(e))

FairSpec == Spec /\ WF_vars(Threads)

-----------------------------------------------------------------------------
(* Properties *)

\* Every variable keeps its type.
TypeOK ==
    /\ engine \in Engines \union {None} /\ thread \in Engines \union {None}
    /\ state \in {"stopped", "starting", "running", "error"}
    /\ lock \in Requests \union {None}
    /\ epc \in [Engines -> EnginePoints] /\ stopFlag \in [Engines -> BOOLEAN]
    /\ wpc \in [Engines -> WorkerPoints]
    /\ pos \in [Engines -> 0..NChanges] /\ hi \in [Engines -> 0..NChanges]
    /\ saved \in 0..NChanges /\ written \subseteq 1..NChanges
    /\ rpc \in [Requests -> RequestPoints]
    /\ kind \in [Requests -> {"start", "stop", "restart"}]
    /\ target \in [Requests -> Engines \union {None}]
    /\ spc \in [Requests -> StopperPoints]
    /\ resets \in Nat
    /\ {orderly, lingering} \subseteq BOOLEAN

\* What is promised of one worker holds of all engines together: although two of
\* them may commit to the same row of the offset store, and although the row is reset
\* under their hands, changes are repeated but never skipped.
Promise == INSTANCE AtLeastOnce
    WITH committed <- NChanges, delivered <- written, settled <- 1..saved
KeepsPromise == Promise!Spec

\* A table has one worker.  The start request is refused while an engine runs, but
\* not while (1) a worker has outlived its stop, (2) requests overlap, (3) the
\* engine thread has not yet set the state to "starting", or after (4) a stop
\* request found the engine before the current one, whose thread is yet to end.
OneWorkerPerTable ==
    orderly => \A e, f \in Engines : Working(e) /\ Working(f) => e = f

\* A stop request finds the engine whose worker runs: _engine is cleared by the
\* thread of the engine it holds, unless besides those cases a join of that
\* thread timed out.
RunningIsReachable ==
    orderly /\ ~lingering => \A e \in Engines : Working(e) => engine = e

\* An engine that a stop request found ends, also one that is still connecting,
\* or its worker has been told to stop and waits for a source that yields nothing:
\* CDCEngine.join then waits with it (engine.py:211, 523-530).
AcceptedStopEnds ==
    \A e \in Engines :
        (\E r \in Requests : target[r] = e) ~> epc[e] = "ended" \/ (stopFlag[e] /\ Idle(e))
=============================================================================
