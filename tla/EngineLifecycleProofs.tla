------------------------- MODULE EngineLifecycleProofs -------------------------
(* The offset survives whatever the UI does to the engine: for every number *)
(* of engines at work on one table, of requests and of offset resets.       *)
EXTENDS EngineLifecycle, TLAPS

\* What the offset's safety needs of the types.
DataTypes ==
    /\ wpc \in [Engines -> WorkerPoints]
    /\ pos \in [Engines -> 0..NChanges] /\ hi \in [Engines -> 0..NChanges]
    /\ saved \in 0..NChanges

\* A worker at work resumed behind what is in the sink, and commits what it wrote.
WorkersCovered ==
    \A e \in Engines :
        /\ wpc[e] \in {"stream", "flush", "save"} => 1..pos[e] \subseteq written
        /\ wpc[e] = "save" => 1..hi[e] \subseteq written

\* The saved offset stands for changes in the sink.
OffsetCovered == 1..saved \subseteq written

OInv == DataTypes /\ OffsetCovered /\ WorkersCovered

-----------------------------------------------------------------------------
LEMMA OInit == Init => OInv
BY ConstantsAssumption DEF Init, OInv, DataTypes, OffsetCovered, WorkersCovered, WorkerPoints

\* The steps of requests, stoppers and engine threads leave the data alone, but for
\* the worker an engine starts and the reset.
LEMMA OControl ==
    ASSUME OInv, UNCHANGED <<pos, hi, written>>,
           saved' = saved \/ saved' = 0,
           wpc' = wpc \/ \E e \in Engines : wpc' = [wpc EXCEPT ![e] = "open"]
    PROVE  OInv'
<1>1. saved' \in 0..NChanges /\ wpc' \in [Engines -> WorkerPoints]
  BY ConstantsAssumption DEF OInv, DataTypes, WorkerPoints
<1>2. \A e \in Engines : wpc'[e] # "open" => wpc'[e] = wpc[e]
  BY DEF OInv, DataTypes
<1>3. OffsetCovered'
  BY DEF OInv, OffsetCovered
<1>4. WorkersCovered'
  BY <1>2 DEF OInv, WorkersCovered
<1>5. QED
  BY <1>1, <1>3, <1>4 DEF OInv, DataTypes

LEMMA OWorker ==
    ASSUME OInv, NEW e \in Engines, Worker(e) \/ WorkerFails(e)
    PROVE  OInv'
<1> USE DEF OInv, DataTypes
<1>1. CASE WorkerOpens(e)
  <2>1. DataTypes'
    BY <1>1 DEF WorkerOpens, WorkerPoints
  <2>2. OffsetCovered' /\ WorkersCovered'
    BY <1>1 DEF WorkerOpens, OffsetCovered, WorkersCovered
  <2>3. QED
    BY <2>1, <2>2
<1>2. CASE WorkerReceives(e)
  <2> PICK n \in (pos[e] + 1)..NChanges : hi' = [hi EXCEPT ![e] = n]
    BY <1>2 DEF WorkerReceives
  <2>1. n \in 0..NChanges
    BY ConstantsAssumption
  <2>2. DataTypes'
    BY <1>2, <2>1 DEF WorkerReceives, WorkerPoints
  <2>3. OffsetCovered' /\ WorkersCovered'
    BY <1>2 DEF WorkerReceives, OffsetCovered, WorkersCovered
  <2>4. QED
    BY <2>2, <2>3
<1>3. CASE WorkerWrites(e)
  <2>1. DataTypes'
    BY <1>3 DEF WorkerWrites, WorkerPoints
  <2>2. written \subseteq written' /\ (pos[e] + 1)..hi[e] \subseteq written'
    BY <1>3 DEF WorkerWrites
  <2>3. 1..hi[e] \subseteq written'
    <3>1. 1..pos[e] \subseteq written
      BY <1>3 DEF WorkerWrites, WorkersCovered
    <3>2. \A c \in 1..hi[e] : c \in 1..pos[e] \/ c \in (pos[e] + 1)..hi[e]
      OBVIOUS
    <3>3. QED
      BY <2>2, <3>1, <3>2
  <2>4. OffsetCovered'
    BY <1>3, <2>2 DEF WorkerWrites, OffsetCovered
  <2>5. WorkersCovered'
    <3> SUFFICES ASSUME NEW f \in Engines
                 PROVE  /\ wpc'[f] \in {"stream", "flush", "save"} => 1..pos[f] \subseteq written'
                        /\ wpc'[f] = "save" => 1..hi[f] \subseteq written'
      BY <1>3 DEF WorkerWrites, WorkersCovered
    <3>1. CASE f = e
      BY <1>3, <2>2, <2>3, <3>1 DEF WorkerWrites, WorkersCovered
    <3>2. CASE f # e
      BY <1>3, <2>2, <3>2 DEF WorkerWrites, WorkersCovered
    <3>3. QED
      BY <3>1, <3>2
  <2>6. QED
    BY <2>1, <2>4, <2>5
<1>4. CASE WorkerCommits(e)
  <2>1. DataTypes'
    BY <1>4 DEF WorkerCommits, WorkerPoints
  <2>2. OffsetCovered' /\ WorkersCovered'
    BY <1>4 DEF WorkerCommits, OffsetCovered, WorkersCovered
  <2>3. QED
    BY <2>1, <2>2
<1>5. CASE WorkerEnds(e) \/ WorkerFails(e)
  <2>1. DataTypes'
    BY <1>5, ConstantsAssumption DEF WorkerEnds, WorkerFails, WorkerPoints
  <2>2. OffsetCovered' /\ WorkersCovered'
    BY <1>5 DEF WorkerEnds, WorkerFails, OffsetCovered, WorkersCovered
  <2>3. QED
    BY <2>1, <2>2
<1>6. QED
  BY <1>1, <1>2, <1>3, <1>4, <1>5 DEF Worker

LEMMA OStep == ASSUME OInv, [Next]_vars PROVE OInv'
<1>1. CASE \E r \in Requests : Request(r) \/ Handler(r) \/ Stopper(r)
  <2>1. UNCHANGED workers
    BY <1>1 DEF Request, Handler, Stopper, StartInvalid, StartCheck, StartJoined,
                StartSpawn, StopRequest, StopperFlags, StopperJoins, StopperClears
  <2>2. QED
    BY <2>1, OControl DEF workers
<1>2. CASE \E e \in Engines : EngineRun(e)
  <2> PICK e \in Engines : EngineRun(e)
    BY <1>2
  <2>1. CASE EngineStarts(e)
    BY <2>1, OControl DEF EngineStarts
  <2>2. CASE ~EngineStarts(e)
    <3>1. UNCHANGED workers
      BY <2>2 DEF EngineRun, EngineBegins, EngineBuilt, EngineFails, EngineJoined, EngineLeaves
    <3>2. QED
      BY <3>1, OControl DEF workers
  <2>3. QED
    BY <2>1, <2>2
<1>3. CASE \E e \in Engines : Worker(e) \/ WorkerFails(e)
  BY <1>3, OWorker
<1>4. CASE ResetOffset
  BY <1>4, OControl DEF ResetOffset
<1>5. CASE UNCHANGED vars
  <2>1. UNCHANGED workers
    BY <1>5 DEF vars
  <2>2. QED
    BY <2>1, OControl DEF workers
<1>6. QED
  BY <1>1, <1>2, <1>3, <1>4, <1>5 DEF Next

\* Every step is one of the abstract specification, or none.
LEMMA OMaps == ASSUME OInv, OInv', [Next]_vars PROVE [Promise!Next]_(Promise!vars)
<1>1. written = written' \/ \E e \in Engines : WorkerWrites(e)
  BY DEF Next, vars, workers, Request, Handler, Stopper, StartInvalid, StartCheck,
         StartJoined, StartSpawn, StopRequest, StopperFlags, StopperJoins, StopperClears, EngineRun,
         EngineBegins, EngineBuilt, EngineStarts, EngineFails, EngineJoined, EngineLeaves,
         Worker, WorkerOpens, WorkerReceives, WorkerCommits, WorkerEnds, WorkerFails,
         ResetOffset
<1>2. CASE written = written'
  <2>1. 1..saved' \subseteq written
    BY <1>2 DEF OInv, OffsetCovered
  <2>2. QED
    BY <1>2, <2>1 DEF Promise!Next, Promise!Settle
<1>3. CASE \E e \in Engines : WorkerWrites(e)
  <2> PICK e \in Engines : WorkerWrites(e)
    BY <1>3
  <2>1. (pos[e] + 1)..hi[e] \subseteq 1..NChanges
    BY ConstantsAssumption DEF OInv, DataTypes
  <2>2. /\ written \subseteq written' /\ written' \subseteq written \union 1..NChanges
        /\ UNCHANGED saved
    BY <2>1 DEF WorkerWrites
  <2>3. QED
    BY <2>2 DEF Promise!Next, Promise!Deliver
<1>4. QED
  BY <1>1, <1>2, <1>3

\* The inductive invariant holds in every reachable state.
THEOREM EngineInvariant == Spec => []OInv
BY OInit, OStep, PTL DEF Spec

\* Engines that run at the same time, resets and stops keep the promise: no offset
\* comes to cover a change that is not in the sink (app.py:134-181, engine.py:311-325).
THEOREM EngineKeepsPromise == Spec => KeepsPromise
<1>1. Init => Promise!Init
  BY ConstantsAssumption DEF Init, Promise!Init
<1>2. QED
  BY <1>1, OMaps, EngineInvariant, PTL DEF Spec, KeepsPromise, Promise!Spec

-----------------------------------------------------------------------------
(* One worker, and a reachable engine: for every number of engines and requests *)

\* The engine has a worker at work, or will have.
Active(e) ==
    \/ epc[e] \in {"spawned", "building", "connecting"}
    \/ epc[e] = "running" /\ wpc[e] # "ended"

\* A request, or its stopper, is under way.
Open(r) == rpc[r] \notin {"none", "done"} \/ spc[r] # "none"

\* The program points of an engine and its worker, of a request and its stopper.
PointsAgree ==
    /\ \A e \in Engines :
          /\ wpc[e] # "none" => epc[e] \in {"running", "leaving", "ended"}
          /\ wpc[e] = "none" => epc[e] # "running"
          /\ epc[e] \in {"leaving", "ended"} => wpc[e] \in {"none", "ended"}
    /\ \A r \in Requests :
          /\ rpc[r] = "none" =>
                spc[r] = "none" /\ \A q \in Requests : q > r => rpc[q] = "none"
          /\ spc[r] # "none" => target[r] # None
          /\ spc[r] \in {"join", "clear"} => wpc[target[r]] # "none"

\* Requests do not overlap.
OneOpen == \A q, r \in Requests : Open(q) /\ Open(r) => q = r

\* The active engine is the current one, and a start request can see that it is.
ActiveIsCurrent ==
    \A e \in Engines :
        Active(e) => /\ e = thread
                     /\ epc[e] # "spawned" => state \in {"starting", "running"}

\* A stopper has the active engine in its hands, and a start has none before it.
HandsOff ==
    \A r \in Requests :
        /\ rpc[r] \in {"joining", "spawn"} => spc[r] = "none"
        /\ \A e \in Engines : Active(e) =>
              /\ spc[r] # "none" => e = target[r]
              /\ spc[r] # "clear" /\ rpc[r] \notin {"joining", "spawn"}

\* Without joins that time out the current thread is the only one.
OneThread ==
    /\ \A e \in Engines : Alive(e) => e = thread
    /\ \A e \in Engines : epc[e] \in {"connecting", "running"} => engine = e
    /\ \A r \in Requests : rpc[r] = "spawn" => \A e \in Engines : ~Alive(e)

LInv ==
    /\ TypeOK /\ PointsAgree
    /\ orderly => OneOpen /\ ActiveIsCurrent /\ HandsOff
    /\ orderly /\ ~lingering => OneThread

LEMMA LInit == Init => LInv
<1> SUFFICES ASSUME Init PROVE LInv
  OBVIOUS
<1>1. TypeOK
  <2>1. 0 \in 0..NChanges /\ 0 \in Nat
    BY ConstantsAssumption
  <2>2. /\ epc \in [Engines -> EnginePoints] /\ stopFlag \in [Engines -> BOOLEAN]
        /\ wpc \in [Engines -> WorkerPoints]
        /\ pos \in [Engines -> 0..NChanges] /\ hi \in [Engines -> 0..NChanges]
    BY <2>1 DEF Init, EnginePoints, WorkerPoints
  <2>3. /\ rpc \in [Requests -> RequestPoints]
        /\ kind \in [Requests -> {"start", "stop", "restart"}]
        /\ target \in [Requests -> Engines \union {None}]
        /\ spc \in [Requests -> StopperPoints]
    BY DEF Init, RequestPoints, StopperPoints
  <2>4. QED
    BY <2>1, <2>2, <2>3 DEF Init, TypeOK
<1>2. \A e \in Engines : epc[e] = "none" /\ wpc[e] = "none"
  BY DEF Init
<1>3. \A r \in Requests : rpc[r] = "none" /\ spc[r] = "none"
  BY DEF Init
<1>4. PointsAgree
  BY <1>2, <1>3 DEF PointsAgree
<1>5. (\A e \in Engines : ~Active(e) /\ ~Alive(e)) /\ \A r \in Requests : ~Open(r)
  BY <1>2, <1>3 DEF Active, Alive, Open
<1>6. OneOpen /\ ActiveIsCurrent
  BY <1>5 DEF OneOpen, ActiveIsCurrent
<1>7. HandsOff
  BY <1>3, <1>5 DEF HandsOff
<1>8. OneThread
  BY <1>2, <1>3, <1>5 DEF OneThread
<1>9. QED
  BY <1>1, <1>4, <1>6, <1>7, <1>8 DEF LInv

\* Every variable keeps its type.
LEMMA TypeStep == ASSUME TypeOK, [Next]_vars PROVE TypeOK'
<1> USE DEF TypeOK
<1>1. ASSUME NEW r \in Requests, Request(r) PROVE TypeOK'
  BY <1>1 DEF Request, RequestPoints, shared, workers
<1>2. ASSUME NEW r \in Requests, Handler(r) PROVE TypeOK'
  <2>1. CASE StartInvalid(r)
    BY <2>1 DEF StartInvalid, RequestPoints, shared, workers, history
  <2>2. CASE StartCheck(r)
    BY <2>2 DEF StartCheck, RequestPoints, workers
  <2>3. CASE StartJoined(r)
    BY <2>3 DEF StartJoined, RequestPoints, workers
  <2>4. CASE StartSpawn(r)
    BY <2>4 DEF StartSpawn, RequestPoints, EnginePoints, workers, history
  <2>5. CASE StopRequest(r)
    BY <2>5 DEF StopRequest, AfterStop, RequestPoints, StopperPoints, workers
  <2>6. QED
    BY <1>2, <2>1, <2>2, <2>3, <2>4, <2>5 DEF Handler
<1>3. ASSUME NEW r \in Requests, Stopper(r) PROVE TypeOK'
  <2>1. CASE StopperFlags(r)
    BY <2>1 DEF StopperFlags, StopperPoints, shared, workers, history
  <2>2. CASE StopperJoins(r)
    BY <2>2 DEF StopperJoins, StopperPoints, workers
  <2>3. CASE StopperClears(r)
    BY <2>3 DEF StopperClears, StopperPoints, workers
  <2>4. QED
    BY <1>3, <2>1, <2>2, <2>3 DEF Stopper
<1>4. ASSUME NEW e \in Engines, EngineRun(e) PROVE TypeOK'
  BY <1>4 DEF EngineRun, EngineBegins, EngineBuilt, EngineStarts, EngineFails,
              EngineJoined, EngineLeaves, EnginePoints, WorkerPoints, shared, workers,
              requests, history
<1>5. ASSUME NEW e \in Engines, Worker(e) \/ WorkerFails(e) PROVE TypeOK'
  <2>1. \A n \in (pos[e] + 1)..NChanges : n \in 0..NChanges
    BY ConstantsAssumption
  <2>2. (pos[e] + 1)..hi[e] \subseteq 1..NChanges
    BY ConstantsAssumption
  <2>3. 0 \in 0..NChanges
    BY ConstantsAssumption
  <2>4. UNCHANGED <<shared, epc, stopFlag, requests, resets, history>>
    BY <1>5 DEF Worker, WorkerOpens, WorkerReceives, WorkerWrites, WorkerCommits,
                WorkerEnds, WorkerFails
  <2>5. /\ wpc' \in [Engines -> WorkerPoints]
        /\ pos' \in [Engines -> 0..NChanges] /\ hi' \in [Engines -> 0..NChanges]
        /\ saved' \in 0..NChanges
    BY <1>5, <2>1, <2>3 DEF Worker, WorkerOpens, WorkerReceives, WorkerWrites,
       WorkerCommits, WorkerEnds, WorkerFails, WorkerPoints
  <2>6. written' \subseteq 1..NChanges
    BY <1>5, <2>2 DEF Worker, WorkerOpens, WorkerReceives, WorkerWrites, WorkerCommits,
       WorkerEnds, WorkerFails
  <2>7. QED
    BY <2>4, <2>5, <2>6 DEF shared, requests, history
<1>6. CASE ResetOffset
  BY <1>6, ConstantsAssumption DEF ResetOffset, shared, requests, history
<1>7. CASE UNCHANGED vars
  BY <1>7 DEF vars, shared, workers, requests, history
<1>8. QED
  BY <1>1, <1>2, <1>3, <1>4, <1>5, <1>6, <1>7 DEF Next

\* The program points of two threads agree after each of their steps.
LEMMA PointsStep ==
    ASSUME TypeOK, TypeOK', PointsAgree, [Next]_vars PROVE PointsAgree'
<1> USE DEF PointsAgree
<1>1. ASSUME NEW r \in Requests, Request(r) PROVE PointsAgree'
  <2>1. UNCHANGED <<epc, wpc, target, spc>>
    BY <1>1 DEF Request, workers
  <2>2. /\ \A q \in Requests : rpc'[q] = "none" => rpc[q] = "none" /\ q # r
        /\ \A q \in Requests : q # r => rpc'[q] = rpc[q]
    BY <1>1 DEF Request, TypeOK
  <2>3. \A q \in Requests : rpc'[q] = "none" =>
            \A p \in Requests : p > q => rpc'[p] = "none"
    <3> SUFFICES ASSUME NEW q \in Requests, rpc'[q] = "none",
                        NEW p \in Requests, p > q
                 PROVE  rpc'[p] = "none"
      OBVIOUS
    <3>1. rpc[p] = "none" /\ rpc[q] = "none"
      BY <2>2
    <3>2. p # r
      BY <1>1, <3>1 DEF Request, Requests
    <3>3. QED
      BY <2>2, <3>1, <3>2
  <2>4. QED
    BY <2>1, <2>2, <2>3
<1>2. ASSUME NEW r \in Requests, Handler(r) PROVE PointsAgree'
  <2>1. UNCHANGED wpc /\ \A e \in Engines : epc'[e] # epc[e] => epc[e] = "none" /\ epc'[e] = "spawned"
    BY <1>2 DEF Handler, StartInvalid, StartCheck, StartJoined, StartSpawn, StopRequest,
                workers, TypeOK
  <2>2. /\ rpc[r] # "none" /\ rpc'[r] # "none"
        /\ \A q \in Requests : q # r => rpc'[q] = rpc[q] /\ spc'[q] = spc[q] /\ target'[q] = target[q]
    BY <1>2 DEF Handler, StartInvalid, StartCheck, StartJoined, StartSpawn, StopRequest,
                AfterStop, TypeOK
  <2>3. \/ spc'[r] = spc[r] /\ target'[r] = target[r]
        \/ spc'[r] = "flag" /\ target'[r] = engine /\ engine # None
    BY <1>2 DEF Handler, StartInvalid, StartCheck, StartJoined, StartSpawn, StopRequest,
                TypeOK
  <2>4. QED
    BY <2>1, <2>2, <2>3
<1>3. ASSUME NEW r \in Requests, Stopper(r) PROVE PointsAgree'
  <2>1. UNCHANGED <<epc, wpc, rpc, target>>
    BY <1>3 DEF Stopper, StopperFlags, StopperJoins, StopperClears, workers
  <2>2. /\ \A q \in Requests : q # r => spc'[q] = spc[q]
        /\ spc[r] # "none"
        /\ spc'[r] \in {"join", "clear"} => wpc[target[r]] # "none"
    BY <1>3 DEF Stopper, StopperFlags, StopperJoins, StopperClears, TypeOK
  <2>3. QED
    BY <2>1, <2>2
<1>4. ASSUME NEW e \in Engines, EngineRun(e) \/ Worker(e) \/ WorkerFails(e)
      PROVE  PointsAgree'
  <2>1. UNCHANGED <<rpc, spc, target>>
    BY <1>4 DEF EngineRun, EngineBegins, EngineBuilt, EngineStarts, EngineFails, EngineJoined,
       EngineLeaves, Worker, WorkerOpens, WorkerReceives, WorkerWrites, WorkerCommits,
       WorkerEnds, WorkerFails, requests
  <2>2. \A f \in Engines : f # e => epc'[f] = epc[f] /\ wpc'[f] = wpc[f]
    BY <1>4 DEF EngineRun, EngineBegins, EngineBuilt, EngineStarts, EngineFails, EngineJoined,
       EngineLeaves, Worker, WorkerOpens, WorkerReceives, WorkerWrites, WorkerCommits,
       WorkerEnds, WorkerFails, workers, TypeOK
  <2>3. /\ wpc'[e] # "none" => epc'[e] \in {"running", "leaving", "ended"}
        /\ wpc'[e] = "none" => epc'[e] # "running"
        /\ epc'[e] \in {"leaving", "ended"} => wpc'[e] \in {"none", "ended"}
    BY <1>4 DEF EngineRun, EngineBegins, EngineBuilt, EngineStarts, EngineFails, EngineJoined,
       EngineLeaves, Worker, WorkerOpens, WorkerReceives, WorkerWrites, WorkerCommits,
       WorkerEnds, WorkerFails, Working, workers, TypeOK
  <2>4. \A f \in Engines : wpc[f] # "none" => wpc'[f] # "none"
    BY <1>4 DEF EngineRun, EngineBegins, EngineBuilt, EngineStarts, EngineFails, EngineJoined,
       EngineLeaves, Worker, WorkerOpens, WorkerReceives, WorkerWrites, WorkerCommits,
       WorkerEnds, WorkerFails, workers, TypeOK
  <2>5. \A r \in Requests : spc[r] # "none" => target[r] \in Engines
    BY DEF TypeOK
  <2>6. QED
    BY <2>1, <2>2, <2>3, <2>4, <2>5
<1>5. CASE ResetOffset \/ UNCHANGED vars
  BY <1>5 DEF ResetOffset, vars, workers, requests
<1>6. QED
  BY <1>1, <1>2, <1>3, <1>4, <1>5 DEF Next

\* What has happened once is not forgotten.
LEMMA HistoryStep ==
    ASSUME TypeOK, [Next]_vars PROVE (orderly' => orderly) /\ (lingering => lingering')
<1>1. CASE \E r \in Requests : Request(r) \/ Handler(r) \/ Stopper(r)
  BY <1>1 DEF Request, Handler, StartInvalid, StartCheck, StartJoined, StartSpawn, StopRequest,
              Stopper, StopperFlags, StopperJoins, StopperClears, history, TypeOK
<1>2. CASE \E e \in Engines : EngineRun(e) \/ Worker(e) \/ WorkerFails(e)
  BY <1>2 DEF EngineRun, EngineBegins, EngineBuilt, EngineStarts, EngineFails, EngineJoined,
       EngineLeaves, Worker, WorkerOpens, WorkerReceives, WorkerWrites, WorkerCommits,
       WorkerEnds, WorkerFails, history
<1>3. CASE ResetOffset \/ UNCHANGED vars
  BY <1>3 DEF ResetOffset, vars, history
<1>4. QED
  BY <1>1, <1>2, <1>3 DEF Next

\* Requests that come one after the other stay so.
LEMMA OneOpenStep ==
    ASSUME TypeOK, TypeOK', PointsAgree, OneOpen, [Next]_vars, orderly' PROVE OneOpen'
<1>1. ASSUME NEW r \in Requests, Request(r) PROVE OneOpen'
  <2>1. \A q \in Requests : q < r => ~Open(q)
    BY <1>1 DEF Request, Settled, Open, TypeOK
  <2>2. \A q \in Requests : q > r => ~Open(q)
    BY <1>1 DEF Request, PointsAgree, Open
  <2>3. \A q \in Requests : q # r => ~Open(q)
    BY <2>1, <2>2 DEF Requests
  <2>4. \A q \in Requests : q # r => rpc'[q] = rpc[q] /\ spc'[q] = spc[q]
    BY <1>1 DEF Request, TypeOK
  <2>5. QED
    BY <2>3, <2>4 DEF OneOpen, Open
<1>2. ASSUME NEW r \in Requests, Handler(r) \/ Stopper(r) PROVE OneOpen'
  <2>1. Open(r)
    BY <1>2 DEF Handler, StartInvalid, StartCheck, StartJoined, StartSpawn, StopRequest,
                Stopper, StopperFlags, StopperJoins, StopperClears, Open
  <2>2. \A q \in Requests : q # r => rpc'[q] = rpc[q] /\ spc'[q] = spc[q]
    BY <1>2 DEF Handler, StartInvalid, StartCheck, StartJoined, StartSpawn, StopRequest,
                Stopper, StopperFlags, StopperJoins, StopperClears, TypeOK
  <2>3. QED
    BY <2>1, <2>2 DEF OneOpen, Open
<1>3. CASE \E e \in Engines : EngineRun(e) \/ Worker(e) \/ WorkerFails(e)
  <2>1. UNCHANGED <<rpc, spc>>
    BY <1>3 DEF EngineRun, EngineBegins, EngineBuilt, EngineStarts, EngineFails, EngineJoined,
       EngineLeaves, Worker, WorkerOpens, WorkerReceives, WorkerWrites, WorkerCommits,
       WorkerEnds, WorkerFails, requests
  <2>2. QED
    BY <2>1 DEF OneOpen, Open
<1>4. CASE ResetOffset \/ UNCHANGED vars
  BY <1>4 DEF ResetOffset, vars, requests, OneOpen, Open
<1>5. QED
  BY <1>1, <1>2, <1>3, <1>4 DEF Next

\* Steps of the engine threads and workers create no active engine and touch no request.
LEMMA EngineStep ==
    ASSUME TypeOK, TypeOK', PointsAgree, ActiveIsCurrent, HandsOff,
           NEW e \in Engines, EngineRun(e) \/ Worker(e) \/ WorkerFails(e)
    PROVE  ActiveIsCurrent' /\ HandsOff'
<1>1. UNCHANGED <<rpc, spc, target, thread>>
  BY DEF EngineRun, EngineBegins, EngineBuilt, EngineStarts, EngineFails, EngineJoined,
     EngineLeaves, Worker, WorkerOpens, WorkerReceives, WorkerWrites, WorkerCommits,
     WorkerEnds, WorkerFails, requests, shared
<1>2. \A f \in Engines : f # e => epc'[f] = epc[f] /\ wpc'[f] = wpc[f]
  BY DEF EngineRun, EngineBegins, EngineBuilt, EngineStarts, EngineFails, EngineJoined,
     EngineLeaves, Worker, WorkerOpens, WorkerReceives, WorkerWrites, WorkerCommits,
     WorkerEnds, WorkerFails, workers, TypeOK
<1>3. Active(e)' => Active(e)
  BY DEF EngineRun, EngineBegins, EngineBuilt, EngineStarts, EngineFails, EngineJoined,
     EngineLeaves, Worker, WorkerOpens, WorkerReceives, WorkerWrites, WorkerCommits,
     WorkerEnds, WorkerFails, Working, workers, TypeOK, PointsAgree, Active
<1>4. \A f \in Engines : Active(f)' => Active(f)
  BY <1>2, <1>3 DEF Active
<1>5. HandsOff'
  BY <1>1, <1>4 DEF HandsOff
<1>6. \A f \in Engines : Active(f)' => f = thread'
  BY <1>1, <1>4 DEF ActiveIsCurrent
<1>7. ASSUME NEW f \in Engines, Active(f)', epc'[f] # "spawned"
      PROVE  state' \in {"starting", "running"}
  <2>1. CASE state' = state /\ ~EngineBegins(e)
    <3>1. epc'[e] = "spawned" \/ epc[e] # "spawned"
      BY <2>1 DEF EngineRun, EngineBuilt, EngineStarts, EngineFails, EngineJoined,
         EngineLeaves, Worker, WorkerOpens, WorkerReceives, WorkerWrites, WorkerCommits,
         WorkerEnds, WorkerFails, TypeOK
    <3>2. epc[f] # "spawned"
      BY <1>2, <1>7, <3>1
    <3>3. QED
      BY <1>4, <1>7, <2>1, <3>2 DEF ActiveIsCurrent
  <2>2. CASE state' # state \/ EngineBegins(e)
    <3>1. Active(f) /\ Active(e) => f = e
      BY DEF ActiveIsCurrent
    <3>2. EngineBegins(e) \/ EngineStarts(e) \/ EngineFails(e)
      BY <2>2 DEF EngineRun, EngineBuilt, EngineJoined, EngineLeaves, Worker, WorkerOpens,
         WorkerReceives, WorkerWrites, WorkerCommits, WorkerEnds, WorkerFails, shared
    <3>3. CASE EngineFails(e)
      <4>1. Active(e) /\ ~Active(e)'
        BY <3>3 DEF EngineFails, Active, TypeOK
      <4>2. QED
        BY <1>4, <1>7, <3>1, <4>1
    <3>4. QED
      BY <3>2, <3>3 DEF EngineBegins, EngineStarts
  <2>3. QED
    BY <2>1, <2>2
<1>8. QED
  BY <1>5, <1>6, <1>7 DEF ActiveIsCurrent

\* A step of one request while no other is open leaves a new engine to itself.
LEMMA StartStep ==
    ASSUME TypeOK, TypeOK', PointsAgree, OneOpen, ActiveIsCurrent, HandsOff, orderly',
           NEW r \in Requests, Handler(r)
    PROVE  ActiveIsCurrent' /\ HandsOff'
<1>1. Open(r)
  BY DEF Handler, StartInvalid, StartCheck, StartJoined, StartSpawn, StopRequest, Open
<1>2. \A q \in Requests : q # r => rpc[q] \notin {"joining", "spawn"} /\ spc[q] = "none"
  BY <1>1 DEF OneOpen, Open
<1>3. \A q \in Requests :
          q # r => rpc'[q] = rpc[q] /\ spc'[q] = spc[q] /\ target'[q] = target[q]
  BY DEF Handler, StartInvalid, StartCheck, StartJoined, StartSpawn, StopRequest, TypeOK
<1>4. UNCHANGED <<state, wpc>>
  BY DEF Handler, StartInvalid, StartCheck, StartJoined, StartSpawn, StopRequest, shared,
         workers
<1>5. CASE StartInvalid(r)
  <2>1. UNCHANGED <<epc, thread, spc, target>> /\ rpc'[r] = "done"
    BY <1>5 DEF StartInvalid, shared, TypeOK
  <2>2. \A e \in Engines : Active(e)' <=> Active(e)
    BY <1>4, <2>1 DEF Active
  <2>3. QED
    BY <1>3, <1>4, <2>1, <2>2 DEF ActiveIsCurrent, HandsOff
<1>6. CASE StartCheck(r)
  <2>1. UNCHANGED <<epc, thread, spc, target>>
    BY <1>6 DEF StartCheck
  <2>2. \A e \in Engines : Active(e)' <=> Active(e)
    BY <1>4, <2>1 DEF Active
  <2>3. rpc'[r] \in {"joining", "spawn"} => \A e \in Engines : ~Active(e)
    <3> SUFFICES ASSUME rpc'[r] \in {"joining", "spawn"}, NEW e \in Engines, Active(e)
                 PROVE  FALSE
      OBVIOUS
    <3>1. e = thread
      BY DEF ActiveIsCurrent
    <3>2. Alive(thread)
      BY <3>1 DEF Alive, Active, Engines, None
    <3>3. ~StartRefused(r)
      BY <1>6, <3>2 DEF StartCheck, TypeOK
    <3>4. epc[thread] # "spawned"
      BY <1>6, <3>2, <3>3 DEF StartCheck, Unnoticed
    <3>5. QED
      BY <3>1, <3>2, <3>3, <3>4 DEF StartRefused, ActiveIsCurrent
  <2>4. spc[r] = "none"
    BY <1>6 DEF StartCheck
  <2>5. QED
    BY <1>3, <1>4, <2>1, <2>2, <2>3, <2>4 DEF ActiveIsCurrent, HandsOff
<1>7. CASE StartJoined(r)
  <2>1. UNCHANGED <<epc, thread, spc, target>> /\ rpc[r] = "joining"
    BY <1>7 DEF StartJoined
  <2>2. \A e \in Engines : Active(e)' <=> Active(e)
    BY <1>4, <2>1 DEF Active
  <2>3. QED
    BY <1>3, <1>4, <2>1, <2>2 DEF ActiveIsCurrent, HandsOff
<1>8. CASE StartSpawn(r)
  <2> PICK e \in Engines : thread' = e /\ epc' = [epc EXCEPT ![e] = "spawned"]
    BY <1>8 DEF StartSpawn
  <2>1. rpc[r] = "spawn" /\ rpc'[r] = "done" /\ UNCHANGED <<spc, target>>
    BY <1>8 DEF StartSpawn, TypeOK
  <2>2. \A f \in Engines : ~Active(f)
    BY <2>1 DEF HandsOff
  <2>3. epc'[e] = "spawned" /\ \A f \in Engines : f # e => ~Active(f)'
    BY <1>4, <2>2 DEF Active, TypeOK
  <2>4. \A q \in Requests : spc'[q] = "none" /\ rpc'[q] \notin {"joining", "spawn"}
    BY <1>2, <1>3, <2>1 DEF HandsOff
  <2>5. ActiveIsCurrent'
    BY <2>3 DEF ActiveIsCurrent
  <2>6. HandsOff'
    BY <2>4 DEF HandsOff
  <2>7. QED
    BY <2>5, <2>6
<1>9. CASE StopRequest(r)
  <2>1. rpc[r] = "stop" /\ rpc'[r] \notin {"joining", "spawn"} /\ UNCHANGED epc
    BY <1>9 DEF StopRequest, AfterStop, TypeOK
  <2>2. \A e \in Engines : Active(e)' <=> Active(e)
    BY <1>4, <2>1 DEF Active
  <2>3. \A e \in Engines : Active(e) => thread = e /\ e # None /\ Alive(thread)
    BY DEF Active, Alive, ActiveIsCurrent, Engines, None
  <2>4. thread' = thread \/ \A e \in Engines : ~Active(e)
    BY <1>9, <2>3 DEF StopRequest
  <2>5. \/ spc'[r] = spc[r] /\ target'[r] = target[r]
        \/ /\ spc'[r] = "flag" /\ target'[r] = engine
           /\ \A e \in Engines : Active(e) => e = engine
    BY <1>9, <2>3 DEF StopRequest, TypeOK
  <2>6. ActiveIsCurrent'
    BY <1>4, <2>1, <2>2, <2>4 DEF ActiveIsCurrent
  <2>7. HandsOff'
    BY <1>3, <2>1, <2>2, <2>5 DEF HandsOff
  <2>8. QED
    BY <2>6, <2>7
<1>10. QED
  BY <1>5, <1>6, <1>7, <1>8, <1>9 DEF Handler

\* A stopper that has joined its workers leaves no active engine.
LEMMA StopperStep ==
    ASSUME TypeOK, TypeOK', PointsAgree, OneOpen, ActiveIsCurrent, HandsOff, orderly',
           NEW r \in Requests, Stopper(r)
    PROVE  ActiveIsCurrent' /\ HandsOff'
<1>1. UNCHANGED <<epc, wpc, rpc, target>> /\ spc[r] # "none"
  BY DEF Stopper, StopperFlags, StopperJoins, StopperClears, workers
<1>2. \A q \in Requests : q # r => spc'[q] = spc[q]
  BY DEF Stopper, StopperFlags, StopperJoins, StopperClears, TypeOK
<1>3. \A e \in Engines : Active(e)' <=> Active(e)
  BY <1>1 DEF Active
<1>4. CASE StopperFlags(r)
  <2>1. spc'[r] \in {"none", "join"} /\ UNCHANGED <<thread, state>>
    BY <1>4 DEF StopperFlags, shared, TypeOK
  <2>2. ActiveIsCurrent'
    BY <1>1, <1>3, <2>1 DEF ActiveIsCurrent
  <2>3. HandsOff'
    BY <1>1, <1>2, <1>3, <2>1 DEF HandsOff
  <2>4. QED
    BY <2>2, <2>3
<1>5. CASE StopperJoins(r)
  <2>1. \A e \in Engines : ~Active(e)
    <3> SUFFICES ASSUME NEW e \in Engines, Active(e) PROVE FALSE
      OBVIOUS
    <3>1. e = target[r]
      BY <1>1 DEF HandsOff
    <3>2. ~Working(e) /\ wpc[e] # "none"
      BY <1>5, <3>1 DEF StopperJoins, PointsAgree
    <3>3. wpc[e] = "ended"
      BY <3>2 DEF Working
    <3>4. QED
      BY <3>3 DEF Active, PointsAgree
  <2>2. spc'[r] = "clear"
    BY <1>5 DEF StopperJoins, TypeOK
  <2>3. QED
    BY <1>1, <1>2, <1>3, <2>1, <2>2 DEF ActiveIsCurrent, HandsOff
<1>6. CASE StopperClears(r)
  <2>1. \A e \in Engines : ~Active(e)
    BY <1>6 DEF StopperClears, HandsOff
  <2>2. spc'[r] = "none"
    BY <1>6 DEF StopperClears, TypeOK
  <2>3. QED
    BY <1>1, <1>2, <1>3, <2>1, <2>2 DEF ActiveIsCurrent, HandsOff
<1>7. QED
  BY <1>4, <1>5, <1>6 DEF Stopper

\* As long as no join times out, a new thread is alone and its engine is the one the
\* requests see.
LEMMA OneThreadStep ==
    ASSUME TypeOK, TypeOK', PointsAgree, OneOpen, OneThread, [Next]_vars, orderly', ~lingering'
    PROVE  OneThread'
<1>1. ASSUME NEW r \in Requests, Request(r) PROVE OneThread'
  <2>1. UNCHANGED <<epc, thread, engine>>
    BY <1>1 DEF Request, shared
  <2>2. \A q \in Requests : rpc'[q] = "spawn" => rpc[q] = "spawn"
    BY <1>1 DEF Request, TypeOK
  <2>3. QED
    BY <2>1, <2>2 DEF OneThread, Alive
<1>2. ASSUME NEW r \in Requests, Handler(r) PROVE OneThread'
  <2>1. Open(r)
    BY <1>2 DEF Handler, StartInvalid, StartCheck, StartJoined, StartSpawn, StopRequest, Open
  <2>2. \A q \in Requests : q # r => rpc'[q] = rpc[q] /\ rpc[q] # "spawn"
    BY <1>2, <2>1 DEF Handler, StartInvalid, StartCheck, StartJoined, StartSpawn, StopRequest,
       TypeOK, OneOpen, Open
  <2>3. CASE StartSpawn(r)
    <3> PICK e \in Engines : thread' = e /\ epc' = [epc EXCEPT ![e] = "spawned"]
      BY <2>3 DEF StartSpawn
    <3>1. rpc[r] = "spawn" /\ rpc'[r] = "done" /\ UNCHANGED engine
      BY <2>3 DEF StartSpawn, TypeOK
    <3>2. \A f \in Engines : ~Alive(f)
      BY <3>1 DEF OneThread
    <3>3. \A f \in Engines : f # e => epc'[f] \in {"none", "ended"}
      BY <3>2 DEF Alive, TypeOK, Engines, None
    <3>4. epc'[e] = "spawned"
      BY DEF TypeOK
    <3>5. QED
      BY <2>2, <3>1, <3>3, <3>4 DEF OneThread, Alive
  <2>4. CASE StopRequest(r)
    <3>1. UNCHANGED <<epc, engine>> /\ rpc'[r] # "spawn"
      BY <2>4 DEF StopRequest, AfterStop, TypeOK
    <3>2. thread' = thread \/ ~Alive(thread)
      BY <2>4 DEF StopRequest
    <3>3. QED
      BY <2>2, <3>1, <3>2 DEF OneThread, Alive
  <2>5. CASE StartInvalid(r) \/ StartCheck(r) \/ StartJoined(r)
    <3>1. UNCHANGED <<epc, engine, thread>>
      BY <2>5 DEF StartInvalid, StartCheck, StartJoined, shared
    <3>2. rpc'[r] = "spawn" => ~Alive(thread)
      BY <2>5 DEF StartInvalid, StartCheck, StartJoined, TypeOK
    <3>3. rpc'[r] = "spawn" => \A e \in Engines : ~Alive(e)
      BY <3>2 DEF OneThread
    <3>4. QED
      BY <2>2, <3>1, <3>3 DEF OneThread, Alive
  <2>6. QED
    BY <1>2, <2>3, <2>4, <2>5 DEF Handler
<1>3. ASSUME NEW r \in Requests, Stopper(r) PROVE OneThread'
  <2>1. UNCHANGED <<epc, engine, rpc>>
    BY <1>3 DEF Stopper, StopperFlags, StopperJoins, StopperClears, shared
  <2>2. thread' = thread \/ ~Alive(thread)
    BY <1>3 DEF Stopper, StopperFlags, StopperJoins, StopperClears, shared, TypeOK
  <2>3. QED
    BY <2>1, <2>2 DEF OneThread, Alive
<1>4. ASSUME NEW e \in Engines, EngineRun(e) PROVE OneThread'
  <2>1. UNCHANGED <<rpc, thread>> /\ \A f \in Engines : f # e => epc'[f] = epc[f]
    BY <1>4 DEF EngineRun, EngineBegins, EngineBuilt, EngineStarts, EngineFails, EngineJoined,
       EngineLeaves, shared, requests, TypeOK
  <2>2. Alive(e)
    BY <1>4 DEF EngineRun, EngineBegins, EngineBuilt, EngineStarts, EngineFails, EngineJoined,
       EngineLeaves, Alive, Engines, None
  <2>3. e = thread /\ \A f \in Engines : f # e => epc[f] \in {"none", "ended"}
    BY <2>2 DEF OneThread, Alive, Engines, None, TypeOK
  <2>4. epc'[e] \in {"connecting", "running"} => engine' = e
    BY <1>4 DEF EngineRun, EngineBegins, EngineBuilt, EngineStarts, EngineFails, EngineJoined,
       EngineLeaves, shared, TypeOK, OneThread
  <2>5. \A r \in Requests : rpc[r] # "spawn"
    BY <2>2 DEF OneThread
  <2>6. QED
    BY <2>1, <2>3, <2>4, <2>5 DEF OneThread, Alive
<1>5. CASE \E e \in Engines : Worker(e) \/ WorkerFails(e)
  <2>1. UNCHANGED <<epc, engine, thread, rpc>>
    BY <1>5 DEF Worker, WorkerOpens, WorkerReceives, WorkerWrites, WorkerCommits,
       WorkerEnds, WorkerFails, shared, requests
  <2>2. QED
    BY <2>1 DEF OneThread, Alive
<1>6. CASE ResetOffset \/ UNCHANGED vars
  BY <1>6 DEF ResetOffset, vars, shared, requests, OneThread, Alive
<1>7. QED
  BY <1>1, <1>2, <1>3, <1>4, <1>5, <1>6 DEF Next

LEMMA LStep == ASSUME LInv, [Next]_vars PROVE LInv'
<1>1. TypeOK' /\ PointsAgree'
  BY TypeStep, PointsStep DEF LInv
<1>2. (orderly' => orderly) /\ (lingering => lingering')
  BY HistoryStep DEF LInv
<1>3. ASSUME orderly' PROVE OneOpen' /\ ActiveIsCurrent' /\ HandsOff'
  <2>1. OneOpen /\ ActiveIsCurrent /\ HandsOff
    BY <1>2, <1>3 DEF LInv
  <2>2. OneOpen'
    BY <1>1, <1>3, <2>1, OneOpenStep DEF LInv
  <2>3. CASE \E r \in Requests : Handler(r) \/ Stopper(r)
    BY <1>1, <1>3, <2>1, <2>2, <2>3, StartStep, StopperStep DEF LInv
  <2>4. CASE \E e \in Engines : EngineRun(e) \/ Worker(e) \/ WorkerFails(e)
    BY <1>1, <2>1, <2>2, <2>4, EngineStep DEF LInv
  <2>5. ASSUME NEW r \in Requests, Request(r) PROVE ActiveIsCurrent' /\ HandsOff'
    <3>1. UNCHANGED <<epc, wpc, thread, state, spc, target>>
      BY <2>5 DEF Request, shared, workers
    <3>2. \A q \in Requests : rpc'[q] \in {"joining", "spawn"} => rpc[q] = rpc'[q]
      BY <2>5 DEF Request, LInv, TypeOK
    <3>3. QED
      BY <2>1, <3>1, <3>2 DEF ActiveIsCurrent, HandsOff, Active
  <2>6. CASE ResetOffset \/ UNCHANGED vars
    <3>1. UNCHANGED <<epc, wpc, thread, state, rpc, spc, target>>
      BY <2>6 DEF ResetOffset, vars, shared, requests, workers
    <3>2. QED
      BY <2>1, <2>2, <3>1 DEF ActiveIsCurrent, HandsOff, Active
  <2>7. QED
    BY <2>2, <2>3, <2>4, <2>5, <2>6 DEF Next
<1>4. ASSUME orderly', ~lingering' PROVE OneThread'
  BY <1>1, <1>2, <1>4, OneThreadStep DEF LInv
<1>5. QED
  BY <1>1, <1>3, <1>4 DEF LInv

\* The requests' invariant holds in every reachable state.
THEOREM RequestInvariant == Spec => []LInv
BY LInit, LStep, PTL DEF Spec

\* However often the engine is started, stopped and restarted, and however many
\* engine threads linger, requests that wait for each other never let two workers
\* run for one table, but for the named cases (app.py:150-161, engine.py:513-521).
THEOREM WorkersAreAlone == Spec => []OneWorkerPerTable
<1>1. LInv => OneWorkerPerTable
  <2> SUFFICES ASSUME LInv, orderly, NEW e \in Engines, NEW f \in Engines, Working(e),
                      Working(f)
               PROVE  e = f
    BY DEF OneWorkerPerTable
  <2>1. Active(e) /\ Active(f)
    BY DEF LInv, PointsAgree, Working, Active
  <2>2. QED
    BY <2>1 DEF LInv, ActiveIsCurrent
<1>2. QED
  BY <1>1, RequestInvariant, PTL

\* If besides no join of an engine thread times out, a running worker belongs to the
\* engine that the next stop request will find (app.py:164-176).
THEOREM RunningIsFound == Spec => []RunningIsReachable
<1>1. LInv => RunningIsReachable
  <2> SUFFICES ASSUME LInv, orderly, ~lingering, NEW e \in Engines, Working(e)
               PROVE  engine = e
    BY DEF RunningIsReachable
  <2>1. epc[e] = "running"
    BY DEF LInv, PointsAgree, Working
  <2>2. QED
    BY <2>1 DEF LInv, OneThread
<1>2. QED
  BY <1>1, RequestInvariant, PTL
=============================================================================
