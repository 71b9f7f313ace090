------------------------- MODULE WorkerShutdownProofs -------------------------
(***************************************************************************)
(* Theorems about WorkerShutdown, for any jobs, workers, callbacks and     *)
(* numbers of lost connections.                                            *)
(***************************************************************************)
EXTENDS WorkerShutdown, FiniteSetTheorems, TLAPS

LEMMA TypeStep == TypeOK /\ [Next]_vars => TypeOK'
  <1> SUFFICES ASSUME TypeOK, [Next]_vars PROVE TypeOK'
    OBVIOUS
  <1> USE DEF TypeOK, worker, task, broken, Enter
  <1>1. ASSUME NEW j \in Job, NEW w \in Worker, NEW t \in Task, Deliver(j, w, t)
        PROVE  TypeOK'
    <2>1. w \in Where /\ w \in Worker \cup {NoWorker} /\ j \in Job \cup {NoJob}
      BY DEF Where
    <2> QED
      BY <1>1, <2>1 DEF Deliver
  <1>2. ASSUME NEW t \in Task, Begin(t) PROVE TypeOK'
    <2>1. inFlight' \in [Worker -> SUBSET Task]
      BY <1>2 DEF Begin, Register
    <2> QED
      BY <1>2, <2>1 DEF Begin
  <1>3. ASSUME NEW t \in Task, Defer(t) PROVE TypeOK'
    BY <1>3 DEF Defer, EndTask
  <1>4. ASSUME NEW t \in Task, Finish(t), message' \in [Job -> Where] PROVE TypeOK'
    <2>1. inFlight' \in [Worker -> SUBSET Task]
      BY <1>4 DEF Finish, Discard
    <2> QED
      BY <1>4, <2>1 DEF Finish, EndTask
  <1>5. ASSUME NEW t \in Task, Settle(t) PROVE TypeOK'
    <2>1. {"done", "rejected"} \subseteq Where
      BY DEF Where
    <2>2. message' \in [Job -> Where]
      BY <1>5, <2>1 DEF Settle
    <2> QED
      BY <1>4, <1>5, <2>2 DEF Settle
  <1>6. ASSUME NEW t \in Task, GiveBack(t) PROVE TypeOK'
    <2>1. message' \in [Job -> Where]
      BY <1>6 DEF GiveBack, Where
    <2> QED
      BY <1>4, <1>6, <2>1 DEF GiveBack
  <1>7. ASSUME NEW w \in Worker,
               Consume(w) \/ RequestStop(w) \/ CancelOk(w) \/ CancelFails(w) \/ Drain(w)
        PROVE  TypeOK'
    <2>1. CASE Consume(w)
      BY <2>1 DEF Phase, Consume
    <2>2. CASE RequestStop(w)
      BY <2>2 DEF Phase, RequestStop
    <2>3. CASE CancelOk(w)
      BY <2>3 DEF Phase, CancelOk
    <2>4. CASE CancelFails(w)
      BY <2>4 DEF Phase, CancelFails
    <2>5. CASE Drain(w)
      BY <2>5 DEF Phase, Drain
    <2> QED
      BY <1>7, <2>1, <2>2, <2>3, <2>4, <2>5
  <1>8. ASSUME NEW w \in Worker, Requeue(w) PROVE message' \in [Job -> Where]
    BY <1>8 DEF Requeue, Where
  <1>9. ASSUME NEW w \in Worker, Void(w) PROVE live' \in [Task -> BOOLEAN]
    BY <1>9 DEF Void
  <1>10. ASSUME NEW w \in Worker, EndTasks(w)
         PROVE  /\ callback' \in [Task -> {"none", "created", "running"}]
                /\ owner' \in [Task -> Worker \cup {NoWorker}]
                /\ job' \in [Task -> Job \cup {NoJob}]
                /\ live' \in [Task -> BOOLEAN]
    BY <1>9, <1>10 DEF EndTasks
  <1>11. ASSUME NEW w \in Worker, Close(w) PROVE TypeOK'
    BY <1>8, <1>9, <1>11 DEF Close, Phase
  <1>12. ASSUME NEW w \in Worker, Exit(w) PROVE TypeOK'
    BY <1>10, <1>12 DEF Exit, Phase
  <1>13. ASSUME NEW w \in Worker, Kill(w) PROVE TypeOK'
    BY <1>8, <1>10, <1>13 DEF Kill, Phase
  <1>14. ASSUME NEW w \in Worker, Disconnect(w) PROVE TypeOK'
    <2>1. disconnects' \in 0..MaxDisconnects
      BY <1>14, BoundAssumption DEF Disconnect
    <2>2. lost' \subseteq Job
      BY <1>14 DEF Disconnect, Held
    <2> QED
      BY <1>8, <1>9, <1>14, <2>1, <2>2 DEF Disconnect
  <1>15. CASE UNCHANGED vars
    BY <1>15 DEF vars
  <1> QED
    BY <1>1, <1>2, <1>3, <1>5, <1>6, <1>7, <1>11, <1>12, <1>13, <1>14, <1>15 DEF Next

(* The type invariant of run_worker: among others, a worker takes no jobs   *)
(* from the moment the stop is requested.                                   *)
THEOREM TypeCorrect == Spec => []TypeOK
  <1>1. Init => TypeOK
    BY BoundAssumption DEF Init, TypeOK, Where, Phase
  <1> QED
    BY <1>1, TypeStep, PTL DEF Spec
-----------------------------------------------------------------------------
(* A callback belongs to a worker that has begun to consume, and one that   *)
(* runs is registered with a worker that has not got past its drain.        *)
PhaseOK ==
  \A w \in Worker :
    consuming[w] => phase[w] \in {"consuming", "cancelling", "draining", "closing"}

OwnedOK ==
  \A t \in Task :
    callback[t] # "none" =>
      owner[t] \in Worker /\ job[t] \in Job /\ phase[owner[t]] # "starting"

RunningOK ==
  \A t \in Task :
    callback[t] = "running" =>
      /\ t \in inFlight[owner[t]]
      /\ phase[owner[t]] \in {"consuming", "cancelling", "draining"}

(* A live delivery holds its message, alone.                                *)
LiveOK ==
  \A t \in Task :
    live[t] =>
      /\ callback[t] # "none"
      /\ message[job[t]] = owner[t]
      /\ \A u \in Task : live[u] /\ job[u] = job[t] => u = t

(* A delivery is void only after a lost connection, or if it will be        *)
(* deferred.                                                                *)
VoidOK ==
  \A t \in Task :
    callback[t] # "none" /\ ~ live[t] =>
      job[t] \in lost \/ (callback[t] = "created" /\ stopping[owner[t]])

Safe == PhaseOK /\ OwnedOK /\ RunningOK /\ LiveOK /\ VoidOK

LEMMA DeliverSafe ==
  ASSUME TypeOK, Safe, NEW j \in Job, NEW w \in Worker, NEW t \in Task, Deliver(j, w, t)
  PROVE  Safe'
  <1> USE DEF TypeOK, worker, broken
  <1>1. PhaseOK'
    BY DEF Safe, PhaseOK, Deliver
  <1>2. OwnedOK'
    BY DEF Safe, PhaseOK, OwnedOK, Deliver
  <1>3. RunningOK'
    BY DEF Safe, RunningOK, Deliver
  <1>4. LiveOK'
    <2>1. \A u \in Task : live[u] => job[u] # j
      BY WorkerAssumption DEF Safe, LiveOK, OwnedOK, Deliver
    <2>2. \A u \in Task \ {t} :
            callback'[u] = callback[u] /\ owner'[u] = owner[u] /\ job'[u] = job[u]
              /\ live'[u] = live[u]
      BY DEF Deliver
    <2>3. callback'[t] # "none" /\ owner'[t] = w /\ job'[t] = j /\ live'[t] /\ message'[j] = w
      BY DEF Deliver
    <2>4. \A i \in Job \ {j} : message'[i] = message[i]
      BY DEF Deliver
    <2> QED
      BY <2>1, <2>2, <2>3, <2>4 DEF Safe, LiveOK, OwnedOK
  <1>5. VoidOK'
    BY DEF Safe, VoidOK, Deliver
  <1> QED
    BY <1>1, <1>2, <1>3, <1>4, <1>5 DEF Safe

LEMMA BeginSafe ==
  ASSUME TypeOK, Safe, NEW t \in Task, Begin(t)
  PROVE  Safe'
  <1> USE DEF TypeOK, worker, broken
  <1>1. PhaseOK' /\ OwnedOK' /\ LiveOK'
    BY DEF Safe, PhaseOK, OwnedOK, LiveOK, Begin
  <1>2. RunningOK'
    <2>1. owner[t] \in Worker /\ phase[owner[t]] = "consuming"
      BY DEF Safe, OwnedOK, Begin, Accepts
    <2>2. t \in inFlight'[owner[t]]
      BY <2>1 DEF Begin, Register
    <2>3. \A v \in Worker : inFlight[v] \subseteq inFlight'[v]
      BY <2>1 DEF Begin, Register
    <2> QED
      BY <2>1, <2>2, <2>3 DEF Safe, RunningOK, OwnedOK, Begin
  <1>3. VoidOK'
    BY DEF Safe, VoidOK, Begin, Accepts
  <1> QED
    BY <1>1, <1>2, <1>3 DEF Safe

(* The end of a callback that leaves every other delivery's message alone.  *)
LEMMA EndTaskSafe ==
  ASSUME TypeOK, Safe, NEW t \in Task, EndTask(t), UNCHANGED <<worker, broken>>,
         \A u \in Task \ {t} : live[u] => message'[job[u]] = message[job[u]],
         \A w \in Worker : inFlight[w] \ {t} \subseteq inFlight'[w]
  PROVE  Safe'
  <1> USE DEF TypeOK, worker, broken
  <1>1. \A u \in Task \ {t} :
          callback'[u] = callback[u] /\ owner'[u] = owner[u] /\ job'[u] = job[u]
            /\ live'[u] = live[u]
    BY DEF EndTask
  <1>2. callback'[t] = "none" /\ ~ live'[t]
    BY DEF EndTask
  <1>3. PhaseOK' /\ OwnedOK'
    BY <1>1, <1>2 DEF Safe, PhaseOK, OwnedOK
  <1>4. RunningOK'
    BY <1>1, <1>2 DEF Safe, RunningOK, OwnedOK
  <1>5. LiveOK'
    BY <1>1, <1>2 DEF Safe, LiveOK
  <1>6. VoidOK'
    BY <1>1, <1>2 DEF Safe, VoidOK
  <1> QED
    BY <1>3, <1>4, <1>5, <1>6 DEF Safe

LEMMA FinishSafe ==
  ASSUME TypeOK, Safe, NEW t \in Task, Defer(t) \/ Settle(t) \/ GiveBack(t)
  PROVE  Safe'
  <1> USE DEF TypeOK
  <1>1. CASE Defer(t)
    BY <1>1, EndTaskSafe DEF Defer, worker, broken
  <1>2. CASE Settle(t) \/ GiveBack(t)
    <2>1. Finish(t)
      BY <1>2 DEF Settle, GiveBack
    <2>2. callback[t] = "running" /\ owner[t] \in Worker /\ job[t] \in Job
      BY <2>1 DEF Finish, Safe, OwnedOK
    <2>3. \A i \in Job : message'[i] # message[i] => i = job[t] /\ Unacknowledged(t)
      BY <1>2, <2>2 DEF Settle, GiveBack
    <2>4. \A u \in Task \ {t} : live[u] => message'[job[u]] = message[job[u]]
      BY <2>3 DEF Safe, LiveOK, OwnedOK, Unacknowledged
    <2>5. \A w \in Worker : inFlight[w] \ {t} \subseteq inFlight'[w]
      BY <2>1, <2>2 DEF Finish, Discard
    <2> QED
      BY <2>1, <2>4, <2>5, EndTaskSafe DEF Finish
  <1> QED
    BY <1>1, <1>2

LEMMA PhaseStepSafe ==
  ASSUME TypeOK, Safe, NEW w \in Worker,
         Consume(w) \/ RequestStop(w) \/ CancelOk(w) \/ CancelFails(w) \/ Drain(w)
  PROVE  Safe'
  <1> USE DEF TypeOK, task, broken, Enter
  <1>1. CASE Consume(w)
    <2>1. \A t \in Task : callback[t] # "none" => owner[t] # w
      BY <1>1 DEF Consume, Safe, OwnedOK
    <2>2. \A v \in Worker \ {w} : phase'[v] = phase[v] /\ consuming'[v] = consuming[v]
      BY <1>1 DEF Consume
    <2>3. phase'[w] = "consuming"
      BY <1>1 DEF Consume
    <2>4. PhaseOK' /\ OwnedOK' /\ RunningOK'
      BY <1>1, <2>1, <2>2, <2>3 DEF Consume, Safe, PhaseOK, OwnedOK, RunningOK
    <2> QED
      BY <1>1, <2>4 DEF Consume, Safe, LiveOK, VoidOK
  <1>2. CASE RequestStop(w)
    BY <1>2 DEF RequestStop, Safe, PhaseOK, OwnedOK, RunningOK, LiveOK, VoidOK
  <1>3. CASE CancelOk(w) \/ CancelFails(w)
    BY <1>3 DEF CancelOk, CancelFails, Safe, PhaseOK, OwnedOK, RunningOK, LiveOK, VoidOK
  <1>4. CASE Drain(w)
    <2>1. \A t \in Task : callback[t] = "running" => owner[t] # w
      BY <1>4 DEF Drain, Drained, Safe, RunningOK
    <2> QED
      BY <1>4, <2>1 DEF Drain, Safe, PhaseOK, OwnedOK, RunningOK, LiveOK, VoidOK
  <1> QED
    BY <1>1, <1>2, <1>3, <1>4

(* A worker's channel goes away: what the others hold stays as it is.       *)
LEMMA VoidLive ==
  ASSUME TypeOK, Safe, NEW w \in Worker, Requeue(w), Void(w),
         \A t \in Task : live'[t] =>
           callback'[t] = callback[t] /\ owner'[t] = owner[t] /\ job'[t] = job[t]
  PROVE  LiveOK'
  <1>1. \A t \in Task : live'[t] => live[t] /\ owner[t] # w
    BY DEF Void
  <1>2. \A j \in Job : message[j] # w => message'[j] = message[j]
    BY DEF Requeue
  <1> QED
    BY <1>1, <1>2 DEF TypeOK, Safe, LiveOK, OwnedOK

LEMMA CloseSafe ==
  ASSUME TypeOK, Safe, NEW w \in Worker, Close(w)
  PROVE  Safe'
  <1> USE DEF TypeOK, broken, Enter
  <1>1. LiveOK'
    BY VoidLive DEF Close
  <1>2. PhaseOK' /\ OwnedOK' /\ RunningOK'
    BY DEF Close, Safe, PhaseOK, OwnedOK, RunningOK
  <1>3. VoidOK'
    <2>1. \A t \in Task : callback[t] # "none" /\ owner[t] = w =>
                            callback[t] = "created" /\ stopping[w]
      BY DEF Close, Safe, RunningOK
    <2> QED
      BY <2>1 DEF Close, Void, Safe, VoidOK
  <1> QED
    BY <1>1, <1>2, <1>3 DEF Safe

LEMMA DisconnectSafe ==
  ASSUME TypeOK, Safe, NEW w \in Worker, Disconnect(w)
  PROVE  Safe'
  <1> USE DEF TypeOK, worker
  <1>1. LiveOK'
    BY VoidLive DEF Disconnect
  <1>2. PhaseOK' /\ OwnedOK' /\ RunningOK'
    BY DEF Disconnect, Safe, PhaseOK, OwnedOK, RunningOK
  <1>3. VoidOK'
    <2>1. \A t \in Task : live[t] /\ owner[t] = w => job[t] \in lost'
      BY DEF Disconnect, Held, Safe, LiveOK, OwnedOK
    <2> QED
      BY <2>1 DEF Disconnect, Void, Safe, VoidOK
  <1> QED
    BY <1>1, <1>2, <1>3 DEF Safe

LEMMA EndTasksSafe ==
  ASSUME TypeOK, Safe, NEW w \in Worker, Exit(w) \/ Kill(w)
  PROVE  Safe'
  <1> USE DEF TypeOK, broken, Enter
  <1>1. EndTasks(w) /\ phase'[w] = "ended" /\ lost' = lost
    BY DEF Exit, Kill
  <1>2. \A t \in Task : callback'[t] # "none" =>
          /\ callback'[t] = callback[t] /\ owner'[t] = owner[t] /\ owner[t] # w
          /\ job'[t] = job[t] /\ live'[t] = live[t]
    BY <1>1 DEF EndTasks, Void
  <1>3. \A t \in Task : live'[t] => callback'[t] # "none"
    BY <1>1 DEF EndTasks, Void, Safe, LiveOK
  <1>4. \A v \in Worker \ {w} :
          /\ phase'[v] = phase[v] /\ consuming'[v] = consuming[v]
          /\ inFlight'[v] = inFlight[v] /\ stopping'[v] = stopping[v]
    BY DEF Exit, Kill
  <1>5. ~ consuming'[w]
    BY DEF Exit, Kill, Safe, PhaseOK
  <1>6. PhaseOK'
    BY <1>4, <1>5 DEF Safe, PhaseOK
  <1>7. OwnedOK' /\ RunningOK'
    BY <1>2, <1>4 DEF Safe, OwnedOK, RunningOK
  <1>8. LiveOK'
    <2>1. CASE Exit(w)
      BY <1>2, <1>3, <2>1 DEF Exit, Safe, LiveOK
    <2>2. CASE Kill(w)
      BY <1>1, <1>2, <1>3, <2>2, VoidLive DEF Kill, EndTasks
    <2> QED
      BY <2>1, <2>2
  <1>9. VoidOK'
    BY <1>1, <1>2, <1>4 DEF Safe, VoidOK, OwnedOK
  <1> QED
    BY <1>6, <1>7, <1>8, <1>9 DEF Safe

LEMMA SafeStep == TypeOK /\ Safe /\ [Next]_vars => Safe'
  <1> SUFFICES ASSUME TypeOK, Safe, [Next]_vars PROVE Safe'
    OBVIOUS
  <1>1. CASE UNCHANGED vars
    BY <1>1 DEF vars, worker, task, broken, Safe, PhaseOK, OwnedOK, RunningOK, LiveOK, VoidOK
  <1> QED
    BY <1>1, DeliverSafe, BeginSafe, FinishSafe, PhaseStepSafe, CloseSafe, DisconnectSafe,
       EndTasksSafe DEF Next

LEMMA AlwaysSafe == Spec => [](TypeOK /\ Safe)
  <1>1. Init => TypeOK /\ Safe
    BY BoundAssumption
       DEF Init, TypeOK, Where, Phase, Safe, PhaseOK, OwnedOK, RunningOK, LiveOK, VoidOK
  <1> QED
    BY <1>1, TypeStep, SafeStep, PTL DEF Spec

(* The connection and the engine outlive every callback that runs.          *)
THEOREM NoHandlerOutlivesTheConnection == Spec => []HandlersAreDrained
  <1>1. Safe => HandlersAreDrained
    BY DEF Safe, RunningOK, HandlersAreDrained
  <1> QED
    BY <1>1, AlwaysSafe, PTL

(* Callbacks overlap on a job only after a lost connection, so a graceful   *)
(* stop never makes them.                                                   *)
THEOREM StopsNeverOverlapJobs == Spec => []OneCallbackPerJob
  <1>1. ASSUME TypeOK, Safe PROVE OneCallbackPerJob
    <2> SUFFICES ASSUME NEW j \in Job \ lost
                 PROVE  Cardinality({t \in Task : callback[t] = "running" /\ job[t] = j}) <= 1
      BY DEF OneCallbackPerJob
    <2> DEFINE R == {t \in Task : callback[t] = "running" /\ job[t] = j}
    <2>1. \A t \in R : live[t]
      BY <1>1 DEF Safe, VoidOK
    <2>2. \A t, u \in R : t = u
      BY <1>1, <2>1 DEF Safe, LiveOK
    <2>3. CASE R = {}
      BY <2>3, FS_EmptySet
    <2>4. CASE R # {}
      <3>1. PICK t \in R : TRUE
        BY <2>4
      <3>2. R = {t}
        BY <2>2, <3>1
      <3>3. Cardinality({t}) = 1
        BY FS_Singleton
      <3> QED
        BY <3>2, <3>3
    <2> QED
      BY <2>3, <2>4
  <1> QED
    BY <1>1, AlwaysSafe, PTL
-----------------------------------------------------------------------------
(* The drain.                                                              *)

LEMMA InFlightStep ==
  TypeOK /\ Safe /\ InFlightRuns /\ [Next]_vars => InFlightRuns'
  <1> SUFFICES ASSUME TypeOK, Safe, InFlightRuns, [Next]_vars PROVE InFlightRuns'
    OBVIOUS
  <1>1. ASSUME UNCHANGED inFlight,
               \A t \in Task, w \in Worker :
                 callback'[t] = "running" /\ owner'[t] = w
                   <=> callback[t] = "running" /\ owner[t] = w
        PROVE  InFlightRuns'
    BY <1>1 DEF InFlightRuns
  <1>2. CASE UNCHANGED vars
    BY <1>1, <1>2 DEF vars, task
  <1>3. ASSUME NEW j \in Job, NEW w \in Worker, NEW t \in Task, Deliver(j, w, t)
        PROVE  InFlightRuns'
    BY <1>1, <1>3 DEF Deliver, TypeOK
  <1>4. ASSUME NEW t \in Task, Begin(t) PROVE InFlightRuns'
    <2>1. callback[t] = "created" /\ owner[t] \in Worker
      BY <1>4 DEF Begin, Safe, OwnedOK
    <2>2. inFlight' = [inFlight EXCEPT ![owner[t]] = inFlight[owner[t]] \cup {t}]
      BY <1>4 DEF Begin, Register
    <2>3. callback' = [callback EXCEPT ![t] = "running"] /\ owner' = owner
      BY <1>4 DEF Begin
    <2> QED
      BY <2>1, <2>2, <2>3 DEF InFlightRuns, TypeOK
  <1>5. ASSUME NEW t \in Task, Defer(t) PROVE InFlightRuns'
    BY <1>1, <1>5, WorkerAssumption DEF Defer, EndTask, TypeOK
  <1>6. ASSUME NEW t \in Task, Settle(t) \/ GiveBack(t) PROVE InFlightRuns'
    <2>1. Finish(t)
      BY <1>6 DEF Settle, GiveBack
    <2>2. callback[t] = "running" /\ owner[t] \in Worker
      BY <2>1 DEF Finish, Safe, OwnedOK
    <2>3. inFlight' = [inFlight EXCEPT ![owner[t]] = inFlight[owner[t]] \ {t}]
      BY <2>1 DEF Finish, Discard
    <2>4. callback'[t] = "none"
          /\ \A u \in Task \ {t} : callback'[u] = callback[u] /\ owner'[u] = owner[u]
      BY <2>1 DEF Finish, EndTask, TypeOK
    <2> QED
      BY <2>2, <2>3, <2>4 DEF InFlightRuns, TypeOK
  <1>7. ASSUME NEW w \in Worker,
               \/ Consume(w) \/ RequestStop(w) \/ CancelOk(w) \/ CancelFails(w) \/ Drain(w)
               \/ Close(w) \/ Disconnect(w)
        PROVE  InFlightRuns'
    <2>1. UNCHANGED <<inFlight, callback, owner>>
      BY <1>7 DEF Consume, RequestStop, CancelOk, CancelFails, Drain, Close, Disconnect, task
    <2> QED
      BY <1>1, <2>1
  <1>8. ASSUME NEW w \in Worker, EndTasks(w)
        PROVE  \A t \in Task :
                 /\ owner[t] # w => callback'[t] = callback[t] /\ owner'[t] = owner[t]
                 /\ owner[t] = w => callback'[t] = "none"
    BY <1>8 DEF EndTasks, TypeOK
  <1>9. ASSUME NEW w \in Worker, Exit(w) PROVE InFlightRuns'
    <2>1. \A t \in Task : callback[t] = "running" => owner[t] # w
      BY <1>9 DEF Exit, Safe, RunningOK
    <2>2. EndTasks(w) /\ UNCHANGED inFlight
      BY <1>9 DEF Exit
    <2> QED
      BY <1>1, <1>8, <2>1, <2>2
  <1>10. ASSUME NEW w \in Worker, Kill(w) PROVE InFlightRuns'
    <2>1. EndTasks(w) /\ inFlight'[w] = {}
          /\ \A v \in Worker \ {w} : inFlight'[v] = inFlight[v]
      BY <1>10 DEF Kill, TypeOK
    <2>2. \A t \in Task : owner[t] = w => callback'[t] # "running"
      BY <1>8, <2>1
    <2>3. \A t \in Task, v \in Worker \ {w} :
            callback'[t] = "running" /\ owner'[t] = v <=> callback[t] = "running" /\ owner[t] = v
      BY <1>8, <2>1
    <2>4. \A t \in Task : ~ (callback'[t] = "running" /\ owner'[t] = w)
      BY <1>8, <2>1
    <2> QED
      BY <2>1, <2>3, <2>4 DEF InFlightRuns
  <1> QED
    BY <1>2, <1>3, <1>4, <1>5, <1>6, <1>7, <1>9, <1>10 DEF Next

(* The drain waits for all callbacks that run and for nothing else.         *)
THEOREM DrainsStayExact == Spec => []DrainsAreExact
  <1>1. Init => InFlightRuns
    BY DEF Init, InFlightRuns
  <1>2. HandlersAreDrained /\ InFlightRuns => DrainsAreExact
    BY DEF DrainsAreExact
  <1> QED
    BY <1>1, <1>2, NoHandlerOutlivesTheConnection, AlwaysSafe, InFlightStep, PTL DEF Spec

(* A drain under way only gets shorter, whatever is still delivered: the    *)
(* worker stopped to accept before it began.                                *)
THEOREM DrainsOnlyShrink == Spec => DrainsGetOn
  <1>1. ASSUME TypeOK, Safe, Next, NEW w \in Worker, phase[w] = "draining", phase'[w] = "draining"
        PROVE  inFlight'[w] \subseteq inFlight[w]
    <2>1. CASE UNCHANGED inFlight
      BY <2>1
    <2>2. ASSUME NEW t \in Task, Begin(t) PROVE inFlight'[w] \subseteq inFlight[w]
      <3>1. owner[t] \in Worker /\ ~ stopping[owner[t]]
        <4>1. callback[t] # "none" /\ ~ stopping[owner[t]]
          BY <2>2 DEF Begin, Accepts
        <4> QED
          BY <1>1, <4>1 DEF Safe, OwnedOK
      <3>2. owner[t] # w
        BY <1>1, <3>1 DEF TypeOK
      <3> QED
        BY <2>2, <3>1, <3>2 DEF Begin, Register, TypeOK
    <2>3. ASSUME NEW t \in Task, Settle(t) \/ GiveBack(t) PROVE inFlight'[w] \subseteq inFlight[w]
      <3>1. Discard(t)
        BY <2>3 DEF Settle, GiveBack, Finish
      <3> QED
        BY <3>1 DEF Discard, TypeOK
    <2>4. ASSUME NEW v \in Worker, Kill(v) PROVE inFlight'[w] \subseteq inFlight[w]
      <3>1. v # w
        BY <1>1, <2>4 DEF Kill, Enter, TypeOK
      <3> QED
        BY <2>4, <3>1 DEF Kill, TypeOK
    <2>5. \/ UNCHANGED inFlight
          \/ \E t \in Task : Begin(t) \/ Settle(t) \/ GiveBack(t)
          \/ \E v \in Worker : Kill(v)
      BY <1>1 DEF Next, Deliver, Defer, Consume, RequestStop, CancelOk, CancelFails, Drain, Close,
         Exit, Disconnect
    <2> QED
      BY <2>1, <2>2, <2>3, <2>4, <2>5
  <1>2. TypeOK /\ Safe /\ [Next]_vars =>
          [\A w \in Worker :
             phase[w] = "draining" /\ phase'[w] = "draining"
               => inFlight'[w] \subseteq inFlight[w]]_vars
    BY <1>1
  <1> QED
    BY <1>2, AlwaysSafe, PTL DEF Spec, DrainsGetOn
-----------------------------------------------------------------------------
(* No job is stranded.                                                     *)

Handing(w) == phase[w] \in {"cancelling", "draining", "closing"}

Working(w, j) ==
  /\ phase[w] = "consuming"
  /\ \E t \in Task : callback[t] # "none" /\ owner[t] = w /\ job[t] = j /\ live[t]

LEMMA StrandedStep ==
  TypeOK /\ Safe /\ NoJobIsStranded /\ [Next]_vars => NoJobIsStranded'
  <1> SUFFICES ASSUME TypeOK, Safe, NoJobIsStranded, [Next]_vars,
                      NEW v \in Worker, NEW i \in Job, message'[i] = v
               PROVE  Handing(v)' \/ Working(v, i)'
    BY DEF NoJobIsStranded, Held, Handing, Working
  <1>0. message[i] = v => Handing(v) \/ Working(v, i)
    BY DEF NoJobIsStranded, Held, Handing, Working
  <1>1. CASE UNCHANGED vars
    BY <1>0, <1>1 DEF vars, worker, task, Handing, Working
  <1>2. ASSUME NEW j \in Job, NEW w \in Worker, NEW t \in Task, Deliver(j, w, t)
        PROVE  Handing(v)' \/ Working(v, i)'
    <2>1. UNCHANGED phase /\ phase[w] \in {"consuming", "cancelling", "draining", "closing"}
      BY <1>2 DEF Deliver, worker, Safe, PhaseOK
    <2>2. CASE i = j
      <3>1. v = w /\ callback'[t] = "created" /\ owner'[t] = w /\ job'[t] = j /\ live'[t]
        BY <1>2, <2>2 DEF Deliver, TypeOK
      <3> QED
        BY <2>1, <2>2, <3>1 DEF Handing, Working
    <2>3. CASE i # j
      <3>1. message[i] = v
        BY <1>2, <2>3 DEF Deliver, TypeOK
      <3>2. \A u \in Task : u # t => /\ callback'[u] = callback[u] /\ owner'[u] = owner[u]
                                     /\ job'[u] = job[u] /\ live'[u] = live[u]
        BY <1>2 DEF Deliver, TypeOK
      <3>3. callback[t] = "none"
        BY <1>2 DEF Deliver
      <3> QED
        BY <1>0, <2>1, <3>1, <3>2, <3>3 DEF Handing, Working
    <2> QED
      BY <2>2, <2>3
  <1>3. ASSUME NEW t \in Task, Begin(t) PROVE Handing(v)' \/ Working(v, i)'
    <2>1. UNCHANGED <<message, phase, owner, job, live>>
          /\ \A u \in Task : callback'[u] # "none" <=> callback[u] # "none"
      BY <1>3 DEF Begin, worker, TypeOK
    <2> QED
      BY <1>0, <2>1 DEF Handing, Working
  <1>4. ASSUME NEW t \in Task, EndTask(t), UNCHANGED worker,
               message[i] = v, ~ (live[t] /\ job[t] = i) \/ stopping[v]
        PROVE  Handing(v)' \/ Working(v, i)'
    <2>1. \A u \in Task \ {t} : /\ callback'[u] = callback[u] /\ owner'[u] = owner[u]
                                 /\ job'[u] = job[u] /\ live'[u] = live[u]
      BY <1>4 DEF EndTask, TypeOK
    <2>2. Handing(v) \/ Working(v, i)
      BY <1>0, <1>4
    <2>3. stopping[v] => Handing(v)
      BY <2>2 DEF TypeOK, Handing, Working
    <2> QED
      BY <1>4, <2>1, <2>2, <2>3 DEF Handing, Working, worker
  <1>5. ASSUME NEW t \in Task, Defer(t) PROVE Handing(v)' \/ Working(v, i)'
    <2>1. EndTask(t) /\ UNCHANGED worker /\ message[i] = v /\ stopping[owner[t]]
      BY <1>5 DEF Defer, Accepts
    <2>2. live[t] /\ job[t] = i => owner[t] = v
      BY <2>1 DEF Safe, LiveOK
    <2> QED
      BY <1>4, <2>1, <2>2
  <1>6. ASSUME NEW t \in Task, Settle(t) \/ GiveBack(t) PROVE Handing(v)' \/ Working(v, i)'
    <2>1. Finish(t) /\ EndTask(t) /\ UNCHANGED worker /\ job[t] \in Job
      BY <1>6 DEF Settle, GiveBack, Finish, Safe, OwnedOK
    <2>2. v \notin {"done", "rejected", "queued"}
      BY WorkerAssumption
    <2>3. CASE Unacknowledged(t)
      <3>1. message'[job[t]] \in {"done", "rejected", "queued"}
            /\ \A j \in Job : j # job[t] => message'[j] = message[j]
        BY <1>6, <2>1, <2>3 DEF Settle, GiveBack, TypeOK
      <3> QED
        BY <1>4, <2>1, <2>2, <3>1
    <2>4. CASE ~ Unacknowledged(t)
      <3>1. message' = message /\ ~ live[t]
        BY <1>6, <2>4 DEF Settle, GiveBack, Unacknowledged, Safe, LiveOK
      <3> QED
        BY <1>4, <2>1, <3>1
    <2> QED
      BY <2>3, <2>4
  <1>7. ASSUME NEW w \in Worker,
               Consume(w) \/ RequestStop(w) \/ CancelOk(w) \/ CancelFails(w) \/ Drain(w)
        PROVE  Handing(v)' \/ Working(v, i)'
    <2>1. UNCHANGED <<message, callback, owner, job, live>>
          /\ \A x \in Worker : x # w => phase'[x] = phase[x]
      BY <1>7 DEF Consume, RequestStop, CancelOk, CancelFails, Drain, Enter, task, TypeOK
    <2>2. CASE v # w
      BY <1>0, <2>1, <2>2 DEF Handing, Working
    <2>3. CASE v = w
      <3>1. ~ Consume(w)
        BY <1>0, <2>1, <2>3 DEF Consume, Handing, Working
      <3>2. phase'[w] \in {"cancelling", "draining", "closing"}
        BY <1>7, <3>1 DEF RequestStop, CancelOk, CancelFails, Drain, Enter, TypeOK
      <3> QED
        BY <2>3, <3>2 DEF Handing
    <2> QED
      BY <2>2, <2>3
  <1>8. ASSUME NEW w \in Worker, Requeue(w)
        PROVE  v # w /\ message[i] = v
    BY <1>8, WorkerAssumption DEF Requeue, TypeOK
  <1>9. ASSUME NEW w \in Worker, Close(w) \/ Disconnect(w) PROVE Handing(v)' \/ Working(v, i)'
    <2>1. v # w /\ message[i] = v
      BY <1>8, <1>9 DEF Close, Disconnect
    <2>2. phase'[v] = phase[v] /\ UNCHANGED <<callback, owner, job>>
      BY <1>9, <2>1 DEF Close, Disconnect, Enter, worker, TypeOK
    <2>3. \A t \in Task : live[t] /\ owner[t] = v => live'[t]
      BY <1>9, <2>1 DEF Close, Disconnect, Void
    <2> QED
      BY <1>0, <2>1, <2>2, <2>3 DEF Handing, Working
  <1>10. ASSUME NEW w \in Worker, EndTasks(w), v # w, message[i] = v, phase'[v] = phase[v]
         PROVE  Handing(v)' \/ Working(v, i)'
    <2>1. \A t \in Task : owner[t] = v =>
            /\ callback'[t] = callback[t] /\ owner'[t] = owner[t] /\ job'[t] = job[t]
            /\ live'[t] = live[t]
      BY <1>10 DEF EndTasks, Void, TypeOK
    <2> QED
      BY <1>0, <1>10, <2>1 DEF Handing, Working
  <1>11. ASSUME NEW w \in Worker, Exit(w) PROVE Handing(v)' \/ Working(v, i)'
    <2>1. message[i] = v /\ phase[w] = "closed" /\ EndTasks(w)
      BY <1>11 DEF Exit
    <2>2. v # w
      BY <1>0, <2>1 DEF Handing, Working
    <2> QED
      BY <1>10, <1>11, <2>1, <2>2 DEF Exit, Enter, TypeOK
  <1>12. ASSUME NEW w \in Worker, Kill(w) PROVE Handing(v)' \/ Working(v, i)'
    <2>1. v # w /\ message[i] = v
      BY <1>8, <1>12 DEF Kill
    <2> QED
      BY <1>10, <1>12, <2>1 DEF Kill, Enter, TypeOK
  <1> QED
    BY <1>1, <1>2, <1>3, <1>5, <1>6, <1>7, <1>9, <1>11, <1>12 DEF Next

(* A job no worker has acknowledged is worked on, or its worker stops and   *)
(* hands it back when it closes the connection.                             *)
THEOREM NoJobStaysBehind == Spec => []NoJobIsStranded
  <1>1. Init => NoJobIsStranded
    BY WorkerAssumption DEF Init, NoJobIsStranded, Held
  <1> QED
    BY <1>1, AlwaysSafe, StrandedStep, PTL DEF Spec
=============================================================================
