---------------------------- MODULE WorkerShutdown ----------------------------
(***************************************************************************)
(* The life of the RabbitMQ workers, run_worker of worker.py and of        *)
(* ticket_worker.py: consume, and on SIGTERM stop to take jobs, cancel the *)
(* consumer, drain the callbacks in flight, close the connection, dispose  *)
(* of the database engine.  What a callback does with its job is the       *)
(* business of DocumentIngestion and TicketAnalysis; here it runs and ends *)
(* in a settlement.                                                        *)
(***************************************************************************)
EXTENDS Naturals, FiniteSets

CONSTANTS
  Job,
  Worker,        \* worker processes, each started once
  Task,          \* asyncio tasks of callbacks, enough for all workers
  NoJob,
  NoWorker,
  MaxDisconnects \* bound on lost connections

Where == {"queued", "done", "rejected"} \cup Worker
Phase == {"starting", "consuming", "cancelling", "draining", "closing", "closed", "ended"}

ASSUME JobAssumption == NoJob \notin Job

ASSUME WorkerAssumption ==
  /\ NoWorker \notin Worker
  /\ Worker \cap {"queued", "done", "rejected"} = {}

ASSUME BoundAssumption == MaxDisconnects \in Nat

VARIABLES
  message,    \* message[j]: with the broker, settled, or unacknowledged at a worker
  phase,      \* phase[w]: where run_worker is
  stopping,   \* stopping[w]
  consuming,  \* consuming[w]: the broker has a consumer for w
  inFlight,   \* inFlight[w]: in_flight
  callback,   \* callback[t]: the task, created by the client before it runs
  owner,      \* owner[t]: its worker
  job,        \* job[t]: its message
  live,       \* live[t]: its delivery can still be settled
  disconnects,
  lost        \* jobs that were unacknowledged when a connection was lost

worker == <<phase, stopping, consuming>>
task == <<callback, owner, job, live>>
broken == <<disconnects, lost>>
vars == <<message, worker, inFlight, task, broken>>

TypeOK ==
  /\ message \in [Job -> Where]
  /\ phase \in [Worker -> Phase]
  /\ stopping \in [Worker -> BOOLEAN]
  /\ consuming \in [Worker -> BOOLEAN]
  /\ inFlight \in [Worker -> SUBSET Task]
  /\ callback \in [Task -> {"none", "created", "running"}]
  /\ owner \in [Task -> Worker \cup {NoWorker}]
  /\ job \in [Task -> Job \cup {NoJob}]
  /\ live \in [Task -> BOOLEAN]
  /\ disconnects \in 0..MaxDisconnects
  /\ lost \subseteq Job
  \* a worker that takes no jobs any more is on its way out
  /\ \A w \in Worker : stopping[w] <=> phase[w] \notin {"starting", "consuming"}

Init ==
  /\ message = [j \in Job |-> "queued"]
  /\ phase = [w \in Worker |-> "starting"]
  /\ stopping = [w \in Worker |-> FALSE]
  /\ consuming = [w \in Worker |-> FALSE]
  /\ inFlight = [w \in Worker |-> {}]
  /\ callback = [t \in Task |-> "none"]
  /\ owner = [t \in Task |-> NoWorker]
  /\ job = [t \in Task |-> NoJob]
  /\ live = [t \in Task |-> FALSE]
  /\ disconnects = 0
  /\ lost = {}
-----------------------------------------------------------------------------
Held(w) == {j \in Job : message[j] = w}

Unacknowledged(t) == live[t] /\ message[job[t]] = owner[t]

Enter(w, p) == phase' = [phase EXCEPT ![w] = p]

(* Mutant: what the worker leaves unacknowledged stays with it.             *)
KeepHeld(w) == UNCHANGED message /\ w \in Worker

(* The broker requeues what w has not acknowledged.                         *)
Requeue(w) == message' = [j \in Job |-> IF message[j] = w THEN "queued" ELSE message[j]]

(* The delivery tags of w's channel are void.                               *)
Void(w) == live' = [t \in Task |-> live[t] /\ owner[t] # w]

EndTask(t) ==
  /\ callback' = [callback EXCEPT ![t] = "none"]
  /\ owner' = [owner EXCEPT ![t] = NoWorker]
  /\ job' = [job EXCEPT ![t] = NoJob]
  /\ live' = [live EXCEPT ![t] = FALSE]

EndTasks(w) ==
  /\ callback' = [t \in Task |-> IF owner[t] = w THEN "none" ELSE callback[t]]
  /\ owner' = [t \in Task |-> IF owner[t] = w THEN NoWorker ELSE owner[t]]
  /\ job' = [t \in Task |-> IF owner[t] = w THEN NoJob ELSE job[t]]
  /\ Void(w)

(* connect_robust, channel, set_qos, declare_queue, consume.                *)
Consume(w) ==
  /\ phase[w] = "starting"
  /\ Enter(w, "consuming")
  /\ consuming' = [consuming EXCEPT ![w] = TRUE]
  /\ UNCHANGED <<message, stopping, inFlight, task, broken>>

(* prefetch_count=1: one unacknowledged message per consumer.  The client   *)
(* creates a task for the callback.                                         *)
Deliver(j, w, t) ==
  /\ message[j] = "queued"
  /\ consuming[w]
  /\ Held(w) = {}
  /\ callback[t] = "none"
  /\ message' = [message EXCEPT ![j] = w]
  /\ callback' = [callback EXCEPT ![t] = "created"]
  /\ owner' = [owner EXCEPT ![t] = w]
  /\ job' = [job EXCEPT ![t] = j]
  /\ live' = [live EXCEPT ![t] = TRUE]
  /\ UNCHANGED <<worker, inFlight, broken>>

(* Mutant: a callback that starts during the shutdown is let through.       *)
Always(w) == w # NoWorker

Accepts(w) == ~ stopping[w]

(* Mutant: the callback is not registered before it first awaits.           *)
ForgetRegister(t) == UNCHANGED inFlight /\ callback[t] = "created"

Register(t) == inFlight' = [inFlight EXCEPT ![owner[t]] = @ \cup {t}]

(* The task starts: no await between the check and the registration.        *)
Begin(t) ==
  /\ callback[t] = "created"
  /\ Accepts(owner[t])
  /\ Register(t)
  /\ callback' = [callback EXCEPT ![t] = "running"]
  /\ UNCHANGED <<message, worker, owner, job, live, broken>>

(* It starts during the shutdown: the message stays unacknowledged.         *)
Defer(t) ==
  /\ callback[t] = "created"
  /\ ~ Accepts(owner[t])
  /\ EndTask(t)
  /\ UNCHANGED <<message, worker, inFlight, broken>>

Discard(t) == inFlight' = [inFlight EXCEPT ![owner[t]] = @ \ {t}]

(* The callback settles its job for good, or requeues it (the ticket worker *)
(* that cannot publish); with a void tag the settlement raises.             *)
Finish(t) ==
  /\ callback[t] = "running"
  /\ Discard(t)
  /\ EndTask(t)
  /\ UNCHANGED <<worker, broken>>

Settle(t) ==
  /\ Finish(t)
  /\ IF Unacknowledged(t)
     THEN \E s \in {"done", "rejected"} : message' = [message EXCEPT ![job[t]] = s]
     ELSE UNCHANGED message

GiveBack(t) ==
  /\ Unacknowledged(t)
  /\ Finish(t)
  /\ message' = [message EXCEPT ![job[t]] = "queued"]
-----------------------------------------------------------------------------
(* SIGTERM or SIGINT sets stop_event; stop_event.wait returns.              *)
RequestStop(w) ==
  /\ phase[w] = "consuming"
  /\ Enter(w, "cancelling")
  /\ stopping' = [stopping EXCEPT ![w] = TRUE]
  /\ UNCHANGED <<message, consuming, inFlight, task, broken>>

(* queue.cancel returns: nothing is delivered after cancel-ok.              *)
CancelOk(w) ==
  /\ phase[w] = "cancelling"
  /\ Enter(w, "draining")
  /\ consuming' = [consuming EXCEPT ![w] = FALSE]
  /\ UNCHANGED <<message, stopping, inFlight, task, broken>>

(* queue.cancel raises; a reconnect may have restored the consumer.         *)
CancelFails(w) ==
  /\ phase[w] = "cancelling"
  /\ Enter(w, "draining")
  /\ UNCHANGED <<message, stopping, consuming, inFlight, task, broken>>

(* Mutant: the drain waits for the broker to have everything back.          *)
NothingHeld(w) == inFlight[w] = {} /\ Held(w) = {}

Drained(w) == inFlight[w] = {}

(* while in_flight: gather                                                  *)
Drain(w) ==
  /\ phase[w] = "draining"
  /\ Drained(w)
  /\ Enter(w, "closing")
  /\ UNCHANGED <<message, stopping, consuming, inFlight, task, broken>>

(* The connection is closed.                                                *)
Close(w) ==
  /\ phase[w] = "closing"
  /\ Enter(w, "closed")
  /\ consuming' = [consuming EXCEPT ![w] = FALSE]
  /\ Requeue(w)
  /\ Void(w)
  /\ UNCHANGED <<stopping, inFlight, callback, owner, job, broken>>

(* engine.dispose, and asyncio.run cancels the callbacks not yet started.   *)
Exit(w) ==
  /\ phase[w] = "closed"
  /\ Enter(w, "ended")
  /\ EndTasks(w)
  /\ UNCHANGED <<message, stopping, consuming, inFlight, broken>>

(* The process is killed, or the connection cannot be opened at all.        *)
Kill(w) ==
  /\ phase[w] # "ended"
  /\ Enter(w, "ended")
  /\ stopping' = [stopping EXCEPT ![w] = TRUE]
  /\ consuming' = [consuming EXCEPT ![w] = FALSE]
  /\ inFlight' = [inFlight EXCEPT ![w] = {}]
  /\ Requeue(w)
  /\ EndTasks(w)
  /\ UNCHANGED broken

(* The connection is lost, and restored with its consumer.                  *)
Disconnect(w) ==
  /\ disconnects < MaxDisconnects
  /\ disconnects' = disconnects + 1
  /\ phase[w] \in {"consuming", "cancelling", "draining"}
  /\ lost' = lost \cup Held(w)
  /\ Requeue(w)
  /\ Void(w)
  /\ UNCHANGED <<worker, inFlight, callback, owner, job>>

Next ==
  \/ \E j \in Job, w \in Worker, t \in Task : Deliver(j, w, t)
  \/ \E t \in Task : Begin(t) \/ Defer(t) \/ Settle(t) \/ GiveBack(t)
  \/ \E w \in Worker :
       \/ Consume(w) \/ RequestStop(w) \/ CancelOk(w) \/ CancelFails(w)
       \/ Drain(w) \/ Close(w) \/ Exit(w) \/ Kill(w) \/ Disconnect(w)

Spec == Init /\ [][Next]_vars

(* The event loop runs every task and the main coroutine, the broker hands  *)
(* out a queued job again and again, and a job is not given back for ever.  *)
Fairness ==
  /\ \A w \in Worker :
       WF_vars(Consume(w) \/ CancelOk(w) \/ CancelFails(w) \/ Drain(w) \/ Close(w) \/ Exit(w))
  /\ \A t \in Task : WF_vars(Begin(t) \/ Defer(t)) /\ WF_vars(Settle(t) \/ GiveBack(t))
  /\ \A j \in Job :
       /\ SF_vars(\E w \in Worker, t \in Task : Deliver(j, w, t))
       /\ SF_vars(\E t \in Task : job[t] = j /\ Settle(t))

FairSpec == Spec /\ Fairness
-----------------------------------------------------------------------------
(* The connection is closed and the engine disposed of only when no         *)
(* callback runs: none starts unseen by the drain, however the deliveries,  *)
(* the signal, cancel-ok and lost connections interleave.                   *)
HandlersAreDrained ==
  \A t \in Task : callback[t] = "running" => phase[owner[t]] \notin {"closing", "closed", "ended"}

(* Two callbacks work on one job only after a lost connection: a graceful   *)
(* stop, like a kill, hands over just the jobs nobody works on, which is    *)
(* what the exclusive runs of the job modules assume.                       *)
OneCallbackPerJob ==
  \A j \in Job \ lost : Cardinality({t \in Task : callback[t] = "running" /\ job[t] = j}) <= 1

(* The drain waits for the callbacks that run and for nothing else.         *)
InFlightRuns ==
  \A w \in Worker : inFlight[w] = {t \in Task : callback[t] = "running" /\ owner[t] = w}

(* The drain misses no callback and invents none.                           *)
DrainsAreExact == HandlersAreDrained /\ InFlightRuns

(* No callback joins a drain that is under way, whatever is still delivered *)
(* after a failed cancel or a lost connection: it only gets shorter.        *)
DrainsGetOn ==
  [][\A w \in Worker :
       phase[w] = "draining" /\ phase'[w] = "draining" => inFlight'[w] \subseteq inFlight[w]]_vars

(* A job that a worker has not acknowledged is in the hands of a callback   *)
(* that can settle it, or of a stopping worker whose connection is yet to   *)
(* be closed, which hands it back.                                          *)
NoJobIsStranded ==
  \A w \in Worker : \A j \in Held(w) :
    \/ phase[w] \in {"cancelling", "draining", "closing"}
    \/ /\ phase[w] = "consuming"
       /\ \E t \in Task : callback[t] # "none" /\ owner[t] = w /\ job[t] = j /\ live[t]

(* A worker told to stop does stop, though the job it deferred keeps its    *)
(* one prefetch slot until the connection is closed.                        *)
StopsEnd == \A w \in Worker : (phase[w] = "cancelling") ~> (phase[w] = "ended")

(* Every job is settled in the end, by whatever worker is left: no stop,    *)
(* kill or lost connection swallows it.                                     *)
JobsSettle ==
  \A j \in Job :
    (message[j] \notin {"done", "rejected"}) ~>
      (message[j] \in {"done", "rejected"} \/ \A w \in Worker : phase[w] = "ended")
=============================================================================
