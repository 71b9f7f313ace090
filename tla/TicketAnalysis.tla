---------------------------- MODULE TicketAnalysis ----------------------------
(***************************************************************************)
(* Creation and AI analysis of support tickets: TicketService.create in    *)
(* the API, the durable ticket.analysis queue, the ticket worker's         *)
(* RabbitMQTicketAnalysisConsumer and TicketAnalysisJobHandler, and the    *)
(* Kafka topics ticket.created and analysis.completed.                     *)
(*                                                                         *)
(* As in DocumentIngestion a task is one execution of process_message and  *)
(* may outlive its delivery, every awaited statement or commit is a step,  *)
(* and a commit or publish is applied, refused, or applied with its reply  *)
(* lost.                                                                   *)
(***************************************************************************)
EXTENDS Naturals

CONSTANTS
  Ticket,      \* tickets clients create
  Malformed,   \* queued jobs whose body is not {"ticket_id": "<uuid>"}
  Task,        \* concurrent executions of process_message
  MaxAttempts, \* _MAX_HANDLER_ATTEMPTS, of the handler and of the publish
  Limit        \* how often each interruption may happen

Job == Ticket \cup Malformed

Interruption == {"crash", "disconnect", "replay"}

ASSUME JobAssumption == Ticket \cap Malformed = {}

ASSUME AttemptAssumption == MaxAttempts \in Nat \ {0}

ASSUME LimitAssumption == Limit \in [Interruption -> Nat]

VARIABLES
  request,  \* request[k]: progress of the request that creates ticket k
  row,      \* row[k]: the tickets row
  created,  \* tickets with a record in topic ticket.created
  drawn,    \* drawn[k]: analyses of k inserted so far, committed or not
  analyses, \* analyses[k]: committed ticket_ai_analysis rows, oldest lowest
  events,   \* events[k]: analyses of k with a record in analysis.completed
  message,  \* message[j]: where the broker keeps the job
  pc,       \* pc[t]: the next thing task t does
  job,      \* job[t]: the delivered job, NoJob when idle
  live,     \* live[t]: the channel of the delivery is still open
  attempt,  \* attempt[t]: loop counter of process_message
  analysis, \* analysis[t]: the analysis in hand, 0 for none
  spent     \* spent[i]: interruptions so far

store == <<row, drawn, analyses>>
task == <<pc, job, live, attempt, analysis>>
vars == <<request, store, created, events, message, task, spent>>

NoJob == "no job"

Request == {"new", "committed", "announced", "queued", "accepted", "failed"}
Stage == {"none", "ready", "out", "dead", "done"}
Control ==
  {"idle", "load", "find", "analyze", "commit", "publish", "ack", "reject", "requeue"}

TypeOK ==
  /\ request \in [Ticket -> Request]
  /\ row \in [Ticket -> {"absent", "present", "deleted"}]
  /\ created \in SUBSET Ticket
  /\ drawn \in [Ticket -> Nat]
  /\ analyses \in [Ticket -> SUBSET Nat]
  /\ events \in [Ticket -> SUBSET Nat]
  /\ message \in [Job -> Stage]
  /\ pc \in [Task -> Control]
  /\ job \in [Task -> Job \cup {NoJob}]
  /\ live \in [Task -> BOOLEAN]
  /\ attempt \in [Task -> 1 .. MaxAttempts]
  /\ analysis \in [Task -> Nat]
  /\ spent \in [Interruption -> Nat]

Init ==
  /\ request = [k \in Ticket |-> "new"]
  /\ row = [k \in Ticket |-> "absent"]
  /\ created = {}
  /\ drawn = [k \in Ticket |-> 0]
  /\ analyses = [k \in Ticket |-> {}]
  /\ events = [k \in Ticket |-> {}]
  /\ message = [j \in Job |-> IF j \in Ticket THEN "none" ELSE "ready"]
  /\ pc = [t \in Task |-> "idle"]
  /\ job = [t \in Task |-> NoJob]
  /\ live = [t \in Task |-> FALSE]
  /\ attempt = [t \in Task |-> 1]
  /\ analysis = [t \in Task |-> 0]
  /\ spent = [i \in Interruption |-> 0]
-----------------------------------------------------------------------------
(* TicketService.create, one request per ticket; any failure ends it.      *)

SetRequest(k, from, to) ==
  /\ request[k] = from
  /\ request' = [request EXCEPT ![k] = to]
  /\ UNCHANGED <<task, spent>>

InsertTicket(k) ==
  /\ row' = [row EXCEPT ![k] = "present"]
  /\ UNCHANGED <<drawn, analyses>>

CommitTicket(k) ==
  /\ \/ SetRequest(k, "new", "committed") /\ InsertTicket(k)
     \/ SetRequest(k, "new", "failed") /\ InsertTicket(k)
     \/ SetRequest(k, "new", "failed") /\ UNCHANGED store
  /\ UNCHANGED <<created, events, message>>

Enqueue(k) == message' = [message EXCEPT ![k] = "ready"]

(* Mutant: the job is queued before ticket.created is published.            *)
QueueFirst(k) ==
  /\ SetRequest(k, "committed", "announced")
  /\ Enqueue(k)
  /\ UNCHANGED <<store, created, events>>

(* KafkaTicketCreatedPublisher, before the job is queued.                   *)
AnnounceTicket(k) ==
  /\ \/ SetRequest(k, "committed", "announced") /\ created' = created \cup {k}
     \/ SetRequest(k, "committed", "failed") /\ created' = created \cup {k}
     \/ SetRequest(k, "committed", "failed") /\ UNCHANGED created
  /\ UNCHANGED <<store, events, message>>

QueueAnalysis(k) ==
  /\ \/ SetRequest(k, "announced", "queued") /\ Enqueue(k)
     \/ SetRequest(k, "announced", "failed") /\ Enqueue(k)
     \/ SetRequest(k, "announced", "failed") /\ UNCHANGED message
  /\ UNCHANGED <<store, created, events>>

(* refresh fails when the ticket has been deleted meanwhile.                *)
ReplyTicket(k) ==
  /\ \/ SetRequest(k, "queued", "accepted") /\ row[k] = "present"
     \/ SetRequest(k, "queued", "failed")
  /\ UNCHANGED <<store, created, events, message>>

(* TicketService.delete; an inserted analysis keeps its ticket's row locked *)
(* by the foreign key until its transaction ends.                           *)
DeleteTicket(k) ==
  /\ row[k] = "present"
  /\ \A t \in Task : job[t] = k => pc[t] # "commit"
  /\ row' = [row EXCEPT ![k] = "deleted"]
  /\ analyses' = [analyses EXCEPT ![k] = {}]
  /\ UNCHANGED <<request, created, drawn, events, message, task, spent>>
-----------------------------------------------------------------------------
(* The broker.                                                             *)

Goto(t, label) == pc' = [pc EXCEPT ![t] = label]

Release(t) ==
  /\ Goto(t, "idle")
  /\ job' = [job EXCEPT ![t] = NoJob]
  /\ live' = [live EXCEPT ![t] = FALSE]
  /\ attempt' = [attempt EXCEPT ![t] = 1]
  /\ analysis' = [analysis EXCEPT ![t] = 0]

(* Mutant: the broker honours the settlement of a stale delivery.           *)
SettledThoughStale(t, stage) ==
  IF pc[t] = "idle" THEN message ELSE [message EXCEPT ![job[t]] = stage]

(* Mutant: the delivery of a task that ends is never settled.               *)
LeftUnsettled(t, stage) == IF t \in Task THEN message ELSE [message EXCEPT ![job[t]] = stage]

Settled(t, stage) ==
  IF live[t] THEN [message EXCEPT ![job[t]] = stage] ELSE message

Deliver(t, j) ==
  /\ pc[t] = "idle"
  /\ message[j] = "ready"
  /\ message' = [message EXCEPT ![j] = "out"]
  /\ Goto(t, IF j \in Malformed THEN "reject" ELSE "load")
  /\ job' = [job EXCEPT ![t] = j]
  /\ live' = [live EXCEPT ![t] = TRUE]
  /\ UNCHANGED <<request, store, created, events, attempt, analysis, spent>>

Verdict(t) ==
  CASE pc[t] = "ack" -> "done" [] pc[t] = "reject" -> "dead" [] pc[t] = "requeue" -> "ready"

(* ack, reject(requeue=False) or nack(requeue=True); a stale delivery makes *)
(* each of them raise, which ends the task and moves nothing.               *)
Settle(t) ==
  /\ pc[t] \in {"ack", "reject", "requeue"}
  /\ message' = Settled(t, Verdict(t))
  /\ Release(t)
  /\ UNCHANGED <<request, store, created, events, spent>>
-----------------------------------------------------------------------------
(* The handler loop of process_message.                                    *)

Working(t) == UNCHANGED <<request, created, message, job, live, spent>>

Handling(t) == Working(t) /\ UNCHANGED events

(* Mutant: a retry is not counted.                                          *)
RetryUncounted(t, transient) ==
  /\ Goto(t, IF transient THEN "load" ELSE "reject")
  /\ UNCHANGED attempt
  /\ analysis' = [analysis EXCEPT ![t] = 0]

(* A transient failure, of the database or of the LLM, is retried after a   *)
(* sleep; a permanent one, or one too many, is rejected.                    *)
HandlerRaises(t, transient) ==
  /\ IF transient /\ attempt[t] < MaxAttempts
     THEN attempt' = [attempt EXCEPT ![t] = @ + 1] /\ Goto(t, "load")
     ELSE Goto(t, "reject") /\ UNCHANGED attempt
  /\ analysis' = [analysis EXCEPT ![t] = 0]

HandlerFails(t) == (\E transient \in BOOLEAN : HandlerRaises(t, transient)) /\ UNCHANGED store

(* The handler returned analysis n: on to the publish loop.                 *)
Return(t, n) ==
  /\ Goto(t, "publish")
  /\ analysis' = [analysis EXCEPT ![t] = n]
  /\ attempt' = [attempt EXCEPT ![t] = 1]

Continue(t, label) == Goto(t, label) /\ UNCHANGED <<attempt, analysis, store>>

LoadTicket(t) ==
  /\ pc[t] = "load"
  /\ \/ Continue(t, IF row[job[t]] = "present" THEN "find" ELSE "reject")
     \/ HandlerFails(t)
  /\ Handling(t)

(* Mutant: only the first attempt looks for an analysis.                    *)
FindOnFirstAttempt(t) ==
  /\ pc[t] = "find"
  /\ \/ /\ attempt[t] = 1
        /\ \E n \in analyses[job[t]] : Return(t, n)
        /\ UNCHANGED store
     \/ /\ attempt[t] > 1 \/ analyses[job[t]] = {}
        /\ Continue(t, "analyze")
     \/ HandlerFails(t)
  /\ Handling(t)

(* get_by_ticket_id returns the latest analysis.                            *)
FindAnalysis(t) ==
  LET found == analyses[job[t]] IN
  /\ pc[t] = "find"
  /\ \/ /\ \E n \in found : (\A m \in found : m <= n) /\ Return(t, n)
        /\ UNCHANGED store
     \/ found = {} /\ Continue(t, "analyze")
     \/ HandlerFails(t)
  /\ Handling(t)

(* The LLM call, which touches nothing shared, and the insert.  The foreign *)
(* key refuses the insert when the ticket is gone.                          *)
InsertAnalysis(t) ==
  LET k == job[t] IN
  /\ pc[t] = "analyze"
  /\ \/ /\ row[k] = "present"
        /\ drawn' = [drawn EXCEPT ![k] = @ + 1]
        /\ analysis' = [analysis EXCEPT ![t] = drawn[k] + 1]
        /\ Goto(t, "commit")
        /\ UNCHANGED <<attempt, row, analyses>>
     \/ HandlerFails(t)
  /\ Handling(t)

StoreAnalysis(t) ==
  /\ analyses' = [analyses EXCEPT ![job[t]] = @ \cup {analysis[t]}]
  /\ UNCHANGED <<row, drawn>>

(* Mutant: the handler returns without a commit.                            *)
ReturnUncommitted(t) ==
  /\ pc[t] = "commit"
  /\ Return(t, analysis[t])
  /\ UNCHANGED store
  /\ Handling(t)

CommitAnalysis(t) ==
  /\ pc[t] = "commit"
  /\ \/ StoreAnalysis(t) /\ Return(t, analysis[t])
     \/ StoreAnalysis(t) /\ HandlerRaises(t, TRUE)
     \/ HandlerFails(t)
  /\ Handling(t)
-----------------------------------------------------------------------------
(* The publish loop of process_message.                                    *)

Record(t) == events' = [events EXCEPT ![job[t]] = @ \cup {analysis[t]}]

PublishRaises(t) ==
  IF attempt[t] < MaxAttempts
  THEN attempt' = [attempt EXCEPT ![t] = @ + 1] /\ UNCHANGED pc
  ELSE Goto(t, "requeue") /\ UNCHANGED attempt

PublishConfirmed(t) ==
  /\ pc[t] = "publish"
  /\ Record(t)
  /\ Goto(t, "ack")
  /\ UNCHANGED <<attempt, analysis, store>>
  /\ Working(t)

PublishFails(t) ==
  /\ pc[t] = "publish"
  /\ Record(t) \/ UNCHANGED events
  /\ PublishRaises(t)
  /\ UNCHANGED <<analysis, store>>
  /\ Working(t)
-----------------------------------------------------------------------------
(* Interruptions, each at most Limit[i] times.                             *)

Interrupt(i) ==
  /\ spent[i] < Limit[i]
  /\ spent' = [spent EXCEPT ![i] = @ + 1]

(* The worker process dies: its task is gone and an open delivery requeued. *)
Crash(t) ==
  /\ Interrupt("crash")
  /\ pc[t] # "idle"
  /\ message' = Settled(t, "ready")
  /\ Release(t)
  /\ UNCHANGED <<request, store, created, events>>

(* The channel closes under a running task.                                 *)
Disconnect(t) ==
  /\ Interrupt("disconnect")
  /\ live[t]
  /\ message' = Settled(t, "ready")
  /\ live' = [live EXCEPT ![t] = FALSE]
  /\ UNCHANGED <<request, store, created, events, pc, job, attempt, analysis>>

(* An operator moves a job from ticket.analysis.failed back.                *)
Replay(j) ==
  /\ Interrupt("replay")
  /\ message[j] = "dead"
  /\ message' = [message EXCEPT ![j] = "ready"]
  /\ UNCHANGED <<request, store, created, events, task>>

(* The API process dies inside a request.                                   *)
ApiCrash(k) ==
  /\ request[k] \in {"committed", "announced", "queued"}
  /\ request' = [request EXCEPT ![k] = "failed"]
  /\ UNCHANGED <<store, created, events, message, task, spent>>
-----------------------------------------------------------------------------
CreateTicket(k) ==
  CommitTicket(k) \/ AnnounceTicket(k) \/ QueueAnalysis(k) \/ ReplyTicket(k)

Handle(t) ==
  LoadTicket(t) \/ FindAnalysis(t) \/ InsertAnalysis(t) \/ CommitAnalysis(t)

Publish(t) == PublishConfirmed(t) \/ PublishFails(t)

Next ==
  \/ \E k \in Ticket : CreateTicket(k) \/ DeleteTicket(k) \/ ApiCrash(k)
  \/ \E t \in Task, j \in Job : Deliver(t, j)
  \/ \E t \in Task : Handle(t) \/ Publish(t) \/ Settle(t) \/ Crash(t) \/ Disconnect(t)
  \/ \E j \in Job : Replay(j)

Spec == Init /\ [][Next]_vars

(* The event loop keeps running each task, the broker keeps delivering, and *)
(* Kafka does not refuse every publish for ever: a job whose publish always *)
(* fails is requeued without end.                                           *)
Fairness ==
  /\ \A t \in Task : WF_vars(Handle(t) \/ Publish(t) \/ Settle(t))
  /\ \A t \in Task : SF_vars(PublishConfirmed(t))
  /\ \A j \in Job : WF_vars(\E t \in Task : Deliver(t, j))

FairSpec == Spec /\ Fairness
-----------------------------------------------------------------------------
(* What holds however deliveries overlap.                                  *)

(* A job is acknowledged only once analysis.completed has a record for its  *)
(* ticket, whatever was retried, requeued or redelivered.                   *)
AcknowledgedIsAnnounced ==
  \A k \in Ticket : message[k] = "done" => events[k] # {}

(* An event names an analysis that has been committed to storage            *)
(* (AnalysisCompleted): while the ticket exists, so does the analysis.      *)
EventsAreCommitted ==
  \A k \in Ticket : row[k] = "present" => events[k] \subseteq analyses[k]

(* No consumer can see analysis.completed before ticket.created of the same *)
(* ticket was published (TicketService.create publishes it first).          *)
CreatedBeforeCompleted ==
  \A k \in Ticket : events[k] # {} => k \in created

(* What a consumer concludes from analysis.completed is true: the ticket    *)
(* was announced, and the analysis is there to be read.                     *)
EventsAreTrue == EventsAreCommitted /\ CreatedBeforeCompleted

(* A job that has left the queue unacknowledged is in the hands of a task   *)
(* that can still settle it, so that none waits out of everybody's reach.   *)
OutIsHeld ==
  \A j \in Job : message[j] = "out" => \E t \in Task : live[t] /\ job[t] = j

(* Every job reaching the worker is acknowledged or dead-lettered in the    *)
(* end.                                                                     *)
JobsSettle ==
  \A j \in Job : message[j] = "ready" ~> message[j] \in {"done", "dead"}

(* How many more steps an execution of process_message can take: four for   *)
(* every handler attempt it has left, one for every attempt to publish, and *)
(* the settlement.                                                          *)
Remaining(t) ==
  CASE pc[t] = "load"    -> 4 * (MaxAttempts - attempt[t]) + MaxAttempts + 5
    [] pc[t] = "find"    -> 4 * (MaxAttempts - attempt[t]) + MaxAttempts + 4
    [] pc[t] = "analyze" -> 4 * (MaxAttempts - attempt[t]) + MaxAttempts + 3
    [] pc[t] = "commit"  -> 4 * (MaxAttempts - attempt[t]) + MaxAttempts + 2
    [] pc[t] = "publish" -> MaxAttempts - attempt[t] + 2
    [] pc[t] \in {"ack", "reject", "requeue"} -> 1
    [] pc[t] = "idle"    -> 0

(* Every step a task takes brings its delivery nearer to its settlement,    *)
(* and no other task, request or interruption takes it back: the handler's  *)
(* and the publisher's retry loops of process_message both run out.  What   *)
(* may go on for ever is the broker's requeue.                              *)
DeliveriesRunOut ==
  [][\A t \in Task :
       /\ Handle(t) \/ Publish(t) \/ Settle(t) => Remaining(t)' < Remaining(t)
       /\ pc[t] # "idle" => Remaining(t)' <= Remaining(t)]_vars

(* Broker, handler and Kafka together implement an at-least-once job whose  *)
(* effect is the published event.                                           *)
Stages ==
  [j \in Job |-> IF message[j] \in {"ready", "out"} THEN "pending" ELSE message[j]]

AtLeastOnce == INSTANCE AtLeastOnceJob
                 WITH stage <- Stages, effective <- {k \in Ticket : events[k] # {}}

ImplementsAtLeastOnceJob == AtLeastOnce!Spec
-----------------------------------------------------------------------------
(* What needs deliveries of one ticket never to overlap: as long as no      *)
(* channel was lost.  Crashes, replays and lost replies are allowed.        *)
Exclusive == spent.disconnect = 0

(* All events of a ticket carry the same analysis id, so that consumers can *)
(* deduplicate by it ("return its stable identity on redelivery").          *)
StableIdentity ==
  Exclusive => \A k \in Ticket : \A m, n \in events[k] : m = n

(* The analysis a client has read is never replaced by another.             *)
AnalysisIsFinal ==
  [][Exclusive' =>
       \A k \in Ticket :
         analyses[k] # {} /\ row'[k] = "present" => analyses'[k] = analyses[k]]_vars

(* A committed analysis is announced: once the job has left the worker, so  *)
(* that nothing else is on its way, its event is in the topic.              *)
CommittedIsAnnounced ==
  \A k \in Ticket :
    /\ message[k] \in {"dead", "done"}
    /\ \A t \in Task : job[t] # k
    /\ analyses[k] # {}
    => events[k] # {}
=============================================================================
