-------------------------- MODULE DocumentIngestion --------------------------
(***************************************************************************)
(* Upload and ingestion of policy documents: DocumentService.upload in the *)
(* API, the durable document.ingestion queue, the worker's                 *)
(* RabbitMQDocumentIngestionConsumer and its DocumentIngestionJobHandler,  *)
(* over one PostgreSQL row per document.                                   *)
(*                                                                         *)
(* A task is one execution of process_message.  It outlives the connection *)
(* its delivery came over: after a disconnect the broker hands the message *)
(* to another task while the first one runs on, its delivery stale.        *)
(*                                                                         *)
(* Each statement or commit a task awaits is one step.  A commit has three *)
(* outcomes: applied, not applied and reported as an error, or applied     *)
(* with the reply lost, which the code also sees as an error.              *)
(***************************************************************************)
EXTENDS Naturals

CONSTANTS
  Doc,         \* documents clients upload
  Unknown,     \* document ids named by queued jobs that have no row
  Malformed,   \* queued jobs whose body is not {"document_id": "<uuid>"}
  Task,        \* concurrent executions of process_message
  MaxAttempts, \* _MAX_HANDLER_ATTEMPTS
  Limit        \* how often each interruption may happen

Job == Doc \cup Unknown \cup Malformed

Interruption == {"crash", "disconnect", "replay", "apiCrash"}

ASSUME JobAssumption ==
  /\ Doc \cap Unknown = {}
  /\ Doc \cap Malformed = {}
  /\ Unknown \cap Malformed = {}

ASSUME AttemptAssumption == MaxAttempts \in Nat \ {0}

ASSUME LimitAssumption == Limit \in [Interruption -> Nat]

VARIABLES
  upload,   \* upload[d]: progress of the request that uploads d
  file,     \* documents whose file is in storage
  status,   \* status[j]: documents.status, "absent" without a row
  reason,   \* reason[j]: documents.failure_reason
  copies,   \* copies[j]: committed bulk inserts of the chunks of j
  message,  \* message[j]: where the broker keeps the job
  pc,       \* pc[t]: the next thing task t does
  job,      \* job[t]: the delivered job, NoJob when idle
  live,     \* live[t]: the channel of the delivery is still open
  attempt,  \* attempt[t]: loop counter of process_message
  loaded,   \* loaded[t]: the row as the task's session last loaded or wrote it
  error,    \* error[t]: what the handler raised last
  spent     \* spent[i]: interruptions so far

row == <<status, reason, copies>>
task == <<pc, job, live, attempt, loaded, error>>
vars == <<upload, file, row, message, task, spent>>

NoJob == "no job"
NoReason == "null"
NoError == "none"
Error == {"retryable", "permanent"}       \* _is_retryable_error, true or false
Status == {"pending", "processing", "completed", "failed"}
Row == [status : Status \cup {"absent"}, reason : Error \cup {NoReason}]
NoRow == [status |-> "absent", reason |-> NoReason]

Upload == {"new", "saved", "created", "accepted", "unqueued", "rejected"}
Stage == {"none", "ready", "out", "dead", "done"}
Control ==
  {"idle", "load", "check", "repair", "begin", "extract", "store", "finish",
   "failLoad", "failCheck", "reconcile", "recordFailure", "ack", "reject"}

TypeOK ==
  /\ upload \in [Doc -> Upload]
  /\ file \in SUBSET Doc
  /\ status \in [Job -> Status \cup {"absent"}]
  /\ reason \in [Job -> Error \cup {NoReason}]
  /\ copies \in [Job -> Nat]
  /\ message \in [Job -> Stage]
  /\ pc \in [Task -> Control]
  /\ job \in [Task -> Job \cup {NoJob}]
  /\ live \in [Task -> BOOLEAN]
  /\ attempt \in [Task -> 1 .. MaxAttempts]
  /\ loaded \in [Task -> Row]
  /\ error \in [Task -> Error \cup {NoError}]
  /\ spent \in [Interruption -> Nat]

Init ==
  /\ upload = [d \in Doc |-> "new"]
  /\ file = {}
  /\ status = [j \in Job |-> "absent"]
  /\ reason = [j \in Job |-> NoReason]
  /\ copies = [j \in Job |-> 0]
  /\ message = [j \in Job |-> IF j \in Doc THEN "none" ELSE "ready"]
  /\ pc = [t \in Task |-> "idle"]
  /\ job = [t \in Task |-> NoJob]
  /\ live = [t \in Task |-> FALSE]
  /\ attempt = [t \in Task |-> 1]
  /\ loaded = [t \in Task |-> NoRow]
  /\ error = [t \in Task |-> NoError]
  /\ spent = [i \in Interruption |-> 0]
-----------------------------------------------------------------------------
(* DocumentService.upload, one request per document.                       *)

SetUpload(d, from, to) ==
  /\ upload[d] = from
  /\ upload' = [upload EXCEPT ![d] = to]
  /\ UNCHANGED <<task, spent>>

(* Validation and LocalDocumentStorage.save: a stream that fails validation *)
(* midway is unlinked again, so a rejected request leaves no file.          *)
SaveFile(d) ==
  /\ \/ SetUpload(d, "new", "saved") /\ file' = file \cup {d}
     \/ SetUpload(d, "new", "rejected") /\ file' = file
  /\ UNCHANGED <<row, message>>

InsertDocument(d) ==
  /\ status' = [status EXCEPT ![d] = "pending"]
  /\ UNCHANGED <<reason, copies>>

(* repository.create and the commit.  Any exception deletes the file, also  *)
(* when the commit was applied and only its reply was lost.                 *)
CreateDocument(d) ==
  /\ \/ SetUpload(d, "saved", "created") /\ InsertDocument(d) /\ file' = file
     \/ SetUpload(d, "saved", "rejected") /\ InsertDocument(d) /\ file' = file \ {d}
     \/ SetUpload(d, "saved", "rejected") /\ UNCHANGED row /\ file' = file \ {d}
  /\ UNCHANGED message

Enqueue(d) == message' = [message EXCEPT ![d] = "ready"]

(* Mutant: the job is published before its row is committed.                *)
PublishBeforeCommit(d) ==
  /\ SetUpload(d, "saved", "created")
  /\ Enqueue(d)
  /\ UNCHANGED <<file, row>>

(* refresh and the confirmed publish.  An exception of either fails the     *)
(* request and leaves the row; a lost confirm leaves the job as well.       *)
PublishJob(d) ==
  /\ \/ SetUpload(d, "created", "accepted") /\ Enqueue(d)
     \/ SetUpload(d, "created", "unqueued") /\ Enqueue(d)
     \/ SetUpload(d, "created", "unqueued") /\ UNCHANGED message
  /\ UNCHANGED <<file, row>>
-----------------------------------------------------------------------------
(* The broker: delivery, settlement, requeue and dead-lettering.           *)

Goto(t, label) == pc' = [pc EXCEPT ![t] = label]

Release(t) ==
  /\ Goto(t, "idle")
  /\ job' = [job EXCEPT ![t] = NoJob]
  /\ live' = [live EXCEPT ![t] = FALSE]
  /\ attempt' = [attempt EXCEPT ![t] = 1]
  /\ loaded' = [loaded EXCEPT ![t] = NoRow]
  /\ error' = [error EXCEPT ![t] = NoError]

(* Mutant: the broker honours the settlement of a stale delivery.           *)
SettledThoughStale(t, stage) ==
  IF pc[t] = "idle" THEN message ELSE [message EXCEPT ![job[t]] = stage]

(* Mutant: the delivery of a task that ends is never settled.               *)
LeftUnsettled(t, stage) == IF t \in Task THEN message ELSE [message EXCEPT ![job[t]] = stage]

Settled(t, stage) ==
  IF live[t] THEN [message EXCEPT ![job[t]] = stage] ELSE message

Deliver(t, j) ==
  /\ pc[t] = "idle"
  /\ message[j] = "ready"
  /\ message' = [message EXCEPT ![j] = "out"]
  /\ Goto(t, IF j \in Malformed THEN "reject" ELSE "load")
  /\ job' = [job EXCEPT ![t] = j]
  /\ live' = [live EXCEPT ![t] = TRUE]
  /\ UNCHANGED <<upload, file, row, attempt, loaded, error, spent>>

(* message.ack() and message.reject(requeue=False): on a stale delivery     *)
(* they raise, which ends the task and moves nothing at the broker.         *)
Ack(t) ==
  /\ pc[t] = "ack"
  /\ message' = Settled(t, "done")
  /\ Release(t)
  /\ UNCHANGED <<upload, file, row, spent>>

Reject(t) ==
  /\ pc[t] = "reject"
  /\ message' = Settled(t, "dead")
  /\ Release(t)
  /\ UNCHANGED <<upload, file, row, spent>>
-----------------------------------------------------------------------------
(* The row as one job session sees it.                                     *)

Columns(j) == [status |-> status[j], reason |-> reason[j]]

HasChunks(j) == copies[j] > 0

(* Mutant: a failure reason is set but never cleared.                       *)
UpdateKeepingReason(j, from, to) ==
  /\ status' = [status EXCEPT ![j] = to.status]
  /\ reason' = IF to.reason = NoReason THEN reason
                                       ELSE [reason EXCEPT ![j] = to.reason]

(* The unit of work writes a column only where the value differs from the   *)
(* one the session loaded, so a column changed meanwhile by another session *)
(* survives a write that sets this session's column to what it already had. *)
Update(j, from, to) ==
  /\ status' = IF to.status = from.status THEN status
                                          ELSE [status EXCEPT ![j] = to.status]
  /\ reason' = IF to.reason = from.reason THEN reason
                                          ELSE [reason EXCEPT ![j] = to.reason]

Completed == [status |-> "completed", reason |-> NoReason]
(* Mutant: the row is completed before the slow work instead of after it.   *)
CompletedUpFront == Completed

Processing == [status |-> "processing", reason |-> NoReason]
Failed(e) == [status |-> "failed", reason |-> e]

Load(t) == loaded' = [loaded EXCEPT ![t] = Columns(job[t])]

Working(t) == UNCHANGED <<upload, file, message, job, live, spent>>

Proceed(t, label) == Goto(t, label) /\ UNCHANGED <<attempt, error>>

(* Mutant: a retry is not counted.                                          *)
RetryUncounted(t, e) ==
  /\ error' = [error EXCEPT ![t] = e]
  /\ loaded' = [loaded EXCEPT ![t] = NoRow]
  /\ Goto(t, IF e = "retryable" THEN "load" ELSE "failLoad")
  /\ UNCHANGED attempt

(* The except branch of process_message around handle: sleep and try again, *)
(* or give the document up.                                                 *)
HandlerRaises(t, e) ==
  /\ error' = [error EXCEPT ![t] = e]
  /\ loaded' = [loaded EXCEPT ![t] = NoRow]
  /\ IF e = "retryable" /\ attempt[t] < MaxAttempts
     THEN attempt' = [attempt EXCEPT ![t] = @ + 1] /\ Goto(t, "load")
     ELSE Goto(t, "failLoad") /\ UNCHANGED attempt

HandlerFails(t) == (\E e \in Error : HandlerRaises(t, e)) /\ UNCHANGED row

(* A commit of the handler that moves the row from loaded[t] to "to".       *)
HandlerCommits(t, to, label) ==
  \/ /\ Update(job[t], loaded[t], to)
     /\ loaded' = [loaded EXCEPT ![t] = to]
     /\ Proceed(t, label)
     /\ UNCHANGED copies
  \/ /\ Update(job[t], loaded[t], to)
     /\ HandlerRaises(t, "retryable")
     /\ UNCHANGED copies
  \/ HandlerFails(t)
-----------------------------------------------------------------------------
(* DocumentIngestionJobHandler.handle                                      *)

LoadDocument(t) ==
  /\ pc[t] = "load"
  /\ \/ Load(t) /\ UNCHANGED row
        /\ Proceed(t, IF status[job[t]] = "absent" THEN "reject" ELSE "check")
     \/ HandlerFails(t)
  /\ Working(t)

(* Mutant: a redelivered document is ingested without looking for chunks.   *)
IngestWithoutCheck(t) ==
  /\ pc[t] = "check"
  /\ Proceed(t, "begin")
  /\ UNCHANGED <<row, loaded>>
  /\ Working(t)

CheckChunks(t) ==
  /\ pc[t] = "check"
  /\ \/ /\ Proceed(t, IF ~ HasChunks(job[t]) THEN "begin"
                      ELSE IF loaded[t] = Completed THEN "ack" ELSE "repair")
        /\ UNCHANGED <<row, loaded>>
     \/ HandlerFails(t)
  /\ Working(t)

RepairStatus(t) ==
  pc[t] = "repair" /\ HandlerCommits(t, Completed, "ack") /\ Working(t)

BeginProcessing(t) ==
  pc[t] = "begin" /\ HandlerCommits(t, Processing, "extract") /\ Working(t)

(* Open, parse, chunk and embed: every failure here is an error of the      *)
(* handler, a missing file among them.                                      *)
ExtractChunks(t) ==
  /\ pc[t] = "extract"
  /\ \/ /\ job[t] \in file
        /\ Proceed(t, "store")
        /\ UNCHANGED <<row, loaded>>
     \/ HandlerFails(t)
  /\ Working(t)

(* Mutant: the table has no unique constraint.                              *)
AlwaysInsertable(j) == copies[j] < 2

(* bulk_create and its commit.  The constraint on (document_id,             *)
(* chunk_index) lets the insert through only where no chunks are committed; *)
(* the IntegrityError it raises otherwise is not retryable.                 *)
ChunksInsertable(j) == copies[j] = 0

InsertChunks(j) ==
  /\ ChunksInsertable(j)
  /\ copies' = [copies EXCEPT ![j] = @ + 1]
  /\ UNCHANGED <<status, reason>>

StoreChunks(t) ==
  /\ pc[t] = "store"
  /\ \/ InsertChunks(job[t]) /\ Proceed(t, "finish") /\ UNCHANGED loaded
     \/ InsertChunks(job[t]) /\ HandlerRaises(t, "retryable")
     \/ HandlerFails(t)
  /\ Working(t)

(* Mutant: the final commit is forgotten.                                   *)
FinishUncommitted(t) ==
  /\ pc[t] = "finish"
  /\ Proceed(t, "ack")
  /\ UNCHANGED <<row, loaded>>
  /\ Working(t)

FinishDocument(t) ==
  pc[t] = "finish" /\ HandlerCommits(t, Completed, "ack") /\ Working(t)
-----------------------------------------------------------------------------
(* mark_failed: any exception of it is logged and the delivery rejected.   *)

MarkFailedRaises(t) == Proceed(t, "reject") /\ UNCHANGED <<row, loaded>>

ReloadDocument(t) ==
  /\ pc[t] = "failLoad"
  /\ \/ /\ status[job[t]] # "absent"
        /\ Load(t)
        /\ Proceed(t, "failCheck")
        /\ UNCHANGED row
     \/ MarkFailedRaises(t)
  /\ Working(t)

(* Mutant: mark_failed does not look for chunks.                            *)
FailWithoutRecheck(t) ==
  /\ pc[t] = "failCheck"
  /\ Proceed(t, "recordFailure")
  /\ UNCHANGED <<row, loaded>>
  /\ Working(t)

RecheckChunks(t) ==
  /\ pc[t] = "failCheck"
  /\ \/ /\ Proceed(t, IF HasChunks(job[t]) THEN "reconcile" ELSE "recordFailure")
        /\ UNCHANGED <<row, loaded>>
     \/ MarkFailedRaises(t)
  /\ Working(t)

(* The returned status is what mark_failed itself wrote: completed makes    *)
(* the consumer acknowledge, anything else makes it reject.                 *)
MarkFailedCommits(t, to, label) ==
  \/ /\ Update(job[t], loaded[t], to)
     /\ \E next \in {label, "reject"} : Proceed(t, next)
     /\ UNCHANGED <<copies, loaded>>
  \/ MarkFailedRaises(t)

Reconcile(t) ==
  /\ pc[t] = "reconcile"
  /\ MarkFailedCommits(t, Completed, "ack")
  /\ Working(t)

RecordFailure(t) ==
  /\ pc[t] = "recordFailure"
  /\ MarkFailedCommits(t, Failed(error[t]), "reject")
  /\ Working(t)
-----------------------------------------------------------------------------
(* Interruptions, each at most Limit[i] times.                             *)

Interrupt(i) ==
  /\ spent[i] < Limit[i]
  /\ spent' = [spent EXCEPT ![i] = @ + 1]

(* The worker process dies: its task is gone and an open delivery requeued. *)
Crash(t) ==
  /\ Interrupt("crash")
  /\ pc[t] # "idle"
  /\ message' = Settled(t, "ready")
  /\ Release(t)
  /\ UNCHANGED <<upload, file, row>>

(* The channel closes under a running task: the broker requeues the         *)
(* delivery, the task notices nothing until it settles.                     *)
Disconnect(t) ==
  /\ Interrupt("disconnect")
  /\ live[t]
  /\ message' = Settled(t, "ready")
  /\ live' = [live EXCEPT ![t] = FALSE]
  /\ UNCHANGED <<upload, file, row, pc, job, attempt, loaded, error>>

(* An operator moves a job from document.ingestion.failed back.             *)
Replay(j) ==
  /\ Interrupt("replay")
  /\ message[j] = "dead"
  /\ message' = [message EXCEPT ![j] = "ready"]
  /\ UNCHANGED <<upload, file, row, task>>

(* The API process dies inside a request.                                   *)
ApiCrash(d) ==
  /\ Interrupt("apiCrash")
  /\ upload[d] \in {"saved", "created"}
  /\ upload' = [upload EXCEPT ![d] = "rejected"]
  /\ UNCHANGED <<file, row, message, task>>
-----------------------------------------------------------------------------
Handle(t) ==
  \/ LoadDocument(t)
  \/ CheckChunks(t)
  \/ RepairStatus(t)
  \/ BeginProcessing(t)
  \/ ExtractChunks(t)
  \/ StoreChunks(t)
  \/ FinishDocument(t)

MarkFailed(t) ==
  \/ ReloadDocument(t)
  \/ RecheckChunks(t)
  \/ Reconcile(t)
  \/ RecordFailure(t)

Settle(t) == Ack(t) \/ Reject(t)

UploadDocument(d) == SaveFile(d) \/ CreateDocument(d) \/ PublishJob(d)

Next ==
  \/ \E d \in Doc : UploadDocument(d) \/ ApiCrash(d)
  \/ \E t \in Task, j \in Job : Deliver(t, j)
  \/ \E t \in Task : Handle(t) \/ MarkFailed(t) \/ Settle(t) \/ Crash(t) \/ Disconnect(t)
  \/ \E j \in Job : Replay(j)

Spec == Init /\ [][Next]_vars

(* The event loop keeps running each task and the broker keeps delivering   *)
(* to an idle consumer; nothing is assumed of requests and interruptions.   *)
Fairness ==
  /\ \A t \in Task : WF_vars(Handle(t) \/ MarkFailed(t) \/ Settle(t))
  /\ \A j \in Job : WF_vars(\E t \in Task : Deliver(t, j))

FairSpec == Spec /\ Fairness
-----------------------------------------------------------------------------
(* What holds however deliveries overlap.                                  *)

(* A job leaves the queue by an acknowledgement only once the chunks of its *)
(* document are committed (rabbitmq.py: ack after handle or after           *)
(* mark_failed returned completed), whatever was lost or redelivered.       *)
AcknowledgedIsIndexed ==
  \A j \in Job : message[j] = "done" => copies[j] > 0

(* The status API never reports completed for a document that retrieval     *)
(* cannot find (handle and mark_failed write completed after the chunks).   *)
CompletedIsIndexed ==
  \A j \in Job : status[j] = "completed" => copies[j] > 0

(* Retries, redeliveries and overlapping tasks never store the chunks of a  *)
(* document twice (uq_document_chunk_index).                                *)
IndexedOnce == \A j \in Job : copies[j] <= 1

(* What retrieval serves and what the status API says agree: a completed    *)
(* document is found, and no document is found twice.                       *)
RetrievalAgrees == CompletedIsIndexed /\ IndexedOnce

(* A job the API published names a committed row whose file is in storage,  *)
(* an accepted upload has published its job, and one that failed to queue   *)
(* it keeps its row and its file (DocumentService.upload).                  *)
JobHasDocument ==
  \A d \in Doc :
    /\ message[d] # "none" => status[d] # "absent" /\ d \in file
    /\ upload[d] = "accepted" => message[d] # "none"
    /\ upload[d] = "unqueued" => status[d] # "absent" /\ d \in file

(* A job that has left the queue unacknowledged is in the hands of a task   *)
(* that can still settle it, so that none waits out of everybody's reach.   *)
OutIsHeld ==
  \A j \in Job : message[j] = "out" => \E t \in Task : live[t] /\ job[t] = j

(* Wherever a job is, there is what it needs: its row and its file, and a   *)
(* task once it is out.                                                     *)
JobsAreAccountedFor == JobHasDocument /\ OutIsHeld

(* Every job reaching the worker is acknowledged or dead-lettered in the    *)
(* end: the retry loop of process_message is bounded.                       *)
JobsSettle ==
  \A j \in Job : message[j] = "ready" ~> message[j] \in {"done", "dead"}

(* How many more steps an execution of process_message can take: six for    *)
(* every attempt it has left, and those from where it is to its settlement. *)
StepsFrom(label) ==
  CASE label = "load" -> 10
    [] label = "check" -> 9
    [] label \in {"begin", "repair"} -> 8
    [] label = "extract" -> 7
    [] label = "store" -> 6
    [] label = "finish" -> 5
    [] label = "failLoad" -> 4
    [] label = "failCheck" -> 3
    [] label \in {"reconcile", "recordFailure"} -> 2
    [] label \in {"ack", "reject"} -> 1
    [] label = "idle" -> 0

Remaining(t) ==
  IF pc[t] = "idle" THEN 0 ELSE 6 * (MaxAttempts - attempt[t]) + StepsFrom(pc[t])

(* Every step a task takes brings its delivery nearer to its settlement,    *)
(* and no other task, request or interruption takes it back: the retry loop *)
(* of process_message and the detour through mark_failed both run out.      *)
DeliveriesRunOut ==
  [][\A t \in Task :
       /\ Handle(t) \/ MarkFailed(t) \/ Settle(t) => Remaining(t)' < Remaining(t)
       /\ pc[t] # "idle" => Remaining(t)' <= Remaining(t)]_vars

(* Broker, handler and database together implement an at-least-once job     *)
(* whose effect is the committed chunks.                                    *)
Stages ==
  [j \in Job |-> IF message[j] \in {"ready", "out"} THEN "pending" ELSE message[j]]

AtLeastOnce == INSTANCE AtLeastOnceJob
                 WITH stage <- Stages, effective <- {j \in Job : copies[j] > 0}

ImplementsAtLeastOnceJob == AtLeastOnce!Spec
-----------------------------------------------------------------------------
(* What needs deliveries of one document never to overlap: as long as no    *)
(* channel was lost.  Crashes, replays and lost replies are allowed.        *)
Exclusive == spent.disconnect = 0

(* failure_reason is null unless the document failed.                       *)
ReasonOnlyWhenFailed ==
  Exclusive => \A j \in Job : reason[j] # NoReason => status[j] = "failed"

(* mark_failed never reports a document as failed whose chunks retrieval    *)
(* already serves: it reconciles a committed ingestion instead.             *)
FailedIsUnindexed ==
  Exclusive => \A j \in Job : status[j] = "failed" => copies[j] = 0

(* Once the job is acknowledged the row says completed, without a reason:   *)
(* no later delivery will come to correct it.                               *)
AcknowledgedIsCompleted ==
  Exclusive => \A j \in Job : message[j] = "done" => Columns(j) = Completed

(* What the row says is true: a reason only where there is a failure, a     *)
(* failure only where nothing is served, success for a job that is done.    *)
RowsAreTrue == ReasonOnlyWhenFailed /\ FailedIsUnindexed /\ AcknowledgedIsCompleted

(* A redelivery or replay never takes a completed document back.            *)
CompletedIsFinal ==
  [][Exclusive' => \A j \in Job : status[j] = "completed" => status'[j] = "completed"]_vars
-----------------------------------------------------------------------------
(* Once the job is acknowledged and no task holds it, nothing is left that  *)
(* could bring the row to completed: it must be there.                      *)
AcknowledgedRowIsFinal ==
  \A j \in Job :
    message[j] = "done" /\ (\A t \in Task : job[t] # j) => status[j] = "completed"
=============================================================================
