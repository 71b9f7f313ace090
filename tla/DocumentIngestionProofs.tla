----------------------- MODULE DocumentIngestionProofs -----------------------
(***************************************************************************)
(* Theorems about DocumentIngestion, for every set of documents, tasks and *)
(* stray jobs, every attempt limit and every number of interruptions.      *)
(***************************************************************************)
EXTENDS DocumentIngestion, TLAPS

(* A busy task holds a job, a stale or live delivery belongs to a busy      *)
(* task, and a task on its way through mark_failed knows the error.         *)
TaskOK ==
  \A t \in Task :
    /\ pc[t] # "idle" => job[t] \in Job
    /\ live[t] => pc[t] # "idle"
    /\ pc[t] \in {"failLoad", "failCheck", "reconcile", "recordFailure"}
         => error[t] \in Error

TypeInv == TypeOK /\ TaskOK

LEMMA InitTypeInv == Init => TypeInv
  <1> SUFFICES ASSUME Init PROVE TypeInv
    OBVIOUS
  <1> USE DEF Init
  <1>1. message \in [Job -> Stage]
    BY DEF Stage
  <1>2. attempt \in [Task -> 1 .. MaxAttempts]
    BY AttemptAssumption
  <1>3. loaded \in [Task -> Row]
    BY DEF Row, NoRow
  <1>4. TypeOK
    BY <1>1, <1>2, <1>3 DEF TypeOK, Upload, Control
  <1>5. TaskOK
    BY DEF TaskOK
  <1> QED
    BY <1>4, <1>5 DEF TypeInv

LEMMA InterruptType ==
  ASSUME TypeOK, NEW i \in Interruption, Interrupt(i)
  PROVE  spent' \in [Interruption -> Nat]
  BY DEF TypeOK, Interrupt

LEMMA UploadType ==
  ASSUME TypeInv, NEW d \in Doc, UploadDocument(d) \/ ApiCrash(d)
  PROVE  TypeInv'
  <1> USE DEF TypeInv, TypeOK, TaskOK, row, task, SetUpload, Upload, Stage, Status, Job
  <1>1. CASE SaveFile(d)
    BY <1>1 DEF SaveFile
  <1>2. CASE CreateDocument(d)
    BY <1>2 DEF CreateDocument, InsertDocument
  <1>3. CASE PublishJob(d)
    BY <1>3 DEF PublishJob, Enqueue
  <1>4. CASE ApiCrash(d)
    <2>1. spent' \in [Interruption -> Nat]
      BY <1>4, InterruptType DEF ApiCrash, Interruption
    <2> QED
      BY <1>4, <2>1 DEF ApiCrash
  <1> QED
    BY <1>1, <1>2, <1>3, <1>4 DEF UploadDocument

LEMMA BrokerType ==
  ASSUME TypeInv
  PROVE  /\ \A t \in Task, j \in Job : Deliver(t, j) => TypeInv'
         /\ \A t \in Task : Settle(t) \/ Crash(t) \/ Disconnect(t) => TypeInv'
         /\ \A j \in Job : Replay(j) => TypeInv'
  <1> USE DEF TypeInv, TypeOK, TaskOK, row, task, Stage, Control, Goto
  <1>1. ASSUME NEW t \in Task, NEW j \in Job, Deliver(t, j) PROVE TypeInv'
    BY <1>1 DEF Deliver
  <1>2. ASSUME NEW t \in Task, Settle(t) PROVE TypeInv'
    <2>1. message' \in [Job -> Stage]
      BY <1>2 DEF Settle, Ack, Reject, Settled
    <2>2. Release(t) /\ UNCHANGED <<upload, file, row, spent>>
      BY <1>2 DEF Settle, Ack, Reject
    <2> QED
      BY <2>1, <2>2, AttemptAssumption DEF Release, Row, NoRow
  <1>3. ASSUME NEW t \in Task, Crash(t) PROVE TypeInv'
    <2>1. message' \in [Job -> Stage]
      BY <1>3 DEF Crash, Settled
    <2>2. spent' \in [Interruption -> Nat]
      BY <1>3, InterruptType DEF Crash, Interruption
    <2>3. Release(t) /\ UNCHANGED <<upload, file, row>>
      BY <1>3 DEF Crash
    <2> QED
      BY <2>1, <2>2, <2>3, AttemptAssumption DEF Release, Row, NoRow
  <1>4. ASSUME NEW t \in Task, Disconnect(t) PROVE TypeInv'
    <2>1. spent' \in [Interruption -> Nat]
      BY <1>4, InterruptType DEF Disconnect, Interruption
    <2> QED
      BY <1>4, <2>1 DEF Disconnect, Settled
  <1>5. ASSUME NEW j \in Job, Replay(j) PROVE TypeInv'
    <2>1. spent' \in [Interruption -> Nat]
      BY <1>5, InterruptType DEF Replay, Interruption
    <2> QED
      BY <1>5, <2>1 DEF Replay
  <1> QED
    BY <1>1, <1>2, <1>3, <1>4, <1>5

(* The row stays well typed under every write of a session.                 *)
LEMMA UpdateType ==
  ASSUME TypeOK, NEW j \in Job, NEW from \in Row, NEW to \in Row, Update(j, from, to)
  PROVE  /\ status' \in [Job -> Status \cup {"absent"}]
         /\ reason' \in [Job -> Error \cup {NoReason}]
  BY DEF TypeOK, Update, Row

LEMMA RaisesType ==
  ASSUME TypeInv, NEW t \in Task, NEW e \in Error, pc[t] # "idle",
         HandlerRaises(t, e), Working(t),
         status' \in [Job -> Status \cup {"absent"}],
         reason' \in [Job -> Error \cup {NoReason}],
         copies' \in [Job -> Nat]
  PROVE  TypeInv'
  <1> USE DEF TypeInv, TypeOK
  <1>1. loaded' \in [Task -> Row]
    BY DEF HandlerRaises, Row, NoRow
  <1>2. attempt' \in [Task -> 1 .. MaxAttempts]
    BY AttemptAssumption DEF HandlerRaises
  <1>3. TypeOK'
    BY <1>1, <1>2 DEF HandlerRaises, Working, Goto, Control
  <1>4. TaskOK'
    BY DEF TaskOK, HandlerRaises, Working, Goto
  <1> QED
    BY <1>3, <1>4

LEMMA ProceedsType ==
  ASSUME TypeInv, NEW t \in Task, NEW label \in Control,
         pc[t] # "idle", label # "idle",
         label \in {"failLoad", "failCheck", "reconcile", "recordFailure"}
           => error[t] \in Error,
         Proceed(t, label), Working(t),
         status' \in [Job -> Status \cup {"absent"}],
         reason' \in [Job -> Error \cup {NoReason}],
         copies' \in [Job -> Nat],
         loaded' \in [Task -> Row]
  PROVE  TypeInv'
  <1>1. TypeOK'
    BY DEF TypeInv, TypeOK, Proceed, Goto, Working
  <1>2. TaskOK'
    BY DEF TypeInv, TypeOK, TaskOK, Proceed, Goto, Working
  <1> QED
    BY <1>1, <1>2 DEF TypeInv

LEMMA CommitsType ==
  ASSUME TypeInv, NEW t \in Task, NEW to \in Row, NEW label \in {"ack", "extract"},
         pc[t] # "idle", HandlerCommits(t, to, label), Working(t)
  PROVE  TypeInv'
  <1> USE DEF TypeInv, TypeOK
  <1>0. job[t] \in Job /\ loaded[t] \in Row
    BY DEF TaskOK
  <1>1. CASE /\ Update(job[t], loaded[t], to)
             /\ loaded' = [loaded EXCEPT ![t] = to]
             /\ Proceed(t, label)
             /\ UNCHANGED copies
    BY <1>0, <1>1, UpdateType, ProceedsType DEF Control
  <1>2. CASE /\ Update(job[t], loaded[t], to)
             /\ HandlerRaises(t, "retryable")
             /\ UNCHANGED copies
    <2>1. "retryable" \in Error
      BY DEF Error
    <2> QED
      BY <1>0, <1>2, <2>1, UpdateType, RaisesType
  <1>3. CASE HandlerFails(t)
    BY <1>3, RaisesType DEF HandlerFails, row
  <1> QED
    BY <1>1, <1>2, <1>3 DEF HandlerCommits

LEMMA HandleType ==
  ASSUME TypeInv, NEW t \in Task, Handle(t)
  PROVE  TypeInv'
  <1> USE DEF TypeInv, TypeOK
  <1>1. pc[t] # "idle" /\ Working(t)
    BY DEF Handle, LoadDocument, CheckChunks, RepairStatus, BeginProcessing,
           ExtractChunks, StoreChunks, FinishDocument
  <1>2. job[t] \in Job
    BY <1>1 DEF TaskOK
  <1>3. Completed \in Row /\ Processing \in Row /\ "retryable" \in Error
    BY DEF Completed, Processing, Row, Status, Error
  <1>4. CASE HandlerFails(t)
    BY <1>1, <1>4, RaisesType DEF HandlerFails, row
  <1>5. CASE LoadDocument(t) /\ ~ HandlerFails(t)
    <2>1. loaded' \in [Task -> Row]
      BY <1>2, <1>5 DEF LoadDocument, Load, Columns, Row
    <2> QED
      BY <1>1, <1>5, <2>1, ProceedsType DEF LoadDocument, row, Control
  <1>6. CASE CheckChunks(t) /\ ~ HandlerFails(t)
    BY <1>1, <1>6, ProceedsType DEF CheckChunks, row, Control
  <1>7. CASE RepairStatus(t)
    BY <1>1, <1>3, <1>7, CommitsType DEF RepairStatus
  <1>8. CASE BeginProcessing(t)
    BY <1>1, <1>3, <1>8, CommitsType DEF BeginProcessing
  <1>9. CASE ExtractChunks(t) /\ ~ HandlerFails(t)
    BY <1>1, <1>9, ProceedsType DEF ExtractChunks, row, Control
  <1>10. CASE StoreChunks(t) /\ ~ HandlerFails(t)
    <2>1. InsertChunks(job[t])
      BY <1>10 DEF StoreChunks
    <2>2. copies' \in [Job -> Nat] /\ UNCHANGED <<status, reason>>
      BY <1>2, <2>1 DEF InsertChunks
    <2>3. CASE Proceed(t, "finish") /\ UNCHANGED loaded
      BY <1>1, <2>2, <2>3, ProceedsType DEF Control
    <2>4. CASE HandlerRaises(t, "retryable")
      BY <1>1, <1>3, <2>2, <2>4, RaisesType
    <2> QED
      BY <1>10, <2>3, <2>4 DEF StoreChunks
  <1>11. CASE FinishDocument(t)
    BY <1>1, <1>3, <1>11, CommitsType DEF FinishDocument
  <1> QED
    BY <1>4, <1>5, <1>6, <1>7, <1>8, <1>9, <1>10, <1>11 DEF Handle

LEMMA MarkFailedType ==
  ASSUME TypeInv, NEW t \in Task, MarkFailed(t)
  PROVE  TypeInv'
  <1> USE DEF TypeInv, TypeOK
  <1>1. pc[t] \in {"failLoad", "failCheck", "reconcile", "recordFailure"} /\ Working(t)
    BY DEF MarkFailed, ReloadDocument, RecheckChunks, Reconcile, RecordFailure
  <1>2. job[t] \in Job /\ loaded[t] \in Row /\ error[t] \in Error
    BY <1>1 DEF TaskOK
  <1>3. CASE MarkFailedRaises(t)
    BY <1>1, <1>3, ProceedsType DEF MarkFailedRaises, row, Control
  <1>4. CASE ReloadDocument(t) /\ ~ MarkFailedRaises(t)
    <2>1. loaded' \in [Task -> Row]
      BY <1>2, <1>4 DEF ReloadDocument, Load, Columns, Row
    <2> QED
      BY <1>1, <1>2, <1>4, <2>1, ProceedsType DEF ReloadDocument, row, Control
  <1>5. CASE RecheckChunks(t) /\ ~ MarkFailedRaises(t)
    BY <1>1, <1>2, <1>5, ProceedsType DEF RecheckChunks, row, Control
  <1>6. ASSUME NEW to \in Row, NEW label \in {"ack", "reject"},
               MarkFailedCommits(t, to, label), ~ MarkFailedRaises(t)
        PROVE  TypeInv'
    <2>1. Update(job[t], loaded[t], to) /\ UNCHANGED <<copies, loaded>>
      BY <1>6 DEF MarkFailedCommits
    <2>2. PICK next \in {label, "reject"} : Proceed(t, next)
      BY <1>6 DEF MarkFailedCommits
    <2> QED
      BY <1>1, <1>2, <2>1, <2>2, UpdateType, ProceedsType DEF Control
  <1>7. CASE Reconcile(t)
    <2>1. Completed \in Row
      BY DEF Completed, Row, Status
    <2> QED
      BY <1>3, <1>6, <1>7, <2>1 DEF Reconcile
  <1>8. CASE RecordFailure(t)
    <2>1. Failed(error[t]) \in Row
      BY <1>2 DEF Failed, Row, Status
    <2> QED
      BY <1>3, <1>6, <1>8, <2>1 DEF RecordFailure
  <1> QED
    BY <1>3, <1>4, <1>5, <1>7, <1>8 DEF MarkFailed

LEMMA TypeInvariant == Spec => []TypeInv
  <1>1. ASSUME TypeInv, [Next]_vars PROVE TypeInv'
    <2>1. CASE UNCHANGED vars
      BY <1>1, <2>1 DEF TypeInv, TypeOK, TaskOK, vars, row, task
    <2>2. CASE Next
      BY <1>1, <2>2, UploadType, BrokerType, HandleType, MarkFailedType DEF Next
    <2> QED
      BY <1>1, <2>1, <2>2
  <1> QED
    BY InitTypeInv, <1>1, PTL DEF Spec

(* Every reachable state of the pipeline is well typed.                     *)
THEOREM TypeCorrect == Spec => []TypeOK
  <1>1. TypeInv => TypeOK
    BY DEF TypeInv
  <1> QED
    BY TypeInvariant, <1>1, PTL
-----------------------------------------------------------------------------
(* The inductive invariant behind the safety properties.                   *)

(* Where a task has seen, or itself committed, the chunks of its document.  *)
Witnessed == {"repair", "finish", "reconcile", "ack"}

Evidence == \A t \in Task : pc[t] \in Witnessed => copies[job[t]] > 0

Indexed ==
  Evidence /\ AcknowledgedIsIndexed /\ CompletedIsIndexed /\ IndexedOnce

(* An open delivery is the only one of its message, which is out; even a    *)
(* stale task holds a job that was published.                               *)
DeliveryOK ==
  \A t \in Task :
    /\ pc[t] # "idle" => message[job[t]] # "none"
    /\ live[t] => message[job[t]] = "out"
    /\ \A u \in Task : live[t] /\ live[u] /\ job[t] = job[u] => t = u

(* Nothing is published before the row and the file are there to stay.      *)
UploadOK ==
  \A d \in Doc :
    /\ upload[d] \in {"new", "saved", "created"} => message[d] = "none"
    /\ upload[d] = "saved" => d \in file
    /\ upload[d] = "created" => status[d] # "absent" /\ d \in file

Safe == Indexed /\ DeliveryOK /\ UploadOK /\ JobHasDocument

(* What a step inside handle or mark_failed may do.                         *)
WorkStep(t) ==
  /\ UNCHANGED <<upload, file, message, job, live>>
  /\ \/ copies' = copies
     \/ copies[job[t]] = 0 /\ copies' = [copies EXCEPT ![job[t]] = @ + 1]
  /\ \A j \in Job :
       \/ status'[j] = status[j]
       \/ status'[j] # "absent" /\ (status'[j] = "completed" => copies[j] > 0)
  /\ \A u \in Task : u # t => pc'[u] = pc[u]
  /\ pc[t] # "idle"
  /\ pc'[t] \in Witnessed => copies'[job[t]] > 0

LEMMA UpdateWrites ==
  ASSUME TypeInv, NEW j \in Job, NEW from \in Row, NEW to \in Row, Update(j, from, to),
         to.status # "absent", to.status = "completed" => copies[j] > 0
  PROVE  \A i \in Job :
           \/ status'[i] = status[i]
           \/ status'[i] # "absent" /\ (status'[i] = "completed" => copies[i] > 0)
  BY DEF TypeInv, TypeOK, Update

LEMMA RaisesWork ==
  ASSUME TypeInv, NEW t \in Task, NEW e \in Error, HandlerRaises(t, e)
  PROVE  /\ \A u \in Task : u # t => pc'[u] = pc[u]
         /\ pc'[t] \notin Witnessed
  BY DEF TypeInv, TypeOK, HandlerRaises, Goto, Witnessed

LEMMA ProceedsWork ==
  ASSUME TypeInv, NEW t \in Task, NEW label, Proceed(t, label)
  PROVE  (\A u \in Task : u # t => pc'[u] = pc[u]) /\ pc'[t] = label
  BY DEF TypeInv, TypeOK, Proceed, Goto

LEMMA FailsWork ==
  ASSUME TypeInv, NEW t \in Task, HandlerFails(t), Working(t), pc[t] # "idle"
  PROVE  WorkStep(t)
  BY RaisesWork DEF HandlerFails, WorkStep, Working, row

LEMMA CommitsWork ==
  ASSUME TypeInv, NEW t \in Task, NEW to \in Row, NEW label \in {"ack", "extract"},
         pc[t] # "idle", HandlerCommits(t, to, label), Working(t),
         to.status # "absent",
         to.status = "completed" \/ label = "ack" => copies[job[t]] > 0
  PROVE  WorkStep(t)
  <1>1. job[t] \in Job /\ loaded[t] \in Row /\ "retryable" \in Error
    BY DEF TypeInv, TypeOK, TaskOK, Error
  <1>2. CASE HandlerFails(t)
    BY <1>2, FailsWork
  <1>3. CASE ~ HandlerFails(t)
    <2>1. Update(job[t], loaded[t], to) /\ UNCHANGED copies
      BY <1>3 DEF HandlerCommits
    <2>2. (\A u \in Task : u # t => pc'[u] = pc[u])
          /\ (pc'[t] \in Witnessed => pc'[t] = label)
      BY <1>1, <1>3, RaisesWork, ProceedsWork DEF HandlerCommits
    <2>3. label \in Witnessed => label = "ack"
      BY DEF Witnessed
    <2> QED
      BY <1>1, <2>1, <2>2, <2>3, UpdateWrites DEF WorkStep, Working
  <1> QED
    BY <1>2, <1>3

LEMMA HandleWork ==
  ASSUME TypeInv, Evidence, NEW t \in Task, Handle(t)
  PROVE  WorkStep(t)
  <1>1. pc[t] # "idle" /\ Working(t)
    BY DEF Handle, LoadDocument, CheckChunks, RepairStatus, BeginProcessing,
           ExtractChunks, StoreChunks, FinishDocument
  <1>2. job[t] \in Job /\ copies[job[t]] \in Nat /\ "retryable" \in Error
    BY <1>1 DEF TypeInv, TypeOK, TaskOK, Error
  <1>3. /\ Completed \in Row /\ Completed.status = "completed"
        /\ Processing \in Row /\ Processing.status = "processing"
    BY DEF Completed, Processing, Row, Status
  <1>4. CASE HandlerFails(t)
    BY <1>1, <1>4, FailsWork
  <1>5. CASE LoadDocument(t) /\ ~ HandlerFails(t)
    BY <1>1, <1>5, ProceedsWork DEF LoadDocument, WorkStep, Working, row, Witnessed
  <1>6. CASE CheckChunks(t) /\ ~ HandlerFails(t)
    BY <1>1, <1>6, ProceedsWork
    DEF CheckChunks, HasChunks, WorkStep, Working, row, Witnessed
  <1>7. CASE RepairStatus(t)
    BY <1>1, <1>3, <1>7, CommitsWork DEF RepairStatus, Evidence, Witnessed
  <1>8. CASE BeginProcessing(t)
    BY <1>1, <1>3, <1>8, CommitsWork DEF BeginProcessing
  <1>9. CASE ExtractChunks(t) /\ ~ HandlerFails(t)
    BY <1>1, <1>9, ProceedsWork DEF ExtractChunks, WorkStep, Working, row, Witnessed
  <1>10. CASE StoreChunks(t) /\ ~ HandlerFails(t)
    <2>1. InsertChunks(job[t])
      BY <1>10 DEF StoreChunks
    <2>2. copies[job[t]] = 0 /\ copies' = [copies EXCEPT ![job[t]] = @ + 1]
          /\ status' = status /\ copies'[job[t]] > 0
      BY <1>2, <2>1 DEF InsertChunks, ChunksInsertable, TypeInv, TypeOK
    <2>3. \A u \in Task : u # t => pc'[u] = pc[u]
      BY <1>2, <1>10, RaisesWork, ProceedsWork DEF StoreChunks
    <2> QED
      BY <1>1, <2>2, <2>3 DEF WorkStep, Working
  <1>11. CASE FinishDocument(t)
    BY <1>1, <1>3, <1>11, CommitsWork DEF FinishDocument, Evidence, Witnessed
  <1> QED
    BY <1>4, <1>5, <1>6, <1>7, <1>8, <1>9, <1>10, <1>11 DEF Handle

LEMMA MarkFailedWork ==
  ASSUME TypeInv, Evidence, NEW t \in Task, MarkFailed(t)
  PROVE  WorkStep(t)
  <1>1. pc[t] \in {"failLoad", "failCheck", "reconcile", "recordFailure"} /\ Working(t)
    BY DEF MarkFailed, ReloadDocument, RecheckChunks, Reconcile, RecordFailure
  <1>2. job[t] \in Job /\ loaded[t] \in Row /\ error[t] \in Error
    BY <1>1 DEF TypeInv, TypeOK, TaskOK
  <1>3. CASE MarkFailedRaises(t)
    BY <1>1, <1>3, ProceedsWork DEF MarkFailedRaises, WorkStep, Working, row, Witnessed
  <1>4. CASE ReloadDocument(t) /\ ~ MarkFailedRaises(t)
    BY <1>1, <1>4, ProceedsWork DEF ReloadDocument, WorkStep, Working, row, Witnessed
  <1>5. CASE RecheckChunks(t) /\ ~ MarkFailedRaises(t)
    BY <1>1, <1>5, ProceedsWork
    DEF RecheckChunks, HasChunks, WorkStep, Working, row, Witnessed
  <1>6. ASSUME NEW to \in Row, NEW label \in {"ack", "reject"}, to.status # "absent",
               to.status = "completed" \/ label = "ack" => copies[job[t]] > 0,
               MarkFailedCommits(t, to, label), ~ MarkFailedRaises(t)
        PROVE  WorkStep(t)
    <2>1. Update(job[t], loaded[t], to) /\ UNCHANGED copies
      BY <1>6 DEF MarkFailedCommits
    <2>2. PICK next \in {label, "reject"} : Proceed(t, next)
      BY <1>6 DEF MarkFailedCommits
    <2>3. (\A u \in Task : u # t => pc'[u] = pc[u])
          /\ (pc'[t] \in Witnessed => label = "ack")
      BY <1>6, <2>2, ProceedsWork DEF Witnessed
    <2> QED
      BY <1>1, <1>2, <1>6, <2>1, <2>3, UpdateWrites DEF WorkStep, Working
  <1>7. CASE Reconcile(t)
    <2>1. Completed \in Row /\ Completed.status = "completed"
      BY DEF Completed, Row, Status
    <2>2. copies[job[t]] > 0
      BY <1>7 DEF Reconcile, Evidence, Witnessed
    <2> QED
      BY <1>3, <1>6, <1>7, <2>1, <2>2 DEF Reconcile
  <1>8. CASE RecordFailure(t)
    <2>1. Failed(error[t]) \in Row /\ Failed(error[t]).status = "failed"
      BY <1>2 DEF Failed, Row, Status
    <2> QED
      BY <1>3, <1>6, <1>8, <2>1 DEF RecordFailure
  <1> QED
    BY <1>3, <1>4, <1>5, <1>7, <1>8 DEF MarkFailed

LEMMA WorkSafe ==
  ASSUME TypeInv, TypeInv', Safe, NEW t \in Task, WorkStep(t)
  PROVE  Safe'
  <1> USE DEF TypeInv, TypeOK, TaskOK, Safe, WorkStep
  <1>1. Evidence'
    BY DEF Indexed, Evidence, IndexedOnce, Witnessed
  <1>2. AcknowledgedIsIndexed' /\ CompletedIsIndexed' /\ IndexedOnce'
    BY DEF Indexed, AcknowledgedIsIndexed, CompletedIsIndexed, IndexedOnce
  <1>3. DeliveryOK'
    BY DEF DeliveryOK
  <1>4. UploadOK' /\ JobHasDocument'
    BY DEF UploadOK, JobHasDocument, Job
  <1> QED
    BY <1>1, <1>2, <1>3, <1>4 DEF Indexed

(* A task leaves the pool idle; what it settles follows its delivery.       *)
LEMMA ReleaseFacts ==
  ASSUME TypeInv, NEW t \in Task, Release(t)
  PROVE  /\ pc'[t] = "idle" /\ live'[t] = FALSE
         /\ \A u \in Task : u # t =>
              pc'[u] = pc[u] /\ job'[u] = job[u] /\ live'[u] = live[u]
  BY DEF TypeInv, TypeOK, Release, Goto

LEMMA ReleaseSafe ==
  ASSUME TypeInv, Safe, NEW t \in Task, NEW to \in {"ready", "dead", "done"},
         to = "done" => pc[t] = "ack",
         pc[t] # "idle", message' = Settled(t, to), Release(t),
         UNCHANGED <<upload, file, row>>
  PROVE  Safe'
  <1> USE DEF TypeInv, TypeOK, Safe, row
  <1>1. /\ pc'[t] = "idle" /\ live'[t] = FALSE
        /\ \A u \in Task : u # t =>
             pc'[u] = pc[u] /\ job'[u] = job[u] /\ live'[u] = live[u]
    BY ReleaseFacts
  <1>2. \/ message' = message
        \/ live[t] /\ message[job[t]] = "out" /\ message' = [message EXCEPT ![job[t]] = to]
    BY DEF Settled, DeliveryOK
  <1>3. job[t] \in Job
    BY DEF TaskOK
  <1>4. Evidence'
    BY <1>1 DEF Indexed, Evidence, Witnessed
  <1>5. AcknowledgedIsIndexed' /\ CompletedIsIndexed' /\ IndexedOnce'
    BY <1>2, <1>3
    DEF Indexed, Evidence, Witnessed, AcknowledgedIsIndexed, CompletedIsIndexed, IndexedOnce
  <1>6. DeliveryOK'
    BY <1>1, <1>2, <1>3 DEF DeliveryOK, TaskOK
  <1>7. UploadOK' /\ JobHasDocument'
    BY <1>2, <1>3 DEF UploadOK, JobHasDocument, Job
  <1> QED
    BY <1>4, <1>5, <1>6, <1>7 DEF Indexed

LEMMA BrokerSafe ==
  ASSUME TypeInv, Safe
  PROVE  /\ \A t \in Task, j \in Job : Deliver(t, j) => Safe'
         /\ \A t \in Task : Settle(t) \/ Crash(t) \/ Disconnect(t) => Safe'
         /\ \A j \in Job : Replay(j) => Safe'
  <1> USE DEF TypeInv, TypeOK, Safe, row, task
  <1>1. ASSUME NEW t \in Task, NEW j \in Job, Deliver(t, j) PROVE Safe'
    <2>1. /\ message[j] = "ready" /\ message' = [message EXCEPT ![j] = "out"]
          /\ UNCHANGED <<upload, file, row>>
          /\ pc'[t] \in {"load", "reject"} /\ job'[t] = j /\ live'[t] = TRUE
          /\ \A u \in Task : u # t =>
               pc'[u] = pc[u] /\ job'[u] = job[u] /\ live'[u] = live[u]
      BY <1>1 DEF Deliver, Goto
    <2>2. Indexed'
      BY <2>1
      DEF Indexed, Evidence, Witnessed, AcknowledgedIsIndexed, CompletedIsIndexed, IndexedOnce
    <2>3. DeliveryOK'
      BY <2>1 DEF DeliveryOK, TaskOK
    <2>4. UploadOK' /\ JobHasDocument'
      BY <2>1 DEF UploadOK, JobHasDocument, Job
    <2> QED
      BY <2>2, <2>3, <2>4
  <1>2. ASSUME NEW t \in Task, Settle(t) \/ Crash(t) PROVE Safe'
    <2>1. CASE Ack(t)
      BY <2>1, ReleaseSafe DEF Ack
    <2>2. CASE Reject(t)
      BY <2>2, ReleaseSafe DEF Reject
    <2>3. CASE Crash(t)
      BY <2>3, ReleaseSafe DEF Crash
    <2> QED
      BY <1>2, <2>1, <2>2, <2>3 DEF Settle
  <1>3. ASSUME NEW t \in Task, Disconnect(t) PROVE Safe'
    <2>1. /\ live[t] /\ job[t] \in Job
          /\ message' = [message EXCEPT ![job[t]] = "ready"]
          /\ live' = [live EXCEPT ![t] = FALSE]
          /\ UNCHANGED <<upload, file, row, pc, job>>
      BY <1>3 DEF Disconnect, Settled, TaskOK
    <2>2. Indexed'
      BY <2>1
      DEF Indexed, Evidence, Witnessed, AcknowledgedIsIndexed, CompletedIsIndexed, IndexedOnce
    <2>3. DeliveryOK'
      BY <2>1 DEF DeliveryOK, TaskOK
    <2>4. UploadOK' /\ JobHasDocument'
      BY <2>1 DEF UploadOK, JobHasDocument, DeliveryOK, TaskOK, Job
    <2> QED
      BY <2>2, <2>3, <2>4
  <1>4. ASSUME NEW j \in Job, Replay(j) PROVE Safe'
    <2>1. /\ message[j] = "dead" /\ message' = [message EXCEPT ![j] = "ready"]
          /\ UNCHANGED <<upload, file, row, task>>
      BY <1>4 DEF Replay
    <2>2. Indexed'
      BY <2>1
      DEF Indexed, Evidence, Witnessed, AcknowledgedIsIndexed, CompletedIsIndexed, IndexedOnce
    <2>3. DeliveryOK'
      BY <2>1 DEF DeliveryOK, TaskOK
    <2>4. UploadOK' /\ JobHasDocument'
      BY <2>1 DEF UploadOK, JobHasDocument, Job
    <2> QED
      BY <2>2, <2>3, <2>4
  <1> QED
    BY <1>1, <1>2, <1>3, <1>4

LEMMA UploadSafe ==
  ASSUME TypeInv, Safe, NEW d \in Doc, UploadDocument(d) \/ ApiCrash(d)
  PROVE  Safe'
  <1> USE DEF TypeInv, TypeOK, Safe, row, task, SetUpload
  <1>1. d \in Job /\ UNCHANGED <<copies, task>>
    BY DEF Job, UploadDocument, SaveFile, CreateDocument, InsertDocument, PublishJob, ApiCrash
  <1>2. \/ message' = message
        \/ message[d] = "none" /\ message' = [message EXCEPT ![d] = "ready"]
    BY DEF UploadDocument, SaveFile, CreateDocument, PublishJob, ApiCrash, Enqueue, UploadOK
  <1>3. \A j \in Job : status'[j] = status[j] \/ status'[j] = "pending"
    BY <1>1 DEF UploadDocument, SaveFile, CreateDocument, InsertDocument, PublishJob, ApiCrash
  <1>4. Indexed'
    BY <1>1, <1>2, <1>3
    DEF Indexed, Evidence, Witnessed, AcknowledgedIsIndexed, CompletedIsIndexed, IndexedOnce
  <1>5. DeliveryOK'
    BY <1>1, <1>2 DEF DeliveryOK, TaskOK
  <1>6. UploadOK' /\ JobHasDocument'
    <2>1. CASE SaveFile(d)
      BY <1>1, <2>1 DEF SaveFile, UploadOK, JobHasDocument
    <2>2. CASE CreateDocument(d)
      BY <1>1, <2>2 DEF CreateDocument, InsertDocument, UploadOK, JobHasDocument, Job
    <2>3. CASE PublishJob(d)
      BY <1>1, <2>3 DEF PublishJob, Enqueue, UploadOK, JobHasDocument, Job
    <2>4. CASE ApiCrash(d)
      BY <1>1, <2>4 DEF ApiCrash, UploadOK, JobHasDocument
    <2> QED
      BY <2>1, <2>2, <2>3, <2>4 DEF UploadDocument
  <1> QED
    BY <1>4, <1>5, <1>6

LEMMA SafeInvariant == Spec => []Safe
  <1>1. Init => Safe
    <2> SUFFICES ASSUME Init PROVE Safe
      OBVIOUS
    <2>1. Indexed
      BY DEF Init, Indexed, Evidence, Witnessed, AcknowledgedIsIndexed,
             CompletedIsIndexed, IndexedOnce
    <2>2. DeliveryOK
      BY DEF Init, DeliveryOK
    <2>3. UploadOK /\ JobHasDocument
      BY DEF Init, UploadOK, JobHasDocument, Job
    <2> QED
      BY <2>1, <2>2, <2>3 DEF Safe
  <1>2. TypeInv /\ TypeInv' /\ Safe /\ [Next]_vars => Safe'
    <2> SUFFICES ASSUME TypeInv, TypeInv', Safe, [Next]_vars PROVE Safe'
      OBVIOUS
    <2>1. CASE UNCHANGED vars
      BY <2>1
      DEF Safe, Indexed, Evidence, AcknowledgedIsIndexed, CompletedIsIndexed, IndexedOnce,
          DeliveryOK, UploadOK, JobHasDocument, vars, row, task
    <2>2. ASSUME NEW t \in Task, Handle(t) \/ MarkFailed(t) PROVE Safe'
      BY <2>2, HandleWork, MarkFailedWork, WorkSafe DEF Safe, Indexed
    <2>3. CASE Next
      BY <2>2, <2>3, UploadSafe, BrokerSafe DEF Next
    <2> QED
      BY <2>1, <2>3
  <1> QED
    BY TypeInvariant, <1>1, <1>2, PTL DEF Spec

(* An acknowledged job has its chunks committed, whatever crashed, was lost, *)
(* retried, redelivered or replayed on the way.                              *)
THEOREM AcknowledgedJobsAreIndexed == Spec => []AcknowledgedIsIndexed
  <1>1. Safe => AcknowledgedIsIndexed
    BY DEF Safe, Indexed
  <1> QED
    BY SafeInvariant, <1>1, PTL

(* A document reported completed has its chunks committed.                  *)
THEOREM CompletedDocumentsAreIndexed == Spec => []CompletedIsIndexed
  <1>1. Safe => CompletedIsIndexed
    BY DEF Safe, Indexed
  <1> QED
    BY SafeInvariant, <1>1, PTL

(* Retries and overlapping deliveries never store the chunks twice.         *)
THEOREM DocumentsAreIndexedOnce == Spec => []IndexedOnce
  <1>1. Safe => IndexedOnce
    BY DEF Safe, Indexed
  <1> QED
    BY SafeInvariant, <1>1, PTL

(* What the status API says and what retrieval serves agree.                *)
THEOREM StatusAndRetrievalAgree == Spec => []RetrievalAgrees
  <1>1. CompletedIsIndexed /\ IndexedOnce => RetrievalAgrees
    BY DEF RetrievalAgrees
  <1> QED
    BY CompletedDocumentsAreIndexed, DocumentsAreIndexedOnce, <1>1, PTL

(* A published job names a committed row whose file is in storage, and an   *)
(* accepted upload has published its job.                                   *)
THEOREM PublishedJobsHaveDocuments == Spec => []JobHasDocument
  <1>1. Safe => JobHasDocument
    BY DEF Safe
  <1> QED
    BY SafeInvariant, <1>1, PTL
-----------------------------------------------------------------------------
(* The pipeline implements the at-least-once job.                          *)

LEMMA RefinesInit == Init => AtLeastOnce!Init
  <1> SUFFICES ASSUME Init PROVE AtLeastOnce!Init
    OBVIOUS
  <1>1. Stages \in [Job -> {"none", "pending"}]
    BY DEF Init, Stages
  <1>2. {j \in Job : copies[j] > 0} = {}
    BY DEF Init
  <1> QED
    BY <1>1, <1>2 DEF AtLeastOnce!Init

(* A step that moves one message and no chunk is a move of that job.        *)
LEMMA MessageMoves ==
  ASSUME TypeInv, NEW j \in Job, NEW to \in Stage, UNCHANGED copies,
         message' = [message EXCEPT ![j] = to],
         \/ message[j] = "none" /\ to = "ready"
         \/ message[j] \in {"ready", "out"} /\ to \in {"ready", "out", "dead"}
         \/ message[j] \in {"ready", "out"} /\ to = "done" /\ copies[j] > 0
         \/ message[j] = "dead" /\ to = "ready"
  PROVE  [AtLeastOnce!Next]_AtLeastOnce!vars
  <1> DEFINE abstract(m) == IF m \in {"ready", "out"} THEN "pending" ELSE m
  <1>1. Stages = [i \in Job |-> abstract(message[i])]
    BY DEF Stages
  <1>2. Stages' = [Stages EXCEPT ![j] = abstract(to)]
    BY DEF Stages, TypeInv, TypeOK
  <1>3. Stages[j] = abstract(message[j])
    BY <1>1
  <1>4. UNCHANGED {i \in Job : copies[i] > 0}
    OBVIOUS
  <1>5. CASE abstract(to) = Stages[j]
    <2>1. Stages' = Stages
      BY <1>1, <1>2, <1>5
    <2> QED
      BY <1>4, <2>1 DEF AtLeastOnce!vars
  <1>6. CASE abstract(to) # Stages[j]
    <2>1. \/ AtLeastOnce!Publish(j) \/ AtLeastOnce!Acknowledge(j)
          \/ AtLeastOnce!DeadLetter(j) \/ AtLeastOnce!Replay(j)
      BY <1>2, <1>3, <1>4, <1>6
      DEF AtLeastOnce!Publish, AtLeastOnce!Acknowledge, AtLeastOnce!DeadLetter,
          AtLeastOnce!Replay, AtLeastOnce!Move
    <2> QED
      BY <2>1 DEF AtLeastOnce!Next
  <1> QED
    BY <1>5, <1>6

LEMMA StillRefines ==
  ASSUME UNCHANGED <<message, copies>>
  PROVE  [AtLeastOnce!Next]_AtLeastOnce!vars
  BY DEF AtLeastOnce!vars, Stages

LEMMA WorkRefines ==
  ASSUME TypeInv, Safe, NEW t \in Task, WorkStep(t)
  PROVE  [AtLeastOnce!Next]_AtLeastOnce!vars
  <1>1. CASE copies' = copies
    BY <1>1, StillRefines DEF WorkStep
  <1>2. CASE copies[job[t]] = 0 /\ copies' = [copies EXCEPT ![job[t]] = @ + 1]
    <2>1. PICK j \in Job : j = job[t]
      BY DEF WorkStep, TypeInv, TaskOK
    <2>2. message[j] \in Stage \ {"none"} /\ message' = message
      BY <2>1 DEF WorkStep, TypeInv, TypeOK, Safe, DeliveryOK
    <2>3. {i \in Job : copies'[i] > 0} = {i \in Job : copies[i] > 0} \cup {j}
      BY <1>2, <2>1 DEF TypeInv, TypeOK
    <2>4. Stages' = Stages /\ Stages[j] # "none"
      BY <2>2 DEF Stages, Stage
    <2>5. AtLeastOnce!TakeEffect(j)
      BY <2>3, <2>4 DEF AtLeastOnce!TakeEffect
    <2> QED
      BY <2>5 DEF AtLeastOnce!Next
  <1> QED
    BY <1>1, <1>2 DEF WorkStep

LEMMA BrokerRefines ==
  ASSUME TypeInv, Safe
  PROVE  /\ \A t \in Task, j \in Job : Deliver(t, j) => [AtLeastOnce!Next]_AtLeastOnce!vars
         /\ \A t \in Task : Settle(t) \/ Crash(t) \/ Disconnect(t)
                             => [AtLeastOnce!Next]_AtLeastOnce!vars
         /\ \A j \in Job : Replay(j) => [AtLeastOnce!Next]_AtLeastOnce!vars
  <1>1. ASSUME NEW t \in Task, NEW j \in Job, Deliver(t, j)
        PROVE  [AtLeastOnce!Next]_AtLeastOnce!vars
    BY <1>1, MessageMoves DEF Deliver, Stage, row
  <1>2. ASSUME NEW t \in Task, Settle(t) \/ Crash(t) \/ Disconnect(t)
        PROVE  [AtLeastOnce!Next]_AtLeastOnce!vars
    <2>1. PICK to \in {"ready", "dead", "done"} :
            message' = Settled(t, to) /\ (to = "done" => pc[t] = "ack")
      BY <1>2 DEF Settle, Ack, Reject, Crash, Disconnect
    <2>2. UNCHANGED copies
      BY <1>2 DEF Settle, Ack, Reject, Crash, Disconnect, row
    <2>3. CASE live[t]
      BY <2>1, <2>2, <2>3, MessageMoves
      DEF Settled, Safe, Indexed, Evidence, Witnessed, DeliveryOK, TypeInv, TypeOK, TaskOK, Stage
    <2>4. CASE ~ live[t]
      BY <2>1, <2>2, <2>4, StillRefines DEF Settled
    <2> QED
      BY <2>3, <2>4
  <1>3. ASSUME NEW j \in Job, Replay(j) PROVE [AtLeastOnce!Next]_AtLeastOnce!vars
    BY <1>3, MessageMoves DEF Replay, Stage, row
  <1> QED
    BY <1>1, <1>2, <1>3

LEMMA UploadRefines ==
  ASSUME TypeInv, Safe, NEW d \in Doc, UploadDocument(d) \/ ApiCrash(d)
  PROVE  [AtLeastOnce!Next]_AtLeastOnce!vars
  <1>1. d \in Job /\ UNCHANGED copies
    BY DEF Job, row, UploadDocument, SaveFile, CreateDocument, InsertDocument, PublishJob, ApiCrash
  <1>2. \/ message' = message
        \/ message[d] = "none" /\ message' = [message EXCEPT ![d] = "ready"]
    BY DEF UploadDocument, SaveFile, CreateDocument, PublishJob, ApiCrash, Enqueue,
           SetUpload, Safe, UploadOK
  <1> QED
    BY <1>1, <1>2, StillRefines, MessageMoves DEF Stage

(* Broker, consumer, handler and database together implement the            *)
(* at-least-once job.                                                       *)
THEOREM IngestionRefinesAtLeastOnceJob == Spec => ImplementsAtLeastOnceJob
  <1>1. TypeInv /\ Safe /\ [Next]_vars => [AtLeastOnce!Next]_AtLeastOnce!vars
    <2> SUFFICES ASSUME TypeInv, Safe, [Next]_vars
                 PROVE  [AtLeastOnce!Next]_AtLeastOnce!vars
      OBVIOUS
    <2>1. CASE UNCHANGED vars
      BY <2>1, StillRefines DEF vars, row
    <2>2. ASSUME NEW t \in Task, Handle(t) \/ MarkFailed(t)
          PROVE  [AtLeastOnce!Next]_AtLeastOnce!vars
      BY <2>2, HandleWork, MarkFailedWork, WorkRefines DEF Safe, Indexed
    <2>3. CASE Next
      BY <2>2, <2>3, UploadRefines, BrokerRefines DEF Next
    <2> QED
      BY <2>1, <2>3
  <1> QED
    BY RefinesInit, TypeInvariant, SafeInvariant, <1>1, PTL DEF Spec, ImplementsAtLeastOnceJob, AtLeastOnce!Spec
-----------------------------------------------------------------------------
(* What a task knows as long as no channel was lost: it is alone with its   *)
(* document, so the row is as it last read or wrote it.                     *)

RowOK(j) ==
  /\ reason[j] # NoReason => status[j] = "failed"
  /\ status[j] = "failed" => copies[j] = 0
  /\ message[j] = "done" => Columns(j) = Completed

Reading ==
  {"check", "repair", "begin", "extract", "store", "finish", "failCheck", "reconcile",
   "recordFailure"}

Known(t) ==
  /\ pc[t] \in Reading => loaded[t] = Columns(job[t])
  /\ pc[t] \in {"begin", "extract", "store", "recordFailure"} => copies[job[t]] = 0
  /\ pc[t] \in {"extract", "store"} => status[job[t]] = "processing"
  /\ pc[t] = "ack" => Columns(job[t]) = Completed

Alone ==
  Exclusive =>
    /\ \A j \in Job : RowOK(j)
    /\ \A t \in Task : pc[t] # "idle" => live[t] /\ Known(t)

Unsaved == \A d \in Doc : upload[d] \in {"new", "saved"} => status[d] = "absent"

Kept == \A j \in Job : status[j] = "completed" => status'[j] = "completed"

(* What a step of one task must leave right for its own document.           *)
OwnStep(t) ==
  /\ \A u \in Task : u # t => pc'[u] = pc[u] /\ loaded'[u] = loaded[u]
  /\ \A j \in Job : j # job[t] =>
       status'[j] = status[j] /\ reason'[j] = reason[j] /\ copies'[j] = copies[j]
  /\ pc'[t] # "idle"
  /\ RowOK(job[t])' /\ Known(t)'
  /\ status[job[t]] = "completed" => status'[job[t]] = "completed"

LEMMA OwnStepAlone ==
  ASSUME TypeInv, Safe, Alone, NEW t \in Task, pc[t] # "idle", Working(t),
         Exclusive => OwnStep(t)
  PROVE  Alone' /\ (Exclusive' => Kept)
  <1>1. UNCHANGED <<message, job, live, spent>> /\ (Exclusive' => Exclusive)
    BY DEF Working, Exclusive
  <1>2. SUFFICES ASSUME Exclusive
                 PROVE  /\ \A j \in Job : RowOK(j)'
                        /\ \A u \in Task : pc'[u] # "idle" => live'[u] /\ Known(u)'
                        /\ Kept
    BY <1>1 DEF Alone
  <1>3. \A u \in Task : u # t /\ pc[u] # "idle" => job[u] # job[t]
    BY <1>2 DEF Alone, Safe, DeliveryOK
  <1>4. ASSUME NEW j \in Job
        PROVE  RowOK(j)' /\ (status[j] = "completed" => status'[j] = "completed")
    <2>1. CASE j = job[t]
      BY <1>1, <1>2, <2>1 DEF OwnStep, RowOK, Columns
    <2>2. CASE j # job[t]
      BY <1>1, <1>2, <2>2 DEF OwnStep, Alone, RowOK, Columns
    <2> QED
      BY <2>1, <2>2
  <1>5. ASSUME NEW u \in Task, pc'[u] # "idle"
        PROVE  live'[u] /\ Known(u)'
    <2>1. CASE u = t
      BY <1>1, <1>2, <2>1 DEF OwnStep, Alone
    <2>2. CASE u # t
      <3>1. pc'[u] = pc[u] /\ loaded'[u] = loaded[u] /\ job'[u] = job[u] /\ job[u] \in Job
        BY <1>1, <1>2, <1>5, <2>2 DEF OwnStep, TypeInv, TaskOK
      <3>2. /\ status'[job[u]] = status[job[u]] /\ reason'[job[u]] = reason[job[u]]
            /\ copies'[job[u]] = copies[job[u]]
        BY <1>2, <1>3, <1>5, <2>2, <3>1 DEF OwnStep
      <3>3. live[u] /\ Known(u)
        BY <1>2, <1>5, <3>1 DEF Alone
      <3> QED
        BY <1>1, <3>1, <3>2, <3>3 DEF Known, Columns
    <2> QED
      BY <2>1, <2>2
  <1> QED
    BY <1>4, <1>5 DEF Kept

LEMMA UpdateAlone ==
  ASSUME TypeInv, NEW j \in Job, NEW to \in Row, Update(j, Columns(j), to)
  PROVE  /\ status'[j] = to.status /\ reason'[j] = to.reason
         /\ \A i \in Job : i # j => status'[i] = status[i] /\ reason'[i] = reason[i]
  BY DEF TypeInv, TypeOK, Update, Columns

LEMMA RaisesAlone ==
  ASSUME TypeInv, NEW t \in Task, NEW e \in Error, HandlerRaises(t, e)
  PROVE  /\ \A u \in Task : u # t => pc'[u] = pc[u] /\ loaded'[u] = loaded[u]
         /\ pc'[t] \in {"load", "failLoad"}
         /\ Known(t)'
  <1>1. /\ \A u \in Task : u # t => pc'[u] = pc[u] /\ loaded'[u] = loaded[u]
        /\ pc'[t] \in {"load", "failLoad"}
    BY DEF TypeInv, TypeOK, HandlerRaises, Goto
  <1> QED
    BY <1>1 DEF Known, Reading

LEMMA ProceedsAlone ==
  ASSUME TypeInv, NEW t \in Task, NEW label, Proceed(t, label)
  PROVE  (\A u \in Task : u # t => pc'[u] = pc[u]) /\ pc'[t] = label
  BY DEF TypeInv, TypeOK, Proceed, Goto

LEMMA FailsAlone ==
  ASSUME TypeInv, Alone, Exclusive, NEW t \in Task, pc[t] # "idle", HandlerFails(t), Working(t)
  PROVE  OwnStep(t)
  <1>1. UNCHANGED <<status, reason, copies, message>> /\ job'[t] = job[t] /\ job[t] \in Job
    BY DEF HandlerFails, Working, row, TypeInv, TaskOK
  <1>2. RowOK(job[t])'
    BY <1>1 DEF Alone, RowOK, Columns, Working
  <1> QED
    BY <1>1, <1>2, RaisesAlone DEF HandlerFails, OwnStep

(* A commit of the row by a task that is alone with it.                     *)
LEMMA CommitsAlone ==
  ASSUME TypeInv, Alone, Exclusive, NEW t \in Task, pc[t] \in Reading, live[t],
         message[job[t]] = "out", Working(t),
         NEW to \in Row, to.reason # NoReason => to.status = "failed",
         to.status = "failed" => copies[job[t]] = 0,
         status[job[t]] = "completed" => to.status = "completed",
         Update(job[t], loaded[t], to), UNCHANGED copies
  PROVE  /\ Columns(job[t])' = to
         /\ \A j \in Job : j # job[t] =>
              status'[j] = status[j] /\ reason'[j] = reason[j] /\ copies'[j] = copies[j]
         /\ RowOK(job[t])'
         /\ status[job[t]] = "completed" => status'[job[t]] = "completed"
  <1>1. job[t] \in Job /\ loaded[t] = Columns(job[t]) /\ UNCHANGED <<job, message>>
    BY DEF TypeInv, TaskOK, Reading, Alone, Known, Working
  <1>2. /\ status'[job[t]] = to.status /\ reason'[job[t]] = to.reason
        /\ \A i \in Job : i # job[t] => status'[i] = status[i] /\ reason'[i] = reason[i]
    BY <1>1, UpdateAlone
  <1>3. Columns(job[t])' = to
    BY <1>1, <1>2 DEF Columns, Row
  <1>4. RowOK(job[t])'
    BY <1>1, <1>2 DEF RowOK
  <1> QED
    BY <1>2, <1>3, <1>4

LEMMA HandlerCommitsAlone ==
  ASSUME TypeInv, Alone, Exclusive, NEW t \in Task, pc[t] \in Reading, live[t],
         message[job[t]] = "out", Working(t),
         NEW to \in Row, to.reason = NoReason, to.status # "failed",
         status[job[t]] = "completed" => to.status = "completed",
         NEW label \in {"ack", "extract"},
         label = "ack" => to = Completed,
         label = "extract" => to.status = "processing" /\ copies[job[t]] = 0,
         HandlerCommits(t, to, label)
  PROVE  OwnStep(t)
  <1>1. CASE HandlerFails(t)
    BY <1>1, FailsAlone DEF Reading
  <1>2. CASE Update(job[t], loaded[t], to) /\ UNCHANGED copies
    <2>1. /\ Columns(job[t])' = to
          /\ \A j \in Job : j # job[t] =>
               status'[j] = status[j] /\ reason'[j] = reason[j] /\ copies'[j] = copies[j]
          /\ RowOK(job[t])'
          /\ status[job[t]] = "completed" => status'[job[t]] = "completed"
      BY <1>2, CommitsAlone
    <2>2. CASE HandlerRaises(t, "retryable")
      <3>1. "retryable" \in Error
        BY DEF Error
      <3> QED
        BY <2>1, <2>2, <3>1, RaisesAlone DEF OwnStep
    <2>3. CASE Proceed(t, label) /\ loaded' = [loaded EXCEPT ![t] = to]
      <3>1. /\ \A u \in Task : u # t => pc'[u] = pc[u] /\ loaded'[u] = loaded[u]
            /\ pc'[t] = label /\ loaded'[t] = to
        BY <2>3, ProceedsAlone DEF TypeInv, TypeOK
      <3>2. job'[t] = job[t] /\ copies' = copies
        BY <1>2 DEF Working
      <3>3. Known(t)'
        BY <2>1, <3>1, <3>2 DEF Known, Reading, Columns
      <3> QED
        BY <2>1, <3>1, <3>3 DEF OwnStep
    <2> QED
      BY <1>1, <2>2, <2>3, FailsAlone DEF HandlerCommits, Reading
  <1> QED
    BY <1>1, <1>2 DEF HandlerCommits

(* A step that only reads and goes on.                                      *)
LEMMA ReadsAlone ==
  ASSUME TypeInv, Alone, Exclusive, NEW t \in Task, pc[t] # "idle", Working(t),
         NEW label, label # "idle", Proceed(t, label), UNCHANGED row,
         loaded' = loaded \/ loaded' = [loaded EXCEPT ![t] = Columns(job[t])],
         label \in Reading => loaded'[t] = Columns(job[t]),
         label \in {"begin", "extract", "store", "recordFailure"} => copies[job[t]] = 0,
         label \in {"extract", "store"} => status[job[t]] = "processing",
         label = "ack" => Columns(job[t]) = Completed
  PROVE  OwnStep(t)
  <1>1. /\ UNCHANGED <<status, reason, copies, message>>
        /\ job'[t] = job[t] /\ job[t] \in Job
        /\ pc'[t] = label
        /\ \A u \in Task : u # t => pc'[u] = pc[u] /\ loaded'[u] = loaded[u]
    BY ProceedsAlone DEF Working, row, TypeInv, TypeOK, TaskOK
  <1>2. RowOK(job[t])'
    BY <1>1 DEF Alone, RowOK, Columns
  <1>3. Known(t)'
    BY <1>1 DEF Known, Columns
  <1> QED
    BY <1>1, <1>2, <1>3 DEF OwnStep

LEMMA HandleAlone ==
  ASSUME TypeInv, Safe, Alone, Exclusive, NEW t \in Task, Handle(t)
  PROVE  OwnStep(t)
  <1>1. pc[t] # "idle" /\ Working(t)
    BY DEF Handle, LoadDocument, CheckChunks, RepairStatus, BeginProcessing,
           ExtractChunks, StoreChunks, FinishDocument
  <1>2. job[t] \in Job /\ live[t] /\ Known(t) /\ message[job[t]] = "out" /\ RowOK(job[t])
    BY <1>1 DEF TypeInv, TaskOK, Alone, Safe, DeliveryOK
  <1>3. Completed \in Row /\ Processing \in Row
    BY DEF Completed, Processing, Row, Status
  <1>4. CASE HandlerFails(t)
    BY <1>1, <1>4, FailsAlone
  <1>5. CASE LoadDocument(t) /\ ~ HandlerFails(t)
    <2>1. /\ loaded' = [loaded EXCEPT ![t] = Columns(job[t])]
          /\ loaded'[t] = Columns(job[t])
      BY <1>5 DEF LoadDocument, Load, TypeInv, TypeOK
    <2> QED
      BY <1>1, <1>5, <2>1, ReadsAlone DEF LoadDocument
  <1>6. CASE CheckChunks(t) /\ ~ HandlerFails(t)
    <2>1. loaded[t] = Columns(job[t])
      BY <1>2, <1>6 DEF CheckChunks, Known, Reading
    <2>2. copies[job[t]] \in Nat
      BY <1>2 DEF TypeInv, TypeOK
    <2>3. ~ HasChunks(job[t]) => copies[job[t]] = 0
      BY <2>2 DEF HasChunks
    <2> QED
      BY <1>1, <1>6, <2>1, <2>3, ReadsAlone DEF CheckChunks
  <1>7. CASE RepairStatus(t)
    BY <1>1, <1>2, <1>3, <1>7, HandlerCommitsAlone DEF RepairStatus, Reading, Completed
  <1>8. CASE BeginProcessing(t)
    <2>1. copies[job[t]] = 0 /\ status[job[t]] # "completed"
      BY <1>2, <1>8 DEF BeginProcessing, Known, Safe, Indexed, CompletedIsIndexed
    <2> QED
      BY <1>1, <1>2, <1>3, <1>8, <2>1, HandlerCommitsAlone
      DEF BeginProcessing, Reading, Processing
  <1>9. CASE ExtractChunks(t) /\ ~ HandlerFails(t)
    <2>1. /\ loaded[t] = Columns(job[t]) /\ copies[job[t]] = 0
          /\ status[job[t]] = "processing"
      BY <1>2, <1>9 DEF ExtractChunks, Known, Reading
    <2> QED
      BY <1>1, <1>9, <2>1, ReadsAlone DEF ExtractChunks
  <1>10. CASE StoreChunks(t) /\ ~ HandlerFails(t)
    <2>1. /\ loaded[t] = Columns(job[t]) /\ copies[job[t]] = 0
          /\ status[job[t]] = "processing"
      BY <1>2, <1>10 DEF StoreChunks, Known, Reading
    <2>2. /\ copies' = [copies EXCEPT ![job[t]] = copies[job[t]] + 1]
          /\ UNCHANGED <<status, reason, message, job>>
      BY <1>1, <1>10 DEF StoreChunks, InsertChunks, Working
    <2>3. RowOK(job[t])' /\ (\A j \in Job : j # job[t] => copies'[j] = copies[j])
      BY <1>2, <2>1, <2>2 DEF RowOK, Columns, TypeInv, TypeOK
    <2>4. CASE Proceed(t, "finish") /\ UNCHANGED loaded
      <3>1. /\ pc'[t] = "finish"
            /\ \A u \in Task : u # t => pc'[u] = pc[u] /\ loaded'[u] = loaded[u]
        BY <2>4, ProceedsAlone
      <3>2. Known(t)'
        BY <2>1, <2>2, <2>4, <3>1 DEF Known, Columns
      <3> QED
        BY <2>2, <2>3, <3>1, <3>2 DEF OwnStep
    <2>5. CASE HandlerRaises(t, "retryable")
      <3>1. "retryable" \in Error
        BY DEF Error
      <3> QED
        BY <2>2, <2>3, <2>5, <3>1, RaisesAlone DEF OwnStep
    <2> QED
      BY <1>10, <2>4, <2>5 DEF StoreChunks
  <1>11. CASE FinishDocument(t)
    BY <1>1, <1>2, <1>3, <1>11, HandlerCommitsAlone DEF FinishDocument, Reading, Completed
  <1> QED
    BY <1>4, <1>5, <1>6, <1>7, <1>8, <1>9, <1>10, <1>11 DEF Handle

LEMMA MarkFailedAlone ==
  ASSUME TypeInv, Safe, Alone, Exclusive, NEW t \in Task, MarkFailed(t)
  PROVE  OwnStep(t)
  <1>1. pc[t] \in {"failLoad", "failCheck", "reconcile", "recordFailure"} /\ Working(t)
    BY DEF MarkFailed, ReloadDocument, RecheckChunks, Reconcile, RecordFailure
  <1>2. /\ job[t] \in Job /\ error[t] \in Error
        /\ live[t] /\ Known(t) /\ message[job[t]] = "out"
    BY <1>1 DEF TypeInv, TypeOK, TaskOK, Alone, Safe, DeliveryOK
  <1>3. CASE MarkFailedRaises(t)
    BY <1>1, <1>3, ReadsAlone DEF MarkFailedRaises, Reading
  <1>4. CASE ReloadDocument(t) /\ ~ MarkFailedRaises(t)
    <2>1. /\ loaded' = [loaded EXCEPT ![t] = Columns(job[t])]
          /\ loaded'[t] = Columns(job[t])
      BY <1>4 DEF ReloadDocument, Load, TypeInv, TypeOK
    <2> QED
      BY <1>1, <1>4, <2>1, ReadsAlone DEF ReloadDocument
  <1>5. CASE RecheckChunks(t) /\ ~ MarkFailedRaises(t)
    <2>1. loaded[t] = Columns(job[t])
      BY <1>2, <1>5 DEF RecheckChunks, Known, Reading
    <2>2. copies[job[t]] \in Nat
      BY <1>2 DEF TypeInv, TypeOK
    <2>3. ~ HasChunks(job[t]) => copies[job[t]] = 0
      BY <2>2 DEF HasChunks
    <2> QED
      BY <1>1, <1>5, <2>1, <2>3, ReadsAlone DEF RecheckChunks
  <1>6. ASSUME NEW to \in Row, to.reason # NoReason => to.status = "failed",
               to.status = "failed" => copies[job[t]] = 0,
               status[job[t]] = "completed" => to.status = "completed",
               pc[t] \in Reading,
               NEW label \in {"ack", "reject"}, label = "ack" => to = Completed,
               MarkFailedCommits(t, to, label), ~ MarkFailedRaises(t)
        PROVE  OwnStep(t)
    <2>1. Update(job[t], loaded[t], to) /\ UNCHANGED <<copies, loaded>>
      BY <1>6 DEF MarkFailedCommits
    <2>2. PICK next \in {label, "reject"} : Proceed(t, next)
      BY <1>6 DEF MarkFailedCommits
    <2>3. /\ Columns(job[t])' = to
          /\ \A j \in Job : j # job[t] =>
               status'[j] = status[j] /\ reason'[j] = reason[j] /\ copies'[j] = copies[j]
          /\ RowOK(job[t])'
          /\ status[job[t]] = "completed" => status'[job[t]] = "completed"
      BY <1>1, <1>2, <1>6, <2>1, CommitsAlone
    <2>4. /\ pc'[t] = next /\ next \in {"ack", "reject"} /\ (next = "ack" => to = Completed)
          /\ \A u \in Task : u # t => pc'[u] = pc[u] /\ loaded'[u] = loaded[u]
      BY <1>6, <2>1, <2>2, ProceedsAlone
    <2>5. Known(t)'
      BY <2>3, <2>4 DEF Known, Reading
    <2> QED
      BY <2>3, <2>4, <2>5 DEF OwnStep
  <1>7. CASE Reconcile(t)
    <2>1. Completed \in Row /\ Completed.status = "completed" /\ Completed.reason = NoReason
      BY DEF Completed, Row, Status
    <2> QED
      BY <1>3, <1>6, <1>7, <2>1 DEF Reconcile, Reading
  <1>8. CASE RecordFailure(t)
    <2>1. Failed(error[t]) \in Row /\ Failed(error[t]).status = "failed"
      BY <1>2 DEF Failed, Row, Status
    <2>2. copies[job[t]] = 0 /\ status[job[t]] # "completed"
      BY <1>2, <1>8 DEF RecordFailure, Known, Safe, Indexed, CompletedIsIndexed
    <2> QED
      BY <1>3, <1>6, <1>8, <2>1, <2>2 DEF RecordFailure, Reading
  <1> QED
    BY <1>3, <1>4, <1>5, <1>7, <1>8 DEF MarkFailed

(* Neither the broker nor an interruption touches a row.                    *)
LEMMA BrokerAlone ==
  ASSUME TypeInv, Safe, Alone, UNCHANGED row,
         \/ \E t \in Task, j \in Job : Deliver(t, j)
         \/ \E t \in Task : Settle(t) \/ Crash(t) \/ Disconnect(t)
         \/ \E j \in Job : Replay(j)
  PROVE  Alone' /\ Kept
  <1>0. Kept /\ UNCHANGED <<status, reason, copies>>
    BY DEF Kept, row
  <1>1. ASSUME NEW t \in Task, NEW j \in Job, Deliver(t, j) PROVE Alone'
    <2>1. /\ message[j] = "ready" /\ message' = [message EXCEPT ![j] = "out"]
          /\ UNCHANGED spent
          /\ pc'[t] \in {"load", "reject"} /\ live'[t] = TRUE
          /\ \A u \in Task : u # t =>
               pc'[u] = pc[u] /\ job'[u] = job[u] /\ live'[u] = live[u] /\ loaded'[u] = loaded[u]
      BY <1>1 DEF Deliver, Goto, TypeInv, TypeOK
    <2>2. \A i \in Job : RowOK(i) => RowOK(i)'
      BY <1>0, <2>1 DEF RowOK, Columns, TypeInv, TypeOK
    <2>3. Known(t)'
      BY <2>1 DEF Known, Reading
    <2>4. \A u \in Task : u # t /\ Known(u) => Known(u)'
      BY <1>0, <2>1 DEF Known, Columns
    <2> QED
      BY <2>1, <2>2, <2>3, <2>4 DEF Alone, Exclusive
  <1>2. ASSUME NEW t \in Task, Settle(t) \/ Crash(t) PROVE Alone'
    <2>1. PICK to \in {"ready", "dead", "done"} :
            message' = Settled(t, to) /\ (to = "done" => pc[t] = "ack")
      BY <1>2 DEF Settle, Ack, Reject, Crash
    <2>2. pc[t] # "idle" /\ Release(t) /\ (Exclusive' => Exclusive)
      BY <1>2, LimitAssumption
      DEF Settle, Ack, Reject, Crash, Exclusive, Interrupt, Interruption, TypeInv, TypeOK
    <2>3. /\ pc'[t] = "idle"
          /\ \A u \in Task : u # t =>
               pc'[u] = pc[u] /\ job'[u] = job[u] /\ live'[u] = live[u] /\ loaded'[u] = loaded[u]
      BY <2>2 DEF Release, Goto, TypeInv, TypeOK
    <2>4. \A i \in Job : Exclusive => RowOK(i)'
      <3>1. SUFFICES ASSUME NEW i \in Job, Exclusive
                     PROVE  RowOK(i)'
        OBVIOUS
      <3>2. RowOK(i) /\ Known(t)
        BY <2>2, <3>1 DEF Alone
      <3>3. message'[i] = "done" => message[i] = "done" \/ (i = job[t] /\ pc[t] = "ack")
        BY <2>1 DEF Settled, TypeInv, TypeOK
      <3> QED
        BY <1>0, <3>2, <3>3 DEF RowOK, Known, Columns
    <2>5. \A u \in Task : u # t /\ Known(u) => Known(u)'
      BY <1>0, <2>3 DEF Known, Columns
    <2> QED
      BY <2>2, <2>3, <2>4, <2>5 DEF Alone
  <1>3. ASSUME NEW t \in Task, Disconnect(t) PROVE Alone'
    <2>1. spent'["disconnect"] = spent["disconnect"] + 1 /\ spent["disconnect"] \in Nat
      BY <1>3 DEF Disconnect, Interrupt, Interruption, TypeInv, TypeOK
    <2>2. ~ Exclusive'
      BY <2>1 DEF Exclusive
    <2> QED
      BY <2>2 DEF Alone
  <1>4. ASSUME NEW j \in Job, Replay(j) PROVE Alone'
    <2>1. /\ message[j] = "dead" /\ message' = [message EXCEPT ![j] = "ready"]
          /\ UNCHANGED task
      BY <1>4 DEF Replay
    <2>2. spent'["disconnect"] = spent["disconnect"]
      BY <1>4 DEF Replay, Interrupt, Interruption, TypeInv, TypeOK
    <2>3. \A i \in Job : RowOK(i) => RowOK(i)'
      BY <1>0, <2>1 DEF RowOK, Columns, TypeInv, TypeOK
    <2>4. \A u \in Task : (Known(u) => Known(u)') /\ pc'[u] = pc[u] /\ live'[u] = live[u]
      BY <1>0, <2>1 DEF Known, Columns, task
    <2> QED
      BY <2>2, <2>3, <2>4 DEF Alone, Exclusive
  <1> QED
    BY <1>0, <1>1, <1>2, <1>3, <1>4

(* An upload writes its row before anybody else knows of it.                *)
LEMMA UploadAlone ==
  ASSUME TypeInv, Safe, Alone, Unsaved, NEW d \in Doc, UploadDocument(d) \/ ApiCrash(d)
  PROVE  Alone' /\ Unsaved' /\ Kept
  <1>1. /\ d \in Job /\ UNCHANGED <<copies, reason, task>>
        /\ spent'["disconnect"] = spent["disconnect"]
    BY DEF Job, UploadDocument, SaveFile, CreateDocument, InsertDocument, PublishJob, ApiCrash,
           SetUpload, row, Interrupt, Interruption, TypeInv, TypeOK
  <1>2. \/ UNCHANGED status
        \/ status' = [status EXCEPT ![d] = "pending"] /\ upload[d] = "saved"
    BY DEF UploadDocument, SaveFile, CreateDocument, InsertDocument, PublishJob, ApiCrash,
           SetUpload, row
  <1>3. upload[d] = "saved" => status[d] = "absent" /\ message[d] = "none"
    BY DEF Unsaved, Safe, UploadOK
  <1>4. \A j \in Job : message'[j] = "done" => message[j] = "done"
    BY <1>1
    DEF UploadDocument, SaveFile, CreateDocument, PublishJob, ApiCrash, Enqueue, TypeInv, TypeOK
  <1>5. \A j \in Job : RowOK(j) => RowOK(j)'
    BY <1>1, <1>2, <1>3, <1>4 DEF RowOK, Columns, TypeInv, TypeOK
  <1>6. ASSUME NEW t \in Task, pc[t] # "idle", Known(t)
        PROVE  Known(t)'
    <2>1. job[t] \in Job /\ message[job[t]] # "none"
      BY <1>6 DEF TypeInv, TaskOK, Safe, DeliveryOK
    <2>2. status'[job[t]] = status[job[t]]
      BY <1>2, <1>3, <2>1 DEF TypeInv, TypeOK
    <2> QED
      BY <1>1, <1>6, <2>2 DEF Known, Columns, task
  <1>7. Alone'
    BY <1>1, <1>5, <1>6 DEF Alone, Exclusive, task
  <1>8. Kept
    BY <1>2, <1>3 DEF Kept, TypeInv, TypeOK
  <1>9. Unsaved'
    <2>1. \A e \in Doc : upload'[e] \in {"new", "saved"} => upload[e] \in {"new", "saved"}
      BY DEF UploadDocument, SaveFile, CreateDocument, PublishJob, ApiCrash, SetUpload,
             TypeInv, TypeOK
    <2>2. status' # status => upload'[d] \notin {"new", "saved"}
      BY DEF UploadDocument, SaveFile, CreateDocument, PublishJob, ApiCrash, SetUpload, row,
             TypeInv, TypeOK
    <2>3. \A e \in Doc : e # d => status'[e] = status[e]
      BY <1>1, <1>2 DEF Job, TypeInv, TypeOK
    <2> QED
      BY <2>1, <2>2, <2>3 DEF Unsaved
  <1> QED
    BY <1>7, <1>8, <1>9

(* A session writes no row but that of its task's job.                      *)
LEMMA WritesOwnRow ==
  ASSUME TypeInv, NEW t \in Task, Handle(t) \/ MarkFailed(t)
  PROVE  \A j \in Job : j # job[t] => status'[j] = status[j]
  <1>1. \A from, to : Update(job[t], from, to) =>
          \A j \in Job : j # job[t] => status'[j] = status[j]
    BY DEF Update, TypeInv, TypeOK
  <1>2. UNCHANGED status \/ \E from, to : Update(job[t], from, to)
    BY DEF Handle, LoadDocument, CheckChunks, RepairStatus, BeginProcessing, ExtractChunks,
           StoreChunks, InsertChunks, FinishDocument, HandlerCommits, HandlerFails,
           MarkFailed, ReloadDocument, RecheckChunks, Reconcile, RecordFailure,
           MarkFailedCommits, MarkFailedRaises, row
  <1> QED
    BY <1>1, <1>2

AloneInv == Alone /\ Unsaved

LEMMA AloneStep ==
  TypeInv /\ TypeInv' /\ Safe /\ AloneInv /\ [Next]_vars => AloneInv' /\ (Exclusive' => Kept)
  <1> SUFFICES ASSUME TypeInv, TypeInv', Safe, AloneInv, [Next]_vars
               PROVE  AloneInv' /\ (Exclusive' => Kept)
    OBVIOUS
  <1> USE DEF AloneInv
  <1>1. CASE UNCHANGED vars
    <2>1. UNCHANGED <<upload, status, reason, copies, message, pc, job, live, loaded, spent>>
      BY <1>1 DEF vars, row, task
    <2>2. Alone'
      BY <2>1 DEF Alone, Exclusive, RowOK, Known, Columns
    <2> QED
      BY <2>1, <2>2 DEF Unsaved, Kept
  <1>2. ASSUME NEW d \in Doc, UploadDocument(d) \/ ApiCrash(d)
        PROVE  AloneInv' /\ Kept
    BY <1>2, UploadAlone
  <1>3. ASSUME UNCHANGED <<upload, row>>,
               \/ \E t \in Task, j \in Job : Deliver(t, j)
               \/ \E t \in Task : Settle(t) \/ Crash(t) \/ Disconnect(t)
               \/ \E j \in Job : Replay(j)
        PROVE  AloneInv' /\ Kept
    BY <1>3, BrokerAlone DEF Unsaved, row
  <1>4. ASSUME NEW t \in Task, Handle(t) \/ MarkFailed(t)
        PROVE  AloneInv' /\ (Exclusive' => Kept)
    <2>1. pc[t] # "idle" /\ Working(t)
      BY <1>4
      DEF Handle, LoadDocument, CheckChunks, RepairStatus, BeginProcessing, ExtractChunks,
          StoreChunks, FinishDocument, MarkFailed, ReloadDocument, RecheckChunks, Reconcile,
          RecordFailure
    <2>2. Exclusive => OwnStep(t)
      BY <1>4, HandleAlone, MarkFailedAlone
    <2>3. Alone' /\ (Exclusive' => Kept)
      BY <2>1, <2>2, OwnStepAlone
    <2>4. \A d \in Doc : d # job[t] \/ upload[d] \notin {"new", "saved"}
      BY <2>1 DEF Safe, DeliveryOK, UploadOK
    <2>5. \A d \in Doc : d # job[t] => status'[d] = status[d]
      BY <1>4, <2>1, WritesOwnRow DEF Job
    <2>6. Unsaved'
      BY <2>1, <2>4, <2>5 DEF Unsaved, Working
    <2> QED
      BY <2>3, <2>6
  <1> QED
    BY <1>1, <1>2, <1>3, <1>4
    DEF Next, Deliver, Settle, Ack, Reject, Crash, Disconnect, Replay

LEMMA AloneInvariant == Spec => []AloneInv
  <1>1. Init => AloneInv
    <2> SUFFICES ASSUME Init PROVE AloneInv
      OBVIOUS
    <2>1. Alone
      BY DEF Init, Alone, RowOK
    <2>2. Unsaved
      BY DEF Init, Unsaved, Job
    <2> QED
      BY <2>1, <2>2 DEF AloneInv
  <1> QED
    BY <1>1, AloneStep, TypeInvariant, SafeInvariant, PTL DEF Spec

(* As long as no channel was lost, failure_reason is null unless the        *)
(* document failed.                                                         *)
THEOREM ReasonsBelongToFailures == Spec => []ReasonOnlyWhenFailed
  <1>1. AloneInv => ReasonOnlyWhenFailed
    BY DEF AloneInv, Alone, RowOK, ReasonOnlyWhenFailed
  <1> QED
    BY <1>1, AloneInvariant, PTL

(* As long as no channel was lost, mark_failed never gives up a document    *)
(* whose chunks are committed.                                              *)
THEOREM FailedDocumentsAreUnindexed == Spec => []FailedIsUnindexed
  <1>1. AloneInv => FailedIsUnindexed
    BY DEF AloneInv, Alone, RowOK, FailedIsUnindexed
  <1> QED
    BY <1>1, AloneInvariant, PTL

(* As long as no channel was lost, an acknowledged job leaves its row       *)
(* completed and without a reason.                                          *)
THEOREM AcknowledgedDocumentsAreCompleted == Spec => []AcknowledgedIsCompleted
  <1>1. AloneInv => AcknowledgedIsCompleted
    BY DEF AloneInv, Alone, RowOK, AcknowledgedIsCompleted
  <1> QED
    BY <1>1, AloneInvariant, PTL

(* As long as deliveries do not overlap, the row tells the truth.           *)
THEOREM RowsTellTheTruth == Spec => []RowsAreTrue
  <1>1. ReasonOnlyWhenFailed /\ FailedIsUnindexed /\ AcknowledgedIsCompleted => RowsAreTrue
    BY DEF RowsAreTrue
  <1> QED
    BY ReasonsBelongToFailures, FailedDocumentsAreUnindexed,
       AcknowledgedDocumentsAreCompleted, <1>1, PTL

(* As long as no channel was lost, no redelivery, replay or crash takes a   *)
(* completed document back.                                                 *)
THEOREM CompletedDocumentsStay == Spec => CompletedIsFinal
  <1>1. TypeInv /\ TypeInv' /\ Safe /\ AloneInv /\ [Next]_vars =>
          [Exclusive' => \A j \in Job : status[j] = "completed" => status'[j] = "completed"]_vars
    BY AloneStep DEF Kept
  <1> QED
    BY <1>1, TypeInvariant, SafeInvariant, AloneInvariant, PTL DEF Spec, CompletedIsFinal
-----------------------------------------------------------------------------
(* The retry loop runs out.                                                *)

(* Where process_message is in an attempt of handle, and where it is once   *)
(* it has given the document up.                                            *)
Attempting == {"load", "check", "repair", "begin", "extract", "store", "finish"}

GivingUp == {"failLoad", "failCheck", "reconcile", "recordFailure"}

(* What a step of process_message does to the place of the task: it leaves  *)
(* the delivery, it gets on in the attempt, or it begins the next one.      *)
Leaves(t) == pc'[t] = "idle"

GetsOn(t) ==
  /\ pc'[t] \in Control \ {"idle"}
  /\ attempt'[t] = attempt[t]
  /\ StepsFrom(pc'[t]) < StepsFrom(pc[t])

TriesAgain(t) ==
  /\ pc[t] \in Attempting
  /\ attempt[t] < MaxAttempts
  /\ attempt'[t] = attempt[t] + 1
  /\ pc'[t] = "load"

Advances(t) == Leaves(t) \/ GetsOn(t) \/ TriesAgain(t)

LEMMA StepsFromType ==
  ASSUME NEW label \in Control
  PROVE  /\ StepsFrom(label) \in 0 .. 10
         /\ label # "idle" => StepsFrom(label) > 0
         /\ label \in Attempting => StepsFrom(label) >= 5
  <1>1. CASE label \in Attempting
    <2>1. StepsFrom(label) \in {5, 6, 7, 8, 9, 10}
      BY <1>1 DEF StepsFrom, Attempting
    <2> QED
      BY <2>1
  <1>2. CASE label \in GivingUp
    <2>1. StepsFrom(label) \in {2, 3, 4} /\ label \notin Attempting
      BY <1>2 DEF StepsFrom, GivingUp, Attempting
    <2> QED
      BY <2>1
  <1>3. CASE label \in {"ack", "reject"}
    <2>1. StepsFrom(label) = 1 /\ label \notin Attempting
      BY <1>3 DEF StepsFrom, Attempting
    <2> QED
      BY <2>1
  <1>4. CASE label = "idle"
    <2>1. StepsFrom(label) = 0 /\ label \notin Attempting
      BY <1>4 DEF StepsFrom, Attempting
    <2> QED
      BY <1>4, <2>1
  <1> QED
    BY <1>1, <1>2, <1>3, <1>4 DEF Control, Attempting, GivingUp

LEMMA RaisesAdvances ==
  ASSUME TypeInv, NEW t \in Task, NEW e \in Error, pc[t] \in Attempting, HandlerRaises(t, e)
  PROVE  Advances(t)
  <1>1. CASE e = "retryable" /\ attempt[t] < MaxAttempts
    <2>1. attempt' = [attempt EXCEPT ![t] = attempt[t] + 1] /\ pc' = [pc EXCEPT ![t] = "load"]
      BY <1>1 DEF HandlerRaises, Goto
    <2>2. attempt'[t] = attempt[t] + 1 /\ pc'[t] = "load"
      BY <2>1 DEF TypeInv, TypeOK
    <2> QED
      BY <1>1, <2>2 DEF Advances, TriesAgain
  <1>2. CASE ~ (e = "retryable" /\ attempt[t] < MaxAttempts)
    <2>1. attempt' = attempt /\ pc' = [pc EXCEPT ![t] = "failLoad"]
      BY <1>2 DEF HandlerRaises, Goto
    <2>2. attempt'[t] = attempt[t] /\ pc'[t] = "failLoad"
      BY <2>1 DEF TypeInv, TypeOK
    <2>3. StepsFrom("failLoad") < StepsFrom(pc[t])
      BY DEF StepsFrom, Attempting
    <2> QED
      BY <2>2, <2>3 DEF Advances, GetsOn, Control
  <1> QED
    BY <1>1, <1>2

LEMMA ProceedsAdvances ==
  ASSUME TypeInv, NEW t \in Task, NEW label \in Control \ {"idle"},
         Proceed(t, label), StepsFrom(label) < StepsFrom(pc[t])
  PROVE  Advances(t)
  BY DEF TypeInv, TypeOK, Proceed, Goto, Advances, GetsOn

LEMMA HandleAdvances ==
  ASSUME TypeInv, NEW t \in Task, Handle(t)
  PROVE  Advances(t)
  <1>1. pc[t] \in Attempting
    BY DEF Handle, LoadDocument, CheckChunks, RepairStatus, BeginProcessing,
           ExtractChunks, StoreChunks, FinishDocument, Attempting
  <1>2. CASE \E e \in Error : HandlerRaises(t, e)
    BY <1>1, <1>2, RaisesAdvances
  <1>3. CASE \E label \in Control \ {"idle"} :
               Proceed(t, label) /\ StepsFrom(label) < StepsFrom(pc[t])
    BY <1>3, ProceedsAdvances
  <1>4. "retryable" \in Error
    BY DEF Error
  <1>5. CASE LoadDocument(t)
    BY <1>2, <1>3, <1>5 DEF LoadDocument, HandlerFails, Control, StepsFrom
  <1>6. CASE CheckChunks(t)
    BY <1>2, <1>3, <1>6 DEF CheckChunks, HandlerFails, Control, StepsFrom
  <1>7. CASE RepairStatus(t)
    BY <1>2, <1>3, <1>4, <1>7 DEF RepairStatus, HandlerCommits, HandlerFails, Control, StepsFrom
  <1>8. CASE BeginProcessing(t)
    BY <1>2, <1>3, <1>4, <1>8 DEF BeginProcessing, HandlerCommits, HandlerFails, Control, StepsFrom
  <1>9. CASE ExtractChunks(t)
    BY <1>2, <1>3, <1>9 DEF ExtractChunks, HandlerFails, Control, StepsFrom
  <1>10. CASE StoreChunks(t)
    BY <1>2, <1>3, <1>4, <1>10 DEF StoreChunks, HandlerFails, Control, StepsFrom
  <1>11. CASE FinishDocument(t)
    BY <1>2, <1>3, <1>4, <1>11 DEF FinishDocument, HandlerCommits, HandlerFails, Control, StepsFrom
  <1> QED
    BY <1>5, <1>6, <1>7, <1>8, <1>9, <1>10, <1>11 DEF Handle

LEMMA MarkFailedAdvances ==
  ASSUME TypeInv, NEW t \in Task, MarkFailed(t)
  PROVE  Advances(t)
  <1>1. \E label \in Control \ {"idle"} :
          Proceed(t, label) /\ StepsFrom(label) < StepsFrom(pc[t])
    <2> USE DEF Control, StepsFrom, MarkFailedRaises
    <2>1. CASE ReloadDocument(t)
      BY <2>1 DEF ReloadDocument
    <2>2. CASE RecheckChunks(t)
      BY <2>2 DEF RecheckChunks
    <2>3. CASE Reconcile(t)
      BY <2>3 DEF Reconcile, MarkFailedCommits
    <2>4. CASE RecordFailure(t)
      BY <2>4 DEF RecordFailure, MarkFailedCommits
    <2> QED
      BY <2>1, <2>2, <2>3, <2>4 DEF MarkFailed
  <1> QED
    BY <1>1, ProceedsAdvances

LEMMA SettleAdvances ==
  ASSUME TypeInv, NEW t \in Task, Settle(t)
  PROVE  Advances(t) /\ pc[t] # "idle"
  BY DEF TypeInv, TypeOK, Settle, Ack, Reject, Release, Goto, Advances, Leaves

LEMMA RemainingType ==
  ASSUME TypeInv, NEW t \in Task
  PROVE  /\ Remaining(t) \in 0 .. 6 * MaxAttempts + 4
         /\ pc[t] # "idle" => Remaining(t) > 0
  <1>1. /\ attempt[t] \in 1 .. MaxAttempts
        /\ StepsFrom(pc[t]) \in 0 .. 10
        /\ pc[t] # "idle" => StepsFrom(pc[t]) > 0
    BY StepsFromType DEF TypeInv, TypeOK
  <1> QED
    BY <1>1, AttemptAssumption DEF Remaining

(* Whatever a step of the task does, it has fewer steps left.               *)
LEMMA AdvancesCosts ==
  ASSUME TypeInv, NEW t \in Task, pc[t] # "idle", Advances(t)
  PROVE  Remaining(t)' \in Nat /\ Remaining(t)' < Remaining(t)
  <1>1. /\ attempt[t] \in 1 .. MaxAttempts /\ pc[t] \in Control
        /\ Remaining(t) = 6 * (MaxAttempts - attempt[t]) + StepsFrom(pc[t])
    BY DEF TypeInv, TypeOK, Remaining
  <1>2. CASE Leaves(t)
    <2>1. Remaining(t)' = 0
      BY <1>2 DEF Leaves, Remaining
    <2> QED
      BY <2>1, RemainingType, AttemptAssumption
  <1>3. CASE GetsOn(t)
    <2>1. Remaining(t)' = 6 * (MaxAttempts - attempt[t]) + StepsFrom(pc'[t])
      BY <1>3 DEF GetsOn, Remaining
    <2>2. StepsFrom(pc'[t]) \in 0 .. 10 /\ StepsFrom(pc[t]) \in 0 .. 10
          /\ StepsFrom(pc'[t]) < StepsFrom(pc[t])
      BY <1>1, <1>3, StepsFromType DEF GetsOn
    <2> HIDE DEF StepsFrom
    <2> QED
      BY <1>1, <2>1, <2>2, AttemptAssumption
  <1>4. CASE TriesAgain(t)
    <2>1. Remaining(t)' = 6 * (MaxAttempts - (attempt[t] + 1)) + 10
      BY <1>4 DEF TriesAgain, Remaining, StepsFrom
    <2>2. StepsFrom(pc[t]) \in 0 .. 10 /\ StepsFrom(pc[t]) >= 5
      BY <1>1, <1>4, StepsFromType DEF TriesAgain
    <2> QED
      BY <1>1, <2>1, <2>2, AttemptAssumption
  <1> QED
    BY <1>2, <1>3, <1>4 DEF Advances

(* A step of one task leaves the place of every other alone.                *)
LEMMA OthersStay ==
  ASSUME TypeInv, NEW t \in Task, NEW u \in Task, u # t,
         Handle(t) \/ MarkFailed(t) \/ Settle(t) \/ Crash(t) \/ Disconnect(t)
         \/ \E j \in Job : Deliver(t, j)
  PROVE  pc'[u] = pc[u] /\ attempt'[u] = attempt[u]
  <1> USE DEF TypeInv, TypeOK, Goto
  <1>1. ASSUME NEW e, HandlerRaises(t, e) PROVE pc'[u] = pc[u] /\ attempt'[u] = attempt[u]
    BY <1>1 DEF HandlerRaises
  <1>2. ASSUME NEW label, Proceed(t, label) PROVE pc'[u] = pc[u] /\ attempt'[u] = attempt[u]
    BY <1>2 DEF Proceed
  <1>3. CASE Release(t)
    BY <1>3 DEF Release
  <1>4. CASE Handle(t)
    BY <1>1, <1>2, <1>4 DEF Handle, LoadDocument, CheckChunks, RepairStatus, BeginProcessing,
       ExtractChunks, StoreChunks, FinishDocument, HandlerCommits, HandlerFails
  <1>5. CASE MarkFailed(t)
    BY <1>2, <1>5 DEF MarkFailed, ReloadDocument, RecheckChunks, Reconcile, RecordFailure,
       MarkFailedCommits, MarkFailedRaises
  <1>6. CASE Settle(t) \/ Crash(t)
    BY <1>3, <1>6 DEF Settle, Ack, Reject, Crash
  <1>7. CASE Disconnect(t) \/ \E j \in Job : Deliver(t, j)
    BY <1>7 DEF Disconnect, Deliver
  <1> QED
    BY <1>4, <1>5, <1>6, <1>7

(* A delivery is settled within six steps of its task for every attempt and *)
(* four more, however often other tasks, requests and failures come between *)
(* them: the retry loop of process_message is bounded.                      *)
THEOREM DeliveriesEnd ==
  Spec => /\ [](\A t \in Task : Remaining(t) \in 0 .. 6 * MaxAttempts + 4)
          /\ DeliveriesRunOut
  <1>1. TypeInv => \A t \in Task : Remaining(t) \in 0 .. 6 * MaxAttempts + 4
    BY RemainingType
  <1>2. ASSUME TypeInv, Next, NEW t \in Task,
               Handle(t) \/ MarkFailed(t) \/ Settle(t)
        PROVE  Remaining(t)' \in Nat /\ Remaining(t)' < Remaining(t)
    <2>1. pc[t] # "idle"
      BY <1>2 DEF Handle, LoadDocument, CheckChunks, RepairStatus, BeginProcessing,
         ExtractChunks, StoreChunks, FinishDocument, MarkFailed, ReloadDocument, RecheckChunks,
         Reconcile, RecordFailure, Settle, Ack, Reject
    <2> QED
      BY <1>2, <2>1, HandleAdvances, MarkFailedAdvances, SettleAdvances, AdvancesCosts
  <1>3. ASSUME TypeInv, Next, NEW t \in Task, pc[t] # "idle"
        PROVE  Remaining(t)' <= Remaining(t)
    <2>1. Remaining(t) \in Nat
      BY <1>3, RemainingType, AttemptAssumption
    <2>2. CASE pc'[t] = pc[t] /\ attempt'[t] = attempt[t]
      BY <2>1, <2>2 DEF Remaining
    <2>3. CASE Handle(t) \/ MarkFailed(t) \/ Settle(t)
      <3>1. Remaining(t)' \in Nat /\ Remaining(t)' < Remaining(t)
        BY <1>2, <1>3, <2>3
      <3> QED
        BY <2>1, <3>1
    <2>4. CASE Crash(t)
      <3>1. Remaining(t)' = 0
        BY <1>3, <2>4 DEF TypeInv, TypeOK, Crash, Release, Goto, Remaining
      <3> QED
        BY <2>1, <3>1
    <2>5. CASE Disconnect(t) \/ \E j \in Job : Replay(j)
      BY <2>2, <2>5 DEF Disconnect, Replay, task
    <2>6. CASE \E d \in Doc : UploadDocument(d) \/ ApiCrash(d)
      BY <2>2, <2>6 DEF UploadDocument, SaveFile, CreateDocument, PublishJob, SetUpload,
         ApiCrash, task
    <2>7. CASE \E u \in Task : u # t /\ (\/ Handle(u) \/ MarkFailed(u) \/ Settle(u)
                                        \/ Crash(u) \/ Disconnect(u)
                                        \/ \E j \in Job : Deliver(u, j))
      BY <1>3, <2>2, <2>7, OthersStay
    <2>8. CASE \E j \in Job : Deliver(t, j)
      BY <1>3, <2>8 DEF Deliver
    <2> QED
      BY <1>3, <2>3, <2>4, <2>5, <2>6, <2>7, <2>8 DEF Next
  <1>4. TypeInv /\ [Next]_vars =>
          [\A t \in Task :
             /\ Handle(t) \/ MarkFailed(t) \/ Settle(t) => Remaining(t)' < Remaining(t)
             /\ pc[t] # "idle" => Remaining(t)' <= Remaining(t)]_vars
    BY <1>2, <1>3
  <1> QED
    BY TypeInvariant, <1>1, <1>4, PTL DEF Spec, DeliveriesRunOut
-----------------------------------------------------------------------------
(* No job is out of everybody's reach.                                     *)

(* A task lets go of its delivery, which the broker takes back or settles.  *)
LEMMA LetGo ==
  ASSUME TypeInv, OutIsHeld, NEW t \in Task, NEW to \in {"ready", "dead", "done"},
         message' = Settled(t, to),
         \A u \in Task : u # t => live'[u] = live[u] /\ job'[u] = job[u]
  PROVE  OutIsHeld'
  <1> SUFFICES ASSUME NEW j \in Job, message'[j] = "out"
               PROVE  \E u \in Task : live'[u] /\ job'[u] = j
    BY DEF OutIsHeld
  <1>1. live[t] => job[t] \in Job
    BY DEF TypeInv, TaskOK
  <1>2. message[j] = "out" /\ ~ (live[t] /\ job[t] = j)
    BY <1>1 DEF Settled, TypeInv, TypeOK
  <1>3. PICK u \in Task : live[u] /\ job[u] = j
    BY <1>2 DEF OutIsHeld
  <1> QED
    BY <1>2, <1>3

LEMMA HeldStep == TypeInv /\ OutIsHeld /\ [Next]_vars => OutIsHeld'
  <1> SUFFICES ASSUME TypeInv, OutIsHeld, [Next]_vars PROVE OutIsHeld'
    OBVIOUS
  <1>1. ASSUME UNCHANGED <<job, live>>, \A j \in Job : message'[j] = "out" => message[j] = "out"
        PROVE  OutIsHeld'
    BY <1>1 DEF OutIsHeld
  <1>2. ASSUME NEW t \in Task, NEW j \in Job, Deliver(t, j) PROVE OutIsHeld'
    <2>1. ~ live[t] /\ live'[t] /\ job'[t] = j
      BY <1>2 DEF Deliver, TypeInv, TypeOK, TaskOK
    <2>2. \A u \in Task : u # t => live'[u] = live[u] /\ job'[u] = job[u]
      BY <1>2 DEF Deliver, TypeInv, TypeOK
    <2>3. \A i \in Job : i # j => message'[i] = message[i]
      BY <1>2 DEF Deliver, TypeInv, TypeOK
    <2> QED
      BY <2>1, <2>2, <2>3 DEF OutIsHeld
  <1>3. ASSUME NEW t \in Task, Release(t)
        PROVE  \A u \in Task : u # t => live'[u] = live[u] /\ job'[u] = job[u]
    BY <1>3 DEF Release, TypeInv, TypeOK
  <1>4. ASSUME NEW t \in Task, Settle(t) PROVE OutIsHeld'
    BY <1>3, <1>4, LetGo DEF Settle, Ack, Reject
  <1>5. ASSUME NEW t \in Task, Crash(t) PROVE OutIsHeld'
    BY <1>3, <1>5, LetGo DEF Crash
  <1>6. ASSUME NEW t \in Task, Disconnect(t) PROVE OutIsHeld'
    <2>1. \A u \in Task : u # t => live'[u] = live[u] /\ job'[u] = job[u]
      BY <1>6 DEF Disconnect, TypeInv, TypeOK
    <2> QED
      BY <1>6, <2>1, LetGo DEF Disconnect
  <1>7. ASSUME NEW j \in Job, Replay(j) PROVE OutIsHeld'
    BY <1>1, <1>7 DEF Replay, task, TypeInv, TypeOK
  <1>8. ASSUME NEW t \in Task, Handle(t) \/ MarkFailed(t) PROVE OutIsHeld'
    <2>1. Working(t)
      BY <1>8 DEF Handle, LoadDocument, CheckChunks, RepairStatus, BeginProcessing,
         ExtractChunks, StoreChunks, FinishDocument, MarkFailed, ReloadDocument, RecheckChunks,
         Reconcile, RecordFailure
    <2> QED
      BY <1>1, <2>1 DEF Working
  <1>9. ASSUME NEW d \in Doc, UploadDocument(d) \/ ApiCrash(d) PROVE OutIsHeld'
    <2>1. message' = message \/ message' = [message EXCEPT ![d] = "ready"]
      BY <1>9 DEF UploadDocument, SaveFile, CreateDocument, PublishJob, Enqueue, ApiCrash
    <2>2. UNCHANGED <<job, live>>
      BY <1>9 DEF UploadDocument, SaveFile, CreateDocument, PublishJob, SetUpload, ApiCrash, task
    <2> QED
      BY <1>1, <2>1, <2>2 DEF TypeInv, TypeOK
  <1>10. CASE UNCHANGED vars
    BY <1>1, <1>10 DEF vars, task
  <1> QED
    BY <1>2, <1>4, <1>5, <1>6, <1>7, <1>8, <1>9, <1>10 DEF Next

(* A job out of the queue is held by a task that can still settle it,       *)
(* whatever crashes, disconnects and redeliveries there were.               *)
THEOREM NoJobIsLost == Spec => []OutIsHeld
  <1>1. Init => OutIsHeld
    BY DEF Init, OutIsHeld
  <1> QED
    BY <1>1, TypeInvariant, HeldStep, PTL DEF Spec

(* Every job finds its row, its file and, once it is out, its task.         *)
THEOREM JobsStayAccountedFor == Spec => []JobsAreAccountedFor
  <1>1. JobHasDocument /\ OutIsHeld => JobsAreAccountedFor
    BY DEF JobsAreAccountedFor
  <1> QED
    BY PublishedJobsHaveDocuments, NoJobIsLost, <1>1, PTL
=============================================================================
