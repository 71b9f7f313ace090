------------------------- MODULE TicketAnalysisProofs -------------------------
(***************************************************************************)
(* Theorems about TicketAnalysis, for every set of tickets, tasks and      *)
(* malformed jobs, every attempt limit and every number of interruptions.  *)
(***************************************************************************)
EXTENDS TicketAnalysis, TLAPS

(* A busy task holds a job, one past the decoding of its body a ticket, and *)
(* a live delivery belongs to a busy task.                                  *)
TaskOK ==
  \A t \in Task :
    /\ pc[t] # "idle" => job[t] \in Job
    /\ pc[t] \notin {"idle", "reject"} => job[t] \in Ticket
    /\ live[t] => pc[t] # "idle"

TypeInv == TypeOK /\ TaskOK

LEMMA InitTypeInv == Init => TypeInv
  <1> SUFFICES ASSUME Init PROVE TypeInv
    OBVIOUS
  <1> USE DEF Init
  <1>1. message \in [Job -> Stage]
    BY DEF Stage
  <1>2. attempt \in [Task -> 1 .. MaxAttempts]
    BY AttemptAssumption
  <1>3. TypeOK
    BY <1>1, <1>2 DEF TypeOK, Request, Control
  <1>4. TaskOK
    BY DEF TaskOK
  <1> QED
    BY <1>3, <1>4 DEF TypeInv

LEMMA InterruptType ==
  ASSUME TypeOK, NEW i \in Interruption, Interrupt(i)
  PROVE  spent' \in [Interruption -> Nat]
  BY DEF TypeOK, Interrupt

LEMMA RequestType ==
  ASSUME TypeInv, NEW k \in Ticket, CreateTicket(k) \/ DeleteTicket(k) \/ ApiCrash(k)
  PROVE  TypeInv'
  <1> USE DEF TypeInv, TypeOK, TaskOK, store, task, SetRequest, Request, Stage, Job
  <1>1. CASE CommitTicket(k)
    BY <1>1 DEF CommitTicket, InsertTicket
  <1>2. CASE AnnounceTicket(k)
    BY <1>2 DEF AnnounceTicket
  <1>3. CASE QueueAnalysis(k)
    BY <1>3 DEF QueueAnalysis, Enqueue
  <1>4. CASE ReplyTicket(k)
    BY <1>4 DEF ReplyTicket
  <1>5. CASE DeleteTicket(k)
    BY <1>5 DEF DeleteTicket
  <1>6. CASE ApiCrash(k)
    BY <1>6 DEF ApiCrash
  <1> QED
    BY <1>1, <1>2, <1>3, <1>4, <1>5, <1>6 DEF CreateTicket

(* The verdict a settlement delivers.                                       *)
LEMMA SettleVerdict ==
  ASSUME NEW t \in Task, Settle(t)
  PROVE  /\ Verdict(t) \in {"ready", "dead", "done"}
         /\ Verdict(t) = "done" => pc[t] = "ack"
  BY DEF Settle, Verdict

LEMMA BrokerType ==
  ASSUME TypeInv
  PROVE  /\ \A t \in Task, j \in Job : Deliver(t, j) => TypeInv'
         /\ \A t \in Task : Settle(t) \/ Crash(t) \/ Disconnect(t) => TypeInv'
         /\ \A j \in Job : Replay(j) => TypeInv'
  <1> USE DEF TypeInv, TypeOK, TaskOK, store, task, Stage, Control, Goto
  <1>1. ASSUME NEW t \in Task, NEW j \in Job, Deliver(t, j) PROVE TypeInv'
    BY <1>1 DEF Deliver, Job
  <1>2. ASSUME NEW t \in Task, Settle(t) PROVE TypeInv'
    <2>1. message' \in [Job -> Stage]
      BY <1>2, SettleVerdict DEF Settle, Settled
    <2> QED
      BY <1>2, <2>1, AttemptAssumption DEF Settle, Release
  <1>3. ASSUME NEW t \in Task, Crash(t) PROVE TypeInv'
    <2>1. message' \in [Job -> Stage]
      BY <1>3 DEF Crash, Settled
    <2>2. spent' \in [Interruption -> Nat]
      BY <1>3, InterruptType DEF Crash, Interruption
    <2> QED
      BY <1>3, <2>1, <2>2, AttemptAssumption DEF Crash, Release
  <1>4. ASSUME NEW t \in Task, Disconnect(t) PROVE TypeInv'
    <2>1. spent' \in [Interruption -> Nat]
      BY <1>4, InterruptType DEF Disconnect, Interruption
    <2> QED
      BY <1>4, <2>1 DEF Disconnect, Settled
  <1>5. ASSUME NEW j \in Job, Replay(j) PROVE TypeInv'
    <2>1. spent' \in [Interruption -> Nat]
      BY <1>5, InterruptType DEF Replay, Interruption
    <2> QED
      BY <1>5, <2>1 DEF Replay
  <1> QED
    BY <1>1, <1>2, <1>3, <1>4, <1>5

LEMMA HandleType ==
  ASSUME TypeInv, NEW t \in Task, Handle(t)
  PROVE  TypeInv'
  <1> USE DEF TypeInv, TypeOK, Goto, Control
  <1>1. /\ pc[t] \in {"load", "find", "analyze", "commit"}
        /\ UNCHANGED <<request, created, message, job, live, spent, events, row>>
    BY DEF Handle, LoadTicket, FindAnalysis, InsertAnalysis, CommitAnalysis, Handling, Working,
           Continue, HandlerFails, StoreAnalysis, store
  <1>2. job[t] \in Ticket /\ analysis[t] \in Nat
    BY <1>1 DEF TaskOK
  <1>3. drawn' \in [Ticket -> Nat]
    <2>1. drawn' = drawn \/ drawn' = [drawn EXCEPT ![job[t]] = drawn[job[t]] + 1]
      BY DEF Handle, LoadTicket, FindAnalysis, InsertAnalysis, CommitAnalysis,
             Continue, HandlerFails, StoreAnalysis, store
    <2> QED
      BY <1>2, <2>1
  <1>4. analyses' \in [Ticket -> SUBSET Nat]
    <2>1. \/ analyses' = analyses
          \/ analyses' = [analyses EXCEPT ![job[t]] = analyses[job[t]] \cup {analysis[t]}]
      BY DEF Handle, LoadTicket, FindAnalysis, InsertAnalysis, CommitAnalysis,
             Continue, HandlerFails, StoreAnalysis, store
    <2> QED
      BY <1>2, <2>1
  <1>5. ASSUME NEW transient, HandlerRaises(t, transient)
        PROVE  /\ pc' \in [Task -> Control] /\ analysis' \in [Task -> Nat]
               /\ attempt' \in [Task -> 1 .. MaxAttempts]
               /\ \A u \in Task : u # t => pc'[u] = pc[u]
               /\ pc'[t] \in {"load", "reject"}
    BY <1>5, AttemptAssumption DEF HandlerRaises
  <1>6. ASSUME NEW n \in Nat, Return(t, n)
        PROVE  /\ pc' \in [Task -> Control] /\ analysis' \in [Task -> Nat]
               /\ attempt' \in [Task -> 1 .. MaxAttempts]
               /\ \A u \in Task : u # t => pc'[u] = pc[u]
               /\ pc'[t] = "publish"
    BY <1>6, AttemptAssumption DEF Return
  <1>7. /\ pc' \in [Task -> Control] /\ analysis' \in [Task -> Nat]
        /\ attempt' \in [Task -> 1 .. MaxAttempts]
        /\ \A u \in Task : u # t => pc'[u] = pc[u]
        /\ pc'[t] # "idle"
    <2>1. CASE HandlerFails(t)
      BY <1>5, <2>1 DEF HandlerFails
    <2>2. CASE LoadTicket(t) /\ ~ HandlerFails(t)
      BY <2>2 DEF LoadTicket, Continue
    <2>3. CASE FindAnalysis(t) /\ ~ HandlerFails(t)
      BY <1>2, <1>6, <2>3 DEF FindAnalysis, Continue
    <2>4. CASE InsertAnalysis(t) /\ ~ HandlerFails(t)
      BY <1>2, <2>4 DEF InsertAnalysis
    <2>5. CASE CommitAnalysis(t) /\ ~ HandlerFails(t)
      BY <1>2, <1>5, <1>6, <2>5 DEF CommitAnalysis
    <2> QED
      BY <2>1, <2>2, <2>3, <2>4, <2>5 DEF Handle
  <1>8. TypeOK'
    BY <1>1, <1>3, <1>4, <1>7
  <1>9. TaskOK'
    BY <1>1, <1>2, <1>7 DEF TaskOK, Job
  <1> QED
    BY <1>8, <1>9

LEMMA PublishType ==
  ASSUME TypeInv, NEW t \in Task, Publish(t)
  PROVE  TypeInv'
  <1> USE DEF TypeInv, TypeOK, Goto, Control
  <1>1. /\ pc[t] = "publish"
        /\ UNCHANGED <<request, created, message, job, live, spent, store, analysis>>
    BY DEF Publish, PublishConfirmed, PublishFails, Working
  <1>2. job[t] \in Ticket /\ analysis[t] \in Nat
    BY <1>1 DEF TaskOK
  <1>3. events' \in [Ticket -> SUBSET Nat]
    BY <1>2 DEF Publish, PublishConfirmed, PublishFails, Record
  <1>4. attempt' \in [Task -> 1 .. MaxAttempts]
    BY AttemptAssumption DEF Publish, PublishConfirmed, PublishFails, PublishRaises
  <1>5. /\ pc' \in [Task -> Control] /\ pc'[t] # "idle"
        /\ \A u \in Task : u # t => pc'[u] = pc[u]
    BY <1>1 DEF Publish, PublishConfirmed, PublishFails, PublishRaises
  <1>6. TypeOK'
    BY <1>1, <1>3, <1>4, <1>5 DEF store
  <1>7. TaskOK'
    BY <1>1, <1>2, <1>5 DEF TaskOK, Job
  <1> QED
    BY <1>6, <1>7

LEMMA TypeInvariant == Spec => []TypeInv
  <1>1. ASSUME TypeInv, [Next]_vars PROVE TypeInv'
    <2>1. CASE UNCHANGED vars
      BY <1>1, <2>1 DEF TypeInv, TypeOK, TaskOK, vars, store, task
    <2>2. CASE Next
      BY <1>1, <2>2, RequestType, BrokerType, HandleType, PublishType DEF Next
    <2> QED
      BY <1>1, <2>1, <2>2
  <1> QED
    BY InitTypeInv, <1>1, PTL DEF Spec

(* Every reachable state of the pipeline is well typed.                     *)
THEOREM TypeCorrect == Spec => []TypeOK
  <1>1. TypeInv => TypeOK
    BY DEF TypeInv
  <1> QED
    BY TypeInvariant, <1>1, PTL
-----------------------------------------------------------------------------
(* The inductive invariant behind the safety properties.                   *)

(* What a task has established about its ticket: an inserted analysis keeps *)
(* the ticket, a returned one is committed, an acknowledged one announced.  *)
Established(t) ==
  /\ pc[t] = "commit" => row[job[t]] = "present"
  /\ pc[t] = "publish" /\ row[job[t]] = "present" => analysis[t] \in analyses[job[t]]
  /\ pc[t] = "ack" => events[job[t]] # {}

(* An open delivery is the only one of its message, which is out; even a    *)
(* stale task holds a job that was published.                               *)
DeliveryOK ==
  \A t \in Task :
    /\ pc[t] # "idle" => message[job[t]] # "none"
    /\ live[t] => message[job[t]] = "out"
    /\ \A u \in Task : live[t] /\ live[u] /\ job[t] = job[u] => t = u

(* Nothing is queued before the ticket is announced, nor announced before   *)
(* its insert.                                                              *)
RequestOK(k) ==
  /\ request[k] = "new" => row[k] = "absent" /\ k \notin created
  /\ request[k] \in {"new", "committed", "announced"} => message[k] = "none"
  /\ request[k] = "announced" => k \in created
  /\ message[k] # "none" => k \in created

TicketOK(k) ==
  /\ row[k] # "present" => analyses[k] = {}
  /\ row[k] = "present" => events[k] \subseteq analyses[k]
  /\ events[k] # {} => k \in created
  /\ message[k] = "done" => events[k] # {}

Safe ==
  /\ DeliveryOK
  /\ \A k \in Ticket : RequestOK(k) /\ TicketOK(k)
  /\ \A t \in Task : Established(t)

(* What a step of the handler or of the publish loop may do.                *)
WorkStep(t) ==
  /\ UNCHANGED <<request, row, created, message, job, live, spent>>
  /\ pc[t] \in {"load", "find", "analyze", "commit", "publish"} /\ pc'[t] # "idle"
  /\ \A u \in Task : u # t => pc'[u] = pc[u] /\ analysis'[u] = analysis[u]
  /\ \/ UNCHANGED analyses
     \/ /\ analyses' = [analyses EXCEPT ![job[t]] = @ \cup {analysis[t]}]
        /\ row[job[t]] = "present"
  /\ \/ UNCHANGED events
     \/ /\ events' = [events EXCEPT ![job[t]] = @ \cup {analysis[t]}]
        /\ row[job[t]] = "present" => analysis[t] \in analyses[job[t]]
  /\ Established(t)'

LEMMA RaisesWork ==
  ASSUME TypeInv, NEW t \in Task, NEW transient, HandlerRaises(t, transient)
  PROVE  /\ \A u \in Task : u # t => pc'[u] = pc[u] /\ analysis'[u] = analysis[u]
         /\ pc'[t] \in {"load", "reject"}
  BY DEF TypeInv, TypeOK, HandlerRaises, Goto

LEMMA ReturnsWork ==
  ASSUME TypeInv, NEW t \in Task, NEW n \in Nat, Return(t, n)
  PROVE  /\ \A u \in Task : u # t => pc'[u] = pc[u] /\ analysis'[u] = analysis[u]
         /\ pc'[t] = "publish" /\ analysis'[t] = n
  BY DEF TypeInv, TypeOK, Return, Goto

LEMMA HandleWork ==
  ASSUME TypeInv, Safe, NEW t \in Task, Handle(t)
  PROVE  WorkStep(t)
  <1>1. /\ pc[t] \in {"load", "find", "analyze", "commit"}
        /\ UNCHANGED <<request, created, message, job, live, spent, events, row>>
    BY DEF Handle, LoadTicket, FindAnalysis, InsertAnalysis, CommitAnalysis, Handling, Working,
           Continue, HandlerFails, StoreAnalysis, store
  <1>2. job[t] \in Ticket /\ analysis[t] \in Nat /\ analyses[job[t]] \subseteq Nat
    BY <1>1 DEF TypeInv, TypeOK, TaskOK
  <1>3. CASE HandlerFails(t)
    <2>1. /\ \A u \in Task : u # t => pc'[u] = pc[u] /\ analysis'[u] = analysis[u]
          /\ pc'[t] \in {"load", "reject"} /\ UNCHANGED analyses
      BY <1>3, RaisesWork DEF HandlerFails, store
    <2> QED
      BY <1>1, <2>1 DEF WorkStep, Established
  <1>4. CASE LoadTicket(t) /\ ~ HandlerFails(t)
    <2>1. /\ \A u \in Task : u # t => pc'[u] = pc[u] /\ analysis'[u] = analysis[u]
          /\ pc'[t] \in {"find", "reject"} /\ UNCHANGED analyses
      BY <1>4 DEF LoadTicket, Continue, Goto, store, TypeInv, TypeOK
    <2> QED
      BY <1>1, <2>1 DEF WorkStep, Established
  <1>5. CASE FindAnalysis(t) /\ ~ HandlerFails(t)
    <2>1. UNCHANGED analyses
      BY <1>5 DEF FindAnalysis, Continue, store
    <2>2. CASE \E n \in analyses[job[t]] : Return(t, n)
      <3>1. PICK n \in analyses[job[t]] : Return(t, n)
        BY <2>2
      <3>2. /\ \A u \in Task : u # t => pc'[u] = pc[u] /\ analysis'[u] = analysis[u]
            /\ pc'[t] = "publish" /\ analysis'[t] = n
        BY <1>2, <3>1, ReturnsWork
      <3> QED
        BY <1>1, <2>1, <3>1, <3>2 DEF WorkStep, Established
    <2>3. CASE Continue(t, "analyze")
      <3>1. /\ \A u \in Task : u # t => pc'[u] = pc[u] /\ analysis'[u] = analysis[u]
            /\ pc'[t] = "analyze"
        BY <2>3 DEF Continue, Goto, TypeInv, TypeOK
      <3> QED
        BY <1>1, <2>1, <3>1 DEF WorkStep, Established
    <2> QED
      BY <1>5, <2>2, <2>3 DEF FindAnalysis
  <1>6. CASE InsertAnalysis(t) /\ ~ HandlerFails(t)
    <2>1. /\ \A u \in Task : u # t => pc'[u] = pc[u] /\ analysis'[u] = analysis[u]
          /\ pc'[t] = "commit" /\ UNCHANGED analyses /\ row[job[t]] = "present"
      BY <1>6 DEF InsertAnalysis, Goto, TypeInv, TypeOK
    <2> QED
      BY <1>1, <2>1 DEF WorkStep, Established
  <1>7. CASE CommitAnalysis(t) /\ ~ HandlerFails(t)
    <2>1. /\ StoreAnalysis(t) /\ row[job[t]] = "present"
          /\ Return(t, analysis[t]) \/ HandlerRaises(t, TRUE)
      BY <1>7 DEF CommitAnalysis, Safe, Established
    <2>2. /\ analyses' = [analyses EXCEPT ![job[t]] = @ \cup {analysis[t]}]
          /\ analysis[t] \in analyses'[job[t]]
      BY <1>2, <2>1 DEF StoreAnalysis, TypeInv, TypeOK
    <2>3. /\ \A u \in Task : u # t => pc'[u] = pc[u] /\ analysis'[u] = analysis[u]
          /\ \/ pc'[t] = "publish" /\ analysis'[t] = analysis[t]
             \/ pc'[t] \in {"load", "reject"}
      BY <1>2, <2>1, RaisesWork, ReturnsWork
    <2>4. Established(t)'
      BY <1>1, <2>2, <2>3 DEF Established
    <2> QED
      BY <1>1, <2>1, <2>2, <2>3, <2>4 DEF WorkStep
  <1> QED
    BY <1>3, <1>4, <1>5, <1>6, <1>7 DEF Handle

LEMMA PublishWork ==
  ASSUME TypeInv, Safe, NEW t \in Task, Publish(t)
  PROVE  WorkStep(t)
  <1>1. /\ pc[t] = "publish"
        /\ UNCHANGED <<request, created, message, job, live, spent, row, analyses, analysis>>
    BY DEF Publish, PublishConfirmed, PublishFails, Working, store
  <1>2. job[t] \in Ticket
    BY <1>1 DEF TypeInv, TaskOK
  <1>3. Record(t) => /\ events' = [events EXCEPT ![job[t]] = @ \cup {analysis[t]}]
                     /\ events'[job[t]] # {}
    BY <1>2 DEF Record, TypeInv, TypeOK
  <1>4. Record(t) \/ UNCHANGED events
    BY DEF Publish, PublishConfirmed, PublishFails
  <1>5. /\ \A u \in Task : u # t => pc'[u] = pc[u]
        /\ pc'[t] \in {"publish", "requeue", "ack"} /\ (pc'[t] = "ack" => Record(t))
    BY <1>1 DEF Publish, PublishConfirmed, PublishFails, PublishRaises, Goto, TypeInv, TypeOK
  <1>6. row[job[t]] = "present" => analysis[t] \in analyses[job[t]]
    BY <1>1 DEF Safe, Established
  <1>7. Established(t)'
    BY <1>1, <1>3, <1>5, <1>6 DEF Established
  <1> QED
    BY <1>1, <1>3, <1>4, <1>5, <1>6, <1>7 DEF WorkStep

LEMMA WorkSafe ==
  ASSUME TypeInv, Safe, NEW t \in Task, WorkStep(t)
  PROVE  Safe'
  <1>1. job[t] \in Ticket /\ message[job[t]] # "none" /\ job[t] \in created
    BY DEF WorkStep, TypeInv, TaskOK, Safe, DeliveryOK, RequestOK
  <1>2. \A k \in Ticket : /\ analyses[k] \subseteq analyses'[k]
                          /\ events[k] \subseteq events'[k]
                          /\ analyses'[k] = analyses[k] \/ row[k] = "present"
                          /\ row[k] = "present" => events'[k] \subseteq analyses'[k]
                          /\ k # job[t] => events'[k] = events[k]
    BY <1>1 DEF WorkStep, TypeInv, TypeOK, Safe, TicketOK
  <1>3. DeliveryOK'
    BY DEF WorkStep, Safe, DeliveryOK
  <1>4. \A k \in Ticket : RequestOK(k)' /\ TicketOK(k)'
    BY <1>1, <1>2 DEF WorkStep, Safe, RequestOK, TicketOK
  <1>5. ASSUME NEW u \in Task, u # t
        PROVE  Established(u)'
    <2>1. Established(u) /\ pc'[u] = pc[u] /\ analysis'[u] = analysis[u]
          /\ UNCHANGED <<job, row>>
      BY <1>5 DEF Safe, WorkStep
    <2>2. pc[u] \in {"commit", "publish", "ack"} => job[u] \in Ticket
      BY DEF TypeInv, TaskOK
    <2> QED
      BY <1>2, <2>1, <2>2 DEF Established
  <1>6. Established(t)'
    BY DEF WorkStep
  <1> QED
    BY <1>3, <1>4, <1>5, <1>6 DEF Safe

(* A task that ends: what it settles follows its delivery.                  *)
LEMMA ReleaseSafe ==
  ASSUME TypeInv, Safe, NEW t \in Task, NEW to \in {"ready", "dead", "done"},
         to = "done" => pc[t] = "ack",
         pc[t] # "idle", message' = Settled(t, to), Release(t),
         UNCHANGED <<request, store, created, events>>
  PROVE  Safe'
  <1>1. /\ pc'[t] = "idle" /\ live'[t] = FALSE
        /\ \A u \in Task : u # t =>
             /\ pc'[u] = pc[u] /\ job'[u] = job[u]
             /\ live'[u] = live[u] /\ analysis'[u] = analysis[u]
    BY DEF TypeInv, TypeOK, Release, Goto
  <1>2. \/ message' = message
        \/ live[t] /\ message[job[t]] = "out" /\ message' = [message EXCEPT ![job[t]] = to]
    BY DEF Settled, Safe, DeliveryOK
  <1>3. job[t] \in Job /\ (to = "done" => events[job[t]] # {})
    BY DEF TypeInv, TaskOK, Safe, Established
  <1>4. \A k \in Ticket : /\ message'[k] = "none" <=> message[k] = "none"
                          /\ message'[k] = "done" => message[k] = "done" \/ events[k] # {}
    BY <1>2, <1>3 DEF TypeInv, TypeOK, Job
  <1>5. DeliveryOK'
    BY <1>1, <1>2, <1>3 DEF Safe, DeliveryOK, TypeInv, TypeOK, TaskOK
  <1>6. \A k \in Ticket : RequestOK(k)' /\ TicketOK(k)'
    BY <1>4 DEF Safe, RequestOK, TicketOK, store
  <1>7. \A u \in Task : Established(u)'
    BY <1>1 DEF Safe, Established, store
  <1> QED
    BY <1>5, <1>6, <1>7 DEF Safe

LEMMA BrokerSafe ==
  ASSUME TypeInv, Safe
  PROVE  /\ \A t \in Task, j \in Job : Deliver(t, j) => Safe'
         /\ \A t \in Task : Settle(t) \/ Crash(t) \/ Disconnect(t) => Safe'
         /\ \A j \in Job : Replay(j) => Safe'
  <1>1. ASSUME NEW t \in Task, NEW j \in Job, Deliver(t, j) PROVE Safe'
    <2>1. /\ message[j] = "ready" /\ message' = [message EXCEPT ![j] = "out"]
          /\ UNCHANGED <<request, store, created, events, analysis>>
          /\ pc'[t] \in {"load", "reject"} /\ job'[t] = j /\ live'[t] = TRUE
          /\ \A u \in Task : u # t =>
               pc'[u] = pc[u] /\ job'[u] = job[u] /\ live'[u] = live[u]
      BY <1>1 DEF Deliver, Goto, TypeInv, TypeOK
    <2>2. DeliveryOK'
      BY <2>1 DEF Safe, DeliveryOK, TypeInv, TypeOK, TaskOK
    <2>3. \A k \in Ticket : RequestOK(k)' /\ TicketOK(k)'
      BY <2>1 DEF Safe, RequestOK, TicketOK, store, Job, TypeInv, TypeOK
    <2>4. \A u \in Task : Established(u)'
      BY <2>1 DEF Safe, Established, store
    <2> QED
      BY <2>2, <2>3, <2>4 DEF Safe
  <1>2. ASSUME NEW t \in Task, Settle(t) \/ Crash(t) PROVE Safe'
    <2>1. CASE Settle(t)
      BY <2>1, SettleVerdict, ReleaseSafe DEF Settle
    <2>2. CASE Crash(t)
      BY <2>2, ReleaseSafe DEF Crash
    <2> QED
      BY <1>2, <2>1, <2>2
  <1>3. ASSUME NEW t \in Task, Disconnect(t) PROVE Safe'
    <2>1. /\ live[t] /\ job[t] \in Job /\ message[job[t]] = "out"
          /\ message' = [message EXCEPT ![job[t]] = "ready"]
          /\ live' = [live EXCEPT ![t] = FALSE]
          /\ UNCHANGED <<request, store, created, events, pc, job, analysis>>
      BY <1>3 DEF Disconnect, Settled, TypeInv, TaskOK, Safe, DeliveryOK
    <2>2. DeliveryOK'
      BY <2>1 DEF Safe, DeliveryOK, TypeInv, TypeOK, TaskOK
    <2>3. \A k \in Ticket : RequestOK(k)' /\ TicketOK(k)'
      BY <2>1 DEF Safe, RequestOK, TicketOK, store, Job, TypeInv, TypeOK
    <2>4. \A u \in Task : Established(u)'
      BY <2>1 DEF Safe, Established, store
    <2> QED
      BY <2>2, <2>3, <2>4 DEF Safe
  <1>4. ASSUME NEW j \in Job, Replay(j) PROVE Safe'
    <2>1. /\ message[j] = "dead" /\ message' = [message EXCEPT ![j] = "ready"]
          /\ UNCHANGED <<request, store, created, events, task>>
      BY <1>4 DEF Replay
    <2>2. DeliveryOK'
      BY <2>1 DEF Safe, DeliveryOK, TypeInv, TypeOK, TaskOK, task
    <2>3. \A k \in Ticket : RequestOK(k)' /\ TicketOK(k)'
      BY <2>1 DEF Safe, RequestOK, TicketOK, store, Job, TypeInv, TypeOK
    <2>4. \A u \in Task : Established(u)'
      BY <2>1 DEF Safe, Established, store, task
    <2> QED
      BY <2>2, <2>3, <2>4 DEF Safe
  <1> QED
    BY <1>1, <1>2, <1>3, <1>4

LEMMA RequestSafe ==
  ASSUME TypeInv, Safe, NEW k \in Ticket, CreateTicket(k) \/ DeleteTicket(k) \/ ApiCrash(k)
  PROVE  Safe'
  <1>1. k \in Job /\ UNCHANGED <<task, events>>
    BY DEF Job, CreateTicket, CommitTicket, AnnounceTicket, QueueAnalysis, ReplyTicket,
           SetRequest, DeleteTicket, ApiCrash
  <1>2. RequestOK(k) /\ TicketOK(k)
    BY DEF Safe
  <1>3. \/ message' = message
        \/ /\ message[k] = "none" /\ message' = [message EXCEPT ![k] = "ready"]
           /\ k \in created
    BY <1>2 DEF CreateTicket, CommitTicket, AnnounceTicket, QueueAnalysis, ReplyTicket,
                Enqueue, SetRequest, DeleteTicket, ApiCrash, RequestOK
  <1>4. DeliveryOK'
    BY <1>1, <1>3 DEF task, Safe, DeliveryOK, TypeInv, TypeOK, TaskOK
  <1>5. ASSUME NEW i \in Ticket, i # k
        PROVE  RequestOK(i)' /\ TicketOK(i)'
    <2>1. /\ request'[i] = request[i] /\ row'[i] = row[i] /\ analyses'[i] = analyses[i]
          /\ (i \in created') = (i \in created)
      BY <1>5 DEF CreateTicket, CommitTicket, InsertTicket, AnnounceTicket, QueueAnalysis,
                  ReplyTicket, SetRequest, DeleteTicket, ApiCrash, store, TypeInv, TypeOK
    <2>2. message'[i] = message[i]
      BY <1>3, <1>5 DEF Job, TypeInv, TypeOK
    <2> QED
      BY <1>1, <2>1, <2>2 DEF Safe, RequestOK, TicketOK
  <1>6. RequestOK(k)' /\ TicketOK(k)'
    <2> USE DEF TypeInv, TypeOK, store, SetRequest, RequestOK, TicketOK
    <2>1. CASE CommitTicket(k)
      BY <1>1, <1>2, <2>1 DEF CommitTicket, InsertTicket
    <2>2. CASE AnnounceTicket(k)
      BY <1>1, <1>2, <2>2 DEF AnnounceTicket
    <2>3. CASE QueueAnalysis(k)
      BY <1>1, <1>2, <2>3 DEF QueueAnalysis, Enqueue
    <2>4. CASE ReplyTicket(k)
      BY <1>1, <1>2, <2>4 DEF ReplyTicket
    <2>5. CASE DeleteTicket(k)
      BY <1>1, <1>2, <2>5 DEF DeleteTicket
    <2>6. CASE ApiCrash(k)
      BY <1>1, <1>2, <2>6 DEF ApiCrash
    <2> QED
      BY <2>1, <2>2, <2>3, <2>4, <2>5, <2>6 DEF CreateTicket
  <1>7. ASSUME NEW t \in Task
        PROVE  Established(t)'
    <2>1. Established(t) /\ UNCHANGED <<pc, job, analysis, events>>
      BY <1>1 DEF Safe, task
    <2>2. pc[t] \in {"commit", "publish", "ack"} =>
            job[t] \in Ticket /\ message[job[t]] # "none"
      BY DEF TypeInv, TaskOK, Safe, DeliveryOK
    <2>3. CASE UNCHANGED row /\ UNCHANGED analyses
      BY <2>1, <2>3 DEF Established
    <2>4. CASE CommitTicket(k)
      <3>1. message[k] = "none" /\ UNCHANGED analyses
        BY <1>2, <2>4 DEF CommitTicket, InsertTicket, SetRequest, RequestOK, store
      <3>2. \A i \in Ticket : i # k => row'[i] = row[i]
        BY <2>4 DEF CommitTicket, InsertTicket, store, TypeInv, TypeOK
      <3> QED
        BY <2>1, <2>2, <3>1, <3>2 DEF Established
    <2>5. CASE DeleteTicket(k)
      <3>1. /\ row' = [row EXCEPT ![k] = "deleted"]
            /\ analyses' = [analyses EXCEPT ![k] = {}]
            /\ job[t] = k => pc[t] # "commit"
        BY <2>5 DEF DeleteTicket
      <3> QED
        BY <2>1, <2>2, <3>1 DEF Established, TypeInv, TypeOK
    <2> QED
      BY <2>3, <2>4, <2>5
      DEF CreateTicket, AnnounceTicket, QueueAnalysis, ReplyTicket, ApiCrash, store
  <1> QED
    BY <1>4, <1>5, <1>6, <1>7 DEF Safe

LEMMA SafeInvariant == Spec => []Safe
  <1>1. Init => Safe
    <2> SUFFICES ASSUME Init PROVE Safe
      OBVIOUS
    <2>1. DeliveryOK
      BY DEF Init, DeliveryOK
    <2>2. \A k \in Ticket : RequestOK(k) /\ TicketOK(k)
      BY DEF Init, RequestOK, TicketOK, Job
    <2>3. \A t \in Task : Established(t)
      BY DEF Init, Established
    <2> QED
      BY <2>1, <2>2, <2>3 DEF Safe
  <1>2. TypeInv /\ TypeInv' /\ Safe /\ [Next]_vars => Safe'
    <2> SUFFICES ASSUME TypeInv, TypeInv', Safe, [Next]_vars PROVE Safe'
      OBVIOUS
    <2>1. CASE UNCHANGED vars
      BY <2>1 DEF Safe, DeliveryOK, RequestOK, TicketOK, Established, vars, store, task
    <2>2. ASSUME NEW t \in Task, Handle(t) \/ Publish(t) PROVE Safe'
      BY <2>2, HandleWork, PublishWork, WorkSafe
    <2>3. CASE Next
      BY <2>2, <2>3, RequestSafe, BrokerSafe DEF Next
    <2> QED
      BY <2>1, <2>3
  <1> QED
    BY TypeInvariant, <1>1, <1>2, PTL DEF Spec

(* A job is acknowledged only once analysis.completed has a record for its  *)
(* ticket.                                                                  *)
THEOREM AcknowledgedJobsAreAnnounced == Spec => []AcknowledgedIsAnnounced
  <1>1. Safe => AcknowledgedIsAnnounced
    BY DEF Safe, TicketOK, AcknowledgedIsAnnounced
  <1> QED
    BY SafeInvariant, <1>1, PTL

(* An event of a ticket that still exists names an analysis in storage.     *)
THEOREM AnnouncedAnalysesAreCommitted == Spec => []EventsAreCommitted
  <1>1. Safe => EventsAreCommitted
    BY DEF Safe, TicketOK, EventsAreCommitted
  <1> QED
    BY SafeInvariant, <1>1, PTL

(* ticket.created is published before any analysis.completed of the ticket. *)
THEOREM TicketsAreAnnouncedFirst == Spec => []CreatedBeforeCompleted
  <1>1. Safe => CreatedBeforeCompleted
    BY DEF Safe, TicketOK, CreatedBeforeCompleted
  <1> QED
    BY SafeInvariant, <1>1, PTL

(* What consumers conclude from analysis.completed is true.                 *)
THEOREM EventsTellTheTruth == Spec => []EventsAreTrue
  <1>1. EventsAreCommitted /\ CreatedBeforeCompleted => EventsAreTrue
    BY DEF EventsAreTrue
  <1> QED
    BY AnnouncedAnalysesAreCommitted, TicketsAreAnnouncedFirst, <1>1, PTL
-----------------------------------------------------------------------------
(* The pipeline implements the at-least-once job.                          *)

LEMMA RefinesInit == Init => AtLeastOnce!Init
  <1> SUFFICES ASSUME Init PROVE AtLeastOnce!Init
    OBVIOUS
  <1>1. Stages \in [Job -> {"none", "pending"}]
    BY DEF Init, Stages
  <1>2. {k \in Ticket : events[k] # {}} = {}
    BY DEF Init
  <1> QED
    BY <1>1, <1>2 DEF AtLeastOnce!Init

(* A step that moves one message and publishes nothing is a move of that job. *)
LEMMA MessageMoves ==
  ASSUME TypeInv, NEW j \in Job, NEW to \in Stage, UNCHANGED events,
         message' = [message EXCEPT ![j] = to],
         \/ message[j] = "none" /\ to = "ready"
         \/ message[j] \in {"ready", "out"} /\ to \in {"ready", "out", "dead"}
         \/ message[j] \in {"ready", "out"} /\ to = "done" /\ j \in Ticket /\ events[j] # {}
         \/ message[j] = "dead" /\ to = "ready"
  PROVE  [AtLeastOnce!Next]_AtLeastOnce!vars
  <1> DEFINE abstract(m) == IF m \in {"ready", "out"} THEN "pending" ELSE m
  <1>1. Stages = [i \in Job |-> abstract(message[i])]
    BY DEF Stages
  <1>2. Stages' = [Stages EXCEPT ![j] = abstract(to)]
    BY DEF Stages, TypeInv, TypeOK
  <1>3. Stages[j] = abstract(message[j])
    BY <1>1
  <1>4. UNCHANGED {k \in Ticket : events[k] # {}}
    OBVIOUS
  <1>5. CASE abstract(to) = Stages[j]
    <2>1. Stages' = Stages
      BY <1>1, <1>2, <1>5
    <2> QED
      BY <1>4, <2>1 DEF AtLeastOnce!vars
  <1>6. CASE abstract(to) # Stages[j]
    <2>1. \/ AtLeastOnce!Publish(j) \/ AtLeastOnce!Acknowledge(j)
          \/ AtLeastOnce!DeadLetter(j) \/ AtLeastOnce!Replay(j)
      BY <1>2, <1>3, <1>4, <1>6
      DEF AtLeastOnce!Publish, AtLeastOnce!Acknowledge, AtLeastOnce!DeadLetter,
          AtLeastOnce!Replay, AtLeastOnce!Move
    <2> QED
      BY <2>1 DEF AtLeastOnce!Next
  <1> QED
    BY <1>5, <1>6

LEMMA StillRefines ==
  ASSUME UNCHANGED <<message, events>>
  PROVE  [AtLeastOnce!Next]_AtLeastOnce!vars
  BY DEF AtLeastOnce!vars, Stages

LEMMA WorkRefines ==
  ASSUME TypeInv, Safe, NEW t \in Task, WorkStep(t)
  PROVE  [AtLeastOnce!Next]_AtLeastOnce!vars
  <1>1. CASE UNCHANGED events
    BY <1>1, StillRefines DEF WorkStep
  <1>2. CASE events' = [events EXCEPT ![job[t]] = @ \cup {analysis[t]}]
    <2>1. PICK k \in Ticket : k = job[t]
      BY DEF WorkStep, TypeInv, TaskOK
    <2>2. k \in Job /\ message[k] \in Stage \ {"none"} /\ message' = message
      BY <2>1 DEF WorkStep, TypeInv, TypeOK, Safe, DeliveryOK, Job
    <2>3. \A i \in Ticket : events'[i] # {} <=> events[i] # {} \/ i = k
      BY <1>2, <2>1 DEF TypeInv, TypeOK
    <2>4. {i \in Ticket : events'[i] # {}} = {i \in Ticket : events[i] # {}} \cup {k}
      BY <2>3
    <2>5. Stages' = Stages /\ Stages[k] # "none"
      BY <2>2 DEF Stages, Stage
    <2>6. AtLeastOnce!TakeEffect(k)
      BY <2>4, <2>5 DEF AtLeastOnce!TakeEffect
    <2> QED
      BY <2>2, <2>6 DEF AtLeastOnce!Next
  <1> QED
    BY <1>1, <1>2 DEF WorkStep

LEMMA BrokerRefines ==
  ASSUME TypeInv, Safe
  PROVE  /\ \A t \in Task, j \in Job : Deliver(t, j) => [AtLeastOnce!Next]_AtLeastOnce!vars
         /\ \A t \in Task : Settle(t) \/ Crash(t) \/ Disconnect(t)
                             => [AtLeastOnce!Next]_AtLeastOnce!vars
         /\ \A j \in Job : Replay(j) => [AtLeastOnce!Next]_AtLeastOnce!vars
  <1>1. ASSUME NEW t \in Task, NEW j \in Job, Deliver(t, j)
        PROVE  [AtLeastOnce!Next]_AtLeastOnce!vars
    BY <1>1, MessageMoves DEF Deliver, Stage
  <1>2. ASSUME NEW t \in Task, Settle(t) \/ Crash(t) \/ Disconnect(t)
        PROVE  [AtLeastOnce!Next]_AtLeastOnce!vars
    <2>1. PICK to \in {"ready", "dead", "done"} :
            message' = Settled(t, to) /\ (to = "done" => pc[t] = "ack")
      BY <1>2, SettleVerdict DEF Settle, Crash, Disconnect
    <2>2. UNCHANGED events
      BY <1>2 DEF Settle, Crash, Disconnect
    <2>3. CASE live[t]
      <3>1. /\ job[t] \in Job /\ message[job[t]] = "out"
            /\ to = "done" => job[t] \in Ticket /\ events[job[t]] # {}
        BY <2>1, <2>3 DEF Safe, Established, DeliveryOK, TypeInv, TaskOK
      <3> QED
        BY <2>1, <2>2, <2>3, <3>1, MessageMoves DEF Settled, Stage
    <2>4. CASE ~ live[t]
      BY <2>1, <2>2, <2>4, StillRefines DEF Settled
    <2> QED
      BY <2>3, <2>4
  <1>3. ASSUME NEW j \in Job, Replay(j) PROVE [AtLeastOnce!Next]_AtLeastOnce!vars
    BY <1>3, MessageMoves DEF Replay, Stage
  <1> QED
    BY <1>1, <1>2, <1>3

LEMMA RequestRefines ==
  ASSUME TypeInv, Safe, NEW k \in Ticket, CreateTicket(k) \/ DeleteTicket(k) \/ ApiCrash(k)
  PROVE  [AtLeastOnce!Next]_AtLeastOnce!vars
  <1>1. k \in Job /\ UNCHANGED events
    BY DEF Job, CreateTicket, CommitTicket, AnnounceTicket, QueueAnalysis, ReplyTicket,
           DeleteTicket, ApiCrash
  <1>2. \/ message' = message
        \/ message[k] = "none" /\ message' = [message EXCEPT ![k] = "ready"]
    BY DEF CreateTicket, CommitTicket, AnnounceTicket, QueueAnalysis, ReplyTicket, Enqueue,
           SetRequest, DeleteTicket, ApiCrash, Safe, RequestOK
  <1> QED
    BY <1>1, <1>2, StillRefines, MessageMoves DEF Stage

(* API, broker, worker and Kafka together implement the at-least-once job   *)
(* whose effect is the published event.                                     *)
THEOREM AnalysisRefinesAtLeastOnceJob == Spec => ImplementsAtLeastOnceJob
  <1>1. TypeInv /\ Safe /\ [Next]_vars => [AtLeastOnce!Next]_AtLeastOnce!vars
    <2> SUFFICES ASSUME TypeInv, Safe, [Next]_vars
                 PROVE  [AtLeastOnce!Next]_AtLeastOnce!vars
      OBVIOUS
    <2>1. CASE UNCHANGED vars
      BY <2>1, StillRefines DEF vars
    <2>2. ASSUME NEW t \in Task, Handle(t) \/ Publish(t)
          PROVE  [AtLeastOnce!Next]_AtLeastOnce!vars
      BY <2>2, HandleWork, PublishWork, WorkRefines
    <2>3. CASE Next
      BY <2>2, <2>3, RequestRefines, BrokerRefines DEF Next
    <2> QED
      BY <2>1, <2>3
  <1> QED
    BY RefinesInit, TypeInvariant, SafeInvariant, <1>1, PTL
    DEF Spec, ImplementsAtLeastOnceJob, AtLeastOnce!Spec
-----------------------------------------------------------------------------
(* What a task knows as long as no channel was lost: nobody else works on   *)
(* its ticket.                                                              *)

Single(S) == \A m, n \in S : m = n

Sole(t) ==
  /\ pc[t] \in {"analyze", "commit"} /\ row[job[t]] = "present" => analyses[job[t]] = {}
  /\ pc[t] = "publish" => events[job[t]] \subseteq {analysis[t]}

Alone ==
  Exclusive =>
    /\ \A k \in Ticket : Single(analyses[k]) /\ Single(events[k])
    /\ \A t \in Task : pc[t] # "idle" => live[t] /\ Sole(t)

Kept ==
  \A k \in Ticket : analyses[k] # {} /\ row'[k] = "present" => analyses'[k] = analyses[k]

(* What a step of one task must leave right for its own ticket.             *)
OwnStep(t) ==
  /\ analyses[job[t]] # {} => analyses'[job[t]] = analyses[job[t]]
  /\ Single(analyses'[job[t]]) /\ Single(events'[job[t]])
  /\ Sole(t)'

LEMMA OwnStepAlone ==
  ASSUME TypeInv, Safe, Alone, NEW t \in Task, WorkStep(t), Exclusive => OwnStep(t)
  PROVE  Alone' /\ (Exclusive' => Kept)
  <1>1. /\ UNCHANGED <<row, job, live, spent>> /\ (Exclusive' => Exclusive)
        /\ pc[t] # "idle" /\ job[t] \in Ticket
    BY DEF WorkStep, Exclusive, TypeInv, TaskOK
  <1>2. SUFFICES ASSUME Exclusive
                 PROVE  /\ \A k \in Ticket : Single(analyses'[k]) /\ Single(events'[k])
                        /\ \A u \in Task : pc'[u] # "idle" => live'[u] /\ Sole(u)'
                        /\ Kept
    BY <1>1 DEF Alone
  <1>3. \A u \in Task : u # t /\ pc[u] # "idle" => job[u] # job[t]
    BY <1>1, <1>2 DEF Alone, Safe, DeliveryOK
  <1>4. \A k \in Ticket : k # job[t] => analyses'[k] = analyses[k] /\ events'[k] = events[k]
    BY <1>1 DEF WorkStep, TypeInv, TypeOK
  <1>5. \A k \in Ticket : Single(analyses'[k]) /\ Single(events'[k])
    BY <1>2, <1>4 DEF OwnStep, Alone
  <1>6. Kept
    BY <1>2, <1>4 DEF OwnStep, Kept
  <1>7. ASSUME NEW u \in Task, pc'[u] # "idle"
        PROVE  live'[u] /\ Sole(u)'
    <2>1. CASE u = t
      BY <1>1, <1>2, <2>1 DEF OwnStep, Alone
    <2>2. CASE u # t
      <3>1. /\ pc'[u] = pc[u] /\ analysis'[u] = analysis[u] /\ live[u] /\ Sole(u)
            /\ job[u] # job[t]
        BY <1>2, <1>3, <1>7, <2>2 DEF WorkStep, Alone
      <3>2. pc[u] \in {"analyze", "commit", "publish"} => job[u] \in Ticket
        BY DEF TypeInv, TaskOK
      <3> QED
        BY <1>1, <1>4, <3>1, <3>2 DEF Sole
    <2> QED
      BY <2>1, <2>2
  <1> QED
    BY <1>5, <1>6, <1>7

LEMMA HandleAlone ==
  ASSUME TypeInv, Safe, Alone, Exclusive, NEW t \in Task, Handle(t)
  PROVE  OwnStep(t)
  <1>1. /\ pc[t] \in {"load", "find", "analyze", "commit"}
        /\ UNCHANGED <<job, events, row>>
    BY DEF Handle, LoadTicket, FindAnalysis, InsertAnalysis, CommitAnalysis, Handling, Working,
           Continue, HandlerFails, StoreAnalysis, store
  <1>2. /\ job[t] \in Ticket /\ TicketOK(job[t]) /\ Established(t) /\ Sole(t)
        /\ Single(analyses[job[t]]) /\ Single(events[job[t]])
        /\ analysis[t] \in Nat /\ analyses[job[t]] \subseteq Nat
    BY <1>1 DEF TypeInv, TypeOK, TaskOK, Safe, Alone
  <1>3. ASSUME UNCHANGED analyses, pc'[t] \in {"load", "reject", "find"}
        PROVE  OwnStep(t)
    BY <1>1, <1>2, <1>3 DEF OwnStep, Sole
  <1>4. CASE HandlerFails(t)
    BY <1>3, <1>4, RaisesWork DEF HandlerFails, store
  <1>5. CASE LoadTicket(t) /\ ~ HandlerFails(t)
    BY <1>3, <1>5 DEF LoadTicket, Continue, Goto, store, TypeInv, TypeOK
  <1>6. CASE FindAnalysis(t) /\ ~ HandlerFails(t)
    <2>1. UNCHANGED analyses
      BY <1>6 DEF FindAnalysis, Continue, store
    <2>2. CASE \E n \in analyses[job[t]] : Return(t, n)
      <3>1. PICK n \in analyses[job[t]] : Return(t, n)
        BY <2>2
      <3>2. pc'[t] = "publish" /\ analysis'[t] = n
        BY <1>2, <3>1, ReturnsWork
      <3>3. events[job[t]] \subseteq {n}
        BY <1>2, <3>1 DEF TicketOK, Single
      <3> QED
        BY <1>1, <1>2, <2>1, <3>2, <3>3 DEF OwnStep, Sole
    <2>3. CASE Continue(t, "analyze") /\ analyses[job[t]] = {}
      <3>1. pc'[t] = "analyze"
        BY <2>3 DEF Continue, Goto, TypeInv, TypeOK
      <3> QED
        BY <1>1, <1>2, <2>1, <2>3, <3>1 DEF OwnStep, Sole
    <2> QED
      BY <1>6, <2>2, <2>3 DEF FindAnalysis
  <1>7. CASE InsertAnalysis(t) /\ ~ HandlerFails(t)
    <2>1. pc[t] = "analyze" /\ pc'[t] = "commit" /\ UNCHANGED analyses
      BY <1>7 DEF InsertAnalysis, Goto, TypeInv, TypeOK
    <2> QED
      BY <1>1, <1>2, <2>1 DEF OwnStep, Sole
  <1>8. CASE CommitAnalysis(t) /\ ~ HandlerFails(t)
    <2>1. /\ StoreAnalysis(t) /\ analyses[job[t]] = {} /\ events[job[t]] = {}
          /\ Return(t, analysis[t]) \/ HandlerRaises(t, TRUE)
      BY <1>2, <1>8 DEF CommitAnalysis, Established, Sole, TicketOK
    <2>2. analyses'[job[t]] = {analysis[t]}
      BY <1>2, <2>1 DEF StoreAnalysis, TypeInv, TypeOK
    <2>3. \/ pc'[t] = "publish" /\ analysis'[t] = analysis[t]
          \/ pc'[t] \in {"load", "reject"}
      BY <1>2, <2>1, RaisesWork, ReturnsWork
    <2> QED
      BY <1>1, <2>1, <2>2, <2>3 DEF OwnStep, Sole, Single
  <1> QED
    BY <1>4, <1>5, <1>6, <1>7, <1>8 DEF Handle

LEMMA PublishAlone ==
  ASSUME TypeInv, Safe, Alone, Exclusive, NEW t \in Task, Publish(t)
  PROVE  OwnStep(t)
  <1>1. /\ pc[t] = "publish" /\ UNCHANGED <<job, row, analyses, analysis>>
        /\ Record(t) \/ UNCHANGED events
    BY DEF Publish, PublishConfirmed, PublishFails, Working, store
  <1>2. /\ job[t] \in Ticket /\ Single(analyses[job[t]])
        /\ events[job[t]] \subseteq {analysis[t]}
    BY <1>1 DEF TypeInv, TaskOK, Alone, Sole
  <1>3. events'[job[t]] \subseteq {analysis[t]}
    BY <1>1, <1>2 DEF Record, TypeInv, TypeOK
  <1>4. pc'[t] \in {"publish", "requeue", "ack"}
    BY <1>1 DEF Publish, PublishConfirmed, PublishFails, PublishRaises, Goto, TypeInv, TypeOK
  <1> QED
    BY <1>1, <1>2, <1>3, <1>4 DEF OwnStep, Sole, Single

(* Neither the broker nor an interruption touches a ticket or its events.   *)
LEMMA BrokerAlone ==
  ASSUME TypeInv, Safe, Alone, UNCHANGED <<store, events>>,
         \/ \E t \in Task, j \in Job : Deliver(t, j)
         \/ \E t \in Task : Settle(t) \/ Crash(t) \/ Disconnect(t)
         \/ \E j \in Job : Replay(j)
  PROVE  Alone' /\ Kept
  <1>0. Kept /\ UNCHANGED <<row, analyses, events>>
    BY DEF Kept, store
  <1>1. ASSUME NEW t \in Task, NEW j \in Job, Deliver(t, j) PROVE Alone'
    <2>1. /\ UNCHANGED <<spent, analysis>>
          /\ pc'[t] \in {"load", "reject"} /\ live'[t] = TRUE
          /\ \A u \in Task : u # t => pc'[u] = pc[u] /\ job'[u] = job[u] /\ live'[u] = live[u]
      BY <1>1 DEF Deliver, Goto, TypeInv, TypeOK
    <2> QED
      BY <1>0, <2>1 DEF Alone, Exclusive, Sole
  <1>2. ASSUME NEW t \in Task, Settle(t) \/ Crash(t) PROVE Alone'
    <2>1. Release(t) /\ (Exclusive' => Exclusive)
      BY <1>2 DEF Settle, Crash, Exclusive, Interrupt, Interruption, TypeInv, TypeOK
    <2>2. /\ pc'[t] = "idle"
          /\ \A u \in Task : u # t =>
               /\ pc'[u] = pc[u] /\ job'[u] = job[u]
               /\ live'[u] = live[u] /\ analysis'[u] = analysis[u]
      BY <2>1 DEF Release, Goto, TypeInv, TypeOK
    <2> QED
      BY <1>0, <2>1, <2>2 DEF Alone, Sole
  <1>3. ASSUME NEW t \in Task, Disconnect(t) PROVE Alone'
    <2>1. spent'["disconnect"] = spent["disconnect"] + 1 /\ spent["disconnect"] \in Nat
      BY <1>3 DEF Disconnect, Interrupt, Interruption, TypeInv, TypeOK
    <2>2. ~ Exclusive'
      BY <2>1 DEF Exclusive
    <2> QED
      BY <2>2 DEF Alone
  <1>4. ASSUME NEW j \in Job, Replay(j) PROVE Alone'
    <2>1. UNCHANGED task /\ spent'["disconnect"] = spent["disconnect"]
      BY <1>4 DEF Replay, Interrupt, Interruption, TypeInv, TypeOK
    <2> QED
      BY <1>0, <2>1 DEF Alone, Exclusive, Sole, task
  <1> QED
    BY <1>0, <1>1, <1>2, <1>3, <1>4

(* A request writes the row of its ticket before its job is queued; a       *)
(* deletion takes the analyses along.                                       *)
LEMMA RequestAlone ==
  ASSUME TypeInv, Safe, Alone,
         NEW k \in Ticket, CreateTicket(k) \/ DeleteTicket(k) \/ ApiCrash(k)
  PROVE  Alone' /\ Kept
  <1>1. UNCHANGED <<task, events, spent>>
    BY DEF CreateTicket, CommitTicket, AnnounceTicket, QueueAnalysis, ReplyTicket,
           SetRequest, DeleteTicket, ApiCrash
  <1>2. \/ UNCHANGED <<row, analyses>>
        \/ UNCHANGED analyses /\ row' = [row EXCEPT ![k] = "present"] /\ message[k] = "none"
        \/ row' = [row EXCEPT ![k] = "deleted"] /\ analyses' = [analyses EXCEPT ![k] = {}]
    BY DEF CreateTicket, CommitTicket, InsertTicket, AnnounceTicket, QueueAnalysis, ReplyTicket,
           SetRequest, DeleteTicket, ApiCrash, store, Safe, RequestOK
  <1>3. Kept
    BY <1>2 DEF Kept, TypeInv, TypeOK
  <1>4. \A i \in Ticket : Single(analyses[i]) => Single(analyses'[i])
    BY <1>2 DEF Single, TypeInv, TypeOK
  <1>5. ASSUME NEW t \in Task, pc[t] # "idle", Sole(t)
        PROVE  Sole(t)'
    <2>1. UNCHANGED <<pc, job, analysis, events>>
      BY <1>1 DEF task
    <2>2. pc[t] \in {"analyze", "commit"} => job[t] \in Ticket /\ message[job[t]] # "none"
      BY DEF TypeInv, TaskOK, Safe, DeliveryOK
    <2> QED
      BY <1>2, <1>5, <2>1, <2>2 DEF Sole, TypeInv, TypeOK
  <1>6. Alone'
    BY <1>1, <1>4, <1>5 DEF Alone, Exclusive, task
  <1> QED
    BY <1>3, <1>6

LEMMA AloneStep ==
  TypeInv /\ Safe /\ Alone /\ [Next]_vars => Alone' /\ (Exclusive' => Kept)
  <1> SUFFICES ASSUME TypeInv, Safe, Alone, [Next]_vars
               PROVE  Alone' /\ (Exclusive' => Kept)
    OBVIOUS
  <1>1. CASE UNCHANGED vars
    BY <1>1 DEF Alone, Exclusive, Sole, Kept, vars, store, task
  <1>2. ASSUME NEW k \in Ticket, CreateTicket(k) \/ DeleteTicket(k) \/ ApiCrash(k)
        PROVE  Alone' /\ Kept
    BY <1>2, RequestAlone
  <1>3. ASSUME UNCHANGED <<store, events>>,
               \/ \E t \in Task, j \in Job : Deliver(t, j)
               \/ \E t \in Task : Settle(t) \/ Crash(t) \/ Disconnect(t)
               \/ \E j \in Job : Replay(j)
        PROVE  Alone' /\ Kept
    BY <1>3, BrokerAlone
  <1>4. ASSUME NEW t \in Task, Handle(t) \/ Publish(t)
        PROVE  Alone' /\ (Exclusive' => Kept)
    BY <1>4, HandleWork, PublishWork, HandleAlone, PublishAlone, OwnStepAlone
  <1> QED
    BY <1>1, <1>2, <1>3, <1>4 DEF Next, Deliver, Settle, Crash, Disconnect, Replay

LEMMA AloneInvariant == Spec => []Alone
  <1>1. Init => Alone
    BY DEF Init, Alone, Single
  <1> QED
    BY <1>1, AloneStep, TypeInvariant, SafeInvariant, PTL DEF Spec

(* As long as no channel was lost, all events of a ticket carry the same    *)
(* analysis, through retries, requeues, replays and crashes.                *)
THEOREM EventsShareOneIdentity == Spec => []StableIdentity
  <1>1. Alone => StableIdentity
    BY DEF Alone, Single, StableIdentity
  <1> QED
    BY <1>1, AloneInvariant, PTL

(* As long as no channel was lost, a committed analysis is never joined or  *)
(* replaced by another while its ticket exists.                             *)
THEOREM AnalysesAreFinal == Spec => AnalysisIsFinal
  <1>1. TypeInv /\ Safe /\ Alone /\ [Next]_vars =>
          [Exclusive' =>
             \A k \in Ticket :
               analyses[k] # {} /\ row'[k] = "present" => analyses'[k] = analyses[k]]_vars
    BY AloneStep DEF Kept
  <1> QED
    BY <1>1, TypeInvariant, SafeInvariant, AloneInvariant, PTL DEF Spec, AnalysisIsFinal
-----------------------------------------------------------------------------
(* The retry loops run out.                                                *)

InHandler == {"load", "find", "analyze", "commit"}

(* The steps a task has left, by what it does.                              *)
LEMMA RemainingByPlace ==
  ASSUME TypeInv, NEW t \in Task
  PROVE  /\ Remaining(t) \in 0 .. 5 * MaxAttempts + 1
         /\ pc[t] # "idle" => Remaining(t) >= 1
         /\ pc[t] \in InHandler =>
              Remaining(t) >= 4 * (MaxAttempts - attempt[t]) + MaxAttempts + 2
         /\ pc[t] = "publish" => Remaining(t) = MaxAttempts - attempt[t] + 2
  <1>1. MaxAttempts \in Nat \ {0} /\ attempt[t] \in 1 .. MaxAttempts /\ pc[t] \in Control
    BY AttemptAssumption DEF TypeInv, TypeOK
  <1>2. CASE pc[t] = "load"
    <2>1. Remaining(t) = 4 * (MaxAttempts - attempt[t]) + MaxAttempts + 5
      BY <1>2 DEF Remaining
    <2> QED
      BY <1>1, <1>2, <2>1
  <1>3. CASE pc[t] = "find"
    <2>1. Remaining(t) = 4 * (MaxAttempts - attempt[t]) + MaxAttempts + 4
      BY <1>3 DEF Remaining
    <2> QED
      BY <1>1, <1>3, <2>1
  <1>4. CASE pc[t] = "analyze"
    <2>1. Remaining(t) = 4 * (MaxAttempts - attempt[t]) + MaxAttempts + 3
      BY <1>4 DEF Remaining
    <2> QED
      BY <1>1, <1>4, <2>1
  <1>5. CASE pc[t] = "commit"
    <2>1. Remaining(t) = 4 * (MaxAttempts - attempt[t]) + MaxAttempts + 2
      BY <1>5 DEF Remaining
    <2> QED
      BY <1>1, <1>5, <2>1
  <1>6. CASE pc[t] = "publish"
    <2>1. Remaining(t) = MaxAttempts - attempt[t] + 2 /\ pc[t] \notin InHandler
      BY <1>6 DEF Remaining, InHandler
    <2> QED
      BY <1>1, <1>6, <2>1
  <1>7. CASE pc[t] \in {"ack", "reject", "requeue"}
    <2>1. Remaining(t) = 1 /\ pc[t] \notin InHandler
      BY <1>7 DEF Remaining, InHandler
    <2> QED
      BY <1>1, <1>7, <2>1
  <1>8. CASE pc[t] = "idle"
    <2>1. Remaining(t) = 0 /\ pc[t] \notin InHandler
      BY <1>8 DEF Remaining, InHandler
    <2> QED
      BY <1>1, <1>8, <2>1
  <1> QED
    BY <1>1, <1>2, <1>3, <1>4, <1>5, <1>6, <1>7, <1>8 DEF Control

(* What a step of process_message may do to the place of its task: leave    *)
(* the delivery or be about to, begin to publish, begin the next attempt,   *)
(* or get on in this one.                                                   *)
Concludes(t) == pc[t] \in InHandler \cup {"publish"} /\ pc'[t] \in {"ack", "reject", "requeue"}

Leaves(t) == pc[t] # "idle" /\ pc'[t] = "idle"

StartsToPublish(t) == pc[t] \in InHandler /\ pc'[t] = "publish" /\ attempt'[t] = 1

TriesAgain(t) ==
  /\ attempt[t] < MaxAttempts
  /\ attempt'[t] = attempt[t] + 1
  /\ \/ pc[t] \in InHandler /\ pc'[t] = "load"
     \/ pc[t] = "publish" /\ pc'[t] = "publish"

GetsOn(t) ==
  /\ attempt'[t] = attempt[t]
  /\ <<pc[t], pc'[t]>> \in {<<"load", "find">>, <<"find", "analyze">>, <<"analyze", "commit">>}

Advances(t) == Concludes(t) \/ Leaves(t) \/ StartsToPublish(t) \/ TriesAgain(t) \/ GetsOn(t)

LEMMA HandleAdvances ==
  ASSUME TypeInv, NEW t \in Task, Handle(t)
  PROVE  Advances(t)
  <1> USE DEF TypeInv, TypeOK, Goto
  <1>1. pc[t] \in InHandler
    BY DEF Handle, LoadTicket, FindAnalysis, InsertAnalysis, CommitAnalysis, InHandler
  <1>2. ASSUME NEW transient \in BOOLEAN, HandlerRaises(t, transient)
        PROVE  Advances(t)
    <2>1. CASE transient /\ attempt[t] < MaxAttempts
      <3>1. attempt' = [attempt EXCEPT ![t] = attempt[t] + 1] /\ pc' = [pc EXCEPT ![t] = "load"]
        BY <1>2, <2>1 DEF HandlerRaises
      <3>2. attempt'[t] = attempt[t] + 1 /\ pc'[t] = "load"
        BY <3>1
      <3> QED
        BY <1>1, <2>1, <3>2 DEF Advances, TriesAgain
    <2>2. CASE ~ (transient /\ attempt[t] < MaxAttempts)
      <3>1. pc'[t] = "reject"
        BY <1>2, <2>2 DEF HandlerRaises
      <3> QED
        BY <1>1, <3>1 DEF Advances, Concludes
    <2> QED
      BY <2>1, <2>2
  <1>3. ASSUME NEW n, Return(t, n) PROVE Advances(t)
    <2>1. pc'[t] = "publish" /\ attempt'[t] = 1
      BY <1>3 DEF Return
    <2> QED
      BY <1>1, <2>1 DEF Advances, StartsToPublish
  <1>4. CASE HandlerFails(t)
    BY <1>2, <1>4 DEF HandlerFails
  <1>5. CASE LoadTicket(t) /\ ~ HandlerFails(t)
    <2>1. pc[t] = "load" /\ attempt'[t] = attempt[t] /\ pc'[t] \in {"find", "reject"}
      BY <1>5 DEF LoadTicket, Continue
    <2> QED
      BY <1>1, <2>1 DEF Advances, GetsOn, Concludes
  <1>6. CASE FindAnalysis(t) /\ ~ HandlerFails(t)
    <2>1. CASE \E n \in analyses[job[t]] : Return(t, n)
      BY <1>3, <2>1
    <2>2. CASE Continue(t, "analyze")
      <3>1. pc[t] = "find" /\ attempt'[t] = attempt[t] /\ pc'[t] = "analyze"
        BY <1>6, <2>2 DEF FindAnalysis, Continue
      <3> QED
        BY <3>1 DEF Advances, GetsOn
    <2> QED
      BY <1>6, <2>1, <2>2 DEF FindAnalysis
  <1>7. CASE InsertAnalysis(t) /\ ~ HandlerFails(t)
    <2>1. pc[t] = "analyze" /\ attempt'[t] = attempt[t] /\ pc'[t] = "commit"
      BY <1>7 DEF InsertAnalysis
    <2> QED
      BY <2>1 DEF Advances, GetsOn
  <1>8. CASE CommitAnalysis(t)
    BY <1>2, <1>3, <1>4, <1>8 DEF CommitAnalysis
  <1> QED
    BY <1>4, <1>5, <1>6, <1>7, <1>8 DEF Handle

LEMMA PublishAdvances ==
  ASSUME TypeInv, NEW t \in Task, Publish(t)
  PROVE  Advances(t)
  <1> USE DEF TypeInv, TypeOK, Goto
  <1>1. CASE PublishConfirmed(t)
    <2>1. pc[t] = "publish" /\ pc'[t] = "ack"
      BY <1>1 DEF PublishConfirmed
    <2> QED
      BY <2>1 DEF Advances, Concludes
  <1>2. CASE PublishFails(t) /\ attempt[t] < MaxAttempts
    <2>1. pc[t] = "publish" /\ pc' = pc /\ attempt' = [attempt EXCEPT ![t] = attempt[t] + 1]
      BY <1>2 DEF PublishFails, PublishRaises
    <2>2. attempt'[t] = attempt[t] + 1
      BY <2>1
    <2> QED
      BY <1>2, <2>1, <2>2 DEF Advances, TriesAgain
  <1>3. CASE PublishFails(t) /\ ~ (attempt[t] < MaxAttempts)
    <2>1. pc[t] = "publish" /\ pc'[t] = "requeue"
      BY <1>3 DEF PublishFails, PublishRaises
    <2> QED
      BY <2>1 DEF Advances, Concludes
  <1> QED
    BY <1>1, <1>2, <1>3 DEF Publish

LEMMA SettleAdvances ==
  ASSUME TypeInv, NEW t \in Task, Settle(t)
  PROVE  Advances(t)
  BY DEF TypeInv, TypeOK, Settle, Release, Goto, Advances, Leaves

(* Whatever a step of the task does, it has fewer steps left.               *)
LEMMA AdvancesCosts ==
  ASSUME TypeInv, NEW t \in Task, Advances(t)
  PROVE  Remaining(t)' \in Nat /\ Remaining(t)' < Remaining(t)
  <1>1. MaxAttempts \in Nat \ {0} /\ attempt[t] \in 1 .. MaxAttempts
    BY AttemptAssumption DEF TypeInv, TypeOK
  <1>2. CASE Concludes(t)
    <2>1. Remaining(t)' = 1
      BY <1>2 DEF Concludes, Remaining
    <2>2. Remaining(t) >= 2 /\ Remaining(t) \in Nat
      BY <1>1, <1>2, RemainingByPlace DEF Concludes
    <2> QED
      BY <2>1, <2>2
  <1>3. CASE Leaves(t)
    <2>1. Remaining(t)' = 0
      BY <1>3 DEF Leaves, Remaining
    <2>2. Remaining(t) >= 1 /\ Remaining(t) \in Nat
      BY <1>1, <1>3, RemainingByPlace DEF Leaves
    <2> QED
      BY <2>1, <2>2
  <1>4. CASE StartsToPublish(t)
    <2>1. Remaining(t)' = MaxAttempts - 1 + 2
      BY <1>4 DEF StartsToPublish, Remaining
    <2>2. Remaining(t) >= MaxAttempts + 2 /\ Remaining(t) \in Nat
      BY <1>1, <1>4, RemainingByPlace DEF StartsToPublish
    <2> QED
      BY <1>1, <2>1, <2>2
  <1>5. CASE TriesAgain(t) /\ pc[t] = "publish"
    <2>1. pc'[t] = "publish" /\ attempt'[t] = attempt[t] + 1 /\ attempt[t] < MaxAttempts
      BY <1>5 DEF TriesAgain, InHandler
    <2>2. Remaining(t)' = MaxAttempts - (attempt[t] + 1) + 2
      BY <2>1 DEF Remaining
    <2>3. Remaining(t) = MaxAttempts - attempt[t] + 2
      BY <1>5, RemainingByPlace
    <2> QED
      BY <1>1, <2>1, <2>2, <2>3
  <1>6. CASE TriesAgain(t) /\ pc[t] \in InHandler
    <2>1. pc'[t] = "load" /\ attempt'[t] = attempt[t] + 1 /\ attempt[t] < MaxAttempts
      BY <1>6 DEF TriesAgain, InHandler
    <2>2. Remaining(t)' = 4 * (MaxAttempts - (attempt[t] + 1)) + MaxAttempts + 5
      BY <2>1 DEF Remaining
    <2>3. Remaining(t) >= 4 * (MaxAttempts - attempt[t]) + MaxAttempts + 2 /\ Remaining(t) \in Nat
      BY <1>1, <1>6, RemainingByPlace
    <2> QED
      BY <1>1, <2>1, <2>2, <2>3
  <1>7. CASE GetsOn(t)
    <2>1. CASE pc[t] = "load" /\ pc'[t] = "find" /\ attempt'[t] = attempt[t]
      <3>1. /\ Remaining(t) = 4 * (MaxAttempts - attempt[t]) + MaxAttempts + 5
            /\ Remaining(t)' = 4 * (MaxAttempts - attempt[t]) + MaxAttempts + 4
        BY <2>1 DEF Remaining
      <3> QED
        BY <1>1, <3>1
    <2>2. CASE pc[t] = "find" /\ pc'[t] = "analyze" /\ attempt'[t] = attempt[t]
      <3>1. /\ Remaining(t) = 4 * (MaxAttempts - attempt[t]) + MaxAttempts + 4
            /\ Remaining(t)' = 4 * (MaxAttempts - attempt[t]) + MaxAttempts + 3
        BY <2>2 DEF Remaining
      <3> QED
        BY <1>1, <3>1
    <2>3. CASE pc[t] = "analyze" /\ pc'[t] = "commit" /\ attempt'[t] = attempt[t]
      <3>1. /\ Remaining(t) = 4 * (MaxAttempts - attempt[t]) + MaxAttempts + 3
            /\ Remaining(t)' = 4 * (MaxAttempts - attempt[t]) + MaxAttempts + 2
        BY <2>3 DEF Remaining
      <3> QED
        BY <1>1, <3>1
    <2> QED
      BY <1>7, <2>1, <2>2, <2>3 DEF GetsOn
  <1> QED
    BY <1>2, <1>3, <1>4, <1>5, <1>6, <1>7 DEF Advances, TriesAgain

(* A step of one task leaves the place of every other alone.                *)
LEMMA OthersStay ==
  ASSUME TypeInv, NEW t \in Task, NEW u \in Task, u # t,
         Handle(t) \/ Publish(t) \/ Settle(t) \/ Crash(t) \/ Disconnect(t)
         \/ \E j \in Job : Deliver(t, j)
  PROVE  pc'[u] = pc[u] /\ attempt'[u] = attempt[u]
  <1> USE DEF TypeInv, TypeOK, Goto
  <1>1. ASSUME NEW transient, HandlerRaises(t, transient)
        PROVE  pc'[u] = pc[u] /\ attempt'[u] = attempt[u]
    BY <1>1 DEF HandlerRaises
  <1>2. ASSUME NEW label, Continue(t, label) PROVE pc'[u] = pc[u] /\ attempt'[u] = attempt[u]
    BY <1>2 DEF Continue
  <1>3. ASSUME NEW n, Return(t, n) PROVE pc'[u] = pc[u] /\ attempt'[u] = attempt[u]
    BY <1>3 DEF Return
  <1>4. CASE Handle(t)
    <2>1. CASE HandlerFails(t)
      BY <1>1, <2>1 DEF HandlerFails
    <2>2. CASE LoadTicket(t) /\ ~ HandlerFails(t)
      BY <1>2, <2>2 DEF LoadTicket
    <2>3. CASE FindAnalysis(t) /\ ~ HandlerFails(t)
      BY <1>2, <1>3, <2>3 DEF FindAnalysis
    <2>4. CASE InsertAnalysis(t) /\ ~ HandlerFails(t)
      BY <2>4 DEF InsertAnalysis
    <2>5. CASE CommitAnalysis(t) /\ ~ HandlerFails(t)
      BY <1>1, <1>3, <2>5 DEF CommitAnalysis
    <2> QED
      BY <1>4, <2>1, <2>2, <2>3, <2>4, <2>5 DEF Handle
  <1>5. CASE Publish(t)
    BY <1>5 DEF Publish, PublishConfirmed, PublishFails, PublishRaises
  <1>6. CASE Settle(t) \/ Crash(t)
    BY <1>6 DEF Settle, Crash, Release
  <1>7. CASE Disconnect(t) \/ \E j \in Job : Deliver(t, j)
    BY <1>7 DEF Disconnect, Deliver
  <1> QED
    BY <1>4, <1>5, <1>6, <1>7

(* A delivery is settled within five steps of its task for every attempt    *)
(* and one more, however often other tasks, requests and failures come      *)
(* between them: both retry loops of process_message are bounded.           *)
THEOREM DeliveriesEnd ==
  Spec => /\ [](\A t \in Task : Remaining(t) \in 0 .. 5 * MaxAttempts + 1)
          /\ DeliveriesRunOut
  <1>1. TypeInv => \A t \in Task : Remaining(t) \in 0 .. 5 * MaxAttempts + 1
    BY RemainingByPlace
  <1>2. ASSUME TypeInv, NEW t \in Task, Handle(t) \/ Publish(t) \/ Settle(t)
        PROVE  Remaining(t)' \in Nat /\ Remaining(t)' < Remaining(t)
    BY <1>2, HandleAdvances, PublishAdvances, SettleAdvances, AdvancesCosts
  <1>3. ASSUME TypeInv, Next, NEW t \in Task, pc[t] # "idle"
        PROVE  Remaining(t)' <= Remaining(t)
    <2>1. Remaining(t) \in Nat
      BY <1>3, RemainingByPlace, AttemptAssumption
    <2>2. CASE pc'[t] = pc[t] /\ attempt'[t] = attempt[t]
      <3>1. Remaining(t)' = Remaining(t)
        BY <1>3, <2>2 DEF Remaining, TypeInv, TypeOK, Control
      <3> QED
        BY <2>1, <3>1
    <2>3. CASE Handle(t) \/ Publish(t) \/ Settle(t)
      BY <1>2, <1>3, <2>1, <2>3
    <2>4. CASE Crash(t)
      <3>1. Remaining(t)' = 0
        BY <1>3, <2>4 DEF TypeInv, TypeOK, Crash, Release, Goto, Remaining
      <3> QED
        BY <2>1, <3>1
    <2>5. CASE Disconnect(t) \/ \E j \in Job : Replay(j)
      BY <2>2, <2>5 DEF Disconnect, Replay, task
    <2>6. CASE \E k \in Ticket : CreateTicket(k) \/ DeleteTicket(k) \/ ApiCrash(k)
      BY <2>2, <2>6 DEF CreateTicket, CommitTicket, AnnounceTicket, QueueAnalysis, ReplyTicket,
         SetRequest, DeleteTicket, ApiCrash, task
    <2>7. CASE \E u \in Task : u # t /\ (\/ Handle(u) \/ Publish(u) \/ Settle(u)
                                        \/ Crash(u) \/ Disconnect(u)
                                        \/ \E j \in Job : Deliver(u, j))
      BY <1>3, <2>2, <2>7, OthersStay
    <2>8. CASE \E j \in Job : Deliver(t, j)
      BY <1>3, <2>8 DEF Deliver
    <2> QED
      BY <1>3, <2>3, <2>4, <2>5, <2>6, <2>7, <2>8 DEF Next
  <1>4. TypeInv /\ [Next]_vars =>
          [\A t \in Task :
             /\ Handle(t) \/ Publish(t) \/ Settle(t) => Remaining(t)' < Remaining(t)
             /\ pc[t] # "idle" => Remaining(t)' <= Remaining(t)]_vars
    BY <1>2, <1>3
  <1> QED
    BY TypeInvariant, <1>1, <1>4, PTL DEF Spec, DeliveriesRunOut
-----------------------------------------------------------------------------
(* No job is out of everybody's reach.                                     *)

(* A task lets go of its delivery, which the broker takes back or settles.  *)
LEMMA LetGo ==
  ASSUME TypeInv, OutIsHeld, NEW t \in Task, NEW to \in {"ready", "dead", "done"},
         message' = Settled(t, to),
         \A u \in Task : u # t => live'[u] = live[u] /\ job'[u] = job[u]
  PROVE  OutIsHeld'
  <1> SUFFICES ASSUME NEW j \in Job, message'[j] = "out"
               PROVE  \E u \in Task : live'[u] /\ job'[u] = j
    BY DEF OutIsHeld
  <1>1. live[t] => job[t] \in Job
    BY DEF TypeInv, TaskOK
  <1>2. message[j] = "out" /\ ~ (live[t] /\ job[t] = j)
    BY <1>1 DEF Settled, TypeInv, TypeOK
  <1>3. PICK u \in Task : live[u] /\ job[u] = j
    BY <1>2 DEF OutIsHeld
  <1> QED
    BY <1>2, <1>3

LEMMA HeldStep == TypeInv /\ OutIsHeld /\ [Next]_vars => OutIsHeld'
  <1> SUFFICES ASSUME TypeInv, OutIsHeld, [Next]_vars PROVE OutIsHeld'
    OBVIOUS
  <1>1. ASSUME UNCHANGED <<job, live>>, \A j \in Job : message'[j] = "out" => message[j] = "out"
        PROVE  OutIsHeld'
    BY <1>1 DEF OutIsHeld
  <1>2. ASSUME NEW t \in Task, NEW j \in Job, Deliver(t, j) PROVE OutIsHeld'
    <2>1. ~ live[t] /\ live'[t] /\ job'[t] = j
      BY <1>2 DEF Deliver, TypeInv, TypeOK, TaskOK
    <2>2. \A u \in Task : u # t => live'[u] = live[u] /\ job'[u] = job[u]
      BY <1>2 DEF Deliver, TypeInv, TypeOK
    <2>3. \A i \in Job : i # j => message'[i] = message[i]
      BY <1>2 DEF Deliver, TypeInv, TypeOK
    <2> QED
      BY <2>1, <2>2, <2>3 DEF OutIsHeld
  <1>3. ASSUME NEW t \in Task, Release(t)
        PROVE  \A u \in Task : u # t => live'[u] = live[u] /\ job'[u] = job[u]
    BY <1>3 DEF Release, TypeInv, TypeOK
  <1>4. ASSUME NEW t \in Task, Settle(t) PROVE OutIsHeld'
    BY <1>3, <1>4, SettleVerdict, LetGo DEF Settle
  <1>5. ASSUME NEW t \in Task, Crash(t) PROVE OutIsHeld'
    BY <1>3, <1>5, LetGo DEF Crash
  <1>6. ASSUME NEW t \in Task, Disconnect(t) PROVE OutIsHeld'
    <2>1. \A u \in Task : u # t => live'[u] = live[u] /\ job'[u] = job[u]
      BY <1>6 DEF Disconnect, TypeInv, TypeOK
    <2> QED
      BY <1>6, <2>1, LetGo DEF Disconnect
  <1>7. ASSUME NEW j \in Job, Replay(j) PROVE OutIsHeld'
    BY <1>1, <1>7 DEF Replay, task, TypeInv, TypeOK
  <1>8. ASSUME NEW t \in Task, Handle(t) \/ Publish(t) PROVE OutIsHeld'
    <2>1. Working(t)
      BY <1>8 DEF Handle, LoadTicket, FindAnalysis, InsertAnalysis, CommitAnalysis, Handling,
         Publish, PublishConfirmed, PublishFails
    <2> QED
      BY <1>1, <2>1 DEF Working
  <1>9. ASSUME NEW k \in Ticket, CreateTicket(k) \/ DeleteTicket(k) \/ ApiCrash(k)
        PROVE  OutIsHeld'
    <2>1. message' = message \/ message' = [message EXCEPT ![k] = "ready"]
      BY <1>9 DEF CreateTicket, CommitTicket, AnnounceTicket, QueueAnalysis, ReplyTicket,
         Enqueue, DeleteTicket, ApiCrash
    <2>2. UNCHANGED <<job, live>>
      BY <1>9 DEF CreateTicket, CommitTicket, AnnounceTicket, QueueAnalysis, ReplyTicket,
         SetRequest, DeleteTicket, ApiCrash, task
    <2> QED
      BY <1>1, <2>1, <2>2 DEF TypeInv, TypeOK
  <1>10. CASE UNCHANGED vars
    BY <1>1, <1>10 DEF vars, task
  <1> QED
    BY <1>2, <1>4, <1>5, <1>6, <1>7, <1>8, <1>9, <1>10 DEF Next

(* A job out of the queue is held by a task that can still settle it,       *)
(* whatever crashes, disconnects, requeues and redeliveries there were.     *)
THEOREM NoJobIsLost == Spec => []OutIsHeld
  <1>1. Init => OutIsHeld
    BY DEF Init, OutIsHeld
  <1> QED
    BY <1>1, TypeInvariant, HeldStep, PTL DEF Spec
=============================================================================
