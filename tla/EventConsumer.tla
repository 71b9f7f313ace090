---------------------------- MODULE EventConsumer ----------------------------
(***************************************************************************)
(* The Kafka consumer groups of kafka_worker.py, one worker process each:  *)
(* a record is read, handled (logged, or published to Redis by the         *)
(* notifications group) and only then its offset is committed.  Whatever   *)
(* fails ends the process with the offset uncommitted; Compose restarts it *)
(* at the committed offset.                                                *)
(*                                                                         *)
(* An offset here counts records from 1: committed[g][p] = n says that the *)
(* first n records of p are done.  A ticket stands for the event about it. *)
(***************************************************************************)
EXTENDS Naturals, Sequences

CONSTANTS
  Ticket,       \* tickets events are about
  Malformed,    \* a record that cannot be decoded
  Created,      \* partitions of topic ticket.created
  Completed,    \* partitions of topic analysis.completed
  Group,        \* consumer groups
  Notifier,     \* the group ticket-notifications
  NoPartition,
  MaxRecords    \* bound on the length of a partition

Partition == Created \cup Completed

ASSUME RecordAssumption == Malformed \notin Ticket

ASSUME BoundAssumption == MaxRecords \in Nat

ASSUME PartitionAssumption == Created \cap Completed = {} /\ NoPartition \notin Partition

VARIABLES
  log,       \* log[p]: the records of partition p
  worker,    \* worker[g]: the process of group g
  pc,        \* pc[g]: what the process does next
  at,        \* at[g]: the partition of the record in hand
  offset,    \* offset[g]: its offset
  position,  \* position[g][p]: records fetched so far
  committed, \* committed[g][p]: the group's offset in Kafka
  handled    \* handled[g][p]: offsets logged or published, ever

hand == <<pc, at, offset>>
consumer == <<worker, hand, position, committed, handled>>
eventVars == <<log, consumer>>

TypeOK ==
  /\ log \in [Partition -> Seq(Ticket \cup {Malformed})]
  /\ worker \in [Group -> {"up", "stopping", "failed", "stopped"}]
  /\ pc \in [Group -> {"fetch", "handle", "commit"}]
  /\ at \in [Group -> Partition \cup {NoPartition}]
  /\ offset \in [Group -> 0..MaxRecords]
  /\ position \in [Group -> [Partition -> 0..MaxRecords]]
  /\ committed \in [Group -> [Partition -> 0..MaxRecords]]
  /\ handled \in [Group -> [Partition -> SUBSET Nat]]

EventInit ==
  /\ log = [p \in Partition |-> <<>>]
  /\ worker = [g \in Group |-> "up"]
  /\ pc = [g \in Group |-> "fetch"]
  /\ at = [g \in Group |-> NoPartition]
  /\ offset = [g \in Group |-> 0]
  /\ position = [g \in Group |-> [p \in Partition |-> 0]]
  /\ committed = [g \in Group |-> [p \in Partition |-> 0]]
  /\ handled = [g \in Group |-> [p \in Partition |-> {}]]
-----------------------------------------------------------------------------
Running(g) == worker[g] \in {"up", "stopping"}

(* A producer's record, or a record no producer of this repository writes.  *)
Produce(p, r) ==
  /\ Len(log[p]) < MaxRecords
  /\ log' = [log EXCEPT ![p] = Append(@, r)]
  /\ UNCHANGED consumer

(* getmany(max_records=1) returns the next record of some partition.        *)
Fetch(g, p) ==
  /\ worker[g] = "up"
  /\ pc[g] = "fetch"
  /\ position[g][p] < Len(log[p])
  /\ pc' = [pc EXCEPT ![g] = "handle"]
  /\ at' = [at EXCEPT ![g] = p]
  /\ offset' = [offset EXCEPT ![g] = position[g][p] + 1]
  /\ position' = [position EXCEPT ![g][p] = @ + 1]
  /\ UNCHANGED <<log, worker, committed, handled>>

(* Drop the record in hand and end the process with an error.               *)
Fail(g) ==
  /\ worker' = [worker EXCEPT ![g] = "failed"]
  /\ pc' = [pc EXCEPT ![g] = "fetch"]
  /\ at' = [at EXCEPT ![g] = NoPartition]
  /\ offset' = [offset EXCEPT ![g] = 0]

(* Mutant: a failed record is logged and the loop goes on.                  *)
Swallow(g) ==
  /\ pc' = [pc EXCEPT ![g] = "fetch"]
  /\ at' = [at EXCEPT ![g] = NoPartition]
  /\ offset' = [offset EXCEPT ![g] = 0]
  /\ UNCHANGED worker

Abandon(g) == Fail(g)

Record(g) == log[at[g]][offset[g]]

Decodable(g) == Record(g) # Malformed

Publishes(g) == g = Notifier /\ at[g] \in Completed

Handled(g) == handled' = [handled EXCEPT ![g][at[g]] = @ \cup {offset[g]}]

(* Decode the record, then log it or publish it to Redis; a failed publish  *)
(* may have reached Redis.                                                  *)
Handle(g) ==
  /\ pc[g] = "handle"
  /\ Decodable(g)
  /\ Handled(g)
  /\ pc' = [pc EXCEPT ![g] = "commit"]
  /\ UNCHANGED <<log, worker, at, offset, position, committed>>

PublishUnconfirmed(g) ==
  /\ pc[g] = "handle"
  /\ Decodable(g)
  /\ Publishes(g)
  /\ Handled(g)
  /\ Abandon(g)
  /\ UNCHANGED <<log, position, committed>>

HandleFails(g) ==
  /\ pc[g] = "handle"
  /\ ~ Decodable(g) \/ Publishes(g)
  /\ Abandon(g)
  /\ UNCHANGED <<log, position, committed, handled>>

(* Mutant: nothing is committed.                                            *)
ForgetOffset(g) == g \in Group /\ UNCHANGED committed

(* Exactly the record in hand and what precedes it.                         *)
SetOffset(g) == committed' = [committed EXCEPT ![g][at[g]] = offset[g]]

Commit(g) ==
  /\ pc[g] = "commit"
  /\ SetOffset(g)
  /\ pc' = [pc EXCEPT ![g] = "fetch"]
  /\ at' = [at EXCEPT ![g] = NoPartition]
  /\ offset' = [offset EXCEPT ![g] = 0]
  /\ UNCHANGED <<log, worker, position, handled>>

(* The commit is refused, or applied with its reply lost.                   *)
CommitFails(g) ==
  /\ pc[g] = "commit"
  /\ SetOffset(g) \/ UNCHANGED committed
  /\ Abandon(g)
  /\ UNCHANGED <<log, position, handled>>

Crash(g) ==
  /\ Running(g)
  /\ Fail(g)
  /\ UNCHANGED <<log, position, committed, handled>>

(* Mutant: every start reads from the earliest record.                      *)
Earliest(g) == [p \in Partition |-> IF g \in Group THEN 0 ELSE committed[g][p]]

(* The committed offsets, the earliest record where there is none.          *)
StartOffsets(g) == committed[g]

Reposition(g) == position' = [position EXCEPT ![g] = StartOffsets(g)]

(* A new process starts to consume.                                         *)
Resume(g) ==
  /\ worker' = [worker EXCEPT ![g] = "up"]
  /\ Reposition(g)
  /\ UNCHANGED <<log, hand, committed, handled>>

(* Mutant: Compose restarts only what ended well.                           *)
RestartStopped(g) == worker[g] = "stopped" /\ Resume(g)

(* restart: on-failure                                                      *)
Restart(g) == worker[g] = "failed" /\ Resume(g)

(* Compose is told to start the service again.                              *)
Start(g) == worker[g] = "stopped" /\ Resume(g)

(* SIGTERM or SIGINT sets stop_event; the loop looks at it between records. *)
Stop(g) ==
  /\ worker[g] = "up"
  /\ worker' = [worker EXCEPT ![g] = "stopping"]
  /\ UNCHANGED <<log, hand, position, committed, handled>>

Quit(g) ==
  /\ worker[g] = "stopping"
  /\ pc[g] = "fetch"
  /\ worker' = [worker EXCEPT ![g] = "stopped"]
  /\ UNCHANGED <<log, hand, position, committed, handled>>

(* The group rejoins (a missed heartbeat): the client forgets how far it    *)
(* read and starts again at the committed offsets, whatever is in hand.     *)
Rebalance(g) ==
  /\ Running(g)
  /\ Reposition(g)
  /\ UNCHANGED <<log, worker, hand, committed, handled>>

(* What a group does without Redis.                                         *)
Work(g) ==
  \/ \E p \in Partition : Fetch(g, p)
  \/ HandleFails(g) \/ Commit(g) \/ CommitFails(g)
  \/ Crash(g) \/ Restart(g) \/ Start(g) \/ Stop(g) \/ Quit(g) \/ Rebalance(g)

EventNext ==
  \/ \E p \in Partition, r \in Ticket \cup {Malformed} : Produce(p, r)
  \/ \E g \in Group : Work(g) \/ Handle(g) \/ PublishUnconfirmed(g)

EventSpec == EventInit /\ [][EventNext]_eventVars

(* The client fetches from every partition in turn, Compose restarts the    *)
(* process, and neither crashes nor failures hit the same point for ever.   *)
EventFairness ==
  \A g \in Group :
    /\ \A p \in Partition : SF_eventVars(Fetch(g, p))
    /\ SF_eventVars(Handle(g))
    /\ SF_eventVars(Commit(g))
    /\ WF_eventVars(Restart(g))
    /\ WF_eventVars(Quit(g))

FairEventSpec == EventSpec /\ EventFairness
-----------------------------------------------------------------------------
(* No group skips a record: whatever its offset has passed was logged or    *)
(* published, so a record that cannot be decoded is never passed (a failed  *)
(* record is left uncommitted for replay).                                  *)
NothingSkipped ==
  \A g \in Group, p \in Partition :
    \A o \in 1..committed[g][p] :
      o \in handled[g][p] /\ log[p][o] # Malformed

(* A group handles each partition in order, and is never more than one      *)
(* record ahead of its committed offset: an interruption repeats one record *)
(* per partition at most (one record is read at a time).                    *)
HandledInOrder ==
  \A g \in Group, p \in Partition :
    handled[g][p] \in {1..committed[g][p], 1..(committed[g][p] + 1)}

(* What the committed offset says was done is done, and almost nothing that *)
(* it does not say.                                                         *)
OffsetsAreTrue == NothingSkipped /\ HandledInOrder

(* Committed offsets never go back, not even when a rejoin makes the client *)
(* read a record again that is just being committed.                        *)
OffsetsAdvance ==
  [][\A g \in Group, p \in Partition : committed'[g][p] >= committed[g][p]]_eventVars

(* Every record is consumed by every group in the end, unless a record that *)
(* cannot be decoded makes the process fail over and over, or the group is  *)
(* stopped.                                                                 *)
Poisoned == \E p \in Partition : \E o \in 1..Len(log[p]) : log[p][o] = Malformed

EventsAreConsumed ==
  \A g \in Group, p \in Partition :
    \A o \in 1..MaxRecords :
      (o <= Len(log[p])) ~>
        (committed[g][p] >= o \/ Poisoned \/ worker[g] = "stopped")
=============================================================================
