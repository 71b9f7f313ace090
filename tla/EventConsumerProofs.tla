------------------------- MODULE EventConsumerProofs -------------------------
(***************************************************************************)
(* Theorems about EventConsumer, for any groups, partitions and records.   *)
(***************************************************************************)
EXTENDS EventConsumer, TLAPS

(* The bound holds and a record in hand has a partition.                    *)
TypeInv ==
  /\ TypeOK
  /\ \A p \in Partition : Len(log[p]) <= MaxRecords
  /\ \A g \in Group : pc[g] # "fetch" => at[g] \in Partition

LEMMA InitTypeInv == EventInit => TypeInv
  <1> SUFFICES ASSUME EventInit PROVE TypeInv
    OBVIOUS
  <1> USE BoundAssumption DEF EventInit
  <1>1. log \in [Partition -> Seq(Ticket \cup {Malformed})]
    OBVIOUS
  <1>2. /\ position \in [Group -> [Partition -> 0..MaxRecords]]
        /\ committed \in [Group -> [Partition -> 0..MaxRecords]]
    OBVIOUS
  <1>3. TypeOK
    BY <1>1, <1>2 DEF TypeOK
  <1> QED
    BY <1>3 DEF TypeInv

LEMMA ProduceType ==
  ASSUME TypeInv, NEW p \in Partition, NEW r \in Ticket \cup {Malformed}, Produce(p, r)
  PROVE  TypeInv'
  <1> USE BoundAssumption DEF TypeInv, TypeOK, Produce, consumer, hand
  <1>1. /\ Append(log[p], r) \in Seq(Ticket \cup {Malformed})
        /\ Len(Append(log[p], r)) = Len(log[p]) + 1
    OBVIOUS
  <1>2. log' = [log EXCEPT ![p] = Append(log[p], r)]
    OBVIOUS
  <1>3. /\ log' \in [Partition -> Seq(Ticket \cup {Malformed})]
        /\ \A q \in Partition : Len(log'[q]) <= MaxRecords
    BY <1>1, <1>2
  <1> QED
    BY <1>3

LEMMA FetchType ==
  ASSUME TypeInv, NEW g \in Group, NEW p \in Partition, Fetch(g, p)
  PROVE  TypeInv'
  <1> USE BoundAssumption DEF TypeInv, TypeOK, Fetch
  <1>1. position[g][p] + 1 \in 0..MaxRecords
    OBVIOUS
  <1>2. position' \in [Group -> [Partition -> 0..MaxRecords]]
    BY <1>1
  <1>3. offset' \in [Group -> 0..MaxRecords]
    BY <1>1
  <1> QED
    BY <1>2, <1>3

LEMMA SetOffsetType ==
  ASSUME TypeInv, NEW g \in Group, at[g] \in Partition, SetOffset(g)
  PROVE  committed' \in [Group -> [Partition -> 0..MaxRecords]]
  BY DEF TypeInv, TypeOK, SetOffset

LEMMA HandledType ==
  ASSUME TypeInv, NEW g \in Group, at[g] \in Partition, Handled(g)
  PROVE  handled' \in [Group -> [Partition -> SUBSET Nat]]
  <1>1. handled[g][at[g]] \cup {offset[g]} \in SUBSET Nat
    BY BoundAssumption DEF TypeInv, TypeOK
  <1> QED
    BY <1>1 DEF TypeInv, TypeOK, Handled

LEMMA RepositionType ==
  ASSUME TypeInv, NEW g \in Group, Reposition(g)
  PROVE  position' \in [Group -> [Partition -> 0..MaxRecords]]
  BY DEF TypeInv, TypeOK, Reposition, StartOffsets

LEMMA FailType ==
  ASSUME TypeInv, NEW g \in Group, Fail(g), UNCHANGED <<log, position>>,
         committed' \in [Group -> [Partition -> 0..MaxRecords]],
         handled' \in [Group -> [Partition -> SUBSET Nat]]
  PROVE  TypeInv'
  <1>1. offset' \in [Group -> 0..MaxRecords]
    BY BoundAssumption DEF TypeInv, TypeOK, Fail
  <1>2. /\ worker' \in [Group -> {"up", "stopping", "failed", "stopped"}]
        /\ pc' \in [Group -> {"fetch", "handle", "commit"}]
        /\ at' \in [Group -> Partition \cup {NoPartition}]
    BY DEF TypeInv, TypeOK, Fail
  <1>3. \A h \in Group : pc'[h] # "fetch" => at'[h] \in Partition
    BY DEF TypeInv, TypeOK, Fail
  <1> QED
    BY <1>1, <1>2, <1>3 DEF TypeInv, TypeOK

LEMMA TypeInvariant == EventSpec => []TypeInv
  <1>1. ASSUME TypeInv, [EventNext]_eventVars PROVE TypeInv'
    <2> USE <1>1
    <2>1. CASE UNCHANGED eventVars
      BY <2>1 DEF TypeInv, TypeOK, eventVars, consumer, hand
    <2>2. ASSUME NEW g \in Group, Handle(g) PROVE TypeInv'
      <3>1. handled' \in [Group -> [Partition -> SUBSET Nat]]
        BY <2>2, HandledType DEF Handle, TypeInv
      <3> QED
        BY <2>2, <3>1 DEF Handle, TypeInv, TypeOK
    <2>3. ASSUME NEW g \in Group, PublishUnconfirmed(g) PROVE TypeInv'
      <3>1. handled' \in [Group -> [Partition -> SUBSET Nat]]
        BY <2>3, HandledType DEF PublishUnconfirmed, TypeInv
      <3> QED
        BY <2>3, <3>1, FailType DEF PublishUnconfirmed, Abandon, TypeInv, TypeOK
    <2>4. ASSUME NEW g \in Group, HandleFails(g) \/ Crash(g) PROVE TypeInv'
      BY <2>4, FailType DEF HandleFails, Crash, Abandon, TypeInv, TypeOK
    <2>5. ASSUME NEW g \in Group, Commit(g) PROVE TypeInv'
      <3>1. committed' \in [Group -> [Partition -> 0..MaxRecords]]
        BY <2>5, SetOffsetType DEF Commit, TypeInv
      <3>2. offset' \in [Group -> 0..MaxRecords]
        BY <2>5, BoundAssumption DEF Commit, TypeInv, TypeOK
      <3>3. /\ pc' \in [Group -> {"fetch", "handle", "commit"}]
            /\ at' \in [Group -> Partition \cup {NoPartition}]
            /\ \A h \in Group : pc'[h] # "fetch" => at'[h] \in Partition
        BY <2>5 DEF Commit, TypeInv, TypeOK
      <3> QED
        BY <2>5, <3>1, <3>2, <3>3 DEF Commit, TypeInv, TypeOK
    <2>6. ASSUME NEW g \in Group, CommitFails(g) PROVE TypeInv'
      <3>1. committed' \in [Group -> [Partition -> 0..MaxRecords]]
        BY <2>6, SetOffsetType DEF CommitFails, TypeInv, TypeOK
      <3> QED
        BY <2>6, <3>1, FailType DEF CommitFails, Abandon, TypeInv, TypeOK
    <2>7. ASSUME NEW g \in Group, Restart(g) \/ Start(g) PROVE TypeInv'
      BY <2>7, RepositionType DEF Restart, Start, Resume, TypeInv, TypeOK, hand
    <2>8. ASSUME NEW g \in Group, Rebalance(g) PROVE TypeInv'
      BY <2>8, RepositionType DEF Rebalance, TypeInv, TypeOK, hand
    <2>9. ASSUME NEW g \in Group, Stop(g) \/ Quit(g) PROVE TypeInv'
      BY <2>9 DEF Stop, Quit, TypeInv, TypeOK, hand
    <2>10. CASE EventNext
      BY <2>2, <2>3, <2>4, <2>5, <2>6, <2>7, <2>8, <2>9, <2>10, ProduceType, FetchType
         DEF EventNext, Work
    <2> QED
      BY <2>1, <2>10
  <1> QED
    BY InitTypeInv, <1>1, PTL DEF EventSpec

(* Every reachable state of the consumer groups is well typed.              *)
THEOREM TypeCorrect == EventSpec => []TypeOK
  <1>1. TypeInv => TypeOK
    BY DEF TypeInv
  <1> QED
    BY TypeInvariant, <1>1, PTL
-----------------------------------------------------------------------------
(* What a group has handled is what it committed, or one record more, and   *)
(* all of it could be decoded.                                              *)
DoneOK(g, p) ==
  /\ handled[g][p] \in {1..committed[g][p], 1..(committed[g][p] + 1)}
  /\ \A o \in handled[g][p] : o \in 1..Len(log[p]) /\ log[p][o] # Malformed

(* The record in hand is the one the committed offset points to, or the     *)
(* last committed one again after a rejoin.                                 *)
HandOK(g, p) ==
  /\ offset[g] \in 1..Len(log[p])
  /\ offset[g] \in {committed[g][p], committed[g][p] + 1}
  /\ position[g][p] \in {offset[g], committed[g][p]}
  /\ pc[g] = "commit" => offset[g] \in handled[g][p]

(* Elsewhere a running process reads on at the committed offset, or has yet *)
(* to read the last committed record again.                                 *)
ReadOK(g, p) ==
  position[g][p] = committed[g][p] \/ position[g][p] + 1 = committed[g][p]

InHand(g, p) == pc[g] # "fetch" /\ at[g] = p

PositionOK(g, p) ==
  Running(g) => IF InHand(g, p) THEN HandOK(g, p) ELSE ReadOK(g, p)

Working(g) == pc[g] # "fetch" => Running(g)

Safe ==
  \A g \in Group :
    Working(g) /\ \A p \in Partition : DoneOK(g, p) /\ PositionOK(g, p)

LEMMA InitSafe == EventInit => Safe
  <1> SUFFICES ASSUME EventInit, NEW g \in Group
               PROVE  Working(g) /\ \A p \in Partition : DoneOK(g, p) /\ PositionOK(g, p)
    BY DEF Safe
  <1>1. \A p \in Partition : handled[g][p] = 1..committed[g][p]
    BY DEF EventInit
  <1> QED
    BY <1>1 DEF EventInit, Working, DoneOK, PositionOK, InHand, ReadOK

(* A step of one group leaves the others' facts alone.                      *)
LEMMA OneGroup ==
  ASSUME TypeInv, Safe, NEW g \in Group, log' = log,
         \A h \in Group \ {g} :
           /\ worker'[h] = worker[h] /\ pc'[h] = pc[h] /\ at'[h] = at[h]
           /\ offset'[h] = offset[h] /\ position'[h] = position[h]
           /\ committed'[h] = committed[h] /\ handled'[h] = handled[h],
         Working(g)',
         \A p \in Partition : DoneOK(g, p)' /\ PositionOK(g, p)'
  PROVE  Safe'
  <1>1. ASSUME NEW h \in Group \ {g} PROVE Working(h)'
    BY DEF Safe, Working, Running
  <1>2. ASSUME NEW h \in Group \ {g}, NEW p \in Partition
        PROVE  DoneOK(h, p)' /\ PositionOK(h, p)'
    <2>1. DoneOK(h, p) /\ PositionOK(h, p)
      BY DEF Safe
    <2>2. DoneOK(h, p)'
      BY <2>1 DEF DoneOK
    <2>3. PositionOK(h, p)'
      BY <2>1 DEF PositionOK, Running, InHand, HandOK, ReadOK
    <2> QED
      BY <2>2, <2>3
  <1> QED
    BY <1>1, <1>2 DEF Safe

LEMMA ProduceSafe ==
  ASSUME TypeInv, Safe, NEW q \in Partition, NEW r \in Ticket \cup {Malformed}, Produce(q, r)
  PROVE  Safe'
  <1>1. /\ log' = [log EXCEPT ![q] = Append(log[q], r)]
        /\ UNCHANGED <<worker, pc, at, offset, position, committed, handled>>
    BY DEF Produce, consumer, hand
  <1>2. ASSUME NEW p \in Partition
        PROVE  \A o \in 1..Len(log[p]) : o \in 1..Len(log'[p]) /\ log'[p][o] = log[p][o]
    <2>1. log[p] \in Seq(Ticket \cup {Malformed}) /\ log[q] \in Seq(Ticket \cup {Malformed})
      BY DEF TypeInv, TypeOK
    <2>2. CASE p = q
      <3>1. log'[p] = Append(log[p], r)
        BY <1>1, <2>2 DEF TypeInv, TypeOK
      <3> QED
        BY <2>1, <3>1
    <2>3. CASE p # q
      BY <1>1, <2>3 DEF TypeInv, TypeOK
    <2> QED
      BY <2>2, <2>3
  <1> SUFFICES ASSUME NEW g \in Group, NEW p \in Partition
               PROVE  Working(g)' /\ DoneOK(g, p)' /\ PositionOK(g, p)'
    BY DEF Safe
  <1>3. Working(g) /\ DoneOK(g, p) /\ PositionOK(g, p)
    BY DEF Safe
  <1>4. Working(g)'
    BY <1>1, <1>3 DEF Working, Running
  <1>5. DoneOK(g, p)'
    BY <1>1, <1>2, <1>3 DEF DoneOK
  <1>6. PositionOK(g, p)'
    BY <1>1, <1>2, <1>3 DEF PositionOK, Running, InHand, HandOK, ReadOK
  <1> QED
    BY <1>4, <1>5, <1>6

LEMMA FetchSafe ==
  ASSUME TypeInv, Safe, NEW g \in Group, NEW q \in Partition, Fetch(g, q)
  PROVE  Safe'
  <1>1. /\ log' = log /\ UNCHANGED <<worker, committed, handled>>
        /\ worker[g] = "up" /\ pc[g] = "fetch" /\ position[g][q] < Len(log[q])
    BY DEF Fetch
  <1>2. /\ pc'[g] = "handle" /\ at'[g] = q /\ offset'[g] = position[g][q] + 1
        /\ position'[g][q] = position[g][q] + 1
        /\ \A p \in Partition \ {q} : position'[g][p] = position[g][p]
        /\ \A h \in Group \ {g} :
             pc'[h] = pc[h] /\ at'[h] = at[h] /\ offset'[h] = offset[h]
               /\ position'[h] = position[h]
    BY DEF Fetch, TypeInv, TypeOK
  <1>3. Working(g)'
    BY <1>1 DEF Working, Running
  <1>4. ASSUME NEW p \in Partition PROVE DoneOK(g, p)' /\ PositionOK(g, p)'
    <2>1. DoneOK(g, p) /\ ReadOK(g, p)
      BY <1>1 DEF Safe, PositionOK, InHand, Running
    <2>2. DoneOK(g, p)'
      BY <1>1, <2>1 DEF DoneOK
    <2>3. CASE p = q
      <3>1. position[g][q] \in Nat /\ committed[g][q] \in Nat /\ Len(log[q]) \in Nat
        BY BoundAssumption DEF TypeInv, TypeOK
      <3>2. pc'[g] # "commit"
        BY <1>2
      <3>3. HandOK(g, q)'
        BY <1>1, <1>2, <2>1, <2>3, <3>1, <3>2 DEF HandOK, ReadOK
      <3> QED
        BY <1>2, <2>2, <2>3, <3>3 DEF PositionOK, InHand
    <2>4. CASE p # q
      BY <1>1, <1>2, <2>1, <2>2, <2>4 DEF PositionOK, InHand, ReadOK
    <2> QED
      BY <2>3, <2>4
  <1> QED
    BY <1>1, <1>2, <1>3, <1>4, OneGroup

LEMMA HandledDone ==
  ASSUME TypeInv, Safe, NEW g \in Group, pc[g] = "handle", Decodable(g), Handled(g),
         UNCHANGED <<log, committed>>
  PROVE  /\ \A p \in Partition : DoneOK(g, p)'
         /\ \A h \in Group \ {g} : handled'[h] = handled[h]
         /\ offset[g] \in handled'[g][at[g]]
         /\ HandOK(g, at[g])
  <1>1. PICK q \in Partition : q = at[g]
    BY DEF TypeInv
  <1>2. HandOK(g, q) /\ DoneOK(g, q)
    BY <1>1 DEF Safe, Working, PositionOK, InHand
  <1>3. /\ handled'[g][q] = handled[g][q] \cup {offset[g]}
        /\ \A p \in Partition \ {q} : handled'[g][p] = handled[g][p]
        /\ \A h \in Group \ {g} : handled'[h] = handled[h]
    BY <1>1 DEF Handled, TypeInv, TypeOK
  <1>4. DoneOK(g, q)'
    <2>1. committed[g][q] \in Nat /\ offset[g] >= 1
      BY <1>2, BoundAssumption DEF TypeInv, TypeOK, HandOK
    <2>2. handled'[g][q] \in {1..committed[g][q], 1..(committed[g][q] + 1)}
      BY <1>2, <1>3, <2>1 DEF DoneOK, HandOK
    <2>3. log[q][offset[g]] # Malformed
      BY <1>1 DEF Decodable, Record
    <2> QED
      BY <1>2, <1>3, <2>2, <2>3 DEF DoneOK, HandOK
  <1>5. ASSUME NEW p \in Partition \ {q} PROVE DoneOK(g, p)'
    BY <1>3 DEF Safe, DoneOK
  <1> QED
    BY <1>1, <1>2, <1>3, <1>4, <1>5

LEMMA SetOffsetDone ==
  ASSUME TypeInv, Safe, NEW g \in Group, pc[g] = "commit", SetOffset(g),
         UNCHANGED <<log, handled>>
  PROVE  /\ \A p \in Partition : DoneOK(g, p)'
         /\ \A h \in Group \ {g} : committed'[h] = committed[h]
         /\ committed'[g][at[g]] = offset[g]
         /\ \A p \in Partition : p # at[g] => committed'[g][p] = committed[g][p]
         /\ HandOK(g, at[g])
  <1>1. PICK q \in Partition : q = at[g]
    BY DEF TypeInv
  <1>2. HandOK(g, q) /\ DoneOK(g, q)
    BY <1>1 DEF Safe, Working, PositionOK, InHand
  <1>3. /\ committed'[g][q] = offset[g]
        /\ \A p \in Partition \ {q} : committed'[g][p] = committed[g][p]
        /\ \A h \in Group \ {g} : committed'[h] = committed[h]
    BY <1>1 DEF SetOffset, TypeInv, TypeOK
  <1>4. DoneOK(g, q)'
    <2>1. committed[g][q] \in Nat /\ offset[g] \in handled[g][q]
      BY <1>2, BoundAssumption DEF TypeInv, TypeOK, HandOK
    <2>2. handled[g][q] \in {1..offset[g], 1..(offset[g] + 1)}
      BY <1>2, <2>1 DEF DoneOK, HandOK
    <2> QED
      BY <1>2, <1>3, <2>2 DEF DoneOK
  <1>5. ASSUME NEW p \in Partition \ {q} PROVE DoneOK(g, p)'
    BY <1>3 DEF Safe, DoneOK
  <1> QED
    BY <1>1, <1>2, <1>3, <1>4, <1>5

LEMMA FailSafe ==
  ASSUME TypeInv, Safe, NEW g \in Group, Fail(g), UNCHANGED <<log, position>>,
         \A h \in Group \ {g} : committed'[h] = committed[h] /\ handled'[h] = handled[h],
         \A p \in Partition : DoneOK(g, p)'
  PROVE  Safe'
  <1>1. /\ worker'[g] = "failed" /\ pc'[g] = "fetch"
        /\ \A h \in Group \ {g} :
             worker'[h] = worker[h] /\ pc'[h] = pc[h] /\ at'[h] = at[h]
               /\ offset'[h] = offset[h]
    BY DEF Fail, TypeInv, TypeOK
  <1>2. Working(g)' /\ \A p \in Partition : PositionOK(g, p)'
    BY <1>1 DEF Working, PositionOK, Running
  <1> QED
    BY <1>1, <1>2, OneGroup

LEMMA HandleSafe ==
  ASSUME TypeInv, Safe, NEW g \in Group, Handle(g)
  PROVE  Safe'
  <1>1. /\ UNCHANGED <<log, worker, at, offset, position, committed>>
        /\ pc[g] = "handle" /\ pc'[g] = "commit"
        /\ \A h \in Group \ {g} : pc'[h] = pc[h]
    BY DEF Handle, TypeInv, TypeOK
  <1>2. /\ \A p \in Partition : DoneOK(g, p)'
        /\ \A h \in Group \ {g} : handled'[h] = handled[h]
        /\ offset[g] \in handled'[g][at[g]]
        /\ HandOK(g, at[g])
    BY HandledDone DEF Handle
  <1>3. Working(g)'
    BY <1>1 DEF Safe, Working, Running
  <1>4. ASSUME NEW p \in Partition PROVE PositionOK(g, p)'
    <2>1. PositionOK(g, p)
      BY DEF Safe
    <2>2. CASE at[g] = p
      BY <1>1, <1>2, <2>2 DEF PositionOK, InHand, HandOK
    <2>3. CASE at[g] # p
      BY <1>1, <2>1, <2>3 DEF PositionOK, InHand, ReadOK, Running
    <2> QED
      BY <2>2, <2>3
  <1> QED
    BY <1>1, <1>2, <1>3, <1>4, OneGroup

LEMMA FailedStepSafe ==
  ASSUME TypeInv, Safe, NEW g \in Group,
         PublishUnconfirmed(g) \/ HandleFails(g) \/ CommitFails(g) \/ Crash(g)
  PROVE  Safe'
  <1>1. CASE PublishUnconfirmed(g)
    <2>1. /\ \A p \in Partition : DoneOK(g, p)'
          /\ \A h \in Group \ {g} : handled'[h] = handled[h]
      BY <1>1, HandledDone DEF PublishUnconfirmed
    <2> QED
      BY <1>1, <2>1, FailSafe DEF PublishUnconfirmed, Abandon
  <1>2. CASE UNCHANGED <<log, position, committed, handled>> /\ Fail(g)
    <2>1. \A p \in Partition : DoneOK(g, p)'
      BY <1>2 DEF Safe, DoneOK
    <2> QED
      BY <1>2, <2>1, FailSafe
  <1>3. CASE CommitFails(g) /\ SetOffset(g)
    <2>1. /\ \A p \in Partition : DoneOK(g, p)'
          /\ \A h \in Group \ {g} : committed'[h] = committed[h]
      BY <1>3, SetOffsetDone DEF CommitFails
    <2> QED
      BY <1>3, <2>1, FailSafe DEF CommitFails, Abandon
  <1> QED
    BY <1>1, <1>2, <1>3 DEF HandleFails, CommitFails, Crash, Abandon

LEMMA CommitSafe ==
  ASSUME TypeInv, Safe, NEW g \in Group, Commit(g)
  PROVE  Safe'
  <1>1. /\ UNCHANGED <<log, worker, position, handled>>
        /\ pc[g] = "commit" /\ pc'[g] = "fetch"
        /\ \A h \in Group \ {g} :
             pc'[h] = pc[h] /\ at'[h] = at[h] /\ offset'[h] = offset[h]
    BY DEF Commit, TypeInv, TypeOK
  <1>2. /\ \A p \in Partition : DoneOK(g, p)'
        /\ \A h \in Group \ {g} : committed'[h] = committed[h]
        /\ committed'[g][at[g]] = offset[g]
        /\ \A p \in Partition : p # at[g] => committed'[g][p] = committed[g][p]
        /\ HandOK(g, at[g])
    BY SetOffsetDone DEF Commit
  <1>3. Working(g)'
    BY <1>1 DEF Working
  <1>4. ASSUME NEW p \in Partition PROVE PositionOK(g, p)'
    <2>1. PositionOK(g, p)
      BY DEF Safe
    <2>2. committed[g][p] \in Nat
      BY BoundAssumption DEF TypeInv, TypeOK
    <2>3. CASE at[g] = p
      <3>1. ReadOK(g, p)'
        BY <1>1, <1>2, <2>2, <2>3 DEF ReadOK, HandOK
      <3> QED
        BY <1>1, <3>1 DEF PositionOK, InHand
    <2>4. CASE at[g] # p
      BY <1>1, <1>2, <2>1, <2>4 DEF PositionOK, InHand, ReadOK, Running
    <2> QED
      BY <2>3, <2>4
  <1> QED
    BY <1>1, <1>2, <1>3, <1>4, OneGroup

(* A process that starts or rejoins reads on at the committed offsets.      *)
LEMMA RepositionSafe ==
  ASSUME TypeInv, Safe, NEW g \in Group, Restart(g) \/ Start(g) \/ Rebalance(g)
  PROVE  Safe'
  <1>1. /\ UNCHANGED <<log, pc, at, offset, committed, handled>>
        /\ \A h \in Group \ {g} : worker'[h] = worker[h] /\ position'[h] = position[h]
        /\ position'[g] = committed[g]
    BY DEF Restart, Start, Resume, Rebalance, Reposition, StartOffsets, hand, TypeInv, TypeOK
  <1>2. pc[g] # "fetch" => Running(g)
    BY DEF Safe, Working
  <1>3. Running(g)'
    BY DEF Restart, Start, Resume, Rebalance, Running, TypeInv, TypeOK
  <1>4. Working(g)'
    BY <1>3 DEF Working
  <1>5. ASSUME NEW p \in Partition PROVE DoneOK(g, p)' /\ PositionOK(g, p)'
    <2>1. DoneOK(g, p) /\ PositionOK(g, p)
      BY DEF Safe
    <2>2. DoneOK(g, p)'
      BY <1>1, <2>1 DEF DoneOK
    <2>3. PositionOK(g, p)'
      BY <1>1, <1>2, <2>1 DEF PositionOK, InHand, HandOK, ReadOK
    <2> QED
      BY <2>2, <2>3
  <1> QED
    BY <1>1, <1>4, <1>5, OneGroup

LEMMA StopSafe ==
  ASSUME TypeInv, Safe, NEW g \in Group, Stop(g) \/ Quit(g)
  PROVE  Safe'
  <1>1. /\ UNCHANGED <<log, pc, at, offset, position, committed, handled>>
        /\ \A h \in Group \ {g} : worker'[h] = worker[h]
        /\ Running(g)' => Running(g)
        /\ pc[g] # "fetch" => Running(g)'
    BY DEF Stop, Quit, hand, Running, TypeInv, TypeOK
  <1>2. Working(g)' /\ \A p \in Partition : DoneOK(g, p)' /\ PositionOK(g, p)'
    BY <1>1 DEF Safe, Working, DoneOK, PositionOK, InHand, HandOK, ReadOK
  <1> QED
    BY <1>1, <1>2, OneGroup

LEMMA SafeInvariant == EventSpec => []Safe
  <1>1. ASSUME TypeInv, Safe, [EventNext]_eventVars PROVE Safe'
    <2> USE <1>1
    <2>1. CASE UNCHANGED eventVars
      BY <2>1 DEF eventVars, consumer, hand, Safe, Working, DoneOK, PositionOK, Running,
                  InHand, HandOK, ReadOK
    <2>2. CASE EventNext
      BY <2>2, ProduceSafe, FetchSafe, HandleSafe, FailedStepSafe, CommitSafe,
         RepositionSafe, StopSafe DEF EventNext, Work
    <2> QED
      BY <2>1, <2>2
  <1> QED
    BY InitSafe, TypeInvariant, <1>1, PTL DEF EventSpec

(* No group's offset ever passes a record it did not log or publish.        *)
THEOREM NoRecordIsSkipped == EventSpec => []NothingSkipped
  <1>1. TypeInv /\ Safe => NothingSkipped
    <2> SUFFICES ASSUME TypeInv, Safe, NEW g \in Group, NEW p \in Partition,
                        NEW o \in 1..committed[g][p]
                 PROVE  o \in handled[g][p] /\ log[p][o] # Malformed
      BY DEF NothingSkipped
    <2>1. DoneOK(g, p) /\ committed[g][p] \in Nat
      BY BoundAssumption DEF Safe, TypeInv, TypeOK
    <2>2. o \in handled[g][p]
      BY <2>1 DEF DoneOK
    <2> QED
      BY <2>1, <2>2 DEF DoneOK
  <1> QED
    BY TypeInvariant, SafeInvariant, <1>1, PTL

(* Every group handles a partition in order, at most one record ahead of    *)
(* what it committed.                                                       *)
THEOREM RecordsAreHandledInOrder == EventSpec => []HandledInOrder
  <1>1. Safe => HandledInOrder
    BY DEF Safe, DoneOK, HandledInOrder
  <1> QED
    BY SafeInvariant, <1>1, PTL

(* The committed offsets say what was done, but for one record at most.     *)
THEOREM OffsetsTellTheTruth == EventSpec => []OffsetsAreTrue
  <1>1. NothingSkipped /\ HandledInOrder => OffsetsAreTrue
    BY DEF OffsetsAreTrue
  <1> QED
    BY NoRecordIsSkipped, RecordsAreHandledInOrder, <1>1, PTL

(* No group's committed offset ever goes back.                              *)
THEOREM OffsetsNeverGoBack == EventSpec => OffsetsAdvance
  <1>1. ASSUME TypeInv, Safe, EventNext, NEW g \in Group, NEW p \in Partition
        PROVE  committed'[g][p] >= committed[g][p]
    <2> USE <1>1
    <2>1. committed[g][p] \in Nat
      BY BoundAssumption DEF TypeInv, TypeOK
    <2>2. ASSUME NEW h \in Group, pc[h] = "commit", SetOffset(h), UNCHANGED <<log, handled>>
          PROVE  committed'[g][p] >= committed[g][p]
      <3>1. /\ \A i \in Group \ {h} : committed'[i] = committed[i]
            /\ committed'[h][at[h]] = offset[h]
            /\ \A q \in Partition : q # at[h] => committed'[h][q] = committed[h][q]
            /\ HandOK(h, at[h])
        BY <2>2, SetOffsetDone
      <3>2. CASE h = g /\ at[h] = p
        BY <2>1, <3>1, <3>2 DEF HandOK
      <3>3. CASE ~ (h = g /\ at[h] = p)
        BY <2>1, <3>1, <3>3
      <3> QED
        BY <3>2, <3>3
    <2>3. CASE UNCHANGED committed
      BY <2>1, <2>3
    <2>4. UNCHANGED committed \/ \E h \in Group : Commit(h) \/ CommitFails(h)
      BY DEF EventNext, Work, Produce, consumer, Fetch, Handle, PublishUnconfirmed, HandleFails,
             Crash, Restart, Start, Resume, Stop, Quit, Rebalance
    <2>5. UNCHANGED committed
            \/ \E h \in Group : pc[h] = "commit" /\ SetOffset(h) /\ UNCHANGED <<log, handled>>
      BY <2>4 DEF Commit, CommitFails
    <2> QED
      BY <2>2, <2>3, <2>5
  <1>2. TypeInv /\ Safe /\ [EventNext]_eventVars
          => [\A g \in Group, p \in Partition : committed'[g][p] >= committed[g][p]]_eventVars
    BY <1>1
  <1> QED
    BY TypeInvariant, SafeInvariant, <1>2, PTL DEF EventSpec, OffsetsAdvance
=============================================================================
