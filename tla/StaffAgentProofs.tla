--------------------------- MODULE StaffAgentProofs ---------------------------
(***************************************************************************)
(* Proofs about Customers and StaffAgent for every number of users,        *)
(* tickets, requests, asks and connections.                                *)
(*                                                                         *)
(* The heart is what a flushed, uncommitted statement keeps others from:   *)
(* Place says what a request knows about its own row, Pair what two        *)
(* requests cannot both hold, and Fresh that an e-mail past the unique     *)
(* index belongs to nobody else.                                           *)
(***************************************************************************)
EXTENDS StaffAgent, FiniteSetTheorems, WellFoundedInduction, TLAPS

Writes(r) == Updates(r) \/ Asks(r, "delete")

(* What a request may rely on at its place in the code.                     *)
Target(r) ==
  /\ pc[r] # "idle" => req[r] \in Operation
  /\ pc[r] \in {"load", "flush", "held", "commit"} =>
       subject[r] = IF req[r].kind \in {"patch", "delete", "read"} THEN req[r].id ELSE Null
  /\ pc[r] \in {"flush", "held", "commit"} =>
       req[r].kind \in {"create user", "create ticket", "patch", "delete"}
  /\ pc[r] \in {"flush", "held", "commit", "refresh"} /\ (Asks(r, "patch") \/ Asks(r, "delete")) =>
       subject[r] \in Id /\ life[subject[r]] # "new"
  /\ pc[r] = "publish" => Asks(r, "create ticket")

Checked(r) ==
  /\ Flushed(r) /\ Asks(r, "patch") =>
       Written(r) = {} \/ (~ HasNull(r) /\ life[subject[r]] = "stored")
  /\ Flushed(r) /\ Asks(r, "create ticket") => life[req[r].id] = "stored"

Remembered(r) ==
  pc[r] \in {"flush", "held", "commit"} /\ Asks(r, "patch") /\ life[subject[r]] = "stored" =>
    \A c \in Column \ overwritten[r] : row[subject[r]][c] = loaded[r][c]

Survives(r) ==
  pc[r] = "refresh" /\ Asks(r, "patch") /\ life[subject[r]] = "stored" =>
    \A c \in DOMAIN req[r].change \ overwritten[r] : row[subject[r]][c] = req[r].change[c]

Place(r) == Target(r) /\ Checked(r) /\ Remembered(r) /\ Survives(r)

(* What two requests cannot both hold.                                      *)
Pair(r, s) ==
  /\ Flushed(r) /\ Flushed(s) /\ Writes(r) /\ Writes(s) /\ subject[r] = subject[s] =>
       life[subject[r]] # "stored"
  /\ Flushed(r) /\ Flushed(s) /\ Asks(r, "create ticket") /\ Asks(s, "delete") =>
       subject[s] # req[r].id
  /\ pc[r] = "commit" /\ pc[s] = "commit" /\ SetsEmail(r) /\ SetsEmail(s) =>
       req[r].change["key"] # req[s].change["key"]

Fresh(r) == pc[r] = "commit" => ~ Duplicate(r)

Isolated ==
  \A r \in Request : Place(r) /\ Fresh(r) /\ \A s \in Request \ {r} : Pair(r, s)

TablesInv == TypeOK /\ Isolated /\ EmailsUnique /\ CustomersExist
-----------------------------------------------------------------------------
(* What OperationAssumption says of a request that is being served.         *)
LEMMA OperationFacts ==
  ASSUME NEW o \in Operation
  PROVE  /\ o.kind \in Kind
         /\ o.change \in Change
         /\ DOMAIN o.change \subseteq Column
         /\ \A c \in DOMAIN o.change : o.change[c] \in Value \cup {Null}
         /\ o.kind \in {"create user", "create ticket"} => o.change \in Row
         /\ o.kind = "create ticket" => o.id \in User
         /\ o.kind \in {"patch", "delete", "read"} => o.id \in Id
<1>1. /\ o \in [kind : Kind, id : Id \cup {Null}, change : Change]
      /\ o.kind \in {"create user", "create ticket"} => o.change \in Row
      /\ o.kind = "create ticket" => o.id \in User
      /\ o.kind \in {"patch", "delete", "read"} => o.id \in Id
  BY OperationAssumption
<1>2. o.change \in Change
  BY <1>1
<1>3. PICK S \in SUBSET Column : o.change \in [S -> Value \cup {Null}]
  BY <1>2 DEF Change
<1>4. QED
  BY <1>1, <1>2, <1>3

(* Nothing of a request the step leaves alone looks different afterwards.   *)
LEMMA Frame ==
  ASSUME NEW s \in Request,
         req'[s] = req[s], subject'[s] = subject[s], loaded'[s] = loaded[s]
  PROVE  /\ Written(s)' = Written(s)
         /\ Updates(s)' = Updates(s)
         /\ SetsEmail(s)' = SetsEmail(s)
         /\ Writes(s)' = Writes(s)
         /\ HasNull(s)' = HasNull(s)
         /\ \A k : Asks(s, k)' = Asks(s, k)
BY DEF Written, Updates, SetsEmail, Writes, HasNull, Asks

(* A step of one request that changes no table preserves what all of them   *)
(* rely on, if it does so for its own request.                              *)
LEMMA QuietStep ==
  ASSUME Isolated, NEW r \in Request, UNCHANGED <<tables, overwritten>>,
         \A s \in Request \ {r} :
           pc'[s] = pc[s] /\ req'[s] = req[s] /\ subject'[s] = subject[s] /\ loaded'[s] = loaded[s],
         Place(r)', Fresh(r)',
         \A s \in Request \ {r} : Pair(r, s)' /\ Pair(s, r)'
  PROVE  Isolated'
<1>1. ASSUME NEW s \in Request \ {r}
      PROVE  Place(s)' /\ Fresh(s)'
  <2>1. Place(s) /\ Fresh(s)
    BY DEF Isolated
  <2>2. /\ Written(s)' = Written(s)
        /\ SetsEmail(s)' = SetsEmail(s)
        /\ HasNull(s)' = HasNull(s)
    BY Frame
  <2>3. Target(s)' /\ Checked(s)'
    BY <2>1, <2>2 DEF Place, Target, Checked, Flushed, Asks, tables
  <2>4. Remembered(s)' /\ Survives(s)'
    BY <2>1, <2>2 DEF Place, Remembered, Survives, Asks, tables
  <2>5. Fresh(s)'
    BY <2>1, <2>2 DEF Fresh, Duplicate, tables
  <2>6. QED
    BY <2>3, <2>4, <2>5 DEF Place
<1>2. ASSUME NEW s \in Request \ {r}, NEW t \in Request \ {r}, s # t
      PROVE  Pair(s, t)'
  <2>1. Pair(s, t)
    BY <1>2 DEF Isolated
  <2>2. /\ SetsEmail(s)' = SetsEmail(s) /\ Writes(s)' = Writes(s)
        /\ SetsEmail(t)' = SetsEmail(t) /\ Writes(t)' = Writes(t)
    BY Frame
  <2>3. QED
    BY <2>1, <2>2 DEF Pair, Flushed, Asks, tables
<1>3. QED
  BY <1>1, <1>2 DEF Isolated

(* The answer ends what a request relies on.                                *)
LEMMA Answered ==
  ASSUME TypeOK, Isolated, NEW r \in Request, NEW what,
         pc[r] # "idle", Respond(r, what), Reading(r), UNCHANGED loaded
  PROVE  Isolated'
<1>1. /\ pc' = [pc EXCEPT ![r] = "done"]
      /\ UNCHANGED <<tables, req, subject, overwritten, loaded>>
      /\ pc \in [Request -> Control]
  BY DEF Respond, Reading, TypeOK
<1>2. pc'[r] = "done"
  BY <1>1
<1>3. Place(r)' /\ Fresh(r)'
  <2>1. Target(r)
    BY DEF Isolated, Place
  <2>2. Target(r)'
    BY <1>1, <1>2, <2>1 DEF Target
  <2>3. QED
    BY <1>2, <2>2 DEF Place, Checked, Remembered, Survives, Fresh, Flushed
<1>4. \A s \in Request \ {r} : Pair(r, s)' /\ Pair(s, r)'
  BY <1>2 DEF Pair, Flushed
<1>5. QED
  BY <1>1, <1>3, <1>4, QuietStep

LEMMA ReceiveIsolated ==
  ASSUME TypeOK, Isolated, NEW r \in Request, NEW o \in Operation, Receive(r, o)
  PROVE  Isolated'
<1>1. /\ pc' = [pc EXCEPT ![r] = IF o.kind = "create user" THEN "flush" ELSE "load"]
      /\ req' = [req EXCEPT ![r] = o]
      /\ subject' = [subject EXCEPT
           ![r] = IF o.kind \in {"patch", "delete", "read"} THEN o.id ELSE Null]
      /\ UNCHANGED <<tables, overwritten, loaded>>
      /\ pc \in [Request -> Control]
      /\ req \in [Request -> Operation \cup {NoRequest}]
      /\ subject \in [Request -> Id \cup {Null}]
  BY DEF Receive, Goto, TypeOK
<1>2. /\ pc'[r] = IF o.kind = "create user" THEN "flush" ELSE "load"
      /\ req'[r] = o
      /\ subject'[r] = IF o.kind \in {"patch", "delete", "read"} THEN o.id ELSE Null
  BY <1>1
<1>3. Place(r)' /\ Fresh(r)'
  BY <1>2 DEF Place, Target, Checked, Remembered, Survives, Fresh, Flushed, Asks
<1>4. \A s \in Request \ {r} : Pair(r, s)' /\ Pair(s, r)'
  BY <1>2 DEF Pair, Flushed
<1>5. QED
  BY <1>1, <1>3, <1>4, QuietStep

LEMMA LoadIsolated ==
  ASSUME TypeOK, Isolated, NEW r \in Request, Load(r)
  PROVE  Isolated'
<1>1. pc[r] = "load" /\ Reading(r)
  BY DEF Load
<1>2. CASE \E what : Respond(r, what) /\ UNCHANGED loaded
  BY <1>1, <1>2, Answered
<1>3. CASE /\ req[r].kind \in {"patch", "delete", "create ticket"}
           /\ life[req[r].id] = "stored"
           /\ Goto(r, "flush")
           /\ loaded' = [loaded EXCEPT ![r] = row[req[r].id]]
  <2>1. /\ pc' = [pc EXCEPT ![r] = "flush"]
        /\ loaded' = [loaded EXCEPT ![r] = row[req[r].id]]
        /\ UNCHANGED <<tables, req, subject, overwritten>>
        /\ pc \in [Request -> Control]
        /\ loaded \in [Request -> Row \cup {NoRow}]
    BY <1>1, <1>3 DEF Goto, Reading, TypeOK
  <2>2. /\ pc'[r] = "flush"
        /\ loaded'[r] = row[req[r].id]
        /\ req'[r] = req[r]
        /\ subject'[r] = subject[r]
    BY <2>1
  <2>3. Target(r) /\ req[r] \in Operation
    BY <1>1 DEF Isolated, Place, Target
  <2>4. req[r].kind \in {"patch", "delete"} => subject[r] = req[r].id /\ subject[r] \in Id
    BY <1>1, <2>3, OperationFacts DEF Target
  <2>5. Target(r)'
    <3>1. req'[r] \in Operation /\ req'[r].kind \in {"patch", "delete", "create ticket"}
      BY <1>3, <2>2, <2>3
    <3>2. subject'[r] = IF req'[r].kind \in {"patch", "delete", "read"} THEN req'[r].id ELSE Null
      BY <1>1, <2>2, <2>3 DEF Target
    <3>3. req'[r].kind \in {"patch", "delete"} =>
            subject'[r] \in Id /\ life'[subject'[r]] # "new"
      BY <1>3, <2>1, <2>2, <2>4 DEF tables
    <3>4. QED
      BY <2>2, <3>1, <3>2, <3>3 DEF Target, Asks
  <2>6. Place(r)' /\ Fresh(r)'
    BY <2>1, <2>2, <2>4, <2>5 DEF Place, Checked, Remembered, Survives, Fresh, Flushed, Asks, tables
  <2>7. \A s \in Request \ {r} : Pair(r, s)' /\ Pair(s, r)'
    BY <2>2 DEF Pair, Flushed
  <2>8. QED
    BY <2>1, <2>6, <2>7, QuietStep
<1>4. QED
  BY <1>2, <1>3 DEF Load

(* What a step past the row half of the flush may count on.                 *)
LEMMA FlushIsolated ==
  ASSUME TypeOK, Isolated, NEW r \in Request, Flush(r)
  PROVE  Isolated'
<1>1. pc[r] = "flush" /\ Reading(r) /\ UNCHANGED loaded /\ Blockers(r) = {}
  BY DEF Flush
<1>2. CASE \E what : Respond(r, what)
  BY <1>1, <1>2, Answered
<1>3. CASE /\ Goto(r, "held") \/ Goto(r, "commit")
           /\ Goto(r, "held") \/ (Asks(r, "patch") /\ ~ Updates(r))
           /\ Asks(r, "create ticket") => ReferenceHolds(r)
           /\ Asks(r, "patch") /\ Updates(r) => ~ HasNull(r) /\ life[subject[r]] = "stored"
  <2>1. /\ pc' = [pc EXCEPT ![r] = "held"] \/ pc' = [pc EXCEPT ![r] = "commit"]
        /\ UNCHANGED <<tables, req, subject, loaded, overwritten>>
        /\ pc \in [Request -> Control]
    BY <1>1, <1>3 DEF Goto, Reading, TypeOK
  <2>2. /\ pc'[r] \in {"held", "commit"}
        /\ pc'[r] = "commit" => Asks(r, "patch") /\ Written(r) = {}
        /\ \A s \in Request \ {r} : pc'[s] = pc[s]
    BY <1>3, <2>1 DEF Goto, Updates, TypeOK
  <2>3. /\ Written(r)' = Written(r) /\ Writes(r)' = Writes(r) /\ HasNull(r)' = HasNull(r)
        /\ SetsEmail(r)' = SetsEmail(r)
    BY <2>1, Frame
  <2>4. Target(r) /\ Remembered(r)
    BY DEF Isolated, Place
  <2>5. Target(r)'
    BY <1>1, <2>1, <2>2, <2>4 DEF Target, Asks, tables
  <2>6. Checked(r)'
    BY <1>3, <2>1, <2>3 DEF Checked, Asks, ReferenceHolds, Updates, tables
  <2>7. Remembered(r)' /\ Survives(r)'
    BY <1>1, <2>1, <2>2, <2>4 DEF Remembered, Survives, Asks, tables
  <2>8. Fresh(r)' /\ ~ (pc'[r] = "commit" /\ SetsEmail(r)')
    BY <2>2, <2>3 DEF Fresh, SetsEmail, Duplicate, Asks
  <2>9. ASSUME NEW s \in Request \ {r}
        PROVE  Pair(r, s)' /\ Pair(s, r)'
    <3>1. /\ Writes(s)' = Writes(s) /\ SetsEmail(s)' = SetsEmail(s)
          /\ req'[s] = req[s] /\ subject'[s] = subject[s] /\ pc'[s] = pc[s]
          /\ req'[r] = req[r] /\ subject'[r] = subject[r] /\ life' = life
      BY <2>1, <2>2, Frame DEF tables
    <3>2. s \notin Blockers(r)
      BY <1>1
    <3>3. Target(r) /\ Target(s)
      BY DEF Isolated, Place
    <3>4. Flushed(s) /\ Writes(s) /\ Writes(r) /\ subject[r] = subject[s] =>
            life[subject[r]] # "stored"
      <4>1. SUFFICES ASSUME Flushed(s), Writes(s), Writes(r), subject[r] = subject[s],
                            life[subject[r]] = "stored"
                     PROVE  FALSE
        OBVIOUS
      <4>2. subject[r] \in Id
        BY <1>1, <3>3, <4>1 DEF Target, Writes, Updates
      <4>3. subject[r] \in RowLocks(s)
        BY <4>1, <4>2 DEF RowLocks, Writes
      <4>4. QED
        BY <1>1, <3>2, <4>1, <4>3 DEF Blockers, Writes
    <3>5. Flushed(s) /\ Asks(r, "create ticket") /\ Asks(s, "delete") => subject[s] # req[r].id
      <4>1. SUFFICES ASSUME Flushed(s), Asks(r, "create ticket"), Asks(s, "delete"),
                            subject[s] = req[r].id
                     PROVE  FALSE
        OBVIOUS
      <4>2. subject[s] \in Id
        BY <3>3, <4>1 DEF Target, Flushed
      <4>3. req[r].id \in RowLocks(s) /\ ChangesKey(s)
        BY <1>3, <4>1, <4>2 DEF RowLocks, ReferenceHolds, ChangesKey
      <4>4. QED
        BY <1>1, <3>2, <4>1, <4>3 DEF Blockers
    <3>6. Flushed(s) /\ Asks(s, "create ticket") /\ Asks(r, "delete") => subject[r] # req[s].id
      BY <1>1, <3>2 DEF Blockers, References, ChangesKey
    <3>7. QED
      BY <2>3, <2>8, <3>1, <3>4, <3>5, <3>6 DEF Pair, Flushed, Asks
  <2>10. QED
    BY <2>1, <2>2, <2>5, <2>6, <2>7, <2>8, <2>9, QuietStep DEF Place
<1>4. QED
  BY <1>2, <1>3 DEF Flush, Asks

LEMMA ConstrainIsolated ==
  ASSUME TypeOK, Isolated, NEW r \in Request, Constrain(r)
  PROVE  Isolated'
<1>1. pc[r] = "held" /\ Reading(r) /\ UNCHANGED loaded /\ Blockers(r) = {}
  BY DEF Constrain
<1>2. CASE \E what : Respond(r, what)
  BY <1>1, <1>2, Answered
<1>3. CASE ~ Duplicate(r) /\ Goto(r, "commit")
  <2>1. /\ pc' = [pc EXCEPT ![r] = "commit"]
        /\ UNCHANGED <<tables, req, subject, loaded, overwritten>>
        /\ pc \in [Request -> Control]
    BY <1>1, <1>3 DEF Goto, Reading, TypeOK
  <2>2. pc'[r] = "commit" /\ \A s \in Request \ {r} : pc'[s] = pc[s]
    BY <2>1
  <2>3. /\ Written(r)' = Written(r) /\ Writes(r)' = Writes(r) /\ HasNull(r)' = HasNull(r)
        /\ SetsEmail(r)' = SetsEmail(r)
    BY <2>1, Frame
  <2>4. Place(r)
    BY DEF Isolated
  <2>5. Target(r)' /\ Checked(r)'
    BY <1>1, <2>1, <2>2, <2>3, <2>4 DEF Place, Target, Checked, Flushed, Asks, tables
  <2>6. Remembered(r)' /\ Survives(r)'
    BY <1>1, <2>1, <2>2, <2>4 DEF Place, Remembered, Survives, Asks, tables
  <2>7. Fresh(r)'
    BY <1>3, <2>1, <2>3 DEF Fresh, Duplicate, tables
  <2>8. ASSUME NEW s \in Request \ {r}
        PROVE  Pair(r, s)' /\ Pair(s, r)'
    <3>1. /\ Writes(s)' = Writes(s) /\ SetsEmail(s)' = SetsEmail(s)
          /\ req'[s] = req[s] /\ subject'[s] = subject[s] /\ pc'[s] = pc[s]
          /\ req'[r] = req[r] /\ subject'[r] = subject[r] /\ life' = life
      BY <2>1, <2>2, Frame DEF tables
    <3>2. s \notin Blockers(r) /\ Pair(r, s) /\ Pair(s, r)
      BY <1>1 DEF Isolated
    <3>3. pc[s] = "commit" /\ SetsEmail(r) /\ SetsEmail(s) =>
            req[r].change["key"] # req[s].change["key"]
      BY <1>1, <3>2 DEF Blockers, Claims
    <3>4. QED
      BY <1>1, <2>2, <2>3, <3>1, <3>2, <3>3 DEF Pair, Flushed, Asks
  <2>9. QED
    BY <2>1, <2>2, <2>5, <2>6, <2>7, <2>8, QuietStep DEF Place
<1>4. QED
  BY <1>2, <1>3 DEF Constrain

LEMMA OtherQuietIsolated ==
  ASSUME TypeOK, Isolated, NEW r \in Request,
         RefuseNull(r) \/ Publish(r) \/ Refresh(r) \/ Abort(r) \/ BreakDeadlock(r)
  PROVE  Isolated'
<1>1. CASE Publish(r) /\ Goto(r, "refresh")
  <2>1. /\ pc[r] = "publish"
        /\ pc' = [pc EXCEPT ![r] = "refresh"]
        /\ UNCHANGED <<tables, req, subject, loaded, overwritten>>
        /\ pc \in [Request -> Control]
    BY <1>1 DEF Publish, Goto, Reading, TypeOK
  <2>2. pc'[r] = "refresh" /\ req'[r] = req[r]
    BY <2>1
  <2>3. Target(r)
    BY DEF Isolated, Place
  <2>4. Place(r)' /\ Fresh(r)'
    BY <2>1, <2>2, <2>3
       DEF Place, Target, Checked, Remembered, Survives, Fresh, Flushed, Asks
  <2>5. \A s \in Request \ {r} : Pair(r, s)' /\ Pair(s, r)'
    BY <2>2 DEF Pair, Flushed
  <2>6. QED
    BY <2>1, <2>4, <2>5, QuietStep
<1>2. CASE pc[r] # "idle" /\ Reading(r) /\ UNCHANGED loaded /\ \E what : Respond(r, what)
  BY <1>2, Answered
<1>3. Deadlocked(r) => pc[r] # "idle"
  BY DEF Deadlocked, Blockers
<1>4. QED
  BY <1>1, <1>2, <1>3 DEF RefuseNull, Publish, Refresh, Abort, BreakDeadlock, Fail
-----------------------------------------------------------------------------
(* An applied commit, but for what it does to the tables.                   *)
Applied(r) ==
  /\ pc[r] = "commit"
  /\ Notice(r)
  /\ UNCHANGED <<req, loaded>>
  /\ \E x \in {"publish", "refresh", "done"} :
       /\ pc' = [pc EXCEPT ![r] = x]
       /\ x = "publish" => Asks(r, "create ticket")
       /\ x = "refresh" => ~ Asks(r, "delete")

LEMMA CommitCases ==
  ASSUME NEW r \in Request, Commit(r)
  PROVE  \/ Apply(r) /\ Applied(r)
         \/ /\ Respond(r, "failed")
            /\ pc[r] = "commit"
            /\ UNCHANGED <<tables, req, subject, loaded, overwritten>>
<1>1. AfterCommit(r) \in {"publish", "refresh"}
  BY DEF AfterCommit
<1>2. AfterCommit(r) = "publish" => Asks(r, "create ticket")
  BY DEF AfterCommit
<1>3. QED
  BY <1>1, <1>2 DEF Commit, Applied, Respond, Goto

(* What needs no look at the tables but that rows live once: others keep    *)
(* their targets and their locks, and the committing request lets go.       *)
LEMMA AppliedStep ==
  ASSUME TypeOK, Isolated, NEW r \in Request, Applied(r),
         \A s \in Request \ {r} : subject'[s] = subject[s],
         \A i \in Id : life[i] # "new" =>
           life'[i] # "new" /\ (life'[i] = "stored" => life[i] = "stored"),
         Asks(r, "patch") => subject'[r] \in Id /\ life'[subject'[r]] # "new",
         Survives(r)',
         \A s \in Request \ {r} : Checked(s)' /\ Remembered(s)' /\ Survives(s)' /\ Fresh(s)'
  PROVE  Isolated'
<1>1. /\ UNCHANGED <<req, loaded>>
      /\ pc'[r] \in {"publish", "refresh", "done"}
      /\ pc'[r] = "publish" => Asks(r, "create ticket")
      /\ pc'[r] = "refresh" => ~ Asks(r, "delete")
      /\ \A s \in Request \ {r} : pc'[s] = pc[s]
      /\ pc[r] = "commit"
  BY DEF Applied, TypeOK
<1>2. ASSUME NEW s \in Request \ {r}
      PROVE  Place(s)' /\ Fresh(s)'
  <2>1. Target(s)
    BY DEF Isolated, Place
  <2>2. Target(s)'
    BY <1>1, <2>1 DEF Target, Asks
  <2>3. QED
    BY <2>2 DEF Place
<1>3. Place(r)' /\ Fresh(r)'
  <2>1. req[r] \in Operation
    BY <1>1 DEF Isolated, Place, Target
  <2>2. Target(r)'
    BY <1>1, <2>1 DEF Target, Asks
  <2>3. QED
    BY <1>1, <2>2 DEF Place, Checked, Remembered, Fresh, Flushed
<1>4. ASSUME NEW s \in Request \ {r}
      PROVE  Pair(r, s)' /\ Pair(s, r)'
  BY <1>1 DEF Pair, Flushed
<1>5. ASSUME NEW s \in Request \ {r}, NEW t \in Request \ {r}, s # t
      PROVE  Pair(s, t)'
  <2>1. Pair(s, t) /\ Target(s)
    BY <1>5 DEF Isolated, Place
  <2>2. /\ SetsEmail(s)' = SetsEmail(s) /\ Writes(s)' = Writes(s)
        /\ SetsEmail(t)' = SetsEmail(t) /\ Writes(t)' = Writes(t)
        /\ req'[s] = req[s] /\ req'[t] = req[t]
        /\ pc'[s] = pc[s] /\ pc'[t] = pc[t]
        /\ subject'[s] = subject[s] /\ subject'[t] = subject[t]
    BY <1>1, Frame
  <2>3. Flushed(s) /\ Writes(s) => subject[s] \in Id /\ life[subject[s]] # "new"
    BY <2>1 DEF Target, Writes, Updates, Flushed
  <2>4. Flushed(s) /\ Writes(s) /\ life[subject[s]] # "stored" => life'[subject[s]] # "stored"
    BY <2>3
  <2>5. QED
    BY <2>1, <2>2, <2>4 DEF Pair, Flushed, Asks
<1>6. QED
  BY <1>2, <1>3, <1>4, <1>5 DEF Isolated

(* The e-mail a request past the index is about to write is nobody else's.  *)
LEMMA UpdateStep ==
  ASSUME TablesInv, NEW r \in Request, Update(r), Applied(r)
  PROVE  Isolated' /\ EmailsUnique' /\ CustomersExist'
<1> DEFINE i == subject[r]
<1>1. /\ row' = [row EXCEPT ![i] = Patched(r)]
      /\ UNCHANGED <<life, owner, subject, req, loaded>>
      /\ Asks(r, "patch") /\ pc[r] = "commit"
      /\ row \in [Id -> Row]
  BY DEF Update, Applied, TablesInv, TypeOK
<1>2. i \in Id /\ life[i] # "new" /\ req[r] \in Operation
  BY <1>1 DEF TablesInv, Isolated, Place, Target
<1>3. /\ row'[i] = Patched(r)
      /\ \A j \in Id \ {i} : row'[j] = row[j]
  BY <1>1, <1>2
<1>4. /\ \A c \in Written(r) : c \in Column => row'[i][c] = req[r].change[c]
      /\ \A c \in Column \ Written(r) : row'[i][c] = row[i][c]
  BY <1>3 DEF Patched
<1>5. Written(r) \subseteq DOMAIN req[r].change /\ DOMAIN req[r].change \subseteq Column
  BY <1>2, OperationFacts DEF Written
<1>6. \A s \in Request \ {r} :
        /\ overwritten[s] \subseteq overwritten'[s]
        /\ subject[s] = i /\ pc[s] \in {"flush", "held", "commit", "refresh"} =>
             DOMAIN req[r].change \subseteq overwritten'[s]
  BY <1>1 DEF Applied, Notice
<1>7. ~ Duplicate(r)
  BY <1>1 DEF TablesInv, Isolated, Fresh
<1>8. i \in User /\ "key" \in Written(r) => SetsEmail(r)
  BY <1>1 DEF SetsEmail
<1>9. \A u \in User :
        row'[u]["key"] = row[u]["key"]
          \/ (u = i /\ SetsEmail(r) /\ row'[u]["key"] = req[r].change["key"])
  BY <1>3, <1>4, <1>8 DEF Id, Column
<1>10. EmailsUnique'
  <2>1. SUFFICES ASSUME NEW u \in User, NEW v \in User,
                        life[u] = "stored", life[v] = "stored",
                        row'[u]["key"] = row'[v]["key"], u # v
                 PROVE  FALSE
    BY <1>1 DEF EmailsUnique, Unique
  <2>2. row[u]["key"] # row[v]["key"]
    BY <2>1 DEF TablesInv, EmailsUnique, Unique
  <2>3. CASE u = i /\ SetsEmail(r) /\ row'[u]["key"] = req[r].change["key"]
    BY <1>7, <1>9, <2>1, <2>3 DEF Duplicate
  <2>4. CASE v = i /\ SetsEmail(r) /\ row'[v]["key"] = req[r].change["key"]
    BY <1>7, <1>9, <2>1, <2>4 DEF Duplicate
  <2>5. QED
    BY <1>9, <2>1, <2>2, <2>3, <2>4
<1>11. CustomersExist'
  BY <1>1 DEF TablesInv, CustomersExist, Owned
<1>12. Survives(r)'
  <2>1. SUFFICES ASSUME life[i] = "stored", NEW c \in DOMAIN req[r].change \ overwritten[r]
                 PROVE  row'[i][c] = req[r].change[c]
    <3>1. overwritten'[r] = overwritten[r]
      BY DEF Applied, Notice
    <3>2. QED
      BY <1>1, <3>1 DEF Survives
  <2>2. CASE c \in Written(r)
    BY <1>4, <1>5, <2>2
  <2>3. CASE c \notin Written(r)
    <3>1. req[r].change[c] = loaded[r][c]
      BY <2>1, <2>3 DEF Written
    <3>2. row[i][c] = loaded[r][c]
      BY <1>1, <1>5, <2>1 DEF TablesInv, Isolated, Place, Remembered
    <3>3. QED
      BY <1>4, <1>5, <2>3, <3>1, <3>2
  <2>4. QED
    BY <2>2, <2>3
<1>13. ASSUME NEW s \in Request \ {r}
       PROVE  Checked(s)' /\ Remembered(s)' /\ Survives(s)' /\ Fresh(s)'
  <2>1. /\ Written(s)' = Written(s) /\ SetsEmail(s)' = SetsEmail(s) /\ HasNull(s)' = HasNull(s)
        /\ pc'[s] = pc[s] /\ req'[s] = req[s] /\ subject'[s] = subject[s] /\ loaded'[s] = loaded[s]
        /\ life' = life
    BY <1>1, Frame DEF Applied, TablesInv, TypeOK
  <2>2. Place(s) /\ Fresh(s) /\ Pair(r, s)
    BY DEF TablesInv, Isolated
  <2>3. Checked(s)'
    BY <2>1, <2>2 DEF Place, Checked, Flushed, Asks
  <2>4. ASSUME pc[s] \in {"flush", "held", "commit", "refresh"},
               Asks(s, "patch"), NEW c \in Column \ overwritten'[s]
        PROVE  c \notin overwritten[s] /\ row'[subject[s]][c] = row[subject[s]][c]
    <3>1. subject[s] \in Id
      BY <2>2, <2>4 DEF Place, Target
    <3>2. CASE subject[s] # i
      BY <1>3, <1>6, <3>1, <3>2
    <3>3. CASE subject[s] = i
      BY <1>4, <1>5, <1>6, <2>4, <3>3
    <3>4. QED
      BY <3>2, <3>3
  <2>5. Remembered(s)'
    BY <2>1, <2>2, <2>4 DEF Place, Remembered, Asks
  <2>6. Survives(s)'
    <3>1. SUFFICES ASSUME pc[s] = "refresh", Asks(s, "patch"), life[subject[s]] = "stored",
                          NEW c \in DOMAIN req[s].change \ overwritten'[s]
                   PROVE  row'[subject[s]][c] = req[s].change[c]
      BY <2>1 DEF Survives, Asks
    <3>2. c \in Column
      BY <2>2, <3>1, OperationFacts DEF Place, Target
    <3>3. c \notin overwritten[s] /\ row'[subject[s]][c] = row[subject[s]][c]
      BY <2>4, <3>1, <3>2
    <3>4. QED
      BY <2>2, <3>1, <3>3 DEF Place, Survives
  <2>7. Fresh(s)'
    <3>1. SUFFICES ASSUME pc[s] = "commit", SetsEmail(s),
                          NEW u \in User \ {subject[s]}, life[u] = "stored",
                          row'[u]["key"] = req[s].change["key"]
                   PROVE  FALSE
      BY <2>1 DEF Fresh, Duplicate
    <3>2. row[u]["key"] # req[s].change["key"]
      BY <2>2, <3>1 DEF Fresh, Duplicate
    <3>3. SetsEmail(r) => req[r].change["key"] # req[s].change["key"]
      BY <1>1, <2>2, <3>1 DEF Pair
    <3>4. QED
      BY <1>9, <3>1, <3>2, <3>3
  <2>8. QED
    BY <2>3, <2>5, <2>6, <2>7
<1>14. Isolated'
  BY <1>1, <1>2, <1>12, <1>13, AppliedStep DEF TablesInv
<1>15. QED
  BY <1>10, <1>11, <1>14

(* Only a row that nobody has seen yet is written.                          *)
LEMMA InsertStep ==
  ASSUME TablesInv, NEW r \in Request, NEW i \in Id, Insert(r, i), Applied(r)
  PROVE  Isolated' /\ EmailsUnique' /\ CustomersExist'
<1>1. /\ life[i] = "new"
      /\ life' = [life EXCEPT ![i] = "stored"]
      /\ row' = [row EXCEPT ![i] = req[r].change]
      /\ subject' = [subject EXCEPT ![r] = i]
      /\ UNCHANGED <<req, loaded>>
      /\ pc[r] = "commit"
      /\ ~ Asks(r, "patch")
      /\ life \in [Id -> {"new", "stored", "deleted"}]
      /\ row \in [Id -> Row]
  BY DEF Insert, Applied, TablesInv, TypeOK, Asks
<1>2. /\ life'[i] = "stored" /\ row'[i] = req[r].change
      /\ \A j \in Id \ {i} : life'[j] = life[j] /\ row'[j] = row[j]
  BY <1>1
<1>3. Place(r) /\ Fresh(r)
  BY DEF TablesInv, Isolated
<1>4. i \in User => SetsEmail(r) /\ subject[r] = Null
  <2>1. i \in User => Asks(r, "create user")
    BY IdAssumption DEF Insert
  <2>2. QED
    BY <1>1, <1>3, <2>1 DEF Place, Target, SetsEmail, Asks
<1>5. \A u \in User : i \in User /\ life[u] = "stored" => row[u]["key"] # req[r].change["key"]
  <2>1. SUFFICES ASSUME NEW u \in User, i \in User, life[u] = "stored"
                 PROVE  row[u]["key"] # req[r].change["key"]
    OBVIOUS
  <2>2. u # subject[r]
    BY <1>4, <2>1, IdAssumption DEF Id
  <2>3. QED
    BY <1>1, <1>3, <1>4, <2>1, <2>2 DEF Fresh, Duplicate
<1>6. EmailsUnique'
  <2>1. SUFFICES ASSUME NEW u \in User, NEW v \in User,
                        life'[u] = "stored", life'[v] = "stored",
                        row'[u]["key"] = row'[v]["key"], u # v
                 PROVE  FALSE
    BY DEF EmailsUnique, Unique
  <2>2. u \in Id /\ v \in Id
    BY DEF Id
  <2>3. CASE u # i /\ v # i
    BY <1>2, <2>1, <2>2, <2>3 DEF TablesInv, EmailsUnique, Unique
  <2>4. CASE u = i
    BY <1>2, <1>5, <2>1, <2>2, <2>4
  <2>5. CASE v = i
    BY <1>2, <1>5, <2>1, <2>2, <2>5
  <2>6. QED
    BY <2>3, <2>4, <2>5
<1>7. CustomersExist'
  <2>1. SUFFICES ASSUME NEW t \in Ticket, life'[t] = "stored", owner'[t] # Null
                 PROVE  owner'[t] \in User /\ life'[owner'[t]] = "stored"
    BY DEF CustomersExist, Owned
  <2>2. t \in Id
    BY DEF Id
  <2>3. CASE t = i
    <3>1. Asks(r, "create ticket") /\ owner' = [owner EXCEPT ![i] = req[r].id]
      BY <2>3, IdAssumption DEF Insert
    <3>2. req[r].id \in User /\ life[req[r].id] = "stored"
      BY <1>1, <1>3, <3>1, OperationFacts DEF Place, Target, Checked, Flushed, Asks
    <3>3. owner'[t] = req[r].id
      BY <2>3, <3>1 DEF TablesInv, TypeOK
    <3>4. QED
      BY <1>2, <3>2, <3>3 DEF Id
  <2>4. CASE t # i
    <3>1. owner'[t] = owner[t]
      BY <2>4 DEF Insert, TablesInv, TypeOK
    <3>2. life[t] = "stored"
      BY <1>2, <2>1, <2>2, <2>4
    <3>3. owner[t] \in User /\ life[owner[t]] = "stored"
      BY <2>1, <3>1, <3>2 DEF TablesInv, CustomersExist, Owned
    <3>4. QED
      BY <1>2, <3>1, <3>3 DEF Id
  <2>5. QED
    BY <2>3, <2>4
<1>8. Survives(r)'
  BY <1>1 DEF Survives, Asks
<1>9. ASSUME NEW s \in Request \ {r}
      PROVE  Checked(s)' /\ Remembered(s)' /\ Survives(s)' /\ Fresh(s)'
  <2>1. /\ Written(s)' = Written(s) /\ SetsEmail(s)' = SetsEmail(s) /\ HasNull(s)' = HasNull(s)
        /\ pc'[s] = pc[s] /\ req'[s] = req[s] /\ subject'[s] = subject[s] /\ loaded'[s] = loaded[s]
        /\ overwritten'[s] = overwritten[s]
    BY <1>1, Frame DEF Applied, Notice, TablesInv, TypeOK
  <2>2. Place(s) /\ Fresh(s) /\ Pair(r, s)
    BY DEF TablesInv, Isolated
  <2>3. pc[s] \in {"flush", "held", "commit", "refresh"} /\ Asks(s, "patch") =>
          /\ subject[s] \in Id /\ subject[s] # i
          /\ life'[subject[s]] = life[subject[s]]
          /\ row'[subject[s]] = row[subject[s]]
    BY <1>1, <1>2, <2>2 DEF Place, Target
  <2>4. Checked(s)'
    <3>1. Flushed(s) /\ Asks(s, "create ticket") => life'[req[s].id] = "stored"
      <4>1. SUFFICES ASSUME Flushed(s), Asks(s, "create ticket")
                     PROVE  life'[req[s].id] = "stored"
        OBVIOUS
      <4>2. req[s].id \in Id /\ life[req[s].id] = "stored"
        BY <2>2, <4>1, OperationFacts DEF Place, Target, Checked, Flushed, Asks, Id
      <4>3. QED
        BY <1>1, <1>2, <4>2
    <3>2. QED
      BY <2>1, <2>2, <2>3, <3>1 DEF Place, Checked, Flushed, Asks
  <2>5. Remembered(s)'
    BY <2>1, <2>2, <2>3 DEF Place, Remembered, Asks
  <2>6. Survives(s)'
    BY <2>1, <2>2, <2>3 DEF Place, Survives, Asks
  <2>7. Fresh(s)'
    <3>1. SUFFICES ASSUME pc[s] = "commit", SetsEmail(s),
                          NEW u \in User \ {subject[s]}, life'[u] = "stored",
                          row'[u]["key"] = req[s].change["key"]
                   PROVE  FALSE
      BY <2>1 DEF Fresh, Duplicate
    <3>2. u \in Id
      BY DEF Id
    <3>3. u = i
      BY <1>2, <2>2, <3>1, <3>2 DEF Fresh, Duplicate
    <3>4. QED
      BY <1>1, <1>2, <1>4, <2>2, <3>1, <3>3 DEF Pair
  <2>8. QED
    BY <2>4, <2>5, <2>6, <2>7
<1>10. \A j \in Id : life[j] # "new" =>
         life'[j] # "new" /\ (life'[j] = "stored" => life[j] = "stored")
  BY <1>1, <1>2
<1>11. \A s \in Request \ {r} : subject'[s] = subject[s]
  BY <1>1
<1>12. Isolated'
  BY <1>1, <1>8, <1>9, <1>10, <1>11, AppliedStep DEF TablesInv
<1>13. QED
  BY <1>6, <1>7, <1>12

(* Nobody who was promised the row still relies on it.                      *)
LEMMA DeleteStep ==
  ASSUME TablesInv, NEW r \in Request, Delete(r), Applied(r)
  PROVE  Isolated' /\ EmailsUnique' /\ CustomersExist'
<1> DEFINE i == subject[r]
<1>1. /\ life' = [life EXCEPT ![i] = "deleted"]
      /\ owner' = [t \in Ticket |-> IF owner[t] = i THEN Null ELSE owner[t]]
      /\ UNCHANGED <<row, subject, req, loaded>>
      /\ Asks(r, "delete") /\ pc[r] = "commit"
      /\ life \in [Id -> {"new", "stored", "deleted"}]
  BY DEF Delete, OwnersWithout, Applied, TablesInv, TypeOK
<1>2. i \in Id /\ life[i] # "new"
  BY <1>1 DEF TablesInv, Isolated, Place, Target
<1>3. /\ life'[i] = "deleted"
      /\ \A j \in Id \ {i} : life'[j] = life[j]
  BY <1>1, <1>2
<1>4. \A j \in Id : life'[j] = "stored" => life[j] = "stored"
  BY <1>3
<1>5. EmailsUnique'
  BY <1>1, <1>4 DEF TablesInv, EmailsUnique, Unique, Id
<1>6. CustomersExist'
  <2>1. SUFFICES ASSUME NEW t \in Ticket, life'[t] = "stored", owner'[t] # Null
                 PROVE  owner'[t] \in User /\ life'[owner'[t]] = "stored"
    BY DEF CustomersExist, Owned
  <2>2. owner'[t] = owner[t] /\ owner[t] # i
    BY <1>1, <2>1
  <2>3. life[t] = "stored"
    BY <1>4, <2>1 DEF Id
  <2>4. owner[t] \in User /\ life[owner[t]] = "stored"
    BY <2>1, <2>2, <2>3 DEF TablesInv, CustomersExist, Owned
  <2>5. QED
    BY <1>3, <2>2, <2>4 DEF Id
<1>7. Survives(r)'
  BY <1>1 DEF Survives, Asks
<1>8. ASSUME NEW s \in Request \ {r}
      PROVE  Checked(s)' /\ Remembered(s)' /\ Survives(s)' /\ Fresh(s)'
  <2>1. /\ Written(s)' = Written(s) /\ SetsEmail(s)' = SetsEmail(s) /\ HasNull(s)' = HasNull(s)
        /\ pc'[s] = pc[s] /\ req'[s] = req[s] /\ subject'[s] = subject[s] /\ loaded'[s] = loaded[s]
        /\ overwritten'[s] = overwritten[s] /\ row' = row
    BY <1>1, Frame DEF Applied, Notice, TablesInv, TypeOK, Asks
  <2>2. Place(s) /\ Fresh(s) /\ Pair(r, s) /\ Pair(s, r)
    BY DEF TablesInv, Isolated
  <2>3. Checked(s)'
    <3>1. Flushed(s) /\ Asks(s, "create ticket") => life'[req[s].id] = "stored"
      <4>1. SUFFICES ASSUME Flushed(s), Asks(s, "create ticket")
                     PROVE  life'[req[s].id] = "stored"
        OBVIOUS
      <4>2. req[s].id \in Id /\ life[req[s].id] = "stored"
        BY <2>2, <4>1, OperationFacts DEF Place, Target, Checked, Flushed, Asks, Id
      <4>3. i # req[s].id
        BY <1>1, <2>2, <4>1 DEF Pair, Flushed
      <4>4. QED
        BY <1>3, <4>2, <4>3
    <3>2. Flushed(s) /\ Asks(s, "patch") =>
            Written(s) = {} \/ (~ HasNull(s) /\ life'[subject[s]] = "stored")
      <4>1. SUFFICES ASSUME Flushed(s), Asks(s, "patch"), Written(s) # {}
                     PROVE  ~ HasNull(s) /\ life'[subject[s]] = "stored"
        OBVIOUS
      <4>2. ~ HasNull(s) /\ life[subject[s]] = "stored" /\ subject[s] \in Id
        BY <2>2, <4>1 DEF Place, Checked, Target, Flushed
      <4>3. i # subject[s]
        BY <1>1, <2>2, <4>1, <4>2 DEF Pair, Flushed, Writes, Updates
      <4>4. QED
        BY <1>3, <4>2, <4>3
    <3>3. QED
      BY <2>1, <3>1, <3>2 DEF Checked, Flushed, Asks
  <2>4. pc[s] \in {"flush", "held", "commit", "refresh"} /\ Asks(s, "patch")
          /\ life'[subject[s]] = "stored" => life[subject[s]] = "stored"
    BY <1>4, <2>2 DEF Place, Target
  <2>5. Remembered(s)'
    BY <2>1, <2>2, <2>4 DEF Place, Remembered, Asks
  <2>6. Survives(s)'
    BY <2>1, <2>2, <2>4 DEF Place, Survives, Asks
  <2>7. Fresh(s)'
    BY <1>4, <2>1, <2>2 DEF Fresh, Duplicate, Id
  <2>8. QED
    BY <2>3, <2>5, <2>6, <2>7
<1>9. \A j \in Id : life[j] # "new" =>
        life'[j] # "new" /\ (life'[j] = "stored" => life[j] = "stored")
  BY <1>3
<1>10. Isolated'
  BY <1>1, <1>7, <1>8, <1>9, AppliedStep DEF TablesInv, Asks
<1>11. QED
  BY <1>5, <1>6, <1>10
-----------------------------------------------------------------------------
(* Types: what a request writes has the table's types.                      *)

LEMMA RespondType ==
  ASSUME TypeOK, NEW r \in Request, NEW what \in Answer, Respond(r, what)
  PROVE  /\ pc' \in [Request -> Control]
         /\ answer' \in [Request -> Answer]
         /\ conn' \in SUBSET (Request \cup Ask)
BY DEF Respond, Disconnect, TypeOK, Control

LEMMA GotoType ==
  ASSUME TypeOK, NEW r \in Request, NEW label \in Control, Goto(r, label)
  PROVE  pc' \in [Request -> Control] /\ answer' \in [Request -> Answer]
BY DEF Goto, TypeOK

LEMMA QuietType ==
  ASSUME TypeOK, NEW r \in Request,
         Load(r) \/ RefuseNull(r) \/ Flush(r) \/ Constrain(r) \/ Publish(r) \/ Refresh(r)
           \/ (Fail(r) /\ pc[r] # "idle"),
         Isolated
  PROVE  TypeOK'
<1>1. Reading(r)
  BY DEF Load, RefuseNull, Flush, Constrain, Publish, Refresh, Fail
<1>2. /\ pc' \in [Request -> Control]
      /\ answer' \in [Request -> Answer]
      /\ conn' \in SUBSET (Request \cup Ask)
  <2>1. CASE \E what \in Answer : Respond(r, what)
    BY <2>1, RespondType
  <2>2. CASE /\ \E label \in {"flush", "held", "commit", "refresh"} : Goto(r, label)
             /\ Connect(r) \/ UNCHANGED conn
    <3>1. PICK label \in {"flush", "held", "commit", "refresh"} : Goto(r, label)
      BY <2>2
    <3>2. label \in Control
      BY DEF Control
    <3>3. conn' \in SUBSET (Request \cup Ask)
      BY <2>2 DEF Connect, TypeOK
    <3>4. QED
      BY <3>1, <3>2, <3>3, GotoType
  <2>3. QED
    BY <2>1, <2>2
       DEF Load, RefuseNull, Flush, Constrain, Publish, Refresh, Fail, Answer
<1>3. loaded' \in [Request -> Row \cup {NoRow}]
  <2>1. CASE UNCHANGED loaded
    BY <2>1 DEF TypeOK
  <2>2. CASE /\ pc[r] = "load"
             /\ req[r].kind \in {"patch", "delete", "create ticket"}
             /\ loaded' = [loaded EXCEPT ![r] = row[req[r].id]]
    <3>1. req[r].id \in Id
      BY <2>2, OperationFacts DEF Isolated, Place, Target, Id
    <3>2. row[req[r].id] \in Row
      BY <3>1 DEF TypeOK
    <3>3. QED
      BY <2>2, <3>2 DEF TypeOK
  <2>3. QED
    BY <2>1, <2>2 DEF Load, RefuseNull, Flush, Constrain, Publish, Refresh, Fail
<1>4. QED
  BY <1>1, <1>2, <1>3 DEF Reading, tables, TypeOK

LEMMA ReceiveType ==
  ASSUME TypeOK, NEW r \in Request, NEW o \in Operation, Receive(r, o)
  PROVE  TypeOK'
<1>1. (IF o.kind = "create user" THEN "flush" ELSE "load") \in Control
  BY DEF Control
<1>2. pc' \in [Request -> Control] /\ answer' \in [Request -> Answer]
  BY <1>1, GotoType DEF Receive
<1>3. req' \in [Request -> Operation \cup {NoRequest}]
  BY DEF Receive, TypeOK
<1>4. subject' \in [Request -> Id \cup {Null}]
  <2>1. (IF o.kind \in {"patch", "delete", "read"} THEN o.id ELSE Null) \in Id \cup {Null}
    BY OperationFacts
  <2>2. QED
    BY <2>1 DEF Receive, TypeOK
<1>5. QED
  BY <1>2, <1>3, <1>4 DEF Receive, tables, TypeOK

LEMMA ApplyType ==
  ASSUME TablesInv, NEW r \in Request, pc[r] = "commit", Apply(r)
  PROVE  /\ life' \in [Id -> {"new", "stored", "deleted"}]
         /\ row' \in [Id -> Row]
         /\ owner' \in [Ticket -> User \cup {Null}]
         /\ subject' \in [Request -> Id \cup {Null}]
<1> USE DEF TablesInv, TypeOK
<1>1. Place(r) /\ req[r] \in Operation
  BY DEF Isolated, Place, Target
<1>2. CASE Update(r)
  <2>1. subject[r] \in Id
    BY <1>1, <1>2 DEF Update, Place, Target
  <2>2. ASSUME NEW c \in Written(r)
        PROVE  req[r].change[c] \in Value
    <3>1. c \in DOMAIN req[r].change /\ ~ HasNull(r)
      BY <1>1, <1>2, <2>2 DEF Update, Place, Checked, Flushed, Written
    <3>2. QED
      BY <1>1, <3>1, OperationFacts DEF HasNull
  <2>3. \A c \in Column : row[subject[r]][c] \in Value
    BY <2>1 DEF Row
  <2>4. Patched(r) \in Row
    BY <2>2, <2>3 DEF Patched, Row
  <2>5. QED
    BY <1>2, <2>4 DEF Update
<1>3. CASE \E i \in Id : Insert(r, i)
  <2> PICK i \in Id : Insert(r, i)
    BY <1>3
  <2>1. req[r].change \in Row
    BY <1>1, OperationFacts DEF Insert, Asks
  <2>2. QED
    BY <1>1, <2>1, OperationFacts DEF Insert, Asks
<1>4. CASE Delete(r)
  BY <1>4 DEF Delete, OwnersWithout
<1>5. QED
  BY <1>2, <1>3, <1>4 DEF Apply

LEMMA CommitStep ==
  ASSUME TablesInv, NEW r \in Request, Commit(r)
  PROVE  TablesInv'
<1>1. CASE Apply(r) /\ Applied(r)
  <2>1. Isolated' /\ EmailsUnique' /\ CustomersExist'
    BY <1>1, UpdateStep, InsertStep, DeleteStep DEF Apply
  <2>2. /\ pc' \in [Request -> Control]
        /\ answer' \in [Request -> Answer]
        /\ conn' \in SUBSET (Request \cup Ask)
    <3>1. \A what \in {"ok", "failed"} : Respond(r, what) =>
            /\ pc' \in [Request -> Control]
            /\ answer' \in [Request -> Answer]
            /\ conn' \in SUBSET (Request \cup Ask)
      BY RespondType DEF TablesInv, Answer
    <3>2. Goto(r, AfterCommit(r)) /\ Disconnect(r) =>
            /\ pc' \in [Request -> Control]
            /\ answer' \in [Request -> Answer]
            /\ conn' \in SUBSET (Request \cup Ask)
      <4>1. AfterCommit(r) \in Control
        BY DEF AfterCommit, Control
      <4>2. QED
        BY <4>1, GotoType DEF Disconnect, TablesInv, TypeOK
    <3>3. QED
      BY <3>1, <3>2 DEF Commit
  <2>3. overwritten' \in [Request -> SUBSET Column]
    <3>1. DOMAIN req[r].change \subseteq Column
      BY <1>1, OperationFacts DEF Applied, TablesInv, Isolated, Place, Target
    <3>2. QED
      BY <1>1, <3>1 DEF Applied, Notice, TablesInv, TypeOK
  <2>4. TypeOK'
    BY <1>1, <2>2, <2>3, ApplyType DEF Applied, TablesInv, TypeOK
  <2>5. QED
    BY <2>1, <2>4 DEF TablesInv
<1>2. CASE /\ Respond(r, "failed")
           /\ pc[r] = "commit"
           /\ UNCHANGED <<tables, req, subject, loaded, overwritten>>
  <2>1. Isolated'
    BY <1>2, Answered DEF Reading, TablesInv
  <2>2. TypeOK'
    BY <1>2, RespondType DEF tables, TablesInv, TypeOK, Answer
  <2>3. QED
    BY <1>2, <2>1, <2>2 DEF TablesInv, EmailsUnique, CustomersExist, tables
<1>3. QED
  BY <1>1, <1>2, CommitCases

LEMMA TablesStep ==
  ASSUME TablesInv, Next
  PROVE  TablesInv'
<1>1. PICK r \in Request :
        (\E o \in Operation : Receive(r, o)) \/ Serve(r) \/ Abort(r) \/ BreakDeadlock(r)
  BY DEF Next
<1>2. CASE Commit(r)
  BY <1>2, CommitStep
<1>3. CASE \E o \in Operation : Receive(r, o)
  BY <1>3, ReceiveIsolated, ReceiveType
     DEF TablesInv, EmailsUnique, CustomersExist, Receive, tables
<1>4. CASE \/ Load(r) \/ RefuseNull(r) \/ Flush(r) \/ Constrain(r) \/ Publish(r) \/ Refresh(r)
           \/ Abort(r) \/ BreakDeadlock(r)
  <2>1. Isolated'
    BY <1>4, LoadIsolated, FlushIsolated, ConstrainIsolated, OtherQuietIsolated DEF TablesInv
  <2>2. Deadlocked(r) => pc[r] # "idle"
    BY DEF Deadlocked, Blockers
  <2>3. TypeOK'
    BY <1>4, <2>2, QuietType DEF TablesInv, Abort, BreakDeadlock
  <2>4. UNCHANGED tables
    BY <1>4 DEF Load, RefuseNull, Flush, Constrain, Publish, Refresh, Abort, BreakDeadlock, Fail,
                Reading
  <2>5. QED
    BY <2>1, <2>3, <2>4 DEF TablesInv, EmailsUnique, CustomersExist, tables
<1>5. QED
  BY <1>1, <1>2, <1>3, <1>4 DEF Serve

(* An ask only takes and gives back connections.                            *)
LEMMA TablesFrame ==
  ASSUME TablesInv, UNCHANGED <<tables, request>>, conn' \in SUBSET (Request \cup Ask)
  PROVE  TablesInv'
<1>1. /\ UNCHANGED <<life, row, owner, pc, req, subject, loaded, answer, overwritten>>
  BY DEF tables, request
<1>2. TypeOK' /\ EmailsUnique' /\ CustomersExist'
  BY <1>1 DEF TablesInv, TypeOK, EmailsUnique, CustomersExist
<1>3. Isolated'
  <2>1. ASSUME NEW s \in Request
        PROVE  /\ Written(s)' = Written(s) /\ SetsEmail(s)' = SetsEmail(s)
               /\ HasNull(s)' = HasNull(s) /\ Writes(s)' = Writes(s)
    BY <1>1, Frame
  <2>2. ASSUME NEW s \in Request
        PROVE  Place(s)' /\ Fresh(s)'
    <3>1. Place(s) /\ Fresh(s)
      BY DEF TablesInv, Isolated
    <3>2. Target(s)' /\ Checked(s)'
      BY <1>1, <2>1, <3>1 DEF Place, Target, Checked, Flushed, Asks
    <3>3. Remembered(s)' /\ Survives(s)'
      BY <1>1, <3>1 DEF Place, Remembered, Survives, Asks
    <3>4. Fresh(s)'
      BY <1>1, <2>1, <3>1 DEF Fresh, Duplicate
    <3>5. QED
      BY <3>2, <3>3, <3>4 DEF Place
  <2>3. ASSUME NEW s \in Request, NEW t \in Request \ {s}
        PROVE  Pair(s, t)'
    BY <1>1, <2>1 DEF TablesInv, Isolated, Pair, Flushed, Asks
  <2>4. QED
    BY <2>2, <2>3 DEF Isolated
<1>4. QED
  BY <1>2, <1>3 DEF TablesInv

LEMMA TablesInit == Init => TablesInv
<1> SUFFICES ASSUME Init
             PROVE  TablesInv
  OBVIOUS
<1>1. TypeOK
  BY StartAssumption DEF Init, TypeOK, Control, Answer, Row
<1>2. EmailsUnique /\ CustomersExist
  BY StartAssumption DEF Init, EmailsUnique, CustomersExist
<1>3. Isolated
  BY DEF Init, Isolated, Place, Target, Checked, Remembered, Survives, Flushed, Fresh, Pair
<1>4. QED
  BY <1>1, <1>2, <1>3 DEF TablesInv
-----------------------------------------------------------------------------
(* What an ask knows at its place in the code.  The ticket it read may lose *)
(* its customer, never change it.                                           *)
Admission(a) ==
  /\ stage[a] \in {"context", "start", "finish"} \/ turns[a] > 0 =>
       peer[a] = "loopback" /\ about[a] \in Allowed
  /\ a \in conn => stage[a] \in {"start", "finish"}

Progress(a) ==
  /\ stage[a] \in {"idle", "context", "start"} =>
       turns[a] = 0 /\ looked[a] = 0 /\ told[a] = Nothing
  /\ stage[a] = "finish" => turns[a] = 1
  /\ stage[a] \in {"context", "start", "finish"} => about[a] \in Ticket

Context(a) ==
  /\ stage[a] \in {"start", "finish"} \/ told[a] # Nothing =>
       /\ about[a] \in Ticket
       /\ life[about[a]] # "new"
       /\ owner[about[a]] \in {customer[a], Null}
  /\ told[a].status = "found" => told[a].order \in Order /\ Buyer[told[a].order] = customer[a]

AskInv(a) == Admission(a) /\ Progress(a) /\ Context(a)

AgentInv == TablesInv /\ AgentTypeOK /\ \A a \in Ask : AskInv(a)

(* What asks see of the requests' steps.                                    *)
LEMMA OwnersFade ==
  ASSUME TablesInv, Next
  PROVE  /\ \A t \in Ticket : life[t] # "new" => life'[t] # "new" /\ owner'[t] \in {owner[t], Null}
         /\ \A a \in Ask : a \in conn' => a \in conn
<1>1. PICK r \in Request :
        (\E o \in Operation : Receive(r, o)) \/ Serve(r) \/ Abort(r) \/ BreakDeadlock(r)
  BY DEF Next
<1>2. \A a \in Ask : a \in conn' => a \in conn
  <2>1. UNCHANGED conn \/ conn' = conn \cup {r} \/ conn' = conn \ {r}
    BY <1>1
       DEF Serve, Receive, Load, RefuseNull, Flush, Constrain, Commit, Publish, Refresh, Abort,
           BreakDeadlock, Fail, Respond, Connect, Disconnect
  <2>2. QED
    BY <2>1, ClientAssumption
<1>3. CASE Commit(r) /\ Apply(r)
  <2>1. /\ life \in [Id -> {"new", "stored", "deleted"}]
        /\ owner \in [Ticket -> User \cup {Null}]
        /\ \A t \in Ticket : t \in Id
    BY DEF TablesInv, TypeOK, Id
  <2>2. CASE Update(r)
    BY <1>2, <2>2 DEF Update
  <2>3. CASE \E i \in Id : Insert(r, i)
    <3> PICK i \in Id : Insert(r, i)
      BY <2>3
    <3>1. /\ life[i] = "new"
          /\ life' = [life EXCEPT ![i] = "stored"]
          /\ UNCHANGED owner \/ owner' = [owner EXCEPT ![i] = req[r].id]
      BY DEF Insert
    <3>2. QED
      BY <1>2, <2>1, <3>1
  <2>4. CASE Delete(r)
    <3>1. /\ life' = [life EXCEPT ![subject[r]] = "deleted"]
          /\ owner' = [t \in Ticket |-> IF owner[t] = subject[r] THEN Null ELSE owner[t]]
      BY <2>4 DEF Delete, OwnersWithout
    <3>2. QED
      BY <1>2, <2>1, <3>1
  <2>5. QED
    BY <1>2, <1>3, <2>2, <2>3, <2>4 DEF Apply
<1>4. CASE UNCHANGED tables
  BY <1>2, <1>4 DEF tables
<1>5. QED
  BY <1>1, <1>3, <1>4
     DEF Serve, Receive, Load, RefuseNull, Flush, Constrain, Commit, Publish, Refresh, Abort,
         BreakDeadlock, Fail, Reading

(* A lookup that finds an order finds the asking ticket's customer's.       *)
LEMMA LookupFinds ==
  ASSUME NEW c, NEW result \in Dispatched(c)
  PROVE  /\ result \in Result
         /\ result # Nothing
         /\ result.status = "found" => result.order \in Order /\ Buyer[result.order] = c
<1>1. CASE \E o \in Order \cup Unsold : result = Lookup(o, c)
  <2> PICK o \in Order \cup Unsold : result = Lookup(o, c)
    BY <1>1
  <2>1. CASE result = [status |-> "access_denied", order |-> Null]
    BY <2>1 DEF Result, Nothing, ToolError
  <2>2. CASE o \in Order /\ Buyer[o] = c /\ result = [status |-> "found", order |-> o]
    BY <2>2 DEF Result, Nothing
  <2>3. CASE result = [status |-> "not_found", order |-> o]
    BY <2>3 DEF Result, Nothing
  <2>4. QED
    BY <2>1, <2>2, <2>3 DEF Lookup
<1>2. CASE \E code \in ToolError : result = ErrorResult(code)
  BY <1>2 DEF ErrorResult, ToolError, Result, Nothing
<1>3. QED
  BY <1>1, <1>2 DEF Dispatched

LEMMA CustomersKeepAgents ==
  ASSUME AgentInv, Next, UNCHANGED agent
  PROVE  AgentInv'
<1>1. TablesInv'
  BY TablesStep DEF AgentInv
<1>2. AgentTypeOK'
  BY <1>1 DEF AgentInv, AgentTypeOK, TablesInv, agent
<1>3. ASSUME NEW a \in Ask
      PROVE  AskInv(a)'
  <2>1. AskInv(a) /\ (a \in conn' => a \in conn)
    BY OwnersFade DEF AgentInv
  <2>2. about[a] \in Ticket /\ life[about[a]] # "new" =>
          life'[about[a]] # "new" /\ owner'[about[a]] \in {owner[about[a]], Null}
    BY OwnersFade DEF AgentInv
  <2>3. Admission(a)' /\ Progress(a)'
    BY <2>1 DEF AskInv, Admission, Progress, agent
  <2>4. Context(a)'
    BY <2>1, <2>2 DEF AskInv, Context, agent
  <2>5. QED
    BY <2>3, <2>4 DEF AskInv
<1>4. QED
  BY <1>1, <1>2, <1>3 DEF AgentInv

(* An ask leaves the others alone.                                          *)
LEMMA OthersKept ==
  ASSUME AgentInv, NEW a \in Ask, NEW b \in Ask \ {a}, UNCHANGED <<tables, request>>,
         stage'[b] = stage[b], about'[b] = about[b], peer'[b] = peer[b],
         customer'[b] = customer[b], turns'[b] = turns[b], looked'[b] = looked[b],
         told'[b] = told[b], b \in conn' => b \in conn
  PROVE  AskInv(b)'
<1>1. AskInv(b)
  BY DEF AgentInv
<1>2. QED
  BY <1>1 DEF AskInv, Admission, Progress, Context, tables

LEMMA AskTypes ==
  ASSUME AgentInv, NEW a \in Ask
  PROVE  /\ stage \in [Ask -> {"idle", "context", "start", "finish", "done"}]
         /\ about \in [Ask -> Ticket \cup {Null}]
         /\ peer \in [Ask -> Peer \cup {Null}]
         /\ customer \in [Ask -> User \cup {Null}]
         /\ turns \in [Ask -> 0 .. 2]
         /\ looked \in [Ask -> 0 .. 1]
         /\ told \in [Ask -> Result \cup {Nothing}]
         /\ reply \in [Ask -> Reply]
         /\ conn \in SUBSET (Request \cup Ask)
         /\ TablesInv
         /\ AskInv(a)
BY DEF AgentInv, AgentTypeOK, TypeOK

LEMMA EnterStep ==
  ASSUME AgentInv, NEW a \in Ask, NEW t \in Ticket, NEW p \in Peer, Enter(a, t, p)
  PROVE  AgentInv'
<1>1. /\ stage[a] = "idle"
      /\ about' = [about EXCEPT ![a] = t]
      /\ peer' = [peer EXCEPT ![a] = p]
      /\ UNCHANGED <<tables, request, conn, customer, turns, looked, told>>
      /\ \/ stage' = [stage EXCEPT ![a] = "context"] /\ reply' = reply /\ Admitted(t, p)
         \/ \E code \in {"403", "422"} :
              stage' = [stage EXCEPT ![a] = "done"] /\ reply' = [reply EXCEPT ![a] = code]
  BY DEF Enter, Move, Reject
<1>2. TablesInv'
  BY <1>1, AskTypes, TablesFrame
<1>3. AgentTypeOK'
  BY <1>1, <1>2, AskTypes DEF AgentTypeOK, TablesInv, Reply
<1>4. AskInv(a)'
  <2>1. /\ AskInv(a)
        /\ about'[a] = t /\ peer'[a] = p
        /\ (stage'[a] = "context" /\ p = "loopback" /\ t \in Allowed) \/ stage'[a] = "done"
    BY <1>1, AskTypes DEF Admitted
  <2>2. a \notin conn /\ turns[a] = 0 /\ looked[a] = 0 /\ told[a] = Nothing
    BY <1>1, <2>1 DEF AskInv, Admission, Progress
  <2>3. Admission(a)' /\ Progress(a)'
    BY <1>1, <2>1, <2>2 DEF Admission, Progress
  <2>4. Context(a)'
    BY <1>1, <2>1, <2>2 DEF Context, Nothing
  <2>5. QED
    BY <2>3, <2>4 DEF AskInv
<1>5. \A b \in Ask \ {a} : AskInv(b)'
  BY <1>1, AskTypes, OthersKept
<1>6. QED
  BY <1>2, <1>3, <1>4, <1>5 DEF AgentInv

LEMMA LoadContextStep ==
  ASSUME AgentInv, NEW a \in Ask, LoadContext(a)
  PROVE  AgentInv'
<1>1. /\ stage[a] = "context"
      /\ UNCHANGED <<tables, request, about, peer, turns, looked, told>>
      /\ \/ /\ life[about[a]] = "stored"
            /\ customer' = [customer EXCEPT ![a] = owner[about[a]]]
            /\ \/ /\ stage' = [stage EXCEPT ![a] = "start"]
                  /\ reply' = reply
                  /\ conn' = conn \cup {a}
               \/ /\ stage' = [stage EXCEPT ![a] = "done"]
                  /\ reply' = [reply EXCEPT ![a] = "422"]
                  /\ conn' = conn \ {a}
         \/ /\ stage' = [stage EXCEPT ![a] = "done"]
            /\ reply' = [reply EXCEPT ![a] = "404"]
            /\ conn' = conn \ {a}
            /\ customer' = customer
  BY DEF LoadContext, Move, Reject, Connect, Disconnect
<1>2. AskInv(a) /\ about[a] \in Ticket
  BY <1>1, AskTypes DEF AskInv, Progress
<1>3. owner[about[a]] \in User \cup {Null}
  BY <1>2, AskTypes DEF TablesInv, TypeOK
<1>4. TablesInv'
  BY <1>1, AskTypes, TablesFrame
<1>5. AgentTypeOK'
  BY <1>1, <1>3, <1>4, AskTypes DEF AgentTypeOK, TablesInv, Reply
<1>6. AskInv(a)'
  <2>1. \/ /\ stage'[a] = "start"
           /\ life[about[a]] = "stored"
           /\ customer'[a] = owner[about[a]]
        \/ stage'[a] = "done" /\ a \notin conn'
    BY <1>1, AskTypes
  <2>2. turns[a] = 0 /\ looked[a] = 0 /\ told[a] = Nothing
    BY <1>1, <1>2 DEF AskInv, Progress
  <2>3. Admission(a)' /\ Progress(a)'
    BY <1>1, <1>2, <2>1, <2>2 DEF AskInv, Admission, Progress
  <2>4. Context(a)'
    BY <1>1, <1>2, <2>1, <2>2 DEF Context, Nothing, tables
  <2>5. QED
    BY <2>3, <2>4 DEF AskInv
<1>7. \A b \in Ask \ {a} : AskInv(b)'
  BY <1>1, AskTypes, OthersKept
<1>8. QED
  BY <1>4, <1>5, <1>6, <1>7 DEF AgentInv

LEMMA StartModelStep ==
  ASSUME AgentInv, NEW a \in Ask, StartModel(a)
  PROVE  AgentInv'
<1>1. /\ stage[a] = "start"
      /\ turns' = [turns EXCEPT ![a] = turns[a] + 1]
      /\ UNCHANGED <<tables, request, about, peer, customer>>
      /\ \/ /\ stage' = [stage EXCEPT ![a] = "done"]
            /\ \E code \in Failure \cup {"200"} : reply' = [reply EXCEPT ![a] = code]
            /\ conn' = conn \ {a}
            /\ UNCHANGED <<looked, told>>
         \/ /\ \E result \in Dispatched(customer[a]) : told' = [told EXCEPT ![a] = result]
            /\ looked' = [looked EXCEPT ![a] = looked[a] + 1]
            /\ stage' = [stage EXCEPT ![a] = "finish"]
            /\ reply' = reply
            /\ conn' = conn
  BY DEF StartModel, CountTurn, Move, Reject, Disconnect
<1>2. /\ AskInv(a)
      /\ turns[a] = 0 /\ looked[a] = 0 /\ told[a] = Nothing
      /\ turns'[a] = 1
  BY <1>1, AskTypes DEF AskInv, Progress
<1>3. TablesInv'
  BY <1>1, AskTypes, TablesFrame
<1>4. told' \in [Ask -> Result \cup {Nothing}]
  BY <1>1, AskTypes, LookupFinds
<1>5. AgentTypeOK'
  <2>1. turns' \in [Ask -> 0 .. 2] /\ looked' \in [Ask -> 0 .. 1]
    BY <1>1, <1>2, AskTypes
  <2>2. stage' \in [Ask -> {"idle", "context", "start", "finish", "done"}] /\ reply' \in [Ask -> Reply]
    BY <1>1, AskTypes DEF Reply, Failure
  <2>3. QED
    BY <1>1, <1>3, <1>4, <2>1, <2>2, AskTypes DEF AgentTypeOK, TablesInv
<1>6. AskInv(a)'
  <2>1. \/ stage'[a] = "done" /\ a \notin conn' /\ told'[a] = told[a]
        \/ stage'[a] = "finish" /\ told'[a] \in Dispatched(customer[a])
    BY <1>1, AskTypes
  <2>2. Admission(a)' /\ Progress(a)'
    BY <1>1, <1>2, <2>1 DEF AskInv, Admission, Progress
  <2>3. told'[a].status = "found" =>
          told'[a].order \in Order /\ Buyer[told'[a].order] = customer[a]
    BY <1>2, <2>1, LookupFinds DEF Nothing
  <2>4. Context(a)'
    BY <1>1, <1>2, <2>3 DEF AskInv, Context, tables
  <2>5. QED
    BY <2>2, <2>4 DEF AskInv
<1>7. \A b \in Ask \ {a} : AskInv(b)'
  BY <1>1, AskTypes, OthersKept
<1>8. QED
  BY <1>3, <1>5, <1>6, <1>7 DEF AgentInv

LEMMA EndStep ==
  ASSUME AgentInv, NEW a \in Ask, FinishModel(a) \/ AbortAsk(a)
  PROVE  AgentInv'
<1>1. /\ stage[a] \in {"context", "start", "finish"} \/ stage[a] \notin {"idle", "done"}
      /\ stage' = [stage EXCEPT ![a] = "done"]
      /\ \E code \in Failure \cup {"200", "500"} : reply' = [reply EXCEPT ![a] = code]
      /\ conn' = conn \ {a}
      /\ turns' = turns \/ (stage[a] = "finish" /\ turns' = [turns EXCEPT ![a] = turns[a] + 1])
      /\ UNCHANGED <<tables, request, about, peer, customer, looked, told>>
  BY DEF FinishModel, AbortAsk, CountTurn, Reject, Disconnect
<1>2. AskInv(a) /\ stage[a] \in {"context", "start", "finish"} /\ turns[a] \in 0 .. 2
  BY <1>1, AskTypes
<1>3. TablesInv'
  BY <1>1, AskTypes, TablesFrame
<1>4. AgentTypeOK'
  <2>1. turns' \in [Ask -> 0 .. 2]
    BY <1>1, <1>2, AskTypes DEF AskInv, Progress
  <2>2. stage' \in [Ask -> {"idle", "context", "start", "finish", "done"}] /\ reply' \in [Ask -> Reply]
    BY <1>1, AskTypes DEF Reply, Failure
  <2>3. QED
    BY <1>1, <1>3, <2>1, <2>2, AskTypes DEF AgentTypeOK, TablesInv
<1>5. AskInv(a)'
  <2>1. stage'[a] = "done" /\ a \notin conn'
    BY <1>1, AskTypes
  <2>2. Admission(a)' /\ Progress(a)'
    BY <1>1, <1>2, <2>1 DEF AskInv, Admission, Progress
  <2>3. Context(a)'
    BY <1>1, <1>2, <2>1 DEF AskInv, Context, tables
  <2>4. QED
    BY <2>2, <2>3 DEF AskInv
<1>6. \A b \in Ask \ {a} : AskInv(b)'
  BY <1>1, AskTypes, OthersKept
<1>7. QED
  BY <1>3, <1>4, <1>5, <1>6 DEF AgentInv
-----------------------------------------------------------------------------
LEMMA AgentStarts == AgentInit => AgentInv
<1> SUFFICES ASSUME AgentInit
             PROVE  AgentInv
  OBVIOUS
<1>1. TablesInv
  BY TablesInit DEF AgentInit
<1>2. AgentTypeOK
  BY <1>1 DEF AgentInit, AgentTypeOK, TablesInv, Reply
<1>3. \A a \in Ask : AskInv(a)
  BY DEF AgentInit, Init, AskInv, Admission, Progress, Context, Nothing
<1>4. QED
  BY <1>1, <1>2, <1>3 DEF AgentInv

LEMMA AgentSteps == AgentInv /\ [AgentNext]_allVars => AgentInv'
<1> SUFFICES ASSUME AgentInv, [AgentNext]_allVars
             PROVE  AgentInv'
  OBVIOUS
<1>1. CASE Next /\ UNCHANGED agent
  BY <1>1, CustomersKeepAgents
<1>2. CASE \E a \in Ask :
             (\E t \in Ticket, p \in Peer : Enter(a, t, p)) \/ ServeAsk(a) \/ AbortAsk(a)
  BY <1>2, EnterStep, LoadContextStep, StartModelStep, EndStep DEF ServeAsk
<1>3. CASE UNCHANGED allVars
  <2>1. UNCHANGED <<tables, request, conn, agent>>
    BY <1>3 DEF allVars, vars
  <2>2. TablesInv'
    BY <2>1, TablesFrame DEF AgentInv, TablesInv, TypeOK
  <2>3. AgentTypeOK'
    BY <2>1, <2>2 DEF AgentInv, AgentTypeOK, TablesInv, agent
  <2>4. ASSUME NEW a \in Ask
        PROVE  AskInv(a)'
    BY <2>1 DEF AgentInv, AskInv, Admission, Progress, Context, tables, agent
  <2>5. QED
    BY <2>2, <2>3, <2>4 DEF AgentInv
<1>4. QED
  BY <1>1, <1>2, <1>3 DEF AgentNext

LEMMA AgentInvariant == AgentSpec => []AgentInv
BY AgentStarts, AgentSteps, PTL DEF AgentSpec

(* Every variable stays within its type: no ask calls the model more than   *)
(* twice or the tool more than once (AgentService.answer).                  *)
THEOREM AgentTypeCorrect == AgentSpec => []AgentTypeOK
<1>1. AgentInv => AgentTypeOK
  BY DEF AgentInv
<1>2. QED
  BY <1>1, AgentInvariant, PTL

(* However requests race, no two users share an e-mail address              *)
(* (UserService leaves it to the unique index).                             *)
THEOREM EmailsStayUnique == AgentSpec => []EmailsUnique
<1>1. AgentInv => EmailsUnique
  BY DEF AgentInv, TablesInv
<1>2. QED
  BY <1>1, AgentInvariant, PTL

(* A ticket's customer exists or is null, although create checks it before  *)
(* it inserts (TicketService.create, ON DELETE SET NULL).                   *)
THEOREM TicketCustomersExist == AgentSpec => []CustomersExist
<1>1. AgentInv => CustomersExist
  BY DEF AgentInv, TablesInv
<1>2. QED
  BY <1>1, AgentInvariant, PTL

(* No interleaving of requests corrupts the directory of users and tickets. *)
THEOREM DirectoryStaysSound == AgentSpec => []DirectoryIsSound
<1>1. EmailsUnique /\ CustomersExist => DirectoryIsSound
  BY DEF DirectoryIsSound
<1>2. QED
  BY <1>1, EmailsStayUnique, TicketCustomersExist, PTL

(* No committed change of a form is lost to another request that did not    *)
(* ask to write its columns (the update methods of both repositories).      *)
THEOREM CommittedPatchesSurvive == AgentSpec => []PatchesSurvive
<1>1. AgentInv => PatchesSurvive
  BY DEF AgentInv, TablesInv, Isolated, Place, Survives, PatchesSurvive
<1>2. QED
  BY <1>1, AgentInvariant, PTL

(* Neither a connection nor the model is used for a request the gates       *)
(* refuse (demo_staff.py).                                                  *)
THEOREM AgentReadsAreGated == AgentSpec => []ReadsAreGated
<1>1. AgentInv => ReadsAreGated
  BY DEF AgentInv, AskInv, Admission, ReadsAreGated
<1>2. QED
  BY <1>1, AgentInvariant, PTL

(* The model is only ever told of payments of the ticket's customer         *)
(* (StaffToolDispatcher, OrderPaymentsService).                             *)
THEOREM AgentToldOfOwnCustomer == AgentSpec => []PaymentsStayWithCustomer
<1>1. AgentInv => PaymentsStayWithCustomer
  BY DEF AgentInv, AskInv, Context, PaymentsStayWithCustomer, Nothing
<1>2. QED
  BY <1>1, AgentInvariant, PTL

(* The assistant reads nothing it was not admitted to or not asked about.   *)
THEOREM AgentReadsAreConfined == AgentSpec => []ReadsAreConfined
<1>1. ReadsAreGated /\ PaymentsStayWithCustomer => ReadsAreConfined
  BY DEF ReadsAreConfined
<1>2. QED
  BY <1>1, AgentReadsAreGated, AgentToldOfOwnCustomer, PTL

(* A request is told something about others only in the step that finds it. *)
LEMMA RefusalStep ==
  ASSUME TypeOK, Next, NEW s \in Request, answer'[s] # answer[s]
  PROVE  RefusalIsTrue(s)
<1>1. PICK r \in Request :
        (\E o \in Operation : Receive(r, o)) \/ Serve(r) \/ Abort(r) \/ BreakDeadlock(r)
  BY DEF Next
<1>2. UNCHANGED answer \/ \E what : answer' = [answer EXCEPT ![r] = what]
  BY <1>1
     DEF Serve, Receive, Load, RefuseNull, Flush, Constrain, Commit, Publish, Refresh, Abort,
         BreakDeadlock, Fail, Respond, Goto
<1>3. s = r
  BY <1>2 DEF TypeOK
<1>4. ASSUME NEW what, Respond(r, what)
      PROVE  answer'[r] = what
  BY <1>4 DEF Respond, TypeOK
<1>5. \A label : Goto(r, label) => answer' = answer
  BY DEF Goto
<1>6. CASE answer'[r] \in {"ok", "failed", "unserved"}
  BY <1>3, <1>6 DEF RefusalIsTrue
<1>7. CASE Load(r)
  BY <1>3, <1>4, <1>5, <1>7 DEF Load, RefusalIsTrue
<1>8. CASE RefuseNull(r)
  BY <1>3, <1>4, <1>8 DEF RefuseNull, RefusalIsTrue
<1>9. CASE Flush(r)
  BY <1>3, <1>4, <1>5, <1>9 DEF Flush, ReferenceHolds, RefusalIsTrue
<1>10. CASE Constrain(r)
  BY <1>3, <1>4, <1>5, <1>10 DEF Constrain, Duplicate, RefusalIsTrue
<1>11. CASE Commit(r) \/ Publish(r) \/ Refresh(r) \/ Abort(r) \/ BreakDeadlock(r)
  BY <1>3, <1>4, <1>5, <1>6, <1>11 DEF Commit, Publish, Refresh, Abort, BreakDeadlock, Fail
<1>12. QED
  BY <1>1, <1>3, <1>5, <1>7, <1>8, <1>9, <1>10, <1>11 DEF Serve, Receive

LEMMA RefusalSteps ==
  AgentInv /\ [AgentNext]_allVars =>
    [\A r \in Request : answer'[r] # answer[r] => RefusalIsTrue(r)]_vars
<1> SUFFICES ASSUME AgentInv, [AgentNext]_allVars
             PROVE  \A r \in Request : answer'[r] # answer[r] => RefusalIsTrue(r)
  OBVIOUS
<1>1. CASE Next
  BY <1>1, RefusalStep DEF AgentInv, TablesInv
<1>2. CASE answer' = answer
  BY <1>2
<1>3. QED
  BY <1>1, <1>2
     DEF AgentNext, Enter, ServeAsk, LoadContext, StartModel, FinishModel, AbortAsk, request,
         allVars, vars

(* A 404 or a 409 is true at the moment it is given, but for an explicit    *)
(* null (the except branches of UserService and TicketService).             *)
THEOREM RefusalsTellTheTruth == AgentSpec => RefusalsAreTrue
BY AgentInvariant, RefusalSteps, PTL DEF AgentSpec, RefusalsAreTrue
-----------------------------------------------------------------------------
(* The pool: who holds a connection, and that what they hold fits.          *)

PoolFits == IsFiniteSet(conn) /\ Cardinality(conn) <= Pool

PoolInv == PoolFits /\ ConnectionsAreReturned

LEMMA ReturnFits ==
  ASSUME PoolFits, NEW c, Disconnect(c)
  PROVE  PoolFits'
<1>1. conn' \subseteq conn
  BY DEF Disconnect
<1>2. /\ IsFiniteSet(conn') /\ Cardinality(conn') <= Cardinality(conn)
      /\ Cardinality(conn) \in Nat /\ Cardinality(conn') \in Nat
  BY <1>1, FS_Subset, FS_CardinalityType DEF PoolFits
<1>3. QED
  BY <1>2, ClientAssumption DEF PoolFits

LEMMA LoanFits ==
  ASSUME PoolFits, NEW c, Connect(c)
  PROVE  PoolFits'
<1>1. CASE c \in conn
  <2>1. conn' = conn
    BY <1>1 DEF Connect
  <2>2. QED
    BY <2>1 DEF PoolFits
<1>2. CASE c \notin conn
  <2>1. conn' = conn \cup {c} /\ Cardinality(conn) < Pool
    BY <1>2 DEF Connect, Available
  <2>2. IsFiniteSet(conn') /\ Cardinality(conn') = Cardinality(conn) + 1
    BY <1>2, <2>1, FS_AddElement DEF PoolFits
  <2>3. Cardinality(conn) \in Nat
    BY FS_CardinalityType DEF PoolFits
  <2>4. QED
    BY <2>1, <2>2, <2>3, ClientAssumption DEF PoolFits
<1>3. QED
  BY <1>1, <1>2

(* A step of one client takes or returns its own connection only.           *)
LEMMA RequestKeepsPool ==
  ASSUME PoolInv, NEW r \in Request, PoolFits',
         conn' \in {conn, conn \cup {r}, conn \ {r}},
         \A s \in Request \ {r} : pc'[s] = pc[s] /\ req'[s] = req[s],
         UNCHANGED stage,
         r \in conn' <=> InTransaction(r)'
  PROVE  PoolInv'
<1>1. \A s \in Request : s \in conn' <=> InTransaction(s)'
  BY DEF PoolInv, ConnectionsAreReturned, InTransaction, Flushed, Asks
<1>2. \A a \in Ask : a \in conn' <=> Thinking(a)'
  BY ClientAssumption DEF PoolInv, ConnectionsAreReturned, Thinking
<1>3. QED
  BY <1>1, <1>2 DEF PoolInv, PoolFits, ConnectionsAreReturned

LEMMA AskKeepsPool ==
  ASSUME PoolInv, NEW a \in Ask, PoolFits',
         conn' \in {conn, conn \cup {a}, conn \ {a}},
         \A b \in Ask \ {a} : stage'[b] = stage[b],
         UNCHANGED <<pc, req>>,
         a \in conn' <=> Thinking(a)'
  PROVE  PoolInv'
<1>1. \A s \in Request : s \in conn' <=> InTransaction(s)'
  BY ClientAssumption DEF PoolInv, ConnectionsAreReturned, InTransaction, Flushed, Asks
<1>2. \A b \in Ask : b \in conn' <=> Thinking(b)'
  BY DEF PoolInv, ConnectionsAreReturned, Thinking
<1>3. QED
  BY <1>1, <1>2 DEF PoolInv, PoolFits, ConnectionsAreReturned

(* The four ways a step treats the connection of its request.               *)
LEMMA AnswerReturns ==
  ASSUME TypeOK, PoolInv, NEW r \in Request, NEW what,
         Respond(r, what), UNCHANGED <<req, stage>>
  PROVE  PoolInv'
<1>1. pc' = [pc EXCEPT ![r] = "done"] /\ Disconnect(r) /\ pc \in [Request -> Control]
  BY DEF Respond, TypeOK
<1>2. PoolFits' /\ conn' = conn \ {r}
  BY <1>1, ReturnFits DEF PoolInv, Disconnect
<1>3. ~ InTransaction(r)'
  BY <1>1 DEF InTransaction, Flushed
<1>4. QED
  BY <1>1, <1>2, <1>3, RequestKeepsPool

LEMMA CommitReturns ==
  ASSUME TypeOK, PoolInv, NEW r \in Request, NEW label \in {"publish", "refresh"},
         Goto(r, label), Disconnect(r), UNCHANGED <<req, stage>>
  PROVE  PoolInv'
<1>1. pc' = [pc EXCEPT ![r] = label] /\ pc \in [Request -> Control]
  BY DEF Goto, TypeOK
<1>2. PoolFits' /\ conn' = conn \ {r}
  BY ReturnFits DEF PoolInv, Disconnect
<1>3. ~ InTransaction(r)'
  BY <1>1 DEF InTransaction, Flushed
<1>4. QED
  BY <1>1, <1>2, <1>3, RequestKeepsPool

LEMMA StatementLends ==
  ASSUME TypeOK, PoolInv, NEW r \in Request, NEW label \in {"flush", "held", "commit"},
         label = "flush" => ~ Asks(r, "create user"),
         Goto(r, label), Connect(r), UNCHANGED <<req, stage>>
  PROVE  PoolInv'
<1>1. pc' = [pc EXCEPT ![r] = label] /\ pc \in [Request -> Control]
  BY DEF Goto, TypeOK
<1>2. PoolFits' /\ conn' = conn \cup {r}
  BY LoanFits DEF PoolInv, Connect
<1>3. InTransaction(r)'
  BY <1>1 DEF InTransaction, Flushed, Asks
<1>4. QED
  BY <1>1, <1>2, <1>3, RequestKeepsPool

LEMMA OthersKeepPool ==
  ASSUME TypeOK, PoolInv, NEW r \in Request, UNCHANGED <<conn, stage>>,
         NEW label \in Control, pc' = [pc EXCEPT ![r] = label],
         \A s \in Request \ {r} : req'[s] = req[s],
         InTransaction(r)' <=> InTransaction(r)
  PROVE  PoolInv'
<1>1. pc \in [Request -> Control]
  BY DEF TypeOK
<1>2. PoolFits'
  BY DEF PoolInv, PoolFits
<1>3. r \in conn' <=> InTransaction(r)'
  BY DEF PoolInv, ConnectionsAreReturned
<1>4. QED
  BY <1>1, <1>2, <1>3, RequestKeepsPool

LEMMA RequestPool ==
  ASSUME TypeOK, PoolInv, Next, UNCHANGED stage
  PROVE  PoolInv'
<1>1. PICK r \in Request :
        (\E o \in Operation : Receive(r, o)) \/ Serve(r) \/ Abort(r) \/ BreakDeadlock(r)
  BY DEF Next
<1>2. pc \in [Request -> Control] /\ req \in [Request -> Operation \cup {NoRequest}]
  BY DEF TypeOK
<1>3. CASE \E o \in Operation : Receive(r, o)
  <2>1. PICK o \in Operation : Receive(r, o)
    BY <1>3
  <2>2. /\ pc[r] = "idle"
        /\ pc' = [pc EXCEPT ![r] = IF o.kind = "create user" THEN "flush" ELSE "load"]
        /\ req' = [req EXCEPT ![r] = o]
        /\ UNCHANGED conn
    BY <2>1 DEF Receive, Goto
  <2>3. /\ pc'[r] = IF o.kind = "create user" THEN "flush" ELSE "load"
        /\ req'[r] = o
        /\ \A s \in Request \ {r} : req'[s] = req[s]
    BY <1>2, <2>2
  <2>4. ~ InTransaction(r) /\ ~ InTransaction(r)'
    <3>1. ~ InTransaction(r)
      BY <2>2 DEF InTransaction, Flushed
    <3>2. pc'[r] = "load" \/ (pc'[r] = "flush" /\ req'[r].kind = "create user")
      BY <2>3
    <3>3. ~ InTransaction(r)'
      BY <3>2 DEF InTransaction, Flushed, Asks
    <3>4. QED
      BY <3>1, <3>3
  <2>5. (IF o.kind = "create user" THEN "flush" ELSE "load") \in Control
    BY DEF Control
  <2>6. QED
    BY <2>2, <2>3, <2>4, <2>5, OthersKeepPool
<1>4. CASE Load(r)
  BY <1>4, AnswerReturns, StatementLends DEF Load, Reading, Asks
<1>5. CASE RefuseNull(r)
  BY <1>5, AnswerReturns DEF RefuseNull, Reading
<1>6. CASE Flush(r)
  BY <1>6, AnswerReturns, StatementLends DEF Flush, Reading
<1>7. CASE Constrain(r)
  <2>1. CASE Respond(r, "conflict")
    BY <1>7, <2>1, AnswerReturns DEF Constrain, Reading
  <2>2. CASE Goto(r, "commit") /\ UNCHANGED conn
    <3>1. /\ pc[r] = "held" /\ pc' = [pc EXCEPT ![r] = "commit"] /\ UNCHANGED <<conn, req>>
          /\ "commit" \in Control
      BY <1>7, <2>2 DEF Constrain, Reading, Goto, Control
    <3>2. InTransaction(r) /\ InTransaction(r)'
      BY <1>2, <3>1 DEF InTransaction, Flushed
    <3>3. QED
      BY <3>1, <3>2, OthersKeepPool
  <2>3. QED
    BY <1>7, <2>1, <2>2 DEF Constrain
<1>8. CASE Commit(r)
  BY <1>8, AnswerReturns, CommitReturns DEF Commit, AfterCommit
<1>9. CASE Publish(r)
  <2>1. CASE Respond(r, "failed")
    BY <1>9, <2>1, AnswerReturns DEF Publish, Reading
  <2>2. CASE Goto(r, "refresh") /\ UNCHANGED conn
    <3>1. /\ pc[r] = "publish" /\ pc' = [pc EXCEPT ![r] = "refresh"] /\ UNCHANGED <<conn, req>>
          /\ "refresh" \in Control
      BY <1>9, <2>2 DEF Publish, Reading, Goto, Control
    <3>2. ~ InTransaction(r) /\ ~ InTransaction(r)'
      BY <1>2, <3>1 DEF InTransaction, Flushed
    <3>3. QED
      BY <3>1, <3>2, OthersKeepPool
  <2>3. QED
    BY <1>9, <2>1, <2>2 DEF Publish
<1>10. CASE Refresh(r)
  BY <1>10, AnswerReturns DEF Refresh, Reading
<1>11. CASE Fail(r)
  BY <1>11, AnswerReturns DEF Fail, Reading
<1>12. QED
  BY <1>1, <1>3, <1>4, <1>5, <1>6, <1>7, <1>8, <1>9, <1>10, <1>11
     DEF Serve, Abort, BreakDeadlock

LEMMA AskPool ==
  ASSUME AgentTypeOK, PoolInv, NEW a \in Ask,
         (\E t \in Ticket, p \in Peer : Enter(a, t, p)) \/ ServeAsk(a) \/ AbortAsk(a)
  PROVE  PoolInv'
<1>1. /\ stage \in [Ask -> {"idle", "context", "start", "finish", "done"}]
      /\ UNCHANGED <<pc, req>>
  BY DEF AgentTypeOK, Enter, ServeAsk, LoadContext, StartModel, FinishModel, AbortAsk, request
<1>2. a \in conn <=> Thinking(a)
  BY DEF PoolInv, ConnectionsAreReturned
<1>3. CASE \E code : Reject(a, code) /\ Disconnect(a)
  <2>1. stage' = [stage EXCEPT ![a] = "done"] /\ conn' = conn \ {a}
    BY <1>3 DEF Reject, Disconnect
  <2>2. ~ Thinking(a)'
    BY <1>1, <2>1 DEF Thinking
  <2>3. PoolFits'
    BY <1>3, ReturnFits DEF PoolInv
  <2>4. QED
    BY <1>1, <2>1, <2>2, <2>3, AskKeepsPool
<1>4. CASE Move(a, "start") /\ Connect(a)
  <2>1. stage' = [stage EXCEPT ![a] = "start"] /\ conn' = conn \cup {a}
    BY <1>4 DEF Move, Connect
  <2>2. Thinking(a)'
    BY <1>1, <2>1 DEF Thinking
  <2>3. PoolFits'
    BY <1>4, LoanFits DEF PoolInv
  <2>4. QED
    BY <1>1, <2>1, <2>2, <2>3, AskKeepsPool
<1>5. CASE /\ UNCHANGED conn
           /\ \/ stage[a] = "idle" /\ (\E to \in {"context", "done"} : stage' = [stage EXCEPT ![a] = to])
              \/ stage[a] = "start" /\ Move(a, "finish")
  <2>1. (\A b \in Ask \ {a} : stage'[b] = stage[b]) /\ (Thinking(a)' <=> Thinking(a))
    BY <1>1, <1>5 DEF Thinking, Move
  <2>2. PoolFits'
    BY <1>5 DEF PoolInv, PoolFits
  <2>3. QED
    BY <1>1, <1>2, <1>5, <2>1, <2>2, AskKeepsPool
<1>6. ASSUME NEW t \in Ticket, NEW p \in Peer, Enter(a, t, p)
      PROVE  PoolInv'
  BY <1>5, <1>6 DEF Enter, Move, Reject
<1>7. QED
  BY <1>3, <1>4, <1>5, <1>6 DEF ServeAsk, LoadContext, StartModel, FinishModel, AbortAsk

LEMMA PoolStarts == AgentInit => PoolInv
<1> SUFFICES ASSUME AgentInit
             PROVE  PoolInv
  OBVIOUS
<1>1. conn = {} /\ PoolFits
  BY FS_EmptySet, ClientAssumption DEF AgentInit, Init, PoolFits
<1>2. QED
  BY <1>1
     DEF AgentInit, Init, PoolInv, PoolFits, ConnectionsAreReturned, InTransaction, Flushed, Thinking

LEMMA PoolSteps == AgentInv /\ PoolInv /\ [AgentNext]_allVars => PoolInv'
<1> SUFFICES ASSUME AgentInv, PoolInv, [AgentNext]_allVars
             PROVE  PoolInv'
  OBVIOUS
<1>1. TypeOK /\ AgentTypeOK
  BY DEF AgentInv, TablesInv
<1>2. CASE Next /\ UNCHANGED agent
  BY <1>1, <1>2, RequestPool DEF agent
<1>3. CASE \E a \in Ask :
             (\E t \in Ticket, p \in Peer : Enter(a, t, p)) \/ ServeAsk(a) \/ AbortAsk(a)
  BY <1>1, <1>3, AskPool
<1>4. CASE UNCHANGED allVars
  <2>1. UNCHANGED <<conn, pc, req, stage>>
    BY <1>4 DEF allVars, vars, request, agent
  <2>2. QED
    BY <2>1
       DEF PoolInv, PoolFits, ConnectionsAreReturned, InTransaction, Flushed, Asks, Thinking
<1>5. QED
  BY <1>2, <1>3, <1>4 DEF AgentNext

LEMMA PoolInvariant == AgentSpec => []PoolInv
BY AgentInvariant, PoolStarts, PoolSteps, PTL DEF AgentSpec
-----------------------------------------------------------------------------
(* Who waits for whom.                                                      *)

LEMMA WaitedFor ==
  ASSUME NEW r \in Request, NEW s \in Blockers(r)
  PROVE  s \in Request /\ pc[s] \in {"held", "commit"} /\ pc[r] \in {"flush", "held"}
<1>1. s \in Request /\ pc[r] \in {"flush", "held"}
  BY DEF Blockers
<1>2. RowLocks(s) # {} \/ References(s) # {} \/ Claims(s) # {}
  BY DEF Blockers
<1>3. RowLocks(s) # {} => Flushed(s)
  BY DEF RowLocks, Flushed
<1>4. References(s) # {} => Flushed(s)
  BY DEF References
<1>5. Claims(s) # {} => Flushed(s)
  BY <1>3 DEF Claims, Flushed
<1>6. QED
  BY <1>1, <1>2, <1>3, <1>4, <1>5 DEF Flushed

(* Past its row lock, a statement waits only for an e-mail or, deleting a   *)
(* user, for the user's tickets.                                            *)
LEMMA HeldWaits ==
  ASSUME TypeOK, NEW r \in Request, Target(r), pc[r] = "held", Blockers(r) # {}
  PROVE  SetsEmail(r) \/ (Asks(r, "delete") /\ subject[r] \in User)
<1>1. CASE ~ SetsEmail(r)
  <2>1. Asks(r, "delete") /\ Cascade(r) # {}
    BY <1>1 DEF Blockers
  <2>2. PICK t \in Ticket : owner[t] = subject[r]
    BY <2>1 DEF Cascade
  <2>3. subject[r] \in Id /\ owner[t] \in User \cup {Null}
    BY <2>1 DEF Target, TypeOK
  <2>4. QED
    BY <2>1, <2>2, <2>3, IdAssumption
<1>2. QED
  BY <1>1

(* A deletion waits only for requests that wait for nothing.                *)
LEMMA DeletionWaits ==
  ASSUME TypeOK, NEW r \in Request, NEW s \in Blockers(r), Target(s),
         pc[r] = "held", Asks(r, "delete")
  PROVE  pc[s] = "commit" \/ (pc[s] = "held" /\ Blockers(s) = {})
<1>1. s \in Request /\ pc[s] \in {"held", "commit"}
  BY WaitedFor
<1>2. ~ SetsEmail(r)
  BY DEF SetsEmail, Asks
<1>3. PICK i \in Ticket : i \in RowLocks(s)
  BY <1>2 DEF Blockers, Cascade
<1>4. CASE pc[s] = "held"
  <2>1. i = subject[s] /\ (Updates(s) \/ Asks(s, "delete"))
    BY <1>3, <1>4 DEF RowLocks
  <2>2. subject[s] \notin User
    BY <2>1, IdAssumption
  <2>3. ~ SetsEmail(s)
    BY <2>1, <2>2 DEF SetsEmail, Updates, Asks
  <2>4. QED
    BY <1>1, <1>4, <2>2, <2>3, HeldWaits
<1>5. QED
  BY <1>1, <1>4

(* Who keeps an e-mail from others before committing is giving it up.       *)
LEMMA EmailWaits ==
  ASSUME NEW r \in Request, NEW s \in Blockers(r), pc[r] = "held", SetsEmail(r), pc[s] = "held"
  PROVE  s \in Request /\ (Asks(s, "patch") \/ Asks(s, "delete")) /\ ChangesKey(s)
<1>1. s \in Request /\ Claims(s) # {}
  BY DEF Blockers, SetsEmail, Asks
<1>2. RowLocks(s) # {} /\ ChangesKey(s)
  BY <1>1 DEF Claims
<1>3. Updates(s) \/ Asks(s, "delete")
  BY <1>2 DEF RowLocks
<1>4. QED
  BY <1>1, <1>2, <1>3 DEF Updates

LEMMA RingMembers ==
  ASSUME TypeOK, \A r \in Request : Target(r), NEW r \in Request, Deadlocked(r)
  PROVE  pc[r] = "held" /\ Asks(r, "patch") /\ SetsEmail(r)
<1>1. PICK S \in SUBSET Request :
        r \in S /\ \A s \in S : Blockers(s) \cap S # {} /\ \E t \in S : s \in Blockers(t)
  BY DEF Deadlocked
<1>2. ASSUME NEW s \in S
      PROVE  pc[s] = "held"
  <2>1. PICK t \in S : s \in Blockers(t)
    BY <1>1
  <2>2. PICK b : b \in Blockers(s)
    BY <1>1
  <2>3. pc[s] \in {"held", "commit"}
    BY <2>1, WaitedFor
  <2>4. pc[s] \in {"flush", "held"}
    BY <2>2, WaitedFor
  <2>5. QED
    BY <2>3, <2>4
<1>3. ASSUME NEW s \in S, Asks(s, "delete")
      PROVE  FALSE
  <2>1. PICK b \in S : b \in Blockers(s)
    BY <1>1
  <2>2. pc[b] = "commit" \/ Blockers(b) = {}
    BY <1>2, <1>3, <2>1, DeletionWaits
  <2>3. pc[b] = "held" /\ Blockers(b) # {}
    BY <1>1, <1>2
  <2>4. QED
    BY <2>2, <2>3
<1>4. ASSUME NEW s \in S
      PROVE  SetsEmail(s)
  <2>1. pc[s] = "held" /\ Blockers(s) # {} /\ Target(s)
    BY <1>1, <1>2
  <2>2. QED
    BY <1>3, <2>1, HeldWaits
<1>5. PICK t \in S : r \in Blockers(t)
  BY <1>1
<1>6. Asks(r, "patch")
  BY <1>1, <1>2, <1>3, <1>4, <1>5, EmailWaits
<1>7. QED
  BY <1>1, <1>2, <1>4, <1>6

(* In a finite set whose members all wait for members of it, some wait in a *)
(* ring: the smallest such subset is one.                                   *)
LEMMA RingExists ==
  ASSUME NEW H \in SUBSET Request, IsFiniteSet(H), H # {},
         \A h \in H : Blockers(h) \cap H # {}
  PROVE  \E h \in H : Deadlocked(h)
<1> DEFINE C == {T \in SUBSET H : T # {} /\ \A h \in T : Blockers(h) \cap T # {}}
<1>1. IsWellFoundedOn(StrictSubsetOrdering(H), SUBSET H)
  BY FS_StrictSubsetOrderingWellFounded, FS_FiniteSubsetsOfFinite
<1>2. C \subseteq SUBSET H /\ C # {}
  <2>1. H \in C
    OBVIOUS
  <2>2. QED
    BY <2>1
<1>3. PICK T \in C : \A U \in C : ~ (<<U, T>> \in StrictSubsetOrdering(H))
  <2> HIDE DEF C
  <2>1. QED
    BY <1>1, <1>2, WFMin
<1>4. \A U \in C : U \subseteq T => U = T
  <2>1. ASSUME NEW U \in C, U \subseteq T, U # T
        PROVE  FALSE
    <3>1. <<U, T>> \in (SUBSET H) \X (SUBSET H)
      BY <1>2
    <3>2. <<U, T>> \in StrictSubsetOrdering(H)
      BY <2>1, <3>1 DEF StrictSubsetOrdering
    <3>3. QED
      BY <1>3, <3>2
  <2>2. QED
    BY <2>1
<1> DEFINE U == {s \in T : \E t \in T : s \in Blockers(t)}
<1>5. U \in C
  <2>1. T # {} /\ T \in SUBSET H /\ \A h \in T : Blockers(h) \cap T # {}
    OBVIOUS
  <2>2. U \in SUBSET H /\ U # {}
    BY <2>1
  <2>3. \A h \in U : Blockers(h) \cap U # {}
    BY <2>1
  <2>4. QED
    BY <2>2, <2>3
<1>6. U = T
  BY <1>4, <1>5
<1>7. \A s \in T : Blockers(s) \cap T # {} /\ \E t \in T : s \in Blockers(t)
  BY <1>6
<1>8. PICK h \in T : TRUE
  OBVIOUS
<1>9. Deadlocked(h)
  BY <1>7 DEF Deadlocked
<1>10. QED
  BY <1>9

LEMMA NobodyIsStuck ==
  ASSUME AgentInv, PoolInv
  PROVE  SomebodyCanGoOn
<1> SUFFICES ASSUME \A r \in Request : ~ CanGoOn(r),
                    \A a \in Ask : ~ AskCanGoOn(a),
                    \/ \E r \in Request : pc[r] \notin {"idle", "done"}
                    \/ \E a \in Ask : stage[a] \notin {"idle", "done"}
             PROVE  \E r \in Request : Deadlocked(r)
  BY DEF SomebodyCanGoOn
<1>1. /\ TypeOK
      /\ pc \in [Request -> Control]
      /\ stage \in [Ask -> {"idle", "context", "start", "finish", "done"}]
      /\ conn \subseteq Request \cup Ask
      /\ \A r \in Request : Target(r)
  BY DEF AgentInv, TablesInv, TypeOK, AgentTypeOK, Isolated, Place
<1>2. conn \subseteq Request /\ \A a \in Ask : ~ Thinking(a)
  BY <1>1 DEF PoolInv, ConnectionsAreReturned, AskCanGoOn
<1>3. \A r \in Request : pc[r] \notin {"commit", "publish"}
  BY DEF CanGoOn
<1>4. ASSUME NEW r \in conn
      PROVE  pc[r] \in {"flush", "held"} /\ Blockers(r) # {}
  <2>1. r \in Request /\ InTransaction(r) /\ Available(r)
    BY <1>2 DEF PoolInv, ConnectionsAreReturned, Available
  <2>2. pc[r] \in {"flush", "held"}
    BY <1>3, <2>1 DEF InTransaction, Flushed
  <2>3. QED
    BY <2>1, <2>2 DEF CanGoOn
<1>5. conn # {}
  <2> SUFFICES ASSUME conn = {}
               PROVE  FALSE
    OBVIOUS
  <2>1. \A c : Available(c)
    BY FS_EmptySet, ClientAssumption DEF Available
  <2>2. CASE \E r \in Request : pc[r] \notin {"idle", "done"}
    <3>1. PICK r \in Request : pc[r] \notin {"idle", "done"}
      BY <2>2
    <3>2. ~ InTransaction(r)
      BY DEF PoolInv, ConnectionsAreReturned
    <3>3. pc[r] \notin {"load", "refresh", "held"}
      BY <2>1, <3>2 DEF CanGoOn, InTransaction, Flushed
    <3>4. pc[r] = "flush" /\ Asks(r, "create user")
      BY <1>1, <1>3, <3>1, <3>2, <3>3 DEF InTransaction, Control
    <3>5. Blockers(r) = {}
      BY <3>4 DEF Blockers, Asks, Updates
    <3>6. QED
      BY <2>1, <3>4, <3>5 DEF CanGoOn
  <2>3. CASE \E a \in Ask : stage[a] \notin {"idle", "done"}
    <3>1. PICK a \in Ask : stage[a] \notin {"idle", "done"}
      BY <2>3
    <3>2. stage[a] = "context"
      BY <1>1, <1>2, <3>1 DEF Thinking
    <3>3. QED
      BY <2>1, <3>2 DEF AskCanGoOn
  <2>4. QED
    BY <2>2, <2>3
<1>6. ASSUME NEW r \in Request, NEW s \in Blockers(r)
      PROVE  s \in conn /\ pc[s] = "held"
  <2>1. s \in Request /\ pc[s] = "held"
    BY <1>3, WaitedFor
  <2>2. QED
    BY <2>1 DEF PoolInv, ConnectionsAreReturned, InTransaction, Flushed
<1>7. PICK h \in conn : pc[h] = "held"
  <2>1. PICK r \in conn : TRUE
    BY <1>5
  <2>2. PICK s : s \in Blockers(r)
    BY <1>4
  <2>3. QED
    BY <1>2, <1>6, <2>2
<1>8. ASSUME NEW r \in conn, pc[r] = "held"
      PROVE  SetsEmail(r) /\ ~ Asks(r, "delete")
  <2>1. r \in Request /\ Target(r) /\ Blockers(r) # {}
    BY <1>1, <1>2, <1>4
  <2>2. ~ Asks(r, "delete")
    <3>1. SUFFICES ASSUME Asks(r, "delete")
                   PROVE  FALSE
      OBVIOUS
    <3>2. PICK s : s \in Blockers(r)
      BY <2>1
    <3>3. s \in conn /\ pc[s] = "held" /\ Target(s)
      BY <1>1, <1>2, <1>6, <2>1, <3>2
    <3>4. Blockers(s) = {}
      BY <1>1, <1>8, <2>1, <3>1, <3>2, <3>3, DeletionWaits
    <3>5. QED
      BY <1>4, <3>3, <3>4
  <2>3. QED
    BY <1>1, <1>8, <2>1, <2>2, HeldWaits
<1> DEFINE H == {r \in conn : pc[r] = "held" /\ Asks(r, "patch")}
<1>9. ASSUME NEW r \in conn, pc[r] = "held"
      PROVE  Blockers(r) \cap H # {}
  <2>1. PICK s : s \in Blockers(r)
    BY <1>4
  <2>2. r \in Request /\ s \in conn /\ pc[s] = "held"
    BY <1>2, <1>6, <2>1
  <2>3. Asks(s, "patch")
    BY <1>8, <1>9, <2>1, <2>2, EmailWaits
  <2>4. QED
    BY <2>1, <2>2, <2>3
<1>10. H \in SUBSET Request /\ IsFiniteSet(H)
  BY <1>2, FS_Subset DEF PoolInv, PoolFits
<1>11. H # {} /\ \A r \in H : Blockers(r) \cap H # {}
  BY <1>7, <1>9
<1>12. QED
  BY <1>10, <1>11, RingExists

(* Every connection taken is returned: requests and asks hold one exactly   *)
(* while their transaction is open, and never more than the pool has        *)
(* (db/session.py, the sessions of the endpoints).                          *)
THEOREM NoConnectionLeaks == AgentSpec => []ConnectionsAreReturned
<1>1. PoolInv => ConnectionsAreReturned
  BY DEF PoolInv
<1>2. QED
  BY <1>1, PoolInvariant, PTL

(* The deadlock detector only ever ends a PATCH of a stored user's e-mail   *)
(* (UserService.update): no creation, deletion or ticket waits in a ring.   *)
THEOREM OnlySwapsDeadlock == AgentSpec => []RingsAreSwaps
<1>1. AgentInv => RingsAreSwaps
  BY RingMembers DEF AgentInv, TablesInv, Isolated, Place, RingsAreSwaps
<1>2. QED
  BY <1>1, AgentInvariant, PTL

(* While something is unanswered, somebody can go on or a ring is there for *)
(* the detector, for any number of clients and connections: without rings,  *)
(* row locks and the pool together never stop the API.                      *)
THEOREM NoGridlock == AgentSpec => []SomebodyCanGoOn
<1>1. AgentInv /\ PoolInv => SomebodyCanGoOn
  BY NobodyIsStuck
<1>2. QED
  BY <1>1, AgentInvariant, PoolInvariant, PTL
=============================================================================
