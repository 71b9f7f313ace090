------------------------------ MODULE Customers ------------------------------
(***************************************************************************)
(* The users and tickets endpoints: UserService and TicketService over the *)
(* users and tickets tables, with concurrent API requests and the bounded  *)
(* connection pool of db/session.py.                                       *)
(*                                                                         *)
(* A request reads its row, flushes one statement and commits, each in a   *)
(* step of its own.  Between its flush and its commit it holds PostgreSQL's*)
(* row locks and index entries, and other statements wait for them.  The   *)
(* flush has two halves: the row lock, then the unique index of the e-mail *)
(* or, for a deleted user, the tickets that ON DELETE SET NULL rewrites.   *)
(* A commit is applied, refused, or applied with the reply lost.           *)
(***************************************************************************)
EXTENDS Naturals, FiniteSets

CONSTANTS
  User, Ticket,  \* identifiers, each given to one row at most
  Value,         \* what a column may hold
  Null,          \* SQL null
  Request,       \* API requests, each served once
  Ask,           \* requests to the staff agent, which share the pool (StaffAgent)
  Pool,          \* connections the engine opens at most
  Operation,     \* what requests may ask for
  Start          \* the tables before the first request

Id == User \cup Ticket

(* A user has the unique e-mail (key) and a name (rest).  Two columns stand *)
(* for the five a ticket lets clients write; neither is unique.             *)
Column == {"key", "rest"}
Row == [Column -> Value]

(* The fields a payload sets: model_dump(exclude_unset=True).               *)
Change == UNION {[S -> Value \cup {Null}] : S \in SUBSET Column}

Kind == {"create user", "create ticket", "patch", "delete", "read", "list"}

Unique(life, row) ==
  \A u, v \in User :
    life[u] = "stored" /\ life[v] = "stored" /\ row[u]["key"] = row[v]["key"] => u = v

Owned(life, owner) ==
  \A t \in Ticket :
    life[t] = "stored" => owner[t] = Null \/ (owner[t] \in User /\ life[owner[t]] = "stored")

ASSUME IdAssumption == User \cap Ticket = {} /\ Null \notin Id \cup Value

ASSUME ClientAssumption == Request \cap Ask = {} /\ Null \notin Request /\ Pool \in Nat \ {0}

(* TicketUpdate has no user_id and every new row comes with all its columns *)
(* (UserCreate, TicketCreate).                                              *)
ASSUME OperationAssumption ==
  \A o \in Operation :
    /\ o \in [kind : Kind, id : Id \cup {Null}, change : Change]
    /\ o.kind \in {"create user", "create ticket"} => o.change \in Row
    /\ o.kind = "create ticket" => o.id \in User
    /\ o.kind \in {"patch", "delete", "read"} => o.id \in Id

ASSUME StartAssumption ==
  /\ Start.life \in [Id -> {"new", "stored"}]
  /\ Start.row \in [Id -> Row]
  /\ Start.owner \in [Ticket -> User \cup {Null}]
  /\ Unique(Start.life, Start.row)
  /\ Owned(Start.life, Start.owner)

VARIABLES
  life,        \* life[i]: whether row i was inserted, and deleted
  row,         \* row[i]: its columns
  owner,       \* owner[t]: tickets.user_id
  pc,          \* pc[r]: the next thing request r does
  req,         \* req[r]: what it was asked to do
  subject,     \* subject[r]: the row it writes
  loaded,      \* loaded[r]: that row as its session read it
  answer,      \* answer[r]: the kind of HTTP response
  conn,        \* the clients holding a connection of the pool
  overwritten  \* overwritten[r]: columns others asked to write since r read

tables == <<life, row, owner>>
request == <<pc, req, subject, loaded, answer, overwritten>>
vars == <<tables, request, conn>>

NoRequest == [kind |-> "none", id |-> Null, change |-> <<>>]
NoRow == [c \in Column |-> Null]

Control == {"idle", "load", "flush", "held", "commit", "publish", "refresh", "done"}
Answer == {"none", "ok", "not found", "conflict", "failed", "unserved"}

TypeOK ==
  /\ life \in [Id -> {"new", "stored", "deleted"}]
  /\ row \in [Id -> Row]
  /\ owner \in [Ticket -> User \cup {Null}]
  /\ pc \in [Request -> Control]
  /\ req \in [Request -> Operation \cup {NoRequest}]
  /\ subject \in [Request -> Id \cup {Null}]
  /\ loaded \in [Request -> Row \cup {NoRow}]
  /\ answer \in [Request -> Answer]
  /\ conn \in SUBSET (Request \cup Ask)
  /\ overwritten \in [Request -> SUBSET Column]

Init ==
  /\ life = Start.life
  /\ row = Start.row
  /\ owner = Start.owner
  /\ pc = [r \in Request |-> "idle"]
  /\ req = [r \in Request |-> NoRequest]
  /\ subject = [r \in Request |-> Null]
  /\ loaded = [r \in Request |-> NoRow]
  /\ answer = [r \in Request |-> "none"]
  /\ conn = {}
  /\ overwritten = [r \in Request |-> {}]
-----------------------------------------------------------------------------
(* The session: one connection from its first statement to its commit.     *)

(* Mutant: a flush takes a connection of its own.                           *)
AvailableAnew(c) == Cardinality(conn) < Pool

Available(c) == c \in conn \/ Cardinality(conn) < Pool

Connect(c) == Available(c) /\ conn' = conn \cup {c}

(* Mutant: the session is not closed.                                       *)
StayConnected(c) == UNCHANGED conn

Disconnect(c) == conn' = conn \ {c}

Goto(r, label) == pc' = [pc EXCEPT ![r] = label] /\ UNCHANGED answer

Respond(r, what) ==
  /\ pc' = [pc EXCEPT ![r] = "done"]
  /\ answer' = [answer EXCEPT ![r] = what]
  /\ Disconnect(r)

(* TicketResponse.user_id is not optional, so a ticket whose customer is    *)
(* gone cannot be serialised.                                               *)
Servable(i) == i \in User \/ owner[i] # Null
-----------------------------------------------------------------------------
(* What a flushed, uncommitted statement keeps others from.                *)

Asks(r, kind) == req[r].kind = kind

(* The unit of work updates the columns whose value differs from the loaded *)
(* one; without any there is no statement.                                  *)
Written(r) == {c \in DOMAIN req[r].change : req[r].change[c] # loaded[r][c]}

Updates(r) == Asks(r, "patch") /\ Written(r) # {}

SetsEmail(r) ==
  \/ Asks(r, "create user")
  \/ Asks(r, "patch") /\ subject[r] \in User /\ "key" \in Written(r)

(* PostgreSQL lets a foreign key check pass a row lock that leaves the      *)
(* unique columns alone.                                                    *)
ChangesKey(r) == Asks(r, "delete") \/ SetsEmail(r)

Flushed(r) == pc[r] \in {"held", "commit"}

Cascade(r) == {t \in Ticket : life[t] = "stored" /\ owner[t] = subject[r]}

RowLocks(r) ==
  {i \in Id :
     /\ life[i] = "stored"
     /\ \/ Flushed(r) /\ i = subject[r] /\ (Updates(r) \/ Asks(r, "delete"))
        \/ pc[r] = "commit" /\ Asks(r, "delete") /\ subject[r] \in User /\ i \in Cascade(r)}

References(r) == IF Flushed(r) /\ Asks(r, "create ticket") THEN {req[r].id} ELSE {}

(* Mutant: a new e-mail is entered in the index before it is looked up.     *)
ClaimsAtOnce(r) ==
  {row[i]["key"] : i \in {j \in RowLocks(r) \cap User : ChangesKey(r)}}
    \cup (IF Flushed(r) /\ SetsEmail(r) THEN {req[r].change["key"]} ELSE {})

(* The e-mail of the version a statement replaces counts as taken until the *)
(* transaction ends, and so does the e-mail it inserts.                     *)
Claims(r) ==
  {row[i]["key"] : i \in {j \in RowLocks(r) \cap User : ChangesKey(r)}}
    \cup (IF pc[r] = "commit" /\ SetsEmail(r) THEN {req[r].change["key"]} ELSE {})

(* Mutant: statements do not wait for each other.                           *)
NoBlockers(r) == {s \in Request : s = r /\ pc[s] = "idle"}

(* The requests whose transactions the next statement of r waits for.       *)
Blockers(r) ==
  {s \in Request \ {r} :
     \/ /\ pc[r] = "flush"
        /\ Updates(r) \/ Asks(r, "delete")
        /\ subject[r] \in RowLocks(s) \/ (ChangesKey(r) /\ subject[r] \in References(s))
     \/ /\ pc[r] = "flush"
        /\ Asks(r, "create ticket")
        /\ req[r].id \in RowLocks(s)
        /\ ChangesKey(s)
     \/ pc[r] = "held" /\ SetsEmail(r) /\ req[r].change["key"] \in Claims(s)
     \/ pc[r] = "held" /\ Asks(r, "delete") /\ Cascade(r) \cap RowLocks(s) # {}}
-----------------------------------------------------------------------------
Receive(r, o) ==
  /\ pc[r] = "idle"
  /\ Goto(r, IF o.kind = "create user" THEN "flush" ELSE "load")
  /\ req' = [req EXCEPT ![r] = o]
  /\ subject' = [subject EXCEPT
       ![r] = IF o.kind \in {"patch", "delete", "read"} THEN o.id ELSE Null]
  /\ UNCHANGED <<tables, loaded, conn, overwritten>>

Reading(r) == UNCHANGED <<tables, req, subject, overwritten>>

(* get, _ensure_user_exists and the read endpoints.  A page of tickets is   *)
(* serialised as a whole.                                                   *)
Load(r) ==
  LET i == req[r].id IN
  /\ pc[r] = "load"
  /\ Available(r)
  /\ \/ /\ Asks(r, "list")
        /\ Respond(r, IF \A t \in Ticket : life[t] = "stored" => Servable(t)
                      THEN "ok" ELSE "unserved")
        /\ UNCHANGED loaded
     \/ /\ ~ Asks(r, "list")
        /\ life[i] # "stored"
        /\ Respond(r, "not found")
        /\ UNCHANGED loaded
     \/ /\ Asks(r, "read")
        /\ life[i] = "stored"
        /\ Respond(r, IF Servable(i) THEN "ok" ELSE "unserved")
        /\ UNCHANGED loaded
     \/ /\ req[r].kind \in {"patch", "delete", "create ticket"}
        /\ life[i] = "stored"
        /\ Goto(r, "flush")
        /\ Connect(r)
        /\ loaded' = [loaded EXCEPT ![r] = row[i]]
  /\ Reading(r)

HasNull(r) == \E c \in DOMAIN req[r].change : req[r].change[c] = Null

(* An explicit null passes UserUpdate and TicketUpdate and fails on the     *)
(* NOT NULL column.  UserService takes every IntegrityError for a duplicate *)
(* e-mail; TicketService.update takes none.                                 *)
RefuseNull(r) ==
  /\ pc[r] = "flush"
  /\ Available(r)
  /\ Asks(r, "patch")
  /\ HasNull(r)
  /\ life[subject[r]] = "stored"
  /\ Respond(r, IF subject[r] \in User THEN "conflict" ELSE "failed")
  /\ UNCHANGED loaded
  /\ Reading(r)

ReferenceHolds(r) == life[req[r].id] = "stored"

(* The row half of the flush.  A row deleted since it was read makes an     *)
(* UPDATE raise StaleDataError, a DELETE only warn, and an INSERT of a      *)
(* ticket fail on the foreign key, which create reports as a missing user.  *)
Flush(r) ==
  /\ pc[r] = "flush"
  /\ Blockers(r) = {}
  /\ Available(r)
  /\ \/ Asks(r, "create user") /\ Goto(r, "held") /\ Connect(r)
     \/ /\ Asks(r, "create ticket")
        /\ \/ ReferenceHolds(r) /\ Goto(r, "held") /\ Connect(r)
           \/ ~ ReferenceHolds(r) /\ Respond(r, "not found")
     \/ /\ Asks(r, "patch")
        /\ \/ ~ Updates(r) /\ Goto(r, "commit") /\ Connect(r)
           \/ /\ Updates(r)
              /\ life[subject[r]] # "stored"
              /\ Respond(r, "failed")
           \/ /\ Updates(r)
              /\ ~ HasNull(r)
              /\ life[subject[r]] = "stored"
              /\ Goto(r, "held")
              /\ Connect(r)
     \/ Asks(r, "delete") /\ Goto(r, "held") /\ Connect(r)
  /\ UNCHANGED loaded
  /\ Reading(r)

Duplicate(r) ==
  /\ SetsEmail(r)
  /\ \E u \in User \ {subject[r]} :
       life[u] = "stored" /\ row[u]["key"] = req[r].change["key"]

(* The other half: the unique index, or the tickets of a deleted user.      *)
Constrain(r) ==
  /\ pc[r] = "held"
  /\ Blockers(r) = {}
  /\ \/ Duplicate(r) /\ Respond(r, "conflict")
     \/ ~ Duplicate(r) /\ Goto(r, "commit") /\ UNCHANGED conn
  /\ UNCHANGED loaded
  /\ Reading(r)
-----------------------------------------------------------------------------
(* Mutant: the whole loaded row is written back, not its changed columns.   *)
WholeRow(r) ==
  [c \in Column |-> IF c \in DOMAIN req[r].change THEN req[r].change[c] ELSE loaded[r][c]]

Patched(r) ==
  [c \in Column |-> IF c \in Written(r) THEN req[r].change[c] ELSE row[subject[r]][c]]

(* Mutant: the foreign key has no ON DELETE SET NULL.                       *)
OwnersKept(u) == [t \in Ticket |-> IF t = u THEN Null ELSE owner[t]]

OwnersWithout(u) == [t \in Ticket |-> IF owner[t] = u THEN Null ELSE owner[t]]

Update(r) ==
  /\ Asks(r, "patch")
  /\ row' = [row EXCEPT ![subject[r]] = Patched(r)]
  /\ UNCHANGED <<life, owner, subject>>

(* default=uuid4: an identifier nobody had before.  It is drawn with the    *)
(* INSERT and seen by nobody before the commit.                             *)
Insert(r, i) ==
  /\ life[i] = "new"
  /\ life' = [life EXCEPT ![i] = "stored"]
  /\ row' = [row EXCEPT ![i] = req[r].change]
  /\ subject' = [subject EXCEPT ![r] = i]
  /\ \/ Asks(r, "create user") /\ i \in User /\ UNCHANGED owner
     \/ /\ Asks(r, "create ticket")
        /\ i \in Ticket
        /\ owner' = [owner EXCEPT ![i] = req[r].id]

Delete(r) ==
  /\ Asks(r, "delete")
  /\ life' = [life EXCEPT ![subject[r]] = "deleted"]
  /\ owner' = OwnersWithout(subject[r])
  /\ UNCHANGED <<row, subject>>

Apply(r) == Update(r) \/ (\E i \in Id : Insert(r, i)) \/ Delete(r)

(* Read by properties only: who is told that r wrote their row.             *)
Notice(r) ==
  overwritten' =
    [s \in Request |->
       IF /\ s # r /\ subject[s] = subject[r] /\ Asks(r, "patch")
          /\ pc[s] \in {"flush", "held", "commit", "refresh"}
       THEN overwritten[s] \cup DOMAIN req[r].change
       ELSE overwritten[s]]

AfterCommit(r) == IF Asks(r, "create ticket") THEN "publish" ELSE "refresh"

Commit(r) ==
  /\ pc[r] = "commit"
  /\ \/ /\ Apply(r) /\ Notice(r)
        /\ \/ Asks(r, "delete") /\ Respond(r, "ok")
           \/ ~ Asks(r, "delete") /\ Goto(r, AfterCommit(r)) /\ Disconnect(r)
           \/ Respond(r, "failed")
     \/ Respond(r, "failed") /\ UNCHANGED <<tables, subject, overwritten>>
  /\ UNCHANGED <<req, loaded>>

(* ticket.created and the analysis job; TicketAnalysis has them in detail.  *)
Publish(r) ==
  /\ pc[r] = "publish"
  /\ \/ Goto(r, "refresh") /\ UNCHANGED conn
     \/ Respond(r, "failed")
  /\ UNCHANGED loaded
  /\ Reading(r)

(* refresh raises if the row is gone by now.                                *)
Refresh(r) ==
  /\ pc[r] = "refresh"
  /\ Available(r)
  /\ Respond(r, IF life[subject[r]] # "stored" THEN "failed"
                ELSE IF Servable(subject[r]) THEN "ok" ELSE "unserved")
  /\ UNCHANGED loaded
  /\ Reading(r)

(* Mutant: every error of the database is taken for a duplicate.            *)
FailAsConflict(r) == Respond(r, "conflict") /\ UNCHANGED loaded /\ Reading(r)

Fail(r) == Respond(r, "failed") /\ UNCHANGED loaded /\ Reading(r)

(* A statement or the database fails, a connection is not to be had within  *)
(* the pool's timeout, or the API process dies.                             *)
Abort(r) == pc[r] \notin {"idle", "done"} /\ Fail(r)

(* Requests that wait for one another in a ring: two e-mails being swapped. *)
(* PostgreSQL's deadlock detector ends one of them.                         *)
Deadlocked(r) ==
  \E S \in SUBSET Request :
    r \in S /\ \A s \in S : Blockers(s) \cap S # {} /\ \E t \in S : s \in Blockers(t)

BreakDeadlock(r) == Deadlocked(r) /\ Fail(r)
-----------------------------------------------------------------------------
Serve(r) ==
  \/ Load(r)
  \/ RefuseNull(r)
  \/ Flush(r)
  \/ Constrain(r)
  \/ Commit(r)
  \/ Publish(r)
  \/ Refresh(r)

Next ==
  \E r \in Request :
    \/ \E o \in Operation : Receive(r, o)
    \/ Serve(r)
    \/ Abort(r)
    \/ BreakDeadlock(r)

Spec == Init /\ [][Next]_vars
-----------------------------------------------------------------------------
(* No two users have the same e-mail address, however requests race for it  *)
(* and whatever their sessions read (UserService lets the index decide).    *)
EmailsUnique == Unique(life, row)

(* A ticket names a customer who exists or none, although create looks the  *)
(* user up before it inserts, and users are deleted meanwhile.              *)
CustomersExist == Owned(life, owner)

(* The directory stays sound however the requests that write it interleave. *)
DirectoryIsSound == EmailsUnique /\ CustomersExist

(* A committed PATCH is not lost: until the request answers, the row holds  *)
(* every value it asked for, but for columns another request asked to write *)
(* since this one read the row.  Two forms that change different columns of *)
(* one row both survive.                                                    *)
PatchesSurvive ==
  \A r \in Request :
    pc[r] = "refresh" /\ Asks(r, "patch") /\ life[subject[r]] = "stored" =>
      \A c \in DOMAIN req[r].change \ overwritten[r] :
        row[subject[r]][c] = req[r].change[c]

(* A refusal says the truth at the moment it is given: not found means the  *)
(* row is not there, a conflict that another user has the address.  An      *)
(* explicit null is the exception: UserService reports it as a conflict.    *)
RefusalIsTrue(r) ==
  /\ answer'[r] = "not found" => life[req[r].id] # "stored"
  /\ answer'[r] = "conflict" /\ ~ HasNull(r) =>
       \E u \in User \ {subject[r]} :
         life[u] = "stored" /\ row[u]["key"] = req[r].change["key"]

RefusalsAreTrue == [][\A r \in Request : answer'[r] # answer[r] => RefusalIsTrue(r)]_vars

(* Deleting a user preserves the tickets, so they can still be read.        *)
TicketsAreServed ==
  \A r \in Request : req[r].kind \in {"read", "list"} => answer[r] # "unserved"
=============================================================================
