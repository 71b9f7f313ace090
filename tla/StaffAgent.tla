------------------------------ MODULE StaffAgent ------------------------------
(***************************************************************************)
(* POST /tickets/{ticket_id}/agent/ask of the local demo: the staff gate,  *)
(* the ticket read, one or two turns of the Gemini model and at most one   *)
(* lookup of an order's payments, while Customers serves other requests    *)
(* over the same tables and the same connection pool.                      *)
(*                                                                         *)
(* The session that read the ticket is not committed before the request    *)
(* ends, so an ask keeps its connection, and what it knows of the ticket,  *)
(* over both calls of the model.  The payment lookup itself reads a table  *)
(* in memory: nothing runs between the model's first turn and its second.  *)
(***************************************************************************)
EXTENDS Customers

CONSTANTS
  Order,    \* orders the payment source knows
  Unsold,   \* order ids it does not know
  Buyer,    \* Buyer[o]: the customer of order o
  Allowed   \* demo_staff_ticket_ids

Peer == {"loopback", "other"}

ASSUME AgentAssumption ==
  /\ Buyer \in [Order -> User]
  /\ Allowed \subseteq Ticket
  /\ Null \notin Order \cup Unsold \cup Peer

VARIABLES
  stage,     \* stage[a]: the next thing ask a does
  about,     \* about[a]: the ticket of its path
  peer,      \* peer[a]: where it comes from
  customer,  \* customer[a]: context.ticket.user_id
  turns,     \* turns[a]: calls of the model
  looked,    \* looked[a]: calls of the tool's dispatcher
  told,      \* told[a]: the tool result sent to the model
  reply      \* reply[a]: the HTTP response

agent == <<stage, about, peer, customer, turns, looked, told, reply>>
allVars == <<vars, agent>>

ToolError ==
  {"unknown_tool", "invalid_arguments", "access_denied", "source_unavailable"}
Result == [status : {"found", "not_found"}, order : Order \cup Unsold]
            \cup [status : ToolError, order : {Null}]
Nothing == [status |-> "none", order |-> Null]

Reply == {"none", "200", "403", "404", "422", "500", "502", "504"}

AgentTypeOK ==
  /\ TypeOK
  /\ stage \in [Ask -> {"idle", "context", "start", "finish", "done"}]
  /\ about \in [Ask -> Ticket \cup {Null}]
  /\ peer \in [Ask -> Peer \cup {Null}]
  /\ customer \in [Ask -> User \cup {Null}]
  /\ turns \in [Ask -> 0 .. 2]
  /\ looked \in [Ask -> 0 .. 1]
  /\ told \in [Ask -> Result \cup {Nothing}]
  /\ reply \in [Ask -> Reply]

AgentInit ==
  /\ Init
  /\ stage = [a \in Ask |-> "idle"]
  /\ about = [a \in Ask |-> Null]
  /\ peer = [a \in Ask |-> Null]
  /\ customer = [a \in Ask |-> Null]
  /\ turns = [a \in Ask |-> 0]
  /\ looked = [a \in Ask |-> 0]
  /\ told = [a \in Ask |-> Nothing]
  /\ reply = [a \in Ask |-> "none"]
-----------------------------------------------------------------------------
Move(a, to) == stage' = [stage EXCEPT ![a] = to] /\ UNCHANGED reply

Reject(a, code) ==
  /\ stage' = [stage EXCEPT ![a] = "done"]
  /\ reply' = [reply EXCEPT ![a] = code]

(* Mutant: the peer's address is not looked at.                             *)
AdmittedByTicket(t, p) == t \in Allowed /\ p \in Peer

(* DemoStaffAuth.authenticate and DemoTicketAccess.require, in the local    *)
(* demo; elsewhere main.py does not register the route.                     *)
Admitted(t, p) == p = "loopback" /\ t \in Allowed

(* The dependencies run in the order of their signatures: the gates before  *)
(* any query and before the model.  Only a body that is no JSON is refused  *)
(* before them.                                                             *)
Enter(a, t, p) ==
  /\ stage[a] = "idle"
  /\ about' = [about EXCEPT ![a] = t]
  /\ peer' = [peer EXCEPT ![a] = p]
  /\ \/ Admitted(t, p) /\ Move(a, "context")
     \/ ~ Admitted(t, p) /\ Reject(a, "403")
     \/ Reject(a, "422")
  /\ UNCHANGED <<tables, request, conn, customer, turns, looked, told>>

(* get_demo_tool_context, then the construction of the model's client and   *)
(* the validation of the message.                                           *)
LoadContext(a) ==
  LET t == about[a] IN
  /\ stage[a] = "context"
  /\ Available(a)
  /\ \/ /\ life[t] = "stored"
        /\ customer' = [customer EXCEPT ![a] = owner[t]]
        /\ \/ Move(a, "start") /\ Connect(a)
           \/ Reject(a, "422") /\ Disconnect(a)
     \/ /\ life[t] # "stored"
        /\ Reject(a, "404")
        /\ Disconnect(a)
        /\ UNCHANGED customer
  /\ UNCHANGED <<tables, request, about, peer, turns, looked, told>>

(* Mutant: the order's customer is not compared with the ticket's.          *)
LookupOfAnyone(o, c) ==
  IF o \in Unsold THEN [status |-> "not_found", order |-> o]
                  ELSE [status |-> "found", order |-> o]

(* OrderPaymentsService.get_order_payments for a ticket of customer c.      *)
Lookup(o, c) ==
  IF c = Null \/ (o \in Order /\ Buyer[o] # c)
  THEN [status |-> "access_denied", order |-> Null]
  ELSE [status |-> IF o \in Order THEN "found" ELSE "not_found", order |-> o]

ErrorResult(code) == [status |-> code, order |-> Null]

(* StaffToolDispatcher.dispatch: whatever the model asked for, the customer *)
(* is the one of the loaded ticket.  Only a source other than the demo's    *)
(* can be unavailable.                                                      *)
Dispatched(c) ==
  {Lookup(o, c) : o \in Order \cup Unsold}
    \cup {ErrorResult(code) : code \in ToolError \ {"access_denied"}}

Failure == {"502", "504"}

CountTurn(a) == turns' = [turns EXCEPT ![a] = @ + 1]

(* AgentService.answer up to the second call.  A call that fails, a reply   *)
(* without content, without text, or with several tool calls ends the ask.  *)
StartModel(a) ==
  /\ stage[a] = "start"
  /\ CountTurn(a)
  /\ \/ /\ \E code \in Failure \cup {"200"} : Reject(a, code)
        /\ Disconnect(a)
        /\ UNCHANGED <<looked, told>>
     \/ /\ \E result \in Dispatched(customer[a]) : told' = [told EXCEPT ![a] = result]
        /\ looked' = [looked EXCEPT ![a] = @ + 1]
        /\ Move(a, "finish")
        /\ UNCHANGED conn
  /\ UNCHANGED <<tables, request, about, peer, customer>>

(* Mutant: the model may call the tool again.                               *)
FinishWithTool(a) ==
  /\ stage[a] = "finish"
  /\ CountTurn(a)
  /\ \E result \in Dispatched(customer[a]) : told' = [told EXCEPT ![a] = result]
  /\ UNCHANGED <<tables, request, conn, stage, about, peer, customer, looked, reply>>

(* The second turn: a further tool call is an invalid response.             *)
FinishModel(a) ==
  /\ stage[a] = "finish"
  /\ CountTurn(a)
  /\ \E code \in Failure \cup {"200"} : Reject(a, code)
  /\ Disconnect(a)
  /\ UNCHANGED <<tables, request, about, peer, customer, looked, told>>

(* The query fails, the pool's timeout ends the wait for a connection, the  *)
(* model's client cannot be built, or the API process dies.                 *)
AbortAsk(a) ==
  /\ stage[a] \notin {"idle", "done"}
  /\ Reject(a, "500")
  /\ Disconnect(a)
  /\ UNCHANGED <<tables, request, about, peer, customer, turns, looked, told>>
-----------------------------------------------------------------------------
ServeAsk(a) == LoadContext(a) \/ StartModel(a) \/ FinishModel(a)

AgentNext ==
  \/ Next /\ UNCHANGED agent
  \/ \E a \in Ask :
       (\E t \in Ticket, p \in Peer : Enter(a, t, p)) \/ ServeAsk(a) \/ AbortAsk(a)

AgentSpec == AgentInit /\ [][AgentNext]_allVars

(* PostgreSQL and the event loop go on serving what was begun, the deadlock *)
(* detector breaks rings, and wait_for bounds both calls of the model; no   *)
(* failure and no timeout of the pool is assumed.                           *)
AgentFairSpec ==
  /\ AgentSpec
  /\ \A r \in Request : WF_vars(Serve(r)) /\ WF_vars(BreakDeadlock(r))
  /\ \A a \in Ask : WF_allVars(ServeAsk(a))
-----------------------------------------------------------------------------
(* Neither the database nor the model is reached by a request that is not   *)
(* from this machine or not about an allowed ticket ("Gate DB reads and     *)
(* model creation before loading ticket context", demo_staff.py).           *)
ReadsAreGated ==
  \A a \in Ask : a \in conn \/ turns[a] > 0 =>
    peer[a] = "loopback" /\ about[a] \in Allowed

(* The payments told to the model are those of the customer of the ticket,  *)
(* whatever the model asked for.  The ticket was read before the model      *)
(* thought, and its customer may be gone by now, but it is never a          *)
(* different one: the context cannot come to be about somebody else.        *)
PaymentsStayWithCustomer ==
  \A a \in Ask :
    told[a].status = "found" =>
      /\ Buyer[told[a].order] = customer[a]
      /\ owner[about[a]] \in {customer[a], Null}

(* The assistant reads for an admitted request only, and about its ticket's *)
(* customer only.                                                           *)
ReadsAreConfined == ReadsAreGated /\ PaymentsStayWithCustomer

InTransaction(r) == Flushed(r) \/ (pc[r] = "flush" /\ ~ Asks(r, "create user"))

Thinking(a) == stage[a] \in {"start", "finish"}

(* A connection is out of the pool exactly while a transaction is open: from*)
(* a request's first row to its commit, and from an ask's ticket to its     *)
(* last turn.  No answer, refusal, failure or deadlock leaks one, and a     *)
(* request that waits between two transactions sits on none.                *)
ConnectionsAreReturned ==
  /\ Cardinality(conn) <= Pool
  /\ \A r \in Request : r \in conn <=> InTransaction(r)
  /\ \A a \in Ask : a \in conn <=> Thinking(a)

(* Only requests that set a stored user's e-mail ever wait in a ring, so the*)
(* deadlock detector never fails a creation, a deletion, a rename or a      *)
(* ticket's request, whatever foreign keys and cascades they lock.          *)
RingsAreSwaps ==
  \A r \in Request :
    Deadlocked(r) => pc[r] = "held" /\ Asks(r, "patch") /\ SetsEmail(r)

(* What is begun can go on: it waits for no lock and has, or can have, its  *)
(* connection.                                                              *)
CanGoOn(r) ==
  \/ pc[r] \in {"commit", "publish"}
  \/ pc[r] \in {"load", "refresh"} /\ Available(r)
  \/ pc[r] = "flush" /\ Available(r) /\ Blockers(r) = {}
  \/ pc[r] = "held" /\ Blockers(r) = {}

AskCanGoOn(a) == Thinking(a) \/ (stage[a] = "context" /\ Available(a))

(* Row locks, index entries, cascades and the connections of the pool never *)
(* have everybody wait for everybody: while something is unanswered, some   *)
(* request or ask can go on, or a ring is there for the detector to break.  *)
SomebodyCanGoOn ==
  \/ \E r \in Request : CanGoOn(r) \/ Deadlocked(r)
  \/ \E a \in Ask : AskCanGoOn(a)
  \/ /\ \A r \in Request : pc[r] \in {"idle", "done"}
     /\ \A a \in Ask : stage[a] \in {"idle", "done"}

(* Every request and every ask is answered: row locks, e-mails being        *)
(* swapped, and asks that keep connections of the pool while the model      *)
(* works delay the others, and never for ever.                              *)
EverythingIsAnswered ==
  /\ \A r \in Request : pc[r] # "idle" ~> pc[r] = "done"
  /\ \A a \in Ask : stage[a] # "idle" ~> stage[a] = "done"
=============================================================================
