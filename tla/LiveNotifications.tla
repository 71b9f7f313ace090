-------------------------- MODULE LiveNotifications --------------------------
(***************************************************************************)
(* Live notification of staff that watch a ticket: the notifications group *)
(* of EventConsumer publishes to a Redis channel, the API's listener       *)
(* (listen_notifications) reads it and broadcasts to the WebSockets its    *)
(* TicketConnectionManager has for the ticket.  The analyses themselves    *)
(* come from TicketAnalysis and are read with GET .../analysis.            *)
(*                                                                         *)
(* A socket stands for one connection of a browser, which reads the        *)
(* analysis after it is connected, as the API asks of it.  Every socket    *)
(* the listener sends to is awaited, so sockets come and go in between.    *)
(***************************************************************************)
EXTENDS EventConsumer

CONSTANTS
  Socket,   \* connections, each used once
  Watched,  \* Watched[s]: the ticket in the path of socket s
  Home,     \* Home[k]: the partition the key of ticket k selects
  Invalid,  \* a channel message decode_notification rejects
  MaxBuffer \* bound on the unread messages of the subscription

ASSUME WatchedAssumption == Watched \in [Socket -> Ticket]

ASSUME HomeAssumption == Home \in [Ticket -> Completed]

ASSUME InvalidAssumption == Invalid \notin Ticket

ASSUME NotifierAssumption == Notifier \in Group

VARIABLES
  saved,      \* tickets with a committed analysis
  listening,  \* Redis has the listener's subscription
  buffer,     \* messages of the subscription the listener has not read
  targets,    \* sockets the current broadcast has yet to send to
  open,       \* sockets connected and not closed by their browser
  used,       \* sockets that were ever connected
  registered, \* _connections: sockets the manager broadcasts to
  informed,   \* sockets whose browser knows that the analysis is there
  covered,    \* sockets that read the analysis under the present subscription
  dropped     \* sockets a send to which failed or timed out

browser == <<open, used, informed, covered, dropped>>
api == <<listening, buffer, targets, registered>>
live == <<saved, api, browser>>
vars == <<eventVars, live>>

LiveTypeOK ==
  /\ TypeOK
  /\ saved \subseteq Ticket
  /\ listening \in BOOLEAN
  /\ buffer \in Seq(Ticket \cup {Invalid})
  /\ targets \subseteq used
  /\ open \subseteq used
  /\ used \subseteq Socket
  /\ registered \subseteq used
  /\ informed \subseteq used
  /\ covered \subseteq used
  /\ dropped \subseteq used

Init ==
  /\ EventInit
  /\ saved = {}
  /\ listening = FALSE
  /\ buffer = <<>>
  /\ targets = {}
  /\ open = {}
  /\ used = {}
  /\ registered = {}
  /\ informed = {}
  /\ covered = {}
  /\ dropped = {}
-----------------------------------------------------------------------------
(* The ticket worker commits an analysis and announces it, perhaps more     *)
(* than once (TicketAnalysis).                                              *)
Save(k) ==
  /\ saved' = saved \cup {k}
  /\ k \notin saved
  /\ UNCHANGED <<eventVars, api, browser>>

Announce(k) ==
  /\ k \in saved
  /\ Produce(Home[k], k)
  /\ UNCHANGED live

(* PUBLISH: Redis hands a message to the subscription, if there is one.     *)
Publish(m) ==
  /\ listening => Len(buffer) < MaxBuffer
  /\ buffer' = IF listening THEN Append(buffer, m) ELSE buffer
  /\ UNCHANGED <<saved, listening, targets, registered, browser>>

(* The notifications group handles a record; only analysis.completed goes   *)
(* to Redis.                                                                *)
Notify(g) ==
  /\ Handle(g)
  /\ IF Publishes(g) THEN Publish(Record(g)) ELSE UNCHANGED live

NotifyUnconfirmed(g) == PublishUnconfirmed(g) /\ Publish(Record(g))

(* Somebody else publishes to the channel, and leaves room in the buffer.   *)
PublishForeign ==
  /\ Len(buffer) + 1 < MaxBuffer
  /\ Publish(Invalid)
  /\ UNCHANGED eventVars

Consume(g) == Work(g) /\ UNCHANGED live
-----------------------------------------------------------------------------
(* pubsub.subscribe, first or again after an error.                         *)
Subscribe ==
  /\ ~ listening
  /\ targets = {}
  /\ buffer = <<>>
  /\ listening' = TRUE
  /\ UNCHANGED <<eventVars, saved, buffer, targets, registered, browser>>

(* Redis or the connection to it goes away.                                 *)
LoseSubscription ==
  /\ listening
  /\ listening' = FALSE
  /\ covered' = {}
  /\ UNCHANGED <<eventVars, saved, buffer, targets, registered, open, used, informed, dropped>>

(* get_message raises; what was not read is gone with the subscription.     *)
NoticeLoss ==
  /\ ~ listening
  /\ targets = {}
  /\ buffer # <<>>
  /\ buffer' = <<>>
  /\ UNCHANGED <<eventVars, saved, listening, targets, registered, browser>>

Watchers(k) == {s \in registered : Watched[s] = k}

(* get_message, decode_notification and the snapshot broadcast iterates.    *)
Receive ==
  /\ targets = {}
  /\ buffer # <<>>
  /\ buffer' = Tail(buffer)
  /\ targets' = IF Head(buffer) = Invalid THEN {} ELSE Watchers(Head(buffer))
  /\ UNCHANGED <<eventVars, saved, listening, registered, browser>>

(* send_json succeeds.                                                      *)
Send(s) ==
  /\ s \in targets
  /\ targets' = targets \ {s}
  /\ informed' = informed \cup ({s} \cap open)
  /\ UNCHANGED
       <<eventVars, saved, listening, buffer, registered, open, used, covered, dropped>>

(* Mutant: the whole entry of the ticket goes with one of its sockets.      *)
UnregisterTicket(s) == registered' = {x \in registered : Watched[x] # Watched[s]}

(* TicketConnectionManager.disconnect                                       *)
Unregister(s) == registered' = registered \ {s}

(* Mutant: a failed send ends the broadcast.                                *)
NoneLeft(s) == targets \ Socket

LeftAfterFailure(s) == targets \ {s}

(* send_json fails or takes longer than two seconds: the socket is dropped  *)
(* from the manager but stays as it is.  The message may have been written. *)
SendFails(s) ==
  /\ s \in targets
  /\ targets' = LeftAfterFailure(s)
  /\ Unregister(s)
  /\ informed' \in {informed, informed \cup ({s} \cap open)}
  /\ dropped' = dropped \cup {s}
  /\ UNCHANGED <<eventVars, saved, listening, buffer, open, used, covered>>

(* Any other exception of a send ends the broadcast and the subscription.   *)
SendRaises(s) ==
  /\ s \in targets
  /\ targets' = {}
  /\ buffer' = <<>>
  /\ listening' = FALSE
  /\ covered' = {}
  /\ UNCHANGED <<eventVars, saved, registered, open, used, informed, dropped>>
-----------------------------------------------------------------------------
(* The endpoint let the browser in and registered its socket.               *)
Connect(s) ==
  /\ s \notin used
  /\ used' = used \cup {s}
  /\ open' = open \cup {s}
  /\ registered' = registered \cup {s}
  /\ UNCHANGED <<eventVars, saved, listening, buffer, targets, informed, covered, dropped>>

(* GET /api/v1/tickets/{ticket_id}/analysis on connection.                  *)
Read(s) ==
  /\ s \in open
  /\ informed' = IF Watched[s] \in saved THEN informed \cup {s} ELSE informed
  /\ covered' = IF listening THEN covered \cup {s} ELSE covered
  /\ UNCHANGED <<eventVars, saved, api, open, used, dropped>>

(* The browser goes away; the endpoint learns of it later.                  *)
Close(s) ==
  /\ s \in open
  /\ open' = open \ {s}
  /\ UNCHANGED <<eventVars, saved, api, used, informed, covered, dropped>>

(* WebSocketDisconnect of receive_text, and the finally of the endpoint.    *)
Disconnect(s) ==
  /\ s \in used \ open
  /\ s \in registered
  /\ Unregister(s)
  /\ UNCHANGED <<eventVars, saved, listening, buffer, targets, browser>>

(* The API process ends and starts again.                                   *)
RestartApi ==
  /\ open' = {}
  /\ registered' = {}
  /\ targets' = {}
  /\ buffer' = <<>>
  /\ listening' = FALSE
  /\ covered' = {}
  /\ UNCHANGED <<eventVars, saved, used, informed, dropped>>

Next ==
  \/ \E k \in Ticket : Save(k) \/ Announce(k)
  \/ \E p \in Partition, r \in Ticket \cup {Malformed} :
       (p \in Created \/ r = Malformed) /\ Produce(p, r) /\ UNCHANGED live
  \/ \E g \in Group : Notify(g) \/ NotifyUnconfirmed(g) \/ Consume(g)
  \/ PublishForeign \/ Subscribe \/ LoseSubscription \/ NoticeLoss \/ Receive
  \/ \E s \in Socket :
       Send(s) \/ SendFails(s) \/ SendRaises(s)
         \/ Connect(s) \/ Read(s) \/ Close(s) \/ Disconnect(s)
  \/ RestartApi

Spec == Init /\ [][Next]_vars

(* The consumer is as fair as in EventConsumer; the listener reads what it  *)
(* has, and every send ends (after two seconds at the latest).              *)
Fairness ==
  /\ \A g \in Group :
       /\ \A p \in Partition : SF_vars(Fetch(g, p) /\ UNCHANGED live)
       /\ SF_vars(Notify(g))
       /\ SF_vars(Commit(g) /\ UNCHANGED live)
       /\ WF_vars(Restart(g) /\ UNCHANGED live)
       /\ WF_vars(Quit(g) /\ UNCHANGED live)
  /\ WF_vars(Receive)
  /\ \A s \in Socket : WF_vars(Send(s) \/ SendFails(s) \/ SendRaises(s))

FairSpec == Spec /\ Fairness
-----------------------------------------------------------------------------
Announced(k) == \E o \in 1..Len(log[Home[k]]) : log[Home[k]][o] = k

(* The event of the ticket s watches is still before the notifications      *)
(* group, in the subscription, or in the broadcast under way.               *)
OnTheWay(s) ==
  LET k == Watched[s] IN
  \/ \E o \in 1..Len(log[Home[k]]) :
       log[Home[k]][o] = k /\ o \notin handled[Notifier][Home[k]]
  \/ \E i \in 1..Len(buffer) : buffer[i] = k
  \/ s \in targets

Reached(s) == Announced(Watched[s]) => s \in informed \/ OnTheWay(s)

(* A browser that reads the analysis once it is connected misses no         *)
(* announced analysis while the subscription lasts, whatever other browsers *)
(* do: what it did not read it is told, or will be, unless a send to it     *)
(* failed.                                                                  *)
WatchersAreReached ==
  \A s \in (open \cap covered) \ dropped : Reached(s)

(* And it does learn of it, unless the consumer is stopped or poisoned.     *)
WatchersAreInformed ==
  \A s \in Socket :
    (s \in covered /\ Announced(Watched[s])) ~>
      \/ s \in informed
      \/ s \notin (open \cap covered) \ dropped
      \/ Poisoned
      \/ worker[Notifier] = "stopped"

(* The README has the API forward each analysis.completed event to the      *)
(* clients watching the ticket.  A client whose send once took too long is  *)
(* forgotten while its connection stays open, and no later event is         *)
(* forwarded to it.                                                         *)
EachEventIsForwarded ==
  [][\A k \in Ticket :
       Receive /\ Head(buffer) = k => {s \in open : Watched[s] = k} \subseteq targets']_vars

(* Nobody else is missed: an event goes to every open socket of its ticket  *)
(* but those to which a send has failed.                                    *)
OnlyDroppedAreMissed ==
  [][\A k \in Ticket :
       Receive /\ Head(buffer) = k =>
         {s \in open \ dropped : Watched[s] = k} \subseteq targets']_vars

(* Redis, the listener and the browsers do not disturb the consumer groups. *)
ImplementsEventConsumer == EventSpec
=============================================================================
