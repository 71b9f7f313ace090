----------------------- MODULE LiveNotificationsProofs -----------------------
(***************************************************************************)
(* Theorems about LiveNotifications, for any tickets, sockets, partitions  *)
(* and consumer groups.                                                    *)
(***************************************************************************)
EXTENDS LiveNotifications, EventConsumerProofs

(* Neither Redis nor the API nor the browsers disturb the consumer groups:  *)
(* what EventConsumer promises of them holds in the whole.                  *)
THEOREM LiveImplementsEventConsumer == Spec => ImplementsEventConsumer
  <1>1. Init => EventInit
    BY DEF Init
  <1>2. [Next]_vars => [EventNext]_eventVars
    <2> SUFFICES ASSUME [Next]_vars PROVE EventNext \/ UNCHANGED eventVars
      OBVIOUS
    <2>1. CASE UNCHANGED vars
      BY <2>1 DEF vars
    <2>2. ASSUME NEW k \in Ticket, Announce(k) PROVE EventNext
      BY <2>2, HomeAssumption DEF Announce, EventNext, Partition
    <2>3. ASSUME NEW g \in Group, Notify(g) \/ NotifyUnconfirmed(g) \/ Consume(g)
          PROVE  EventNext
      BY <2>3 DEF Notify, NotifyUnconfirmed, Consume, EventNext
    <2>4. ASSUME NEW p \in Partition, NEW r \in Ticket \cup {Malformed}, Produce(p, r)
          PROVE  EventNext
      BY <2>4 DEF EventNext
    <2>5. ASSUME NEW k \in Ticket, Save(k) PROVE UNCHANGED eventVars
      BY <2>5 DEF Save
    <2>6. CASE PublishForeign \/ Subscribe \/ LoseSubscription \/ NoticeLoss \/ Receive \/ RestartApi
      BY <2>6 DEF PublishForeign, Subscribe, LoseSubscription, NoticeLoss, Receive, RestartApi
    <2>7. ASSUME NEW s \in Socket,
                 Send(s) \/ SendFails(s) \/ SendRaises(s)
                   \/ Connect(s) \/ Read(s) \/ Close(s) \/ Disconnect(s)
          PROVE  UNCHANGED eventVars
      BY <2>7 DEF Send, SendFails, SendRaises, Connect, Read, Close, Disconnect
    <2> QED
      BY <2>1, <2>2, <2>3, <2>4, <2>5, <2>6, <2>7 DEF Next
  <1> QED
    BY <1>1, <1>2, PTL DEF Spec, EventSpec, ImplementsEventConsumer
-----------------------------------------------------------------------------
LEMMA ConsumerFacts == Spec => [](TypeInv /\ Safe)
  BY LiveImplementsEventConsumer, TypeInvariant, SafeInvariant, PTL DEF ImplementsEventConsumer

LiveType ==
  /\ saved \subseteq Ticket
  /\ listening \in BOOLEAN
  /\ buffer \in Seq(Ticket \cup {Invalid})
  /\ targets \subseteq used
  /\ open \subseteq used
  /\ used \subseteq Socket
  /\ registered \subseteq used
  /\ informed \subseteq used
  /\ covered \subseteq used
  /\ dropped \subseteq used

LEMMA RecordType ==
  ASSUME TypeInv, Safe, NEW g \in Group, pc[g] = "handle", Decodable(g)
  PROVE  Record(g) \in Ticket
  <1>1. PICK q \in Partition : q = at[g]
    BY DEF TypeInv
  <1>2. offset[g] \in 1..Len(log[q])
    BY <1>1 DEF Safe, Working, PositionOK, InHand, HandOK
  <1>3. log[q] \in Seq(Ticket \cup {Malformed})
    BY DEF TypeInv, TypeOK
  <1>4. log[q][offset[g]] \in Ticket \cup {Malformed}
    BY <1>2, <1>3
  <1> QED
    BY <1>1, <1>4 DEF Decodable, Record

LEMMA PublishType ==
  ASSUME LiveType, NEW m \in Ticket \cup {Invalid}, Publish(m)
  PROVE  LiveType'
  <1>1. buffer' \in Seq(Ticket \cup {Invalid})
    BY DEF LiveType, Publish
  <1> QED
    BY <1>1 DEF LiveType, Publish, browser

LEMMA LiveTypeInvariant == Spec => []LiveType
  <1>0. <<>> \in Seq(Ticket \cup {Invalid})
    OBVIOUS
  <1>1. Init => LiveType
    BY <1>0 DEF Init, LiveType
  <1>2. ASSUME LiveType, TypeInv, Safe, [Next]_vars PROVE LiveType'
    <2> USE <1>2
    <2>1. CASE UNCHANGED live
      BY <2>1 DEF live, api, browser, LiveType
    <2>2. ASSUME NEW k \in Ticket, Save(k) \/ Announce(k) PROVE LiveType'
      BY <2>1, <2>2 DEF Save, Announce, api, browser, LiveType
    <2>3. ASSUME NEW g \in Group, Notify(g) \/ NotifyUnconfirmed(g) \/ Consume(g)
          PROVE  LiveType'
      <3>1. CASE (Handle(g) \/ PublishUnconfirmed(g)) /\ Publish(Record(g))
        BY <3>1, RecordType, PublishType DEF Handle, PublishUnconfirmed
      <3> QED
        BY <2>1, <2>3, <3>1 DEF Notify, NotifyUnconfirmed, Consume
    <2>4. CASE PublishForeign
      BY <2>4, PublishType DEF PublishForeign
    <2>5. CASE Subscribe \/ LoseSubscription \/ NoticeLoss \/ RestartApi
      <3>1. buffer' \in Seq(Ticket \cup {Invalid})
        BY <1>0, <2>5 DEF Subscribe, LoseSubscription, NoticeLoss, RestartApi, LiveType
      <3> QED
        BY <2>5, <3>1
           DEF Subscribe, LoseSubscription, NoticeLoss, RestartApi, browser, LiveType
    <2>6. CASE Receive
      <3>1. buffer' \in Seq(Ticket \cup {Invalid})
        BY <2>6 DEF Receive, LiveType
      <3>2. targets' \subseteq used
        BY <2>6 DEF Receive, Watchers, LiveType
      <3> QED
        BY <2>6, <3>1, <3>2 DEF Receive, browser, LiveType
    <2>7. ASSUME NEW s \in Socket, Send(s) \/ SendFails(s) \/ SendRaises(s)
          PROVE  LiveType'
      <3>1. buffer' \in Seq(Ticket \cup {Invalid})
        BY <1>0, <2>7 DEF Send, SendFails, SendRaises, LiveType
      <3>2. s \in used
        BY <2>7 DEF Send, SendFails, SendRaises, LiveType
      <3>3. CASE Send(s)
        BY <3>1, <3>2, <3>3 DEF Send, LiveType
      <3>4. CASE SendFails(s)
        BY <3>1, <3>2, <3>4 DEF SendFails, Unregister, LeftAfterFailure, LiveType
      <3>5. CASE SendRaises(s)
        BY <3>1, <3>2, <3>5 DEF SendRaises, LiveType
      <3> QED
        BY <2>7, <3>3, <3>4, <3>5
    <2>8. ASSUME NEW s \in Socket, Connect(s) \/ Read(s) \/ Close(s) \/ Disconnect(s)
          PROVE  LiveType'
      BY <2>8 DEF Connect, Read, Close, Disconnect, Unregister, api, browser, LiveType
    <2> QED
      BY <2>1, <2>2, <2>3, <2>4, <2>5, <2>6, <2>7, <2>8 DEF Next, vars
  <1> QED
    BY ConsumerFacts, <1>1, <1>2, PTL DEF Spec

(* Every reachable state of live notification is well typed.                *)
THEOREM LiveTypeCorrect == Spec => []LiveTypeOK
  <1>1. TypeInv /\ LiveType => LiveTypeOK
    BY DEF TypeInv, LiveType, LiveTypeOK
  <1> QED
    BY ConsumerFacts, LiveTypeInvariant, <1>1, PTL
-----------------------------------------------------------------------------
(* A browser is covered only by a subscription that lasts, every open       *)
(* socket is registered unless a send to it failed, and only saved analyses *)
(* are announced.                                                           *)
CoverOK == covered # {} => listening

RegistryOK == open \ dropped \subseteq registered

AnnouncedOK == \A k \in Ticket : Announced(k) => k \in saved

Watching(s) == s \in (open \cap covered) \ dropped

LiveSafe == CoverOK /\ RegistryOK /\ AnnouncedOK /\ WatchersAreReached

(* The event stays on the way while nothing in front of s is lost.          *)
LEMMA StillReached ==
  ASSUME NEW s \in Socket, Reached(s), log' = log, handled'[Notifier] = handled[Notifier],
         informed \subseteq informed',
         s \in targets => s \in targets' \/ s \in informed',
         \A i \in 1..Len(buffer) :
           buffer[i] = Watched[s] =>
             s \in targets' \/ \E j \in 1..Len(buffer') : buffer'[j] = Watched[s]
  PROVE  Reached(s)'
  <1> SUFFICES ASSUME Announced(Watched[s])', s \notin informed' PROVE OnTheWay(s)'
    BY DEF Reached
  <1>1. OnTheWay(s)
    BY DEF Reached, Announced
  <1> QED
    BY <1>1 DEF OnTheWay

LEMMA AnnouncedKept ==
  ASSUME AnnouncedOK, log' = log, saved \subseteq saved'
  PROVE  AnnouncedOK'
  BY DEF AnnouncedOK, Announced

(* A watcher has its ticket's event in the subscription once the            *)
(* notifications group handled it.                                          *)
LEMMA PublishReaches ==
  ASSUME TypeInv, LiveType, LiveSafe, NEW g \in Group, NEW s \in Socket, Watching(s)',
         Handled(g), pc[g] # "fetch", log' = log, Publish(Record(g)), Publishes(g)
  PROVE  Reached(s)'
  <1>1. Watching(s) /\ listening /\ Reached(s)
    BY DEF Watching, Publish, browser, LiveSafe, CoverOK, WatchersAreReached
  <1>2. buffer' = Append(buffer, Record(g)) /\ UNCHANGED <<targets, informed>>
    BY <1>1 DEF Publish, browser
  <1>3. /\ Len(buffer') = Len(buffer) + 1 /\ Len(buffer) \in Nat
        /\ \A i \in 1..Len(buffer) : i \in 1..Len(buffer') /\ buffer'[i] = buffer[i]
        /\ Len(buffer') \in 1..Len(buffer') /\ buffer'[Len(buffer')] = Record(g)
    <2>1. buffer \in Seq(Ticket \cup {Invalid, Record(g)})
      BY DEF LiveType
    <2> QED
      BY <1>2, <2>1
  <1> SUFFICES ASSUME Announced(Watched[s])', s \notin informed' PROVE OnTheWay(s)'
    BY DEF Reached
  <1> DEFINE k == Watched[s]
             h == Home[k]
  <1>4. k \in Ticket /\ h \in Partition /\ h \in Completed
    BY WatchedAssumption, HomeAssumption DEF Partition
  <1>5. OnTheWay(s)
    BY <1>1, <1>2 DEF Reached, Announced
  <1>6. CASE \E i \in 1..Len(buffer) : buffer[i] = k
    BY <1>3, <1>6 DEF OnTheWay
  <1>7. CASE s \in targets
    BY <1>2, <1>7 DEF OnTheWay
  <1>8. ASSUME NEW o \in 1..Len(log[h]), log[h][o] = k, o \notin handled[Notifier][h]
        PROVE  OnTheWay(s)'
    <2>1. PICK q \in Partition : q = at[g]
      BY DEF TypeInv
    <2>2. g = Notifier
      BY DEF Publishes
    <2>3. /\ handled'[g][q] = handled[g][q] \cup {offset[g]}
          /\ \A p \in Partition \ {q} : handled'[g][p] = handled[g][p]
      BY <2>1 DEF Handled, TypeInv, TypeOK
    <2>4. CASE q = h /\ offset[g] = o
      <3>1. Record(g) = k
        BY <1>8, <2>1, <2>4 DEF Decodable, Record
      <3> QED
        BY <1>3, <3>1 DEF OnTheWay
    <2>5. CASE ~ (q = h /\ offset[g] = o)
      <3>1. o \notin handled'[Notifier][h]
        BY <1>4, <1>8, <2>2, <2>3, <2>5
      <3> QED
        BY <1>8, <3>1 DEF OnTheWay
    <2> QED
      BY <2>4, <2>5
  <1> QED
    BY <1>5, <1>6, <1>7, <1>8 DEF OnTheWay

(* Handling anything but an announcement concerns no watcher.               *)
LEMMA OtherHandled ==
  ASSUME TypeInv, LiveType, LiveSafe, NEW g \in Group, NEW s \in Socket, Watching(s)',
         Handled(g), pc[g] # "fetch", log' = log, UNCHANGED live, ~ Publishes(g)
  PROVE  Reached(s)'
  <1>1. Watching(s) /\ Reached(s) /\ UNCHANGED <<buffer, targets, informed>>
    BY DEF Watching, live, api, browser, LiveSafe, WatchersAreReached
  <1>2. PICK q \in Partition : q = at[g]
    BY DEF TypeInv
  <1>3. Home[Watched[s]] \in Completed /\ Home[Watched[s]] \in Partition
    BY WatchedAssumption, HomeAssumption DEF Partition
  <1>4. handled'[Notifier][Home[Watched[s]]] = handled[Notifier][Home[Watched[s]]]
    <2>1. CASE g # Notifier
      BY <2>1, NotifierAssumption DEF Handled, TypeInv, TypeOK
    <2>2. CASE g = Notifier
      <3>1. q # Home[Watched[s]]
        BY <1>2, <1>3, <2>2 DEF Publishes
      <3> QED
        BY <1>2, <1>3, <3>1 DEF Handled, TypeInv, TypeOK
    <2> QED
      BY <2>1, <2>2
  <1> QED
    BY <1>1, <1>4 DEF Reached, OnTheWay, Announced

LEMMA NotifySafe ==
  ASSUME TypeInv, LiveType, LiveSafe, NEW g \in Group, Notify(g) \/ NotifyUnconfirmed(g)
  PROVE  LiveSafe'
  <1>1. Handled(g) /\ pc[g] # "fetch" /\ log' = log
    BY DEF Notify, NotifyUnconfirmed, Handle, PublishUnconfirmed
  <1>2. (Publishes(g) /\ Publish(Record(g))) \/ (~ Publishes(g) /\ UNCHANGED live)
    BY DEF Notify, NotifyUnconfirmed, PublishUnconfirmed
  <1>3. UNCHANGED <<saved, listening, registered, open, covered, dropped>>
    BY <1>2 DEF Publish, live, api, browser
  <1>4. CoverOK' /\ RegistryOK' /\ AnnouncedOK'
    BY <1>1, <1>3, AnnouncedKept DEF LiveSafe, CoverOK, RegistryOK
  <1>5. ASSUME NEW s \in Socket, Watching(s)' PROVE Reached(s)'
    BY <1>1, <1>2, <1>5, PublishReaches, OtherHandled
  <1>6. (open \subseteq Socket)'
    BY <1>3 DEF LiveType
  <1> QED
    BY <1>4, <1>5, <1>6 DEF LiveSafe, WatchersAreReached, Watching

(* A new record has not been handled; an event is produced for saved        *)
(* analyses only.                                                           *)
LEMMA ProduceReaches ==
  ASSUME TypeInv, Safe, LiveType, LiveSafe, UNCHANGED live,
         NEW q \in Partition, NEW r \in Ticket \cup {Malformed}, Produce(q, r),
         q \in Completed /\ r \in Ticket => r \in saved
  PROVE  LiveSafe'
  <1>1. /\ UNCHANGED <<saved, listening, buffer, targets, registered, open, covered,
                       informed, dropped, handled>>
        /\ log' = [log EXCEPT ![q] = Append(log[q], r)]
    BY DEF live, api, browser, Produce, consumer
  <1>2. ASSUME NEW p \in Partition
        PROVE  /\ \A o \in 1..Len(log[p]) : o \in 1..Len(log'[p]) /\ log'[p][o] = log[p][o]
               /\ \A o \in 1..Len(log'[p]) :
                    o \in 1..Len(log[p]) \/ (o = Len(log[p]) + 1 /\ p = q /\ log'[p][o] = r)
    <2>1. log[p] \in Seq(Ticket \cup {Malformed})
      BY DEF TypeInv, TypeOK
    <2>2. CASE p = q
      <3>1. log'[p] = Append(log[p], r)
        BY <1>1, <2>2 DEF TypeInv, TypeOK
      <3> QED
        BY <2>1, <2>2, <3>1
    <2>3. CASE p # q
      BY <1>1, <2>3 DEF TypeInv, TypeOK
    <2> QED
      BY <2>2, <2>3
  <1>3. ASSUME NEW k \in Ticket, Announced(k)', ~ Announced(k)
        PROVE  /\ q = Home[k] /\ r = k
               /\ Len(log[q]) + 1 \in 1..Len(log'[q]) /\ log'[q][Len(log[q]) + 1] = k
    <2>1. Home[k] \in Partition /\ Home[k] \in Completed
      BY HomeAssumption DEF Partition
    <2>2. PICK o \in 1..Len(log'[Home[k]]) : log'[Home[k]][o] = k
      BY <1>3 DEF Announced
    <2> QED
      BY <1>2, <1>3, <2>1, <2>2 DEF Announced
  <1>4. AnnouncedOK'
    <2> SUFFICES ASSUME NEW k \in Ticket, Announced(k)' PROVE k \in saved'
      BY DEF AnnouncedOK
    <2>1. CASE Announced(k)
      BY <1>1, <2>1 DEF LiveSafe, AnnouncedOK
    <2>2. CASE ~ Announced(k)
      BY <1>1, <1>3, <2>2, HomeAssumption
    <2> QED
      BY <2>1, <2>2
  <1>5. ASSUME NEW s \in Socket, Watching(s) PROVE Reached(s)'
    <2> DEFINE k == Watched[s]
               h == Home[k]
    <2>1. k \in Ticket /\ h \in Partition
      BY WatchedAssumption, HomeAssumption DEF Partition
    <2>2. Reached(s)
      BY <1>5 DEF LiveSafe, WatchersAreReached, Watching
    <2>3. CASE Announced(k)
      BY <1>1, <1>2, <2>1, <2>2, <2>3 DEF Reached, OnTheWay
    <2>4. CASE Announced(k)' /\ ~ Announced(k)
      <3>1. Len(log[h]) + 1 \notin handled[Notifier][h]
        BY <2>1, NotifierAssumption DEF Safe, DoneOK, TypeInv, TypeOK
      <3> QED
        BY <1>1, <1>3, <2>1, <2>4, <3>1 DEF Reached, OnTheWay
    <2> QED
      BY <2>3, <2>4 DEF Reached
  <1> QED
    BY <1>1, <1>4, <1>5
       DEF LiveSafe, CoverOK, RegistryOK, WatchersAreReached, Watching, LiveType

(* The groups' other steps neither handle a record nor touch the rest.      *)
LEMMA ConsumeSafe ==
  ASSUME LiveType, LiveSafe, NEW g \in Group, Consume(g)
  PROVE  LiveSafe'
  <1>1. /\ UNCHANGED <<saved, listening, buffer, targets, registered, open, covered,
                       informed, dropped>>
        /\ UNCHANGED <<log, handled>>
    BY DEF Consume, Work, Fetch, HandleFails, Commit, CommitFails, Crash, Restart, Start,
           Resume, Stop, Quit, Rebalance, live, api, browser
  <1>2. AnnouncedOK'
    BY <1>1, AnnouncedKept DEF LiveSafe
  <1> QED
    BY <1>1, <1>2 DEF LiveSafe, CoverOK, RegistryOK, WatchersAreReached, Reached, Announced,
                     OnTheWay

(* A step that covers nobody and leaves the registry right.                 *)
LEMMA UncoveredSafe ==
  ASSUME LiveSafe, covered' = {}, UNCHANGED <<log, saved>>, RegistryOK'
  PROVE  LiveSafe'
  BY AnnouncedKept DEF LiveSafe, CoverOK, WatchersAreReached

LEMMA RedisSafe ==
  ASSUME LiveType, LiveSafe,
         PublishForeign \/ Subscribe \/ LoseSubscription \/ NoticeLoss \/ RestartApi
  PROVE  LiveSafe'
  <1>1. UNCHANGED <<log, handled, saved>>
    BY DEF PublishForeign, Publish, Subscribe, LoseSubscription, NoticeLoss, RestartApi,
           eventVars, consumer
  <1>2. CASE LoseSubscription \/ NoticeLoss \/ Subscribe \/ RestartApi
    <2>1. covered' = {}
      BY <1>2 DEF LoseSubscription, NoticeLoss, Subscribe, RestartApi, browser, LiveSafe, CoverOK
    <2>2. RegistryOK'
      BY <1>2 DEF LoseSubscription, NoticeLoss, Subscribe, RestartApi, browser, LiveSafe, RegistryOK
    <2> QED
      BY <1>1, <2>1, <2>2, UncoveredSafe
  <1>3. CASE PublishForeign
    <2>1. UNCHANGED <<listening, targets, registered, open, covered, informed, dropped>>
      BY <1>3 DEF PublishForeign, Publish, browser
    <2>2. \A i \in 1..Len(buffer) : i \in 1..Len(buffer') /\ buffer'[i] = buffer[i]
      BY <1>3 DEF PublishForeign, Publish, LiveType
    <2>3. ASSUME NEW s \in Socket, Watching(s) PROVE Reached(s)'
      BY <1>1, <2>1, <2>2, <2>3, StillReached DEF LiveSafe, WatchersAreReached, Watching
    <2>4. AnnouncedOK'
      BY <1>1, AnnouncedKept DEF LiveSafe
    <2> QED
      BY <2>1, <2>3, <2>4 DEF LiveSafe, CoverOK, RegistryOK, WatchersAreReached, Watching, LiveType
  <1> QED
    BY <1>2, <1>3

LEMMA ReceiveSafe ==
  ASSUME LiveType, LiveSafe, Receive
  PROVE  LiveSafe'
  <1>1. /\ UNCHANGED <<log, handled, saved, listening, registered, open, covered, informed,
                       dropped>>
        /\ targets = {} /\ buffer # <<>> /\ buffer' = Tail(buffer)
        /\ targets' = IF Head(buffer) = Invalid THEN {} ELSE Watchers(Head(buffer))
    BY DEF Receive, eventVars, consumer, browser
  <1>2. \A i \in 1..Len(buffer) :
          buffer[i] = Head(buffer) \/ \E j \in 1..Len(buffer') : buffer'[j] = buffer[i]
    <2> SUFFICES ASSUME NEW i \in 1..Len(buffer), i # 1
                 PROVE  \E j \in 1..Len(buffer') : buffer'[j] = buffer[i]
      BY DEF LiveType
    <2>1. i - 1 \in 1..Len(buffer') /\ buffer'[i - 1] = buffer[i]
      BY <1>1 DEF LiveType
    <2> QED
      BY <2>1
  <1>3. ASSUME NEW s \in Socket, Watching(s) PROVE Reached(s)'
    <2>1. s \in registered /\ Watched[s] \in Ticket
      BY <1>3, WatchedAssumption DEF Watching, LiveSafe, RegistryOK
    <2>2. Head(buffer) = Watched[s] => s \in targets'
      BY <1>1, <2>1, InvalidAssumption DEF Watchers
    <2>3. Reached(s)
      BY <1>3 DEF LiveSafe, WatchersAreReached, Watching
    <2> QED
      BY <1>1, <1>2, <2>2, <2>3, StillReached
  <1>4. AnnouncedOK'
    BY <1>1, AnnouncedKept DEF LiveSafe
  <1> QED
    BY <1>1, <1>3, <1>4 DEF LiveSafe, CoverOK, RegistryOK, WatchersAreReached, Watching, LiveType

LEMMA SendSafe ==
  ASSUME LiveType, LiveSafe, NEW s \in Socket, Send(s) \/ SendFails(s) \/ SendRaises(s)
  PROVE  LiveSafe'
  <1>1. UNCHANGED <<log, handled, saved, open>> /\ informed \subseteq informed'
    BY DEF Send, SendFails, SendRaises, eventVars, consumer
  <1>2. RegistryOK'
    BY DEF LiveSafe, RegistryOK, Send, SendFails, SendRaises, Unregister
  <1>3. CASE SendRaises(s)
    BY <1>1, <1>2, <1>3, UncoveredSafe DEF SendRaises
  <1>4. CASE Send(s) \/ SendFails(s)
    <2>1. /\ UNCHANGED <<buffer, covered, listening>>
          /\ targets' = targets \ {s}
          /\ dropped \subseteq dropped'
          /\ s \in open \ dropped' => s \in informed'
      BY <1>4 DEF Send, SendFails, LeftAfterFailure
    <2>2. ASSUME NEW x \in Socket, Watching(x)' PROVE Reached(x)'
      <3>1. Watching(x) /\ (x = s => x \in informed')
        BY <1>1, <2>1, <2>2 DEF Watching
      <3>2. Reached(x)
        BY <3>1 DEF LiveSafe, WatchersAreReached, Watching
      <3> QED
        BY <1>1, <2>1, <3>1, <3>2, StillReached
    <2>3. AnnouncedOK'
      BY <1>1, AnnouncedKept DEF LiveSafe
    <2> QED
      BY <1>1, <1>2, <2>1, <2>2, <2>3
         DEF LiveSafe, CoverOK, WatchersAreReached, Watching, LiveType
  <1> QED
    BY <1>3, <1>4

LEMMA BrowserSafe ==
  ASSUME LiveType, LiveSafe, NEW s \in Socket,
         Connect(s) \/ Read(s) \/ Close(s) \/ Disconnect(s)
  PROVE  LiveSafe'
  <1>1. /\ UNCHANGED <<log, handled, saved, buffer, targets, listening, dropped>>
        /\ informed \subseteq informed'
    BY DEF Connect, Read, Close, Disconnect, eventVars, consumer, api, browser
  <1>2. CoverOK' /\ RegistryOK'
    BY DEF Connect, Read, Close, Disconnect, Unregister, api, browser,
           LiveSafe, CoverOK, RegistryOK
  <1>3. AnnouncedOK'
    BY <1>1, AnnouncedKept DEF LiveSafe
  <1>4. ASSUME NEW x \in Socket, Watching(x)' PROVE Reached(x)'
    <2>1. CASE Watching(x)
      <3>1. Reached(x)
        BY <2>1 DEF LiveSafe, WatchersAreReached, Watching
      <3> QED
        BY <1>1, <3>1, StillReached
    <2>2. CASE ~ Watching(x)
      <3>1. Read(s) /\ x = s
        BY <1>4, <2>2 DEF Watching, Connect, Read, Close, Disconnect, browser, LiveType
      <3>2. Announced(Watched[s])' => s \in informed'
        BY <1>3, <3>1, WatchedAssumption, <1>1 DEF Read, AnnouncedOK
      <3> QED
        BY <3>1, <3>2 DEF Reached
    <2> QED
      BY <2>1, <2>2
  <1>5. open' \subseteq Socket
    BY DEF Connect, Read, Close, Disconnect, browser, LiveType
  <1> QED
    BY <1>2, <1>3, <1>4, <1>5 DEF LiveSafe, WatchersAreReached, Watching

(* Whoever reads the analysis once connected learns of every announced      *)
(* analysis, or its event is on the way, while the subscription lasts and   *)
(* no send to that browser failed.                                          *)
THEOREM WatchersMissNothing == Spec => []WatchersAreReached
  <1>1. ASSUME Init PROVE LiveSafe
    <2>1. ASSUME NEW k \in Ticket PROVE ~ Announced(k)
      <3>1. Home[k] \in Partition
        BY HomeAssumption DEF Partition
      <3>2. log[Home[k]] = <<>>
        BY <1>1, <3>1 DEF Init, EventInit
      <3>3. 1..Len(log[Home[k]]) = {}
        BY <3>2
      <3> QED
        BY <3>3 DEF Announced
    <2> QED
      BY <1>1, <2>1 DEF Init, LiveSafe, CoverOK, RegistryOK, AnnouncedOK, WatchersAreReached
  <1>2. ASSUME TypeInv, Safe, LiveType, LiveSafe, [Next]_vars PROVE LiveSafe'
    <2> USE <1>2
    <2>1. CASE UNCHANGED vars
      BY <2>1 DEF vars, eventVars, consumer, live, api, browser, LiveSafe, CoverOK, RegistryOK,
                  AnnouncedOK, Announced, WatchersAreReached, Reached, OnTheWay
    <2>2. ASSUME NEW k \in Ticket, Save(k) PROVE LiveSafe'
      BY <2>2 DEF Save, eventVars, consumer, api, browser, LiveSafe, CoverOK, RegistryOK,
                  AnnouncedOK, Announced, WatchersAreReached, Reached, OnTheWay
    <2>3. ASSUME NEW k \in Ticket, Announce(k) PROVE LiveSafe'
      BY <2>3, ProduceReaches, HomeAssumption DEF Announce, Partition
    <2>4. ASSUME NEW p \in Partition, NEW r \in Ticket \cup {Malformed},
                 p \in Created \/ r = Malformed, Produce(p, r), UNCHANGED live
          PROVE  LiveSafe'
      BY <2>4, ProduceReaches, PartitionAssumption, RecordAssumption
    <2> QED
      BY <2>1, <2>2, <2>3, <2>4, NotifySafe, ConsumeSafe, RedisSafe, ReceiveSafe, SendSafe,
         BrowserSafe DEF Next
  <1>3. LiveSafe => WatchersAreReached
    BY DEF LiveSafe
  <1> QED
    BY ConsumerFacts, LiveTypeInvariant, <1>1, <1>2, <1>3, PTL DEF Spec

(* An event goes to every open socket of its ticket but those to which a    *)
(* send has failed: only they are forgotten while they are connected.       *)
THEOREM OnlyDroppedAreForgotten == Spec => OnlyDroppedAreMissed
  <1>1. Init => RegistryOK
    BY DEF Init, RegistryOK
  <1>2. RegistryOK /\ [Next]_vars => RegistryOK'
    <2> SUFFICES ASSUME RegistryOK, [Next]_vars PROVE RegistryOK'
      OBVIOUS
    <2>1. CASE UNCHANGED <<open, dropped, registered>>
      BY <2>1 DEF RegistryOK
    <2>2. ASSUME NEW s \in Socket,
                 Send(s) \/ SendFails(s) \/ SendRaises(s)
                   \/ Connect(s) \/ Read(s) \/ Close(s) \/ Disconnect(s)
          PROVE  RegistryOK'
      <3> USE DEF RegistryOK, Unregister
      <3>1. CASE Send(s) \/ SendRaises(s) \/ Read(s)
        BY <2>1, <3>1 DEF Send, SendRaises, Read, api
      <3>2. CASE SendFails(s)
        BY <3>2 DEF SendFails
      <3>3. CASE Connect(s)
        BY <3>3 DEF Connect
      <3>4. CASE Close(s)
        BY <3>4 DEF Close, api
      <3>5. CASE Disconnect(s)
        BY <3>5 DEF Disconnect, browser
      <3> QED
        BY <2>2, <3>1, <3>2, <3>3, <3>4, <3>5
    <2>3. CASE RestartApi
      BY <2>3 DEF RestartApi, RegistryOK
    <2>4. CASE Next /\ ~ RestartApi /\ ~ \E s \in Socket :
                 Send(s) \/ SendFails(s) \/ SendRaises(s)
                   \/ Connect(s) \/ Read(s) \/ Close(s) \/ Disconnect(s)
      BY <2>1, <2>4 DEF Next, Save, Announce, Notify, NotifyUnconfirmed, Consume, Publish,
         PublishForeign, Subscribe, LoseSubscription, NoticeLoss, Receive, live, api, browser
    <2>5. CASE UNCHANGED vars
      BY <2>1, <2>5 DEF vars, live, api, browser
    <2> QED
      BY <2>2, <2>3, <2>4, <2>5
  <1>3. RegistryOK /\ LiveType /\ [Next]_vars =>
          [\A k \in Ticket :
             Receive /\ Head(buffer) = k =>
               {s \in open \ dropped : Watched[s] = k} \subseteq targets']_vars
    BY InvalidAssumption DEF RegistryOK, Receive, Watchers
  <1> QED
    BY <1>1, <1>2, <1>3, LiveTypeInvariant, PTL DEF Spec, OnlyDroppedAreMissed
=============================================================================
