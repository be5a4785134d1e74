--------------------------- MODULE RabbitMQEventBus ---------------------------
(***************************************************************************)
(* The subscribing half of RabbitMQEventBus: the connection it opens once at *)
(* a time, the consumer it keeps on it, the timer that rebuilds both, the    *)
(* handler queue that outlives them, and the cache that listens.  A lost     *)
(* channel and a lost connection clear the same fields, so a connection      *)
(* stands for its two channels too.                                          *)
(***************************************************************************)
EXTENDS BusConsumer

CONSTANTS
  Message, Conn, NoConn,
  Settings,               \* the scenarios
  MaxCancels, MaxFails    \* bounds on cancelled consumers and failed handlers

\* "lateClose": disconnect() meets an init() under way.  "sameRead": the answer to
\* consume() and the end of that consumer are read from the socket together.
Races == {"lateClose", "sameRead"}

\* A scenario: whether the queue outlives its connection (durableInvalidationMode), what the
\* peers publish, the races let happen, and a bound on the connections lost.
Setting == [durable : BOOLEAN, messages : SUBSET Message, faults : SUBSET Races, maxDrops : Nat]

\* What the handler queue holds: a message and the channel that delivered it.
RabbitAssumption ==
  /\ QueueAssumption /\ Event = Message \X Conn /\ NoConn \notin Conn /\ Conn # {}
  /\ Settings \subseteq Setting /\ {MaxCancels, MaxFails} \subseteq Nat

VARIABLES
  setting,         \* the scenario of the behaviour
  conn,            \* "unused", "opening", "up", "closing" (by the bus), "closed"
  connection,      \* with channel and publishChannel
  initPromise,     \* the connection being opened
  consumerTag,     \* the connection it was issued on
  handler, closed, reconnectTimer, needsReconciliation,
  reconnect,       \* reconnect(): "no", awaits "init", awaits "subscribe"
  subscribing,     \* subscribe() of the "cache", of "reconnect": the connection it works on
  answered,        \* the consume() of these has been answered
  closing, parting,   \* disconnect(): "no", "closing", "done", and the connection it closes
  consumer,        \* the connection the broker delivers on
  bound, broker,   \* the broker's queue exists, and what it holds
  unacked,         \* the part of it that is delivered
  queue, cache, unpublished, applied, drops, cancels, fails
connVars == <<conn, connection, initPromise>>
busVars == <<consumerTag, handler, closed, reconnectTimer, reconnect, subscribing, answered>>
closeVars == <<closing, parting>>
brokerVars == <<consumer, bound, broker, unacked, unpublished>>
handlerVars == <<queue, needsReconciliation, applied>>
budget == <<drops, cancels, fails>>
vars == <<setting, connVars, busVars, closeVars, brokerVars, handlerVars, cache, budget>>

Durable == setting.durable
Faults == setting.faults
DropLimit == setting.maxDrops

Caller == {"cache", "reconnect"}

TypeOK ==
  /\ setting \in Settings
  /\ conn \in [Conn -> {"unused", "opening", "up", "closing", "closed"}]
  /\ {connection, initPromise, consumerTag, consumer, parting} \subseteq Conn \cup {NoConn}
  /\ {handler, closed, reconnectTimer, needsReconciliation, bound} \subseteq BOOLEAN
  /\ reconnect \in {"no", "init", "subscribe"} /\ closing \in {"no", "closing", "done"}
  /\ subscribing \in [Caller -> Conn \cup {NoConn}] /\ answered \subseteq Caller
  /\ unacked \subseteq broker /\ broker \subseteq Message \ unpublished /\ unpublished \subseteq Message
  /\ applied \subseteq Message /\ queue \in Queue /\ cache \in Consumer
  /\ drops \in 0..DropLimit /\ cancels \in 0..MaxCancels /\ fails \in 0..MaxFails
  /\ connection # NoConn => conn[connection] = "up"
  /\ initPromise # NoConn => conn[initPromise] = "opening" /\ connection = NoConn

\* The application has awaited connect() and constructs the cache.
Init ==
  /\ setting \in Settings
  /\ connection = CHOOSE c \in Conn : TRUE
  /\ conn = [c \in Conn |-> IF c = connection THEN "up" ELSE "unused"]
  /\ initPromise = NoConn /\ consumerTag = NoConn /\ consumer = NoConn /\ parting = NoConn
  /\ handler = FALSE /\ closed = FALSE /\ reconnectTimer = FALSE /\ needsReconciliation = FALSE
  /\ reconnect = "no" /\ subscribing = [s \in Caller |-> NoConn] /\ answered = {}
  /\ closing = "no" /\ bound = Durable /\ broker = {} /\ unacked = {}
  /\ queue = EmptyQueue /\ cache = NewConsumer /\ unpublished = setting.messages /\ applied = {}
  /\ drops = 0 /\ cancels = 0 /\ fails = 0

-----------------------------------------------------------------------------
\* subscribe(), started by s on the open connection.

StartSubscribe(s) ==
  /\ handler' = TRUE
  /\ queue' = IF queue.closed THEN EmptyQueue ELSE queue
  /\ IF consumerTag # NoConn
     THEN subscribing' = subscribing /\ reconnect' = IF s = "reconnect" THEN "no" ELSE reconnect
     ELSE /\ subscribing' = [subscribing EXCEPT ![s] = connection]
          /\ reconnect' = IF s = "reconnect" THEN "subscribe" ELSE reconnect

\* The cache subscribes when it is constructed; without a channel subscribe() throws.
Subscribe ==
  /\ ~handler /\ ~closed /\ connection # NoConn
  /\ StartSubscribe("cache")
  /\ UNCHANGED <<connVars, consumerTag, closed, reconnectTimer, answered, closeVars, brokerVars,
                 needsReconciliation, applied, cache, budget>>

\* The broker has the queue, the binding and the consumer.
ConsumeAnswered(s) ==
  /\ subscribing[s] # NoConn /\ s \notin answered /\ conn[subscribing[s]] = "up"
  /\ answered' = answered \cup {s} /\ consumer' = subscribing[s] /\ bound' = TRUE
  /\ UNCHANGED <<connVars, consumerTag, handler, closed, reconnectTimer, reconnect, subscribing,
                 closeVars, broker, unacked, unpublished, handlerVars, cache, budget>>

\* mutant: the new consumer is not announced.
SubscribeEndsSilently(s) ==
  /\ s \in answered /\ answered' = answered \ {s}
  /\ consumerTag' = subscribing[s] /\ subscribing' = [subscribing EXCEPT ![s] = NoConn]
  /\ reconnect' = IF s = "reconnect" THEN "no" ELSE reconnect
  /\ cache' = IF s = "cache" THEN OnStatus(cache, "subscribed") ELSE cache
  /\ UNCHANGED <<connVars, handler, closed, reconnectTimer, closeVars, brokerVars, handlerVars, budget>>

\* The continuation of consume().
SubscribeEnds(s) ==
  /\ s \in answered /\ answered' = answered \ {s}
  /\ consumerTag' = subscribing[s] /\ subscribing' = [subscribing EXCEPT ![s] = NoConn]
  /\ reconnect' = IF s = "reconnect" THEN "no" ELSE reconnect
  /\ cache' = OnStatus(cache, "subscribed")
  /\ UNCHANGED <<connVars, handler, closed, reconnectTimer, closeVars, brokerVars, handlerVars, budget>>

-----------------------------------------------------------------------------
\* init() and reconnect()

\* scheduleReconnect
Timer == reconnectTimer' = (reconnectTimer \/ ~closed)

\* mutant: an established connection does not stop init().
StartInitAgain ==
  IF initPromise # NoConn THEN UNCHANGED <<conn, initPromise>>
  ELSE \E c \in Conn : /\ conn[c] = "unused"
                       /\ conn' = [conn EXCEPT ![c] = "opening"] /\ initPromise' = c

\* init(): opens a connection unless there is one or one is being opened.
StartInit ==
  IF connection # NoConn \/ initPromise # NoConn THEN UNCHANGED <<conn, initPromise>>
  ELSE \E c \in Conn : /\ conn[c] = "unused"
                       /\ conn' = [conn EXCEPT ![c] = "opening"] /\ initPromise' = c

ReconnectTimerFires ==
  /\ reconnectTimer /\ reconnect = "no" /\ reconnectTimer' = FALSE
  /\ IF closed THEN UNCHANGED <<reconnect, conn, initPromise, handler, queue, subscribing>>
     ELSE /\ StartInit
          /\ IF connection # NoConn /\ handler THEN StartSubscribe("reconnect")
             ELSE /\ reconnect' = IF connection = NoConn THEN "init" ELSE "no"
                  /\ UNCHANGED <<handler, queue, subscribing>>
  /\ UNCHANGED <<connection, consumerTag, closed, answered, closeVars, brokerVars,
                 needsReconciliation, applied, cache, budget>>

\* healthCheck() connects first; it joins or starts an init().
HealthCheck ==
  /\ ~closed /\ connection = NoConn /\ initPromise = NoConn
  /\ StartInit
  /\ UNCHANGED <<connection, busVars, closeVars, brokerVars, handlerVars, cache, budget>>

\* The handler reconnect() has captured: subscribe() gets it whatever happened since.
OpenDone ==
  /\ initPromise # NoConn
  /\ conn' = [conn EXCEPT ![initPromise] = "up"] /\ connection' = initPromise
  /\ initPromise' = NoConn /\ closed' = FALSE
  /\ IF reconnect # "init" THEN UNCHANGED <<handler, queue, subscribing, reconnect>>
     ELSE /\ handler' = TRUE
          /\ queue' = IF queue.closed THEN EmptyQueue ELSE queue
          /\ subscribing' = [subscribing EXCEPT !["reconnect"] = initPromise]
          /\ reconnect' = "subscribe"
  /\ UNCHANGED <<consumerTag, reconnectTimer, answered, closeVars, brokerVars,
                 needsReconciliation, applied, cache, budget>>

\* mutant: a failed reconnection is not tried again.
OpenFailsOnce ==
  /\ initPromise # NoConn /\ drops < DropLimit /\ drops' = drops + 1
  /\ conn' = [conn EXCEPT ![initPromise] = "closed"] /\ initPromise' = NoConn
  /\ reconnect' = "no"
  /\ cache' = IF reconnect = "init" THEN OnStatus(cache, "error") ELSE cache
  /\ UNCHANGED <<connection, consumerTag, handler, closed, reconnectTimer, subscribing, answered,
                 closeVars, brokerVars, handlerVars, cancels, fails>>

\* The attempt fails; what was half opened is closed.
OpenFails ==
  /\ initPromise # NoConn /\ drops < DropLimit /\ drops' = drops + 1
  /\ conn' = [conn EXCEPT ![initPromise] = "closed"] /\ initPromise' = NoConn
  /\ IF reconnect = "init"
     THEN reconnect' = "no" /\ cache' = OnStatus(cache, "error") /\ Timer
     ELSE UNCHANGED <<reconnect, cache, reconnectTimer>>
  /\ UNCHANGED <<connection, consumerTag, handler, closed, subscribing, answered, closeVars,
                 brokerVars, handlerVars, cancels, fails>>

-----------------------------------------------------------------------------
\* Losses

\* What the end of a connection takes with it.  An exclusive queue goes with all it
\* holds; a durable one delivers again what was not acknowledged.
BrokerForgets(c) ==
  IF consumer \notin {c, NoConn} THEN UNCHANGED <<consumer, bound, broker, unacked>>
  ELSE /\ consumer' = NoConn /\ unacked' = {} /\ bound' = Durable
       /\ broker' = IF Durable THEN broker ELSE {}

\* A subscribe() that works on c is rejected; reconnect() reports it.
Rejected(c) == {s \in Caller : subscribing[s] = c /\ s \notin answered}
RejectSubscribe(c) ==
  /\ subscribing' = [s \in Caller |-> IF s \in Rejected(c) THEN NoConn ELSE subscribing[s]]
  /\ reconnect' = IF "reconnect" \in Rejected(c) THEN "no" ELSE reconnect

\* mutant: the lost connection's consumer tag is kept.
ConnClosesKeepsTag(c, to) ==
  /\ conn[c] = "up" /\ connection = c /\ drops < DropLimit /\ drops' = drops + 1
  /\ \A s \in answered : subscribing[s] # c
  /\ conn' = [conn EXCEPT ![c] = to] /\ connection' = NoConn
  /\ queue' = Discarded(queue) /\ Timer
  /\ RejectSubscribe(c)
  /\ BrokerForgets(c) /\ cache' = OnStatus(cache, "disconnected")
  /\ UNCHANGED <<initPromise, consumerTag, handler, closed, answered, closeVars, unpublished,
                 needsReconciliation, applied, cancels, fails>>

\* The connection in use is lost, or one of its channels and the bus closes it.
ConnCloses(c, to) ==
  /\ conn[c] = "up" /\ connection = c /\ drops < DropLimit /\ drops' = drops + 1
  /\ "sameRead" \in Faults \/ \A s \in answered : subscribing[s] # c
  /\ conn' = [conn EXCEPT ![c] = to] /\ connection' = NoConn /\ consumerTag' = NoConn
  /\ queue' = Discarded(queue) /\ Timer
  /\ RejectSubscribe(c)
  /\ BrokerForgets(c) /\ cache' = OnStatus(cache, "disconnected")
  /\ UNCHANGED <<initPromise, handler, closed, answered, closeVars, unpublished,
                 needsReconciliation, applied, cancels, fails>>

ConnClosed(c) ==
  /\ conn[c] = "closing" /\ conn' = [conn EXCEPT ![c] = "closed"]
  /\ UNCHANGED <<connection, initPromise, busVars, closeVars, brokerVars, handlerVars, cache, budget>>

\* mutant: the deliveries pending when the consumer is cancelled are not settled.
ConsumerCancelledUnsettled ==
  /\ consumer # NoConn /\ consumer = connection /\ cancels < MaxCancels /\ cancels' = cancels + 1
  /\ answered = {}
  /\ consumer' = NoConn /\ bound' = Durable /\ consumerTag' = NoConn
  /\ queue' = Discarded(queue) /\ Timer
  /\ cache' = OnStatus(cache, "disconnected")
  /\ UNCHANGED <<connVars, handler, closed, reconnect, subscribing, answered, closeVars, broker,
                 unacked, unpublished, needsReconciliation, applied, drops, fails>>

\* The broker cancels the consumer (a null delivery); the channel is there, so the
\* pending deliveries are given up on it.
ConsumerCancelled ==
  /\ consumer # NoConn /\ consumer = connection /\ cancels < MaxCancels /\ cancels' = cancels + 1
  /\ "sameRead" \in Faults \/ answered = {}
  /\ consumer' = NoConn /\ bound' = Durable /\ consumerTag' = NoConn
  /\ queue' = Discarded(queue) /\ Timer
  /\ broker' = IF Durable THEN broker \ {d[1] : d \in ToSet(queue.pending)} ELSE {}
  /\ unacked' = unacked \cap broker'
  /\ cache' = OnStatus(cache, "disconnected")
  /\ UNCHANGED <<connVars, handler, closed, reconnect, subscribing, answered, closeVars,
                 unpublished, needsReconciliation, applied, drops, fails>>

-----------------------------------------------------------------------------
\* Deliveries

PeerPublishes(m) ==
  /\ m \in unpublished /\ unpublished' = unpublished \ {m}
  /\ IF bound THEN broker' = broker \cup {m} /\ UNCHANGED cache
     ELSE cache' = Missed(cache) /\ UNCHANGED broker
  /\ UNCHANGED <<connVars, busVars, closeVars, consumer, bound, unacked, handlerVars, budget>>

\* reconcileIfIdle with the consumer's state b, once the queue is q.
ReconcileIfIdle(q, needs, b) ==
  LET now == needs /\ ~closed /\ consumerTag # NoConn /\ q.active = {} /\ q.pending = <<>>
  IN  /\ needsReconciliation' = (needs /\ ~now)
      /\ cache' = IF now THEN OnStatus(b, "subscribed") ELSE b

\* mutant: a refused delivery is only given back to the broker.
DeliverRefusesSilently(m) ==
  LET e == <<m, consumer>> IN
  /\ consumer # NoConn /\ m \in broker \ unacked
  /\ IF Accepts(queue, e)
     THEN /\ queue' = Enqueued(queue, e) /\ unacked' = unacked \cup {m}
          /\ UNCHANGED <<broker, needsReconciliation, cache>>
     ELSE broker' = broker \ {m} /\ cache' = Missed(cache) /\ UNCHANGED <<queue, unacked, needsReconciliation>>
  /\ UNCHANGED <<connVars, busVars, closeVars, consumer, bound, unpublished, applied, budget>>

\* The callback of consume(): a delivery that the queue refuses is rejected at once.
Deliver(m) ==
  LET e == <<m, consumer>> IN
  /\ consumer # NoConn /\ m \in broker \ unacked
  /\ IF Accepts(queue, e)
     THEN /\ queue' = Enqueued(queue, e) /\ unacked' = unacked \cup {m}
          /\ UNCHANGED <<broker, needsReconciliation, cache>>
     ELSE /\ broker' = broker \ {m} /\ UNCHANGED <<queue, unacked>>
          /\ ReconcileIfIdle(queue, TRUE, OnStatus(Missed(cache), "error"))
  /\ UNCHANGED <<connVars, busVars, closeVars, consumer, bound, unpublished, applied, budget>>

\* settle: on the channel that delivered it; when that is gone the call throws and
\* the broker delivers the message again.
SettleReaches(e) == conn[e[2]] = "up"

\* mutant: a failed handler is only logged.
SettlesLogged(e, ok) ==
  /\ e \in queue.active
  /\ (ok \/ fails < MaxFails) /\ fails' = IF ok THEN fails ELSE fails + 1
  /\ applied' = IF ok /\ handler THEN applied \cup {e[1]} ELSE applied
  /\ IF SettleReaches(e) THEN broker' = broker \ {e[1]} /\ unacked' = unacked \ {e[1]}
     ELSE UNCHANGED <<broker, unacked>>
  /\ queue' = Settled(queue, e) /\ cache' = IF ok THEN cache ELSE Missed(cache)
  /\ UNCHANGED <<connVars, busVars, closeVars, consumer, bound, unpublished, needsReconciliation,
                 drops, cancels>>

\* The handler of a delivery has ended; onIdle reconciles.
Settles(e, ok) ==
  /\ e \in queue.active
  /\ (ok \/ fails < MaxFails) /\ fails' = IF ok THEN fails ELSE fails + 1
  /\ applied' = IF ok /\ handler THEN applied \cup {e[1]} ELSE applied
  /\ IF SettleReaches(e) THEN broker' = broker \ {e[1]} /\ unacked' = unacked \ {e[1]}
     ELSE UNCHANGED <<broker, unacked>>
  /\ queue' = Settled(queue, e)
  /\ LET b == IF ok THEN cache ELSE OnStatus(Missed(cache), "error")
         needs == needsReconciliation \/ ~ok
     IN  IF Idle(queue') THEN ReconcileIfIdle(queue', needs, b)
         ELSE needsReconciliation' = needs /\ cache' = b
  /\ UNCHANGED <<connVars, busVars, closeVars, consumer, bound, unpublished, drops, cancels>>

RestoreDone ==
  /\ cache.restoring /\ cache' = Restored(cache)
  /\ UNCHANGED <<connVars, busVars, closeVars, brokerVars, handlerVars, budget>>

-----------------------------------------------------------------------------

\* close() of the cache and the synchronous part of disconnect(): what is pending
\* is rejected on a channel that is still there.
Disconnect ==
  /\ closing = "no" /\ handler /\ closing' = "closing" /\ parting' = connection
  /\ "lateClose" \in Faults \/ initPromise = NoConn
  /\ closed' = TRUE /\ handler' = FALSE /\ reconnectTimer' = FALSE /\ needsReconciliation' = FALSE
  /\ connection' = NoConn /\ consumerTag' = NoConn
  /\ queue' = Closed(queue) /\ cache' = CloseConsumer(cache)
  /\ broker' = broker \ (unacked \cap {d[1] : d \in ToSet(queue.pending)}) /\ unacked' = unacked \cap broker'
  /\ UNCHANGED <<conn, initPromise, reconnect, subscribing, answered, consumer, bound, unpublished,
                 applied, budget>>

\* mutant: the connection is forgotten and not closed.
DisconnectEndsForgets ==
  /\ closing = "closing" /\ closing' = "done" /\ parting' = NoConn
  /\ UNCHANGED <<connVars, busVars, brokerVars, handlerVars, cache, budget>>

\* The awaited part: the consumer is cancelled, channels and connection are closed,
\* and a subscribe() that still works on them is rejected.
DisconnectEnds ==
  /\ closing = "closing" /\ closing' = "done" /\ parting' = NoConn
  /\ IF parting = NoConn THEN UNCHANGED <<conn, subscribing, reconnect, consumer, bound, broker, unacked>>
     ELSE /\ conn' = [conn EXCEPT ![parting] = "closed"]
          /\ RejectSubscribe(parting) /\ BrokerForgets(parting)
  /\ UNCHANGED <<connection, initPromise, consumerTag, handler, closed, reconnectTimer, answered,
                 unpublished, handlerVars, cache, budget>>

Next ==
  /\ \/ Subscribe \/ ReconnectTimerFires \/ HealthCheck \/ OpenDone \/ OpenFails
     \/ ConsumerCancelled \/ RestoreDone \/ Disconnect \/ DisconnectEnds
     \/ \E s \in Caller : ConsumeAnswered(s) \/ SubscribeEnds(s)
     \/ \E c \in Conn : ConnClosed(c) \/ \E to \in {"closed", "closing"} : ConnCloses(c, to)
     \/ \E m \in Message : PeerPublishes(m) \/ Deliver(m)
     \/ \E e \in Event, ok \in BOOLEAN : Settles(e, ok)
  /\ UNCHANGED setting

\* Timers fire, attempts to connect end, the broker answers and delivers, handlers settle.
Fairness ==
  /\ WF_vars(Subscribe) /\ WF_vars(ReconnectTimerFires) /\ WF_vars(OpenDone \/ OpenFails)
  /\ WF_vars(RestoreDone) /\ WF_vars(DisconnectEnds)
  /\ \A s \in Caller : WF_vars(ConsumeAnswered(s)) /\ WF_vars(SubscribeEnds(s))
  /\ \A m \in Message : WF_vars(Deliver(m))
  /\ \A e \in Event : WF_vars(\E ok \in BOOLEAN : Settles(e, ok))
Spec == Init /\ [][Next]_vars /\ Fairness

-----------------------------------------------------------------------------

(***************************************************************************)
(* The cache never trusts local copies that an invalidation has missed since *)
(* they were last flushed: one that was published while no queue was bound,  *)
(* refused by the handler queue, or given up after its handler failed.       *)
(*                                                                         *)
(* Left out: the answer to consume() and the end of that consumer are read   *)
(* from the socket together ("sameRead").  The end is handled before the tag *)
(* is stored, the bus then believes in a consumer that is gone, and the      *)
(* cache trusts copies of which it is told nothing.                          *)
(***************************************************************************)
NoTrustAcrossGap == "sameRead" \notin Faults /\ cache.trusted /\ ~cache.closed => ~cache.gap

(***************************************************************************)
(* healthCheck() reports `consuming` when there is a consumer tag: the       *)
(* broker then has that consumer, on the connection in use.  Left out is     *)
(* the race "sameRead": see NoTrustAcrossGap.                                *)
(***************************************************************************)
ConsumingIsReal ==
  "sameRead" \notin Faults /\ handler /\ consumerTag # NoConn => consumer = consumerTag /\ connection = consumerTag

(***************************************************************************)
(* When disconnect() has ended every connection that the bus opened is       *)
(* closed or being closed, and stays so.                                     *)
(*                                                                         *)
(* Left out: an init() under way when disconnect() begins ("lateClose").     *)
(* disconnect() does not wait for it; init() sets closed to false again and  *)
(* the connection it opens stays.                                            *)
(***************************************************************************)
NoConnectionLeak == "lateClose" \notin Faults /\ closing = "done" => \A c \in Conn : conn[c] # "up"

(***************************************************************************)
(* A bus that lost its consumer rebuilds it and the cache gets its trust     *)
(* back, once connections no longer fail.                                    *)
(*                                                                         *)
(* Left out: a first subscribe() that failed, which clears the handler and   *)
(* is not repeated.                                                          *)
(***************************************************************************)
TrustRestored == <>[](cache.trusted \/ cache.closed \/ ~handler)

(***************************************************************************)
(* Every message of a durable queue is settled in the end: none stays        *)
(* delivered and forgotten, whatever is lost or cancelled meanwhile.         *)
(***************************************************************************)
QueueDrains == \A m \in Message : Durable /\ m \in broker ~> m \notin broker \/ closed

(***************************************************************************)
(* A message leaves a durable queue only when it was applied here, or with   *)
(* the trust of the cache, even when its connection is lost between the      *)
(* delivery and the acknowledgement.                                         *)
(***************************************************************************)
SettledMeansHandled ==
  [][\A m \in broker \ broker' : Durable /\ ~closed' /\ ~cache'.closed =>
       m \in applied' \/ ~cache'.trusted]_vars
=============================================================================
