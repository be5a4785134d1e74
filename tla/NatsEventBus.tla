------------------------------ MODULE NatsEventBus ------------------------------
(***************************************************************************)
(* The subscribing half of NatsEventBus: the connections it dials, the       *)
(* subscription it keeps on one of them and rebuilds with a timer, the loop  *)
(* that watches the status of a connection, and the handler queue (core) or  *)
(* the acknowledged consumer (JetStream) behind it.  The NATS client re-dials *)
(* a lost connection and repeats its SUBs by itself until it gives up.       *)
(***************************************************************************)
EXTENDS BusConsumer

CONSTANTS
  Conn, NoConn,
  Settings,             \* the scenarios
  MaxDrops, MaxFails    \* bounds on lost connections and failed handlers

\* "flap": a connection is lost while its recovery is being confirmed.  "lateSub": a
\* SUB takes time to reach the server, or waits for a connection that is down.  "lateClose": disconnect() meets a dial under
\* way.  "publisher": publish() dials while subscribe() does.  "orphan": a handler that
\* was started for a former subscription fails.  "unsubscribed": failed deliveries are
\* reconciled while there is no subscription.
Races == {"flap", "lateSub", "lateClose", "publisher", "orphan", "unsubscribed"}

\* A scenario: the mode, whether the application passed the first connection in, the races
\* let happen, and a bound on the subscriptions the server ends.
Setting == [jetStream : BOOLEAN, injected : BOOLEAN, faults : SUBSET Races, maxEnds : Nat]

NatsAssumption ==
  /\ QueueAssumption /\ NoConn \notin Conn /\ IsFiniteSet(Conn)
  /\ Settings \subseteq Setting /\ {MaxDrops, MaxFails} \subseteq Nat

VARIABLES
  setting,             \* the scenario of the behaviour
  conn,                \* "unused", "up", "down" (the client re-dials), "closed"
  connection, ownsConnection,
  dialing,             \* who awaits a new connection: "subscribe", "publish"
  preparing,           \* the connection on which subscribe() awaits its consumer (JetStream)
  first,               \* the cache's own subscribe() has not succeeded yet
  subscription,        \* the connection that carries it
  serverSub,           \* the server knows it
  handler, closed, subscriptionLost, resubscribeTimer, needsReconciliation,
  statusMonitor,       \* the connection watched and where the loop is
  reconciling,         \* reconcileSubscription awaits its flush
  sameEpoch,           \* transportEpoch has not moved since the "monitor", the "reconcile" flush began
  closing,             \* disconnect(): "no", "closing", "done"
  wire, log,           \* core: in flight; JetStream: published and not acknowledged
  queue, orphans,      \* deliveries being handled for the subscription, for former ones
  cache, unpublished, applied, drops, ends, fails
connVars == <<conn, connection, ownsConnection, dialing>>
busVars == <<preparing, first, subscription, serverSub, handler, closed, subscriptionLost,
             resubscribeTimer, closing>>
statusVars == <<statusMonitor, reconciling, sameEpoch, needsReconciliation>>
deliveryVars == <<wire, log, queue, orphans, unpublished, applied>>
budget == <<drops, ends, fails>>
vars == <<setting, connVars, busVars, statusVars, deliveryVars, cache, budget>>

JetStream == setting.jetStream
Injected == setting.injected
Faults == setting.faults
MaxEnds == setting.maxEnds

Monitor == [connection : Conn \cup {NoConn}, at : {"off", "watching", "flushing", "dead"}]

TypeOK ==
  /\ setting \in Settings
  /\ conn \in [Conn -> {"unused", "up", "down", "closed"}]
  /\ connection \in Conn \cup {NoConn} /\ ownsConnection \in BOOLEAN
  /\ dialing \subseteq {"subscribe", "publish"} /\ preparing \in Conn \cup {NoConn} /\ first \in BOOLEAN
  /\ subscription \in Conn \cup {NoConn} /\ serverSub \in BOOLEAN
  /\ {handler, closed, subscriptionLost, resubscribeTimer, needsReconciliation, reconciling} \subseteq BOOLEAN
  /\ statusMonitor \in Monitor /\ sameEpoch \subseteq {"monitor", "reconcile"}
  /\ closing \in {"no", "closing", "done"}
  /\ wire \in Seq(Event) /\ log \subseteq Event /\ queue \in Queue /\ orphans \subseteq Event
  /\ cache \in Consumer /\ unpublished \subseteq Event /\ applied \subseteq Event
  /\ drops \in 0..MaxDrops /\ ends \in 0..MaxEnds /\ fails \in 0..MaxFails
  /\ serverSub => subscription # NoConn /\ conn[subscription] = "up"
  /\ subscription # NoConn => conn[subscription] \in {"up", "down"} /\ ~("subscribe" \in dialing \/ preparing # NoConn)

Init ==
  /\ setting \in Settings
  /\ connection = IF Injected THEN CHOOSE c \in Conn : TRUE ELSE NoConn
  /\ conn = [c \in Conn |-> IF c = connection THEN "up" ELSE "unused"]
  /\ ownsConnection = ~Injected /\ dialing = {} /\ preparing = NoConn /\ first = FALSE
  /\ subscription = NoConn /\ serverSub = FALSE /\ handler = FALSE /\ closed = FALSE
  /\ subscriptionLost = FALSE /\ resubscribeTimer = FALSE /\ needsReconciliation = FALSE
  /\ statusMonitor = [connection |-> NoConn, at |-> "off"] /\ reconciling = FALSE /\ sameEpoch = {}
  /\ closing = "no" /\ wire = <<>> /\ log = {} /\ queue = EmptyQueue /\ orphans = {}
  /\ cache = NewConsumer /\ unpublished = Event /\ applied = {}
  /\ drops = 0 /\ ends = 0 /\ fails = 0

-----------------------------------------------------------------------------
\* getConnection and subscribe()

Open == connection # NoConn /\ conn[connection] \in {"up", "down"}
MayDial == dialing = {} \/ "publisher" \in Faults

\* mutant: the loop that watches a connection is never replaced.
WatchedOnce(c) ==
  IF statusMonitor.connection # NoConn THEN statusMonitor ELSE [connection |-> c, at |-> "watching"]

\* watchStatus(c)
Watched(c) ==
  IF statusMonitor.connection = c THEN statusMonitor ELSE [connection |-> c, at |-> "watching"]

\* The subscription is there: a new handler queue takes the place of the old one
\* (core), whose deliveries under way go on.
Subscribed(c, state) ==
  /\ subscription' = c /\ preparing' = NoConn /\ first' = FALSE
  /\ serverSub' = (state = "up" /\ (JetStream \/ "lateSub" \notin Faults))
  /\ queue' = EmptyQueue /\ orphans' = orphans \cup queue.active
  /\ cache' = IF subscriptionLost' THEN cache ELSE OnStatus(cache, "subscribed")

\* subscribe() up to its first wait: with an open connection the core mode does not wait.
StartSubscribe(initial) ==
  /\ subscriptionLost' = FALSE
  /\ Open /\ conn[connection] = "down" => JetStream \/ "lateSub" \in Faults
  /\ IF Open
     THEN /\ statusMonitor' = Watched(connection) /\ UNCHANGED dialing
          /\ IF JetStream THEN /\ preparing' = connection /\ first' = initial
                               /\ UNCHANGED <<subscription, serverSub, queue, orphans, cache>>
             ELSE Subscribed(connection, conn[connection])
     ELSE /\ MayDial /\ dialing' = dialing \cup {"subscribe"} /\ first' = initial
          /\ UNCHANGED <<statusMonitor, preparing, subscription, serverSub, queue, orphans, cache>>

Subscribe ==
  /\ ~handler /\ ~closed /\ subscription = NoConn
  /\ handler' = TRUE /\ StartSubscribe(TRUE)
  /\ UNCHANGED <<conn, connection, ownsConnection, closed, resubscribeTimer, closing, reconciling,
                 sameEpoch, needsReconciliation, wire, log, unpublished, applied, budget>>

\* scheduleResubscribe
Timer == resubscribeTimer' = (resubscribeTimer \/ (~closed /\ handler))

TimerFires ==
  /\ resubscribeTimer /\ resubscribeTimer' = FALSE
  /\ IF closed \/ ~handler \/ subscription # NoConn \/ preparing # NoConn \/ "subscribe" \in dialing
     THEN UNCHANGED <<first, subscriptionLost, statusMonitor, dialing, preparing, subscription,
                      serverSub, queue, orphans, cache>>
     ELSE StartSubscribe(FALSE)
  /\ UNCHANGED <<conn, connection, ownsConnection, handler, closed, closing, reconciling, sameEpoch,
                 needsReconciliation, wire, log, unpublished, applied, budget>>

\* subscribe() throws: the timer's tries again, the cache's is the caller's business.
SubscribeThrows ==
  /\ cache' = OnStatus(cache, "error")
  /\ IF first THEN UNCHANGED resubscribeTimer ELSE Timer

\* publish() finds no open connection and dials.
PublisherDials ==
  /\ ~Open /\ "publish" \notin dialing /\ handler
  /\ MayDial
  /\ dialing' = dialing \cup {"publish"}
  /\ UNCHANGED <<conn, connection, ownsConnection, busVars, statusVars, deliveryVars, cache, budget>>

\* mutant: a connection dialled in place of an injected one is not the bus's own.
DialOwnsNothing(w) == ownsConnection

\* getConnection: what it dialled belongs to the bus.
DialOwns(w) == TRUE

Dialed(w, c) ==
  /\ w \in dialing /\ conn[c] = "unused"
  /\ conn' = [conn EXCEPT ![c] = "up"] /\ connection' = c /\ ownsConnection' = DialOwns(w)
  /\ dialing' = dialing \ {w}
  /\ statusMonitor' = Watched(c)
  /\ IF w = "publish" THEN UNCHANGED <<preparing, first, subscription, serverSub, queue, orphans, cache, subscriptionLost>>
     ELSE /\ UNCHANGED subscriptionLost
          /\ IF JetStream THEN preparing' = c /\ UNCHANGED <<first, subscription, serverSub, queue, orphans, cache>>
             ELSE Subscribed(c, "up")
  /\ UNCHANGED <<handler, closed, resubscribeTimer, closing, reconciling, sameEpoch,
                 needsReconciliation, wire, log, unpublished, applied, budget>>

DialFails(w) ==
  /\ w \in dialing /\ drops < MaxDrops /\ drops' = drops + 1
  /\ dialing' = dialing \ {w}
  /\ IF w = "publish" THEN UNCHANGED <<cache, resubscribeTimer>> ELSE SubscribeThrows
  /\ UNCHANGED <<conn, connection, ownsConnection, preparing, first, subscription, serverSub, handler,
                 closed, subscriptionLost, closing, statusVars, deliveryVars, ends, fails>>

\* JetStream: the stream and the consumer are there, or a request for them failed.
Prepared ==
  /\ preparing # NoConn /\ conn[preparing] = "up"
  /\ UNCHANGED subscriptionLost /\ Subscribed(preparing, "up")
  /\ UNCHANGED <<connVars, handler, closed, resubscribeTimer, closing, statusVars, wire, log,
                 unpublished, applied, budget>>

PrepareFails ==
  /\ preparing # NoConn /\ conn[preparing] # "up"
  /\ preparing' = NoConn /\ SubscribeThrows
  /\ UNCHANGED <<connVars, first, subscription, serverSub, handler, closed, subscriptionLost, closing,
                 statusVars, deliveryVars, budget>>

-----------------------------------------------------------------------------
\* The client and the loop of watchStatus

\* What a lost connection takes with it: the core deliveries on their way and a
\* flush of reconcileSubscription.
Lost(c, b) == IF subscription = c /\ wire # <<>> THEN Missed(b) ELSE b

ConnDrops(c) ==
  /\ conn[c] = "up" /\ drops < MaxDrops /\ drops' = drops + 1
  /\ statusMonitor = [connection |-> c, at |-> "flushing"] => "flap" \in Faults
  /\ conn' = [conn EXCEPT ![c] = "down"]
  /\ serverSub' = (serverSub /\ subscription # c)
  /\ wire' = IF subscription = c THEN <<>> ELSE wire
  /\ reconciling' = (reconciling /\ connection # c)
  /\ LET b == IF reconciling /\ connection = c THEN OnStatus(Lost(c, cache), "error") ELSE Lost(c, cache)
         seen == statusMonitor.connection = c /\ statusMonitor.at \in {"watching", "flushing"}
     IN  /\ subscriptionLost' = (subscriptionLost \/ seen)
         /\ cache' = IF seen THEN OnStatus(b, "disconnected") ELSE b
         /\ IF statusMonitor = [connection |-> c, at |-> "watching"]
            THEN sameEpoch' = {} /\ queue' = Discarded(queue) /\ UNCHANGED statusMonitor
            ELSE /\ UNCHANGED <<sameEpoch, queue>>   \* the flush of the loop fails: the loop ends
                 /\ statusMonitor' = IF seen THEN [statusMonitor EXCEPT !.at = "dead"] ELSE statusMonitor
  /\ UNCHANGED <<connection, ownsConnection, dialing, preparing, first, subscription, handler, closed,
                 resubscribeTimer, closing, needsReconciliation, log, orphans, unpublished, applied, ends, fails>>

\* The client is connected again and has repeated its SUBs; the loop flushes.
ConnReconnects(c) ==
  /\ conn[c] = "down" /\ conn' = [conn EXCEPT ![c] = "up"]
  /\ serverSub' = (serverSub \/ subscription = c)
  /\ IF statusMonitor = [connection |-> c, at |-> "watching"]
     THEN statusMonitor' = [statusMonitor EXCEPT !.at = "flushing"] /\ sameEpoch' = sameEpoch \cup {"monitor"}
     ELSE UNCHANGED <<statusMonitor, sameEpoch>>
  /\ UNCHANGED <<connection, ownsConnection, dialing, preparing, first, subscription, handler, closed,
                 subscriptionLost, resubscribeTimer, closing, reconciling, needsReconciliation,
                 deliveryVars, cache, budget>>

\* mutant: the loop does not report the subscription that the client has repeated.
MonitorForgets ==
  /\ statusMonitor.at = "flushing" /\ conn[statusMonitor.connection] = "up"
  /\ statusMonitor' = [statusMonitor EXCEPT !.at = "watching"]
  /\ cache' = OnStatus(cache, "ready")
  /\ UNCHANGED <<connVars, busVars, reconciling, sameEpoch, needsReconciliation, deliveryVars, budget>>

MonitorFlushed ==
  /\ statusMonitor.at = "flushing" /\ conn[statusMonitor.connection] = "up"
  /\ statusMonitor' = [statusMonitor EXCEPT !.at = "watching"]
  /\ IF closed \/ "monitor" \notin sameEpoch THEN UNCHANGED <<subscriptionLost, cache>>
     ELSE /\ subscriptionLost' = FALSE
          /\ LET b == OnStatus(cache, "ready") IN
             cache' = IF subscription # NoConn THEN OnStatus(b, "subscribed") ELSE b
  /\ UNCHANGED <<connVars, preparing, first, subscription, serverSub, handler, closed, resubscribeTimer,
                 closing, reconciling, sameEpoch, needsReconciliation, deliveryVars, budget>>

\* A SUB that took its time has reached the server.
SubArrives ==
  /\ subscription # NoConn /\ ~serverSub /\ conn[subscription] = "up"
  /\ serverSub' = TRUE
  /\ UNCHANGED <<connVars, preparing, first, subscription, handler, closed, subscriptionLost,
                 resubscribeTimer, closing, statusVars, deliveryVars, cache, budget>>

\* mutant: the ended subscription is not forgotten.
HandleEndedKeeps(b) ==
  /\ UNCHANGED subscription /\ subscriptionLost' = TRUE /\ sameEpoch' = {}
  /\ cache' = OnStatus(b, "disconnected") /\ Timer

\* mutant: the end of a subscription is only logged.
HandleEndedLogs(b) ==
  /\ subscription' = NoConn /\ subscriptionLost' = TRUE /\ cache' = OnStatus(b, "disconnected")
  /\ sameEpoch' = {} /\ UNCHANGED resubscribeTimer

\* handleSubscriptionEnded
HandleEnded(b) ==
  /\ subscription' = NoConn
  /\ IF closed THEN cache' = b /\ UNCHANGED <<subscriptionLost, sameEpoch, resubscribeTimer>>
     ELSE /\ subscriptionLost' = TRUE /\ sameEpoch' = {}
          /\ cache' = OnStatus(b, "disconnected") /\ Timer

\* The client has given the connection up: its subscription and its statuses end.
ConnGivesUp(c) ==
  /\ conn[c] = "down" /\ conn' = [conn EXCEPT ![c] = "closed"]
  /\ statusMonitor' = IF statusMonitor.connection = c THEN [statusMonitor EXCEPT !.at = "dead"] ELSE statusMonitor
  /\ IF subscription = c THEN serverSub' = FALSE /\ HandleEnded(cache)
     ELSE UNCHANGED <<subscription, serverSub, subscriptionLost, sameEpoch, resubscribeTimer, cache>>
  /\ UNCHANGED <<connection, ownsConnection, dialing, preparing, first, handler, closed, closing,
                 reconciling, needsReconciliation, deliveryVars, budget>>

\* The server ends the subscription and leaves the connection.
SubscriptionEnds ==
  /\ subscription # NoConn /\ conn[subscription] = "up" /\ ends < MaxEnds /\ ends' = ends + 1
  /\ serverSub' = FALSE /\ wire' = <<>>
  /\ HandleEnded(Lost(subscription, cache))
  /\ UNCHANGED <<connVars, preparing, first, handler, closed, closing, statusMonitor, reconciling,
                 needsReconciliation, log, queue, orphans, unpublished, applied, drops, fails>>

-----------------------------------------------------------------------------
\* Deliveries

PeerPublishes(e) ==
  /\ e \in unpublished /\ unpublished' = unpublished \ {e}
  /\ IF JetStream THEN log' = log \cup {e} /\ UNCHANGED <<wire, cache>>
     ELSE /\ UNCHANGED log
          /\ IF serverSub THEN wire' = Append(wire, e) /\ UNCHANGED cache
             ELSE cache' = Missed(cache) /\ UNCHANGED wire
  /\ UNCHANGED <<connVars, busVars, statusVars, queue, orphans, applied, budget>>

\* markHandlerGap
Gap(b) == IF closed THEN b ELSE OnStatus(b, "error")

\* The callback of the core subscription.
MessageArrives ==
  /\ wire # <<>> /\ wire' = Tail(wire)
  /\ LET e == Head(wire) IN
     /\ queue' = Enqueued(queue, e)
     /\ needsReconciliation' = (needsReconciliation \/ (~closed /\ Overflows(queue, e)))
     /\ cache' = IF Accepts(queue, e) THEN cache ELSE Gap(Missed(cache))
  /\ UNCHANGED <<connVars, busVars, statusMonitor, reconciling, sameEpoch, log, orphans, unpublished,
                 applied, budget>>

\* The loop of the JetStream consumer takes the next message; it waits for a
\* reconciliation that it has asked for.
NextMessage(e) ==
  /\ JetStream /\ e \in log \ (queue.active \cup orphans)
  /\ serverSub /\ queue.active = {} /\ ~reconciling
  /\ queue' = [queue EXCEPT !.active = {e}]
  /\ UNCHANGED <<connVars, busVars, statusVars, wire, log, orphans, unpublished, applied, cache, budget>>

\* reconcileSubscription up to its flush.
Reconcile(asked) ==
  /\ reconciling' = (reconciling \/ asked)
  /\ sameEpoch' = IF asked THEN sameEpoch \cup {"reconcile"} ELSE sameEpoch

\* mutant: a message is acknowledged before its handler has succeeded.
SettlesAckFirst(e, ok) ==
  /\ e \in queue.active
  /\ (ok \/ fails < MaxFails) /\ fails' = IF ok THEN fails ELSE fails + 1
  /\ applied' = IF ok THEN applied \cup {e} ELSE applied
  /\ log' = log \ {e}
  /\ queue' = Settled(queue, e)
  /\ needsReconciliation' = (needsReconciliation \/ ~ok)
  /\ cache' = IF ok THEN cache ELSE Gap(Missed(cache))
  /\ Reconcile(~ok)
  /\ UNCHANGED <<connVars, busVars, statusMonitor, wire, orphans, unpublished, drops, ends>>

\* A delivery of the subscription is over.  Core: onIdle reconciles; JetStream: the
\* message is acknowledged, or given back and the loop reconciles.
Settles(e, ok) ==
  /\ e \in queue.active
  /\ (ok \/ fails < MaxFails) /\ fails' = IF ok THEN fails ELSE fails + 1
  /\ applied' = IF ok THEN applied \cup {e} ELSE applied
  /\ log' = IF JetStream /\ ok /\ serverSub THEN log \ {e} ELSE log
  /\ queue' = Settled(queue, e)
  /\ needsReconciliation' = (needsReconciliation \/ (~ok /\ ~closed))
  /\ cache' = IF ok THEN cache ELSE Gap(IF JetStream THEN cache ELSE Missed(cache))
  /\ Reconcile(IF JetStream THEN ~ok ELSE Idle(queue') /\ needsReconciliation')
  /\ UNCHANGED <<connVars, busVars, statusMonitor, wire, orphans, unpublished, drops, ends>>

\* A delivery of a former subscription is over; nothing waits for it.
OrphanSettles(e, ok) ==
  /\ e \in orphans /\ orphans' = orphans \ {e}
  /\ (ok \/ ("orphan" \in Faults /\ fails < MaxFails)) /\ fails' = IF ok THEN fails ELSE fails + 1
  /\ applied' = IF ok THEN applied \cup {e} ELSE applied
  /\ needsReconciliation' = (needsReconciliation \/ (~ok /\ ~closed))
  /\ cache' = IF ok THEN cache ELSE Gap(IF JetStream THEN cache ELSE Missed(cache))
  /\ Reconcile(JetStream /\ ~ok)
  /\ UNCHANGED <<connVars, busVars, statusMonitor, wire, log, queue, unpublished, drops, ends>>

\* The flush of reconcileSubscription is answered, or there is no connection to flush.
Reconciled ==
  /\ reconciling /\ reconciling' = FALSE
  /\ connection # NoConn => conn[connection] = "up"
  /\ subscription = NoConn /\ ~closed => JetStream \/ "unsubscribed" \in Faults
  /\ IF closed \/ subscriptionLost \/ "reconcile" \notin sameEpoch
     THEN UNCHANGED <<needsReconciliation, cache>>
     ELSE needsReconciliation' = FALSE /\ cache' = OnStatus(cache, "subscribed")
  /\ UNCHANGED <<connVars, busVars, statusMonitor, sameEpoch, deliveryVars, budget>>

\* ... or fails with the connection, which the client has given up.
ReconcileFails ==
  /\ reconciling /\ reconciling' = FALSE
  /\ connection # NoConn /\ conn[connection] = "closed"
  /\ cache' = OnStatus(cache, "error")
  /\ UNCHANGED <<connVars, busVars, statusMonitor, sameEpoch, needsReconciliation, deliveryVars, budget>>

RestoreDone ==
  /\ cache.restoring /\ cache' = Restored(cache)
  /\ UNCHANGED <<connVars, busVars, statusVars, deliveryVars, budget>>

-----------------------------------------------------------------------------

\* close() of the cache and the synchronous part of disconnect().
Disconnect ==
  /\ closing = "no" /\ handler /\ closing' = "closing"
  /\ "lateClose" \in Faults \/ (dialing = {} /\ preparing = NoConn)
  /\ closed' = TRUE /\ handler' = FALSE /\ subscriptionLost' = FALSE /\ resubscribeTimer' = FALSE
  /\ sameEpoch' = {} /\ cache' = CloseConsumer(cache)
  /\ queue' = Closed(queue) /\ statusMonitor' = [connection |-> NoConn, at |-> "off"]
  /\ subscription' = NoConn /\ serverSub' = FALSE /\ wire' = <<>>
  /\ UNCHANGED <<connVars, preparing, first, reconciling, needsReconciliation, log, orphans,
                 unpublished, applied, budget>>

\* mutant: disconnect() forgets its connection without closing it.
DisconnectEndsForgets ==
  /\ closing = "closing" /\ closing' = "done" /\ connection' = NoConn
  /\ UNCHANGED <<conn, ownsConnection, dialing, preparing, first, subscription, serverSub, handler, closed,
                 subscriptionLost, resubscribeTimer, statusVars, deliveryVars, cache, budget>>

\* The awaited part: the connection is closed when it is the bus's own.
DisconnectEnds ==
  /\ closing = "closing" /\ closing' = "done"
  /\ IF connection # NoConn /\ ownsConnection
     THEN conn' = [conn EXCEPT ![connection] = "closed"] /\ connection' = NoConn
     ELSE UNCHANGED <<conn, connection>>
  /\ UNCHANGED <<ownsConnection, dialing, preparing, first, subscription, serverSub, handler, closed,
                 subscriptionLost, resubscribeTimer, statusVars, deliveryVars, cache, budget>>

Next ==
  /\ \/ Subscribe \/ TimerFires \/ PublisherDials \/ Prepared \/ PrepareFails
     \/ MonitorFlushed \/ SubArrives \/ SubscriptionEnds \/ MessageArrives
     \/ Reconciled \/ ReconcileFails \/ RestoreDone \/ Disconnect \/ DisconnectEnds
     \/ \E c \in Conn : ConnDrops(c) \/ ConnReconnects(c) \/ ConnGivesUp(c)
     \/ \E w \in {"subscribe", "publish"} : DialFails(w) \/ \E c \in Conn : Dialed(w, c)
     \/ \E e \in Event : PeerPublishes(e) \/ NextMessage(e)
     \/ \E e \in Event, ok \in BOOLEAN : Settles(e, ok) \/ OrphanSettles(e, ok)
  /\ UNCHANGED setting

\* Dials and requests are answered, timers fire, the client reconnects or gives up.
Fairness ==
  /\ WF_vars(Subscribe) /\ WF_vars(TimerFires) /\ WF_vars(Prepared \/ PrepareFails)
  /\ WF_vars(MonitorFlushed) /\ WF_vars(SubArrives) /\ WF_vars(MessageArrives)
  /\ WF_vars(Reconciled \/ ReconcileFails) /\ WF_vars(RestoreDone) /\ WF_vars(DisconnectEnds)
  /\ \A c \in Conn : WF_vars(ConnReconnects(c) \/ ConnGivesUp(c))
  /\ \A w \in {"subscribe", "publish"} : WF_vars(DialFails(w) \/ \E c \in Conn : Dialed(w, c))
  /\ \A e \in Event : /\ WF_vars(NextMessage(e))
                      /\ WF_vars(\E ok \in BOOLEAN : Settles(e, ok))
                      /\ WF_vars(\E ok \in BOOLEAN : OrphanSettles(e, ok))
Spec == Init /\ [][Next]_vars /\ Fairness

-----------------------------------------------------------------------------

(***************************************************************************)
(* The cache never trusts local copies that an invalidation has missed since *)
(* they were last flushed.                                                   *)
(*                                                                         *)
(* Left out are four races, in each of which it does: the connection is lost *)
(* while the status loop confirms its recovery, which ends the loop, and a   *)
(* third loss goes unnoticed ("flap");                                       *)
(* 'subscribed' is reported before the server knows the SUB ("lateSub");     *)
(* publish() and subscribe() dial at once and the subscription is not on the *)
(* connection that is watched ("publisher"); failed deliveries are           *)
(* reconciled while there is no subscription ("unsubscribed").               *)
(***************************************************************************)
NoTrustAcrossGap ==
  Faults \cap {"flap", "lateSub", "publisher", "unsubscribed"} = {} =>
    (cache.trusted /\ ~cache.closed => ~cache.gap)

(***************************************************************************)
(* healthCheck() does not report a bus that receives nothing as healthy: a   *)
(* bus that had a subscription has one, knows that it was lost, or is making *)
(* a new one.                                                                *)
(***************************************************************************)
HealthHonest ==
  ~(handler /\ ~first /\ subscription = NoConn /\ preparing = NoConn
    /\ "subscribe" \notin dialing /\ ~subscriptionLost)

(***************************************************************************)
(* Every connection the bus dialled is closed when disconnect() has ended;   *)
(* an injected one is left to its owner.                                     *)
(*                                                                         *)
(* Left out: a dial, or a request for a JetStream consumer, that is under    *)
(* way when disconnect() begins ("lateClose").  disconnect() does not wait   *)
(* for it, and the connection is made, kept and subscribed afterwards.       *)
(***************************************************************************)
NoConnectionLeak ==
  "lateClose" \notin Faults /\ closing = "done" =>
    {c \in Conn : conn[c] \in {"up", "down"}} \subseteq
      IF Injected THEN {CHOOSE c \in Conn : TRUE} ELSE {}

(***************************************************************************)
(* A bus that has lost its subscription gets it back and the cache its       *)
(* trust, once connections no longer fail: there is always a timer, a client *)
(* that re-dials or a loop that waits for it.                                *)
(*                                                                         *)
(* Left out: a connection lost while the status loop confirms its recovery   *)
(* ("flap"), which ends the loop: later recoveries go unseen and trust does  *)
(* not come back.  And a first subscribe() that failed, which nobody repeats. *)
(***************************************************************************)
TrustRestored ==
  "flap" \notin Faults =>
    <>[](cache.trusted \/ cache.closed \/ (first /\ subscription = NoConn))

(***************************************************************************)
(* JetStream: an invalidation leaves the stream only when it was applied     *)
(* here, whatever fails or disconnects between its delivery and its ack.     *)
(***************************************************************************)
AckedMeansApplied == JetStream => Event \ (unpublished \cup log) \subseteq applied

(***************************************************************************)
(* JetStream: and every invalidation is applied in the end.                  *)
(***************************************************************************)
EventuallyApplied ==
  JetStream =>
    \A e \in Event : e \in log ~> e \in applied \/ closed \/ (first /\ subscription = NoConn)
=============================================================================
