----------------------------- MODULE EventBuses -----------------------------
(***************************************************************************)
(* The event buses and what receives their events.  A behaviour is about one *)
(* of them, chosen at the start; the others stay as they are:                *)
(*   "redis"   RedisEventBus, over a client that repeats commands when it    *)
(*             has reconnected (autoResendUnfulfilledCommands) or does not;  *)
(*   "nats"    NatsEventBus, over core NATS or a JetStream consumer;         *)
(*   "rabbit"  RabbitMQEventBus, with a queue per process or a durable one;  *)
(*   "retry"   the retry queue of the publishing side;                       *)
(*   "intake"  the events that reach a cache without an L2.                  *)
(***************************************************************************)
EXTENDS Naturals, FiniteSets

CONSTANTS
  Conn, NoConn, NoEvent,
  Concurrency, MaxSize, MaxBytes, MaxDrops, MaxFails,      \* of the three buses
  Event, Bytes,                                            \* of RedisEventBus
  NatsEvent, NatsBytes, NatsSettings,                      \* of NatsEventBus
  Message, DeliveryBytes, RabbitSettings, MaxCancels,      \* of RabbitMQEventBus
  Publication, Sizes, MaxEntries, MaxBacklog, MaxClears,   \* of EventRetryQueue
  Key, Runner, MaxVersion, IntakeSettings                  \* of EventIntake

VARIABLES
  part,
  r_resend, r_link, r_drops, r_serverSub, r_wire, r_subscribing, r_resubscribing, r_sameEpoch,
  r_subscribed, r_handler, r_messageListener, r_needsReconciliation, r_closing, r_queue, r_cache,
  r_unpublished,
  n_setting, n_conn, n_connection, n_ownsConnection, n_dialing, n_preparing, n_first,
  n_subscription, n_serverSub, n_handler, n_closed, n_subscriptionLost, n_resubscribeTimer,
  n_needsReconciliation, n_statusMonitor, n_reconciling, n_sameEpoch, n_closing, n_wire, n_log,
  n_queue, n_orphans, n_cache, n_unpublished, n_applied, n_drops, n_ends, n_fails,
  q_setting, q_conn, q_connection, q_initPromise, q_consumerTag, q_handler, q_closed,
  q_reconnectTimer, q_needsReconciliation, q_reconnect, q_subscribing, q_answered, q_closing,
  q_parting, q_consumer, q_bound, q_broker, q_unacked, q_queue, q_cache, q_unpublished, q_applied,
  q_drops, q_cancels, q_fails,
  events, bytes, flushingEntry, discard, call, joined, dropped, cleared, clears, acked, unacked,
  i_setting, i_versioned, i_db, i_l1, i_gen, i_tracked, i_saturated, i_seen, i_lapsed, i_task,
  i_fill, i_log, i_flying, i_peer, i_spent, i_floor, i_handled

Redis == INSTANCE RedisEventBus
         WITH resend <- r_resend,
              link <- r_link, drops <- r_drops, serverSub <- r_serverSub, wire <- r_wire,
              subscribing <- r_subscribing, resubscribing <- r_resubscribing,
              sameEpoch <- r_sameEpoch, subscribed <- r_subscribed, handler <- r_handler,
              messageListener <- r_messageListener, needsReconciliation <- r_needsReconciliation,
              closing <- r_closing, queue <- r_queue, cache <- r_cache,
              unpublished <- r_unpublished
Nats == INSTANCE NatsEventBus
         WITH Event <- NatsEvent, Bytes <- NatsBytes, Settings <- NatsSettings, setting <- n_setting,
              conn <- n_conn, connection <- n_connection, ownsConnection <- n_ownsConnection,
              dialing <- n_dialing, preparing <- n_preparing, first <- n_first,
              subscription <- n_subscription, serverSub <- n_serverSub, handler <- n_handler,
              closed <- n_closed, subscriptionLost <- n_subscriptionLost,
              resubscribeTimer <- n_resubscribeTimer,
              needsReconciliation <- n_needsReconciliation, statusMonitor <- n_statusMonitor,
              reconciling <- n_reconciling, sameEpoch <- n_sameEpoch, closing <- n_closing,
              wire <- n_wire, log <- n_log, queue <- n_queue, orphans <- n_orphans,
              cache <- n_cache, unpublished <- n_unpublished, applied <- n_applied,
              drops <- n_drops, ends <- n_ends, fails <- n_fails
Rabbit == INSTANCE RabbitMQEventBus
         WITH Event <- Message \X Conn, Bytes <- DeliveryBytes, Settings <- RabbitSettings,
              setting <- q_setting,
              conn <- q_conn, connection <- q_connection, initPromise <- q_initPromise,
              consumerTag <- q_consumerTag, handler <- q_handler, closed <- q_closed,
              reconnectTimer <- q_reconnectTimer, needsReconciliation <- q_needsReconciliation,
              reconnect <- q_reconnect, subscribing <- q_subscribing, answered <- q_answered,
              closing <- q_closing, parting <- q_parting, consumer <- q_consumer,
              bound <- q_bound, broker <- q_broker, unacked <- q_unacked, queue <- q_queue,
              cache <- q_cache, unpublished <- q_unpublished, applied <- q_applied,
              drops <- q_drops, cancels <- q_cancels, fails <- q_fails
Retry == INSTANCE EventRetryQueue
         WITH Event <- Publication, Bytes <- Sizes, MaxSize <- MaxEntries, MaxBytes <- MaxBacklog
Intake == INSTANCE EventIntake
         WITH Settings <- IntakeSettings, Idle <- NoEvent, NoGeneration <- NoEvent,
              setting <- i_setting,
              versioned <- i_versioned, db <- i_db, l1 <- i_l1, gen <- i_gen,
              tracked <- i_tracked, saturated <- i_saturated, seen <- i_seen, lapsed <- i_lapsed,
              task <- i_task, fill <- i_fill, log <- i_log, flying <- i_flying, peer <- i_peer,
              spent <- i_spent, floor <- i_floor, handled <- i_handled

ASSUME EventBusAssumption ==
  /\ Redis!BusAssumption /\ Nats!NatsAssumption /\ Rabbit!RabbitAssumption
  /\ Retry!RetryAssumption /\ Intake!IntakeAssumption

rVars == <<r_link, r_drops, r_serverSub, r_wire, r_subscribing, r_resubscribing, r_sameEpoch,
           r_subscribed, r_handler, r_messageListener, r_needsReconciliation, r_closing, r_queue,
           r_cache, r_unpublished>>
nVars == <<n_conn, n_connection, n_ownsConnection, n_dialing, n_preparing, n_first,
           n_subscription, n_serverSub, n_handler, n_closed, n_subscriptionLost,
           n_resubscribeTimer, n_needsReconciliation, n_statusMonitor, n_reconciling, n_sameEpoch,
           n_closing, n_wire, n_log, n_queue, n_orphans, n_cache, n_unpublished, n_applied,
           n_drops, n_ends, n_fails>>
qVars == <<q_conn, q_connection, q_initPromise, q_consumerTag, q_handler, q_closed,
           q_reconnectTimer, q_needsReconciliation, q_reconnect, q_subscribing, q_answered,
           q_closing, q_parting, q_consumer, q_bound, q_broker, q_unacked, q_queue, q_cache,
           q_unpublished, q_applied, q_drops, q_cancels, q_fails>>
pVars == <<events, bytes, flushingEntry, discard, call, joined, dropped, cleared, clears, acked,
           unacked>>
iVars == <<i_versioned, i_db, i_l1, i_gen, i_tracked, i_saturated, i_seen, i_lapsed, i_task,
           i_fill, i_log, i_flying, i_peer, i_spent, i_floor, i_handled>>
\* The scenarios do not change.
settings == <<part, r_resend, n_setting, q_setting, i_setting>>
vars == <<settings, rVars, nVars, qVars, pVars, iVars>>

Init ==
  /\ part \in {"redis", "nats", "rabbit", "retry", "intake"}
  /\ Redis!Init /\ Nats!Init /\ Rabbit!Init /\ Retry!Init /\ Intake!Init
  \* what does not take part is of one kind
  /\ part # "redis" => r_link = "up" /\ r_resend
  /\ part # "nats" => n_setting = CHOOSE s \in NatsSettings : TRUE
  /\ part # "rabbit" => q_setting = CHOOSE s \in RabbitSettings : TRUE
  /\ part # "intake" => i_setting = (CHOOSE s \in IntakeSettings : TRUE) /\ i_versioned

Next ==
  /\ \/ part = "redis"  /\ Redis!Next  /\ UNCHANGED <<nVars, qVars, pVars, iVars>>
     \/ part = "nats"   /\ Nats!Next   /\ UNCHANGED <<rVars, qVars, pVars, iVars>>
     \/ part = "rabbit" /\ Rabbit!Next /\ UNCHANGED <<rVars, nVars, pVars, iVars>>
     \/ part = "retry"  /\ Retry!Next  /\ UNCHANGED <<rVars, nVars, qVars, iVars>>
     \/ part = "intake" /\ Intake!Next /\ UNCHANGED <<rVars, nVars, qVars, pVars>>
  /\ UNCHANGED settings

\* The fairness of each bus module, where the behaviour is about it.
RedisFairness ==
  /\ WF_rVars(part = "redis" /\ Redis!Subscribe) /\ WF_rVars(part = "redis" /\ Redis!SubscribeAcked)
  /\ WF_rVars(part = "redis" /\ Redis!ResubscribeAcked) /\ WF_rVars(part = "redis" /\ Redis!Ready)
  /\ WF_rVars(part = "redis" /\ Redis!MessageArrives) /\ WF_rVars(part = "redis" /\ Redis!RestoreDone)
  /\ WF_rVars(part = "redis" /\ Redis!Unsubscribed)
  /\ \A e \in Event : WF_rVars(part = "redis" /\ \E ok \in BOOLEAN : Redis!HandlerSettles(e, ok))
NatsFairness ==
  /\ WF_nVars(part = "nats" /\ Nats!Subscribe) /\ WF_nVars(part = "nats" /\ Nats!TimerFires)
  /\ WF_nVars(part = "nats" /\ (Nats!Prepared \/ Nats!PrepareFails))
  /\ WF_nVars(part = "nats" /\ Nats!MonitorFlushed) /\ WF_nVars(part = "nats" /\ Nats!SubArrives)
  /\ WF_nVars(part = "nats" /\ Nats!MessageArrives) /\ WF_nVars(part = "nats" /\ Nats!RestoreDone)
  /\ WF_nVars(part = "nats" /\ (Nats!Reconciled \/ Nats!ReconcileFails))
  /\ WF_nVars(part = "nats" /\ Nats!DisconnectEnds)
  /\ \A c \in Conn : WF_nVars(part = "nats" /\ (Nats!ConnReconnects(c) \/ Nats!ConnGivesUp(c)))
  /\ \A w \in {"subscribe", "publish"} :
       WF_nVars(part = "nats" /\ (Nats!DialFails(w) \/ \E c \in Conn : Nats!Dialed(w, c)))
  /\ \A e \in NatsEvent :
       /\ WF_nVars(part = "nats" /\ Nats!NextMessage(e))
       /\ WF_nVars(part = "nats" /\ \E ok \in BOOLEAN : Nats!Settles(e, ok))
       /\ WF_nVars(part = "nats" /\ \E ok \in BOOLEAN : Nats!OrphanSettles(e, ok))
RabbitFairness ==
  /\ WF_qVars(part = "rabbit" /\ Rabbit!Subscribe) /\ WF_qVars(part = "rabbit" /\ Rabbit!ReconnectTimerFires)
  /\ WF_qVars(part = "rabbit" /\ (Rabbit!OpenDone \/ Rabbit!OpenFails))
  /\ WF_qVars(part = "rabbit" /\ Rabbit!RestoreDone) /\ WF_qVars(part = "rabbit" /\ Rabbit!DisconnectEnds)
  /\ \A s \in Rabbit!Caller : /\ WF_qVars(part = "rabbit" /\ Rabbit!ConsumeAnswered(s))
                         /\ WF_qVars(part = "rabbit" /\ Rabbit!SubscribeEnds(s))
  /\ \A m \in Message : WF_qVars(part = "rabbit" /\ Rabbit!Deliver(m))
  /\ \A e \in Message \X Conn : WF_qVars(part = "rabbit" /\ \E ok \in BOOLEAN : Rabbit!Settles(e, ok))
RetryFairness ==
  /\ WF_pVars(part = "retry" /\ (Retry!DrainSent \/ \E out \in BOOLEAN : Retry!DrainFails(out)))
  /\ \A e \in Publication :
       WF_pVars(part = "retry" /\ (Retry!Sent(e) \/ \E out \in BOOLEAN : Retry!SendFails(e, out)))

Spec == /\ Init /\ [][Next]_vars
        /\ RedisFairness /\ NatsFairness /\ RabbitFairness /\ RetryFairness

------------------------------------------------------------------------------
\* The types of every bus's fields and of the retry queue's.
TypeOK == Redis!TypeOK /\ Nats!TypeOK /\ Rabbit!TypeOK /\ Retry!TypeOK /\ Intake!TypeOK

\* The cache never trusts local copies that an invalidation has missed since they were
\* last flushed: no outage, overflow, failed handler or message given up goes unnoticed,
\* and no reconciliation that began before one restores trust (each bus's status events).
\* Left out are the cases in which it does: on Redis a first subscribe() that failed, on
\* NATS the races "flap", "lateSub", "publisher" and "unsubscribed", on RabbitMQ the race
\* "sameRead".
NoTrustAcrossGap == Redis!NoTrustAcrossGap /\ Nats!NoTrustAcrossGap /\ Rabbit!NoTrustAcrossGap

\* Once connections no longer fail, a bus rebuilds its subscription and the cache gets its
\* trust back, unless the cache is closed.  Left out are the cases in which it does not: on
\* Redis a client that keeps unanswered commands over a reconnection (r_resend), on NATS
\* the race "flap", and on NATS and RabbitMQ a first subscribe() that failed.
TrustRestored ==
  <>[](CASE part = "redis" -> r_cache.trusted \/ r_cache.closed \/ r_resend
         [] part = "nats" -> \/ n_cache.trusted \/ n_cache.closed
                             \/ n_first /\ n_subscription = NoConn
                             \/ "flap" \in n_setting.faults
         [] part = "rabbit" -> q_cache.trusted \/ q_cache.closed \/ ~q_handler
         [] OTHER -> TRUE)

\* When disconnect() has ended, every connection a bus opened is closed or being closed;
\* one that was injected is left to its owner.  Left out is a disconnect() that meets a dial,
\* a prepared consumer or an init() under way (the race "lateClose" of NATS and RabbitMQ):
\* the connection then opened stays open.
NoConnectionLeak == Nats!NoConnectionLeak /\ Rabbit!NoConnectionLeak

\* After RedisEventBus.disconnect() no queued delivery reaches the cache's handler.
NothingAfterDisconnect == Redis!NothingAfterDisconnect

\* RabbitMQEventBus: a consumer tag means that the broker has that consumer, on the
\* connection in use.
ConsumingIsReal == Rabbit!ConsumingIsReal

\* An invalidation leaves the JetStream stream only when it was applied here, whatever
\* fails or disconnects between its delivery and its ack.
StreamAcked == Nats!AckedMeansApplied

\* Every invalidation of the stream is applied in the end.
StreamApplied ==
  []<>(part = "nats" /\ n_setting.jetStream =>
         NatsEvent \ n_unpublished \subseteq n_applied \/ n_closed \/ (n_first /\ n_subscription = NoConn))

\* Every message of a durable queue is settled in the end: none stays delivered and forgotten.
QueueDrains == []<>(part = "rabbit" /\ q_setting.durable => q_broker = {} \/ q_closed)

\* And it is settled only when it was applied, or with the trust of the cache.
SettledMeansHandled == Rabbit!SettledMeansHandled

\* The retry queue's byte count is exact and both limits are kept, whatever is dropped or
\* cleared while an entry is on its way.
LimitsKept == Retry!LimitsKept

\* An event whose publish() threw is queued, went out, was counted as dropped or cleared.
NothingVanishes == Retry!NothingVanishes

\* Concurrent calls do not send a backlog entry twice.
SentOnce == Retry!SentOnce

\* A call sends its own event only when the backlog is empty.
BacklogFirst == Retry!BacklogFirst

\* Every publish() returns or throws.
PublishAnswered == []<>(\A e \in Publication : call[e] \in {"idle", "done", "failed"})

\* Once a delete has evicted a key, no value from before it is read from L1 again, whatever
\* is delivered late or twice, although ids are forgotten and generations may run out of room
\* here or at the peer.  Left out are the keys of which a saturated peer publishes values
\* without a generation, and the mixtures EventIntake's OneSource excludes.
DeleteWins == Intake!DeleteWins

\* An event whose handler returned was applied to every one of its keys, whatever failed on
\* the way: no id is left behind that makes the next delivery a duplicate.  It is about
\* handlers that run one at a time.
HandledMeansApplied == Intake!HandledMeansApplied

\* What a bus believes of its connections is so: a consumer RabbitMQ counts on is a real one
\* (without the race "sameRead"), disconnect() leaves no connection of NATS or RabbitMQ open
\* unless it meets a dial or an init() under way (the race "lateClose"), and on Redis no
\* queued delivery reaches the handler after it.
ConnectionsExact == /\ [](TypeOK /\ NoConnectionLeak /\ ConsumingIsReal)
                    /\ NothingAfterDisconnect

\* A message of a stream or of a durable queue is settled only when it was applied here, or
\* with the trust of the cache, whatever fails between its delivery and its ack.
SettledMeansApplied == []StreamAcked /\ SettledMeansHandled

\* Nothing waits for ever: messages of a stream are applied, those of a durable queue are
\* settled, and every publish() returns or throws.
NothingForgotten == StreamApplied /\ QueueDrains /\ PublishAnswered

\* The backlog of failed publications: its byte count is exact and within its limits, no
\* event vanishes from it or is sent twice, and none is overtaken by a new one.
BacklogExact == [](LimitsKept /\ NothingVanishes /\ SentOnce) /\ BacklogFirst
=============================================================================
