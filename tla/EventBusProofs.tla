--------------------------- MODULE EventBusProofs ---------------------------
(***************************************************************************)
(* Theorems about EventBuses: the trust that a cache places in its bus, and    *)
(* what it does with the events that it receives.                            *)
(***************************************************************************)
EXTENDS EventBuses, Queues, TLAPS

-----------------------------------------------------------------------------
(* The cache's trust.  The three buses drive it with the same operators. *)

Consumer == Redis!Consumer

\* L1 is used, or will be once its flush has ended.
Trusting(c) == c.trusted \/ c.restoring

\* d is c after the cache has been told to distrust its copies.
Distrusted(c, d) ==
  /\ d \in Consumer /\ d.closed = c.closed
  /\ c.closed => d = c
  /\ ~c.closed => ~Trusting(d) /\ ~d.gap

\* d is c after the cache has been told to reconcile.
Reconciling(c, d) ==
  /\ d \in Consumer /\ d.closed = c.closed
  /\ c.closed => d = c
  /\ ~c.closed => ~d.gap

\* d is c but for the last status.
SameTrust(c, d) ==
  /\ d \in Consumer /\ d.closed = c.closed
  /\ d.trusted = c.trusted /\ d.restoring = c.restoring /\ d.gap = c.gap

\* d is c with one more invalidation that it has not seen.
Gapped(c, d) ==
  /\ d \in Consumer /\ d.closed = c.closed
  /\ d.trusted = c.trusted /\ d.restoring = c.restoring

\* d is c when its flush has ended.
Flushed(c, d) ==
  /\ d \in Consumer /\ d.closed = c.closed /\ d.gap = c.gap
  /\ Trusting(d) => Trusting(c)

\* What RedisEventBus's statuses and losses do to its cache.
LEMMA RedisConsumer ==
  ASSUME NEW c \in Consumer
  PROVE  /\ Distrusted(c, Redis!OnStatus(c, "error"))
         /\ Distrusted(c, Redis!OnStatus(c, "disconnected"))
         /\ Distrusted(c, Redis!OnStatus(c, "connecting"))
         /\ Reconciling(c, Redis!OnStatus(c, "subscribed"))
         /\ SameTrust(c, Redis!OnStatus(c, "ready"))
         /\ Gapped(c, Redis!Missed(c))
         /\ c.restoring => Flushed(c, Redis!Restored(c))
         /\ Redis!CloseConsumer(c) \in Consumer /\ Redis!CloseConsumer(c).closed
<1> USE DEF Consumer, Redis!Consumer, Redis!Status, Trusting
<1>1. /\ Distrusted(c, Redis!OnStatus(c, "error"))
      /\ Distrusted(c, Redis!OnStatus(c, "disconnected"))
      /\ Distrusted(c, Redis!OnStatus(c, "connecting"))
  BY ZenonT(60) DEF Redis!OnStatus, Redis!MarkUntrusted, Redis!Bad, Distrusted
<1>2. Reconciling(c, Redis!OnStatus(c, "subscribed"))
  BY DEF Redis!OnStatus, Redis!Bad, Reconciling
<1>3. SameTrust(c, Redis!OnStatus(c, "ready"))
  BY DEF Redis!OnStatus, Redis!Bad, SameTrust
<1>4. Gapped(c, Redis!Missed(c))
  BY DEF Redis!Missed, Gapped
<1>5. c.restoring => Flushed(c, Redis!Restored(c))
  BY DEF Redis!Restored, Flushed
<1>6. Redis!CloseConsumer(c) \in Consumer /\ Redis!CloseConsumer(c).closed
  BY DEF Redis!CloseConsumer
<1> QED  BY <1>1, <1>2, <1>3, <1>4, <1>5, <1>6

\* What NatsEventBus's statuses and losses do to its cache.
LEMMA NatsConsumer ==
  ASSUME NEW c \in Consumer
  PROVE  /\ Distrusted(c, Nats!OnStatus(c, "error"))
         /\ Distrusted(c, Nats!OnStatus(c, "disconnected"))
         /\ Distrusted(c, Nats!OnStatus(c, "connecting"))
         /\ Reconciling(c, Nats!OnStatus(c, "subscribed"))
         /\ SameTrust(c, Nats!OnStatus(c, "ready"))
         /\ Gapped(c, Nats!Missed(c))
         /\ c.restoring => Flushed(c, Nats!Restored(c))
         /\ Nats!CloseConsumer(c) \in Consumer /\ Nats!CloseConsumer(c).closed
<1> USE DEF Consumer, Redis!Consumer, Redis!Status, Trusting
<1>1. /\ Distrusted(c, Nats!OnStatus(c, "error"))
      /\ Distrusted(c, Nats!OnStatus(c, "disconnected"))
      /\ Distrusted(c, Nats!OnStatus(c, "connecting"))
  BY ZenonT(60) DEF Nats!OnStatus, Nats!MarkUntrusted, Nats!Bad, Distrusted
<1>2. Reconciling(c, Nats!OnStatus(c, "subscribed"))
  BY DEF Nats!OnStatus, Nats!Bad, Reconciling
<1>3. SameTrust(c, Nats!OnStatus(c, "ready"))
  BY DEF Nats!OnStatus, Nats!Bad, SameTrust
<1>4. Gapped(c, Nats!Missed(c))
  BY DEF Nats!Missed, Gapped
<1>5. c.restoring => Flushed(c, Nats!Restored(c))
  BY DEF Nats!Restored, Flushed
<1>6. Nats!CloseConsumer(c) \in Consumer /\ Nats!CloseConsumer(c).closed
  BY DEF Nats!CloseConsumer
<1> QED  BY <1>1, <1>2, <1>3, <1>4, <1>5, <1>6

\* What RabbitEventBus's statuses and losses do to its cache.
LEMMA RabbitConsumer ==
  ASSUME NEW c \in Consumer
  PROVE  /\ Distrusted(c, Rabbit!OnStatus(c, "error"))
         /\ Distrusted(c, Rabbit!OnStatus(c, "disconnected"))
         /\ Distrusted(c, Rabbit!OnStatus(c, "connecting"))
         /\ Reconciling(c, Rabbit!OnStatus(c, "subscribed"))
         /\ SameTrust(c, Rabbit!OnStatus(c, "ready"))
         /\ Gapped(c, Rabbit!Missed(c))
         /\ c.restoring => Flushed(c, Rabbit!Restored(c))
         /\ Rabbit!CloseConsumer(c) \in Consumer /\ Rabbit!CloseConsumer(c).closed
<1> USE DEF Consumer, Redis!Consumer, Redis!Status, Trusting
<1>1. /\ Distrusted(c, Rabbit!OnStatus(c, "error"))
      /\ Distrusted(c, Rabbit!OnStatus(c, "disconnected"))
      /\ Distrusted(c, Rabbit!OnStatus(c, "connecting"))
  BY DEF Rabbit!OnStatus, Rabbit!MarkUntrusted, Rabbit!Bad, Distrusted
<1>2. Reconciling(c, Rabbit!OnStatus(c, "subscribed"))
  BY DEF Rabbit!OnStatus, Rabbit!Bad, Reconciling
<1>3. SameTrust(c, Rabbit!OnStatus(c, "ready"))
  BY DEF Rabbit!OnStatus, Rabbit!Bad, SameTrust
<1>4. Gapped(c, Rabbit!Missed(c))
  BY DEF Rabbit!Missed, Gapped
<1>5. c.restoring => Flushed(c, Rabbit!Restored(c))
  BY DEF Rabbit!Restored, Flushed
<1>6. Rabbit!CloseConsumer(c) \in Consumer /\ Rabbit!CloseConsumer(c).closed
  BY DEF Rabbit!CloseConsumer
<1> QED  BY <1>1, <1>2, <1>3, <1>4, <1>5, <1>6

-----------------------------------------------------------------------------
(* RedisEventBus *)

\* The handler queue keeps its type, and only disconnect() closes it.
LEMMA RedisQueue ==
  ASSUME NEW q \in Redis!Queue, NEW e \in Event
  PROVE  /\ Redis!Enqueued(q, e) \in Redis!Queue /\ Redis!Enqueued(q, e).closed = q.closed
         /\ Redis!Settled(q, e) \in Redis!Queue /\ Redis!Settled(q, e).closed = q.closed
<1>0. /\ <<>> \in Seq(Event) /\ q.pending \in Seq(Event) /\ Append(q.pending, e) \in Seq(Event)
      /\ q.active \ {e} \in SUBSET Event /\ q.active \in SUBSET Event
  BY DEF Redis!Queue
<1>1. ASSUME NEW p \in Redis!Queue
      PROVE  Redis!Drained(p) \in Redis!Queue /\ Redis!Drained(p).closed = p.closed
  <2>1. CASE p.pending = <<>>
    BY <2>1 DEF Redis!Drained, Redis!Queue
  <2>2. CASE p.pending # <<>>
    <3>1. /\ p.pending \in Seq(Event) /\ Head(p.pending) \in Event /\ Tail(p.pending) \in Seq(Event)
      BY <2>2 DEF Redis!Queue
    <3> QED  BY <3>1 DEF Redis!Drained, Redis!Queue
  <2> QED  BY <2>1, <2>2
<1>2. /\ [q EXCEPT !.pending = Append(@, e)] \in Redis!Queue
      /\ [q EXCEPT !.pending = Append(@, e)].closed = q.closed
      /\ [q EXCEPT !.active = @ \ {e}] \in Redis!Queue
      /\ [q EXCEPT !.active = @ \ {e}].closed = q.closed
  BY <1>0 DEF Redis!Queue
<1>3. Redis!Enqueued(q, e) \in Redis!Queue /\ Redis!Enqueued(q, e).closed = q.closed
  BY <1>1, <1>2, Zenon DEF Redis!Enqueued
<1>4. Redis!Settled(q, e) \in Redis!Queue /\ Redis!Settled(q, e).closed = q.closed
  BY <1>1, <1>2, Zenon DEF Redis!Settled
<1> QED  BY <1>3, <1>4

LEMMA RedisQueuesClear ==
  ASSUME NEW q \in Redis!Queue
  PROVE  /\ Redis!Discarded(q) \in Redis!Queue /\ Redis!Discarded(q).closed = q.closed
         /\ Redis!Closed(q) \in Redis!Queue
<1>1. <<>> \in Seq(Event)
  OBVIOUS
<1> QED  BY <1>1 DEF Redis!Discarded, Redis!Closed, Redis!Queue

RedisTypes ==
  /\ r_cache \in Consumer /\ r_queue \in Redis!Queue /\ r_wire \in Seq(Event)
  /\ r_subscribed \in BOOLEAN /\ r_messageListener \in BOOLEAN /\ r_handler \in BOOLEAN
  /\ r_serverSub \in BOOLEAN

\* A cache that trusts, or is about to, is on a connection the server sends the channel to:
\* what peers publish reaches its queue.  Before subscribe() nothing has been asked, and the
\* cache, the listener and the queue are given up together.
RedisInv ==
  /\ RedisTypes
  /\ r_cache.closed <=> r_closing # "no"
  /\ r_cache.closed => ~r_messageListener
  /\ r_queue.closed => r_cache.closed
  /\ r_subscribing = "no" =>
       ~r_handler /\ r_resubscribing = "no" /\ ~r_subscribed /\ ~Trusting(r_cache)
  /\ r_subscribed => r_serverSub
  /\ Trusting(r_cache) /\ r_messageListener => r_serverSub /\ ~r_cache.gap

LEMMA RedisInit == Redis!Init => RedisInv
<1> SUFFICES ASSUME Redis!Init PROVE RedisInv
  OBVIOUS
<1>1. Redis!NewConsumer \in Consumer /\ ~Trusting(Redis!NewConsumer) /\ ~Redis!NewConsumer.closed
  BY DEF Consumer, Redis!Consumer, Redis!NewConsumer, Redis!Status, Trusting
<1>2. Redis!EmptyQueue \in Redis!Queue /\ ~Redis!EmptyQueue.closed
  <2>1. <<>> \in Seq(Event)
    OBVIOUS
  <2> QED  BY <2>1 DEF Redis!EmptyQueue, Redis!Queue
<1>3. r_wire \in Seq(Event)
  BY DEF Redis!Init
<1> QED  BY <1>1, <1>2, <1>3 DEF Redis!Init, RedisInv, RedisTypes

LEMMA RedisStep == RedisInv /\ Redis!Next => RedisInv'
<1> SUFFICES ASSUME RedisInv, Redis!Next PROVE RedisInv'
  OBVIOUS
<1> USE DEF RedisInv, RedisTypes
<1>c. r_cache \in Consumer
  OBVIOUS
<1>1. CASE Redis!Subscribe
  BY <1>1 DEF Redis!Subscribe, Redis!Sent, Redis!linkVars
<1>2. CASE Redis!SubscribeAcked
  <2>1. Reconciling(r_cache, r_cache')
    BY <1>2, RedisConsumer DEF Redis!SubscribeAcked
  <2> QED  BY <1>2, <2>1 DEF Redis!SubscribeAcked, Reconciling
<1>3. CASE Redis!ResubscribeAcked
  <2>1. (r_cache' = r_cache /\ UNCHANGED r_subscribed) \/ (Reconciling(r_cache, r_cache') /\ r_subscribed')
    BY <1>3, RedisConsumer DEF Redis!ResubscribeAcked
  <2>2. /\ r_serverSub' /\ r_serverSub' \in BOOLEAN /\ r_subscribed' \in BOOLEAN
        /\ r_subscribing # "no" /\ r_subscribing' # "no"
        /\ UNCHANGED <<r_queue, r_wire, r_messageListener, r_handler, r_closing>>
    BY <1>3 DEF Redis!ResubscribeAcked
  <2> QED  BY <2>1, <2>2 DEF Reconciling
<1>4. CASE Redis!LinkDrops
  <2> DEFINE c == Redis!OnStatus(r_cache, "disconnected")
  <2>1. Distrusted(r_cache, c)
    BY RedisConsumer
  <2>2. r_cache' = c \/ r_cache' = Redis!OnStatus(c, "error")
    BY <1>4 DEF Redis!LinkDrops, Redis!Reject
  <2> HIDE DEF c
  <2>3. r_cache' = c \/ Distrusted(c, r_cache')
    <3>1. c \in Consumer
      BY <2>1 DEF Distrusted
    <3> QED  BY <2>2, <3>1, RedisConsumer, Zenon
  <2>4. Distrusted(r_cache, r_cache')
    BY <2>1, <2>3 DEF Distrusted
  <2>5. r_messageListener' \in BOOLEAN /\ (r_messageListener' => r_messageListener)
    BY <1>4 DEF Redis!LinkDrops, Redis!Reject
  <2>6. /\ ~r_subscribed' /\ r_subscribed' \in BOOLEAN /\ r_serverSub' \in BOOLEAN
        /\ UNCHANGED <<r_handler, r_closing>> /\ r_wire' = <<>>
        /\ (r_subscribing' = "no" => r_subscribing = "no")
        /\ (r_resubscribing = "no" => r_resubscribing' = "no")
    BY <1>4 DEF Redis!LinkDrops, Redis!Reject, Redis!Hold
  <2>7. r_queue' \in Redis!Queue /\ r_queue'.closed = r_queue.closed
    <3>1. r_queue' = r_queue \/ r_queue' = Redis!Discarded(r_queue)
      BY <1>4 DEF Redis!LinkDrops
    <3> QED  BY <3>1, RedisQueuesClear
  <2> QED  BY <2>4, <2>5, <2>6, <2>7 DEF Distrusted, Trusting
<1>5. CASE Redis!HeldRejected
  <2>1. r_cache' = r_cache \/ Distrusted(r_cache, r_cache')
    BY <1>5, RedisConsumer DEF Redis!HeldRejected, Redis!Reject
  <2>3. r_messageListener' \in BOOLEAN /\ (r_messageListener' => r_messageListener)
    BY <1>5 DEF Redis!HeldRejected, Redis!Reject
  <2>4. /\ UNCHANGED <<r_handler, r_closing, r_subscribed, r_serverSub, r_queue, r_wire>>
        /\ (r_subscribing' = "no" => r_subscribing = "no")
        /\ (r_resubscribing = "no" => r_resubscribing' = "no")
    BY <1>5 DEF Redis!HeldRejected, Redis!Reject, Redis!linkVars
  <2> QED  BY <2>1, <2>3, <2>4 DEF Distrusted, Trusting
<1>6. CASE Redis!Ready
  <2>1. SameTrust(r_cache, r_cache')
    BY <1>6, RedisConsumer DEF Redis!Ready
  <2>2. /\ UNCHANGED <<r_handler, r_closing, r_subscribed, r_serverSub, r_queue, r_wire,
                       r_messageListener>>
        /\ (r_subscribing' = "no" => r_subscribing = "no")
        /\ (r_resubscribing = "no" /\ ~r_handler => r_resubscribing' = "no")
    BY <1>6 DEF Redis!Ready
  <2> QED  BY <2>1, <2>2 DEF SameTrust, Trusting
<1>7. CASE Redis!MessageArrives
  <2> DEFINE m == Redis!Missed(r_cache)
             e == Head(r_wire)
  <2>1. e \in Event /\ r_wire' \in Seq(Event)
    BY <1>7 DEF Redis!MessageArrives
  <2>2. Gapped(r_cache, m)
    BY RedisConsumer
  <2>3. /\ UNCHANGED <<r_handler, r_closing, r_subscribed, r_serverSub, r_messageListener,
                       r_subscribing, r_resubscribing>>
    BY <1>7 DEF Redis!MessageArrives, Redis!commandVars
  <2>4. r_queue' \in Redis!Queue /\ r_queue'.closed = r_queue.closed
    <3>1. r_queue' = r_queue \/ r_queue' = Redis!Enqueued(r_queue, e)
      BY <1>7 DEF Redis!MessageArrives
    <3> QED  BY <2>1, <3>1, RedisQueue, ZenonT(60)
  <2>5. \/ r_cache' = r_cache
        \/ r_cache' = m /\ (~r_messageListener \/ r_queue.closed)
        \/ r_cache' = Redis!OnStatus(m, "error")
    BY <1>7 DEF Redis!MessageArrives
  <2> HIDE DEF m
  <2>6. r_cache' = Redis!OnStatus(m, "error") => Distrusted(m, r_cache')
    BY <2>2, RedisConsumer DEF Gapped
  <2>7. /\ r_cache' \in Consumer /\ r_cache'.closed = r_cache.closed
        /\ (Trusting(r_cache') => Trusting(r_cache))
        /\ (Trusting(r_cache') /\ r_messageListener => r_cache' = r_cache)
    BY <2>2, <2>5, <2>6 DEF Distrusted, Gapped, Trusting
  <2> QED  BY <2>1, <2>3, <2>4, <2>7
<1>8. CASE Redis!RestoreDone
  <2>1. Flushed(r_cache, r_cache')
    BY <1>8, RedisConsumer DEF Redis!RestoreDone
  <2> QED  BY <1>8, <2>1 DEF Redis!RestoreDone, Redis!linkVars, Redis!commandVars, Flushed
<1>9. CASE Redis!Disconnect
  <2>1. r_cache' \in Consumer /\ r_cache'.closed /\ r_closing' # "no" /\ ~r_messageListener'
    BY <1>9, RedisConsumer DEF Redis!Disconnect, Redis!Ends
  <2>2. r_queue' \in Redis!Queue
    <3>1. r_queue' = r_queue \/ r_queue' = Redis!Closed(r_queue)
      BY <1>9 DEF Redis!Disconnect
    <3> QED  BY <3>1, RedisQueuesClear
  <2>3. /\ (r_wire' = <<>> \/ r_wire' = r_wire) /\ r_subscribed' = FALSE /\ r_handler' = FALSE
        /\ r_messageListener' = FALSE /\ r_serverSub' \in BOOLEAN /\ r_subscribing' # "no"
    BY <1>9 DEF Redis!Disconnect, Redis!Ends
  <2>4. r_wire' \in Seq(Event)
    <3>1. <<>> \in Seq(Event)
      OBVIOUS
    <3> QED  BY <2>3, <3>1, Zenon
  <2> QED  BY <2>1, <2>2, <2>3, <2>4
<1>10. CASE Redis!Unsubscribed
  <2>1. /\ r_wire' = <<>> /\ r_subscribed' = FALSE /\ r_serverSub' = FALSE /\ r_closing' = "done"
        /\ (r_subscribing' = "no" => r_subscribing = "no") /\ r_resubscribing' = "no"
        /\ r_closing # "no" /\ UNCHANGED <<r_handler, r_messageListener, r_queue, r_cache>>
    BY <1>10 DEF Redis!Unsubscribed, Redis!Ends
  <2>2. r_wire' \in Seq(Event)
    BY <2>1
  <2> QED  BY <2>1, <2>2
<1>11. ASSUME NEW e \in Event, Redis!PeerPublishes(e) PROVE RedisInv'
  <2>1. r_cache' = r_cache \/ (Gapped(r_cache, r_cache') /\ ~r_serverSub)
    BY <1>11, RedisConsumer DEF Redis!PeerPublishes
  <2> QED  BY <1>11, <2>1 DEF Redis!PeerPublishes, Redis!commandVars, Gapped, Trusting
<1>12. ASSUME NEW e \in Event, NEW ok \in BOOLEAN, Redis!HandlerSettles(e, ok) PROVE RedisInv'
  <2> DEFINE m == Redis!Missed(r_cache)
             c == IF ok THEN r_cache ELSE Redis!OnStatus(m, "error")
  <2>1. Gapped(r_cache, m)
    BY RedisConsumer
  <2>2. r_cache' = c \/ (r_cache' = Redis!OnStatus(c, "subscribed") /\ r_subscribed)
    BY <1>12 DEF Redis!HandlerSettles
  <2> HIDE DEF m
  <2>3. c = r_cache \/ Distrusted(m, c)
    BY <2>1, RedisConsumer DEF Gapped
  <2> HIDE DEF c
  <2>4. /\ c \in Consumer /\ c.closed = r_cache.closed
        /\ (c = r_cache \/ c.closed \/ ~Trusting(c)) /\ (Trusting(c) => Trusting(r_cache))
    BY <2>1, <2>3 DEF Gapped, Distrusted, Trusting
  <2>5. r_cache' = c \/ (Reconciling(c, r_cache') /\ r_subscribed)
    BY <2>2, <2>4, RedisConsumer
  <2>6. UNCHANGED <<r_handler, r_closing, r_subscribed, r_serverSub, r_messageListener,
                    r_subscribing, r_resubscribing, r_wire>>
    BY <1>12 DEF Redis!HandlerSettles, Redis!linkVars, Redis!commandVars
  <2>7. r_queue' \in Redis!Queue /\ r_queue'.closed = r_queue.closed
    BY <1>12, RedisQueue DEF Redis!HandlerSettles
  <2> QED  BY <2>4, <2>5, <2>6, <2>7 DEF Reconciling
<1> QED
  BY <1>1, <1>2, <1>3, <1>4, <1>5, <1>6, <1>7, <1>8, <1>9, <1>10, <1>11, <1>12 DEF Redis!Next

-----------------------------------------------------------------------------
(* NatsEventBus *)

\* None of the four races that NoTrustAcrossGap excludes.
NatsPlain == n_setting.faults \cap {"flap", "lateSub", "publisher", "unsubscribed"} = {}

NatsTypes ==
  /\ n_setting \in NatsSettings
  /\ n_conn \in [Conn -> {"unused", "up", "down", "closed"}]
  /\ n_connection \in Conn \cup {NoConn} /\ n_preparing \in Conn \cup {NoConn}
  /\ n_subscription \in Conn \cup {NoConn} /\ n_serverSub \in BOOLEAN /\ n_closed \in BOOLEAN
  /\ n_dialing \subseteq {"subscribe", "publish"} /\ n_statusMonitor \in Nats!Monitor
  /\ n_cache \in Consumer /\ n_cache.closed = n_closed /\ (n_closing # "no" => n_closed)

\* The subscription is on the connection in use, which the status loop watches, and the
\* server knows it when that connection is up; so is the one being prepared.  The loop is
\* dead only when its connection is.  A dial is alone, and means that no connection is open.
NatsPlaces ==
  /\ n_subscription # NoConn =>
       /\ n_subscription = n_connection /\ n_statusMonitor.connection = n_subscription
       /\ n_conn[n_subscription] \in {"up", "down"}
  /\ n_serverSub <=> (n_subscription # NoConn /\ n_conn[n_subscription] = "up")
  /\ n_preparing # NoConn /\ n_conn[n_preparing] \in {"up", "down"} =>
       n_connection = n_preparing /\ n_statusMonitor.connection = n_preparing
  /\ n_statusMonitor.at # "off" <=> n_statusMonitor.connection # NoConn
  /\ n_statusMonitor.at = "dead" => n_conn[n_statusMonitor.connection] = "closed"
  /\ n_statusMonitor.at = "flushing" => n_conn[n_statusMonitor.connection] = "up"
  /\ n_dialing # {} => ~Nats!Open /\ \A v, w \in n_dialing : v = w

\* Core: a cache that trusts, or is about to, has a subscription the server knows, and has
\* missed nothing since its flush.  JetStream: the stream keeps what was not delivered.
NatsTrust ==
  IF n_setting.jetStream THEN n_wire = <<>> /\ ~n_cache.gap
  ELSE Trusting(n_cache) => n_serverSub /\ ~n_cache.gap

NatsInv == NatsTypes /\ (NatsPlain /\ ~n_closed => NatsPlaces /\ NatsTrust)

LEMMA NatsConstants ==
  /\ NoConn \notin Conn /\ Conn # {} /\ NatsSettings \subseteq Nats!Setting
BY EventBusAssumption DEF Nats!NatsAssumption, Rabbit!RabbitAssumption

LEMMA NatsInit == Nats!Init => NatsInv
<1> SUFFICES ASSUME Nats!Init PROVE NatsInv
  OBVIOUS
<1>1. Nats!NewConsumer \in Consumer /\ ~Trusting(Nats!NewConsumer) /\ Nats!NewConsumer.closed = FALSE
      /\ ~Nats!NewConsumer.gap
  BY DEF Consumer, Redis!Consumer, Nats!NewConsumer, Redis!Status, Trusting
<1>2. n_connection \in Conn \cup {NoConn} /\ (n_connection # NoConn => n_conn[n_connection] = "up")
  BY NatsConstants DEF Nats!Init
<1>3. NatsTypes
  BY <1>1, <1>2 DEF Nats!Init, NatsTypes, Nats!Monitor
<1>4. NatsPlaces
  BY <1>2, NatsConstants DEF Nats!Init, NatsPlaces
<1>5. NatsTrust
  BY <1>1 DEF Nats!Init, NatsTrust
<1> QED  BY <1>3, <1>4, <1>5 DEF NatsInv

\* What the steps of the bus do to its cache.
LEMMA NatsCache ==
  ASSUME NatsTypes
  PROVE  /\ Distrusted(n_cache, Nats!OnStatus(n_cache, "error"))
         /\ Distrusted(n_cache, Nats!OnStatus(n_cache, "disconnected"))
         /\ Reconciling(n_cache, Nats!OnStatus(n_cache, "subscribed"))
         /\ Reconciling(n_cache, Nats!OnStatus(Nats!OnStatus(n_cache, "ready"), "subscribed"))
         /\ SameTrust(n_cache, Nats!OnStatus(n_cache, "ready"))
         /\ Gapped(n_cache, Nats!Missed(n_cache))
         /\ n_cache.restoring => Flushed(n_cache, Nats!Restored(n_cache))
         /\ Nats!CloseConsumer(n_cache) \in Consumer /\ Nats!CloseConsumer(n_cache).closed
<1>1. n_cache \in Consumer
  BY DEF NatsTypes
<1>2. Reconciling(n_cache, Nats!OnStatus(Nats!OnStatus(n_cache, "ready"), "subscribed"))
  <2> DEFINE r == Nats!OnStatus(n_cache, "ready")
  <2>1. SameTrust(n_cache, r) /\ (n_cache.closed => r = n_cache)
    BY <1>1, NatsConsumer DEF Nats!OnStatus
  <2> HIDE DEF r
  <2>2. Reconciling(r, Nats!OnStatus(r, "subscribed"))
    BY <2>1, NatsConsumer DEF SameTrust
  <2> QED  BY <2>1, <2>2 DEF SameTrust, Reconciling, r
<1> QED  BY <1>1, <1>2, NatsConsumer

\* A gap that is reported, unless the bus is closed.
NatsReported(d) == /\ d \in Consumer /\ d.closed = n_closed
                   /\ ~n_closed => ~Trusting(d) /\ ~d.gap

LEMMA NatsGap ==
  ASSUME NatsTypes
  PROVE  NatsReported(Nats!Gap(Nats!Missed(n_cache))) /\ NatsReported(Nats!Gap(n_cache))
<1>1. ASSUME NEW b \in Consumer, b.closed = n_closed PROVE NatsReported(Nats!Gap(b))
  <2>1. Distrusted(b, Nats!OnStatus(b, "error"))
    BY <1>1, NatsConsumer
  <2> QED  BY <1>1, <2>1 DEF Nats!Gap, Distrusted, NatsReported
<1>2. Nats!Missed(n_cache) \in Consumer /\ Nats!Missed(n_cache).closed = n_closed
  BY NatsCache DEF NatsTypes, Gapped
<1> QED  BY <1>1, <1>2 DEF NatsTypes

\* The cache after a connection has been lost.
LEMMA NatsLost ==
  ASSUME NatsTypes, NEW c \in Conn
  PROVE  LET b == Nats!Lost(c, n_cache)
             e == Nats!OnStatus(b, "error")
         IN  /\ b = n_cache \/ (Gapped(n_cache, b) /\ n_subscription = c /\ n_wire # <<>>)
             /\ Distrusted(b, e) /\ Distrusted(b, Nats!OnStatus(b, "disconnected"))
             /\ Distrusted(e, Nats!OnStatus(e, "disconnected"))
<1> DEFINE b == Nats!Lost(c, n_cache)
           e == Nats!OnStatus(b, "error")
<1>1. b = n_cache \/ (Gapped(n_cache, b) /\ n_subscription = c /\ n_wire # <<>>)
  BY NatsCache DEF Nats!Lost
<1> HIDE DEF b
<1>2. b \in Consumer
  BY <1>1 DEF NatsTypes, Gapped
<1>3. Distrusted(b, e) /\ Distrusted(b, Nats!OnStatus(b, "disconnected"))
  BY <1>2, NatsConsumer
<1> HIDE DEF e
<1>4. e \in Consumer
  BY <1>3 DEF Distrusted
<1>5. Distrusted(e, Nats!OnStatus(e, "disconnected"))
  BY <1>4, NatsConsumer
<1> QED  BY <1>1, <1>3, <1>5 DEF b, e

LEMMA NatsTypesStep == NatsTypes /\ Nats!Next => NatsTypes'
<1> SUFFICES ASSUME NatsTypes, Nats!Next PROVE NatsTypes'
  OBVIOUS
<1>s. UNCHANGED n_setting
  BY DEF Nats!Next
<1>m. ASSUME NEW c \in Conn
      PROVE  Nats!Watched(c) \in Nats!Monitor
  BY DEF Nats!Watched, NatsTypes, Nats!Monitor
<1>1. CASE Nats!Subscribe
  <2>1. n_cache' = n_cache \/ Reconciling(n_cache, n_cache')
    BY <1>1, NatsCache, NatsGap DEF Nats!Subscribe, Nats!StartSubscribe, Nats!Subscribed
  <2>2. n_cache' \in Consumer /\ n_cache'.closed = n_closed'
    <3>1. n_closed' = n_closed
      BY <1>1 DEF Nats!Subscribe, Nats!StartSubscribe, Nats!Subscribed, Nats!Watched, Nats!Open,
          Nats!JetStream, Nats!budget
    <3> QED  BY <2>1, <3>1 DEF NatsTypes, Reconciling, Distrusted, SameTrust, Flushed, Gapped, NatsReported
  <2>3. n_statusMonitor' \in Nats!Monitor
    BY <1>1, <1>m DEF NatsTypes, Nats!Monitor, Nats!Subscribe, Nats!StartSubscribe,
        Nats!Subscribed, Nats!Open, Nats!JetStream, Nats!budget
  <2>4. n_conn' \in [Conn -> {"unused", "up", "down", "closed"}]
    BY <1>1 DEF NatsTypes, Nats!Subscribe, Nats!StartSubscribe, Nats!Subscribed, Nats!Open,
        Nats!JetStream, Nats!budget
  <2> QED  BY <1>1, <1>s, <2>2, <2>3, <2>4 DEF NatsTypes, Nats!Subscribe, Nats!StartSubscribe,
      Nats!Subscribed, Nats!Open, Nats!JetStream, Nats!budget
<1>2. CASE Nats!TimerFires
  <2>1. n_cache' = n_cache \/ Reconciling(n_cache, n_cache')
    BY <1>2, NatsCache, NatsGap DEF Nats!TimerFires, Nats!StartSubscribe, Nats!Subscribed
  <2>2. n_cache' \in Consumer /\ n_cache'.closed = n_closed'
    <3>1. n_closed' = n_closed
      BY <1>2 DEF Nats!TimerFires, Nats!StartSubscribe, Nats!Subscribed, Nats!Watched, Nats!Open,
          Nats!JetStream, Nats!budget
    <3> QED  BY <2>1, <3>1 DEF NatsTypes, Reconciling, Distrusted, SameTrust, Flushed, Gapped, NatsReported
  <2>3. n_statusMonitor' \in Nats!Monitor
    BY <1>2, <1>m DEF NatsTypes, Nats!Monitor, Nats!TimerFires, Nats!StartSubscribe,
        Nats!Subscribed, Nats!Open, Nats!JetStream, Nats!budget
  <2>4. n_conn' \in [Conn -> {"unused", "up", "down", "closed"}]
    BY <1>2 DEF NatsTypes, Nats!TimerFires, Nats!StartSubscribe, Nats!Subscribed, Nats!Open,
        Nats!JetStream, Nats!budget
  <2> QED  BY <1>2, <1>s, <2>2, <2>3, <2>4 DEF NatsTypes, Nats!TimerFires, Nats!StartSubscribe,
      Nats!Subscribed, Nats!Open, Nats!JetStream, Nats!budget
<1>3. CASE Nats!PublisherDials
  <2>1. n_cache' = n_cache
    BY <1>3, NatsCache, NatsGap DEF Nats!PublisherDials
  <2>2. n_cache' \in Consumer /\ n_cache'.closed = n_closed'
    <3>1. n_closed' = n_closed
      BY <1>3 DEF Nats!PublisherDials, Nats!busVars, Nats!statusVars, Nats!deliveryVars,
          Nats!budget
    <3> QED  BY <2>1, <3>1 DEF NatsTypes, Reconciling, Distrusted, SameTrust, Flushed, Gapped, NatsReported
  <2>3. n_statusMonitor' \in Nats!Monitor
    BY <1>3, <1>m DEF NatsTypes, Nats!Monitor, Nats!PublisherDials, Nats!busVars, Nats!statusVars,
        Nats!deliveryVars, Nats!budget
  <2>4. n_conn' \in [Conn -> {"unused", "up", "down", "closed"}]
    BY <1>3 DEF NatsTypes, Nats!PublisherDials, Nats!busVars, Nats!statusVars, Nats!deliveryVars,
        Nats!budget
  <2> QED  BY <1>3, <1>s, <2>2, <2>3, <2>4 DEF NatsTypes, Nats!PublisherDials, Nats!busVars,
      Nats!statusVars, Nats!deliveryVars, Nats!budget
<1>4. CASE Nats!Prepared
  <2>1. n_cache' = n_cache \/ Reconciling(n_cache, n_cache')
    BY <1>4, NatsCache, NatsGap DEF Nats!Prepared, Nats!Subscribed
  <2>2. n_cache' \in Consumer /\ n_cache'.closed = n_closed'
    <3>1. n_closed' = n_closed
      BY <1>4 DEF Nats!Prepared, Nats!Subscribed, Nats!connVars, Nats!statusVars, Nats!budget
    <3> QED  BY <2>1, <3>1 DEF NatsTypes, Reconciling, Distrusted, SameTrust, Flushed, Gapped, NatsReported
  <2>3. n_statusMonitor' \in Nats!Monitor
    BY <1>4, <1>m DEF NatsTypes, Nats!Monitor, Nats!Prepared, Nats!Subscribed, Nats!connVars,
        Nats!statusVars, Nats!budget
  <2>4. n_conn' \in [Conn -> {"unused", "up", "down", "closed"}]
    BY <1>4 DEF NatsTypes, Nats!Prepared, Nats!Subscribed, Nats!connVars, Nats!statusVars,
        Nats!budget
  <2> QED  BY <1>4, <1>s, <2>2, <2>3, <2>4 DEF NatsTypes, Nats!Prepared, Nats!Subscribed,
      Nats!connVars, Nats!statusVars, Nats!budget
<1>5. CASE Nats!PrepareFails
  <2>1. Distrusted(n_cache, n_cache')
    BY <1>5, NatsCache, NatsGap DEF Nats!PrepareFails, Nats!SubscribeThrows
  <2>2. n_cache' \in Consumer /\ n_cache'.closed = n_closed'
    <3>1. n_closed' = n_closed
      BY <1>5 DEF Nats!PrepareFails, Nats!SubscribeThrows, Nats!connVars, Nats!statusVars,
          Nats!deliveryVars, Nats!budget
    <3> QED  BY <2>1, <3>1 DEF NatsTypes, Reconciling, Distrusted, SameTrust, Flushed, Gapped, NatsReported
  <2>3. n_statusMonitor' \in Nats!Monitor
    BY <1>5, <1>m DEF NatsTypes, Nats!Monitor, Nats!PrepareFails, Nats!SubscribeThrows,
        Nats!connVars, Nats!statusVars, Nats!deliveryVars, Nats!budget
  <2>4. n_conn' \in [Conn -> {"unused", "up", "down", "closed"}]
    BY <1>5 DEF NatsTypes, Nats!PrepareFails, Nats!SubscribeThrows, Nats!connVars,
        Nats!statusVars, Nats!deliveryVars, Nats!budget
  <2> QED  BY <1>5, <1>s, <2>2, <2>3, <2>4 DEF NatsTypes, Nats!PrepareFails, Nats!SubscribeThrows,
      Nats!connVars, Nats!statusVars, Nats!deliveryVars, Nats!budget
<1>6. CASE Nats!MonitorFlushed
  <2>1. n_cache' = n_cache \/ SameTrust(n_cache, n_cache') \/ (Reconciling(n_cache, n_cache') /\ n_subscription # NoConn)
    BY <1>6, NatsCache, NatsGap DEF Nats!MonitorFlushed
  <2>2. n_cache' \in Consumer /\ n_cache'.closed = n_closed'
    <3>1. n_closed' = n_closed
      BY <1>6 DEF Nats!MonitorFlushed, Nats!connVars, Nats!deliveryVars, Nats!budget
    <3> QED  BY <2>1, <3>1 DEF NatsTypes, Reconciling, Distrusted, SameTrust, Flushed, Gapped, NatsReported
  <2>3. n_statusMonitor' \in Nats!Monitor
    BY <1>6, <1>m DEF NatsTypes, Nats!Monitor, Nats!MonitorFlushed, Nats!connVars,
        Nats!deliveryVars, Nats!budget
  <2>4. n_conn' \in [Conn -> {"unused", "up", "down", "closed"}]
    BY <1>6 DEF NatsTypes, Nats!MonitorFlushed, Nats!connVars, Nats!deliveryVars, Nats!budget
  <2> QED  BY <1>6, <1>s, <2>2, <2>3, <2>4 DEF NatsTypes, Nats!MonitorFlushed, Nats!connVars,
      Nats!deliveryVars, Nats!budget
<1>7. CASE Nats!SubArrives
  <2>1. n_cache' = n_cache
    BY <1>7, NatsCache, NatsGap DEF Nats!SubArrives
  <2>2. n_cache' \in Consumer /\ n_cache'.closed = n_closed'
    <3>1. n_closed' = n_closed
      BY <1>7 DEF Nats!SubArrives, Nats!connVars, Nats!statusVars, Nats!deliveryVars, Nats!budget
    <3> QED  BY <2>1, <3>1 DEF NatsTypes, Reconciling, Distrusted, SameTrust, Flushed, Gapped, NatsReported
  <2>3. n_statusMonitor' \in Nats!Monitor
    BY <1>7, <1>m DEF NatsTypes, Nats!Monitor, Nats!SubArrives, Nats!connVars, Nats!statusVars,
        Nats!deliveryVars, Nats!budget
  <2>4. n_conn' \in [Conn -> {"unused", "up", "down", "closed"}]
    BY <1>7 DEF NatsTypes, Nats!SubArrives, Nats!connVars, Nats!statusVars, Nats!deliveryVars,
        Nats!budget
  <2> QED  BY <1>7, <1>s, <2>2, <2>3, <2>4 DEF NatsTypes, Nats!SubArrives, Nats!connVars,
      Nats!statusVars, Nats!deliveryVars, Nats!budget
<1>8. CASE Nats!SubscriptionEnds
  <2>0. n_subscription \in Conn
    BY <1>8 DEF NatsTypes, Nats!SubscriptionEnds
  <2>1. LET b == Nats!Lost(n_subscription, n_cache) IN n_cache' = b \/ Distrusted(b, n_cache')
    BY <1>8, <2>0, NatsLost DEF Nats!SubscriptionEnds, Nats!HandleEnded
  <2>2. n_cache' \in Consumer /\ n_cache'.closed = n_closed'
    <3>1. n_closed' = n_closed
      BY <1>8 DEF Nats!SubscriptionEnds
    <3> QED  BY <2>0, <2>1, <3>1, NatsLost DEF NatsTypes, Distrusted, Gapped
  <2>3. n_statusMonitor' \in Nats!Monitor
    BY <1>8, <1>m DEF NatsTypes, Nats!Monitor, Nats!SubscriptionEnds, Nats!HandleEnded,
        Nats!connVars
  <2>4. n_conn' \in [Conn -> {"unused", "up", "down", "closed"}]
    BY <1>8 DEF NatsTypes, Nats!SubscriptionEnds, Nats!HandleEnded, Nats!connVars
  <2> QED  BY <1>8, <1>s, <2>2, <2>3, <2>4 DEF NatsTypes, Nats!SubscriptionEnds, Nats!HandleEnded,
      Nats!connVars
<1>9. CASE Nats!MessageArrives
  <2>1. n_cache' = n_cache \/ NatsReported(n_cache')
    BY <1>9, NatsCache, NatsGap DEF Nats!MessageArrives
  <2>2. n_cache' \in Consumer /\ n_cache'.closed = n_closed'
    <3>1. n_closed' = n_closed
      BY <1>9 DEF Nats!MessageArrives, Nats!connVars, Nats!busVars, Nats!budget
    <3> QED  BY <2>1, <3>1 DEF NatsTypes, Reconciling, Distrusted, SameTrust, Flushed, Gapped, NatsReported
  <2>3. n_statusMonitor' \in Nats!Monitor
    BY <1>9, <1>m DEF NatsTypes, Nats!Monitor, Nats!MessageArrives, Nats!connVars, Nats!busVars,
        Nats!budget
  <2>4. n_conn' \in [Conn -> {"unused", "up", "down", "closed"}]
    BY <1>9 DEF NatsTypes, Nats!MessageArrives, Nats!connVars, Nats!busVars, Nats!budget
  <2> QED  BY <1>9, <1>s, <2>2, <2>3, <2>4 DEF NatsTypes, Nats!MessageArrives, Nats!connVars,
      Nats!busVars, Nats!budget
<1>10. CASE Nats!Reconciled
  <2>1. n_cache' = n_cache \/ (Reconciling(n_cache, n_cache') /\ ~n_closed)
    BY <1>10, NatsCache, NatsGap DEF Nats!Reconciled
  <2>2. n_cache' \in Consumer /\ n_cache'.closed = n_closed'
    <3>1. n_closed' = n_closed
      BY <1>10 DEF Nats!Reconciled, Nats!connVars, Nats!busVars, Nats!deliveryVars, Nats!budget
    <3> QED  BY <2>1, <3>1 DEF NatsTypes, Reconciling, Distrusted, SameTrust, Flushed, Gapped, NatsReported
  <2>3. n_statusMonitor' \in Nats!Monitor
    BY <1>10, <1>m DEF NatsTypes, Nats!Monitor, Nats!Reconciled, Nats!connVars, Nats!busVars,
        Nats!deliveryVars, Nats!budget
  <2>4. n_conn' \in [Conn -> {"unused", "up", "down", "closed"}]
    BY <1>10 DEF NatsTypes, Nats!Reconciled, Nats!connVars, Nats!busVars, Nats!deliveryVars,
        Nats!budget
  <2> QED  BY <1>10, <1>s, <2>2, <2>3, <2>4 DEF NatsTypes, Nats!Reconciled, Nats!connVars,
      Nats!busVars, Nats!deliveryVars, Nats!budget
<1>11. CASE Nats!ReconcileFails
  <2>1. Distrusted(n_cache, n_cache')
    BY <1>11, NatsCache, NatsGap DEF Nats!ReconcileFails
  <2>2. n_cache' \in Consumer /\ n_cache'.closed = n_closed'
    <3>1. n_closed' = n_closed
      BY <1>11 DEF Nats!ReconcileFails, Nats!connVars, Nats!busVars, Nats!deliveryVars,
          Nats!budget
    <3> QED  BY <2>1, <3>1 DEF NatsTypes, Reconciling, Distrusted, SameTrust, Flushed, Gapped, NatsReported
  <2>3. n_statusMonitor' \in Nats!Monitor
    BY <1>11, <1>m DEF NatsTypes, Nats!Monitor, Nats!ReconcileFails, Nats!connVars, Nats!busVars,
        Nats!deliveryVars, Nats!budget
  <2>4. n_conn' \in [Conn -> {"unused", "up", "down", "closed"}]
    BY <1>11 DEF NatsTypes, Nats!ReconcileFails, Nats!connVars, Nats!busVars, Nats!deliveryVars,
        Nats!budget
  <2> QED  BY <1>11, <1>s, <2>2, <2>3, <2>4 DEF NatsTypes, Nats!ReconcileFails, Nats!connVars,
      Nats!busVars, Nats!deliveryVars, Nats!budget
<1>12. CASE Nats!RestoreDone
  <2>1. Flushed(n_cache, n_cache')
    BY <1>12, NatsCache, NatsGap DEF Nats!RestoreDone
  <2>2. n_cache' \in Consumer /\ n_cache'.closed = n_closed'
    <3>1. n_closed' = n_closed
      BY <1>12 DEF Nats!RestoreDone, Nats!connVars, Nats!busVars, Nats!statusVars,
          Nats!deliveryVars, Nats!budget
    <3> QED  BY <2>1, <3>1 DEF NatsTypes, Reconciling, Distrusted, SameTrust, Flushed, Gapped, NatsReported
  <2>3. n_statusMonitor' \in Nats!Monitor
    BY <1>12, <1>m DEF NatsTypes, Nats!Monitor, Nats!RestoreDone, Nats!connVars, Nats!busVars,
        Nats!statusVars, Nats!deliveryVars, Nats!budget
  <2>4. n_conn' \in [Conn -> {"unused", "up", "down", "closed"}]
    BY <1>12 DEF NatsTypes, Nats!RestoreDone, Nats!connVars, Nats!busVars, Nats!statusVars,
        Nats!deliveryVars, Nats!budget
  <2> QED  BY <1>12, <1>s, <2>2, <2>3, <2>4 DEF NatsTypes, Nats!RestoreDone, Nats!connVars,
      Nats!busVars, Nats!statusVars, Nats!deliveryVars, Nats!budget
<1>13. CASE Nats!Disconnect
  <2>2. n_cache' \in Consumer /\ n_cache'.closed = n_closed'
    BY <1>13, NatsCache DEF Nats!Disconnect, Consumer, Redis!Consumer
  <2>3. n_statusMonitor' \in Nats!Monitor
    BY <1>13, <1>m DEF NatsTypes, Nats!Monitor, Nats!Disconnect, Nats!connVars, Nats!budget
  <2>4. n_conn' \in [Conn -> {"unused", "up", "down", "closed"}]
    BY <1>13 DEF NatsTypes, Nats!Disconnect, Nats!connVars, Nats!budget
  <2> QED  BY <1>13, <1>s, <2>2, <2>3, <2>4 DEF NatsTypes, Nats!Disconnect, Nats!connVars,
      Nats!budget
<1>14. CASE Nats!DisconnectEnds
  <2>1. n_cache' = n_cache
    BY <1>14, NatsCache, NatsGap DEF Nats!DisconnectEnds
  <2>2. n_cache' \in Consumer /\ n_cache'.closed = n_closed'
    <3>1. n_closed' = n_closed
      BY <1>14 DEF Nats!DisconnectEnds, Nats!statusVars, Nats!deliveryVars, Nats!budget
    <3> QED  BY <2>1, <3>1 DEF NatsTypes, Reconciling, Distrusted, SameTrust, Flushed, Gapped, NatsReported
  <2>3. n_statusMonitor' \in Nats!Monitor
    BY <1>14, <1>m DEF NatsTypes, Nats!Monitor, Nats!DisconnectEnds, Nats!statusVars,
        Nats!deliveryVars, Nats!budget
  <2>4. n_conn' \in [Conn -> {"unused", "up", "down", "closed"}]
    BY <1>14 DEF NatsTypes, Nats!DisconnectEnds, Nats!statusVars, Nats!deliveryVars, Nats!budget
  <2> QED  BY <1>14, <1>s, <2>2, <2>3, <2>4 DEF NatsTypes, Nats!DisconnectEnds, Nats!statusVars,
      Nats!deliveryVars, Nats!budget
<1>15. ASSUME NEW c \in Conn, Nats!ConnDrops(c) PROVE NatsTypes'
  <2>1. LET b == Nats!Lost(c, n_cache)
            e == Nats!OnStatus(b, "error")
        IN  \/ n_cache' = b \/ n_cache' = e
            \/ n_cache' = Nats!OnStatus(b, "disconnected") \/ n_cache' = Nats!OnStatus(e, "disconnected")
    BY <1>15 DEF Nats!ConnDrops
  <2>2. n_cache' \in Consumer /\ n_cache'.closed = n_closed'
    <3>1. n_closed' = n_closed
      BY <1>15 DEF Nats!ConnDrops
    <3> QED  BY <2>1, <3>1, NatsLost DEF NatsTypes, Distrusted, Gapped
  <2>3. n_statusMonitor' \in Nats!Monitor
    BY <1>15, <1>m DEF NatsTypes, Nats!Monitor, Nats!ConnDrops
  <2>4. n_conn' \in [Conn -> {"unused", "up", "down", "closed"}]
    BY <1>15 DEF NatsTypes, Nats!ConnDrops
  <2> QED  BY <1>15, <1>s, <2>2, <2>3, <2>4 DEF NatsTypes, Nats!ConnDrops
<1>16. ASSUME NEW c \in Conn, Nats!ConnReconnects(c) PROVE NatsTypes'
  <2>1. n_cache' = n_cache
    BY <1>16, NatsCache, NatsGap DEF Nats!ConnReconnects
  <2>2. n_cache' \in Consumer /\ n_cache'.closed = n_closed'
    <3>1. n_closed' = n_closed
      BY <1>16 DEF Nats!ConnReconnects, Nats!deliveryVars, Nats!budget
    <3> QED  BY <2>1, <3>1 DEF NatsTypes, Reconciling, Distrusted, SameTrust, Flushed, Gapped, NatsReported
  <2>3. n_statusMonitor' \in Nats!Monitor
    BY <1>16, <1>m DEF NatsTypes, Nats!Monitor, Nats!ConnReconnects, Nats!deliveryVars,
        Nats!budget
  <2>4. n_conn' \in [Conn -> {"unused", "up", "down", "closed"}]
    BY <1>16 DEF NatsTypes, Nats!ConnReconnects, Nats!deliveryVars, Nats!budget
  <2> QED  BY <1>16, <1>s, <2>2, <2>3, <2>4 DEF NatsTypes, Nats!ConnReconnects, Nats!deliveryVars,
      Nats!budget
<1>17. ASSUME NEW c \in Conn, Nats!ConnGivesUp(c) PROVE NatsTypes'
  <2>1. n_cache' = n_cache \/ (Distrusted(n_cache, n_cache') /\ n_subscription = c)
    BY <1>17, NatsCache, NatsGap DEF Nats!ConnGivesUp, Nats!HandleEnded
  <2>2. n_cache' \in Consumer /\ n_cache'.closed = n_closed'
    <3>1. n_closed' = n_closed
      BY <1>17 DEF Nats!ConnGivesUp, Nats!HandleEnded, Nats!deliveryVars, Nats!budget
    <3> QED  BY <2>1, <3>1 DEF NatsTypes, Reconciling, Distrusted, SameTrust, Flushed, Gapped, NatsReported
  <2>3. n_statusMonitor' \in Nats!Monitor
    BY <1>17, <1>m DEF NatsTypes, Nats!Monitor, Nats!ConnGivesUp, Nats!HandleEnded,
        Nats!deliveryVars, Nats!budget
  <2>4. n_conn' \in [Conn -> {"unused", "up", "down", "closed"}]
    BY <1>17 DEF NatsTypes, Nats!ConnGivesUp, Nats!HandleEnded, Nats!deliveryVars, Nats!budget
  <2> QED  BY <1>17, <1>s, <2>2, <2>3, <2>4 DEF NatsTypes, Nats!ConnGivesUp, Nats!HandleEnded,
      Nats!deliveryVars, Nats!budget
<1>18. ASSUME NEW w \in {"subscribe", "publish"}, Nats!DialFails(w) PROVE NatsTypes'
  <2>1. n_cache' = n_cache \/ Distrusted(n_cache, n_cache')
    BY <1>18, NatsCache, NatsGap DEF Nats!DialFails, Nats!SubscribeThrows
  <2>2. n_cache' \in Consumer /\ n_cache'.closed = n_closed'
    <3>1. n_closed' = n_closed
      BY <1>18 DEF Nats!DialFails, Nats!SubscribeThrows, Nats!statusVars, Nats!deliveryVars
    <3> QED  BY <2>1, <3>1 DEF NatsTypes, Reconciling, Distrusted, SameTrust, Flushed, Gapped, NatsReported
  <2>3. n_statusMonitor' \in Nats!Monitor
    BY <1>18, <1>m DEF NatsTypes, Nats!Monitor, Nats!DialFails, Nats!SubscribeThrows,
        Nats!statusVars, Nats!deliveryVars
  <2>4. n_conn' \in [Conn -> {"unused", "up", "down", "closed"}]
    BY <1>18 DEF NatsTypes, Nats!DialFails, Nats!SubscribeThrows, Nats!statusVars,
        Nats!deliveryVars
  <2> QED  BY <1>18, <1>s, <2>2, <2>3, <2>4 DEF NatsTypes, Nats!DialFails, Nats!SubscribeThrows,
      Nats!statusVars, Nats!deliveryVars
<1>19. ASSUME NEW w \in {"subscribe", "publish"}, NEW c \in Conn, Nats!Dialed(w, c) PROVE NatsTypes'
  <2>1. n_cache' = n_cache \/ Reconciling(n_cache, n_cache')
    BY <1>19, NatsCache, NatsGap DEF Nats!Dialed, Nats!Subscribed
  <2>2. n_cache' \in Consumer /\ n_cache'.closed = n_closed'
    <3>1. n_closed' = n_closed
      BY <1>19 DEF Nats!Dialed, Nats!Subscribed, Nats!Watched, Nats!JetStream, Nats!budget
    <3> QED  BY <2>1, <3>1 DEF NatsTypes, Reconciling, Distrusted, SameTrust, Flushed, Gapped, NatsReported
  <2>3. n_statusMonitor' \in Nats!Monitor
    BY <1>19, <1>m DEF NatsTypes, Nats!Monitor, Nats!Dialed, Nats!Subscribed, Nats!JetStream,
        Nats!budget
  <2>4. n_conn' \in [Conn -> {"unused", "up", "down", "closed"}]
    BY <1>19 DEF NatsTypes, Nats!Dialed, Nats!Subscribed, Nats!JetStream, Nats!budget
  <2> QED  BY <1>19, <1>s, <2>2, <2>3, <2>4 DEF NatsTypes, Nats!Dialed, Nats!Subscribed,
      Nats!JetStream, Nats!budget
<1>20. ASSUME NEW e \in NatsEvent, Nats!PeerPublishes(e) PROVE NatsTypes'
  <2>1. n_cache' = n_cache \/ (Gapped(n_cache, n_cache') /\ ~n_serverSub /\ ~n_setting.jetStream)
    BY <1>20, NatsCache, NatsGap DEF Nats!PeerPublishes, Nats!JetStream
  <2>2. n_cache' \in Consumer /\ n_cache'.closed = n_closed'
    <3>1. n_closed' = n_closed
      BY <1>20 DEF Nats!PeerPublishes, Nats!JetStream, Nats!connVars, Nats!busVars,
          Nats!statusVars, Nats!budget
    <3> QED  BY <2>1, <3>1 DEF NatsTypes, Reconciling, Distrusted, SameTrust, Flushed, Gapped, NatsReported
  <2>3. n_statusMonitor' \in Nats!Monitor
    BY <1>20, <1>m DEF NatsTypes, Nats!Monitor, Nats!PeerPublishes, Nats!JetStream, Nats!connVars,
        Nats!busVars, Nats!statusVars, Nats!budget
  <2>4. n_conn' \in [Conn -> {"unused", "up", "down", "closed"}]
    BY <1>20 DEF NatsTypes, Nats!PeerPublishes, Nats!JetStream, Nats!connVars, Nats!busVars,
        Nats!statusVars, Nats!budget
  <2> QED  BY <1>20, <1>s, <2>2, <2>3, <2>4 DEF NatsTypes, Nats!PeerPublishes, Nats!JetStream,
      Nats!connVars, Nats!busVars, Nats!statusVars, Nats!budget
<1>21. ASSUME NEW e \in NatsEvent, Nats!NextMessage(e) PROVE NatsTypes'
  <2>1. n_cache' = n_cache
    BY <1>21, NatsCache, NatsGap DEF Nats!NextMessage
  <2>2. n_cache' \in Consumer /\ n_cache'.closed = n_closed'
    <3>1. n_closed' = n_closed
      BY <1>21 DEF Nats!NextMessage, Nats!connVars, Nats!busVars, Nats!statusVars, Nats!budget
    <3> QED  BY <2>1, <3>1 DEF NatsTypes, Reconciling, Distrusted, SameTrust, Flushed, Gapped, NatsReported
  <2>3. n_statusMonitor' \in Nats!Monitor
    BY <1>21, <1>m DEF NatsTypes, Nats!Monitor, Nats!NextMessage, Nats!connVars, Nats!busVars,
        Nats!statusVars, Nats!budget
  <2>4. n_conn' \in [Conn -> {"unused", "up", "down", "closed"}]
    BY <1>21 DEF NatsTypes, Nats!NextMessage, Nats!connVars, Nats!busVars, Nats!statusVars,
        Nats!budget
  <2> QED  BY <1>21, <1>s, <2>2, <2>3, <2>4 DEF NatsTypes, Nats!NextMessage, Nats!connVars,
      Nats!busVars, Nats!statusVars, Nats!budget
<1>22. ASSUME NEW e \in NatsEvent, NEW ok \in BOOLEAN, Nats!Settles(e, ok) PROVE NatsTypes'
  <2>1. n_cache' = n_cache \/ NatsReported(n_cache')
    BY <1>22, NatsCache, NatsGap DEF Nats!Settles
  <2>2. n_cache' \in Consumer /\ n_cache'.closed = n_closed'
    <3>1. n_closed' = n_closed
      BY <1>22 DEF Nats!Settles, Nats!connVars, Nats!busVars
    <3> QED  BY <2>1, <3>1 DEF NatsTypes, Reconciling, Distrusted, SameTrust, Flushed, Gapped, NatsReported
  <2>3. n_statusMonitor' \in Nats!Monitor
    BY <1>22, <1>m DEF NatsTypes, Nats!Monitor, Nats!Settles, Nats!connVars, Nats!busVars
  <2>4. n_conn' \in [Conn -> {"unused", "up", "down", "closed"}]
    BY <1>22 DEF NatsTypes, Nats!Settles, Nats!connVars, Nats!busVars
  <2> QED  BY <1>22, <1>s, <2>2, <2>3, <2>4 DEF NatsTypes, Nats!Settles, Nats!connVars,
      Nats!busVars
<1>23. ASSUME NEW e \in NatsEvent, NEW ok \in BOOLEAN, Nats!OrphanSettles(e, ok) PROVE NatsTypes'
  <2>1. n_cache' = n_cache \/ NatsReported(n_cache')
    BY <1>23, NatsCache, NatsGap DEF Nats!OrphanSettles
  <2>2. n_cache' \in Consumer /\ n_cache'.closed = n_closed'
    <3>1. n_closed' = n_closed
      BY <1>23 DEF Nats!OrphanSettles, Nats!connVars, Nats!busVars
    <3> QED  BY <2>1, <3>1 DEF NatsTypes, Reconciling, Distrusted, SameTrust, Flushed, Gapped, NatsReported
  <2>3. n_statusMonitor' \in Nats!Monitor
    BY <1>23, <1>m DEF NatsTypes, Nats!Monitor, Nats!OrphanSettles, Nats!connVars, Nats!busVars
  <2>4. n_conn' \in [Conn -> {"unused", "up", "down", "closed"}]
    BY <1>23, SMTT(60) DEF NatsTypes, Nats!OrphanSettles, Nats!connVars, Nats!busVars
  <2> QED  BY <1>23, <1>s, <2>2, <2>3, <2>4 DEF NatsTypes, Nats!OrphanSettles, Nats!connVars,
      Nats!busVars
<1> QED
  BY <1>1, <1>2, <1>3, <1>4, <1>5, <1>6, <1>7, <1>8, <1>9, <1>10, <1>11, <1>12, <1>13, <1>14,
      <1>15, <1>16, <1>17, <1>18, <1>19, <1>20, <1>21, <1>22, <1>23 DEF Nats!Next

LEMMA NatsPlacesStep ==
  ASSUME NatsTypes, NatsTypes', NatsPlain, ~n_closed, ~n_closed', NatsPlaces, Nats!Next
  PROVE  NatsPlaces'
<1>f. /\ "flap" \notin Nats!Faults /\ "lateSub" \notin Nats!Faults
      /\ "publisher" \notin Nats!Faults /\ "unsubscribed" \notin Nats!Faults
  BY DEF NatsPlain, Nats!Faults
<1>c. NoConn \notin Conn
  BY NatsConstants
<1> USE DEF NatsPlaces, Nats!Open
<1>1. CASE Nats!Subscribe
  BY <1>1, <1>f, <1>c DEF NatsTypes, Nats!Monitor, Nats!Subscribe, Nats!StartSubscribe,
      Nats!Subscribed, Nats!Watched, Nats!Open, Nats!JetStream, Nats!budget, Nats!MayDial
<1>2. CASE Nats!TimerFires
  BY <1>2, <1>f, <1>c DEF NatsTypes, Nats!Monitor, Nats!TimerFires, Nats!StartSubscribe,
      Nats!Subscribed, Nats!Watched, Nats!Open, Nats!JetStream, Nats!budget, Nats!MayDial
<1>3. CASE Nats!PublisherDials
  BY <1>3, <1>f, <1>c DEF NatsTypes, Nats!Monitor, Nats!PublisherDials, Nats!busVars,
      Nats!statusVars, Nats!deliveryVars, Nats!budget, Nats!MayDial
<1>4. CASE Nats!Prepared
  BY <1>4, <1>f, <1>c DEF NatsTypes, Nats!Monitor, Nats!Prepared, Nats!Subscribed, Nats!connVars,
      Nats!statusVars, Nats!budget
<1>5. CASE Nats!PrepareFails
  BY <1>5, <1>f, <1>c DEF NatsTypes, Nats!Monitor, Nats!PrepareFails, Nats!SubscribeThrows,
      Nats!connVars, Nats!statusVars, Nats!deliveryVars, Nats!budget
<1>6. CASE Nats!MonitorFlushed
  BY <1>6, <1>f, <1>c DEF NatsTypes, Nats!Monitor, Nats!MonitorFlushed, Nats!connVars,
      Nats!deliveryVars, Nats!budget
<1>7. CASE Nats!SubArrives
  BY <1>7, <1>f, <1>c DEF NatsTypes, Nats!Monitor, Nats!SubArrives, Nats!connVars,
      Nats!statusVars, Nats!deliveryVars, Nats!budget
<1>8. CASE Nats!SubscriptionEnds
  BY <1>8, <1>f, <1>c DEF NatsTypes, Nats!Monitor, Nats!SubscriptionEnds, Nats!HandleEnded,
      Nats!connVars, Nats!HandleEnded
<1>9. CASE Nats!MessageArrives
  BY <1>9, <1>f, <1>c DEF NatsTypes, Nats!Monitor, Nats!MessageArrives, Nats!connVars, Nats!busVars,
      Nats!budget
<1>10. CASE Nats!Reconciled
  BY <1>10, <1>f, <1>c DEF NatsTypes, Nats!Monitor, Nats!Reconciled, Nats!connVars, Nats!busVars,
      Nats!deliveryVars, Nats!budget
<1>11. CASE Nats!ReconcileFails
  BY <1>11, <1>f, <1>c DEF NatsTypes, Nats!Monitor, Nats!ReconcileFails, Nats!connVars,
      Nats!busVars, Nats!deliveryVars, Nats!budget
<1>12. CASE Nats!RestoreDone
  BY <1>12, <1>f, <1>c DEF NatsTypes, Nats!Monitor, Nats!RestoreDone, Nats!connVars, Nats!busVars,
      Nats!statusVars, Nats!deliveryVars, Nats!budget
<1>13. CASE Nats!Disconnect
  BY <1>13 DEF Nats!Disconnect
<1>14. CASE Nats!DisconnectEnds
  BY <1>14, <1>f, <1>c DEF NatsTypes, Nats!Monitor, Nats!DisconnectEnds, Nats!statusVars,
      Nats!deliveryVars, Nats!budget
<1>15. ASSUME NEW c \in Conn, Nats!ConnDrops(c) PROVE NatsPlaces'
  BY <1>15, <1>f, <1>c DEF NatsTypes, Nats!Monitor, Nats!ConnDrops
<1>16. ASSUME NEW c \in Conn, Nats!ConnReconnects(c) PROVE NatsPlaces'
  <2>1. /\ n_conn[c] = "down" /\ n_conn'[c] = "up"
        /\ \A d \in Conn \ {c} : n_conn'[d] = n_conn[d]
    BY <1>16 DEF Nats!ConnReconnects, NatsTypes
  <2>2. \/ n_statusMonitor' = n_statusMonitor
        \/ /\ n_statusMonitor.connection = c /\ n_statusMonitor'.connection = c
           /\ n_statusMonitor'.at = "flushing"
    BY <1>16 DEF Nats!ConnReconnects, NatsTypes, Nats!Monitor
  <2>3. /\ UNCHANGED <<n_connection, n_subscription, n_preparing, n_dialing>>
        /\ n_serverSub' = (n_serverSub \/ n_subscription = c)
    BY <1>16 DEF Nats!ConnReconnects
  <2>4. \A d \in Conn : n_conn'[d] \in {"up", "down"} <=> n_conn[d] \in {"up", "down"}
    BY <2>1
  <2>5. n_statusMonitor'.connection = n_statusMonitor.connection
    BY <2>2
  <2>6. n_subscription' # NoConn =>
          /\ n_subscription' = n_connection' /\ n_statusMonitor'.connection = n_subscription'
          /\ n_conn'[n_subscription'] \in {"up", "down"}
    BY <2>3, <2>4, <2>5 DEF NatsTypes
  <2>7. n_serverSub' <=> (n_subscription' # NoConn /\ n_conn'[n_subscription'] = "up")
    BY <1>c, <2>1, <2>3 DEF NatsTypes
  <2>8. n_preparing' # NoConn /\ n_conn'[n_preparing'] \in {"up", "down"} =>
          n_connection' = n_preparing' /\ n_statusMonitor'.connection = n_preparing'
    BY <2>3, <2>4, <2>5 DEF NatsTypes
  <2>9. /\ n_statusMonitor'.at # "off" <=> n_statusMonitor'.connection # NoConn
        /\ n_statusMonitor'.at = "dead" => n_conn'[n_statusMonitor'.connection] = "closed"
        /\ n_statusMonitor'.at = "flushing" => n_conn'[n_statusMonitor'.connection] = "up"
    BY <1>c, <2>1, <2>2 DEF NatsTypes, Nats!Monitor
  <2>10. n_dialing' # {} => ~(n_connection' # NoConn /\ n_conn'[n_connection'] \in {"up", "down"})
                            /\ \A v, w \in n_dialing' : v = w
    BY <2>3, <2>4 DEF NatsTypes
  <2> QED  BY <2>6, <2>7, <2>8, <2>9, <2>10
<1>17. ASSUME NEW c \in Conn, Nats!ConnGivesUp(c) PROVE NatsPlaces'
  BY <1>17, <1>f, <1>c DEF NatsTypes, Nats!Monitor, Nats!ConnGivesUp, Nats!HandleEnded,
      Nats!deliveryVars, Nats!budget
<1>18. ASSUME NEW w \in {"subscribe", "publish"}, Nats!DialFails(w) PROVE NatsPlaces'
  BY <1>18, <1>f, <1>c DEF NatsTypes, Nats!Monitor, Nats!DialFails, Nats!SubscribeThrows,
      Nats!statusVars, Nats!deliveryVars
<1>19. ASSUME NEW w \in {"subscribe", "publish"}, NEW c \in Conn, Nats!Dialed(w, c) PROVE NatsPlaces'
  <2>1. n_dialing' = {} /\ ~Nats!Open /\ n_subscription = NoConn
    BY <1>19 DEF Nats!Dialed, NatsTypes
  <2>2. /\ n_conn[c] = "unused" /\ n_conn'[c] = "up"
        /\ \A d \in Conn \ {c} : n_conn'[d] = n_conn[d]
    BY <1>19 DEF Nats!Dialed, NatsTypes
  <2>3. /\ n_connection' = c /\ n_statusMonitor'.connection = c
        /\ n_statusMonitor'.at \notin {"off", "dead"}
    BY <1>19, <1>c, <2>2 DEF Nats!Dialed, Nats!Watched, NatsTypes, Nats!Monitor
  <2>4. \/ UNCHANGED <<n_preparing, n_subscription, n_serverSub>>
        \/ n_preparing' = c /\ UNCHANGED <<n_subscription, n_serverSub>>
        \/ n_subscription' = c /\ n_preparing' = NoConn /\ n_serverSub' = TRUE
    BY <1>19, <1>f DEF Nats!Dialed, Nats!Subscribed
  <2> QED  BY <1>c, <2>1, <2>2, <2>3, <2>4 DEF NatsTypes, Nats!Monitor
<1>20. ASSUME NEW e \in NatsEvent, Nats!PeerPublishes(e) PROVE NatsPlaces'
  BY <1>20, <1>f, <1>c DEF NatsTypes, Nats!Monitor, Nats!PeerPublishes, Nats!JetStream,
      Nats!connVars, Nats!busVars, Nats!statusVars, Nats!budget
<1>21. ASSUME NEW e \in NatsEvent, Nats!NextMessage(e) PROVE NatsPlaces'
  BY <1>21, <1>f, <1>c DEF NatsTypes, Nats!Monitor, Nats!NextMessage, Nats!connVars, Nats!busVars,
      Nats!statusVars, Nats!budget
<1>22. ASSUME NEW e \in NatsEvent, NEW ok \in BOOLEAN, Nats!Settles(e, ok) PROVE NatsPlaces'
  BY <1>22, <1>f, <1>c DEF NatsTypes, Nats!Monitor, Nats!Settles, Nats!connVars, Nats!busVars
<1>23. ASSUME NEW e \in NatsEvent, NEW ok \in BOOLEAN, Nats!OrphanSettles(e, ok) PROVE NatsPlaces'
  BY <1>23, <1>f, <1>c DEF NatsTypes, Nats!Monitor, Nats!OrphanSettles, Nats!connVars,
      Nats!busVars
<1> QED
  BY <1>1, <1>2, <1>3, <1>4, <1>5, <1>6, <1>7, <1>8, <1>9, <1>10, <1>11, <1>12, <1>13, <1>14,
      <1>15, <1>16, <1>17, <1>18, <1>19, <1>20, <1>21, <1>22, <1>23 DEF Nats!Next

LEMMA NatsClosedStays == n_closed /\ Nats!Next => n_closed'
<1> SUFFICES ASSUME n_closed, Nats!Next PROVE n_closed'
  OBVIOUS
<1>1. CASE Nats!Subscribe
  BY <1>1 DEF Nats!Subscribe
<1>2. CASE Nats!TimerFires
  BY <1>2 DEF Nats!TimerFires
<1>3. CASE Nats!PublisherDials
  BY <1>3 DEF Nats!PublisherDials, Nats!busVars
<1>4. CASE Nats!Prepared
  BY <1>4 DEF Nats!Prepared, Nats!connVars
<1>5. CASE Nats!PrepareFails
  BY <1>5 DEF Nats!PrepareFails, Nats!connVars
<1>6. CASE Nats!MonitorFlushed
  BY <1>6 DEF Nats!MonitorFlushed, Nats!connVars
<1>7. CASE Nats!SubArrives
  BY <1>7 DEF Nats!SubArrives, Nats!connVars
<1>8. CASE Nats!SubscriptionEnds
  BY <1>8 DEF Nats!SubscriptionEnds, Nats!connVars
<1>9. CASE Nats!MessageArrives
  BY <1>9 DEF Nats!MessageArrives, Nats!connVars, Nats!busVars
<1>10. CASE Nats!Reconciled
  BY <1>10 DEF Nats!Reconciled, Nats!connVars, Nats!busVars
<1>11. CASE Nats!ReconcileFails
  BY <1>11 DEF Nats!ReconcileFails, Nats!connVars, Nats!busVars
<1>12. CASE Nats!RestoreDone
  BY <1>12 DEF Nats!RestoreDone, Nats!connVars, Nats!busVars
<1>13. CASE Nats!Disconnect
  BY <1>13 DEF Nats!Disconnect, Nats!connVars
<1>14. CASE Nats!DisconnectEnds
  BY <1>14 DEF Nats!DisconnectEnds
<1>15. ASSUME NEW c \in Conn, Nats!ConnDrops(c) PROVE n_closed'
  BY <1>15 DEF Nats!ConnDrops
<1>16. ASSUME NEW c \in Conn, Nats!ConnReconnects(c) PROVE n_closed'
  BY <1>16 DEF Nats!ConnReconnects
<1>17. ASSUME NEW c \in Conn, Nats!ConnGivesUp(c) PROVE n_closed'
  BY <1>17 DEF Nats!ConnGivesUp
<1>18. ASSUME NEW w \in {"subscribe", "publish"}, Nats!DialFails(w) PROVE n_closed'
  BY <1>18 DEF Nats!DialFails
<1>19. ASSUME NEW w \in {"subscribe", "publish"}, NEW c \in Conn, Nats!Dialed(w, c) PROVE n_closed'
  BY <1>19 DEF Nats!Dialed
<1>20. ASSUME NEW e \in NatsEvent, Nats!PeerPublishes(e) PROVE n_closed'
  BY <1>20 DEF Nats!PeerPublishes, Nats!connVars, Nats!busVars
<1>21. ASSUME NEW e \in NatsEvent, Nats!NextMessage(e) PROVE n_closed'
  BY <1>21 DEF Nats!NextMessage, Nats!connVars, Nats!busVars
<1>22. ASSUME NEW e \in NatsEvent, NEW ok \in BOOLEAN, Nats!Settles(e, ok) PROVE n_closed'
  BY <1>22 DEF Nats!Settles, Nats!connVars, Nats!busVars
<1>23. ASSUME NEW e \in NatsEvent, NEW ok \in BOOLEAN, Nats!OrphanSettles(e, ok) PROVE n_closed'
  BY <1>23 DEF Nats!OrphanSettles, Nats!connVars, Nats!busVars
<1> QED
  BY <1>1, <1>2, <1>3, <1>4, <1>5, <1>6, <1>7, <1>8, <1>9, <1>10, <1>11, <1>12, <1>13, <1>14,
      <1>15, <1>16, <1>17, <1>18, <1>19, <1>20, <1>21, <1>22, <1>23 DEF Nats!Next

LEMMA NatsTrustStep ==
  ASSUME NatsTypes, NatsTypes', NatsPlain, ~n_closed, ~n_closed', NatsPlaces, NatsPlaces', NatsTrust,
         Nats!Next
  PROVE  NatsTrust'
<1>f. /\ "flap" \notin Nats!Faults /\ "lateSub" \notin Nats!Faults
      /\ "publisher" \notin Nats!Faults /\ "unsubscribed" \notin Nats!Faults
  BY DEF NatsPlain, Nats!Faults
<1>c. NoConn \notin Conn /\ ~n_cache.closed
  BY NatsConstants DEF NatsTypes
<1>s. UNCHANGED n_setting
  BY DEF Nats!Next
<1> USE DEF NatsTrust
<1>1. CASE Nats!Subscribe
  <2>1. (n_cache' = n_cache /\ (n_serverSub => n_serverSub')) \/ (Reconciling(n_cache, n_cache') /\ n_serverSub')
    BY <1>1, <1>f, <1>c, NatsCache DEF NatsTypes, NatsPlaces, Nats!Open, Nats!JetStream,
        Nats!Subscribe, Nats!StartSubscribe, Nats!Subscribed
  <2>2. n_wire' = n_wire
    BY <1>1, <1>f, <1>c DEF NatsTypes, NatsPlaces, Nats!JetStream, Nats!Faults, Nats!Subscribe,
        Nats!StartSubscribe, Nats!Subscribed, Nats!Watched, Nats!Open, Nats!JetStream, Nats!budget
  <2> QED  BY <1>c, <1>s, <2>1, <2>2 DEF NatsTypes, Reconciling, Distrusted, SameTrust, Flushed,
      Gapped, NatsReported, Trusting
<1>2. CASE Nats!TimerFires
  <2>1. (n_cache' = n_cache /\ (n_serverSub => n_serverSub')) \/ (Reconciling(n_cache, n_cache') /\ n_serverSub')
    BY <1>2, <1>f, <1>c, NatsCache DEF NatsTypes, NatsPlaces, Nats!Open, Nats!JetStream,
        Nats!TimerFires, Nats!StartSubscribe, Nats!Subscribed
  <2>2. n_wire' = n_wire
    BY <1>2, <1>f, <1>c DEF NatsTypes, NatsPlaces, Nats!JetStream, Nats!Faults, Nats!TimerFires,
        Nats!StartSubscribe, Nats!Subscribed, Nats!Watched, Nats!Open, Nats!JetStream, Nats!budget
  <2> QED  BY <1>c, <1>s, <2>1, <2>2 DEF NatsTypes, Reconciling, Distrusted, SameTrust, Flushed,
      Gapped, NatsReported, Trusting
<1>3. CASE Nats!PublisherDials
  <2>1. n_cache' = n_cache
    BY <1>3, NatsCache, NatsGap DEF Nats!PublisherDials
  <2>2. n_wire' = n_wire /\ (n_serverSub => n_serverSub')
    BY <1>3, <1>f, <1>c DEF NatsTypes, NatsPlaces, Nats!JetStream, Nats!Faults,
        Nats!PublisherDials, Nats!busVars, Nats!statusVars, Nats!deliveryVars, Nats!budget
  <2> QED  BY <1>c, <1>s, <2>1, <2>2 DEF NatsTypes, Reconciling, Distrusted, SameTrust, Flushed,
      Gapped, NatsReported, Trusting
<1>4. CASE Nats!Prepared
  <2>1. (n_cache' = n_cache /\ (n_serverSub => n_serverSub')) \/ (Reconciling(n_cache, n_cache') /\ n_serverSub')
    BY <1>4, <1>f, <1>c, NatsCache DEF NatsTypes, NatsPlaces, Nats!Open, Nats!JetStream,
        Nats!Prepared, Nats!Subscribed
  <2>2. n_wire' = n_wire
    BY <1>4, <1>f, <1>c DEF NatsTypes, NatsPlaces, Nats!JetStream, Nats!Faults, Nats!Prepared,
        Nats!Subscribed, Nats!connVars, Nats!statusVars, Nats!budget
  <2> QED  BY <1>c, <1>s, <2>1, <2>2 DEF NatsTypes, Reconciling, Distrusted, SameTrust, Flushed,
      Gapped, NatsReported, Trusting
<1>5. CASE Nats!PrepareFails
  <2>1. Distrusted(n_cache, n_cache')
    BY <1>5, NatsCache, NatsGap DEF Nats!PrepareFails, Nats!SubscribeThrows
  <2>2. n_wire' = n_wire /\ (n_serverSub => n_serverSub')
    BY <1>5, <1>f, <1>c DEF NatsTypes, NatsPlaces, Nats!JetStream, Nats!Faults, Nats!PrepareFails,
        Nats!SubscribeThrows, Nats!connVars, Nats!statusVars, Nats!deliveryVars, Nats!budget
  <2> QED  BY <1>c, <1>s, <2>1, <2>2 DEF NatsTypes, Reconciling, Distrusted, SameTrust, Flushed,
      Gapped, NatsReported, Trusting
<1>6. CASE Nats!MonitorFlushed
  <2>1. n_cache' = n_cache \/ SameTrust(n_cache, n_cache') \/ (Reconciling(n_cache, n_cache') /\ n_subscription # NoConn)
    BY <1>6, NatsCache, NatsGap DEF Nats!MonitorFlushed
  <2>2. /\ n_wire' = n_wire /\ n_serverSub' = n_serverSub
        /\ n_subscription # NoConn => n_serverSub
    BY <1>6, <1>f, <1>c DEF NatsTypes, NatsPlaces, Nats!JetStream, Nats!Faults,
        Nats!MonitorFlushed, Nats!connVars, Nats!deliveryVars, Nats!budget
  <2> QED  BY <1>c, <1>s, <2>1, <2>2 DEF NatsTypes, Reconciling, Distrusted, SameTrust, Flushed,
      Gapped, NatsReported, Trusting
<1>7. CASE Nats!SubArrives
  <2>1. n_cache' = n_cache
    BY <1>7, NatsCache, NatsGap DEF Nats!SubArrives
  <2>2. n_wire' = n_wire /\ (n_serverSub => n_serverSub')
    BY <1>7, <1>f, <1>c DEF NatsTypes, NatsPlaces, Nats!JetStream, Nats!Faults, Nats!SubArrives,
        Nats!connVars, Nats!statusVars, Nats!deliveryVars, Nats!budget
  <2> QED  BY <1>c, <1>s, <2>1, <2>2 DEF NatsTypes, Reconciling, Distrusted, SameTrust, Flushed,
      Gapped, NatsReported, Trusting
<1>8. CASE Nats!SubscriptionEnds
  <2>0. n_subscription \in Conn /\ n_wire' = <<>>
    BY <1>8 DEF NatsTypes, Nats!SubscriptionEnds
  <2>1. Distrusted(Nats!Lost(n_subscription, n_cache), n_cache')
    BY <1>8, <2>0, NatsLost DEF Nats!SubscriptionEnds, Nats!HandleEnded
  <2>2. Nats!Lost(n_subscription, n_cache).closed = n_cache.closed
    BY <2>0, NatsLost DEF Gapped
  <2> QED  BY <1>c, <1>s, <2>0, <2>1, <2>2 DEF Distrusted
<1>9. CASE Nats!MessageArrives
  <2>1. n_cache' = n_cache \/ NatsReported(n_cache')
    BY <1>9, NatsCache, NatsGap DEF Nats!MessageArrives
  <2>2. n_wire # <<>> /\ n_serverSub' = n_serverSub
    BY <1>9, <1>f, <1>c DEF NatsTypes, NatsPlaces, Nats!JetStream, Nats!Faults, Nats!MessageArrives,
        Nats!connVars, Nats!busVars, Nats!budget
  <2> QED  BY <1>c, <1>s, <2>1, <2>2 DEF NatsTypes, Reconciling, Distrusted, SameTrust, Flushed,
      Gapped, NatsReported, Trusting
<1>10. CASE Nats!Reconciled
  <2>1. n_cache' = n_cache \/ (Reconciling(n_cache, n_cache') /\ ~n_closed)
    BY <1>10, NatsCache, NatsGap DEF Nats!Reconciled
  <2>2. /\ n_wire' = n_wire /\ n_serverSub' = n_serverSub
        /\ n_cache' = n_cache \/ n_setting.jetStream \/ n_serverSub
    BY <1>10, <1>f, <1>c DEF NatsTypes, NatsPlaces, Nats!JetStream, Nats!Faults, Nats!Reconciled,
        Nats!connVars, Nats!busVars, Nats!deliveryVars, Nats!budget
  <2> QED  BY <1>c, <1>s, <2>1, <2>2 DEF NatsTypes, Reconciling, Distrusted, SameTrust, Flushed,
      Gapped, NatsReported, Trusting
<1>11. CASE Nats!ReconcileFails
  <2>1. Distrusted(n_cache, n_cache')
    BY <1>11, NatsCache, NatsGap DEF Nats!ReconcileFails
  <2>2. n_wire' = n_wire /\ (n_serverSub => n_serverSub')
    BY <1>11, <1>f, <1>c DEF NatsTypes, NatsPlaces, Nats!JetStream, Nats!Faults,
        Nats!ReconcileFails, Nats!connVars, Nats!busVars, Nats!deliveryVars, Nats!budget
  <2> QED  BY <1>c, <1>s, <2>1, <2>2 DEF NatsTypes, Reconciling, Distrusted, SameTrust, Flushed,
      Gapped, NatsReported, Trusting
<1>12. CASE Nats!RestoreDone
  <2>1. Flushed(n_cache, n_cache')
    BY <1>12, NatsCache, NatsGap DEF Nats!RestoreDone
  <2>2. n_wire' = n_wire /\ (n_serverSub => n_serverSub')
    BY <1>12, <1>f, <1>c DEF NatsTypes, NatsPlaces, Nats!JetStream, Nats!Faults, Nats!RestoreDone,
        Nats!connVars, Nats!busVars, Nats!statusVars, Nats!deliveryVars, Nats!budget
  <2> QED  BY <1>c, <1>s, <2>1, <2>2 DEF NatsTypes, Reconciling, Distrusted, SameTrust, Flushed,
      Gapped, NatsReported, Trusting
<1>13. CASE Nats!Disconnect
  BY <1>13 DEF Nats!Disconnect
<1>14. CASE Nats!DisconnectEnds
  <2>1. n_cache' = n_cache
    BY <1>14, NatsCache, NatsGap DEF Nats!DisconnectEnds
  <2>2. n_wire' = n_wire /\ (n_serverSub => n_serverSub')
    BY <1>14, <1>f, <1>c DEF NatsTypes, NatsPlaces, Nats!JetStream, Nats!Faults,
        Nats!DisconnectEnds, Nats!statusVars, Nats!deliveryVars, Nats!budget
  <2> QED  BY <1>c, <1>s, <2>1, <2>2 DEF NatsTypes, Reconciling, Distrusted, SameTrust, Flushed,
      Gapped, NatsReported, Trusting
<1>15. ASSUME NEW c \in Conn, Nats!ConnDrops(c) PROVE NatsTrust'
  <2> DEFINE b == Nats!Lost(c, n_cache)
             e == Nats!OnStatus(b, "error")
  <2>1. n_wire' = <<>> \/ n_wire' = n_wire
    BY <1>15 DEF Nats!ConnDrops
  <2>2. /\ b = n_cache \/ (Gapped(n_cache, b) /\ n_subscription = c /\ n_wire # <<>>)
        /\ Distrusted(b, e) /\ Distrusted(b, Nats!OnStatus(b, "disconnected"))
        /\ Distrusted(e, Nats!OnStatus(e, "disconnected"))
    BY NatsLost
  <2>3. n_subscription = c => n_statusMonitor.connection = c /\ n_statusMonitor.at \in {"watching", "flushing"}
    BY <1>15, <1>c DEF NatsPlaces, NatsTypes, Nats!Monitor, Nats!ConnDrops
  <2>4. \/ n_subscription # c /\ (n_cache' = b \/ n_cache' = e)
        \/ n_cache' = Nats!OnStatus(b, "disconnected") \/ n_cache' = Nats!OnStatus(e, "disconnected")
    BY <1>15, <2>3 DEF Nats!ConnDrops
  <2>5. n_subscription # c => n_serverSub' = n_serverSub
    BY <1>15 DEF Nats!ConnDrops, NatsTypes
  <2> HIDE DEF b, e
  <2>6. b.closed = FALSE /\ e.closed = FALSE
    BY <1>c, <2>2 DEF Gapped, Distrusted, NatsTypes, Consumer, Redis!Consumer
  <2>7. (n_cache' = n_cache /\ n_serverSub' = n_serverSub) \/ (~Trusting(n_cache') /\ ~n_cache'.gap)
    BY <2>2, <2>4, <2>5, <2>6 DEF Distrusted
  <2> QED  BY <1>s, <2>1, <2>7
<1>16. ASSUME NEW c \in Conn, Nats!ConnReconnects(c) PROVE NatsTrust'
  <2>1. n_cache' = n_cache
    BY <1>16, NatsCache, NatsGap DEF Nats!ConnReconnects
  <2>2. n_wire' = n_wire /\ (n_serverSub => n_serverSub')
    BY <1>16, <1>f, <1>c DEF NatsTypes, NatsPlaces, Nats!JetStream, Nats!Faults,
        Nats!ConnReconnects, Nats!deliveryVars, Nats!budget
  <2> QED  BY <1>c, <1>s, <2>1, <2>2 DEF NatsTypes, Reconciling, Distrusted, SameTrust, Flushed,
      Gapped, NatsReported, Trusting
<1>17. ASSUME NEW c \in Conn, Nats!ConnGivesUp(c) PROVE NatsTrust'
  <2>1. (n_cache' = n_cache /\ n_subscription # c) \/ Distrusted(n_cache, n_cache')
    BY <1>17, NatsCache, NatsGap DEF Nats!ConnGivesUp, Nats!HandleEnded
  <2>2. n_wire' = n_wire /\ (n_subscription # c => n_serverSub' = n_serverSub)
    BY <1>17, <1>f, <1>c DEF NatsTypes, NatsPlaces, Nats!JetStream, Nats!Faults, Nats!ConnGivesUp,
        Nats!HandleEnded, Nats!deliveryVars, Nats!budget
  <2> QED  BY <1>c, <1>s, <2>1, <2>2 DEF NatsTypes, Reconciling, Distrusted, SameTrust, Flushed,
      Gapped, NatsReported, Trusting
<1>18. ASSUME NEW w \in {"subscribe", "publish"}, Nats!DialFails(w) PROVE NatsTrust'
  <2>1. n_cache' = n_cache \/ Distrusted(n_cache, n_cache')
    BY <1>18, NatsCache, NatsGap DEF Nats!DialFails, Nats!SubscribeThrows
  <2>2. n_wire' = n_wire /\ (n_serverSub => n_serverSub')
    BY <1>18, <1>f, <1>c DEF NatsTypes, NatsPlaces, Nats!JetStream, Nats!Faults, Nats!DialFails,
        Nats!SubscribeThrows, Nats!statusVars, Nats!deliveryVars
  <2> QED  BY <1>c, <1>s, <2>1, <2>2 DEF NatsTypes, Reconciling, Distrusted, SameTrust, Flushed,
      Gapped, NatsReported, Trusting
<1>19. ASSUME NEW w \in {"subscribe", "publish"}, NEW c \in Conn, Nats!Dialed(w, c) PROVE NatsTrust'
  <2>1. (n_cache' = n_cache /\ (n_serverSub => n_serverSub')) \/ (Reconciling(n_cache, n_cache') /\ n_serverSub')
    BY <1>19, <1>f, <1>c, NatsCache DEF NatsTypes, NatsPlaces, Nats!Open, Nats!JetStream,
        Nats!Dialed, Nats!Subscribed
  <2>2. n_wire' = n_wire
    BY <1>19, <1>f, <1>c DEF NatsTypes, NatsPlaces, Nats!JetStream, Nats!Faults, Nats!Dialed,
        Nats!Subscribed, Nats!Watched, Nats!JetStream, Nats!budget
  <2> QED  BY <1>c, <1>s, <2>1, <2>2 DEF NatsTypes, Reconciling, Distrusted, SameTrust, Flushed,
      Gapped, NatsReported, Trusting
<1>20. ASSUME NEW e \in NatsEvent, Nats!PeerPublishes(e) PROVE NatsTrust'
  <2>1. n_cache' = n_cache \/ (Gapped(n_cache, n_cache') /\ ~n_serverSub /\ ~n_setting.jetStream)
    BY <1>20, NatsCache, NatsGap DEF Nats!PeerPublishes, Nats!JetStream
  <2>2. (n_setting.jetStream => n_wire' = n_wire) /\ (n_serverSub => n_serverSub')
    BY <1>20, <1>f, <1>c DEF NatsTypes, NatsPlaces, Nats!JetStream, Nats!Faults,
        Nats!PeerPublishes, Nats!JetStream, Nats!connVars, Nats!busVars, Nats!statusVars,
        Nats!budget
  <2> QED  BY <1>c, <1>s, <2>1, <2>2 DEF NatsTypes, Reconciling, Distrusted, SameTrust, Flushed,
      Gapped, NatsReported, Trusting
<1>21. ASSUME NEW e \in NatsEvent, Nats!NextMessage(e) PROVE NatsTrust'
  <2>1. n_cache' = n_cache
    BY <1>21, NatsCache, NatsGap DEF Nats!NextMessage
  <2>2. n_wire' = n_wire /\ (n_serverSub => n_serverSub')
    BY <1>21, <1>f, <1>c DEF NatsTypes, NatsPlaces, Nats!JetStream, Nats!Faults, Nats!NextMessage,
        Nats!connVars, Nats!busVars, Nats!statusVars, Nats!budget
  <2> QED  BY <1>c, <1>s, <2>1, <2>2 DEF NatsTypes, Reconciling, Distrusted, SameTrust, Flushed,
      Gapped, NatsReported, Trusting
<1>22. ASSUME NEW e \in NatsEvent, NEW ok \in BOOLEAN, Nats!Settles(e, ok) PROVE NatsTrust'
  <2>1. n_cache' = n_cache \/ NatsReported(n_cache')
    BY <1>22, NatsCache, NatsGap DEF Nats!Settles
  <2>2. n_wire' = n_wire /\ (n_serverSub => n_serverSub')
    BY <1>22, <1>f, <1>c DEF NatsTypes, NatsPlaces, Nats!JetStream, Nats!Faults, Nats!Settles,
        Nats!connVars, Nats!busVars
  <2> QED  BY <1>c, <1>s, <2>1, <2>2 DEF NatsTypes, Reconciling, Distrusted, SameTrust, Flushed,
      Gapped, NatsReported, Trusting
<1>23. ASSUME NEW e \in NatsEvent, NEW ok \in BOOLEAN, Nats!OrphanSettles(e, ok) PROVE NatsTrust'
  <2>1. n_cache' = n_cache \/ NatsReported(n_cache')
    BY <1>23, NatsCache, NatsGap DEF Nats!OrphanSettles
  <2>2. n_wire' = n_wire /\ (n_serverSub => n_serverSub')
    BY <1>23, <1>f, <1>c DEF NatsTypes, NatsPlaces, Nats!JetStream, Nats!Faults,
        Nats!OrphanSettles, Nats!connVars, Nats!busVars
  <2> QED  BY <1>c, <1>s, <2>1, <2>2 DEF NatsTypes, Reconciling, Distrusted, SameTrust, Flushed,
      Gapped, NatsReported, Trusting
<1> QED
  BY <1>1, <1>2, <1>3, <1>4, <1>5, <1>6, <1>7, <1>8, <1>9, <1>10, <1>11, <1>12, <1>13, <1>14,
      <1>15, <1>16, <1>17, <1>18, <1>19, <1>20, <1>21, <1>22, <1>23 DEF Nats!Next

LEMMA NatsStep == NatsInv /\ Nats!Next => NatsInv'
<1> SUFFICES ASSUME NatsInv, Nats!Next PROVE NatsInv'
  OBVIOUS
<1>1. NatsTypes /\ NatsTypes'
  BY NatsTypesStep DEF NatsInv
<1>2. SUFFICES ASSUME NatsPlain', ~n_closed' PROVE NatsPlaces' /\ NatsTrust'
  BY <1>1 DEF NatsInv
<1>3. NatsPlain
  BY <1>2 DEF NatsPlain, Nats!Next
<1>4. ~n_closed
  <2>1. SUFFICES ASSUME n_closed PROVE n_closed'
    BY <1>2
  <2> QED  BY <1>1, <2>1, NatsClosedStays
<1>5. NatsPlaces /\ NatsTrust
  BY <1>3, <1>4 DEF NatsInv
<1>6. NatsPlaces'
  BY <1>1, <1>2, <1>3, <1>4, <1>5, NatsPlacesStep
<1> QED  BY <1>1, <1>2, <1>3, <1>4, <1>5, <1>6, NatsTrustStep

-----------------------------------------------------------------------------
(* RabbitMQEventBus *)

\* Not the race that NoTrustAcrossGap excludes.
RabbitPlain == "sameRead" \notin q_setting.faults

RabbitTypes ==
  /\ q_connection \in Conn \cup {NoConn} /\ q_initPromise \in Conn \cup {NoConn}
  /\ q_consumerTag \in Conn \cup {NoConn} /\ q_consumer \in Conn \cup {NoConn}
  /\ q_bound \in BOOLEAN /\ q_setting.durable \in BOOLEAN
  /\ q_subscribing \in [Rabbit!Caller -> Conn \cup {NoConn}] /\ q_answered \subseteq Rabbit!Caller
  /\ q_cache \in Consumer /\ (q_cache.closed <=> q_closing # "no")

\* Every subscribe() under way works on the connection in use, which is also the broker's
\* consumer's; a consumer tag, and a consume() that was answered, mean that the broker has
\* the consumer and its queue.  A connection is opened only when there is none.
RabbitPlaces ==
  /\ q_initPromise # NoConn => q_connection = NoConn
  /\ q_consumer \in {NoConn, q_connection}
  /\ q_consumerTag # NoConn => q_consumerTag = q_connection /\ q_consumer = q_consumerTag /\ q_bound
  /\ \A s \in Rabbit!Caller :
       /\ q_subscribing[s] \in {NoConn, q_connection}
       /\ s \in q_answered => q_subscribing[s] # NoConn /\ q_consumer = q_connection /\ q_bound

\* A cache that trusts, or is about to, has a queue that keeps what peers publish.
RabbitTrust == Trusting(q_cache) => q_bound /\ ~q_cache.gap

RabbitInv == RabbitTypes /\ (RabbitPlain /\ ~q_cache.closed => RabbitPlaces /\ RabbitTrust)

LEMMA RabbitConstants == NoConn \notin Conn /\ Conn # {} /\ RabbitSettings \subseteq Rabbit!Setting
BY EventBusAssumption DEF Rabbit!RabbitAssumption

LEMMA RabbitInit == Rabbit!Init => RabbitInv
<1> SUFFICES ASSUME Rabbit!Init PROVE RabbitInv
  OBVIOUS
<1>1. Rabbit!NewConsumer \in Consumer /\ ~Trusting(Rabbit!NewConsumer) /\ ~Rabbit!NewConsumer.closed
  BY DEF Consumer, Redis!Consumer, Rabbit!NewConsumer, Redis!Status, Trusting
<1>2. q_connection \in Conn /\ q_setting.durable \in BOOLEAN
  BY RabbitConstants DEF Rabbit!Init, Rabbit!Setting
<1>3. RabbitTypes
  BY <1>1, <1>2 DEF Rabbit!Init, RabbitTypes, Rabbit!Durable
<1>4. RabbitPlaces
  BY DEF Rabbit!Init, RabbitPlaces
<1>5. RabbitTrust
  BY <1>1 DEF Rabbit!Init, RabbitTrust
<1> QED  BY <1>3, <1>4, <1>5 DEF RabbitInv

\* A gap that is reported, and then perhaps reconciled over a consumer that is there.
RabbitReports(d) ==
  /\ d \in Consumer /\ d.closed = q_cache.closed
  /\ ~d.closed => ~d.gap /\ (Trusting(d) => q_consumerTag # NoConn)

\* What the steps of the bus do to its cache.
LEMMA RabbitCache ==
  ASSUME RabbitTypes
  PROVE  /\ Distrusted(q_cache, Rabbit!OnStatus(q_cache, "error"))
         /\ Distrusted(q_cache, Rabbit!OnStatus(q_cache, "disconnected"))
         /\ Reconciling(q_cache, Rabbit!OnStatus(q_cache, "subscribed"))
         /\ Gapped(q_cache, Rabbit!Missed(q_cache))
         /\ q_cache.restoring => Flushed(q_cache, Rabbit!Restored(q_cache))
         /\ Rabbit!CloseConsumer(q_cache) \in Consumer /\ Rabbit!CloseConsumer(q_cache).closed
BY RabbitConsumer DEF RabbitTypes

LEMMA RabbitReport ==
  ASSUME RabbitTypes
  PROVE  LET e == Rabbit!OnStatus(Rabbit!Missed(q_cache), "error")
         IN  /\ RabbitReports(e)
             /\ q_consumerTag # NoConn =>
                  /\ RabbitReports(Rabbit!OnStatus(e, "subscribed"))
                  /\ RabbitReports(Rabbit!OnStatus(q_cache, "subscribed"))
<1> DEFINE m == Rabbit!Missed(q_cache)
           e == Rabbit!OnStatus(m, "error")
<1>1. Gapped(q_cache, m)
  BY RabbitCache
<1> HIDE DEF m
<1>2. Distrusted(m, e)
  BY <1>1, RabbitConsumer DEF Gapped
<1> HIDE DEF e
<1>3. RabbitReports(e)
  BY <1>1, <1>2 DEF Gapped, Distrusted, RabbitReports
<1>4. Reconciling(e, Rabbit!OnStatus(e, "subscribed"))
  BY <1>3, RabbitConsumer DEF RabbitReports
<1>5. Reconciling(q_cache, Rabbit!OnStatus(q_cache, "subscribed"))
  BY RabbitCache
<1> QED  BY <1>3, <1>4, <1>5 DEF RabbitReports, Reconciling, RabbitTypes, m, e

LEMMA RabbitTypesStep == RabbitTypes /\ Rabbit!Next => RabbitTypes'
<1> SUFFICES ASSUME RabbitTypes, Rabbit!Next PROVE RabbitTypes'
  OBVIOUS
<1>s. UNCHANGED q_setting
  BY DEF Rabbit!Next
<1>1. CASE Rabbit!Subscribe
  <2>1. q_cache' = q_cache
    BY <1>1, RabbitCache, RabbitReport DEF Rabbit!Subscribe
  <2>2. q_cache' \in Consumer /\ (q_cache'.closed <=> q_closing' # "no")
    <3>1. q_closing' = q_closing
      BY <1>1 DEF Rabbit!Subscribe, Rabbit!closeVars
    <3> QED  BY <2>1, <3>1 DEF RabbitTypes, Reconciling, Distrusted, Flushed, Gapped, RabbitReports
  <2> QED  BY <1>1, <1>s, <2>2 DEF RabbitTypes, Rabbit!Durable, Rabbit!Caller, Rabbit!Subscribe,
      Rabbit!StartSubscribe, Rabbit!connVars, Rabbit!closeVars, Rabbit!brokerVars, Rabbit!budget
<1>2. CASE Rabbit!ReconnectTimerFires
  <2>1. q_cache' = q_cache
    BY <1>2, RabbitCache, RabbitReport DEF Rabbit!ReconnectTimerFires
  <2>2. q_cache' \in Consumer /\ (q_cache'.closed <=> q_closing' # "no")
    <3>1. q_closing' = q_closing
      BY <1>2 DEF Rabbit!ReconnectTimerFires, Rabbit!closeVars
    <3> QED  BY <2>1, <3>1 DEF RabbitTypes, Reconciling, Distrusted, Flushed, Gapped, RabbitReports
  <2> QED  BY <1>2, <1>s, <2>2 DEF RabbitTypes, Rabbit!Durable, Rabbit!Caller,
      Rabbit!ReconnectTimerFires, Rabbit!StartSubscribe, Rabbit!closeVars, Rabbit!brokerVars,
      Rabbit!budget, Rabbit!StartInit
<1>3. CASE Rabbit!HealthCheck
  <2>1. q_cache' = q_cache
    BY <1>3, RabbitCache, RabbitReport DEF Rabbit!HealthCheck
  <2>2. q_cache' \in Consumer /\ (q_cache'.closed <=> q_closing' # "no")
    <3>1. q_closing' = q_closing
      BY <1>3 DEF Rabbit!HealthCheck, Rabbit!closeVars
    <3> QED  BY <2>1, <3>1 DEF RabbitTypes, Reconciling, Distrusted, Flushed, Gapped, RabbitReports
  <2> QED  BY <1>3, <1>s, <2>2 DEF RabbitTypes, Rabbit!Durable, Rabbit!Caller, Rabbit!HealthCheck,
      Rabbit!busVars, Rabbit!closeVars, Rabbit!brokerVars, Rabbit!handlerVars, Rabbit!budget,
      Rabbit!StartInit
<1>4. CASE Rabbit!OpenDone
  <2>1. q_cache' = q_cache
    BY <1>4, RabbitCache, RabbitReport DEF Rabbit!OpenDone
  <2>2. q_cache' \in Consumer /\ (q_cache'.closed <=> q_closing' # "no")
    <3>1. q_closing' = q_closing
      BY <1>4 DEF Rabbit!OpenDone, Rabbit!closeVars
    <3> QED  BY <2>1, <3>1 DEF RabbitTypes, Reconciling, Distrusted, Flushed, Gapped, RabbitReports
  <2> QED  BY <1>4, <1>s, <2>2 DEF RabbitTypes, Rabbit!Durable, Rabbit!Caller, Rabbit!OpenDone,
      Rabbit!closeVars, Rabbit!brokerVars, Rabbit!budget
<1>5. CASE Rabbit!OpenFails
  <2>1. q_cache' = q_cache \/ Distrusted(q_cache, q_cache')
    BY <1>5, RabbitCache, RabbitReport DEF Rabbit!OpenFails
  <2>2. q_cache' \in Consumer /\ (q_cache'.closed <=> q_closing' # "no")
    <3>1. q_closing' = q_closing
      BY <1>5 DEF Rabbit!OpenFails, Rabbit!closeVars
    <3> QED  BY <2>1, <3>1 DEF RabbitTypes, Reconciling, Distrusted, Flushed, Gapped, RabbitReports
  <2> QED  BY <1>5, <1>s, <2>2 DEF RabbitTypes, Rabbit!Durable, Rabbit!Caller, Rabbit!OpenFails,
      Rabbit!closeVars, Rabbit!brokerVars, Rabbit!handlerVars
<1>6. CASE Rabbit!ConsumerCancelled
  <2>1. Distrusted(q_cache, q_cache')
    BY <1>6, RabbitCache, RabbitReport DEF Rabbit!ConsumerCancelled
  <2>2. q_cache' \in Consumer /\ (q_cache'.closed <=> q_closing' # "no")
    <3>1. q_closing' = q_closing
      BY <1>6 DEF Rabbit!ConsumerCancelled, Rabbit!closeVars
    <3> QED  BY <2>1, <3>1 DEF RabbitTypes, Reconciling, Distrusted, Flushed, Gapped, RabbitReports
  <2> QED  BY <1>6, <1>s, <2>2 DEF RabbitTypes, Rabbit!Durable, Rabbit!Caller,
      Rabbit!ConsumerCancelled, Rabbit!connVars, Rabbit!closeVars
<1>7. CASE Rabbit!RestoreDone
  <2>1. Flushed(q_cache, q_cache')
    BY <1>7, RabbitCache, RabbitReport DEF Rabbit!RestoreDone
  <2>2. q_cache' \in Consumer /\ (q_cache'.closed <=> q_closing' # "no")
    <3>1. q_closing' = q_closing
      BY <1>7 DEF Rabbit!RestoreDone, Rabbit!closeVars
    <3> QED  BY <2>1, <3>1 DEF RabbitTypes, Reconciling, Distrusted, Flushed, Gapped, RabbitReports
  <2> QED  BY <1>7, <1>s, <2>2 DEF RabbitTypes, Rabbit!Durable, Rabbit!Caller, Rabbit!RestoreDone,
      Rabbit!connVars, Rabbit!busVars, Rabbit!closeVars, Rabbit!brokerVars, Rabbit!handlerVars,
      Rabbit!budget
<1>8. CASE Rabbit!Disconnect
  <2>2. q_cache' \in Consumer /\ (q_cache'.closed <=> q_closing' # "no")
    BY <1>8, RabbitCache DEF Rabbit!Disconnect
  <2> QED  BY <1>8, <1>s, <2>2 DEF RabbitTypes, Rabbit!Durable, Rabbit!Caller, Rabbit!Disconnect,
      Rabbit!budget
<1>9. CASE Rabbit!DisconnectEnds
  <2>1. q_cache' = q_cache
    BY <1>9, RabbitCache, RabbitReport DEF Rabbit!DisconnectEnds
  <2>2. q_cache' \in Consumer /\ (q_cache'.closed <=> q_closing' # "no")
    <3>1. q_closing' # "no" /\ q_closing # "no"
      BY <1>9 DEF Rabbit!DisconnectEnds, Rabbit!closeVars
    <3> QED  BY <2>1, <3>1 DEF RabbitTypes, Reconciling, Distrusted, Flushed, Gapped, RabbitReports
  <2> QED  BY <1>9, <1>s, <2>2 DEF RabbitTypes, Rabbit!Durable, Rabbit!Caller,
      Rabbit!DisconnectEnds, Rabbit!RejectSubscribe, Rabbit!BrokerForgets, Rabbit!handlerVars,
      Rabbit!budget
<1>10. ASSUME NEW s \in Rabbit!Caller, Rabbit!ConsumeAnswered(s) PROVE RabbitTypes'
  <2>1. q_cache' = q_cache
    BY <1>10, RabbitCache, RabbitReport DEF Rabbit!ConsumeAnswered
  <2>2. q_cache' \in Consumer /\ (q_cache'.closed <=> q_closing' # "no")
    <3>1. q_closing' = q_closing
      BY <1>10 DEF Rabbit!ConsumeAnswered, Rabbit!closeVars
    <3> QED  BY <2>1, <3>1 DEF RabbitTypes, Reconciling, Distrusted, Flushed, Gapped, RabbitReports
  <2> QED  BY <1>10, <1>s, <2>2 DEF RabbitTypes, Rabbit!Durable, Rabbit!Caller,
      Rabbit!ConsumeAnswered, Rabbit!connVars, Rabbit!closeVars, Rabbit!handlerVars, Rabbit!budget
<1>11. ASSUME NEW s \in Rabbit!Caller, Rabbit!SubscribeEnds(s) PROVE RabbitTypes'
  <2>1. Reconciling(q_cache, q_cache')
    BY <1>11, RabbitCache, RabbitReport DEF Rabbit!SubscribeEnds
  <2>2. q_cache' \in Consumer /\ (q_cache'.closed <=> q_closing' # "no")
    <3>1. q_closing' = q_closing
      BY <1>11 DEF Rabbit!SubscribeEnds, Rabbit!closeVars
    <3> QED  BY <2>1, <3>1 DEF RabbitTypes, Reconciling, Distrusted, Flushed, Gapped, RabbitReports
  <2> QED  BY <1>11, <1>s, <2>2 DEF RabbitTypes, Rabbit!Durable, Rabbit!Caller,
      Rabbit!SubscribeEnds, Rabbit!connVars, Rabbit!closeVars, Rabbit!brokerVars,
      Rabbit!handlerVars, Rabbit!budget
<1>12. ASSUME NEW c \in Conn, Rabbit!ConnClosed(c) PROVE RabbitTypes'
  <2>1. q_cache' = q_cache
    BY <1>12, RabbitCache, RabbitReport DEF Rabbit!ConnClosed
  <2>2. q_cache' \in Consumer /\ (q_cache'.closed <=> q_closing' # "no")
    <3>1. q_closing' = q_closing
      BY <1>12 DEF Rabbit!ConnClosed, Rabbit!closeVars
    <3> QED  BY <2>1, <3>1 DEF RabbitTypes, Reconciling, Distrusted, Flushed, Gapped, RabbitReports
  <2> QED  BY <1>12, <1>s, <2>2 DEF RabbitTypes, Rabbit!Durable, Rabbit!Caller, Rabbit!ConnClosed,
      Rabbit!busVars, Rabbit!closeVars, Rabbit!brokerVars, Rabbit!handlerVars, Rabbit!budget
<1>13. ASSUME NEW c \in Conn, NEW to \in {"closed", "closing"}, Rabbit!ConnCloses(c, to) PROVE RabbitTypes'
  <2>1. Distrusted(q_cache, q_cache')
    BY <1>13, RabbitCache, RabbitReport DEF Rabbit!ConnCloses
  <2>2. q_cache' \in Consumer /\ (q_cache'.closed <=> q_closing' # "no")
    <3>1. q_closing' = q_closing
      BY <1>13 DEF Rabbit!ConnCloses, Rabbit!closeVars
    <3> QED  BY <2>1, <3>1 DEF RabbitTypes, Reconciling, Distrusted, Flushed, Gapped, RabbitReports
  <2> QED  BY <1>13, <1>s, <2>2 DEF RabbitTypes, Rabbit!Durable, Rabbit!Caller, Rabbit!ConnCloses,
      Rabbit!RejectSubscribe, Rabbit!BrokerForgets, Rabbit!closeVars
<1>14. ASSUME NEW m \in Message, Rabbit!PeerPublishes(m) PROVE RabbitTypes'
  <2>1. q_cache' = q_cache \/ (Gapped(q_cache, q_cache') /\ ~q_bound)
    BY <1>14, RabbitCache, RabbitReport DEF Rabbit!PeerPublishes
  <2>2. q_cache' \in Consumer /\ (q_cache'.closed <=> q_closing' # "no")
    <3>1. q_closing' = q_closing
      BY <1>14 DEF Rabbit!PeerPublishes, Rabbit!closeVars
    <3> QED  BY <2>1, <3>1 DEF RabbitTypes, Reconciling, Distrusted, Flushed, Gapped, RabbitReports
  <2> QED  BY <1>14, <1>s, <2>2 DEF RabbitTypes, Rabbit!Durable, Rabbit!Caller,
      Rabbit!PeerPublishes, Rabbit!connVars, Rabbit!busVars, Rabbit!closeVars, Rabbit!handlerVars,
      Rabbit!budget
<1>15. ASSUME NEW m \in Message, Rabbit!Deliver(m) PROVE RabbitTypes'
  <2>1. q_cache' = q_cache \/ RabbitReports(q_cache')
    BY <1>15, RabbitCache, RabbitReport DEF Rabbit!Deliver, Rabbit!ReconcileIfIdle
  <2>2. q_cache' \in Consumer /\ (q_cache'.closed <=> q_closing' # "no")
    <3>1. q_closing' = q_closing
      BY <1>15 DEF Rabbit!Deliver, Rabbit!closeVars
    <3> QED  BY <2>1, <3>1 DEF RabbitTypes, Reconciling, Distrusted, Flushed, Gapped, RabbitReports
  <2> QED  BY <1>15, <1>s, <2>2 DEF RabbitTypes, Rabbit!Durable, Rabbit!Caller, Rabbit!Deliver,
      Rabbit!connVars, Rabbit!busVars, Rabbit!closeVars, Rabbit!budget
<1>16. ASSUME NEW e \in Message \X Conn, NEW ok \in BOOLEAN, Rabbit!Settles(e, ok) PROVE RabbitTypes'
  <2>1. q_cache' = q_cache \/ RabbitReports(q_cache')
    BY <1>16, RabbitCache, RabbitReport DEF Rabbit!Settles, Rabbit!ReconcileIfIdle
  <2>2. q_cache' \in Consumer /\ (q_cache'.closed <=> q_closing' # "no")
    <3>1. q_closing' = q_closing
      BY <1>16 DEF Rabbit!Settles, Rabbit!closeVars
    <3> QED  BY <2>1, <3>1 DEF RabbitTypes, Reconciling, Distrusted, Flushed, Gapped, RabbitReports
  <2> QED  BY <1>16, <1>s, <2>2 DEF RabbitTypes, Rabbit!Durable, Rabbit!Caller, Rabbit!Settles,
      Rabbit!connVars, Rabbit!busVars, Rabbit!closeVars
<1> QED
  BY <1>1, <1>2, <1>3, <1>4, <1>5, <1>6, <1>7, <1>8, <1>9, <1>10, <1>11, <1>12, <1>13, <1>14,
      <1>15, <1>16 DEF Rabbit!Next

LEMMA RabbitPlacesStep ==
  ASSUME RabbitTypes, RabbitTypes', RabbitPlain, ~q_cache.closed, ~q_cache'.closed, RabbitPlaces,
         Rabbit!Next
  PROVE  RabbitPlaces'
<1>f. "sameRead" \notin Rabbit!Faults
  BY DEF RabbitPlain, Rabbit!Faults
<1>c. NoConn \notin Conn /\ q_closing = "no"
  BY RabbitConstants DEF RabbitTypes
<1>1. CASE Rabbit!Subscribe
  BY <1>1, <1>f, <1>c DEF RabbitPlaces, RabbitTypes, Rabbit!Caller, Rabbit!Subscribe,
      Rabbit!StartSubscribe, Rabbit!connVars, Rabbit!closeVars, Rabbit!brokerVars, Rabbit!budget
<1>2. CASE Rabbit!ReconnectTimerFires
  BY <1>2, <1>f, <1>c DEF RabbitPlaces, RabbitTypes, Rabbit!Caller, Rabbit!ReconnectTimerFires,
      Rabbit!StartSubscribe, Rabbit!closeVars, Rabbit!brokerVars, Rabbit!budget, Rabbit!StartInit
<1>3. CASE Rabbit!HealthCheck
  BY <1>3, <1>f, <1>c DEF RabbitPlaces, RabbitTypes, Rabbit!Caller, Rabbit!HealthCheck,
      Rabbit!busVars, Rabbit!closeVars, Rabbit!brokerVars, Rabbit!handlerVars, Rabbit!budget,
      Rabbit!StartInit
<1>4. CASE Rabbit!OpenDone
  BY <1>4, <1>f, <1>c DEF RabbitPlaces, RabbitTypes, Rabbit!Caller, Rabbit!OpenDone,
      Rabbit!closeVars, Rabbit!brokerVars, Rabbit!budget
<1>5. CASE Rabbit!OpenFails
  BY <1>5, <1>f, <1>c DEF RabbitPlaces, RabbitTypes, Rabbit!Caller, Rabbit!OpenFails,
      Rabbit!closeVars, Rabbit!brokerVars, Rabbit!handlerVars
<1>6. CASE Rabbit!ConsumerCancelled
  BY <1>6, <1>f, <1>c DEF RabbitPlaces, RabbitTypes, Rabbit!Caller, Rabbit!ConsumerCancelled,
      Rabbit!connVars, Rabbit!closeVars
<1>7. CASE Rabbit!RestoreDone
  BY <1>7, <1>f, <1>c DEF RabbitPlaces, RabbitTypes, Rabbit!Caller, Rabbit!RestoreDone,
      Rabbit!connVars, Rabbit!busVars, Rabbit!closeVars, Rabbit!brokerVars, Rabbit!handlerVars,
      Rabbit!budget
<1>8. CASE Rabbit!Disconnect
  BY <1>8, RabbitCache DEF Rabbit!Disconnect
<1>9. CASE Rabbit!DisconnectEnds
  BY <1>9, <1>c DEF Rabbit!DisconnectEnds
<1>10. ASSUME NEW s \in Rabbit!Caller, Rabbit!ConsumeAnswered(s) PROVE RabbitPlaces'
  BY <1>10, <1>f, <1>c DEF RabbitPlaces, RabbitTypes, Rabbit!Caller, Rabbit!ConsumeAnswered,
      Rabbit!connVars, Rabbit!closeVars, Rabbit!handlerVars, Rabbit!budget
<1>11. ASSUME NEW s \in Rabbit!Caller, Rabbit!SubscribeEnds(s) PROVE RabbitPlaces'
  BY <1>11, <1>f, <1>c DEF RabbitPlaces, RabbitTypes, Rabbit!Caller, Rabbit!SubscribeEnds,
      Rabbit!connVars, Rabbit!closeVars, Rabbit!brokerVars, Rabbit!handlerVars, Rabbit!budget
<1>12. ASSUME NEW c \in Conn, Rabbit!ConnClosed(c) PROVE RabbitPlaces'
  BY <1>12, <1>f, <1>c DEF RabbitPlaces, RabbitTypes, Rabbit!Caller, Rabbit!ConnClosed,
      Rabbit!busVars, Rabbit!closeVars, Rabbit!brokerVars, Rabbit!handlerVars, Rabbit!budget
<1>13. ASSUME NEW c \in Conn, NEW to \in {"closed", "closing"}, Rabbit!ConnCloses(c, to) PROVE RabbitPlaces'
  BY <1>13, <1>f, <1>c DEF RabbitPlaces, RabbitTypes, Rabbit!Caller, Rabbit!ConnCloses,
      Rabbit!RejectSubscribe, Rabbit!BrokerForgets, Rabbit!closeVars, Rabbit!Rejected
<1>14. ASSUME NEW m \in Message, Rabbit!PeerPublishes(m) PROVE RabbitPlaces'
  BY <1>14, <1>f, <1>c DEF RabbitPlaces, RabbitTypes, Rabbit!Caller, Rabbit!PeerPublishes,
      Rabbit!connVars, Rabbit!busVars, Rabbit!closeVars, Rabbit!handlerVars, Rabbit!budget
<1>15. ASSUME NEW m \in Message, Rabbit!Deliver(m) PROVE RabbitPlaces'
  BY <1>15, <1>f, <1>c DEF RabbitPlaces, RabbitTypes, Rabbit!Caller, Rabbit!Deliver,
      Rabbit!connVars, Rabbit!busVars, Rabbit!closeVars, Rabbit!budget
<1>16. ASSUME NEW e \in Message \X Conn, NEW ok \in BOOLEAN, Rabbit!Settles(e, ok) PROVE RabbitPlaces'
  BY <1>16, <1>f, <1>c DEF RabbitPlaces, RabbitTypes, Rabbit!Caller, Rabbit!Settles,
      Rabbit!connVars, Rabbit!busVars, Rabbit!closeVars
<1> QED
  BY <1>1, <1>2, <1>3, <1>4, <1>5, <1>6, <1>7, <1>8, <1>9, <1>10, <1>11, <1>12, <1>13, <1>14,
      <1>15, <1>16 DEF Rabbit!Next

LEMMA RabbitTrustStep ==
  ASSUME RabbitTypes, RabbitTypes', RabbitPlain, ~q_cache.closed, ~q_cache'.closed, RabbitPlaces,
         RabbitTrust, Rabbit!Next
  PROVE  RabbitTrust'
<1>c. q_closing = "no"
  BY DEF RabbitTypes
<1>1. CASE Rabbit!Subscribe
  <2>1. q_cache' = q_cache
    BY <1>1, RabbitCache, RabbitReport DEF Rabbit!Subscribe
  <2>2. q_bound => q_bound'
    BY <1>1 DEF RabbitPlaces, Rabbit!Subscribe, Rabbit!brokerVars
  <2> QED  BY <2>1, <2>2 DEF RabbitTrust, RabbitTypes, RabbitPlaces, Reconciling, Distrusted,
      Flushed, Gapped, RabbitReports, Trusting
<1>2. CASE Rabbit!ReconnectTimerFires
  <2>1. q_cache' = q_cache
    BY <1>2, RabbitCache, RabbitReport DEF Rabbit!ReconnectTimerFires
  <2>2. q_bound => q_bound'
    BY <1>2 DEF RabbitPlaces, Rabbit!ReconnectTimerFires, Rabbit!brokerVars
  <2> QED  BY <2>1, <2>2 DEF RabbitTrust, RabbitTypes, RabbitPlaces, Reconciling, Distrusted,
      Flushed, Gapped, RabbitReports, Trusting
<1>3. CASE Rabbit!HealthCheck
  <2>1. q_cache' = q_cache
    BY <1>3, RabbitCache, RabbitReport DEF Rabbit!HealthCheck
  <2>2. q_bound => q_bound'
    BY <1>3 DEF RabbitPlaces, Rabbit!HealthCheck, Rabbit!brokerVars
  <2> QED  BY <2>1, <2>2 DEF RabbitTrust, RabbitTypes, RabbitPlaces, Reconciling, Distrusted,
      Flushed, Gapped, RabbitReports, Trusting
<1>4. CASE Rabbit!OpenDone
  <2>1. q_cache' = q_cache
    BY <1>4, RabbitCache, RabbitReport DEF Rabbit!OpenDone
  <2>2. q_bound => q_bound'
    BY <1>4 DEF RabbitPlaces, Rabbit!OpenDone, Rabbit!brokerVars
  <2> QED  BY <2>1, <2>2 DEF RabbitTrust, RabbitTypes, RabbitPlaces, Reconciling, Distrusted,
      Flushed, Gapped, RabbitReports, Trusting
<1>5. CASE Rabbit!OpenFails
  <2>1. q_cache' = q_cache \/ Distrusted(q_cache, q_cache')
    BY <1>5, RabbitCache, RabbitReport DEF Rabbit!OpenFails
  <2>2. q_bound => q_bound'
    BY <1>5 DEF RabbitPlaces, Rabbit!OpenFails, Rabbit!brokerVars
  <2> QED  BY <2>1, <2>2 DEF RabbitTrust, RabbitTypes, RabbitPlaces, Reconciling, Distrusted,
      Flushed, Gapped, RabbitReports, Trusting
<1>6. CASE Rabbit!ConsumerCancelled
  <2>1. Distrusted(q_cache, q_cache')
    BY <1>6, RabbitCache, RabbitReport DEF Rabbit!ConsumerCancelled
  <2> QED  BY <2>1 DEF RabbitTrust, Distrusted
<1>7. CASE Rabbit!RestoreDone
  <2>1. Flushed(q_cache, q_cache')
    BY <1>7, RabbitCache, RabbitReport DEF Rabbit!RestoreDone
  <2>2. q_bound => q_bound'
    BY <1>7 DEF RabbitPlaces, Rabbit!RestoreDone, Rabbit!brokerVars
  <2> QED  BY <2>1, <2>2 DEF RabbitTrust, RabbitTypes, RabbitPlaces, Reconciling, Distrusted,
      Flushed, Gapped, RabbitReports, Trusting
<1>8. CASE Rabbit!Disconnect
  BY <1>8, RabbitCache DEF Rabbit!Disconnect
<1>9. CASE Rabbit!DisconnectEnds
  BY <1>9, <1>c DEF Rabbit!DisconnectEnds
<1>10. ASSUME NEW s \in Rabbit!Caller, Rabbit!ConsumeAnswered(s) PROVE RabbitTrust'
  <2>1. q_cache' = q_cache
    BY <1>10, RabbitCache, RabbitReport DEF Rabbit!ConsumeAnswered
  <2>2. q_bound => q_bound'
    BY <1>10 DEF RabbitPlaces, Rabbit!ConsumeAnswered
  <2> QED  BY <2>1, <2>2 DEF RabbitTrust, RabbitTypes, RabbitPlaces, Reconciling, Distrusted,
      Flushed, Gapped, RabbitReports, Trusting
<1>11. ASSUME NEW s \in Rabbit!Caller, Rabbit!SubscribeEnds(s) PROVE RabbitTrust'
  <2>1. Reconciling(q_cache, q_cache')
    BY <1>11, RabbitCache, RabbitReport DEF Rabbit!SubscribeEnds
  <2>2. q_bound' = q_bound /\ q_bound
    BY <1>11 DEF RabbitPlaces, Rabbit!SubscribeEnds, Rabbit!brokerVars
  <2> QED  BY <2>1, <2>2 DEF RabbitTrust, RabbitTypes, RabbitPlaces, Reconciling, Distrusted,
      Flushed, Gapped, RabbitReports, Trusting
<1>12. ASSUME NEW c \in Conn, Rabbit!ConnClosed(c) PROVE RabbitTrust'
  <2>1. q_cache' = q_cache
    BY <1>12, RabbitCache, RabbitReport DEF Rabbit!ConnClosed
  <2>2. q_bound => q_bound'
    BY <1>12 DEF RabbitPlaces, Rabbit!ConnClosed, Rabbit!brokerVars
  <2> QED  BY <2>1, <2>2 DEF RabbitTrust, RabbitTypes, RabbitPlaces, Reconciling, Distrusted,
      Flushed, Gapped, RabbitReports, Trusting
<1>13. ASSUME NEW c \in Conn, NEW to \in {"closed", "closing"}, Rabbit!ConnCloses(c, to) PROVE RabbitTrust'
  <2>1. Distrusted(q_cache, q_cache')
    BY <1>13, RabbitCache, RabbitReport DEF Rabbit!ConnCloses
  <2> QED  BY <2>1 DEF RabbitTrust, Distrusted
<1>14. ASSUME NEW m \in Message, Rabbit!PeerPublishes(m) PROVE RabbitTrust'
  <2>1. q_cache' = q_cache \/ (Gapped(q_cache, q_cache') /\ ~q_bound)
    BY <1>14, RabbitCache, RabbitReport DEF Rabbit!PeerPublishes
  <2>2. q_bound => q_bound'
    BY <1>14 DEF RabbitPlaces, Rabbit!PeerPublishes
  <2> QED  BY <2>1, <2>2 DEF RabbitTrust, RabbitTypes, RabbitPlaces, Reconciling, Distrusted,
      Flushed, Gapped, RabbitReports, Trusting
<1>15. ASSUME NEW m \in Message, Rabbit!Deliver(m) PROVE RabbitTrust'
  <2>1. q_cache' = q_cache \/ RabbitReports(q_cache')
    BY <1>15, RabbitCache, RabbitReport DEF Rabbit!Deliver, Rabbit!ReconcileIfIdle
  <2>2. q_bound => q_bound'
    BY <1>15 DEF RabbitPlaces, Rabbit!Deliver
  <2> QED  BY <2>1, <2>2 DEF RabbitTrust, RabbitTypes, RabbitPlaces, Reconciling, Distrusted,
      Flushed, Gapped, RabbitReports, Trusting
<1>16. ASSUME NEW e \in Message \X Conn, NEW ok \in BOOLEAN, Rabbit!Settles(e, ok) PROVE RabbitTrust'
  <2>1. q_cache' = q_cache \/ RabbitReports(q_cache')
    BY <1>16, RabbitCache, RabbitReport DEF Rabbit!Settles, Rabbit!ReconcileIfIdle
  <2>2. q_bound => q_bound'
    BY <1>16 DEF RabbitPlaces, Rabbit!Settles
  <2> QED  BY <2>1, <2>2 DEF RabbitTrust, RabbitTypes, RabbitPlaces, Reconciling, Distrusted,
      Flushed, Gapped, RabbitReports, Trusting
<1> QED
  BY <1>1, <1>2, <1>3, <1>4, <1>5, <1>6, <1>7, <1>8, <1>9, <1>10, <1>11, <1>12, <1>13, <1>14,
      <1>15, <1>16 DEF Rabbit!Next

LEMMA RabbitClosedStays == RabbitTypes /\ RabbitTypes' /\ q_cache.closed /\ Rabbit!Next => q_cache'.closed
<1> SUFFICES ASSUME RabbitTypes, RabbitTypes', q_cache.closed, Rabbit!Next PROVE q_cache'.closed
  OBVIOUS
<1>c. SUFFICES q_closing' # "no"
  BY DEF RabbitTypes
<1>d. q_closing # "no"
  BY DEF RabbitTypes
<1>1. CASE Rabbit!Subscribe
  BY <1>1, <1>d DEF Rabbit!Subscribe, Rabbit!closeVars
<1>2. CASE Rabbit!ReconnectTimerFires
  BY <1>2, <1>d DEF Rabbit!ReconnectTimerFires, Rabbit!closeVars
<1>3. CASE Rabbit!HealthCheck
  BY <1>3, <1>d DEF Rabbit!HealthCheck, Rabbit!closeVars
<1>4. CASE Rabbit!OpenDone
  BY <1>4, <1>d DEF Rabbit!OpenDone, Rabbit!closeVars
<1>5. CASE Rabbit!OpenFails
  BY <1>5, <1>d DEF Rabbit!OpenFails, Rabbit!closeVars
<1>6. CASE Rabbit!ConsumerCancelled
  BY <1>6, <1>d DEF Rabbit!ConsumerCancelled, Rabbit!closeVars
<1>7. CASE Rabbit!RestoreDone
  BY <1>7, <1>d DEF Rabbit!RestoreDone, Rabbit!closeVars
<1>8. CASE Rabbit!Disconnect
  BY <1>8, <1>d DEF Rabbit!Disconnect, Rabbit!closeVars
<1>9. CASE Rabbit!DisconnectEnds
  BY <1>9, <1>d DEF Rabbit!DisconnectEnds, Rabbit!closeVars
<1>10. ASSUME NEW s \in Rabbit!Caller, Rabbit!ConsumeAnswered(s) PROVE q_closing' # "no"
  BY <1>10, <1>d DEF Rabbit!ConsumeAnswered, Rabbit!closeVars
<1>11. ASSUME NEW s \in Rabbit!Caller, Rabbit!SubscribeEnds(s) PROVE q_closing' # "no"
  BY <1>11, <1>d DEF Rabbit!SubscribeEnds, Rabbit!closeVars
<1>12. ASSUME NEW c \in Conn, Rabbit!ConnClosed(c) PROVE q_closing' # "no"
  BY <1>12, <1>d DEF Rabbit!ConnClosed, Rabbit!closeVars
<1>13. ASSUME NEW c \in Conn, NEW to \in {"closed", "closing"}, Rabbit!ConnCloses(c, to) PROVE q_closing' # "no"
  BY <1>13, <1>d DEF Rabbit!ConnCloses, Rabbit!closeVars
<1>14. ASSUME NEW m \in Message, Rabbit!PeerPublishes(m) PROVE q_closing' # "no"
  BY <1>14, <1>d DEF Rabbit!PeerPublishes, Rabbit!closeVars
<1>15. ASSUME NEW m \in Message, Rabbit!Deliver(m) PROVE q_closing' # "no"
  BY <1>15, <1>d DEF Rabbit!Deliver, Rabbit!closeVars
<1>16. ASSUME NEW e \in Message \X Conn, NEW ok \in BOOLEAN, Rabbit!Settles(e, ok) PROVE q_closing' # "no"
  BY <1>16, <1>d DEF Rabbit!Settles, Rabbit!closeVars
<1> QED
  BY <1>1, <1>2, <1>3, <1>4, <1>5, <1>6, <1>7, <1>8, <1>9, <1>10, <1>11, <1>12, <1>13, <1>14,
      <1>15, <1>16 DEF Rabbit!Next

LEMMA RabbitStep == RabbitInv /\ Rabbit!Next => RabbitInv'
<1> SUFFICES ASSUME RabbitInv, Rabbit!Next PROVE RabbitInv'
  OBVIOUS
<1>1. RabbitTypes /\ RabbitTypes'
  BY RabbitTypesStep DEF RabbitInv
<1>2. SUFFICES ASSUME RabbitPlain', ~q_cache'.closed PROVE RabbitPlaces' /\ RabbitTrust'
  BY <1>1 DEF RabbitInv
<1>3. RabbitPlain /\ ~q_cache.closed
  BY <1>1, <1>2, RabbitClosedStays DEF RabbitPlain, Rabbit!Next
<1>4. RabbitPlaces /\ RabbitTrust
  BY <1>3 DEF RabbitInv
<1>5. RabbitPlaces'
  BY <1>1, <1>2, <1>3, <1>4, RabbitPlacesStep
<1> QED  BY <1>1, <1>2, <1>3, <1>4, <1>5, RabbitTrustStep

-----------------------------------------------------------------------------
(* The three buses *)

BusesInv == RedisInv /\ NatsInv /\ RabbitInv

LEMMA BusesInvariant == Spec => []BusesInv
<1>1. Init => BusesInv
  BY RedisInit, NatsInit, RabbitInit DEF Init, BusesInv
<1>2. BusesInv /\ [Next]_vars => BusesInv'
  <2> SUFFICES ASSUME BusesInv, [Next]_vars PROVE BusesInv'
    OBVIOUS
  <2>1. RedisInv'
    <3>1. Redis!Next \/ UNCHANGED <<r_resend, rVars>>
      BY DEF Next, vars, settings
    <3>2. CASE Redis!Next
      BY <3>2, RedisStep DEF BusesInv
    <3>3. CASE UNCHANGED <<r_resend, rVars>>
      BY <3>3 DEF BusesInv, RedisInv, RedisTypes, rVars
    <3> QED  BY <3>1, <3>2, <3>3
  <2>2. NatsInv'
    <3>1. Nats!Next \/ UNCHANGED <<n_setting, nVars>>
      BY DEF Next, vars, settings
    <3>2. CASE Nats!Next
      BY <3>2, NatsStep DEF BusesInv
    <3>3. CASE UNCHANGED <<n_setting, nVars>>
      BY <3>3 DEF BusesInv, NatsInv, NatsTypes, NatsPlain, NatsPlaces, NatsTrust, Nats!Open, nVars
    <3> QED  BY <3>1, <3>2, <3>3
  <2>3. RabbitInv'
    <3>1. Rabbit!Next \/ UNCHANGED <<q_setting, qVars>>
      BY DEF Next, vars, settings
    <3>2. CASE Rabbit!Next
      BY <3>2, RabbitStep DEF BusesInv
    <3>3. CASE UNCHANGED <<q_setting, qVars>>
      BY <3>3 DEF BusesInv, RabbitInv, RabbitTypes, RabbitPlain, RabbitPlaces, RabbitTrust, qVars
    <3> QED  BY <3>1, <3>2, <3>3
  <2> QED  BY <2>1, <2>2, <2>3 DEF BusesInv
<1> QED  BY <1>1, <1>2, PTL DEF Spec

(***************************************************************************)
(* For any number of connections, events, losses, failures and any limits of *)
(* the handler queues: a cache never trusts local copies that have missed an *)
(* invalidation since they were last flushed,                                *)
(*   over RedisEventBus while the bus has its listener, which a first        *)
(*   subscribe() that fails takes away;                                      *)
(*   over NatsEventBus without the races "flap", "lateSub", "publisher" and  *)
(*   "unsubscribed";                                                         *)
(*   over RabbitMQEventBus without the race "sameRead".                      *)
(* In each of the cases left out the code does trust such copies.            *)
(***************************************************************************)
THEOREM NeverTrustsAcrossGap == Spec => []NoTrustAcrossGap
<1>1. RedisInv => Redis!NoTrustAcrossGap
  BY DEF RedisInv, Redis!NoTrustAcrossGap, Trusting
<1>2. NatsInv => Nats!NoTrustAcrossGap
  BY DEF NatsInv, NatsTypes, NatsTrust, NatsPlain, Nats!NoTrustAcrossGap, Nats!Faults, Trusting
<1>3. RabbitInv => Rabbit!NoTrustAcrossGap
  BY DEF RabbitInv, RabbitTrust, RabbitPlain, Rabbit!NoTrustAcrossGap, Rabbit!Faults, Trusting
<1>4. BusesInv => NoTrustAcrossGap
  BY <1>1, <1>2, <1>3 DEF BusesInv, NoTrustAcrossGap
<1> QED  BY <1>4, BusesInvariant, PTL

-----------------------------------------------------------------------------
(* Messages of a stream or of a durable queue *)

\* What left the stream was applied.
NatsAcked == n_setting.jetStream => NatsEvent \ (n_unpublished \cup n_log) \subseteq n_applied

LEMMA NatsAckedStep == NatsAcked /\ Nats!Next => NatsAcked'
<1> SUFFICES ASSUME NatsAcked, Nats!Next PROVE NatsAcked'
  OBVIOUS
<1>s. UNCHANGED n_setting
  BY DEF Nats!Next
<1> DEFINE Same == UNCHANGED <<n_log, n_unpublished, n_applied>>
<1>k. Same => NatsAcked'
  BY <1>s DEF NatsAcked
<1>1. ASSUME Nats!Subscribe PROVE Same
  BY <1>1 DEF Nats!Subscribe, Nats!deliveryVars
<1>2. ASSUME Nats!TimerFires PROVE Same
  BY <1>2 DEF Nats!TimerFires, Nats!deliveryVars
<1>3. ASSUME Nats!PublisherDials PROVE Same
  BY <1>3 DEF Nats!PublisherDials, Nats!deliveryVars
<1>4. ASSUME Nats!Prepared PROVE Same
  BY <1>4 DEF Nats!Prepared, Nats!deliveryVars
<1>5. ASSUME Nats!PrepareFails PROVE Same
  BY <1>5 DEF Nats!PrepareFails, Nats!deliveryVars
<1>6. ASSUME Nats!MonitorFlushed PROVE Same
  BY <1>6 DEF Nats!MonitorFlushed, Nats!deliveryVars
<1>7. ASSUME Nats!SubArrives PROVE Same
  BY <1>7 DEF Nats!SubArrives, Nats!deliveryVars
<1>8. ASSUME Nats!SubscriptionEnds PROVE Same
  BY <1>8 DEF Nats!SubscriptionEnds, Nats!deliveryVars
<1>9. ASSUME Nats!MessageArrives PROVE Same
  BY <1>9 DEF Nats!MessageArrives, Nats!deliveryVars
<1>10. ASSUME Nats!Reconciled PROVE Same
  BY <1>10 DEF Nats!Reconciled, Nats!deliveryVars
<1>11. ASSUME Nats!ReconcileFails PROVE Same
  BY <1>11 DEF Nats!ReconcileFails, Nats!deliveryVars
<1>12. ASSUME Nats!RestoreDone PROVE Same
  BY <1>12 DEF Nats!RestoreDone, Nats!deliveryVars
<1>13. ASSUME Nats!Disconnect PROVE Same
  BY <1>13 DEF Nats!Disconnect, Nats!deliveryVars
<1>14. ASSUME Nats!DisconnectEnds PROVE Same
  BY <1>14 DEF Nats!DisconnectEnds, Nats!deliveryVars
<1>15. ASSUME NEW c \in Conn, Nats!ConnDrops(c) PROVE Same
  BY <1>15 DEF Nats!ConnDrops, Nats!deliveryVars
<1>16. ASSUME NEW c \in Conn, Nats!ConnReconnects(c) PROVE Same
  BY <1>16 DEF Nats!ConnReconnects, Nats!deliveryVars
<1>17. ASSUME NEW c \in Conn, Nats!ConnGivesUp(c) PROVE Same
  BY <1>17 DEF Nats!ConnGivesUp, Nats!deliveryVars
<1>18. ASSUME NEW w \in {"subscribe", "publish"}, Nats!DialFails(w) PROVE Same
  BY <1>18 DEF Nats!DialFails, Nats!deliveryVars
<1>19. ASSUME NEW w \in {"subscribe", "publish"}, NEW c \in Conn, Nats!Dialed(w, c) PROVE Same
  BY <1>19 DEF Nats!Dialed, Nats!deliveryVars
<1>20. ASSUME NEW e \in NatsEvent, Nats!PeerPublishes(e) PROVE NatsAcked'
  BY <1>20, <1>s DEF Nats!PeerPublishes, Nats!JetStream, NatsAcked
<1>21. ASSUME NEW e \in NatsEvent, Nats!NextMessage(e) PROVE Same
  BY <1>21 DEF Nats!NextMessage, Nats!deliveryVars
<1>22. ASSUME NEW e \in NatsEvent, NEW ok \in BOOLEAN, Nats!Settles(e, ok) PROVE NatsAcked'
  BY <1>22, <1>s DEF Nats!Settles, Nats!JetStream, NatsAcked
<1>23. ASSUME NEW e \in NatsEvent, NEW ok \in BOOLEAN, Nats!OrphanSettles(e, ok) PROVE NatsAcked'
  BY <1>23, <1>s DEF Nats!OrphanSettles, Nats!JetStream, NatsAcked
<1> HIDE DEF Same
<1> QED
    BY <1>k, <1>1, <1>2, <1>3, <1>4, <1>5, <1>6, <1>7, <1>8, <1>9, <1>10, <1>11, <1>12, <1>13,
      <1>14, <1>15, <1>16, <1>17, <1>18, <1>19, <1>20, <1>21, <1>22, <1>23 DEF Nats!Next

\* Before subscribe() nothing is consumed or handled.
RabbitUnused ==
  ~q_handler /\ q_closing = "no" =>
    /\ q_queue = Rabbit!EmptyQueue /\ q_consumer = NoConn
    /\ \A s \in Rabbit!Caller : q_subscribing[s] = NoConn

LEMMA RabbitEmpty ==
  /\ Rabbit!Discarded(Rabbit!EmptyQueue) = Rabbit!EmptyQueue
  /\ Rabbit!EmptyQueue.active = {}
BY DEF Rabbit!Discarded, Rabbit!EmptyQueue

LEMMA RabbitUnusedStep == RabbitTypes /\ RabbitUnused /\ Rabbit!Next => RabbitUnused'
<1> SUFFICES ASSUME RabbitTypes, RabbitUnused, Rabbit!Next PROVE RabbitUnused'
  OBVIOUS
<1>1. CASE Rabbit!Subscribe
    BY <1>1, RabbitEmpty DEF RabbitTypes, RabbitUnused, Rabbit!Subscribe, Rabbit!connVars,
      Rabbit!closeVars, Rabbit!brokerVars, Rabbit!StartSubscribe
<1>2. CASE Rabbit!ReconnectTimerFires
    BY <1>2, RabbitEmpty DEF RabbitTypes, RabbitUnused, Rabbit!ReconnectTimerFires,
      Rabbit!closeVars, Rabbit!brokerVars, Rabbit!StartSubscribe, Rabbit!StartInit
<1>3. CASE Rabbit!HealthCheck
    BY <1>3, RabbitEmpty DEF RabbitTypes, RabbitUnused, Rabbit!HealthCheck, Rabbit!busVars,
      Rabbit!closeVars, Rabbit!brokerVars, Rabbit!handlerVars, Rabbit!StartInit
<1>4. CASE Rabbit!OpenDone
    BY <1>4, RabbitEmpty DEF RabbitTypes, RabbitUnused, Rabbit!OpenDone, Rabbit!closeVars,
      Rabbit!brokerVars
<1>5. CASE Rabbit!OpenFails
    BY <1>5, RabbitEmpty DEF RabbitTypes, RabbitUnused, Rabbit!OpenFails, Rabbit!closeVars,
      Rabbit!brokerVars, Rabbit!handlerVars
<1>6. CASE Rabbit!ConsumerCancelled
    BY <1>6, RabbitEmpty DEF RabbitTypes, RabbitUnused, Rabbit!ConsumerCancelled, Rabbit!connVars,
      Rabbit!closeVars, Rabbit!Durable
<1>7. CASE Rabbit!RestoreDone
    BY <1>7, RabbitEmpty DEF RabbitTypes, RabbitUnused, Rabbit!RestoreDone, Rabbit!connVars,
      Rabbit!busVars, Rabbit!closeVars, Rabbit!brokerVars, Rabbit!handlerVars
<1>8. CASE Rabbit!Disconnect
  BY <1>8, RabbitEmpty DEF RabbitTypes, RabbitUnused, Rabbit!Disconnect
<1>9. CASE Rabbit!DisconnectEnds
    BY <1>9, RabbitEmpty DEF RabbitTypes, RabbitUnused, Rabbit!DisconnectEnds, Rabbit!handlerVars,
      Rabbit!RejectSubscribe, Rabbit!BrokerForgets, Rabbit!Rejected, Rabbit!Durable
<1>10. ASSUME NEW s \in Rabbit!Caller, Rabbit!ConsumeAnswered(s) PROVE RabbitUnused'
    BY <1>10, RabbitEmpty DEF RabbitTypes, RabbitUnused, Rabbit!ConsumeAnswered, Rabbit!connVars,
      Rabbit!closeVars, Rabbit!handlerVars
<1>11. ASSUME NEW s \in Rabbit!Caller, Rabbit!SubscribeEnds(s) PROVE RabbitUnused'
    BY <1>11, RabbitEmpty DEF RabbitTypes, RabbitUnused, Rabbit!SubscribeEnds, Rabbit!connVars,
      Rabbit!closeVars, Rabbit!brokerVars, Rabbit!handlerVars
<1>12. ASSUME NEW c \in Conn, Rabbit!ConnClosed(c) PROVE RabbitUnused'
    BY <1>12, RabbitEmpty DEF RabbitTypes, RabbitUnused, Rabbit!ConnClosed, Rabbit!busVars,
      Rabbit!closeVars, Rabbit!brokerVars, Rabbit!handlerVars
<1>13. ASSUME NEW c \in Conn, NEW to \in {"closed", "closing"}, Rabbit!ConnCloses(c, to)
       PROVE  RabbitUnused'
    BY <1>13, RabbitEmpty DEF RabbitTypes, RabbitUnused, Rabbit!ConnCloses, Rabbit!closeVars,
      Rabbit!RejectSubscribe, Rabbit!BrokerForgets, Rabbit!Rejected, Rabbit!Durable
<1>14. ASSUME NEW m \in Message, Rabbit!PeerPublishes(m) PROVE RabbitUnused'
    BY <1>14, RabbitEmpty DEF RabbitTypes, RabbitUnused, Rabbit!PeerPublishes, Rabbit!connVars,
      Rabbit!busVars, Rabbit!closeVars, Rabbit!handlerVars
<1>15. ASSUME NEW m \in Message, Rabbit!Deliver(m) PROVE RabbitUnused'
    BY <1>15, RabbitEmpty DEF RabbitTypes, RabbitUnused, Rabbit!Deliver, Rabbit!connVars,
      Rabbit!busVars, Rabbit!closeVars, Rabbit!ReconcileIfIdle
<1>16. ASSUME NEW e \in Message \X Conn, NEW ok \in BOOLEAN, Rabbit!Settles(e, ok)
       PROVE  RabbitUnused'
    BY <1>16, RabbitEmpty DEF RabbitTypes, RabbitUnused, Rabbit!Settles, Rabbit!connVars,
      Rabbit!busVars, Rabbit!closeVars, Rabbit!ReconcileIfIdle
<1> QED
    BY <1>1, <1>2, <1>3, <1>4, <1>5, <1>6, <1>7, <1>8, <1>9, <1>10, <1>11, <1>12, <1>13, <1>14,
      <1>15, <1>16 DEF Rabbit!Next

\* A gap that is reported takes the trust of an open cache, even if it is reconciled at once.
LEMMA RabbitReportUntrusts ==
  ASSUME RabbitTypes, ~q_cache.closed
  PROVE  LET e == Rabbit!OnStatus(Rabbit!Missed(q_cache), "error")
         IN  ~e.trusted /\ ~Rabbit!OnStatus(e, "subscribed").trusted
<1> DEFINE m == Rabbit!Missed(q_cache)
           e == Rabbit!OnStatus(m, "error")
<1>1. m \in Consumer /\ ~m.closed
  BY RabbitCache DEF Gapped
<1> HIDE DEF m
<1>2. e \in Consumer /\ ~e.closed /\ ~e.trusted
  BY <1>1, RabbitConsumer DEF Distrusted, Trusting
<1> HIDE DEF e
<1>3. ~Rabbit!OnStatus(e, "subscribed").trusted
  BY <1>2 DEF Rabbit!OnStatus, Rabbit!Bad, Consumer, Redis!Consumer
<1> QED  BY <1>2, <1>3 DEF m, e

\* m left the durable queue of a cache that is open: it was applied, or trust is gone.
RabbitLeaves(m) ==
  q_setting.durable /\ ~q_cache'.closed => m \in q_applied' \/ ~q_cache'.trusted

LEMMA RabbitSettlesStep ==
  ASSUME RabbitTypes, RabbitTypes', RabbitUnused, Rabbit!Next, NEW m \in q_broker \ q_broker'
  PROVE  RabbitLeaves(m)
<1> SUFFICES ASSUME q_setting.durable, ~q_cache'.closed PROVE m \in q_applied' \/ ~q_cache'.trusted
  BY DEF RabbitLeaves
<1>c. ~q_cache.closed /\ q_closing = "no"
  BY RabbitClosedStays DEF RabbitTypes
<1>1. ASSUME Rabbit!Subscribe PROVE q_broker \subseteq q_broker'
    BY <1>1 DEF Rabbit!Subscribe, Rabbit!connVars, Rabbit!closeVars, Rabbit!brokerVars,
      Rabbit!StartSubscribe
<1>2. ASSUME Rabbit!ReconnectTimerFires PROVE q_broker \subseteq q_broker'
    BY <1>2 DEF Rabbit!ReconnectTimerFires, Rabbit!closeVars, Rabbit!brokerVars,
      Rabbit!StartSubscribe, Rabbit!StartInit
<1>3. ASSUME Rabbit!HealthCheck PROVE q_broker \subseteq q_broker'
    BY <1>3 DEF Rabbit!HealthCheck, Rabbit!busVars, Rabbit!closeVars, Rabbit!brokerVars,
      Rabbit!handlerVars, Rabbit!StartInit
<1>4. ASSUME Rabbit!OpenDone PROVE q_broker \subseteq q_broker'
  BY <1>4 DEF Rabbit!OpenDone, Rabbit!closeVars, Rabbit!brokerVars
<1>5. ASSUME Rabbit!OpenFails PROVE q_broker \subseteq q_broker'
  BY <1>5 DEF Rabbit!OpenFails, Rabbit!closeVars, Rabbit!brokerVars, Rabbit!handlerVars
<1>6. ASSUME Rabbit!ConsumerCancelled PROVE m \in q_applied' \/ ~q_cache'.trusted
  BY <1>6, <1>c, RabbitCache DEF Rabbit!ConsumerCancelled, Distrusted, Trusting
<1>7. ASSUME Rabbit!RestoreDone PROVE q_broker \subseteq q_broker'
    BY <1>7 DEF Rabbit!RestoreDone, Rabbit!connVars, Rabbit!busVars, Rabbit!closeVars,
      Rabbit!brokerVars, Rabbit!handlerVars
<1>8. ASSUME Rabbit!Disconnect PROVE m \in q_applied' \/ ~q_cache'.trusted
  BY <1>8, RabbitCache DEF Rabbit!Disconnect
<1>9. ASSUME Rabbit!DisconnectEnds PROVE q_broker \subseteq q_broker'
    BY <1>9 DEF Rabbit!DisconnectEnds, Rabbit!handlerVars, Rabbit!RejectSubscribe,
      Rabbit!BrokerForgets, Rabbit!Rejected, Rabbit!Durable
<1>10. ASSUME NEW s \in Rabbit!Caller, Rabbit!ConsumeAnswered(s) PROVE q_broker \subseteq q_broker'
  BY <1>10 DEF Rabbit!ConsumeAnswered, Rabbit!connVars, Rabbit!closeVars, Rabbit!handlerVars
<1>11. ASSUME NEW s \in Rabbit!Caller, Rabbit!SubscribeEnds(s) PROVE q_broker \subseteq q_broker'
    BY <1>11 DEF Rabbit!SubscribeEnds, Rabbit!connVars, Rabbit!closeVars, Rabbit!brokerVars,
      Rabbit!handlerVars
<1>12. ASSUME NEW c \in Conn, Rabbit!ConnClosed(c) PROVE q_broker \subseteq q_broker'
    BY <1>12 DEF Rabbit!ConnClosed, Rabbit!busVars, Rabbit!closeVars, Rabbit!brokerVars,
      Rabbit!handlerVars
<1>13. ASSUME NEW c \in Conn, NEW to \in {"closed", "closing"}, Rabbit!ConnCloses(c, to)
       PROVE  q_broker \subseteq q_broker'
    BY <1>13 DEF Rabbit!ConnCloses, Rabbit!closeVars, Rabbit!RejectSubscribe, Rabbit!BrokerForgets,
      Rabbit!Rejected, Rabbit!Durable
<1>14. ASSUME NEW d \in Message, Rabbit!PeerPublishes(d) PROVE q_broker \subseteq q_broker'
    BY <1>14 DEF Rabbit!PeerPublishes, Rabbit!connVars, Rabbit!busVars, Rabbit!closeVars,
      Rabbit!handlerVars
<1>15. ASSUME NEW d \in Message, Rabbit!Deliver(d) PROVE m \in q_applied' \/ ~q_cache'.trusted
  BY <1>15, <1>c, RabbitReportUntrusts DEF Rabbit!Deliver, Rabbit!ReconcileIfIdle
<1>16. ASSUME NEW e \in Message \X Conn, NEW ok \in BOOLEAN, Rabbit!Settles(e, ok)
       PROVE  m \in q_applied' \/ ~q_cache'.trusted
  <2>1. CASE ok
    <3>1. q_handler
      BY <1>16, <1>c, RabbitEmpty DEF RabbitUnused, Rabbit!Settles
    <3> QED  BY <1>16, <2>1, <3>1 DEF Rabbit!Settles
  <2>2. CASE ~ok
    BY <1>16, <1>c, <2>2, RabbitReportUntrusts DEF Rabbit!Settles, Rabbit!ReconcileIfIdle
  <2> QED  BY <2>1, <2>2
<1> QED
    BY <1>1, <1>2, <1>3, <1>4, <1>5, <1>6, <1>7, <1>8, <1>9, <1>10, <1>11, <1>12, <1>13, <1>14,
      <1>15, <1>16 DEF Rabbit!Next

SettledInv == BusesInv /\ NatsAcked /\ RabbitUnused

LEMMA SettledInvariant == Spec => []SettledInv
<1>1. Init => NatsAcked /\ RabbitUnused
  <2>1. Nats!Init => NatsAcked
    BY DEF Nats!Init, NatsAcked
  <2>2. Rabbit!Init => RabbitUnused
    BY DEF Rabbit!Init, RabbitUnused
  <2> QED  BY <2>1, <2>2 DEF Init
<1>2. BusesInv /\ NatsAcked /\ RabbitUnused /\ [Next]_vars => NatsAcked' /\ RabbitUnused'
  <2> SUFFICES ASSUME BusesInv, NatsAcked, RabbitUnused, [Next]_vars
               PROVE  NatsAcked' /\ RabbitUnused'
    OBVIOUS
  <2>1. Nats!Next \/ UNCHANGED <<n_setting, nVars>>
    BY DEF Next, vars, settings
  <2>2. UNCHANGED <<n_setting, nVars>> => NatsAcked'
    BY DEF NatsAcked, nVars
  <2>3. Rabbit!Next \/ UNCHANGED <<q_setting, qVars>>
    BY DEF Next, vars, settings
  <2>4. UNCHANGED <<q_setting, qVars>> => RabbitUnused'
    BY DEF RabbitUnused, qVars
  <2> QED  BY <2>1, <2>2, <2>3, <2>4, NatsAckedStep, RabbitUnusedStep DEF BusesInv, RabbitInv
<1> QED  BY <1>1, <1>2, BusesInvariant, PTL DEF Spec, SettledInv

(***************************************************************************)
(* For any number of connections, messages, losses and failures, and with    *)
(* all the races named: an invalidation leaves a JetStream stream only when  *)
(* it was applied here (msg.ack() after the handler), and a durable RabbitMQ *)
(* queue only when it was applied or the cache has lost its trust (settle(), *)
(* the deliveries given up on a cancelled consumer).                         *)
(***************************************************************************)
THEOREM SettledIsApplied == Spec => SettledMeansApplied
<1>1. SettledInv => StreamAcked
  BY DEF SettledInv, NatsAcked, StreamAcked, Nats!AckedMeansApplied, Nats!JetStream
<1>2. SettledInv /\ SettledInv' /\ [Next]_vars =>
        [\A m \in q_broker \ q_broker' : Rabbit!Durable /\ ~q_closed' /\ ~q_cache'.closed =>
           m \in q_applied' \/ ~q_cache'.trusted]_(Rabbit!vars)
  <2> SUFFICES ASSUME SettledInv, SettledInv', [Next]_vars, ~UNCHANGED Rabbit!vars,
                      NEW m \in q_broker \ q_broker', Rabbit!Durable, ~q_cache'.closed
               PROVE  m \in q_applied' \/ ~q_cache'.trusted
    OBVIOUS
  <2>1. Rabbit!Next \/ UNCHANGED <<q_setting, qVars>>
    BY DEF Next, vars, settings
  <2>2. UNCHANGED <<q_setting, qVars>> => q_broker \subseteq q_broker'
    BY DEF qVars
  <2>3. RabbitTypes /\ RabbitTypes' /\ RabbitUnused
    BY DEF SettledInv, BusesInv, RabbitInv
  <2> QED  BY <2>1, <2>2, <2>3, RabbitSettlesStep DEF RabbitLeaves, Rabbit!Durable
<1> QED  BY <1>1, <1>2, SettledInvariant, PTL
      DEF Spec, SettledMeansApplied, SettledMeansHandled, Rabbit!SettledMeansHandled

-----------------------------------------------------------------------------
(* EventIntake *)

Published == [type : {"del", "set"}, keys : Seq(Key), gen : Nat \cup {NoEvent}, bound : Nat]

PeerState == [gen : [Key -> Nat], load : [Key -> Nat], held : SUBSET Key, full : BOOLEAN]

IntakeTypes ==
  /\ i_setting \in Intake!Setting /\ i_versioned \in BOOLEAN /\ i_saturated \in BOOLEAN
  /\ i_db \in Nat \ {0} /\ i_gen \in [Key -> Nat] /\ i_floor \in [Key -> Nat]
  /\ i_l1 \in [Key -> SUBSET [storage : Nat, version : Nat]]
  /\ i_fill \in [Key -> [on : BOOLEAN, current : BOOLEAN, storage : Nat, version : Nat]]
  /\ i_log \in Seq(Published) /\ i_peer \in PeerState
  /\ i_task \in [Runner -> [event : Nat \cup {NoEvent}, done : Nat]]

\* An event has a key.  A handler works on a published event and on one of its keys.
TasksOk ==
  /\ \A i \in 1..Len(i_log) : Len(i_log[i].keys) >= 1
  /\ \A h \in Runner : i_task[h].event # NoEvent =>
       /\ i_task[h].event \in 1..Len(i_log)
       /\ i_task[h].done < Len(i_log[i_task[h].event].keys)

\* Nothing is newer than the origin.
BoundsOk ==
  /\ \A k \in Key : i_floor[k] <= i_db /\ i_peer.load[k] <= i_db
  /\ \A i \in 1..Len(i_log) : i_log[i].bound <= i_db

\* No entry and no load has a storage key that the generation has still to reach.
StoragesOk ==
  \A k \in Key :
    /\ \A x \in i_l1[k] : x.storage <= IF i_versioned THEN i_gen[k] ELSE 0
    /\ i_fill[k].storage <= IF i_versioned THEN i_gen[k] ELSE 0

\* What get() may find, and what a load whose guard holds will store, is not older than the
\* last delete that evicted the key, when every value of the key had a generation.
FreshOk ==
  \A k \in Key : Intake!Ordered(k) =>
    /\ \A x \in i_l1[k] :
         (~i_versioned \/ (~i_saturated /\ x.storage = i_gen[k])) => x.version >= i_floor[k]
    /\ i_fill[k].current /\ i_fill[k].version # 0 => i_fill[k].version >= i_floor[k]

\* The peer only deletes: no value travels.
DeletesOnly ==
  /\ \A k \in Key : i_peer.load[k] = 0
  /\ \A i \in 1..Len(i_log) : i_log[i].type = "del"

\* The counter that a delete takes a receiver to, at least.
Reach(e) == IF e.gen = NoEvent THEN 1 ELSE e.gen

\* The peer's events of one key are ordered by its generation: a value that carries the
\* generation of a delete, or a later one, was loaded after that delete.  A key of which the
\* peer has no counter was published with no generation, or with 0.
OrderedOk ==
  /\ \A k \in Key : k \notin i_peer.held => i_peer.gen[k] = 0
  /\ \A i \in 1..Len(i_log) :
       /\ Len(i_log[i].keys) = 1
       /\ i_log[i].gen # NoEvent => i_log[i].gen <= i_peer.gen[i_log[i].keys[1]]
       /\ i_log[i].type = "del" /\ i_peer.load[i_log[i].keys[1]] # 0 =>
            i_log[i].bound <= i_peer.load[i_log[i].keys[1]]
  /\ \A i, j \in 1..Len(i_log) :
       i_log[i].type = "del" /\ i_log[j].type = "set" /\ i_log[i].keys[1] = i_log[j].keys[1]
         /\ i_log[j].gen # NoEvent /\ Reach(i_log[i]) <= i_log[j].gen
           => i_log[i].bound <= i_log[j].bound

\* The last delete that evicted a key is in the peer's log, with a generation that this
\* process has reached.
FloorOk ==
  ~i_saturated =>
    \A k \in Key : i_floor[k] # 0 =>
      \E i \in 1..Len(i_log) : /\ i_log[i].type = "del" /\ i_log[i].keys[1] = k
                               /\ i_log[i].bound = i_floor[k] /\ Reach(i_log[i]) <= i_gen[k]

Values == "set" \in i_setting.peerCalls
SourceOk ==
  /\ ~Values => DeletesOnly
  /\ Values => OrderedOk /\ FloorOk

IntakeInv ==
  /\ IntakeTypes /\ TasksOk /\ BoundsOk
  /\ Intake!OneSource => StoragesOk /\ FreshOk /\ SourceOk

AppliedTo(id, n) == i_log[id].type = "del" => \A i \in 1..n : i_floor[i_log[id].keys[i]] >= i_log[id].bound
Applied(id) == AppliedTo(id, Len(i_log[id].keys))

\* The ids that are remembered are distinct, so that forgetting one forgets it.  An id that
\* makes a delivery a duplicate was applied or is being applied, and so far as the handler
\* has come.
SeenOk ==
  /\ i_seen \in Seq(Nat) /\ Distinct(i_seen)
  /\ Members(i_seen) \subseteq 1..Len(i_log) /\ i_handled \subseteq 1..Len(i_log)
  /\ \A id \in i_handled : Applied(id)
  /\ \A id \in Members(i_seen) \ i_lapsed : Applied(id) \/ \E h \in Runner : i_task[h].event = id
  /\ \A h \in Runner : i_task[h].event # NoEvent => AppliedTo(i_task[h].event, i_task[h].done)

SerialInv == IntakeTypes /\ TasksOk /\ BoundsOk /\ (Intake!Serial => SeenOk)

LEMMA IntakeConstants ==
  /\ IsFiniteSet(Key) /\ NoEvent \notin Nat /\ IntakeSettings \subseteq Intake!Setting
<1>1. Intake!IsFiniteSet(Key) = IsFiniteSet(Key)
  BY DEF Intake!IsFiniteSet, IsFiniteSet
<1> QED  BY <1>1, EventBusAssumption DEF Intake!IntakeAssumption

LEMMA IntakeInit == Intake!Init => IntakeInv /\ SerialInv
<1> SUFFICES ASSUME Intake!Init PROVE IntakeInv /\ SerialInv
  OBVIOUS
<1>0. <<>> \in Seq(Published) /\ <<>> \in Seq(Nat) /\ Len(<<>>) = 0
  OBVIOUS
<1>1. i_log = <<>> /\ Len(i_log) = 0 /\ i_seen = <<>> /\ i_handled = {}
  BY DEF Intake!Init
<1>2. IntakeTypes
  <2>1. i_task \in [Runner -> [event : Nat \cup {NoEvent}, done : Nat]]
    BY DEF Intake!Init, Intake!Free
  <2>2. i_fill \in [Key -> [on : BOOLEAN, current : BOOLEAN, storage : Nat, version : Nat]]
    BY DEF Intake!Init, Intake!NoFill
  <2>3. i_peer \in PeerState /\ i_db \in Nat \ {0}
    BY DEF Intake!Init, Intake!NewPeer, PeerState
  <2>4. i_setting \in Intake!Setting
    BY IntakeConstants DEF Intake!Init
  <2>5. /\ i_l1 \in [Key -> SUBSET [storage : Nat, version : Nat]]
        /\ i_gen \in [Key -> Nat] /\ i_floor \in [Key -> Nat]
        /\ i_versioned \in BOOLEAN /\ i_saturated \in BOOLEAN
    BY DEF Intake!Init
  <2> QED  BY <1>0, <1>1, <2>1, <2>2, <2>3, <2>4, <2>5 DEF IntakeTypes
<1>3. \A h \in Runner : i_task[h].event = NoEvent
  BY DEF Intake!Init, Intake!Free
<1>4. TasksOk
  BY <1>1, <1>3 DEF TasksOk
<1>5. BoundsOk
  BY <1>1 DEF Intake!Init, Intake!NewPeer, BoundsOk
<1>6. StoragesOk /\ FreshOk
  BY DEF Intake!Init, StoragesOk, FreshOk, Intake!NoFill
<1>7. SourceOk
  <2>1. DeletesOnly
    BY <1>1 DEF Intake!Init, Intake!NewPeer, DeletesOnly
  <2>2. OrderedOk
    BY <1>1 DEF Intake!Init, Intake!NewPeer, OrderedOk
  <2>3. FloorOk
    BY DEF Intake!Init, FloorOk
  <2> QED  BY <2>1, <2>2, <2>3 DEF SourceOk
<1>8. SeenOk
  BY <1>0, <1>1, <1>3 DEF SeenOk, Distinct, Members
<1> QED  BY <1>2, <1>4, <1>5, <1>6, <1>7, <1>8 DEF IntakeInv, SerialInv

\* The generation in the storage key that is in use.
InUse(k) == IF i_versioned THEN i_gen[k] ELSE 0

\* A counter was asked to become g: it does, or tracking is saturated; no other moves.
Grows(k, g) ==
  /\ i_gen' \in [Key -> Nat] /\ \A j \in Key \ {k} : i_gen'[j] = i_gen[j]
  /\ i_gen'[k] \in {i_gen[k], g} /\ (~i_saturated' => i_gen'[k] = g)
  /\ i_saturated' \in BOOLEAN /\ (i_saturated => i_saturated')

\* The loads of k, and perhaps others, will not be stored.
Outdates(k) ==
  /\ i_fill' \in [Key -> [on : BOOLEAN, current : BOOLEAN, storage : Nat, version : Nat]]
  /\ \A j \in Key : /\ i_fill'[j].storage = i_fill[j].storage /\ i_fill'[j].version = i_fill[j].version
                    /\ i_fill'[j].current => i_fill[j].current
  /\ ~i_fill'[k].current

\* k is not found in L1 under the storage key it had, and nothing new is.
Evicts(k) ==
  /\ i_l1' \in [Key -> SUBSET [storage : Nat, version : Nat]]
  /\ \A j \in Key : i_l1'[j] \subseteq i_l1[j]
  /\ \A x \in i_l1'[k] : x.storage # InUse(k)

LEMMA GenerationStored ==
  ASSUME IntakeTypes, NEW k \in Key, NEW g \in Nat, NEW ok, NEW r \in BOOLEAN,
         Intake!StoreGeneration(k, g, ok, r)
  PROVE  Grows(k, g)
<1>1. i_gen' = [i_gen EXCEPT ![k] = g] \/ (i_gen' = i_gen /\ i_saturated')
  BY DEF Intake!StoreGeneration
<1>2. i_saturated' \in BOOLEAN /\ (i_saturated => i_saturated')
  BY DEF Intake!StoreGeneration, IntakeTypes
<1>3. i_gen \in [Key -> Nat]
  BY DEF IntakeTypes
<1>4. CASE i_gen' = [i_gen EXCEPT ![k] = g]
  BY <1>2, <1>3, <1>4 DEF Grows
<1>5. CASE i_gen' = i_gen /\ i_saturated'
  BY <1>2, <1>3, <1>5 DEF Grows
<1> QED  BY <1>1, <1>4, <1>5

\* No counter goes back.
LEMMA GenerationsGrow ==
  ASSUME IntakeTypes, NEW k \in Key, NEW g \in Nat, g >= i_gen[k], Grows(k, g)
  PROVE  /\ \A j \in Key : i_gen'[j] >= i_gen[j] /\ i_gen'[j] \in Nat
         /\ i_saturated => i_saturated'
<1>1. i_gen' \in [Key -> Nat] /\ i_gen \in [Key -> Nat]
  BY DEF Grows, IntakeTypes
<1>2. i_gen'[k] >= i_gen[k]
  <2>1. i_gen'[k] = i_gen[k] \/ i_gen'[k] = g
    BY DEF Grows
  <2> QED  BY <1>1, <2>1
<1>3. \A j \in Key \ {k} : i_gen'[j] = i_gen[j]
  BY DEF Grows
<1>4. ASSUME NEW j \in Key PROVE i_gen'[j] >= i_gen[j]
  BY <1>1, <1>2, <1>3
<1> QED  BY <1>1, <1>4 DEF Grows

LEMMA LoadsOutdated ==
  ASSUME IntakeTypes, NEW k \in Key,
         i_fill' = Intake!Outdated({k}) \/ i_fill' = Intake!Outdated(Key)
  PROVE  Outdates(k)
<1> DEFINE F == [on : BOOLEAN, current : BOOLEAN, storage : Nat, version : Nat]
<1>1. ASSUME NEW ks, k \in ks, i_fill' = Intake!Outdated(ks) PROVE Outdates(k)
  <2>1. \A j \in Key : /\ [i_fill[j] EXCEPT !.current = FALSE] \in F
                       /\ [i_fill[j] EXCEPT !.current = FALSE].current = FALSE
                       /\ [i_fill[j] EXCEPT !.current = FALSE].storage = i_fill[j].storage
                       /\ [i_fill[j] EXCEPT !.current = FALSE].version = i_fill[j].version
                       /\ i_fill[j] \in F
    <3>1. \A j \in Key : i_fill[j] \in F
      BY DEF IntakeTypes
    <3> QED  BY <3>1
  <2> HIDE DEF F
  <2>2. i_fill' = [j \in Key |-> IF j \in ks THEN [i_fill[j] EXCEPT !.current = FALSE] ELSE i_fill[j]]
    BY <1>1 DEF Intake!Outdated
  <2>3. \A j \in Key : /\ i_fill'[j] \in F
                       /\ i_fill'[j].storage = i_fill[j].storage /\ i_fill'[j].version = i_fill[j].version
                       /\ i_fill'[j].current => i_fill[j].current
    BY <2>1, <2>2
  <2>4. ~i_fill'[k].current
    BY <1>1, <2>1, <2>2
  <2>5. i_fill' \in [Key -> F]
    BY <2>2, <2>3
  <2> QED  BY <2>3, <2>4, <2>5 DEF Outdates, F
<1> QED  BY <1>1

LEMMA KeyEvicted ==
  ASSUME IntakeTypes, NEW k \in Key,
         i_l1' = Intake!Flushed \/ i_l1' = Intake!Evicted(k, Intake!StorageKey(k))
  PROVE  Evicts(k)
<1>1. Intake!StorageKey(k) = InUse(k)
  BY DEF Intake!StorageKey, InUse
<1>2. CASE i_l1' = Intake!Flushed
  BY <1>2 DEF Intake!Flushed, Evicts, IntakeTypes
<1>3. CASE i_l1' = Intake!Evicted(k, Intake!StorageKey(k))
  <2>1. i_l1' = [i_l1 EXCEPT ![k] = {x \in i_l1[k] : x.storage # InUse(k)}]
    BY <1>1, <1>3 DEF Intake!Evicted
  <2>2. \A j \in Key : i_l1[j] \subseteq [storage : Nat, version : Nat]
    BY DEF IntakeTypes
  <2>3. /\ i_l1'[k] = {x \in i_l1[k] : x.storage # InUse(k)}
        /\ \A j \in Key \ {k} : i_l1'[j] = i_l1[j]
    BY <2>1 DEF IntakeTypes
  <2>4. i_l1' \in [Key -> SUBSET [storage : Nat, version : Nat]]
    BY <2>1, <2>2 DEF IntakeTypes
  <2> QED  BY <2>3, <2>4 DEF Evicts
<1> QED  BY <1>2, <1>3

\* Event n is a delete, and h has come to its key k.
AtKey(h, n, k) ==
  /\ n = i_task[h].event /\ n \in 1..Len(i_log) /\ i_log[n] \in Published
  /\ i_task[h].done + 1 \in 1..Len(i_log[n].keys) /\ k = i_log[n].keys[i_task[h].done + 1]

LEMMA HandlersKey ==
  ASSUME IntakeTypes, TasksOk, NEW h \in Runner, i_task[h].event # NoEvent
  PROVE  \E n \in Nat, k \in Key : AtKey(h, n, k) /\ k = Intake!KeyOf(h) /\ i_log[n] = Intake!Current(h)
<1> DEFINE n == i_task[h].event
           d == i_task[h].done
<1>1. n \in 1..Len(i_log) /\ d \in Nat /\ d < Len(i_log[n].keys)
  BY DEF IntakeTypes, TasksOk
<1>2. i_log[n] \in Published
  BY <1>1 DEF IntakeTypes
<1>3. i_log[n].keys \in Seq(Key)
  BY <1>2 DEF Published
<1>4. d + 1 \in 1..Len(i_log[n].keys) /\ i_log[n].keys[d + 1] \in Key
  BY <1>1, <1>3, SMTT(60)
<1>5. n \in Nat
  BY <1>1, LenProperties DEF IntakeTypes
<1> QED  BY <1>1, <1>2, <1>4, <1>5 DEF AtKey, Intake!KeyOf, Intake!Current

\* The counter that a delete asks for.
LEMMA Advances ==
  ASSUME IntakeTypes, NEW k \in Key, NEW e \in Published
  PROVE  \E g \in Nat : /\ g = Intake!Advanced(k, e.gen) /\ g >= i_gen[k]
                        /\ g >= Reach(e)
<1>1. i_gen[k] \in Nat /\ (e.gen = NoEvent \/ e.gen \in Nat)
  BY DEF IntakeTypes, Published
<1>2. CASE e.gen = NoEvent
  <2>1. Intake!Advanced(k, e.gen) = i_gen[k] + 1
    BY <1>2 DEF Intake!Advanced
  <2> QED  BY <1>1, <1>2, <2>1, IntakeConstants DEF Reach
<1>3. CASE e.gen \in Nat
  <2>1. Intake!Advanced(k, e.gen) = IF i_gen[k] >= e.gen THEN i_gen[k] ELSE e.gen
    BY <1>3, IntakeConstants DEF Intake!Advanced, Intake!AtLeast
  <2> QED  BY <1>1, <1>3, <2>1, IntakeConstants DEF Reach
<1> QED  BY <1>1, <1>2, <1>3

\* The delete of event n reaches k.
FloorRaised(k, n) ==
  i_floor' = [i_floor EXCEPT ![k] = IF i_floor[k] >= i_log[n].bound THEN i_floor[k]
                                    ELSE i_log[n].bound]

\* One key of a delete: its counter, its loads and, when L1 does not fail, its entries.
LEMMA DeleteEffect ==
  ASSUME IntakeTypes, TasksOk, NEW h \in Runner, Intake!DeleteKey(h)
  PROVE  \E n \in Nat, k \in Key, g \in Nat :
           /\ AtKey(h, n, k) /\ i_log[n].type = "del"
           /\ g >= i_gen[k] /\ g >= Reach(i_log[n])
           /\ Grows(k, g) /\ Outdates(k) /\ Evicts(k)
           /\ FloorRaised(k, n)
<1>1. i_task[h].event # NoEvent /\ Intake!Current(h).type = "del"
  BY DEF Intake!DeleteKey, Intake!Handling
<1>2. PICK n \in Nat, k \in Key : AtKey(h, n, k) /\ k = Intake!KeyOf(h) /\ i_log[n] = Intake!Current(h)
  BY <1>1, HandlersKey
<1>3. PICK g \in Nat : /\ g = Intake!Advanced(k, i_log[n].gen) /\ g >= i_gen[k]
                       /\ g >= Reach(i_log[n])
  BY <1>2, Advances DEF AtKey
<1>4. Intake!Regression(h) \in BOOLEAN
  BY DEF Intake!Regression, IntakeTypes
<1>5. PICK r \in BOOLEAN : r = Intake!Regression(h)
  BY <1>4
<1>6. PICK ok \in i_setting.room : Intake!StoreGeneration(k, g, ok, r)
  BY <1>2, <1>3, <1>5 DEF Intake!DeleteKey, Intake!StoreGeneration
<1>7. Grows(k, g)
  BY <1>6, GenerationStored
<1>8. Outdates(k)
  <2>1. i_fill' = Intake!Outdated({k}) \/ i_fill' = Intake!Outdated(Key)
    BY <1>2 DEF Intake!DeleteKey
  <2> QED  BY <2>1, LoadsOutdated
<1>9. Evicts(k)
  <2>1. i_l1' = Intake!Flushed \/ i_l1' = Intake!Evicted(k, Intake!StorageKey(k))
    BY <1>2 DEF Intake!DeleteKey
  <2> QED  BY <2>1, KeyEvicted
<1>10. FloorRaised(k, n)
  BY <1>2 DEF Intake!DeleteKey, Intake!AtLeast, FloorRaised
<1> QED  BY <1>1, <1>2, <1>3, <1>7, <1>8, <1>9, <1>10

LEMMA FailEffect ==
  ASSUME IntakeTypes, TasksOk, NEW h \in Runner, Intake!DeleteKeyFails(h)
  PROVE  \E n \in Nat, k \in Key, g \in Nat :
           /\ AtKey(h, n, k) /\ i_log[n].type = "del" /\ g >= i_gen[k]
           /\ Grows(k, g) /\ Outdates(k) /\ UNCHANGED <<i_l1, i_floor>>
<1>1. i_task[h].event # NoEvent /\ Intake!Current(h).type = "del"
  BY DEF Intake!DeleteKeyFails, Intake!Handling
<1>2. PICK n \in Nat, k \in Key : AtKey(h, n, k) /\ k = Intake!KeyOf(h) /\ i_log[n] = Intake!Current(h)
  BY <1>1, HandlersKey
<1>3. PICK g \in Nat : g = Intake!Advanced(k, i_log[n].gen) /\ g >= i_gen[k]
  BY <1>2, Advances DEF AtKey
<1>4. Intake!Regression(h) \in BOOLEAN
  BY DEF Intake!Regression, IntakeTypes
<1>5. PICK r \in BOOLEAN : r = Intake!Regression(h)
  BY <1>4
<1>6. PICK ok \in i_setting.room : Intake!StoreGeneration(k, g, ok, r)
  BY <1>2, <1>3, <1>5 DEF Intake!DeleteKeyFails, Intake!StoreGeneration
<1>7. Grows(k, g)
  BY <1>6, GenerationStored
<1>8. Outdates(k)
  <2>1. i_fill' = Intake!Outdated({k}) \/ i_fill' = Intake!Outdated(Key)
    BY <1>2 DEF Intake!DeleteKeyFails
  <2> QED  BY <2>1, LoadsOutdated
<1> QED  BY <1>1, <1>2, <1>3, <1>7, <1>8 DEF Intake!DeleteKeyFails

LEMMA LocalDeleteEffect ==
  ASSUME IntakeTypes, NEW k \in Key, Intake!Delete(k)
  PROVE  /\ Grows(k, i_gen[k] + 1) /\ Outdates(k) /\ Evicts(k)
         /\ i_floor' = [i_floor EXCEPT ![k] = i_db]
<1>1. PICK g \in Nat : g = i_gen[k] + 1
  BY DEF IntakeTypes
<1>2. PICK ok \in i_setting.room : Intake!StoreGeneration(k, g, ok, FALSE)
  BY <1>1 DEF Intake!Delete, Intake!StoreGeneration
<1>3. Grows(k, g)
  BY <1>2, GenerationStored
<1>4. Outdates(k)
  <2>1. i_fill' = Intake!Outdated({k}) \/ i_fill' = Intake!Outdated(Key)
    BY DEF Intake!Delete
  <2> QED  BY <2>1, LoadsOutdated
<1>5. Evicts(k)
  <2>1. i_l1' = Intake!Flushed \/ i_l1' = Intake!Evicted(k, Intake!StorageKey(k))
    BY DEF Intake!Delete
  <2> QED  BY <2>1, KeyEvicted
<1> QED  BY <1>1, <1>3, <1>4, <1>5 DEF Intake!Delete, Grows

\* L1 gets at most one entry, of k, with this version and under this storage key.
Stores(k, storage, version) ==
  /\ i_l1' \in [Key -> SUBSET [storage : Nat, version : Nat]]
  /\ \A j \in Key : \A x \in i_l1'[j] :
       x \in i_l1[j] \/ (j = k /\ x.storage = storage /\ x.version = version)

LEMMA EntryStored ==
  ASSUME IntakeTypes, NEW k \in Key, NEW storage \in Nat, NEW version \in Nat,
         NEW l \in [Key -> SUBSET [storage : Nat, version : Nat]],
         \A j \in Key : l[j] \subseteq i_l1[j],
         i_l1' = Intake!Stored(l, k, storage, version) \/ i_l1' = l
  PROVE  Stores(k, storage, version)
<1> DEFINE e == [storage |-> storage, version |-> version]
           S == [storage : Nat, version : Nat]
<1>1. e \in S /\ e.storage = storage /\ e.version = version
  OBVIOUS
<1> HIDE DEF S
<1>2. CASE i_l1' = l
  BY <1>2 DEF Stores, S
<1>3. CASE i_l1' = Intake!Stored(l, k, storage, version)
  <2>1. i_l1' = [l EXCEPT ![k] = {x \in l[k] : x.storage # storage} \cup {e}]
    BY <1>3 DEF Intake!Stored
  <2> HIDE DEF e
  <2>2. i_l1'[k] = {x \in l[k] : x.storage # storage} \cup {e} /\ \A j \in Key \ {k} : i_l1'[j] = l[j]
    BY <2>1
  <2>3. i_l1' \in [Key -> SUBSET S]
    <3>1. {x \in l[k] : x.storage # storage} \cup {e} \in SUBSET S
      BY <1>1 DEF S
    <3> QED  BY <2>1, <3>1 DEF S
  <2>4. ASSUME NEW j \in Key, NEW x \in i_l1'[j]
        PROVE  x \in i_l1[j] \/ (j = k /\ x.storage = storage /\ x.version = version)
    BY <1>1, <2>2
  <2> QED  BY <2>3, <2>4 DEF Stores, S
<1> QED  BY <1>2, <1>3

\* A load that ends is stored under the storage key it began with, when its guard holds.
LEMMA FillStored ==
  ASSUME IntakeTypes, NEW k \in Key, Intake!FillStores(k)
  PROVE  /\ Stores(k, i_fill[k].storage, i_fill[k].version)
         /\ ~i_fill[k].current => UNCHANGED i_l1
<1>1. i_fill[k].storage \in Nat /\ i_fill[k].version \in Nat
  BY DEF IntakeTypes
<1>2. i_l1 \in [Key -> SUBSET [storage : Nat, version : Nat]] /\ \A j \in Key : i_l1[j] \subseteq i_l1[j]
  BY DEF IntakeTypes
<1>3. i_l1' = Intake!Stored(i_l1, k, i_fill[k].storage, i_fill[k].version) \/ i_l1' = i_l1
  BY DEF Intake!FillStores
<1>4. ~i_fill[k].current => UNCHANGED i_l1
  BY DEF Intake!FillStores
<1> QED  BY <1>1, <1>2, <1>3, <1>4, EntryStored

\* A value of the peer is left aside, or it is not known to be outdated and may be stored.
LEMMA ValueEffect ==
  ASSUME IntakeTypes, TasksOk, NEW h \in Runner, Intake!TakeValue(h)
  PROVE  \/ UNCHANGED <<i_l1, i_fill, i_gen, i_saturated>>
         \/ \E n \in Nat, k \in Key, g, storage \in Nat :
              /\ AtKey(h, n, k) /\ i_log[n].type = "set" /\ ~i_saturated
              /\ (i_log[n].gen # NoEvent => i_log[n].gen = g) /\ g >= i_gen[k]
              /\ Grows(k, g) /\ Outdates(k)
              /\ storage = (IF i_versioned THEN i_gen'[k] ELSE 0)
              /\ Stores(k, storage, i_log[n].bound)
<1>1. i_task[h].event # NoEvent /\ Intake!Current(h).type = "set"
  BY DEF Intake!TakeValue, Intake!Handling
<1>2. PICK n \in Nat, k \in Key : AtKey(h, n, k) /\ k = Intake!KeyOf(h) /\ i_log[n] = Intake!Current(h)
  BY <1>1, HandlersKey
<1>3. (i_log[n].gen = NoEvent \/ i_log[n].gen \in Nat) /\ i_gen[k] \in Nat /\ i_log[n].bound \in Nat
  BY <1>1, <1>2 DEF TasksOk, AtKey, IntakeTypes, Published
<1>4. SUFFICES ASSUME ~(i_saturated \/ Intake!IsStale(i_log[n], k))
      PROVE  \E g, storage \in Nat :
              /\ (i_log[n].gen # NoEvent => i_log[n].gen = g) /\ g >= i_gen[k]
              /\ Grows(k, g) /\ Outdates(k)
              /\ storage = (IF i_versioned THEN i_gen'[k] ELSE 0)
              /\ Stores(k, storage, i_log[n].bound)
  BY <1>1, <1>2 DEF Intake!TakeValue
<1>5. PICK g \in Nat, b \in Nat :
        /\ g = (IF i_log[n].gen = NoEvent THEN i_gen[k] ELSE i_log[n].gen) /\ b = i_log[n].bound
  BY <1>3
<1>6. g >= i_gen[k] /\ (i_log[n].gen # NoEvent => Intake!AtLeast(i_gen[k], i_log[n].gen) = g)
  BY <1>3, <1>4, <1>5, IntakeConstants DEF Intake!IsStale, Intake!AtLeast
<1>7. PICK ok, fits \in i_setting.room :
        /\ Intake!StoreGeneration(k, g, ok, FALSE) \/ UNCHANGED <<i_gen, i_tracked, i_saturated>>
        /\ i_log[n].gen # NoEvent => Intake!StoreGeneration(k, g, ok, FALSE)
        /\ i_fill' = Intake!Outdated(IF Intake!Saturates THEN Key ELSE {k})
        /\ LET kept == IF Intake!Saturates THEN Intake!Flushed ELSE i_l1
               storage == IF i_versioned THEN i_gen'[k] ELSE 0
           IN  i_l1' = IF fits /\ ~(i_versioned /\ i_saturated')
                       THEN Intake!Stored(kept, k, storage, b) ELSE kept
  <2>1. PICK ok, fits \in i_setting.room :
        /\ Intake!SetsGeneration(k, i_log[n].gen, ok)
        /\ i_fill' = Intake!Outdated(IF Intake!Saturates THEN Key ELSE {k})
        /\ LET kept == IF Intake!Saturates THEN Intake!Flushed ELSE i_l1
               storage == IF i_versioned THEN i_gen'[k] ELSE 0
           IN  i_l1' = IF fits /\ ~(i_versioned /\ i_saturated')
                       THEN Intake!Stored(kept, k, storage, i_log[n].bound) ELSE kept
    BY <1>2, <1>4 DEF Intake!TakeValue, Intake!SetsGeneration, Intake!StoreGeneration
  <2>2. CASE i_log[n].gen = NoEvent
    BY <1>5, <2>1, <2>2 DEF Intake!SetsGeneration
  <2>3. CASE i_log[n].gen # NoEvent
    <3>1. Intake!StoreGeneration(k, g, ok, FALSE)
      BY <1>6, <2>1, <2>3 DEF Intake!SetsGeneration
    <3> QED  BY <1>5, <2>1, <3>1
  <2> QED  BY <2>2, <2>3
<1>8. Grows(k, g)
  <2>1. CASE Intake!StoreGeneration(k, g, ok, FALSE)
    BY <2>1, GenerationStored
  <2>2. CASE i_log[n].gen = NoEvent /\ UNCHANGED <<i_gen, i_tracked, i_saturated>>
    BY <1>5, <2>2 DEF Grows, IntakeTypes
  <2> QED  BY <1>7, <2>1, <2>2
<1>9. Outdates(k)
  <2>1. i_fill' = Intake!Outdated({k}) \/ i_fill' = Intake!Outdated(Key)
    BY <1>7
  <2> QED  BY <2>1, LoadsOutdated
<1>10. PICK storage \in Nat : storage = (IF i_versioned THEN i_gen'[k] ELSE 0)
  BY <1>8 DEF Grows
<1>11. Intake!Flushed \in [Key -> SUBSET [storage : Nat, version : Nat]]
       /\ \A j \in Key : Intake!Flushed[j] \subseteq i_l1[j]
  BY DEF Intake!Flushed
<1>12. i_l1 \in [Key -> SUBSET [storage : Nat, version : Nat]] /\ \A j \in Key : i_l1[j] \subseteq i_l1[j]
  BY DEF IntakeTypes
<1>13. PICK l \in {Intake!Flushed, i_l1} : i_l1' = Intake!Stored(l, k, storage, b) \/ i_l1' = l
  BY <1>7, <1>10
<1>14. Stores(k, storage, b)
  BY <1>11, <1>12, <1>13, EntryStored
<1>15. i_log[n].gen # NoEvent => i_log[n].gen = g
  BY <1>5
<1> QED  BY <1>5, <1>6, <1>8, <1>9, <1>10, <1>14, <1>15


-----------------------------------------------------------------------------
(* Types, tasks and bounds *)

\* A handler takes an event, goes on to its next key, or is free again.
TaskMoves(h) ==
  \/ i_task' = [i_task EXCEPT ![h] = Intake!Free]
  \/ \E id \in 1..Len(i_log) : i_task' = [i_task EXCEPT ![h] = [event |-> id, done |-> 0]]
  \/ /\ i_task[h].event # NoEvent /\ i_task[h].done + 1 < Len(i_log[i_task[h].event].keys)
     /\ i_task' = [i_task EXCEPT ![h].done = @ + 1]

TaskTypes == i_task \in [Runner -> [event : Nat \cup {NoEvent}, done : Nat]]

LEMMA TasksKept ==
  ASSUME IntakeTypes, TasksOk, NEW h \in Runner, TaskMoves(h), UNCHANGED i_log
  PROVE  TaskTypes' /\ TasksOk'
<1> DEFINE T == [event : Nat \cup {NoEvent}, done : Nat]
<1>0. i_task \in [Runner -> T] /\ Len(i_log) \in Nat /\ i_task[h] \in T
  BY DEF IntakeTypes
<1>1. SUFFICES ASSUME NEW t \in T, i_task' = [i_task EXCEPT ![h] = t],
                      t.event # NoEvent => /\ t.event \in 1..Len(i_log)
                                           /\ t.done < Len(i_log[t.event].keys)
      PROVE  TaskTypes' /\ TasksOk'
  <2>1. CASE i_task' = [i_task EXCEPT ![h] = Intake!Free]
    <3>1. Intake!Free \in T /\ Intake!Free.event = NoEvent
      BY DEF Intake!Free
    <3> QED  BY <1>1, <2>1, <3>1
  <2>2. CASE \E id \in 1..Len(i_log) : i_task' = [i_task EXCEPT ![h] = [event |-> id, done |-> 0]]
    <3>1. PICK id \in 1..Len(i_log) : i_task' = [i_task EXCEPT ![h] = [event |-> id, done |-> 0]]
      BY <2>2
    <3>2. i_log[id] \in Published /\ Len(i_log[id].keys) >= 1 /\ id \in Nat
      BY <1>0 DEF IntakeTypes, TasksOk
    <3>3. Len(i_log[id].keys) \in Nat
      BY <3>2 DEF Published
    <3> DEFINE t == [event |-> id, done |-> 0]
    <3>4. t \in T /\ t.event = id /\ t.done = 0 /\ i_task' = [i_task EXCEPT ![h] = t]
      BY <3>1, <3>2
    <3> HIDE DEF t
    <3>5. t.event \in 1..Len(i_log) /\ t.done < Len(i_log[t.event].keys)
      BY <3>2, <3>3, <3>4
    <3> QED  BY <1>1, <3>4, <3>5, Zenon
  <2>3. CASE /\ i_task[h].event # NoEvent /\ i_task[h].done + 1 < Len(i_log[i_task[h].event].keys)
             /\ i_task' = [i_task EXCEPT ![h].done = @ + 1]
    <3> DEFINE t == [i_task[h] EXCEPT !.done = @ + 1]
    <3>1. t \in T /\ t.event = i_task[h].event /\ t.done = i_task[h].done + 1
      BY <1>0
    <3>2. i_task' = [i_task EXCEPT ![h] = t]
      BY <2>3
    <3>3. i_task[h].event \in 1..Len(i_log)
      BY <2>3 DEF TasksOk
    <3> HIDE DEF t
    <3> QED  BY <1>1, <2>3, <3>1, <3>2, <3>3
  <2> QED  BY <2>1, <2>2, <2>3 DEF TaskMoves
<1> HIDE DEF T
<1>2. i_task' \in [Runner -> T] /\ i_task'[h] = t /\ \A g \in Runner \ {h} : i_task'[g] = i_task[g]
  BY <1>0, <1>1
<1>3. TaskTypes'
  BY <1>2 DEF TaskTypes, T
<1>4. TasksOk'
  BY <1>1, <1>2 DEF TasksOk
<1> QED  BY <1>3, <1>4

PeerTypes == i_peer \in PeerState

\* The peer publishes e.
Publishes(e) ==
  /\ e \in Published /\ Len(e.keys) >= 1 /\ e.bound <= i_db
  /\ i_log' = Append(i_log, e) /\ UNCHANGED <<i_task, i_db, i_floor>>
  /\ PeerTypes' /\ \A k \in Key : i_peer'.load[k] <= i_db

LEMMA LogAppended ==
  ASSUME IntakeTypes, TasksOk, BoundsOk, NEW e, Publishes(e)
  PROVE  /\ i_log' \in Seq(Published) /\ TasksOk' /\ BoundsOk'
<1>1. /\ i_log' \in Seq(Published) /\ Len(i_log') = Len(i_log) + 1 /\ Len(i_log) \in Nat
      /\ \A i \in 1..Len(i_log) : i_log'[i] = i_log[i]
      /\ i_log'[Len(i_log) + 1] = e
      /\ \A i \in 1..Len(i_log') : i \in 1..Len(i_log) \/ i = Len(i_log) + 1
  BY AppendPlaces DEF IntakeTypes, Publishes
<1>2. \A i \in 1..Len(i_log') : Len(i_log'[i].keys) >= 1
  BY <1>1 DEF Publishes, TasksOk
<1>3. \A h \in Runner : i_task'[h].event # NoEvent =>
        /\ i_task'[h].event \in 1..Len(i_log')
        /\ i_task'[h].done < Len(i_log'[i_task'[h].event].keys)
  <2>1. SUFFICES ASSUME NEW h \in Runner, i_task[h].event # NoEvent
                 PROVE  /\ i_task[h].event \in 1..Len(i_log')
                        /\ i_task[h].done < Len(i_log'[i_task[h].event].keys)
    BY DEF Publishes
  <2>2. i_task[h].event \in 1..Len(i_log) /\ i_task[h].done < Len(i_log[i_task[h].event].keys)
    BY <2>1 DEF TasksOk
  <2>3. i_log'[i_task[h].event] = i_log[i_task[h].event]
    BY <1>1, <2>2
  <2> QED  BY <1>1, <2>2, <2>3
<1>4. \A i \in 1..Len(i_log') : i_log'[i].bound <= i_db
  BY <1>1 DEF Publishes, BoundsOk
<1>5. BoundsOk'
  BY <1>4 DEF Publishes, BoundsOk
<1> QED  BY <1>1, <1>2, <1>3, <1>5 DEF TasksOk

Basics == IntakeTypes /\ TasksOk /\ BoundsOk

\* What a step of a handler, or of a load, leaves alone.
SameWorld == UNCHANGED <<i_setting, i_versioned, i_db, i_log, i_peer>>

\* A step within this process keeps the types when what it changes has them.
LEMMA WithinProcess ==
  ASSUME Basics, SameWorld, TaskTypes', TasksOk',
         i_saturated' \in BOOLEAN, i_gen' \in [Key -> Nat], i_floor' \in [Key -> Nat],
         \A k \in Key : i_floor'[k] <= i_db,
         i_l1' \in [Key -> SUBSET [storage : Nat, version : Nat]],
         i_fill' \in [Key -> [on : BOOLEAN, current : BOOLEAN, storage : Nat, version : Nat]]
  PROVE  Basics'
<1>1. IntakeTypes'
  BY DEF Basics, SameWorld, IntakeTypes, TaskTypes
<1>2. BoundsOk'
  BY DEF Basics, SameWorld, BoundsOk
<1> QED  BY <1>1, <1>2 DEF Basics

\* A step of the peer, or of time, touches nothing here.
LEMMA OutsideProcess ==
  ASSUME Basics, UNCHANGED <<i_setting, i_versioned, i_l1, i_gen, i_saturated, i_task, i_fill, i_floor>>,
         i_log' \in Seq(Published), PeerTypes', i_db' \in Nat \ {0}
  PROVE  IntakeTypes'
BY DEF Basics, IntakeTypes, PeerTypes

LEMMA BasicsHandlers ==
  ASSUME Basics, NEW h \in Runner, UNCHANGED i_setting,
         \/ Intake!DeleteKey(h) \/ Intake!DeleteKeyFails(h) \/ Intake!TakeValue(h)
         \/ \E id \in Intake!Id : Intake!Deliver(h, id)
  PROVE  Basics'
<1>0. /\ IntakeTypes /\ TasksOk /\ BoundsOk
      /\ i_saturated \in BOOLEAN /\ i_gen \in [Key -> Nat] /\ i_floor \in [Key -> Nat] /\ i_db \in Nat
      /\ i_l1 \in [Key -> SUBSET [storage : Nat, version : Nat]]
      /\ i_fill \in [Key -> [on : BOOLEAN, current : BOOLEAN, storage : Nat, version : Nat]]
      /\ \A k \in Key : i_floor[k] <= i_db
  BY DEF Basics, IntakeTypes, BoundsOk
<1>1. ASSUME NEW id \in Intake!Id, Intake!Deliver(h, id) PROVE Basics'
  <2>1. SameWorld /\ UNCHANGED <<i_saturated, i_gen, i_floor, i_l1, i_fill>>
    BY <1>1 DEF Intake!Deliver, Intake!peerVars, SameWorld
  <2>2. TaskMoves(h)
    BY <1>1 DEF Intake!Deliver, Intake!Finished, TaskMoves
  <2>3. TaskTypes' /\ TasksOk'
    BY <1>0, <2>1, <2>2, TasksKept DEF SameWorld
  <2> QED  BY <1>0, <2>1, <2>3, WithinProcess
<1>2. ASSUME Intake!DeleteKey(h) PROVE Basics'
  <2>1. SameWorld
    BY <1>2 DEF Intake!DeleteKey, Intake!peerVars, SameWorld
  <2>2. PICK n \in Nat, k \in Key, g \in Nat :
           /\ AtKey(h, n, k) /\ Grows(k, g) /\ Outdates(k) /\ Evicts(k)
           /\ FloorRaised(k, n)
    <3>1. IntakeTypes /\ TasksOk
      BY <1>0
    <3> QED  BY <1>2, <3>1, DeleteEffect
  <2>3. i_log[n].bound \in Nat /\ i_log[n].bound <= i_db
    <3>1. n \in 1..Len(i_log) /\ i_log[n] \in Published
      BY <2>2 DEF AtKey
    <3> QED  BY <1>0, <3>1 DEF BoundsOk, Published
  <2>4. i_floor' \in [Key -> Nat] /\ \A j \in Key : i_floor'[j] <= i_db
    BY <1>0, <2>2, <2>3 DEF FloorRaised
  <2>5. i_task[h].event # NoEvent
    BY <1>2 DEF Intake!DeleteKey, Intake!Handling
  <2>6. TaskMoves(h)
    BY <1>2, <2>5 DEF Intake!DeleteKey, Intake!Finished, Intake!Current, TaskMoves
  <2>7. TaskTypes' /\ TasksOk'
    BY <1>0, <2>1, <2>6, TasksKept DEF SameWorld
  <2>8. /\ i_saturated' \in BOOLEAN /\ i_gen' \in [Key -> Nat]
        /\ i_l1' \in [Key -> SUBSET [storage : Nat, version : Nat]]
        /\ i_fill' \in [Key -> [on : BOOLEAN, current : BOOLEAN, storage : Nat, version : Nat]]
    BY <2>2 DEF Grows, Outdates, Evicts
  <2> QED  BY <2>1, <2>4, <2>7, <2>8, WithinProcess
<1>3. ASSUME Intake!DeleteKeyFails(h) PROVE Basics'
  <2>1. SameWorld /\ TaskMoves(h)
    BY <1>3 DEF Intake!DeleteKeyFails, Intake!peerVars, SameWorld, TaskMoves
  <2>2. PICK n \in Nat, k \in Key, g \in Nat : Grows(k, g) /\ Outdates(k) /\ UNCHANGED <<i_l1, i_floor>>
    BY <1>0, <1>3, FailEffect
  <2>3. TaskTypes' /\ TasksOk'
    BY <1>0, <2>1, TasksKept DEF SameWorld
  <2>4. /\ i_saturated' \in BOOLEAN /\ i_gen' \in [Key -> Nat]
        /\ i_fill' \in [Key -> [on : BOOLEAN, current : BOOLEAN, storage : Nat, version : Nat]]
    BY <2>2 DEF Grows, Outdates
  <2> QED  BY <1>0, <2>1, <2>2, <2>3, <2>4, WithinProcess
<1>4. ASSUME Intake!TakeValue(h) PROVE Basics'
  <2>1. SameWorld /\ TaskMoves(h) /\ UNCHANGED i_floor
    BY <1>4 DEF Intake!TakeValue, Intake!Finished, Intake!peerVars, SameWorld, TaskMoves
  <2>2. TaskTypes' /\ TasksOk'
    BY <1>0, <2>1, TasksKept DEF SameWorld
  <2>3. \/ UNCHANGED <<i_l1, i_fill, i_gen, i_saturated>>
        \/ \E n \in Nat, k \in Key, g, storage \in Nat :
             Grows(k, g) /\ Outdates(k) /\ Stores(k, storage, i_log[n].bound)
    BY <1>0, <1>4, ValueEffect
  <2>4. /\ i_saturated' \in BOOLEAN /\ i_gen' \in [Key -> Nat]
        /\ i_l1' \in [Key -> SUBSET [storage : Nat, version : Nat]]
        /\ i_fill' \in [Key -> [on : BOOLEAN, current : BOOLEAN, storage : Nat, version : Nat]]
    BY <1>0, <2>3 DEF Grows, Outdates, Stores
  <2> QED  BY <1>0, <2>1, <2>2, <2>4, WithinProcess
<1> QED  BY <1>1, <1>2, <1>3, <1>4

LEMMA BasicsLoads ==
  ASSUME Basics, NEW k \in Key, UNCHANGED i_setting,
         \/ Intake!FillStarts(k) \/ Intake!FillLoads(k) \/ Intake!FillStores(k) \/ Intake!Delete(k)
  PROVE  Basics'
<1> DEFINE F == [on : BOOLEAN, current : BOOLEAN, storage : Nat, version : Nat]
<1>0. /\ IntakeTypes /\ TasksOk /\ BoundsOk
      /\ i_saturated \in BOOLEAN /\ i_gen \in [Key -> Nat] /\ i_floor \in [Key -> Nat] /\ i_db \in Nat
      /\ i_l1 \in [Key -> SUBSET [storage : Nat, version : Nat]]
      /\ i_fill \in [Key -> F] /\ i_fill[k] \in F
      /\ \A j \in Key : i_floor[j] <= i_db
      /\ i_versioned \in BOOLEAN
  BY DEF Basics, IntakeTypes, BoundsOk
<1>1. SameWorld /\ UNCHANGED i_task
  BY DEF Intake!FillStarts, Intake!FillLoads, Intake!FillStores, Intake!Delete, Intake!peerVars, SameWorld
<1>2. TaskTypes' /\ TasksOk'
  BY <1>0, <1>1 DEF IntakeTypes, TaskTypes, TasksOk, SameWorld
<1>3. CASE Intake!FillStarts(k)
  <2>1. UNCHANGED <<i_saturated, i_gen, i_floor, i_l1>>
    BY <1>3 DEF Intake!FillStarts
  <2> DEFINE f == [on |-> TRUE, current |-> Intake!VersionedCacheSafe, storage |-> Intake!StorageKey(k), version |-> 0]
  <2>2. f \in F
    BY <1>0 DEF Intake!VersionedCacheSafe, Intake!StorageKey
  <2>3. i_fill' = [i_fill EXCEPT ![k] = f]
    BY <1>3 DEF Intake!FillStarts
  <2> HIDE DEF f, F
  <2>4. i_fill' \in [Key -> F]
    BY <1>0, <2>2, <2>3
  <2> QED  BY <1>0, <1>1, <1>2, <2>1, <2>4, WithinProcess DEF F
<1>4. CASE Intake!FillLoads(k)
  <2>1. UNCHANGED <<i_saturated, i_gen, i_floor, i_l1>>
    BY <1>4 DEF Intake!FillLoads
  <2> DEFINE f == [i_fill[k] EXCEPT !.version = i_db]
  <2>2. f \in F
    BY <1>0
  <2>3. i_fill' = [i_fill EXCEPT ![k] = f]
    BY <1>4 DEF Intake!FillLoads
  <2> HIDE DEF f, F
  <2>4. i_fill' \in [Key -> F]
    BY <1>0, <2>2, <2>3
  <2> QED  BY <1>0, <1>1, <1>2, <2>1, <2>4, WithinProcess DEF F
<1>5. CASE Intake!FillStores(k)
  <2>1. UNCHANGED <<i_saturated, i_gen, i_floor>>
    BY <1>5 DEF Intake!FillStores
  <2>2. Intake!NoFill \in F
    BY DEF Intake!NoFill
  <2>3. i_fill' = [i_fill EXCEPT ![k] = Intake!NoFill]
    BY <1>5 DEF Intake!FillStores
  <2>4. i_fill' \in [Key -> F]
    BY <1>0, <2>2, <2>3
  <2>5. i_l1' \in [Key -> SUBSET [storage : Nat, version : Nat]]
    BY <1>0, <1>5, FillStored DEF Stores
  <2> QED  BY <1>0, <1>1, <1>2, <2>1, <2>4, <2>5, WithinProcess
<1>6. CASE Intake!Delete(k)
  <2>1. Grows(k, i_gen[k] + 1) /\ Outdates(k) /\ Evicts(k) /\ i_floor' = [i_floor EXCEPT ![k] = i_db]
    BY <1>0, <1>6, LocalDeleteEffect
  <2>2. i_floor' \in [Key -> Nat] /\ \A j \in Key : i_floor'[j] <= i_db
    BY <1>0, <2>1
  <2>3. /\ i_saturated' \in BOOLEAN /\ i_gen' \in [Key -> Nat]
        /\ i_l1' \in [Key -> SUBSET [storage : Nat, version : Nat]]
        /\ i_fill' \in [Key -> F]
    BY <2>1 DEF Grows, Outdates, Evicts
  <2> QED  BY <1>1, <1>2, <2>2, <2>3, WithinProcess
<1> QED  BY <1>3, <1>4, <1>5, <1>6

\* What the peer publishes, and what that leaves of its generations and loads.
PeerEvent(e, k) ==
  \/ /\ "many" \in i_setting.peerCalls
     /\ e.type = "del" /\ e.bound = i_db /\ UNCHANGED i_peer
  \/ /\ e.keys = <<k>>
     /\ i_peer'.load[k] = 0 /\ \A j \in Key : i_peer'.load[j] \in {0, i_peer.load[j]}
     /\ \/ /\ e.type = "del" /\ e.bound = i_db
           /\ e.gen = i_peer.gen[k] + 1 /\ i_peer'.gen[k] = e.gen
           /\ \A j \in Key \ {k} : i_peer'.gen[j] = i_peer.gen[j]
           /\ i_peer'.held = i_peer.held \cup {k}
        \/ /\ e.type = "del" /\ e.bound = i_db
           /\ e.gen = NoEvent /\ k \notin i_peer.held
           /\ i_peer'.gen = i_peer.gen /\ i_peer'.held = i_peer.held
        \/ /\ e.type = "set" /\ i_peer.load[k] # 0 /\ e.bound = i_peer.load[k]
           /\ e.gen \in {NoEvent, i_peer.gen[k]}
           /\ i_peer'.gen = i_peer.gen /\ i_peer'.held = i_peer.held

\* What a step of the peer or of the origin leaves alone.
SameProcess ==
  UNCHANGED <<i_setting, i_versioned, i_l1, i_gen, i_saturated, i_seen, i_lapsed, i_task, i_fill,
              i_floor, i_handled>>

LEMMA PeerTyped ==
  ASSUME Basics, NEW k \in Key
  PROVE  /\ i_peer.gen \in [Key -> Nat] /\ i_peer.load \in [Key -> Nat]
         /\ i_peer.held \subseteq Key /\ i_peer.full \in BOOLEAN
         /\ i_peer = [gen |-> i_peer.gen, load |-> i_peer.load, held |-> i_peer.held, full |-> i_peer.full]
         /\ \A j \in Key : i_peer.load[j] <= i_db /\ i_peer.gen[j] \in Nat
         /\ i_db \in Nat \ {0}
         /\ <<k>> \in Seq(Key) /\ Len(<<k>>) = 1 /\ <<k>>[1] = k
<1>1. i_peer \in PeerState
  BY DEF Basics, IntakeTypes
<1>2. /\ i_peer.gen \in [Key -> Nat] /\ i_peer.load \in [Key -> Nat]
      /\ i_peer.held \subseteq Key /\ i_peer.full \in BOOLEAN
      /\ i_peer = [gen |-> i_peer.gen, load |-> i_peer.load, held |-> i_peer.held, full |-> i_peer.full]
  BY <1>1 DEF PeerState
<1>3. i_db \in Nat \ {0} /\ \A j \in Key : i_peer.load[j] <= i_db
  BY DEF Basics, IntakeTypes, BoundsOk
<1>4. <<k>> \in Seq(Key) /\ Len(<<k>>) = 1 /\ <<k>>[1] = k
  OBVIOUS
<1>5. \A j \in Key : i_peer.gen[j] \in Nat
  BY <1>2
<1> QED  BY <1>2, <1>3, <1>4, <1>5

\* The peer's record, made of its parts.
LEMMA PeerMade ==
  ASSUME NEW g \in [Key -> Nat], NEW l \in [Key -> Nat], NEW H \in SUBSET Key, NEW b \in BOOLEAN,
         NEW q, q = [gen |-> g, load |-> l, held |-> H, full |-> b]
  PROVE  q \in PeerState /\ q.gen = g /\ q.load = l /\ q.held = H /\ q.full = b
BY DEF PeerState

\* Another load of k: no load is newer than the origin.
LEMMA LoadChanged ==
  ASSUME Basics, NEW k \in Key, NEW v \in Nat, v <= i_db, NEW l, l = [i_peer.load EXCEPT ![k] = v]
  PROVE  /\ l \in [Key -> Nat] /\ l[k] = v /\ \A j \in Key \ {k} : l[j] = i_peer.load[j]
         /\ \A j \in Key : l[j] <= i_db
<1>1. l \in [Key -> Nat] /\ l[k] = v /\ \A j \in Key \ {k} : l[j] = i_peer.load[j]
  BY PeerTyped
<1> QED  BY <1>1, PeerTyped

LEMMA PeerDeletesEffect ==
  ASSUME Basics, NEW k \in Key, UNCHANGED i_setting, Intake!PeerDeletes(k)
  PROVE  SameProcess /\ \E e \in Published : Publishes(e) /\ PeerEvent(e, k)
<1> DEFINE e == [type |-> "del", keys |-> <<k>>, gen |-> Intake!EventGeneration(i_peer', k), bound |-> i_db]
<1>1. SameProcess /\ UNCHANGED <<i_db, i_floor, i_task>>
  BY DEF Intake!PeerDeletes, Intake!aside, SameProcess
<1>2. i_log' = Append(i_log, e)
  BY DEF Intake!PeerDeletes, Intake!Publish
<1>3. PeerTypes' /\ (\A j \in Key : i_peer'.load[j] <= i_db) /\ e.gen \in Nat \cup {NoEvent} /\ PeerEvent(e, k)
  <2> DEFINE l0 == [i_peer.load EXCEPT ![k] = 0]
             g1 == [i_peer.gen EXCEPT ![k] = @ + 1]
             l1 == [j \in Key |-> IF i_peer.full /\ j # k THEN i_peer.load[j] ELSE 0]
  <2>0. e.type = "del" /\ e.keys = <<k>> /\ e.bound = i_db /\ e.gen = Intake!EventGeneration(i_peer', k)
    OBVIOUS
  <2>1. /\ l0 \in [Key -> Nat] /\ l0[k] = 0 /\ \A j \in Key \ {k} : l0[j] = i_peer.load[j]
        /\ \A j \in Key : l0[j] <= i_db
    BY PeerTyped, LoadChanged
  <2>2. g1 \in [Key -> Nat] /\ g1[k] = i_peer.gen[k] + 1 /\ \A j \in Key \ {k} : g1[j] = i_peer.gen[j]
    BY PeerTyped
  <2>3. l1 \in [Key -> Nat] /\ l1[k] = 0 /\ \A j \in Key : l1[j] \in {0, i_peer.load[j]} /\ l1[j] <= i_db
    BY PeerTyped
  <2>4. \/ i_peer' = [gen |-> g1, load |-> l0, held |-> i_peer.held \cup {k}, full |-> i_peer.full]
        \/ k \notin i_peer.held
           /\ i_peer' = [gen |-> i_peer.gen, load |-> l1, held |-> i_peer.held, full |-> TRUE]
    <3>1. \/ i_peer' = [i_peer EXCEPT !.gen[k] = @ + 1, !.held = @ \cup {k}, !.load[k] = 0]
          \/ k \notin i_peer.held
             /\ i_peer' = [i_peer EXCEPT !.full = TRUE,
                              !.load = [j \in Key |-> IF i_peer.full /\ j # k THEN @[j] ELSE 0]]
      BY DEF Intake!PeerDeletes, Intake!PeerAdvances
    <3> QED  BY <3>1, PeerTyped
  <2> HIDE DEF e, l0, g1, l1
  <2>5. CASE i_peer' = [gen |-> g1, load |-> l0, held |-> i_peer.held \cup {k}, full |-> i_peer.full]
    <3>1. /\ i_peer' \in PeerState /\ i_peer'.gen = g1 /\ i_peer'.load = l0
          /\ i_peer'.held = i_peer.held \cup {k}
      BY <2>1, <2>2, <2>5, PeerMade, PeerTyped
    <3>2. e.gen = i_peer.gen[k] + 1
      BY <2>0, <2>2, <3>1 DEF Intake!EventGeneration
    <3>3. \A j \in Key : i_peer'.load[j] \in {0, i_peer.load[j]}
      BY <2>1, <3>1
    <3> QED  BY <2>0, <2>1, <2>2, <3>1, <3>2, <3>3, PeerTyped DEF PeerEvent, PeerTypes
  <2>6. CASE /\ k \notin i_peer.held
             /\ i_peer' = [gen |-> i_peer.gen, load |-> l1, held |-> i_peer.held, full |-> TRUE]
    <3>1. /\ i_peer' \in PeerState /\ i_peer'.gen = i_peer.gen /\ i_peer'.load = l1
          /\ i_peer'.held = i_peer.held /\ i_peer'.full = TRUE
      <4>1. PICK b \in BOOLEAN : b = TRUE
        OBVIOUS
      <4>2. i_peer' = [gen |-> i_peer.gen, load |-> l1, held |-> i_peer.held, full |-> b]
        BY <2>6, <4>1
      <4>3. /\ i_peer' \in PeerState /\ i_peer'.gen = i_peer.gen /\ i_peer'.load = l1
            /\ i_peer'.held = i_peer.held /\ i_peer'.full = b
        BY <2>3, <4>2, PeerMade, PeerTyped
      <4> QED  BY <4>1, <4>3
    <3>2. e.gen = NoEvent
      BY <2>0, <2>6, <3>1 DEF Intake!EventGeneration
    <3> QED  BY <2>0, <2>3, <2>6, <3>1, <3>2 DEF PeerEvent, PeerTypes
  <2> QED  BY <2>4, <2>5, <2>6
<1>4. e.type = "del" /\ e.keys = <<k>> /\ Len(e.keys) = 1 /\ e.bound = i_db /\ e \in Published
  BY <1>3, PeerTyped DEF Published
<1> HIDE DEF e
<1>5. Publishes(e)
  BY <1>1, <1>2, <1>3, <1>4, PeerTyped DEF Publishes
<1> QED  BY <1>1, <1>3, <1>4, <1>5

LEMMA PeerSetsEffect ==
  ASSUME Basics, NEW k \in Key, UNCHANGED i_setting, Intake!PeerSets(k)
  PROVE  SameProcess /\ \E e \in Published : Publishes(e) /\ PeerEvent(e, k)
<1> DEFINE e == [type |-> "set", keys |-> <<k>>, gen |-> Intake!EventGeneration(i_peer, k), bound |-> i_peer.load[k]]
           l == [i_peer.load EXCEPT ![k] = 0]
<1>1. e.gen \in {NoEvent, i_peer.gen[k]} /\ i_peer.gen[k] \in Nat /\ i_peer.load[k] \in Nat
  BY PeerTyped DEF Intake!EventGeneration
<1>2. /\ e \in Published /\ Len(e.keys) = 1 /\ e.type = "set" /\ e.keys = <<k>>
      /\ e.bound = i_peer.load[k] /\ e.bound <= i_db
  BY <1>1, PeerTyped DEF Published
<1>3. SameProcess /\ UNCHANGED <<i_db, i_floor, i_task>>
  BY DEF Intake!PeerSets, Intake!aside, SameProcess
<1>4. i_log' = Append(i_log, e)
  BY DEF Intake!PeerSets, Intake!Publish
<1>5. i_peer.load[k] # 0 /\ i_peer' = [i_peer EXCEPT !.load[k] = 0]
  BY DEF Intake!PeerSets
<1>6. i_peer' = [gen |-> i_peer.gen, load |-> l, held |-> i_peer.held, full |-> i_peer.full]
  BY <1>5, PeerTyped
<1>7. /\ l \in [Key -> Nat] /\ l[k] = 0 /\ \A j \in Key \ {k} : l[j] = i_peer.load[j]
      /\ \A j \in Key : l[j] <= i_db
  BY PeerTyped, LoadChanged
<1> HIDE DEF e, l
<1>8. i_peer' \in PeerState /\ i_peer'.gen = i_peer.gen /\ i_peer'.load = l /\ i_peer'.held = i_peer.held
  BY <1>6, <1>7, PeerMade, PeerTyped
<1>9. \A j \in Key : i_peer'.load[j] \in {0, i_peer.load[j]}
  BY <1>7, <1>8
<1>10. PeerEvent(e, k)
  BY <1>1, <1>2, <1>5, <1>7, <1>8, <1>9 DEF PeerEvent
<1>11. Publishes(e)
  BY <1>2, <1>3, <1>4, <1>7, <1>8 DEF Publishes, PeerTypes
<1> QED  BY <1>2, <1>3, <1>10, <1>11

LEMMA PeerDeletesManyEffect ==
  ASSUME Basics, UNCHANGED i_setting, Intake!PeerDeletesMany
  PROVE  SameProcess /\ \E e \in Published, k \in Key : Publishes(e) /\ PeerEvent(e, k)
<1> DEFINE K == i_setting.keys
           n == Intake!Cardinality(K)
<1>1. K \subseteq Key /\ K # {}
  BY DEF Basics, IntakeTypes, Intake!Setting
<1>2. n = Cardinality(K)
  BY DEF Intake!Cardinality, Cardinality
<1>3. n \in Nat /\ n # 0
  BY <1>1, <1>2, IntakeConstants, FS_Subset, FS_CardinalityType, FS_EmptySet
<1>4. PICK keys \in [1..n -> K] : Intake!Publish("del", keys, NoEvent, i_db)
  BY DEF Intake!PeerDeletesMany, Intake!Publish
<1> DEFINE e == [type |-> "del", keys |-> keys, gen |-> NoEvent, bound |-> i_db]
<1> HIDE DEF n, K
<1>5. keys \in Seq(Key) /\ Len(keys) = n
  <2>1. keys \in [1..n -> Key]
    BY <1>1
  <2> QED  BY <1>3, <2>1
<1>6. PICK k \in Key : TRUE
  BY <1>1
<1>7. e \in Published /\ e.keys = keys /\ e.type = "del" /\ e.bound = i_db
  BY <1>5, <1>6, PeerTyped DEF Published
<1>8. SameProcess /\ UNCHANGED <<i_db, i_floor, i_task, i_peer>> /\ "many" \in i_setting.peerCalls
  BY DEF Intake!PeerDeletesMany, Intake!aside, SameProcess
<1>9. i_log' = Append(i_log, e)
  BY <1>4 DEF Intake!Publish
<1>10. PeerTypes' /\ \A j \in Key : i_peer'.load[j] <= i_db
  BY <1>8 DEF Basics, IntakeTypes, BoundsOk, PeerTypes
<1> HIDE DEF e
<1>11. Publishes(e)
  BY <1>3, <1>5, <1>6, <1>7, <1>8, <1>9, <1>10, PeerTyped DEF Publishes
<1>12. PeerEvent(e, k)
  BY <1>7, <1>8 DEF PeerEvent
<1> QED  BY <1>6, <1>7, <1>8, <1>11, <1>12

LEMMA BasicsPublished ==
  ASSUME Basics, SameProcess, NEW e, Publishes(e)
  PROVE  Basics'
<1>1. i_log' \in Seq(Published) /\ TasksOk' /\ BoundsOk'
  BY LogAppended DEF Basics
<1>2. IntakeTypes'
  BY <1>1, OutsideProcess DEF Publishes, SameProcess, Basics, IntakeTypes
<1> QED  BY <1>1, <1>2 DEF Basics

\* The peer has loaded k.
PeerLoaded(k) ==
  /\ i_peer' \in PeerState /\ i_peer'.gen = i_peer.gen /\ i_peer'.held = i_peer.held
  /\ i_peer'.load[k] = i_db /\ \A j \in Key \ {k} : i_peer'.load[j] = i_peer.load[j]
  /\ \A j \in Key : i_peer'.load[j] <= i_db

LEMMA PeerLoadsEffect ==
  ASSUME Basics, NEW k \in Key, Intake!PeerLoads(k)
  PROVE  i_db' = i_db /\ PeerLoaded(k)
<1> DEFINE l == [i_peer.load EXCEPT ![k] = i_db]
<1>1. i_db' = i_db /\ i_peer' = [i_peer EXCEPT !.load[k] = i_db]
  BY DEF Intake!PeerLoads
<1>2. i_peer' = [gen |-> i_peer.gen, load |-> l, held |-> i_peer.held, full |-> i_peer.full]
  BY <1>1, PeerTyped
<1>3. /\ l \in [Key -> Nat] /\ l[k] = i_db /\ \A j \in Key \ {k} : l[j] = i_peer.load[j]
      /\ \A j \in Key : l[j] <= i_db
  BY PeerTyped, LoadChanged
<1> HIDE DEF l
<1>4. i_peer' \in PeerState /\ i_peer'.gen = i_peer.gen /\ i_peer'.load = l /\ i_peer'.held = i_peer.held
  BY <1>2, <1>3, PeerMade, PeerTyped
<1> QED  BY <1>1, <1>3, <1>4 DEF PeerLoaded

LEMMA BasicsPeer ==
  ASSUME Basics, UNCHANGED i_setting,
         \/ Intake!PeerRestarts \/ Intake!OriginWrite \/ \E k \in Key : Intake!PeerLoads(k)
         \/ \E id \in Intake!Id : Intake!SeenLapses(id)
  PROVE  Basics'
<1>0. /\ i_peer \in PeerState /\ i_db \in Nat \ {0}
      /\ i_log \in Seq(Published) /\ i_floor \in [Key -> Nat]
      /\ \A i \in 1..Len(i_log) : i_log[i].bound <= i_db /\ i_log[i] \in Published
      /\ \A j \in Key : i_floor[j] <= i_db /\ i_peer.load[j] <= i_db
  BY DEF Basics, IntakeTypes, BoundsOk
<1>1. UNCHANGED <<i_setting, i_versioned, i_l1, i_gen, i_saturated, i_task, i_fill, i_floor, i_log>>
  BY DEF Intake!PeerRestarts, Intake!OriginWrite, Intake!PeerLoads, Intake!SeenLapses, Intake!aside,
         Intake!peerVars
<1>2. TasksOk'
  BY <1>1 DEF Basics, TasksOk
<1>3. PeerTypes' /\ i_db' \in Nat \ {0} /\ i_db' >= i_db /\ \A j \in Key : i_peer'.load[j] <= i_db'
  <2>1. CASE Intake!PeerRestarts
    <3> DEFINE z == [j \in Key |-> 0]
    <3>1. z \in [Key -> Nat] /\ {} \in SUBSET Key /\ FALSE \in BOOLEAN /\ \A j \in Key : z[j] = 0
      OBVIOUS
    <3>2. PICK b \in BOOLEAN, H \in SUBSET Key : b = FALSE /\ H = {}
      OBVIOUS
    <3>3. i_peer' = [gen |-> z, load |-> z, held |-> H, full |-> b] /\ i_db' = i_db
      BY <2>1, <3>2 DEF Intake!PeerRestarts, Intake!NewPeer
    <3> HIDE DEF z
    <3>4. i_peer' \in PeerState /\ i_peer'.load = z
      BY <3>1, <3>3, PeerMade
    <3>5. \A j \in Key : i_peer'.load[j] <= i_db'
      BY <1>0, <3>1, <3>3, <3>4
    <3>6. i_db' \in Nat \ {0} /\ i_db' >= i_db
      BY <1>0, <3>3
    <3>7. PeerTypes'
      BY <3>4 DEF PeerTypes
    <3> QED  BY <3>5, <3>6, <3>7
  <2>2. CASE Intake!OriginWrite
    <3>1. i_db' \in Nat \ {0} /\ i_db' >= i_db /\ i_peer' = i_peer
      BY <1>0, <2>2 DEF Intake!OriginWrite
    <3>2. \A j \in Key : i_peer.load[j] <= i_db'
      <4>1. \A j \in Key : i_peer.load[j] <= i_db /\ i_peer.load[j] \in Nat
        BY <1>0 DEF PeerState
      <4> QED  BY <1>0, <3>1, <4>1
    <3> QED  BY <1>0, <3>1, <3>2 DEF PeerTypes
  <2>3. ASSUME NEW k \in Key, Intake!PeerLoads(k) PROVE <1>3!:
    <3>1. i_db' = i_db /\ PeerLoaded(k)
      BY <2>3, PeerLoadsEffect
    <3> QED  BY <1>0, <3>1 DEF PeerTypes, PeerLoaded
  <2>4. ASSUME NEW id \in Intake!Id, Intake!SeenLapses(id) PROVE <1>3!:
    BY <1>0, <2>4 DEF Intake!SeenLapses, Intake!peerVars, PeerTypes
  <2> QED  BY <2>1, <2>2, <2>3, <2>4
<1>4. \A i \in 1..Len(i_log) : i_log[i].bound <= i_db'
  BY <1>0, <1>3, SMTT(60) DEF Published
<1>5. \A j \in Key : i_floor[j] <= i_db'
  BY <1>0, <1>3
<1>6. BoundsOk'
  BY <1>1, <1>3, <1>4, <1>5 DEF BoundsOk
<1>7. IntakeTypes'
  BY <1>0, <1>1, <1>3, OutsideProcess
<1> QED  BY <1>2, <1>6, <1>7 DEF Basics

-----------------------------------------------------------------------------
(* DeleteWins *)

\* An entry stays only where the delete of its key does not look for it, a new entry is not
\* older than the last delete, and storage keys only grow.
LEMMA FreshStep ==
  ASSUME IntakeTypes, IntakeTypes', StoragesOk, FreshOk,
         UNCHANGED <<i_versioned, i_log>>, i_saturated => i_saturated',
         \A j \in Key : i_gen'[j] >= i_gen[j],
         \A j \in Key : \A x \in i_l1'[j] :
           \/ x \in i_l1[j] /\ (i_floor'[j] = i_floor[j] \/ x.storage # InUse(j))
           \/ (Intake!Ordered(j) => x.version >= i_floor'[j]) /\ x.storage <= InUse(j)',
         \A j \in Key : /\ i_fill'[j].storage <= InUse(j)'
                        /\ Intake!Ordered(j) /\ i_fill'[j].current /\ i_fill'[j].version # 0 =>
                             i_fill'[j].version >= i_floor'[j]
  PROVE  StoragesOk' /\ FreshOk'
<1>0. \A j \in Key : Intake!Ordered(j)' <=> Intake!Ordered(j)
  BY DEF Intake!Ordered
<1>1. ASSUME NEW j \in Key, NEW x \in i_l1'[j]
      PROVE  /\ x.storage <= InUse(j)'
             /\ Intake!Ordered(j) /\ (~i_versioned \/ (~i_saturated' /\ x.storage = i_gen'[j])) => x.version >= i_floor'[j]
  <2>1. /\ i_gen[j] \in Nat /\ i_gen'[j] \in Nat /\ i_gen'[j] >= i_gen[j]
        /\ i_floor[j] \in Nat /\ i_floor'[j] \in Nat
        /\ x.storage \in Nat /\ x.version \in Nat /\ i_versioned \in BOOLEAN
    <3>1. /\ i_gen \in [Key -> Nat] /\ i_gen' \in [Key -> Nat] /\ i_versioned \in BOOLEAN
          /\ i_floor \in [Key -> Nat] /\ i_floor' \in [Key -> Nat]
      BY DEF IntakeTypes
    <3>2. i_l1' \in [Key -> SUBSET [storage : Nat, version : Nat]]
      BY DEF IntakeTypes
    <3>3. x \in [storage : Nat, version : Nat]
      BY <1>1, <3>2
    <3> QED  BY <3>1, <3>3
  <2>2. CASE (Intake!Ordered(j) => x.version >= i_floor'[j]) /\ x.storage <= InUse(j)'
    BY <2>2
  <2>3. CASE x \in i_l1[j] /\ (i_floor'[j] = i_floor[j] \/ x.storage # InUse(j))
    <3>1. /\ x.storage <= InUse(j)
          /\ Intake!Ordered(j) /\ (~i_versioned \/ (~i_saturated /\ x.storage = i_gen[j])) => x.version >= i_floor[j]
      BY <2>3 DEF StoragesOk, FreshOk, InUse
    <3>2. CASE i_versioned
      <4>1. InUse(j) = i_gen[j] /\ InUse(j)' = i_gen'[j]
        BY <3>2 DEF InUse
      <4> QED  BY <2>1, <2>3, <3>1, <3>2, <4>1
    <3>3. CASE ~i_versioned
      <4>1. InUse(j) = 0 /\ InUse(j)' = 0
        BY <3>3 DEF InUse
      <4> QED  BY <2>1, <2>3, <3>1, <3>3, <4>1
    <3> QED  BY <2>1, <3>2, <3>3
  <2> QED  BY <1>1, <2>2, <2>3
<1>2. StoragesOk'
  BY <1>1 DEF StoragesOk, InUse
<1>3. FreshOk'
  BY <1>0, <1>1 DEF FreshOk
<1> QED  BY <1>2, <1>3

\* The same when the counter of k grows and its loads are outdated.
LEMMA FreshWhenGrown ==
  ASSUME IntakeTypes, IntakeTypes', StoragesOk, FreshOk, UNCHANGED <<i_versioned, i_log>>,
         NEW k \in Key, NEW g \in Nat, g >= i_gen[k], Grows(k, g), Outdates(k),
         \A j \in Key \ {k} : i_floor'[j] = i_floor[j],
         \A j \in Key : \A x \in i_l1'[j] :
           \/ x \in i_l1[j] /\ (i_floor'[j] = i_floor[j] \/ x.storage # InUse(j))
           \/ (Intake!Ordered(j) => x.version >= i_floor'[j]) /\ x.storage <= InUse(j)'
  PROVE  StoragesOk' /\ FreshOk'
<1>1. \A j \in Key : i_gen'[j] >= i_gen[j] /\ i_gen'[j] \in Nat /\ i_gen[j] \in Nat
  BY GenerationsGrow DEF IntakeTypes
<1>2. ASSUME NEW j \in Key
      PROVE  /\ i_fill'[j].storage <= InUse(j)'
             /\ Intake!Ordered(j) /\ i_fill'[j].current /\ i_fill'[j].version # 0 =>
                  i_fill'[j].version >= i_floor'[j]
  <2>1. /\ i_fill[j].storage \in Nat /\ i_fill[j].storage <= InUse(j)
        /\ Intake!Ordered(j) /\ i_fill[j].current /\ i_fill[j].version # 0 => i_fill[j].version >= i_floor[j]
    BY DEF StoragesOk, FreshOk, InUse, IntakeTypes
  <2>2. InUse(j) <= InUse(j)' /\ InUse(j) \in Nat /\ InUse(j)' \in Nat
    BY <1>1 DEF InUse
  <2>3. /\ i_fill'[j].storage = i_fill[j].storage /\ i_fill'[j].version = i_fill[j].version
        /\ i_fill'[j].current => i_fill[j].current /\ j # k
    BY DEF Outdates
  <2> QED  BY <2>1, <2>2, <2>3
<1>3. i_saturated => i_saturated'
  BY DEF Grows
<1> QED  BY <1>1, <1>2, <1>3, FreshStep

LEMMA ReachNat ==
  ASSUME IntakeTypes, NEW i \in 1..Len(i_log)
  PROVE  Reach(i_log[i]) \in Nat /\ i_log[i].gen \in Nat \cup {NoEvent}
<1>1. i_log[i] \in Published
  BY DEF IntakeTypes
<1> QED  BY <1>1 DEF Published, Reach

\* A value of the peer that is not outdated was loaded after the last delete that came here.
LEMMA ValueIsFresh ==
  ASSUME IntakeTypes, TasksOk, SourceOk, NEW h \in Runner, NEW n \in Nat, NEW k \in Key, AtKey(h, n, k),
         i_log[n].type = "set", ~i_saturated, Intake!Ordered(k),
         i_log[n].gen # NoEvent => i_log[n].gen >= i_gen[k]
  PROVE  i_log[n].bound >= i_floor[k]
<1>1. n \in 1..Len(i_log)
  BY DEF AtKey
<1>2. Values
  BY <1>1 DEF SourceOk, DeletesOnly
<1>3. OrderedOk /\ FloorOk
  BY <1>2, SMTT(60) DEF SourceOk
<1>4. i_floor[k] \in Nat /\ i_log[n].bound \in Nat /\ i_gen[k] \in Nat
  BY DEF IntakeTypes, AtKey, Published
<1>5. Len(i_log[n].keys) = 1 /\ k = i_log[n].keys[1]
  <2>1. Len(i_log[n].keys) = 1
    BY <1>1, <1>3 DEF OrderedOk
  <2>2. i_task[h].done + 1 \in 1..1 /\ k = i_log[n].keys[i_task[h].done + 1]
    BY <2>1 DEF AtKey
  <2>3. i_task[h].done + 1 = 1
    BY <2>2
  <2> QED  BY <2>1, <2>2, <2>3
<1>6. CASE i_floor[k] = 0
  BY <1>4, <1>6
<1>7. CASE i_floor[k] # 0
  <2>1. PICK i \in 1..Len(i_log) : /\ i_log[i].type = "del" /\ i_log[i].keys[1] = k
                                   /\ i_log[i].bound = i_floor[k] /\ Reach(i_log[i]) <= i_gen[k]
    BY <1>3, <1>7 DEF FloorOk
  <2>2. Reach(i_log[i]) \in Nat
    BY ReachNat
  <2>3. i_log[n].gen # NoEvent /\ i_log[n].gen \in Nat
    BY <1>1, <1>5, ReachNat DEF Intake!Ordered
  <2>4. Reach(i_log[i]) <= i_log[n].gen
    BY <1>4, <2>1, <2>2, <2>3
  <2>5. i_log[i].bound <= i_log[n].bound
    BY <1>1, <1>3, <1>5, <2>1, <2>3, <2>4 DEF OrderedOk
  <2> QED  BY <1>4, <2>1, <2>5
<1> QED  BY <1>6, <1>7

LEMMA FreshHandlers ==
  ASSUME Basics, Basics', StoragesOk, FreshOk, SourceOk, NEW h \in Runner, UNCHANGED i_setting,
         \/ Intake!DeleteKey(h) \/ Intake!DeleteKeyFails(h) \/ Intake!TakeValue(h)
  PROVE  StoragesOk' /\ FreshOk'
<1>0. IntakeTypes /\ IntakeTypes' /\ TasksOk /\ UNCHANGED <<i_versioned, i_log>>
  BY DEF Basics, Intake!DeleteKey, Intake!DeleteKeyFails, Intake!TakeValue, Intake!peerVars
<1>1. CASE Intake!DeleteKey(h)
  <2>1. PICK n \in Nat, k \in Key, g \in Nat :
           /\ g >= i_gen[k] /\ Grows(k, g) /\ Outdates(k) /\ Evicts(k)
           /\ FloorRaised(k, n)
    BY <1>0, <1>1, DeleteEffect
  <2>2. \A j \in Key \ {k} : i_floor'[j] = i_floor[j]
    BY <1>0, <2>1 DEF IntakeTypes, FloorRaised
  <2>3. \A j \in Key : \A x \in i_l1'[j] :
          x \in i_l1[j] /\ (i_floor'[j] = i_floor[j] \/ x.storage # InUse(j))
    BY <2>1, <2>2 DEF Evicts
  <2> QED  BY <1>0, <2>1, <2>2, <2>3, FreshWhenGrown
<1>2. CASE Intake!DeleteKeyFails(h)
  <2>1. PICK n \in Nat, k \in Key, g \in Nat :
           g >= i_gen[k] /\ Grows(k, g) /\ Outdates(k) /\ UNCHANGED <<i_l1, i_floor>>
    BY <1>0, <1>2, FailEffect
  <2> QED  BY <1>0, <2>1, FreshWhenGrown
<1>3. CASE Intake!TakeValue(h)
  <2>0. UNCHANGED i_floor
    BY <1>3 DEF Intake!TakeValue
  <2>1. CASE UNCHANGED <<i_l1, i_fill, i_gen, i_saturated>>
    BY <1>0, <2>0, <2>1 DEF StoragesOk, FreshOk, Intake!Ordered
  <2>2. CASE \E n \in Nat, k \in Key, g, storage \in Nat :
               /\ AtKey(h, n, k) /\ i_log[n].type = "set" /\ ~i_saturated
               /\ (i_log[n].gen # NoEvent => i_log[n].gen = g) /\ g >= i_gen[k]
               /\ Grows(k, g) /\ Outdates(k)
               /\ storage = (IF i_versioned THEN i_gen'[k] ELSE 0)
               /\ Stores(k, storage, i_log[n].bound)
    <3>1. PICK n \in Nat, k \in Key, g, storage \in Nat :
               /\ AtKey(h, n, k) /\ i_log[n].type = "set" /\ ~i_saturated
               /\ (i_log[n].gen # NoEvent => i_log[n].gen = g) /\ g >= i_gen[k]
               /\ Grows(k, g) /\ Outdates(k)
               /\ storage = (IF i_versioned THEN i_gen'[k] ELSE 0)
               /\ Stores(k, storage, i_log[n].bound)
      BY <2>2
    <3>2. Intake!Ordered(k) => i_log[n].bound >= i_floor[k]
      BY <1>0, <3>1, ValueIsFresh
    <3>3. storage = InUse(k)' /\ InUse(k)' \in Nat
      BY <1>0, <3>1 DEF InUse
    <3>4. \A j \in Key : \A x \in i_l1'[j] :
            \/ x \in i_l1[j] /\ i_floor'[j] = i_floor[j]
            \/ (Intake!Ordered(j) => x.version >= i_floor'[j]) /\ x.storage <= InUse(j)'
      BY <2>0, <3>1, <3>2, <3>3 DEF Stores
    <3> QED  BY <1>0, <2>0, <3>1, <3>4, FreshWhenGrown
  <2> QED  BY <1>0, <1>3, <2>1, <2>2, ValueEffect
<1> QED  BY <1>1, <1>2, <1>3

LEMMA FreshLoads ==
  ASSUME Basics, Basics', StoragesOk, FreshOk, NEW k \in Key, UNCHANGED i_setting,
         \/ Intake!FillStarts(k) \/ Intake!FillLoads(k) \/ Intake!FillStores(k) \/ Intake!Delete(k)
  PROVE  StoragesOk' /\ FreshOk'
<1>0. /\ IntakeTypes /\ IntakeTypes' /\ BoundsOk
      /\ UNCHANGED <<i_versioned, i_log>>
  BY DEF Basics, Intake!FillStarts, Intake!FillLoads, Intake!FillStores, Intake!Delete, Intake!peerVars
<1>1. /\ \A j \in Key : i_fill[j].storage \in Nat /\ i_fill[j].storage <= InUse(j) /\ i_gen[j] \in Nat
      /\ \A j \in Key : Intake!Ordered(j) /\ i_fill[j].current /\ i_fill[j].version # 0 =>
                          i_fill[j].version >= i_floor[j]
      /\ i_floor[k] <= i_db /\ i_db \in Nat /\ i_floor[k] \in Nat
  BY <1>0 DEF StoragesOk, FreshOk, InUse, IntakeTypes, BoundsOk
<1>2. CASE Intake!Delete(k)
  <2>1. PICK g \in Nat : g = i_gen[k] + 1
    BY <1>1
  <2>2. Grows(k, g) /\ Outdates(k) /\ Evicts(k) /\ i_floor' = [i_floor EXCEPT ![k] = i_db]
    BY <1>0, <1>2, <2>1, LocalDeleteEffect
  <2>3. \A j \in Key \ {k} : i_floor'[j] = i_floor[j]
    BY <1>0, <2>2 DEF IntakeTypes
  <2>4. \A j \in Key : \A x \in i_l1'[j] :
          x \in i_l1[j] /\ (i_floor'[j] = i_floor[j] \/ x.storage # InUse(j))
    BY <2>2, <2>3 DEF Evicts
  <2>5. g >= i_gen[k]
    BY <1>1, <2>1
  <2> QED  BY <1>0, <2>2, <2>3, <2>4, <2>5, FreshWhenGrown
<1>3. ASSUME ~Intake!Delete(k)
      PROVE  /\ UNCHANGED <<i_gen, i_saturated, i_floor>>
             /\ \A j \in Key : InUse(j)' = InUse(j) /\ i_gen'[j] >= i_gen[j]
  <2>1. UNCHANGED <<i_gen, i_saturated, i_floor, i_versioned>>
    BY <1>3 DEF Intake!FillStarts, Intake!FillLoads, Intake!FillStores
  <2> QED  BY <1>1, <2>1 DEF InUse
<1>4. CASE Intake!FillStarts(k) /\ ~Intake!Delete(k)
  <2> DEFINE f == [on |-> TRUE, current |-> Intake!VersionedCacheSafe, storage |-> Intake!StorageKey(k), version |-> 0]
  <2>1. f.storage = InUse(k) /\ f.version = 0 /\ InUse(k) \in Nat
    BY <1>1 DEF Intake!StorageKey, InUse
  <2>2. UNCHANGED i_l1 /\ i_fill' = [i_fill EXCEPT ![k] = f]
    BY <1>4 DEF Intake!FillStarts
  <2> HIDE DEF f
  <2>3. i_fill'[k] = f /\ \A j \in Key \ {k} : i_fill'[j] = i_fill[j]
    BY <1>0, <2>2 DEF IntakeTypes
  <2>4. \A j \in Key : /\ i_fill'[j].storage <= InUse(j)'
                       /\ Intake!Ordered(j) /\ i_fill'[j].current /\ i_fill'[j].version # 0 =>
                            i_fill'[j].version >= i_floor'[j]
    BY <1>1, <1>3, <1>4, <2>1, <2>3
  <2> QED  BY <1>0, <1>3, <1>4, <2>2, <2>4, FreshStep
<1>5. CASE Intake!FillLoads(k) /\ ~Intake!Delete(k)
  <2> DEFINE f == [i_fill[k] EXCEPT !.version = i_db]
  <2>1. f.storage = i_fill[k].storage /\ f.version = i_db
    BY <1>0 DEF IntakeTypes
  <2>2. UNCHANGED i_l1 /\ i_fill' = [i_fill EXCEPT ![k] = f]
    BY <1>5 DEF Intake!FillLoads
  <2> HIDE DEF f
  <2>3. i_fill'[k] = f /\ \A j \in Key \ {k} : i_fill'[j] = i_fill[j]
    BY <1>0, <2>2 DEF IntakeTypes
  <2>4. \A j \in Key : /\ i_fill'[j].storage <= InUse(j)'
                       /\ Intake!Ordered(j) /\ i_fill'[j].current /\ i_fill'[j].version # 0 =>
                            i_fill'[j].version >= i_floor'[j]
    BY <1>1, <1>3, <1>5, <2>1, <2>3
  <2> QED  BY <1>0, <1>3, <1>5, <2>2, <2>4, FreshStep
<1>6. CASE Intake!FillStores(k) /\ ~Intake!Delete(k)
  <2>1. Intake!NoFill.storage = 0 /\ Intake!NoFill.version = 0
    BY DEF Intake!NoFill
  <2>2. i_fill' = [i_fill EXCEPT ![k] = Intake!NoFill] /\ i_fill[k].version # 0
    BY <1>6 DEF Intake!FillStores
  <2>3. i_fill'[k] = Intake!NoFill /\ \A j \in Key \ {k} : i_fill'[j] = i_fill[j]
    BY <1>0, <2>2 DEF IntakeTypes
  <2>4. InUse(k) >= 0
    BY <1>1 DEF InUse
  <2>5. \A j \in Key : /\ i_fill'[j].storage <= InUse(j)'
                       /\ Intake!Ordered(j) /\ i_fill'[j].current /\ i_fill'[j].version # 0 =>
                            i_fill'[j].version >= i_floor'[j]
    BY <1>1, <1>3, <1>6, <2>1, <2>3, <2>4
  <2>6. /\ Stores(k, i_fill[k].storage, i_fill[k].version)
        /\ ~i_fill[k].current => UNCHANGED i_l1
    BY <1>0, <1>6, FillStored
  <2>7. /\ i_fill[k].storage <= InUse(k)
        /\ Intake!Ordered(k) /\ i_fill[k].current => i_fill[k].version >= i_floor[k]
    BY <1>1, <2>2
  <2>8. \A j \in Key : \A x \in i_l1'[j] :
          \/ x \in i_l1[j] /\ i_floor'[j] = i_floor[j]
          \/ (Intake!Ordered(j) => x.version >= i_floor'[j]) /\ x.storage <= InUse(j)'
    BY <1>3, <1>6, <2>6, <2>7 DEF Stores
  <2> QED  BY <1>0, <1>3, <1>6, <2>5, <2>8, FreshStep
<1> QED  BY <1>2, <1>4, <1>5, <1>6

\* What the peer publishes keeps the order of its events.
LEMMA SourcePublishes ==
  ASSUME Basics, SourceOk, Intake!OneSource, SameProcess, NEW e \in Published, NEW k \in Key,
         Publishes(e), PeerEvent(e, k)
  PROVE  SourceOk'
<1>0. /\ IntakeTypes /\ i_peer.gen \in [Key -> Nat] /\ i_peer.load \in [Key -> Nat]
      /\ BoundsOk /\ i_db \in Nat /\ UNCHANGED <<i_setting, i_floor, i_gen, i_saturated>>
      /\ i_peer'.gen \in [Key -> Nat] /\ i_peer'.load \in [Key -> Nat]
  BY DEF Basics, IntakeTypes, SameProcess, Publishes, PeerTypes, PeerState
<1>1. /\ Len(i_log') = Len(i_log) + 1 /\ Len(i_log) \in Nat
      /\ \A i \in 1..Len(i_log) : i_log'[i] = i_log[i] /\ i_log[i] \in Published
      /\ i_log'[Len(i_log) + 1] = e
      /\ \A i \in 1..Len(i_log') : i \in 1..Len(i_log) \/ i = Len(i_log) + 1
      /\ \A i \in 1..Len(i_log) : i \in 1..Len(i_log')
  <2>1. i_log \in Seq(Published) /\ i_log' = Append(i_log, e)
    BY <1>0 DEF IntakeTypes, Publishes
  <2>2. /\ Len(i_log') = Len(i_log) + 1 /\ Len(i_log) \in Nat
        /\ \A i \in 1..Len(i_log) : i_log'[i] = i_log[i]
        /\ i_log'[Len(i_log) + 1] = e
    BY <2>1, AppendPlaces
  <2>3. \A i \in 1..Len(i_log) : i_log[i] \in Published
    BY <2>1
  <2> QED  BY <2>2, <2>3
<1>2. CASE ~Values
  <2>1. DeletesOnly
    BY <1>2 DEF SourceOk
  <2>2. e.type = "del" /\ \A j \in Key : i_peer'.load[j] = 0
    <3>1. CASE e.type = "del" /\ UNCHANGED i_peer
      BY <2>1, <3>1 DEF DeletesOnly
    <3>2. CASE \A j \in Key : i_peer'.load[j] \in {0, i_peer.load[j]}
      BY <2>1, <3>2 DEF DeletesOnly, PeerEvent
    <3> QED  BY <3>1, <3>2 DEF PeerEvent
  <2>3. DeletesOnly'
    BY <1>1, <2>1, <2>2 DEF DeletesOnly
  <2> QED  BY <1>0, <1>2, <2>3 DEF SourceOk, Values
<1>3. CASE Values
  <2>1. OrderedOk /\ FloorOk
    BY <1>3 DEF SourceOk
  <2>2. i_setting.peerCalls \subseteq {"delete", "set", "saturate"}
    BY <1>3 DEF Values, Intake!OneSource
  <2>3. e.keys = <<k>> /\ Len(e.keys) = 1 /\ e.keys[1] = k
    <3>1. e.keys = <<k>>
      BY <2>2 DEF PeerEvent
    <3> QED  BY <3>1, PeerTyped
  <2>4. /\ e.gen \in Nat \cup {NoEvent} /\ i_peer'.load[k] = 0 /\ e.type \in {"del", "set"}
        /\ e.gen # NoEvent => e.gen <= i_peer'.gen[k]
        /\ \A j \in Key : i_peer'.gen[j] >= i_peer.gen[j] /\ i_peer'.load[j] \in {0, i_peer.load[j]}
        /\ e.type = "del" => Reach(e) > i_peer.gen[k]
        /\ e.type = "set" => i_peer.load[k] # 0 /\ e.bound = i_peer.load[k]
        /\ \A j \in Key : j \notin i_peer'.held => i_peer'.gen[j] = 0
    <3>0. /\ \A j \in Key : i_peer.gen[j] \in Nat /\ (j \notin i_peer.held => i_peer.gen[j] = 0)
          /\ NoEvent \notin Nat
      BY <1>0, <2>1, IntakeConstants DEF OrderedOk
    <3>1. CASE /\ e.gen = i_peer.gen[k] + 1 /\ i_peer'.gen[k] = e.gen /\ e.type = "del"
               /\ \A j \in Key \ {k} : i_peer'.gen[j] = i_peer.gen[j]
               /\ i_peer'.held = i_peer.held \cup {k}
      <4>1. \A j \in Key : i_peer'.gen[j] >= i_peer.gen[j] /\ (j \notin i_peer'.held => i_peer'.gen[j] = 0)
        BY <3>0, <3>1
      <4>2. Reach(e) > i_peer.gen[k]
        BY <3>0, <3>1 DEF Reach
      <4> QED  BY <2>2, <3>0, <3>1, <4>1, <4>2 DEF PeerEvent
    <3>2. CASE /\ e.gen = NoEvent /\ k \notin i_peer.held /\ e.type = "del"
               /\ i_peer'.gen = i_peer.gen /\ i_peer'.held = i_peer.held
      <4>1. Reach(e) > i_peer.gen[k]
        BY <3>0, <3>2 DEF Reach
      <4> QED  BY <2>2, <3>0, <3>2, <4>1 DEF PeerEvent
    <3>3. CASE /\ e.type = "set" /\ i_peer.load[k] # 0 /\ e.bound = i_peer.load[k]
               /\ e.gen \in {NoEvent, i_peer.gen[k]}
               /\ i_peer'.gen = i_peer.gen /\ i_peer'.held = i_peer.held
      BY <2>2, <3>0, <3>3 DEF PeerEvent
    <3> QED  BY <2>2, <3>1, <3>2, <3>3 DEF PeerEvent
  <2>5. ASSUME NEW i \in 1..Len(i_log)
        PROVE  /\ i_log[i].gen \in Nat \cup {NoEvent} /\ Len(i_log[i].keys) = 1 /\ i_log[i].keys[1] \in Key
               /\ i_log[i].gen # NoEvent => i_log[i].gen <= i_peer.gen[i_log[i].keys[1]]
               /\ i_log[i].type = "del" /\ i_peer.load[i_log[i].keys[1]] # 0 =>
                    i_log[i].bound <= i_peer.load[i_log[i].keys[1]]
    <3>1. i_log[i].gen \in Nat \cup {NoEvent} /\ i_log[i].keys \in Seq(Key) /\ Len(i_log[i].keys) = 1
      BY <1>1, <2>1 DEF Published, OrderedOk
    <3>2. i_log[i].keys[1] \in Key
      BY <3>1
    <3> QED  BY <2>1, <3>1, <3>2 DEF OrderedOk
  <2>6. ASSUME NEW i \in 1..Len(i_log')
        PROVE  /\ Len(i_log'[i].keys) = 1
               /\ i_log'[i].gen # NoEvent => i_log'[i].gen <= i_peer'.gen[i_log'[i].keys[1]]
               /\ i_log'[i].type = "del" /\ i_peer'.load[i_log'[i].keys[1]] # 0 =>
                    i_log'[i].bound <= i_peer'.load[i_log'[i].keys[1]]
    <3>1. CASE i \in 1..Len(i_log)
      <4>1. i_log'[i] = i_log[i]
        BY <1>1, <3>1
      <4>2. PICK j \in Key : j = i_log[i].keys[1]
        BY <2>5, <3>1
      <4>3. /\ i_log[i].gen \in Nat \cup {NoEvent} /\ Len(i_log[i].keys) = 1
            /\ i_log[i].gen # NoEvent => i_log[i].gen <= i_peer.gen[j]
            /\ i_log[i].type = "del" /\ i_peer.load[j] # 0 => i_log[i].bound <= i_peer.load[j]
        BY <2>5, <3>1, <4>2
      <4>4. /\ i_peer.gen[j] \in Nat /\ i_peer'.gen[j] \in Nat /\ i_peer'.gen[j] >= i_peer.gen[j]
            /\ i_peer'.load[j] # 0 => i_peer'.load[j] = i_peer.load[j]
        BY <1>0, <2>4
      <4> QED  BY <4>1, <4>2, <4>3, <4>4
    <3>2. CASE i = Len(i_log) + 1
      BY <1>1, <2>3, <2>4, <3>2
    <3> QED  BY <1>1, <3>1, <3>2
  <2>7. ASSUME NEW i \in 1..Len(i_log'), NEW j \in 1..Len(i_log'),
               i_log'[i].type = "del", i_log'[j].type = "set", i_log'[i].keys[1] = i_log'[j].keys[1],
               i_log'[j].gen # NoEvent, Reach(i_log'[i]) <= i_log'[j].gen
        PROVE  i_log'[i].bound <= i_log'[j].bound
    <3>1. CASE i \in 1..Len(i_log) /\ j \in 1..Len(i_log)
      BY <1>1, <2>1, <2>7, <3>1 DEF OrderedOk
    <3>2. CASE i \in 1..Len(i_log) /\ j = Len(i_log) + 1
      <4>1. i_log'[i] = i_log[i] /\ i_log'[j] = e /\ e.type = "set" /\ i_log[i].keys[1] = k
        BY <1>1, <2>3, <2>7, <3>2
      <4>2. i_log[i].bound <= i_peer.load[k] /\ e.bound = i_peer.load[k]
        BY <2>4, <2>5, <2>7, <3>2, <4>1
      <4> QED  BY <4>1, <4>2
    <3>3. CASE i = Len(i_log) + 1 /\ j \in 1..Len(i_log)
      <4>1. i_log'[i] = e /\ i_log'[j] = i_log[j] /\ e.type = "del" /\ i_log[j].keys[1] = k
        BY <1>1, <2>3, <2>7, <3>3
      <4>2. Reach(e) > i_peer.gen[k] /\ i_log[j].gen <= i_peer.gen[k] /\ Reach(e) <= i_log[j].gen
        BY <2>4, <2>5, <2>7, <3>3, <4>1
      <4>3. Reach(e) \in Nat /\ i_log[j].gen \in Nat /\ i_peer.gen[k] \in Nat
        BY <1>0, <2>4, <2>5, <2>7, <3>3, <4>1 DEF Reach
      <4> QED  BY <4>2, <4>3
    <3>4. CASE i = Len(i_log) + 1 /\ j = Len(i_log) + 1
      BY <2>7, <3>4
    <3> QED  BY <1>1, <3>1, <3>2, <3>3, <3>4
  <2>8. OrderedOk'
    BY <2>4, <2>6, <2>7 DEF OrderedOk, Reach
  <2>9. FloorOk'
    <3>1. SUFFICES ASSUME ~i_saturated, NEW j \in Key, i_floor[j] # 0
                   PROVE  \E i \in 1..Len(i_log') : /\ i_log'[i].type = "del" /\ i_log'[i].keys[1] = j
                                                    /\ i_log'[i].bound = i_floor[j] /\ Reach(i_log'[i]) <= i_gen[j]
      BY <1>0 DEF FloorOk
    <3>2. PICK i \in 1..Len(i_log) : /\ i_log[i].type = "del" /\ i_log[i].keys[1] = j
                                     /\ i_log[i].bound = i_floor[j] /\ Reach(i_log[i]) <= i_gen[j]
      BY <2>1, <3>1 DEF FloorOk
    <3> QED  BY <1>1, <3>2
  <2> QED  BY <1>0, <1>3, <2>8, <2>9 DEF SourceOk, Values
<1> QED  BY <1>2, <1>3

\* What this process does keeps the last delete of each key in the log.
LEMMA SourceWithin ==
  ASSUME Basics, SourceOk, Intake!OneSource, SameWorld,
         Values => FloorOk'
  PROVE  SourceOk'
<1>1. (Values' <=> Values) /\ (DeletesOnly => DeletesOnly') /\ (OrderedOk => OrderedOk')
  BY DEF SameWorld, Values, DeletesOnly, OrderedOk
<1> QED  BY <1>1 DEF SourceOk

\* The floors stay, the generations grow.
LEMMA FloorWithin ==
  ASSUME Basics, FloorOk, Values, SourceOk, UNCHANGED <<i_log, i_floor>>, i_saturated => i_saturated',
         \A j \in Key : i_gen'[j] >= i_gen[j] /\ i_gen'[j] \in Nat
  PROVE  FloorOk'
<1>1. SUFFICES ASSUME ~i_saturated, NEW j \in Key, i_floor[j] # 0
               PROVE  \E i \in 1..Len(i_log) : /\ i_log[i].type = "del" /\ i_log[i].keys[1] = j
                                               /\ i_log[i].bound = i_floor[j] /\ Reach(i_log[i]) <= i_gen'[j]
  BY DEF FloorOk
<1>2. PICK i \in 1..Len(i_log) : /\ i_log[i].type = "del" /\ i_log[i].keys[1] = j
                                 /\ i_log[i].bound = i_floor[j] /\ Reach(i_log[i]) <= i_gen[j]
  BY <1>1 DEF FloorOk
<1>3. Reach(i_log[i]) \in Nat /\ i_gen[j] \in Nat /\ i_gen'[j] \in Nat /\ i_gen'[j] >= i_gen[j]
  BY ReachNat DEF Basics, IntakeTypes
<1> QED  BY <1>2, <1>3

LEMMA SourceHandlers ==
  ASSUME Basics, SourceOk, Intake!OneSource, NEW h \in Runner, UNCHANGED i_setting,
         \/ Intake!DeleteKey(h) \/ Intake!DeleteKeyFails(h) \/ Intake!TakeValue(h)
  PROVE  SourceOk'
<1>0. IntakeTypes /\ TasksOk /\ SameWorld
  BY DEF Basics, SameWorld, Intake!DeleteKey, Intake!DeleteKeyFails, Intake!TakeValue, Intake!peerVars
<1>1. SUFFICES ASSUME Values PROVE FloorOk'
  BY <1>0, SourceWithin
<1>2. OrderedOk /\ FloorOk /\ UNCHANGED i_log
  BY <1>0, <1>1 DEF SourceOk, SameWorld
<1>3. CASE Intake!DeleteKey(h)
  <2>1. PICK n \in Nat, k \in Key, g \in Nat :
           /\ AtKey(h, n, k) /\ i_log[n].type = "del"
           /\ g >= i_gen[k] /\ g >= Reach(i_log[n]) /\ Grows(k, g)
           /\ FloorRaised(k, n)
    BY <1>0, <1>3, DeleteEffect
  <2>2. n \in 1..Len(i_log) /\ Reach(i_log[n]) \in Nat /\ Reach(i_log[n]) <= g /\ i_log[n].keys[1] = k
    <3>1. n \in 1..Len(i_log)
      BY <2>1 DEF AtKey
    <3>2. Reach(i_log[n]) \in Nat /\ Len(i_log[n].keys) = 1
      <4>1. Len(i_log[n].keys) = 1
        BY <1>2, <3>1, SMTT(20) DEF OrderedOk
      <4> QED  BY <1>0, <3>1, <4>1, ReachNat
    <3>3. i_task[h].done + 1 \in 1..1 /\ k = i_log[n].keys[i_task[h].done + 1]
      BY <2>1, <3>2 DEF AtKey
    <3>4. i_task[h].done + 1 = 1
      BY <3>3
    <3> QED  BY <2>1, <3>1, <3>2, <3>3, <3>4
  <2>3. (\A j \in Key : i_gen'[j] >= i_gen[j] /\ i_gen'[j] \in Nat) /\ (i_saturated => i_saturated')
    BY <1>0, <2>1, GenerationsGrow
  <2>4. /\ \A j \in Key \ {k} : i_floor'[j] = i_floor[j]
        /\ i_floor'[k] = i_floor[k] \/ i_floor'[k] = i_log[n].bound
    BY <1>0, <2>1 DEF IntakeTypes, FloorRaised
  <2>5. SUFFICES ASSUME ~i_saturated', NEW j \in Key, i_floor'[j] # 0
                 PROVE  \E i \in 1..Len(i_log) : /\ i_log[i].type = "del" /\ i_log[i].keys[1] = j
                                                 /\ i_log[i].bound = i_floor'[j] /\ Reach(i_log[i]) <= i_gen'[j]
    BY <1>2 DEF FloorOk
  <2>6. CASE j = k /\ i_floor'[k] = i_log[n].bound
    <3>1. i_gen'[k] = g
      BY <2>1, <2>5 DEF Grows
    <3> QED  BY <2>1, <2>2, <2>6, <3>1
  <2>7. CASE i_floor'[j] = i_floor[j]
    <3>1. PICK i \in 1..Len(i_log) : /\ i_log[i].type = "del" /\ i_log[i].keys[1] = j
                                     /\ i_log[i].bound = i_floor[j] /\ Reach(i_log[i]) <= i_gen[j]
      BY <1>2, <2>3, <2>5, <2>7 DEF FloorOk
    <3>2. Reach(i_log[i]) \in Nat /\ i_gen[j] \in Nat
      BY <1>0, ReachNat DEF IntakeTypes
    <3>3. Reach(i_log[i]) <= i_gen'[j]
      BY <2>3, <3>1, <3>2
    <3> QED  BY <2>7, <3>1, <3>3
  <2> QED  BY <2>4, <2>6, <2>7
<1>4. CASE Intake!DeleteKeyFails(h)
  <2>1. PICK n \in Nat, k \in Key, g \in Nat : g >= i_gen[k] /\ Grows(k, g) /\ UNCHANGED i_floor
    BY <1>0, <1>4, FailEffect
  <2> QED  BY <1>0, <1>1, <1>2, <2>1, GenerationsGrow, FloorWithin
<1>5. CASE Intake!TakeValue(h)
  <2>0. UNCHANGED i_floor
    BY <1>5 DEF Intake!TakeValue
  <2>1. CASE UNCHANGED <<i_gen, i_saturated>>
    BY <1>2, <2>0, <2>1 DEF FloorOk
  <2>2. CASE \E k \in Key, g \in Nat : g >= i_gen[k] /\ Grows(k, g)
    BY <1>0, <1>1, <1>2, <2>0, <2>2, GenerationsGrow, FloorWithin
  <2> QED  BY <1>0, <1>5, <2>1, <2>2, ValueEffect
<1> QED  BY <1>3, <1>4, <1>5

LEMMA SourcePeer ==
  ASSUME Basics, SourceOk, Intake!OneSource, UNCHANGED i_setting,
         \/ Intake!PeerRestarts \/ Intake!OriginWrite \/ \E k \in Key : Intake!PeerLoads(k)
         \/ \E id \in Intake!Id : Intake!SeenLapses(id)
  PROVE  SourceOk'
<1>0. UNCHANGED <<i_setting, i_versioned, i_gen, i_saturated, i_floor, i_log>>
  BY DEF Intake!PeerRestarts, Intake!OriginWrite, Intake!PeerLoads, Intake!SeenLapses, Intake!aside,
         Intake!peerVars
<1>1. FloorOk => FloorOk'
  BY <1>0 DEF FloorOk
<1>2. CASE Intake!OriginWrite \/ \E id \in Intake!Id : Intake!SeenLapses(id)
  <2>1. UNCHANGED i_peer
    BY <1>2 DEF Intake!OriginWrite, Intake!SeenLapses, Intake!peerVars
  <2>2. (Values' <=> Values) /\ (DeletesOnly => DeletesOnly') /\ (OrderedOk => OrderedOk')
    BY <1>0, <2>1 DEF Values, DeletesOnly, OrderedOk
  <2> QED  BY <1>1, <2>2 DEF SourceOk
<1>3. CASE Intake!PeerRestarts
  <2>1. ~Values /\ ~Values'
    BY <1>0, <1>3 DEF Intake!PeerRestarts, Values, Intake!OneSource
  <2>2. \A k \in Key : i_peer'.load[k] = 0
    BY <1>3 DEF Intake!PeerRestarts, Intake!NewPeer
  <2>3. DeletesOnly'
    BY <1>0, <2>1, <2>2 DEF SourceOk, DeletesOnly
  <2> QED  BY <2>1, <2>3 DEF SourceOk
<1>4. ASSUME NEW k \in Key, Intake!PeerLoads(k) PROVE SourceOk'
  <2>1. Values /\ Values' /\ OrderedOk /\ FloorOk
    BY <1>0, <1>4 DEF Intake!PeerLoads, Values, SourceOk
  <2>4. /\ i_peer'.gen = i_peer.gen /\ i_peer'.held = i_peer.held
        /\ i_peer'.load[k] = i_db /\ \A j \in Key \ {k} : i_peer'.load[j] = i_peer.load[j]
    BY <1>4, PeerLoadsEffect DEF PeerLoaded
  <2>5. ASSUME NEW i \in 1..Len(i_log)
        PROVE  i_log[i].type = "del" /\ i_peer'.load[i_log[i].keys[1]] # 0 =>
                 i_log[i].bound <= i_peer'.load[i_log[i].keys[1]]
    <3>1. i_log[i] \in Published /\ Len(i_log[i].keys) = 1
      BY <2>1 DEF Basics, IntakeTypes, OrderedOk
    <3>2. i_log[i].keys \in Seq(Key)
      BY <3>1 DEF Published
    <3>3. PICK j \in Key : j = i_log[i].keys[1]
      BY <3>1, <3>2
    <3>4. i_log[i].bound <= i_db
      BY DEF Basics, BoundsOk
    <3>5. i_log[i].type = "del" /\ i_peer.load[j] # 0 => i_log[i].bound <= i_peer.load[j]
      BY <2>1, <3>3 DEF OrderedOk
    <3> QED  BY <2>4, <3>3, <3>4, <3>5
  <2>6. OrderedOk'
    BY <1>0, <2>1, <2>4, <2>5 DEF OrderedOk
  <2> QED  BY <1>1, <2>1, <2>6 DEF SourceOk
<1> QED  BY <1>2, <1>3, <1>4

\* Every step keeps the types, the tasks and the bounds.
LEMMA BasicsStep ==
  ASSUME Basics, Intake!Next PROVE Basics'
<1>0. i_setting.keys \subseteq Key /\ UNCHANGED i_setting
  BY DEF Basics, IntakeTypes, Intake!Setting, Intake!Next
<1>1. ASSUME NEW h \in Runner,
             \/ \E id \in Intake!Id : Intake!Deliver(h, id)
             \/ Intake!DeleteKey(h) \/ Intake!DeleteKeyFails(h) \/ Intake!TakeValue(h)
      PROVE  Basics'
  BY <1>0, <1>1, BasicsHandlers
<1>2. ASSUME NEW k \in Key,
             \/ Intake!FillStarts(k) \/ Intake!FillLoads(k) \/ Intake!FillStores(k) \/ Intake!Delete(k)
      PROVE  Basics'
  BY <1>0, <1>2, BasicsLoads
<1>3. ASSUME NEW k \in Key, Intake!PeerDeletes(k) \/ Intake!PeerSets(k) PROVE Basics'
  BY <1>0, <1>3, PeerDeletesEffect, PeerSetsEffect, BasicsPublished
<1>4. ASSUME Intake!PeerDeletesMany PROVE Basics'
  BY <1>0, <1>4, PeerDeletesManyEffect, BasicsPublished
<1>5. ASSUME \/ Intake!PeerRestarts \/ Intake!OriginWrite \/ \E k \in Key : Intake!PeerLoads(k)
             \/ \E id \in Intake!Id : Intake!SeenLapses(id)
      PROVE  Basics'
  BY <1>0, <1>5, BasicsPeer
<1> QED  BY <1>0, <1>1, <1>2, <1>3, <1>4, <1>5 DEF Intake!Next

LEMMA IntakeStep ==
  ASSUME IntakeInv, Intake!Next PROVE IntakeInv'
<1>0. Basics /\ Basics' /\ i_setting.keys \subseteq Key /\ UNCHANGED i_setting
  BY BasicsStep DEF IntakeInv, Basics, IntakeTypes, Intake!Setting, Intake!Next
<1>1. SUFFICES ASSUME Intake!OneSource PROVE StoragesOk' /\ FreshOk' /\ SourceOk'
  <2>1. Intake!OneSource' <=> Intake!OneSource
    BY <1>0 DEF Intake!OneSource
  <2> QED  BY <1>0, <2>1 DEF IntakeInv, Basics
<1>2. StoragesOk /\ FreshOk /\ SourceOk
  BY <1>1 DEF IntakeInv
<1>3. ASSUME UNCHANGED <<i_versioned, i_gen, i_saturated, i_l1, i_fill, i_floor>>,
             \A j \in Key : Intake!Ordered(j)' => Intake!Ordered(j)
      PROVE  StoragesOk' /\ FreshOk'
  BY <1>2, <1>3 DEF StoragesOk, FreshOk
<1>4. ASSUME NEW h \in Runner,
             Intake!DeleteKey(h) \/ Intake!DeleteKeyFails(h) \/ Intake!TakeValue(h)
      PROVE  StoragesOk' /\ FreshOk' /\ SourceOk'
  BY <1>0, <1>1, <1>2, <1>4, FreshHandlers, SourceHandlers
<1>5. ASSUME NEW h \in Runner, NEW id \in Intake!Id, Intake!Deliver(h, id)
      PROVE  StoragesOk' /\ FreshOk' /\ SourceOk'
  <2>1. SameWorld /\ UNCHANGED <<i_versioned, i_gen, i_saturated, i_l1, i_fill, i_floor>>
    BY <1>0, <1>5 DEF Intake!Deliver, Intake!peerVars, SameWorld
  <2>2. (FloorOk => FloorOk') /\ \A j \in Key : Intake!Ordered(j)' => Intake!Ordered(j)
    BY <2>1 DEF SameWorld, FloorOk, Intake!Ordered
  <2> QED  BY <1>0, <1>1, <1>2, <1>3, <2>1, <2>2, SourceWithin DEF SourceOk
<1>6. ASSUME NEW k \in Key,
             \/ Intake!FillStarts(k) \/ Intake!FillLoads(k) \/ Intake!FillStores(k) \/ Intake!Delete(k)
      PROVE  StoragesOk' /\ FreshOk' /\ SourceOk'
  <2>1. StoragesOk' /\ FreshOk'
    BY <1>0, <1>2, <1>6, FreshLoads
  <2>2. SameWorld
    BY <1>0, <1>6 DEF Intake!FillStarts, Intake!FillLoads, Intake!FillStores, Intake!Delete,
                      Intake!peerVars, SameWorld
  <2>3. Values => FloorOk'
    <3>1. SUFFICES ASSUME Values PROVE FloorOk'
      OBVIOUS
    <3>2. ~Intake!Delete(k)
      BY <1>1, <3>1 DEF Intake!Delete, Intake!OneSource, Values
    <3>3. UNCHANGED <<i_gen, i_saturated, i_floor, i_log>>
      BY <1>6, <3>2 DEF Intake!FillStarts, Intake!FillLoads, Intake!FillStores, Intake!peerVars
    <3> QED  BY <1>2, <3>1, <3>3 DEF SourceOk, FloorOk
  <2> QED  BY <1>0, <1>1, <1>2, <2>1, <2>2, <2>3, SourceWithin
<1>7. ASSUME SameProcess, NEW e \in Published, NEW k \in Key, Publishes(e), PeerEvent(e, k)
      PROVE  StoragesOk' /\ FreshOk' /\ SourceOk'
  <2>0. ASSUME NEW j \in Key, Intake!Ordered(j)' PROVE Intake!Ordered(j)
    <3>1. i_log \in Seq(Published) /\ i_log' = Append(i_log, e)
      BY <1>0, <1>7 DEF Basics, IntakeTypes, Publishes
    <3>2. /\ Len(i_log') = Len(i_log) + 1 /\ Len(i_log) \in Nat
          /\ \A i \in 1..Len(i_log) : i_log'[i] = i_log[i]
      BY <3>1, AppendPlaces
    <3>3. \A i \in 1..Len(i_log) : i \in 1..Len(i_log')
      BY <3>2
    <3> QED  BY <2>0, <3>2, <3>3 DEF Intake!Ordered
  <2>1. StoragesOk' /\ FreshOk'
    BY <1>3, <1>7, <2>0 DEF SameProcess
  <2>2. SourceOk'
    BY <1>0, <1>1, <1>2, <1>7, SourcePublishes
  <2> QED  BY <2>1, <2>2
<1>8. ASSUME NEW k \in Key, Intake!PeerDeletes(k) \/ Intake!PeerSets(k)
      PROVE  StoragesOk' /\ FreshOk' /\ SourceOk'
  BY <1>0, <1>7, <1>8, PeerDeletesEffect, PeerSetsEffect
<1>9. ASSUME Intake!PeerDeletesMany PROVE StoragesOk' /\ FreshOk' /\ SourceOk'
  BY <1>0, <1>7, <1>9, PeerDeletesManyEffect
<1>10. ASSUME \/ Intake!PeerRestarts \/ Intake!OriginWrite \/ \E k \in Key : Intake!PeerLoads(k)
              \/ \E id \in Intake!Id : Intake!SeenLapses(id)
       PROVE  StoragesOk' /\ FreshOk' /\ SourceOk'
  <2>1. UNCHANGED <<i_versioned, i_gen, i_saturated, i_l1, i_fill, i_floor, i_log>>
    BY <1>10 DEF Intake!PeerRestarts, Intake!OriginWrite, Intake!PeerLoads, Intake!SeenLapses,
                 Intake!aside, Intake!peerVars
  <2>2. \A j \in Key : Intake!Ordered(j)' => Intake!Ordered(j)
    BY <2>1 DEF Intake!Ordered
  <2> QED  BY <1>0, <1>1, <1>2, <1>3, <1>10, <2>1, <2>2, SourcePeer
<1> QED  BY <1>0, <1>4, <1>5, <1>6, <1>8, <1>9, <1>10 DEF Intake!Next

-----------------------------------------------------------------------------
(* HandledMeansApplied *)

\* delete() on the map of ids that are remembered.
LEMMA WithoutLeaves ==
  ASSUME NEW s \in Seq(Nat), Distinct(s), NEW id
  PROVE  /\ Intake!Without(s, id) \in Seq(Nat) /\ Distinct(Intake!Without(s, id))
         /\ Members(Intake!Without(s, id)) = Members(s) \ {id}
<1>1. CASE \E i \in 1..Len(s) : s[i] = id
  <2>1. PICK p \in 1..Len(s) : p = Intake!IndexOf(s, id) /\ s[p] = id
    BY <1>1 DEF Intake!IndexOf
  <2>2. Intake!Without(s, id) = Removed(s, p)
    BY <1>1, <2>1 DEF Intake!Without, Removed
  <2>3. Removed(s, p) \in Seq(Nat)
    BY RemovedPlaces
  <2>4. Distinct(Removed(s, p)) /\ Members(Removed(s, p)) = Members(s) \ {s[p]}
    BY RemovedLeaves
  <2> QED  BY <2>1, <2>2, <2>3, <2>4
<1>2. CASE ~\E i \in 1..Len(s) : s[i] = id
  <2>1. Intake!Without(s, id) = s
    BY <1>2 DEF Intake!Without
  <2>2. id \notin Members(s)
    BY <1>2 DEF Members
  <2> QED  BY <2>1, <2>2
<1> QED  BY <1>1, <1>2

\* Appending an id that is not there.
LEMMA AppendLeaves ==
  ASSUME NEW s \in Seq(Nat), Distinct(s), NEW id \in Nat, id \notin Members(s)
  PROVE  /\ Append(s, id) \in Seq(Nat) /\ Distinct(Append(s, id))
         /\ Members(Append(s, id)) = Members(s) \cup {id}
<1> DEFINE t == Append(s, id)
<1>1. /\ t \in Seq(Nat) /\ Len(t) = Len(s) + 1 /\ Len(s) \in Nat
      /\ \A i \in 1..Len(s) : t[i] = s[i]
      /\ t[Len(s) + 1] = id
      /\ \A i \in 1..Len(t) : i \in 1..Len(s) \/ i = Len(s) + 1
      /\ \A i \in 1..Len(s) : i \in 1..Len(t)
      /\ Len(s) + 1 \in 1..Len(t)
  BY AppendPlaces
<1> HIDE DEF t
<1>2. \A i \in 1..Len(s) : s[i] # id
  BY DEF Members
<1>3. Distinct(t)
  BY <1>1, <1>2 DEF Distinct
<1>4. Members(t) = Members(s) \cup {id}
  BY <1>1 DEF Members
<1> QED  BY <1>1, <1>3, <1>4 DEF t

\* markEventSeen remembers no other id than this one, and none twice.
LEMMA SeenMarked ==
  ASSUME IntakeTypes, i_seen \in Seq(Nat), Distinct(i_seen), NEW id \in Nat, Intake!MarkSeen(id)
  PROVE  /\ i_seen' \in Seq(Nat) /\ Distinct(i_seen)'
         /\ Members(i_seen)' \subseteq Members(i_seen) \cup {id}
         /\ i_lapsed' = i_lapsed \ {id}
<1> DEFINE others == Intake!Without(i_seen, id)
           recent == IF Len(others) >= i_setting.maxSeen THEN Tail(others) ELSE others
<1>1. others \in Seq(Nat) /\ Distinct(others) /\ Members(others) = Members(i_seen) \ {id}
  BY WithoutLeaves
<1>2. i_setting.maxSeen \in Nat
  BY DEF IntakeTypes, Intake!Setting
<1>3. i_lapsed' = i_lapsed \ {id}
  BY DEF Intake!MarkSeen
<1>4. \/ i_seen' = others
      \/ i_setting.maxSeen # 0 /\ (i_seen' = recent \/ i_seen' = Append(recent, id))
  BY DEF Intake!MarkSeen
<1> HIDE DEF others
<1>5. ASSUME i_setting.maxSeen # 0
      PROVE  recent \in Seq(Nat) /\ Distinct(recent) /\ Members(recent) \subseteq Members(others)
  <2>1. CASE Len(others) >= i_setting.maxSeen
    <3>1. others # <<>>
      BY <1>1, <1>2, <1>5, <2>1
    <3> QED  BY <1>1, <2>1, <3>1, TailLeaves
  <2>2. CASE ~(Len(others) >= i_setting.maxSeen)
    BY <1>1, <2>2
  <2> QED  BY <2>1, <2>2
<1> HIDE DEF recent
<1>6. CASE i_seen' = others
  BY <1>1, <1>3, <1>6
<1>7. CASE i_setting.maxSeen # 0 /\ i_seen' = recent
  BY <1>1, <1>3, <1>5, <1>7
<1>8. CASE i_setting.maxSeen # 0 /\ i_seen' = Append(recent, id)
  <2>1. id \notin Members(recent)
    BY <1>1, <1>5, <1>8
  <2>2. /\ i_seen' \in Seq(Nat) /\ Distinct(i_seen') /\ Members(i_seen') = Members(recent) \cup {id}
    BY <1>5, <1>8, <2>1, AppendLeaves
  <2> QED  BY <1>1, <1>3, <1>5, <1>8, <2>2
<1> QED  BY <1>4, <1>6, <1>7, <1>8

\* Floors and the log only grow.
FloorsGrow == \A k \in Key : i_floor'[k] >= i_floor[k]
LogGrows == \A i \in 1..Len(i_log) : i \in 1..Len(i_log') /\ i_log'[i] = i_log[i]

\* What was applied stays applied.
LEMMA StaysApplied ==
  ASSUME IntakeTypes, IntakeTypes', FloorsGrow, LogGrows, NEW id \in 1..Len(i_log), NEW n \in Nat,
         n <= Len(i_log[id].keys), AppliedTo(id, n)
  PROVE  AppliedTo(id, n)'
<1>1. i_log[id] \in Published /\ i_log'[id] = i_log[id]
  <2>1. i_log \in Seq(Published)
    BY DEF IntakeTypes
  <2> QED  BY <2>1 DEF LogGrows
<1>2. i_log[id].keys \in Seq(Key) /\ i_log[id].bound \in Nat
  BY <1>1 DEF Published
<1>3. SUFFICES ASSUME i_log[id].type = "del", NEW i \in 1..n
               PROVE  i_floor'[i_log[id].keys[i]] >= i_log[id].bound
  BY <1>1 DEF AppliedTo
<1>4. PICK k \in Key : k = i_log[id].keys[i]
  BY <1>2, <1>3
<1>5. i_floor[k] >= i_log[id].bound /\ i_floor'[k] >= i_floor[k] /\ i_floor[k] \in Nat /\ i_floor'[k] \in Nat
  BY <1>3, <1>4 DEF AppliedTo, FloorsGrow, IntakeTypes
<1> QED  BY <1>2, <1>4, <1>5

LEMMA EventStaysApplied ==
  ASSUME IntakeTypes, IntakeTypes', FloorsGrow, LogGrows, NEW id \in 1..Len(i_log), Applied(id)
  PROVE  Applied(id)'
<1>1. i_log[id] \in Published /\ i_log'[id] = i_log[id]
  <2>1. i_log \in Seq(Published)
    BY DEF IntakeTypes
  <2> QED  BY <2>1 DEF LogGrows
<1>2. PICK n \in Nat : n = Len(i_log[id].keys)
  BY <1>1 DEF Published
<1>3. AppliedTo(id, n)
  BY <1>2 DEF Applied
<1>4. AppliedTo(id, n)'
  BY <1>2, <1>3, StaysApplied
<1>5. n = Len(i_log'[id].keys)
  BY <1>1, <1>2
<1> QED  BY <1>4, <1>5 DEF Applied

\* Steps that touch neither the handler nor what is remembered, but for ids that lapse.
LEMMA SeenAside ==
  ASSUME Basics, Basics', SeenOk, FloorsGrow, LogGrows,
         UNCHANGED <<i_seen, i_task, i_handled>>, i_lapsed \subseteq i_lapsed'
  PROVE  SeenOk'
<1>0. IntakeTypes /\ IntakeTypes' /\ TasksOk
  BY DEF Basics
<1>1. \A i \in 1..Len(i_log) : i \in 1..Len(i_log')
  BY DEF LogGrows
<1>2. i_seen' \in Seq(Nat) /\ Distinct(i_seen)' /\ Members(i_seen)' \subseteq 1..Len(i_log')
  BY <1>1 DEF SeenOk, Members, Distinct
<1>3. i_handled' \subseteq 1..Len(i_log')
  BY <1>1 DEF SeenOk
<1>4. ASSUME NEW id \in i_handled' PROVE Applied(id)'
  BY <1>0, <1>4, EventStaysApplied DEF SeenOk
<1>5. ASSUME NEW id \in Members(i_seen)' \ i_lapsed'
      PROVE  Applied(id)' \/ \E h \in Runner : i_task'[h].event = id
  <2>1. id \in Members(i_seen) \ i_lapsed /\ id \in 1..Len(i_log)
    BY <1>5 DEF SeenOk, Members
  <2>2. Applied(id) \/ \E h \in Runner : i_task[h].event = id
    BY <2>1 DEF SeenOk
  <2>3. Applied(id) => Applied(id)'
    BY <1>0, <2>1, EventStaysApplied
  <2> QED  BY <2>2, <2>3
<1>6. ASSUME NEW h \in Runner, i_task'[h].event # NoEvent
      PROVE  AppliedTo(i_task[h].event, i_task[h].done)'
  <2>1. i_task'[h] = i_task[h]
    OBVIOUS
  <2>2. i_task[h].event \in 1..Len(i_log) /\ i_task[h].done < Len(i_log[i_task[h].event].keys)
    BY <1>0, <1>6, <2>1 DEF TasksOk
  <2>3. PICK id \in 1..Len(i_log), n \in Nat : id = i_task[h].event /\ n = i_task[h].done
    BY <1>0, <2>2 DEF IntakeTypes
  <2>4. i_log[id] \in Published
    BY <1>0 DEF IntakeTypes
  <2>5. Len(i_log[id].keys) \in Nat
    BY <2>4 DEF Published
  <2>6. n <= Len(i_log[id].keys) /\ AppliedTo(id, n)
    BY <1>6, <2>1, <2>2, <2>3, <2>5 DEF SeenOk
  <2>7. AppliedTo(id, n)'
    BY <1>0, <2>6, StaysApplied
  <2> QED  BY <2>1, <2>3, <2>7
<1> QED  BY <1>2, <1>3, <1>4, <1>5, <1>6 DEF SeenOk

\* One handler: it takes another event, or it is free.
LEMMA SeenHandler ==
  ASSUME Basics, Basics', SeenOk, FloorsGrow, UNCHANGED i_log,
         NEW h \in Runner, \A g \in Runner : g = h,
         i_seen' \in Seq(Nat), Distinct(i_seen)', Members(i_seen)' \subseteq 1..Len(i_log),
         NEW done \in SUBSET (1..Len(i_log)), i_handled' \subseteq i_handled \cup done,
         \A id \in done : Applied(id)',
         \A id \in Members(i_seen)' \ i_lapsed' :
           id = i_task'[h].event \/ Applied(id)' \/ (id \in 1..Len(i_log) /\ Applied(id)),
         NEW t, t = i_task'[h], t.event # NoEvent => AppliedTo(t.event, t.done)'
  PROVE  SeenOk'
<1>0. IntakeTypes /\ IntakeTypes' /\ LogGrows
  BY DEF Basics, LogGrows
<1>1. \A id \in 1..Len(i_log) : Applied(id) => Applied(id)'
  BY <1>0, EventStaysApplied
<1>2. i_handled' \subseteq 1..Len(i_log') /\ \A id \in i_handled' : Applied(id)'
  BY <1>1 DEF SeenOk
<1>3. ASSUME NEW id \in Members(i_seen)' \ i_lapsed'
      PROVE  Applied(id)' \/ \E g \in Runner : i_task'[g].event = id
  BY <1>1, <1>3
<1>4. ASSUME NEW g \in Runner, i_task'[g].event # NoEvent
      PROVE  AppliedTo(i_task[g].event, i_task[g].done)'
  <2>1. g = h /\ i_task'[g] = t
    OBVIOUS
  <2>2. PICK id, n : id = t.event /\ n = t.done
    OBVIOUS
  <2>3. AppliedTo(id, n)'
    BY <1>4, <2>1, <2>2
  <2> QED  BY <2>1, <2>2, <2>3
<1> QED  BY <1>2, <1>3, <1>4 DEF SeenOk

LEMMA SeenDeliver ==
  ASSUME Basics, Basics', SeenOk, NEW h \in Runner, \A g \in Runner : g = h, NEW id \in Intake!Id,
         Intake!Deliver(h, id)
  PROVE  SeenOk'
<1>0. IntakeTypes /\ IntakeTypes' /\ UNCHANGED <<i_log, i_floor>> /\ id \in 1..Len(i_log)
  BY DEF Basics, Intake!Deliver, Intake!peerVars
<1>1. FloorsGrow /\ LogGrows
  BY <1>0 DEF FloorsGrow, LogGrows, IntakeTypes
<1>2. i_task \in [Runner -> [event : Nat \cup {NoEvent}, done : Nat]] /\ id \in Nat
  BY <1>0 DEF IntakeTypes
<1>3. i_task[h].event = NoEvent
  BY DEF Intake!Deliver, Intake!Free
<1>4. \A x \in Members(i_seen) \ i_lapsed : x \in 1..Len(i_log) /\ Applied(x)
  BY <1>0, <1>3, IntakeConstants DEF SeenOk
<1>5. CASE Intake!HasSeen(id)
  <2>1. /\ i_task' = [i_task EXCEPT ![h] = Intake!Free] /\ i_handled' = i_handled \cup {id}
        /\ UNCHANGED <<i_seen, i_lapsed>>
    BY <1>5 DEF Intake!Deliver, Intake!Finished
  <2>2. id \in Members(i_seen) \ i_lapsed
    BY <1>5 DEF Intake!HasSeen, Intake!Ids, Members
  <2>3. Applied(id)'
    BY <1>0, <1>1, <1>4, <2>2, EventStaysApplied
  <2>4. i_task'[h] = Intake!Free /\ Intake!Free.event = NoEvent
    BY <1>2, <2>1 DEF Intake!Free
  <2>5. PICK t : t = i_task'[h] /\ t.event = NoEvent
    BY <2>4
  <2>6. /\ i_seen' \in Seq(Nat) /\ Distinct(i_seen)' /\ Members(i_seen)' \subseteq 1..Len(i_log)
        /\ \A x \in Members(i_seen)' \ i_lapsed' : x \in 1..Len(i_log) /\ Applied(x)
    BY <1>4, <2>1 DEF SeenOk, Members, Distinct
  <2>7. {id} \in SUBSET (1..Len(i_log)) /\ \A x \in {id} : Applied(x)'
    BY <1>0, <2>3
  <2> QED  BY <1>0, <1>1, <2>1, <2>5, <2>6, <2>7, SeenHandler
<1>6. CASE ~Intake!HasSeen(id)
  <2>1. /\ Intake!MarkSeen(id) /\ UNCHANGED i_handled
        /\ i_task' = [i_task EXCEPT ![h] = [event |-> id, done |-> 0]]
    BY <1>6 DEF Intake!Deliver
  <2>2. /\ i_seen' \in Seq(Nat) /\ Distinct(i_seen)'
        /\ Members(i_seen)' \subseteq Members(i_seen) \cup {id} /\ i_lapsed' = i_lapsed \ {id}
    BY <1>0, <1>2, <2>1, SeenMarked DEF SeenOk
  <2>3. PICK t : t = [event |-> id, done |-> 0]
    OBVIOUS
  <2>4. i_task'[h] = t /\ t.event = id /\ t.done = 0
    BY <1>2, <2>1, <2>3
  <2>5. AppliedTo(t.event, t.done)'
    <3>1. AppliedTo(id, 0)'
      BY DEF AppliedTo
    <3> QED  BY <2>4, <3>1
  <2>6. \A x \in Members(i_seen)' \ i_lapsed' :
          x = i_task'[h].event \/ (x \in 1..Len(i_log) /\ Applied(x))
    BY <1>4, <2>2, <2>4
  <2>7. Members(i_seen)' \subseteq 1..Len(i_log)
    BY <1>0, <2>2 DEF SeenOk
  <2>8. {} \in SUBSET (1..Len(i_log)) /\ i_handled' \subseteq i_handled \cup {} /\ \A x \in {} : Applied(x)'
    BY <2>1
  <2> QED  BY <1>0, <1>1, <2>2, <2>4, <2>5, <2>6, <2>7, <2>8, SeenHandler
<1> QED  BY <1>5, <1>6

\* What makes a delivery a duplicate while h is at event n: n itself, or an event that was
\* applied.
LEMMA SeenWhileBusy ==
  ASSUME SeenOk, NEW h \in Runner, \A g \in Runner : g = h, NEW n, n = i_task[h].event
  PROVE  \A x \in Members(i_seen) \ i_lapsed : x = n \/ (x \in 1..Len(i_log) /\ Applied(x))
BY DEF SeenOk

LEMMA SeenDeleteKey ==
  ASSUME Basics, Basics', SeenOk, NEW h \in Runner, \A g \in Runner : g = h, Intake!DeleteKey(h)
  PROVE  SeenOk'
<1>0. IntakeTypes /\ IntakeTypes' /\ TasksOk /\ UNCHANGED <<i_log, i_seen, i_lapsed>>
  BY DEF Basics, Intake!DeleteKey, Intake!peerVars
<1>1. PICK n \in Nat, k \in Key, g \in Nat :
         /\ AtKey(h, n, k) /\ i_log[n].type = "del"
         /\ FloorRaised(k, n)
  BY <1>0, DeleteEffect
<1>2. i_floor \in [Key -> Nat] /\ i_log[n].bound \in Nat
  BY <1>0, <1>1 DEF IntakeTypes, AtKey, Published
<1>3. FloorsGrow /\ LogGrows /\ i_floor'[k] >= i_log[n].bound
  BY <1>0, <1>1, <1>2 DEF FloorsGrow, LogGrows, FloorRaised
<1>4. PICK d \in Nat : d = i_task[h].done
  BY <1>0, SMTT(60) DEF IntakeTypes
<1>5. /\ n = i_task[h].event /\ n \in 1..Len(i_log) /\ d + 1 \in 1..Len(i_log[n].keys)
      /\ k = i_log[n].keys[d + 1] /\ Len(i_log[n].keys) \in Nat
  BY <1>1, <1>4 DEF AtKey, Published
<1>6. AppliedTo(n, d + 1)'
  <2>1. n # NoEvent
    BY IntakeConstants
  <2>2. AppliedTo(n, d)
    BY <1>4, <1>5, <2>1 DEF SeenOk
  <2>3. AppliedTo(n, d)'
    BY <1>0, <1>3, <1>5, <2>2, StaysApplied
  <2>4. \A i \in 1..(d + 1) : i \in 1..d \/ i = d + 1
    OBVIOUS
  <2> QED  BY <1>0, <1>3, <1>5, <2>3, <2>4 DEF AppliedTo
<1>7. /\ i_seen' \in Seq(Nat) /\ Distinct(i_seen)' /\ Members(i_seen)' \subseteq 1..Len(i_log)
      /\ \A x \in Members(i_seen)' \ i_lapsed' : x = n \/ (x \in 1..Len(i_log) /\ Applied(x))
  <2>1. \A x \in Members(i_seen) \ i_lapsed : x = n \/ (x \in 1..Len(i_log) /\ Applied(x))
    BY <1>5, SeenWhileBusy
  <2> QED  BY <1>0, <2>1 DEF SeenOk, Members, Distinct
<1>8. i_task \in [Runner -> [event : Nat \cup {NoEvent}, done : Nat]]
  BY <1>0 DEF IntakeTypes
<1>9. Intake!Current(h) = i_log[n]
  BY <1>5 DEF Intake!Current
<1>10. CASE i_task[h].done + 1 < Len(Intake!Current(h).keys)
  <2>1. i_task' = [i_task EXCEPT ![h].done = @ + 1] /\ UNCHANGED i_handled
    BY <1>10 DEF Intake!DeleteKey
  <2>2. PICK t : t = [i_task[h] EXCEPT !.done = @ + 1]
    OBVIOUS
  <2>3. i_task'[h] = t /\ t.event = n /\ t.done = d + 1
    BY <1>4, <1>5, <1>8, <2>1, <2>2
  <2>4. AppliedTo(t.event, t.done)'
    BY <1>6, <2>3
  <2>5. {} \in SUBSET (1..Len(i_log)) /\ i_handled' \subseteq i_handled \cup {} /\ \A x \in {} : Applied(x)'
    BY <2>1
  <2>6. \A x \in Members(i_seen)' \ i_lapsed' : x = i_task'[h].event \/ (x \in 1..Len(i_log) /\ Applied(x))
    BY <1>7, <2>3
  <2> QED  BY <1>0, <1>3, <1>7, <2>3, <2>4, <2>5, <2>6, SeenHandler
<1>11. CASE ~(i_task[h].done + 1 < Len(Intake!Current(h).keys))
  <2>1. i_task' = [i_task EXCEPT ![h] = Intake!Free] /\ i_handled' = i_handled \cup {n}
    BY <1>5, <1>11 DEF Intake!DeleteKey, Intake!Finished
  <2>2. i_task'[h] = Intake!Free /\ Intake!Free.event = NoEvent
    BY <1>8, <2>1 DEF Intake!Free
  <2>3. PICK t : t = i_task'[h] /\ t.event = NoEvent
    BY <2>2
  <2>4. d + 1 = Len(i_log[n].keys)
    BY <1>4, <1>5, <1>9, <1>11
  <2>5. Applied(n)'
    BY <1>0, <1>6, <2>4 DEF Applied
  <2>6. {n} \in SUBSET (1..Len(i_log)) /\ \A x \in {n} : Applied(x)'
    BY <1>5, <2>5
  <2>7. \A x \in Members(i_seen)' \ i_lapsed' : Applied(x)' \/ (x \in 1..Len(i_log) /\ Applied(x))
    BY <1>7, <2>5
  <2> QED  BY <1>0, <1>3, <1>7, <2>1, <2>3, <2>6, <2>7, SeenHandler
<1> QED  BY <1>10, <1>11

LEMMA SeenDeleteFails ==
  ASSUME Basics, Basics', SeenOk, NEW h \in Runner, \A g \in Runner : g = h, Intake!DeleteKeyFails(h)
  PROVE  SeenOk'
<1>0. /\ IntakeTypes /\ IntakeTypes' /\ TasksOk /\ UNCHANGED <<i_log, i_floor, i_handled>>
      /\ i_task \in [Runner -> [event : Nat \cup {NoEvent}, done : Nat]]
  BY DEF Basics, IntakeTypes, Intake!DeleteKeyFails, Intake!peerVars
<1>1. FloorsGrow /\ LogGrows
  BY <1>0 DEF FloorsGrow, LogGrows, IntakeTypes
<1>2. PICK n : n = i_task[h].event
  OBVIOUS
<1>3. /\ i_seen' = Intake!Without(i_seen, n) /\ i_lapsed' = i_lapsed \ {n}
      /\ i_task' = [i_task EXCEPT ![h] = Intake!Free]
  BY <1>2 DEF Intake!DeleteKeyFails
<1>4. i_seen' \in Seq(Nat) /\ Distinct(i_seen)' /\ Members(i_seen)' = Members(i_seen) \ {n}
  BY <1>3, WithoutLeaves DEF SeenOk
<1>5. \A x \in Members(i_seen)' \ i_lapsed' : x \in 1..Len(i_log) /\ Applied(x)
  BY <1>2, <1>3, <1>4, SeenWhileBusy
<1>6. PICK t : t = i_task'[h] /\ t.event = NoEvent
  <2>1. i_task'[h] = Intake!Free /\ Intake!Free.event = NoEvent
    BY <1>0, <1>3 DEF Intake!Free
  <2> QED  BY <2>1
<1>7. {} \in SUBSET (1..Len(i_log)) /\ i_handled' \subseteq i_handled \cup {} /\ \A x \in {} : Applied(x)'
  BY <1>0
<1>8. Members(i_seen)' \subseteq 1..Len(i_log)
  BY <1>4 DEF SeenOk
<1> QED  BY <1>0, <1>1, <1>4, <1>5, <1>6, <1>7, <1>8, SeenHandler

LEMMA SeenTakeValue ==
  ASSUME Basics, Basics', SeenOk, NEW h \in Runner, \A g \in Runner : g = h, Intake!TakeValue(h)
  PROVE  SeenOk'
<1>0. /\ IntakeTypes /\ IntakeTypes' /\ TasksOk /\ UNCHANGED <<i_log, i_floor, i_seen, i_lapsed>>
      /\ i_task \in [Runner -> [event : Nat \cup {NoEvent}, done : Nat]]
  BY DEF Basics, IntakeTypes, Intake!TakeValue, Intake!peerVars
<1>1. FloorsGrow /\ LogGrows
  BY <1>0 DEF FloorsGrow, LogGrows, IntakeTypes
<1>2. i_task[h].event # NoEvent /\ Intake!Current(h).type = "set"
  BY DEF Intake!TakeValue, Intake!Handling
<1>3. PICK n \in 1..Len(i_log) : n = i_task[h].event
  BY <1>0, <1>2 DEF TasksOk
<1>4. i_task' = [i_task EXCEPT ![h] = Intake!Free] /\ i_handled' = i_handled \cup {n}
  BY <1>3 DEF Intake!TakeValue, Intake!Finished
<1>5. i_log[n].type = "set"
  BY <1>2, <1>3 DEF Intake!Current
<1>6. Applied(n)'
  BY <1>0, <1>5 DEF Applied, AppliedTo
<1>7. {n} \in SUBSET (1..Len(i_log)) /\ \A x \in {n} : Applied(x)'
  BY <1>6
<1>8. PICK t : t = i_task'[h] /\ t.event = NoEvent
  <2>1. i_task'[h] = Intake!Free /\ Intake!Free.event = NoEvent
    BY <1>0, <1>4 DEF Intake!Free
  <2> QED  BY <2>1
<1>9. /\ i_seen' \in Seq(Nat) /\ Distinct(i_seen)' /\ Members(i_seen)' \subseteq 1..Len(i_log)
      /\ \A x \in Members(i_seen)' \ i_lapsed' : Applied(x)' \/ (x \in 1..Len(i_log) /\ Applied(x))
  <2>1. \A x \in Members(i_seen) \ i_lapsed : x = n \/ (x \in 1..Len(i_log) /\ Applied(x))
    BY <1>3, SeenWhileBusy
  <2>2. i_seen' = i_seen /\ i_lapsed' = i_lapsed
    BY <1>0
  <2> QED  BY <1>6, <2>1, <2>2 DEF SeenOk, Members, Distinct
<1> QED  BY <1>0, <1>1, <1>4, <1>7, <1>8, <1>9, SeenHandler

LEMMA SerialStep ==
  ASSUME SerialInv, Intake!Next PROVE SerialInv'
<1>0. /\ Basics /\ Basics' /\ i_setting.keys \subseteq Key /\ UNCHANGED i_setting
      /\ IntakeTypes /\ IntakeTypes'
  BY BasicsStep DEF SerialInv, Basics, IntakeTypes, Intake!Setting, Intake!Next
<1>1. SUFFICES ASSUME Intake!Serial PROVE SeenOk'
  BY <1>0 DEF SerialInv, Basics, Intake!Serial
<1>2. SeenOk /\ \A g, h \in Runner : g = h
  BY <1>1 DEF SerialInv, Intake!Serial
<1>3. ASSUME NEW h \in Runner, NEW id \in Intake!Id, Intake!Deliver(h, id) PROVE SeenOk'
  BY <1>0, <1>2, <1>3, SeenDeliver
<1>4. ASSUME NEW h \in Runner, Intake!DeleteKey(h) \/ Intake!DeleteKeyFails(h) \/ Intake!TakeValue(h)
      PROVE  SeenOk'
  BY <1>0, <1>2, <1>4, SeenDeleteKey, SeenDeleteFails, SeenTakeValue
<1>5. ASSUME NEW k \in Key,
             \/ Intake!FillStarts(k) \/ Intake!FillLoads(k) \/ Intake!FillStores(k) \/ Intake!Delete(k)
      PROVE  SeenOk'
  <2>1. UNCHANGED <<i_seen, i_task, i_handled, i_lapsed, i_log>>
    BY <1>5 DEF Intake!FillStarts, Intake!FillLoads, Intake!FillStores, Intake!Delete, Intake!peerVars
  <2>2. i_floor' = i_floor \/ i_floor' = [i_floor EXCEPT ![k] = i_db]
    BY <1>5 DEF Intake!FillStarts, Intake!FillLoads, Intake!FillStores, Intake!Delete
  <2>3. i_floor \in [Key -> Nat] /\ i_db \in Nat /\ i_floor[k] <= i_db
    BY <1>0 DEF Basics, IntakeTypes, BoundsOk
  <2>4. FloorsGrow
    BY <2>2, <2>3 DEF FloorsGrow
  <2>5. LogGrows /\ i_lapsed \subseteq i_lapsed'
    BY <2>1 DEF LogGrows
  <2> QED  BY <1>0, <1>2, <2>1, <2>4, <2>5, SeenAside
<1>6. ASSUME SameProcess, NEW e \in Published, Publishes(e) PROVE SeenOk'
  <2>1. LogGrows
    <3>1. i_log \in Seq(Published) /\ i_log' = Append(i_log, e)
      BY <1>0, <1>6 DEF IntakeTypes, Publishes
    <3>2. /\ Len(i_log') = Len(i_log) + 1 /\ Len(i_log) \in Nat
          /\ \A i \in 1..Len(i_log) : i_log'[i] = i_log[i]
      BY <3>1, AppendPlaces
    <3> QED  BY <3>2 DEF LogGrows
  <2>2. FloorsGrow /\ UNCHANGED <<i_seen, i_task, i_handled>> /\ i_lapsed \subseteq i_lapsed'
    BY <1>0, <1>6 DEF SameProcess, FloorsGrow, IntakeTypes
  <2> QED  BY <1>0, <1>2, <2>1, <2>2, SeenAside
<1>7. ASSUME NEW k \in Key, Intake!PeerDeletes(k) \/ Intake!PeerSets(k) PROVE SeenOk'
  BY <1>0, <1>6, <1>7, PeerDeletesEffect, PeerSetsEffect
<1>8. ASSUME Intake!PeerDeletesMany PROVE SeenOk'
  BY <1>0, <1>6, <1>8, PeerDeletesManyEffect
<1>9. ASSUME \/ Intake!PeerRestarts \/ Intake!OriginWrite \/ \E k \in Key : Intake!PeerLoads(k)
             \/ \E id \in Intake!Id : Intake!SeenLapses(id)
      PROVE  SeenOk'
  <2>1. UNCHANGED <<i_seen, i_task, i_handled, i_log, i_floor>> /\ i_lapsed \subseteq i_lapsed'
    BY <1>9 DEF Intake!PeerRestarts, Intake!OriginWrite, Intake!PeerLoads, Intake!SeenLapses,
                 Intake!aside, Intake!peerVars
  <2>2. FloorsGrow /\ LogGrows
    BY <1>0, <2>1 DEF FloorsGrow, LogGrows, IntakeTypes
  <2> QED  BY <1>0, <1>2, <2>1, <2>2, SeenAside
<1> QED  BY <1>0, <1>3, <1>4, <1>5, <1>7, <1>8, <1>9 DEF Intake!Next

-----------------------------------------------------------------------------
(* The receiving end *)

LEMMA IntakeInvariant == Spec => [](IntakeInv /\ SerialInv)
<1>1. Init => IntakeInv /\ SerialInv
  BY IntakeInit DEF Init
<1>2. (IntakeInv /\ SerialInv) /\ [Next]_vars => (IntakeInv /\ SerialInv)'
  <2> SUFFICES ASSUME IntakeInv, SerialInv, [Next]_vars PROVE IntakeInv' /\ SerialInv'
    OBVIOUS
  <2>1. Intake!Next \/ UNCHANGED <<i_setting, iVars>>
    BY DEF Next, vars, settings
  <2>2. CASE Intake!Next
    BY <2>2, IntakeStep, SerialStep
  <2>3. CASE UNCHANGED <<i_setting, iVars>>
    <3>1. IntakeTypes' /\ TasksOk' /\ BoundsOk'
      BY <2>3 DEF IntakeInv, iVars, IntakeTypes, TasksOk, BoundsOk
    <3>2. (Intake!OneSource => StoragesOk /\ FreshOk /\ SourceOk)'
      BY <2>3 DEF IntakeInv, iVars, Intake!OneSource, StoragesOk, FreshOk, SourceOk, Values,
                  DeletesOnly, OrderedOk, FloorOk, Reach, Intake!Ordered
    <3>3. (Intake!Serial => SeenOk)'
      <4>1. /\ i_seen' = i_seen /\ i_task' = i_task /\ i_handled' = i_handled /\ i_lapsed' = i_lapsed
            /\ i_log' = i_log /\ i_floor' = i_floor
        BY <2>3 DEF iVars
      <4>2. SeenOk => SeenOk'
        BY <4>1 DEF SeenOk, Applied, AppliedTo, Members, Distinct
      <4> QED  BY <4>2 DEF SerialInv, Intake!Serial
    <3> QED  BY <3>1, <3>2, <3>3 DEF IntakeInv, SerialInv
  <2> QED  BY <2>1, <2>2, <2>3
<1> QED  BY <1>1, <1>2, PTL DEF Spec

(***************************************************************************)
(* For any number of keys, handlers, events and versions and any limits of   *)
(* the ids and counters that are kept: once a delete has evicted a key, no   *)
(* value from before it is read from L1 again, however late, how often and   *)
(* in which order the events arrive.  When values travel they come from one  *)
(* peer that is not restarted and may be saturated; a key of which a         *)
(* saturated peer published a value without a generation is left out.        *)
(***************************************************************************)
THEOREM DeleteAlwaysWins == Spec => []DeleteWins
<1>1. IntakeInv => DeleteWins
  <2>1. SUFFICES ASSUME IntakeInv, Intake!OneSource, NEW k \in Key, Intake!Ordered(k),
                        NEW x \in Intake!Visible(k)
                 PROVE  x.version >= i_floor[k]
    BY DEF DeleteWins, Intake!DeleteWins
  <2>2. /\ x \in i_l1[k] /\ (~i_versioned \/ ~i_saturated)
        /\ x.storage = IF i_versioned THEN i_gen[k] ELSE 0
    BY DEF Intake!Visible, Intake!VersionedCacheSafe, Intake!StorageKey
  <2>3. FreshOk
    BY <2>1 DEF IntakeInv
  <2> QED  BY <2>1, <2>2, <2>3 DEF FreshOk
<1> QED  BY <1>1, IntakeInvariant, PTL

(***************************************************************************)
(* When one event is handled at a time: a delete whose handler has returned  *)
(* was applied to every one of its keys.  No failure half-way, and no id     *)
(* that is remembered, forgotten or lapsed, lets the transport drop an event *)
(* that was not applied.                                                     *)
(***************************************************************************)
THEOREM HandledIsApplied == Spec => []HandledMeansApplied
<1>1. SerialInv => HandledMeansApplied
  BY DEF SerialInv, SeenOk, Applied, AppliedTo, HandledMeansApplied, Intake!HandledMeansApplied
<1> QED  BY <1>1, IntakeInvariant, PTL
=============================================================================
