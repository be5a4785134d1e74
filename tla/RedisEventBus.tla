----------------------------- MODULE RedisEventBus -----------------------------
(***************************************************************************)
(* The subscribing half of RedisEventBus: its own subscriber connection, the *)
(* SUBSCRIBE commands of subscribe() and resubscribe(), the handler queue,   *)
(* and the cache that listens to its status.  A step runs from one event of  *)
(* the loop to the next, the continuations of a settled promise included.    *)
(***************************************************************************)
EXTENDS BusConsumer

CONSTANTS
  MaxDrops    \* bound on the losses of the connection

BusAssumption == QueueAssumption /\ MaxDrops \in Nat

VARIABLES
  resend,          \* the client keeps unanswered commands over a reconnection, or fails them
  link,            \* the subscriber connection: "up", "down", or "ended" by disconnect()
  drops,
  serverSub,       \* the server sends the channel to this connection
  wire,            \* what it has sent and the client has not read
  subscribing,     \* subscribe(): "no", its command "held" or "sent", "done" or "failed"
  resubscribing,   \* resubscribe(): "no", or its command "held" or "sent"
  sameEpoch,       \* transportEpoch is still the one resubscribe() read
  subscribed, handler, messageListener, needsReconciliation,
  closing,         \* disconnect(): "no", "unsubscribing", "done"
  queue, cache,
  unpublished      \* events the peers have still to publish
linkVars == <<link, drops, serverSub, wire>>
commandVars == <<subscribing, resubscribing, sameEpoch>>
vars == <<resend, linkVars, commandVars, subscribed, handler, messageListener, needsReconciliation,
          closing, queue, cache, unpublished>>

TypeOK ==
  /\ resend \in BOOLEAN
  /\ link \in {"up", "down", "ended"} /\ drops \in 0..MaxDrops
  /\ serverSub \in BOOLEAN /\ wire \in Seq(Event)
  /\ subscribing \in {"no", "held", "sent", "done", "failed"}
  /\ resubscribing \in {"no", "held", "sent"} /\ sameEpoch \in BOOLEAN
  /\ subscribed \in BOOLEAN /\ handler \in BOOLEAN /\ messageListener \in BOOLEAN
  /\ needsReconciliation \in BOOLEAN /\ closing \in {"no", "unsubscribing", "done"}
  /\ queue \in Queue /\ cache \in Consumer /\ unpublished \subseteq Event
  /\ (subscribed => serverSub) /\ (serverSub => link = "up")

Init ==
  /\ resend \in BOOLEAN
  /\ link \in {"up", "down"} /\ drops = 0 /\ serverSub = FALSE /\ wire = <<>>
  /\ subscribing = "no" /\ resubscribing = "no" /\ sameEpoch = TRUE
  /\ subscribed = FALSE /\ handler = FALSE /\ messageListener = FALSE
  /\ needsReconciliation = FALSE /\ closing = "no"
  /\ queue = EmptyQueue /\ cache = NewConsumer /\ unpublished = Event

Sent == IF link = "up" THEN "sent" ELSE "held"

-----------------------------------------------------------------------------
\* The cache subscribes when it is constructed.

Subscribe ==
  /\ subscribing = "no" /\ closing = "no"
  /\ handler' = TRUE /\ messageListener' = TRUE
  /\ subscribing' = Sent
  /\ UNCHANGED <<linkVars, resubscribing, sameEpoch, subscribed, needsReconciliation, closing,
                 queue, cache, unpublished>>

SubscribeAcked ==
  /\ subscribing = "sent" /\ link = "up"
  /\ serverSub' = TRUE /\ subscribing' = "done" /\ subscribed' = TRUE
  /\ cache' = OnStatus(cache, "subscribed")
  /\ UNCHANGED <<link, drops, wire, resubscribing, sameEpoch, handler, messageListener,
                 needsReconciliation, closing, queue, unpublished>>

\* resubscribe() goes on after its SUBSCRIBE: replies come in the order of the commands.
ResubscribeAcked ==
  /\ resubscribing = "sent" /\ link = "up" /\ subscribing # "sent"
  /\ serverSub' = TRUE /\ resubscribing' = "no"
  /\ IF sameEpoch
     THEN subscribed' = TRUE /\ cache' = OnStatus(cache, "subscribed")
     ELSE UNCHANGED <<subscribed, cache>>
  /\ UNCHANGED <<link, drops, wire, subscribing, sameEpoch, handler, messageListener,
                 needsReconciliation, closing, queue, unpublished>>

-----------------------------------------------------------------------------
\* The connection

\* The commands in cmds are rejected: subscribe() detaches its listener and
\* throws, resubscribe() reports an error.
Reject(cmds, c) ==
  /\ subscribing' = IF subscribing \in cmds THEN "failed" ELSE subscribing
  /\ messageListener' = (messageListener /\ subscribing \notin cmds)
  /\ resubscribing' = IF resubscribing \in cmds THEN "no" ELSE resubscribing
  /\ cache' = IF resubscribing \in cmds THEN OnStatus(c, "error") ELSE c

Hold(cmd) == IF cmd = "sent" THEN "held" ELSE cmd

\* mutant: the loss of the connection leaves subscribed as it was.
LinkDropsStillSubscribed ==
  /\ link = "up" /\ drops < MaxDrops /\ drops' = drops + 1
  /\ link' = "down" /\ serverSub' = FALSE /\ wire' = <<>> /\ sameEpoch' = FALSE
  /\ cache' = OnStatus(cache, "disconnected")
  /\ UNCHANGED <<subscribing, resubscribing, subscribed, queue, messageListener, handler,
                 needsReconciliation, closing, unpublished>>

\* 'close' (and 'reconnecting' after it): markDisconnected.
LinkDrops ==
  /\ link = "up" /\ drops < MaxDrops /\ drops' = drops + 1
  /\ link' = "down" /\ serverSub' = FALSE /\ wire' = <<>>
  /\ sameEpoch' = FALSE /\ subscribed' = FALSE
  /\ queue' = IF subscribing = "done" THEN Discarded(queue) ELSE queue
  /\ LET c == OnStatus(cache, "disconnected") IN
     IF resend
     THEN /\ subscribing' = Hold(subscribing) /\ resubscribing' = Hold(resubscribing)
          /\ cache' = c /\ UNCHANGED messageListener
     ELSE Reject({"sent"}, c)
  /\ UNCHANGED <<handler, needsReconciliation, closing, unpublished>>

\* The client gives up the commands it holds (its retries per request are used up).
HeldRejected ==
  /\ link = "down" /\ "held" \in {subscribing, resubscribing}
  /\ Reject({"held"}, cache)
  /\ UNCHANGED <<linkVars, sameEpoch, subscribed, handler, needsReconciliation, closing, queue,
                 unpublished>>

\* mutant: 'ready' does not resubscribe.
ReadyOnce ==
  /\ link = "down"
  /\ link' = "up"
  /\ subscribing' = IF subscribing = "held" THEN "sent" ELSE subscribing
  /\ resubscribing' = IF resubscribing = "held" THEN "sent" ELSE resubscribing
  /\ cache' = OnStatus(cache, "ready")
  /\ UNCHANGED <<drops, serverSub, wire, sameEpoch, subscribed, handler, messageListener,
                 needsReconciliation, closing, queue, unpublished>>

\* 'ready': the held commands have been sent; resubscribe() sends its own unless
\* it is already waiting for one.
Ready ==
  /\ link = "down"
  /\ link' = "up"
  /\ subscribing' = IF subscribing = "held" THEN "sent" ELSE subscribing
  /\ cache' = OnStatus(cache, "ready")
  /\ IF ~handler \/ resubscribing # "no" \/ subscribed
     THEN /\ resubscribing' = IF resubscribing = "held" THEN "sent" ELSE resubscribing
          /\ UNCHANGED sameEpoch
     ELSE resubscribing' = "sent" /\ sameEpoch' = TRUE
  /\ UNCHANGED <<drops, serverSub, wire, subscribed, handler, messageListener,
                 needsReconciliation, closing, queue, unpublished>>

-----------------------------------------------------------------------------
\* Deliveries

PeerPublishes(e) ==
  /\ e \in unpublished /\ unpublished' = unpublished \ {e}
  /\ IF serverSub THEN wire' = Append(wire, e) /\ UNCHANGED cache
     ELSE cache' = Missed(cache) /\ UNCHANGED wire
  /\ UNCHANGED <<link, drops, serverSub, commandVars, subscribed, handler, messageListener,
                 needsReconciliation, closing, queue>>

\* mutant: an overflow is only logged.
MessageDropped ==
  /\ wire # <<>> /\ wire' = Tail(wire)
  /\ queue' = IF messageListener THEN Enqueued(queue, Head(wire)) ELSE queue
  /\ cache' = IF messageListener /\ Accepts(queue, Head(wire)) THEN cache ELSE Missed(cache)
  /\ UNCHANGED <<link, drops, serverSub, commandVars, subscribed, handler, messageListener,
                 needsReconciliation, closing, unpublished>>

\* The message listener: an overflow makes the cache distrust its copies.
MessageArrives ==
  /\ wire # <<>> /\ wire' = Tail(wire)
  /\ LET e == Head(wire) IN
     IF ~messageListener
     THEN cache' = Missed(cache) /\ UNCHANGED <<queue, needsReconciliation>>
     ELSE /\ queue' = Enqueued(queue, e)
          /\ needsReconciliation' = (needsReconciliation \/ (~queue.closed /\ Overflows(queue, e)))
          /\ cache' = IF Accepts(queue, e) THEN cache
                      ELSE IF queue.closed THEN Missed(cache)
                      ELSE OnStatus(Missed(cache), "error")
  /\ UNCHANGED <<link, drops, serverSub, commandVars, subscribed, handler, messageListener,
                 closing, unpublished>>

\* A delivery is over: applied (ok), or undecodable or failed, which is reported
\* (onError).  When it was the last, onIdle asks the cache to reconcile.
HandlerSettles(e, ok) ==
  /\ e \in queue.active
  /\ queue' = Settled(queue, e)
  /\ LET c == IF ok THEN cache ELSE OnStatus(Missed(cache), "error")
         needs == needsReconciliation \/ ~ok
         reconcile == Idle(queue') /\ needs /\ subscribed
     IN  /\ needsReconciliation' = (needs /\ ~reconcile)
         /\ cache' = IF reconcile THEN OnStatus(c, "subscribed") ELSE c
  /\ UNCHANGED <<linkVars, commandVars, subscribed, handler, messageListener, closing,
                 unpublished>>

-----------------------------------------------------------------------------

RestoreDone ==
  /\ cache.restoring
  /\ cache' = Restored(cache)
  /\ UNCHANGED <<linkVars, commandVars, subscribed, handler, messageListener,
                 needsReconciliation, closing, queue, unpublished>>

\* mutant: the handler queue is forgotten without being closed.
DisconnectKeepsQueue ==
  /\ closing = "no" /\ subscribing # "no"
  /\ cache' = CloseConsumer(cache)
  /\ needsReconciliation' = FALSE /\ handler' = FALSE /\ messageListener' = FALSE
  /\ subscribed' = FALSE
  /\ closing' = IF subscribed THEN "unsubscribing" ELSE "done"
  /\ IF subscribed THEN UNCHANGED <<link, serverSub, wire, subscribing, resubscribing>>
     ELSE /\ link' = "ended" /\ serverSub' = FALSE /\ wire' = <<>>
          /\ subscribing' = IF subscribing \in {"held", "sent"} THEN "failed" ELSE subscribing
          /\ resubscribing' = "no"
  /\ UNCHANGED <<drops, sameEpoch, queue, unpublished>>

\* The end of disconnect(): the subscriber connection is closed, which rejects
\* what it was still asked.
Ends ==
  /\ closing' = "done"
  /\ link' = "ended" /\ serverSub' = FALSE /\ wire' = <<>>
  /\ subscribing' = IF subscribing \in {"held", "sent"} THEN "failed" ELSE subscribing
  /\ resubscribing' = "no" /\ subscribed' = FALSE

\* close() of the cache, then disconnect() up to its UNSUBSCRIBE.
Disconnect ==
  /\ closing = "no" /\ subscribing # "no"
  /\ cache' = CloseConsumer(cache)
  /\ needsReconciliation' = FALSE /\ handler' = FALSE /\ messageListener' = FALSE
  /\ queue' = IF subscribing = "done" THEN Closed(queue) ELSE queue
  /\ IF subscribed
     THEN closing' = "unsubscribing" /\ subscribed' = FALSE
          /\ UNCHANGED <<link, serverSub, wire, subscribing, resubscribing>>
     ELSE Ends
  /\ UNCHANGED <<drops, sameEpoch, unpublished>>

\* UNSUBSCRIBE is answered or fails.
Unsubscribed ==
  /\ closing = "unsubscribing"
  /\ Ends
  /\ UNCHANGED <<drops, sameEpoch, handler, messageListener, needsReconciliation, queue, cache,
                 unpublished>>

Next ==
  /\ \/ Subscribe \/ SubscribeAcked \/ ResubscribeAcked
     \/ LinkDrops \/ HeldRejected \/ Ready
     \/ MessageArrives \/ RestoreDone \/ Disconnect \/ Unsubscribed
     \/ \E e \in Event : PeerPublishes(e) \/ \E ok \in BOOLEAN : HandlerSettles(e, ok)
  /\ UNCHANGED resend

\* The client reconnects for ever, the server answers, handlers settle.
Fairness ==
  /\ WF_vars(Subscribe) /\ WF_vars(SubscribeAcked) /\ WF_vars(ResubscribeAcked)
  /\ WF_vars(Ready) /\ WF_vars(MessageArrives) /\ WF_vars(RestoreDone) /\ WF_vars(Unsubscribed)
  /\ \A e \in Event : WF_vars(\E ok \in BOOLEAN : HandlerSettles(e, ok))
Spec == Init /\ [][Next]_vars /\ Fairness

-----------------------------------------------------------------------------

(***************************************************************************)
(* The cache never trusts local copies that an invalidation has missed since *)
(* they were last flushed, while the bus has its listener: neither an outage *)
(* nor an overflow nor a failed handler goes unnoticed, and no restoration   *)
(* that began before one restores trust.                                     *)
(*                                                                         *)
(* Left out: a first subscribe() that fails.  It takes the listener away and *)
(* keeps the handler, so the next 'ready' subscribes again and the cache     *)
(* trusts copies of which it is told nothing (TrustedMeansListening fails).  *)
(***************************************************************************)
NoTrustAcrossGap == cache.trusted /\ messageListener => ~cache.gap

(***************************************************************************)
(* A cache that trusts its copies has a bus that listens.  It does not hold: *)
(* see NoTrustAcrossGap.                                                     *)
(***************************************************************************)
TrustedMeansListening == cache.trusted /\ ~cache.closed => messageListener

(***************************************************************************)
(* After disconnect() no queued delivery reaches the cache's handler.        *)
(***************************************************************************)
NothingAfterDisconnect ==
  [][closing # "no" => queue'.active \subseteq queue.active]_vars

(***************************************************************************)
(* When the connection no longer drops, trust comes back: every gap, outage  *)
(* and failed handler is followed by a reconciliation.                       *)
(*                                                                         *)
(* Left out: a client that keeps unanswered commands over a reconnection.    *)
(* The SUBSCRIBE of a former resubscribe() is then still waited for, the     *)
(* next 'ready' sends none, and its answer is dropped as one of another      *)
(* epoch: the cache stays without trust.                                     *)
(***************************************************************************)
TrustRestored == ~resend => <>[](cache.trusted \/ cache.closed)
=============================================================================
