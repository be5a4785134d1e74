------------------------------ MODULE BusConsumer ------------------------------
(***************************************************************************)
(* What every event bus drives: the queue of deliveries in front of the      *)
(* cache's handler (EventBusHandlerQueue) and the trust the cache places in  *)
(* its local copies (HybridCache, status listener).  Both are values; the    *)
(* bus modules hold them in variables.                                       *)
(***************************************************************************)
EXTENDS Naturals, Sequences, FiniteSets, FiniteSetsExt, SequencesExt

CONSTANTS
  Event,                           \* the invalidations peers publish
  Bytes,                           \* the encoded size of each
  Concurrency, MaxSize, MaxBytes   \* limits of the handler queue

QueueAssumption ==
  /\ IsFiniteSet(Event) /\ Bytes \in [Event -> Nat]
  /\ Concurrency \in Nat \ {0} /\ MaxSize \in Nat /\ MaxBytes \in Nat

-----------------------------------------------------------------------------
\* EventBusHandlerQueue

Queue == [pending : Seq(Event), active : SUBSET Event, closed : BOOLEAN]
EmptyQueue == [pending |-> <<>>, active |-> {}, closed |-> FALSE]

retainedBytes(q) == FoldFunctionOnSet(+, 0, Bytes, ToSet(q.pending) \cup q.active)

Overflows(q, e) ==
  \/ Len(q.pending) + Cardinality(q.active) >= MaxSize
  \/ retainedBytes(q) + Bytes[e] > MaxBytes

\* drain(): the oldest pending delivery starts when a worker is free.  Every
\* caller frees or fills one place, so one delivery at most is to be started.
Drained(q) ==
  IF q.pending = <<>> \/ Cardinality(q.active) >= Concurrency THEN q
  ELSE [q EXCEPT !.pending = Tail(@), !.active = @ \cup {Head(q.pending)}]

Accepts(q, e) == ~q.closed /\ ~Overflows(q, e)
Enqueued(q, e) == IF Accepts(q, e) THEN Drained([q EXCEPT !.pending = Append(@, e)]) ELSE q

\* The handler of an active delivery has settled.
Settled(q, e) == Drained([q EXCEPT !.active = @ \ {e}])
Idle(q) == q.active = {} /\ q.pending = <<>> /\ ~q.closed

Discarded(q) == [q EXCEPT !.pending = <<>>]
Closed(q) == [q EXCEPT !.pending = <<>>, !.closed = TRUE]

-----------------------------------------------------------------------------
\* The cache's trust.  gap: an invalidation was lost after the last flush of L1.

Status == {"none", "connecting", "ready", "subscribed", "disconnected", "error"}
Bad == {"connecting", "disconnected", "error"}
Consumer ==
  [trusted : BOOLEAN, restoring : BOOLEAN, lastBusStatus : Status, gap : BOOLEAN, closed : BOOLEAN]

\* A cache that was given a bus trusts nothing before the first subscription.
NewConsumer ==
  [trusted |-> FALSE, restoring |-> FALSE, lastBusStatus |-> "none", gap |-> FALSE, closed |-> FALSE]

\* mutant: the revision does not move.
MarkUntrustedKeepsRevision(c) == [c EXCEPT !.trusted = FALSE, !.gap = FALSE]

\* markInvalidationUntrusted: the revision moves, so a restoration under way
\* ends without effect, and L1 is flushed.
MarkUntrusted(c) == [c EXCEPT !.trusted = FALSE, !.restoring = FALSE, !.gap = FALSE]

\* The status listener of the cache.  restoreInvalidationTrust flushes L1 and
\* waits for that (RestoreDone).
OnStatus(c, s) ==
  LET d == [c EXCEPT !.lastBusStatus = s] IN
  IF c.closed THEN c
  ELSE IF s \in Bad THEN MarkUntrusted(d)
  ELSE IF s = "subscribed" THEN [d EXCEPT !.restoring = TRUE, !.gap = FALSE]
  ELSE d

\* The flush of restoreInvalidationTrust has ended.
Restored(c) ==
  [c EXCEPT !.restoring = FALSE, !.trusted = @ \/ (c.lastBusStatus \notin Bad /\ ~c.closed)]

Missed(c) == [c EXCEPT !.gap = TRUE]
CloseConsumer(c) == [c EXCEPT !.closed = TRUE, !.restoring = FALSE]
=============================================================================
