---------------------------- MODULE EventRetryQueue ----------------------------
(***************************************************************************)
(* The publishing half of the event buses: publish() of all three first      *)
(* flushes the EventBusRetryQueue, then sends its own event, and leaves the  *)
(* event in the queue when either fails.  An attempt at the transport        *)
(* succeeds, fails, or fails although the event went out.                    *)
(***************************************************************************)
EXTENDS Naturals, Sequences, FiniteSets, SequencesExt, FiniteSetsExt

CONSTANTS
  Event,               \* one call of publish() each
  Bytes,               \* its encoded size
  MaxSize, MaxBytes,   \* limits of the queue
  MaxClears,           \* bound on the calls of clear()
  NoEvent

RetryAssumption ==
  /\ IsFiniteSet(Event) /\ NoEvent \notin Event /\ Bytes \in [Event -> Nat \ {0}]
  /\ MaxSize \in Nat /\ MaxBytes \in Nat /\ MaxClears \in Nat

VARIABLES
  events,          \* the queue, oldest first
  bytes,
  flushingEntry,   \* the entry the shared drain is sending, or NoEvent
  discard,         \* its discardAfterPublish
  call,            \* where each call of publish() is
  joined,          \* the calls that wait for the flush under way, in order
  dropped, cleared, clears,
  acked,           \* how many attempts to send each event succeeded
  unacked          \* events that went out in an attempt that was reported as failed
vars == <<events, bytes, flushingEntry, discard, call, joined, dropped, cleared, clears, acked, unacked>>

TypeOK ==
  /\ events \in Seq(Event) /\ IsInjective(events)
  /\ bytes \in Nat /\ flushingEntry \in Event \cup {NoEvent}
  /\ discard \in BOOLEAN /\ joined \in Seq(Event)
  /\ call \in [Event -> {"idle", "flushing", "sending", "done", "failed"}]
  /\ dropped \subseteq Event /\ cleared \subseteq Event /\ clears \in 0..MaxClears
  /\ acked \in [Event -> Nat] /\ unacked \subseteq Event
  /\ flushingEntry # NoEvent => events # <<>> /\ Head(events) = flushingEntry

Init ==
  /\ events = <<>> /\ bytes = 0 /\ flushingEntry = NoEvent /\ discard = FALSE
  /\ call = [e \in Event |-> "idle"] /\ joined = <<>>
  /\ dropped = {} /\ cleared = {} /\ clears = 0
  /\ acked = [e \in Event |-> 0] /\ unacked = {}

-----------------------------------------------------------------------------
\* enqueue(), as a function of the queue q = [events, bytes, dropped].

Held == [events |-> events, bytes |-> bytes, dropped |-> dropped]

\* The waiting part of the queue: all of it but the entry being sent.
Waiting(q, active) == SelectSeq(q.events, LAMBDA e : e # active)

DropOldest(q, active) ==
  LET e == Head(Waiting(q, active)) IN
  [events |-> SelectSeq(q.events, LAMBDA x : x # e), bytes |-> q.bytes - Bytes[e],
   dropped |-> q.dropped \cup {e}]

\* mutant: the count limit includes the entry being sent.
CountTrimmedDropsActive(q, active) ==
  IF Len(q.events) >= MaxSize
  THEN [events |-> Tail(q.events), bytes |-> q.bytes - Bytes[Head(q.events)],
        dropped |-> q.dropped \cup {Head(q.events)}]
  ELSE q

\* The count limit drops one entry.
CountTrimmed(q, active) ==
  IF Len(Waiting(q, active)) >= MaxSize THEN DropOldest(q, active) ELSE q

\* The byte limit drops as many of the oldest entries as e needs.
BytesTrimmed(q, active, e) ==
  LET trim[i \in 0..Len(Waiting(q, active))] == IF i = 0 THEN q ELSE DropOldest(trim[i - 1], active)
      enough == {i \in DOMAIN trim : trim[i].bytes + Bytes[e] <= MaxBytes}
  IN  IF enough = {} THEN trim[Len(Waiting(q, active))] ELSE trim[Min(enough)]

\* mutant: the bytes of a dropped entry are not given back.
EnqueuedLeaks(q, active, e) ==
  IF MaxSize = 0 \/ Bytes[e] > MaxBytes THEN [q EXCEPT !.dropped = @ \cup {e}]
  ELSE LET t == CountTrimmed(q, active) IN
       [t EXCEPT !.events = Append(@, e), !.bytes = q.bytes + Bytes[e]]

Enqueued(q, active, e) ==
  IF MaxSize = 0 \/ Bytes[e] > MaxBytes THEN [q EXCEPT !.dropped = @ \cup {e}]
  ELSE LET t == BytesTrimmed(CountTrimmed(q, active), active, e) IN
       IF t.bytes + Bytes[e] > MaxBytes THEN [t EXCEPT !.dropped = @ \cup {e}]
       ELSE [t EXCEPT !.events = Append(@, e), !.bytes = @ + Bytes[e]]

Keeps(q) == events' = q.events /\ bytes' = q.bytes /\ dropped' = q.dropped

-----------------------------------------------------------------------------
\* publish() and flush()

\* mutant: a call that meets a flush under way sends the same entry once more.
PublishAlone(e) ==
  /\ call[e] = "idle"
  /\ IF events = <<>>
     THEN call' = [call EXCEPT ![e] = "sending"] /\ UNCHANGED <<flushingEntry, joined, acked>>
     ELSE /\ call' = [call EXCEPT ![e] = "flushing"] /\ joined' = Append(joined, e)
          /\ flushingEntry' = Head(events)
          /\ acked' = IF flushingEntry = NoEvent THEN acked ELSE [acked EXCEPT ![flushingEntry] = @ + 1]
  /\ UNCHANGED <<events, bytes, discard, dropped, cleared, clears, unacked>>

\* A call joins the flush under way, starts one, or finds nothing to flush.
Publish(e) ==
  /\ call[e] = "idle"
  /\ IF flushingEntry = NoEvent /\ events = <<>>
     THEN call' = [call EXCEPT ![e] = "sending"] /\ UNCHANGED <<flushingEntry, joined>>
     ELSE /\ call' = [call EXCEPT ![e] = "flushing"] /\ joined' = Append(joined, e)
          /\ flushingEntry' = IF flushingEntry = NoEvent THEN Head(events) ELSE flushingEntry
  /\ UNCHANGED <<events, bytes, discard, dropped, cleared, clears, acked, unacked>>

\* mutant: only the call that started the flush goes on.
FlushEndsForOne(q, ok) ==
  /\ flushingEntry' = NoEvent /\ joined' = <<>>
  /\ Keeps(q)
  /\ call' = [call EXCEPT ![Head(joined)] = IF ok THEN "sending" ELSE "failed"]

\* The calls that waited for the flush go on: to send their own event, or, when
\* it failed, to leave it in the queue and throw.
FlushEnds(q, ok) ==
  LET queued == FoldLeft(LAMBDA r, e : Enqueued(r, NoEvent, e), q, joined) IN
  /\ flushingEntry' = NoEvent /\ joined' = <<>>
  /\ Keeps(IF ok THEN q ELSE queued)
  /\ call' = [e \in Event |-> IF e \notin ToSet(joined) THEN call[e]
                              ELSE IF ok THEN "sending" ELSE "failed"]

WithoutActive ==
  [Held EXCEPT !.events = Tail(@), !.bytes = @ - Bytes[flushingEntry]]

\* mutant: the entry is taken out before it is sent.
DrainFailsForgets(out) ==
  /\ flushingEntry # NoEvent
  /\ unacked' = IF out THEN unacked \cup {flushingEntry} ELSE unacked
  /\ FlushEnds(WithoutActive, FALSE)
  /\ discard' = FALSE
  /\ UNCHANGED <<acked, cleared, clears>>

\* mutant: a flush sends one entry.
DrainSentOne ==
  /\ flushingEntry # NoEvent
  /\ acked' = [acked EXCEPT ![flushingEntry] = @ + 1]
  /\ discard' = FALSE
  /\ FlushEnds(WithoutActive, TRUE)
  /\ UNCHANGED <<unacked, cleared, clears>>

\* drain(): the entry was sent, or was not (out: it went out all the same); an
\* entry the queue was cleared of is not kept for another attempt.
DrainSent ==
  /\ flushingEntry # NoEvent
  /\ acked' = [acked EXCEPT ![flushingEntry] = @ + 1]
  /\ discard' = FALSE
  /\ IF Len(events) > 1
     THEN Keeps(WithoutActive) /\ flushingEntry' = events[2] /\ UNCHANGED <<call, joined>>
     ELSE FlushEnds(WithoutActive, TRUE)
  /\ UNCHANGED <<unacked, cleared, clears>>

DrainFails(out) ==
  /\ flushingEntry # NoEvent
  /\ unacked' = IF out THEN unacked \cup {flushingEntry} ELSE unacked
  /\ FlushEnds(IF discard THEN WithoutActive ELSE Held, FALSE)
  /\ discard' = FALSE
  /\ UNCHANGED <<acked, cleared, clears>>

Sent(e) ==
  /\ call[e] = "sending"
  /\ call' = [call EXCEPT ![e] = "done"]
  /\ acked' = [acked EXCEPT ![e] = @ + 1]
  /\ UNCHANGED <<unacked, events, bytes, flushingEntry, discard, joined, dropped, cleared, clears>>

SendFails(e, out) ==
  /\ call[e] = "sending"
  /\ call' = [call EXCEPT ![e] = "failed"]
  /\ unacked' = IF out THEN unacked \cup {e} ELSE unacked
  /\ Keeps(Enqueued(Held, flushingEntry, e))
  /\ UNCHANGED <<acked, flushingEntry, discard, joined, cleared, clears>>

\* clear(), by disconnect() of the bus.
Clear ==
  /\ clears < MaxClears /\ clears' = clears + 1
  /\ cleared' = cleared \cup ToSet(events)
  /\ discard' = (flushingEntry # NoEvent)
  /\ IF flushingEntry = NoEvent THEN events' = <<>> /\ bytes' = 0
     ELSE events' = <<flushingEntry>> /\ bytes' = Bytes[flushingEntry]
  /\ UNCHANGED <<flushingEntry, call, joined, dropped, acked, unacked>>

Next ==
  \/ DrainSent \/ Clear
  \/ \E out \in BOOLEAN : DrainFails(out)
  \/ \E e \in Event : Publish(e) \/ Sent(e) \/ \E out \in BOOLEAN : SendFails(e, out)

\* Every attempt at the transport is answered.
Fairness ==
  /\ WF_vars(DrainSent \/ \E out \in BOOLEAN : DrainFails(out))
  /\ \A e \in Event : WF_vars(Sent(e) \/ \E out \in BOOLEAN : SendFails(e, out))
Spec == Init /\ [][Next]_vars /\ Fairness

-----------------------------------------------------------------------------

(***************************************************************************)
(* The byte count is that of the entries held and both limits are kept, the  *)
(* entry being sent counting for the bytes and not for the number, whatever  *)
(* is dropped or cleared while it is on its way.                             *)
(***************************************************************************)
LimitsKept ==
  /\ bytes = FoldLeft(LAMBDA n, e : n + Bytes[e], 0, events)
  /\ bytes <= MaxBytes
  /\ Len(Waiting(Held, flushingEntry)) <= MaxSize

(***************************************************************************)
(* An event whose publish() threw is not lost in silence: it is queued, or   *)
(* went out, or was counted as dropped, or was cleared by disconnect().      *)
(***************************************************************************)
NothingVanishes ==
  \A e \in Event : call[e] = "failed" =>
    e \in ToSet(events) \cup dropped \cup cleared \cup unacked \/ acked[e] > 0

(***************************************************************************)
(* Concurrent calls do not send a backlog entry twice: an event goes out a   *)
(* second time only after an attempt that was reported as failed, and a call *)
(* that returned sent its event.                                             *)
(***************************************************************************)
SentOnce ==
  \A e \in Event : acked[e] <= 1 /\ (call[e] = "done" => acked[e] = 1 /\ e \notin ToSet(events))

(***************************************************************************)
(* A call sends its own event only when the backlog is empty, so the events  *)
(* of one process do not overtake the ones it failed to send before.         *)
(***************************************************************************)
BacklogFirst ==
  [][\A e \in Event : call[e] # "sending" /\ call'[e] = "sending" => events' = <<>>]_vars

(***************************************************************************)
(* Every publish() returns or throws.                                        *)
(***************************************************************************)
PublishAnswered == \A e \in Event : call[e] # "idle" ~> call[e] \in {"done", "failed"}
=============================================================================
