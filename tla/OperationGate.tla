---------------------------- MODULE OperationGate ----------------------------
(***************************************************************************)
(* The gates in front of Redis: L2OperationGate (cache) and                 *)
(* BoundedOperationGate (transactions).  Both limit what is dispatched, what *)
(* waits and how many bytes wait; a caller is answered at its deadline, but  *)
(* its slot comes back only when the promise behind it settles, which may be *)
(* never.                                                                    *)
(*                                                                         *)
(* They differ in what the transaction gate adds: a deadline that is checked *)
(* again when a call leaves the queue, and abort signals.  `deadlines` says  *)
(* which of the two this is; it never changes.                               *)
(***************************************************************************)
EXTENDS Integers, Sequences, FiniteSets, SequencesExt, Totals

CONSTANTS
  Call,             \* calls of run()
  Bytes,            \* their payload bytes
  MaxConcurrent, MaxQueued, MaxQueuedBytes

OperationGateAssumption ==
  /\ IsFiniteSet(Call) /\ Bytes \in [Call -> Nat]
  /\ MaxConcurrent \in Nat \ {0}
  /\ MaxQueued \in Nat /\ MaxQueuedBytes \in Nat

VARIABLES
  deadlines, \* TRUE: BoundedOperationGate, FALSE: L2OperationGate
  queue, active, activeBytes, queuedBytes, closed,
  caller,    \* what the promise returned to the caller came to
  running,   \* calls whose underlying promise has not settled
  late       \* calls whose deadline has passed
gateVars == <<queue, active, activeBytes, queuedBytes, closed, caller, running, late>>
vars == <<deadlines, gateVars>>

Refused == {"refused", "expired", "cancelled", "closed"}   \* never dispatched
Settled == {"done", "timedOut"} \cup Refused

TypeOK ==
  /\ deadlines \in BOOLEAN
  /\ queue \in Seq(Call)
  /\ active \in 0..MaxConcurrent
  /\ activeBytes \in Nat /\ queuedBytes \in 0..MaxQueuedBytes
  /\ closed \in BOOLEAN
  /\ caller \in [Call -> {"new", "waiting"} \cup Settled]
  /\ running \subseteq Call /\ late \subseteq Call

Init ==
  /\ deadlines \in BOOLEAN
  /\ queue = <<>> /\ active = 0 /\ activeBytes = 0 /\ queuedBytes = 0
  /\ closed = FALSE
  /\ caller = [c \in Call |-> "new"]
  /\ running = {} /\ late = {}

-----------------------------------------------------------------------------

Sum(S) == Total(Bytes, S)
IndexOf(s, c) == CHOOSE i \in 1..Len(s) : s[i] = c
Without(s, c) == RemoveAt(s, IndexOf(s, c))

Answer(c, how) == caller' = [caller EXCEPT ![c] = how]

Refuse(c, how) ==
  /\ Answer(c, how)
  /\ UNCHANGED <<queue, active, activeBytes, queuedBytes, closed, running, late>>

\* run(): refused, dispatched at once or queued, in the order of the tests.
Run(c) ==
  /\ caller[c] = "new"
  /\ IF closed THEN Refuse(c, "closed")
     ELSE IF c \in late THEN Refuse(c, "refused")
     ELSE IF active < MaxConcurrent /\ queue = <<>> THEN
       /\ Answer(c, "waiting")
       /\ running' = running \cup {c}
       /\ active' = active + 1
       /\ activeBytes' = activeBytes + Bytes[c]
       /\ UNCHANGED <<queue, queuedBytes, closed, late>>
     ELSE IF Len(queue) >= MaxQueued \/ queuedBytes + Bytes[c] > MaxQueuedBytes
     THEN Refuse(c, "refused")
     ELSE
       /\ Answer(c, "waiting")
       /\ queue' = Append(queue, c)
       /\ queuedBytes' = queuedBytes + Bytes[c]
       /\ UNCHANGED <<active, activeBytes, closed, running, late>>

\* The signal was aborted before the call had to wait: it is not queued.
RunAborted(c) ==
  /\ deadlines /\ caller[c] = "new" /\ ~closed /\ c \notin late
  /\ active = MaxConcurrent \/ queue # <<>>
  /\ Len(queue) < MaxQueued /\ queuedBytes + Bytes[c] <= MaxQueuedBytes
  /\ Refuse(c, "cancelled")

Leave(c, how) ==
  /\ c \in ToSet(queue)
  /\ queue' = Without(queue, c)
  /\ queuedBytes' = queuedBytes - Bytes[c]
  /\ Answer(c, how)
  /\ UNCHANGED <<active, activeBytes, closed, running, late>>

\* mutant: the bytes of an expired call stay counted.
ExpireLeaks(c) ==
  /\ c \in ToSet(queue)
  /\ queue' = Without(queue, c)
  /\ Answer(c, "expired")
  /\ UNCHANGED <<queuedBytes, active, activeBytes, closed, running, late>>

\* mutant: an expired call stays in the queue.
ExpireStaysQueued(c) ==
  /\ c \in ToSet(queue) /\ caller[c] = "waiting"
  /\ Answer(c, "expired")
  /\ UNCHANGED <<queue, queuedBytes, active, activeBytes, closed, running, late>>

\* The timer of a queued call.
Expire(c) == Leave(c, "expired")

\* The abort listener of a queued call.
Abort(c) == deadlines /\ Leave(c, "cancelled")

\* mutant: the slot comes back with the answer.
CommandTimerFrees(c) ==
  /\ c \in running /\ caller[c] = "waiting"
  /\ Answer(c, "timedOut")
  /\ active' = active - 1
  /\ activeBytes' = activeBytes - Bytes[c]
  /\ UNCHANGED <<queue, queuedBytes, closed, running, late>>

\* The command timer of a dispatched call answers the caller and nothing else.
CommandTimer(c) ==
  /\ c \in running /\ caller[c] = "waiting"
  /\ Answer(c, "timedOut")
  /\ UNCHANGED <<queue, active, activeBytes, queuedBytes, closed, running, late>>

\* mutant: a call whose deadline passed in the queue ends the loop.
TakenOnlyOne(free) == IF closed \/ free = 0 \/ queue = <<>> THEN 0 ELSE 1

\* How many queued calls pump() takes when `free` slots are free.  The loop of
\* the transaction gate ends with the last free slot; the L2 gate takes one.
Taken(free) ==
  IF closed \/ free = 0 THEN 0
  ELSE IF ~deadlines THEN (IF queue = <<>> THEN 0 ELSE 1)
  ELSE LET live(n) == Cardinality({i \in 1..n : queue[i] \notin late})
           stops == {n \in 1..Len(queue) : live(n) = free}
       IN IF stops = {} THEN Len(queue) ELSE CHOOSE n \in stops : \A m \in stops : n <= m

\* The underlying promise settles: the slot comes back and pump() hands it on.
Settles(c) ==
  LET n       == Taken(MaxConcurrent - (active - 1))
      taken   == ToSet(SubSeq(queue, 1, n))
      dropped == IF deadlines THEN taken \cap late ELSE {}
      started == taken \ dropped
  IN /\ c \in running
     /\ running' = (running \ {c}) \cup started
     /\ queue' = SubSeq(queue, n + 1, Len(queue))
     /\ queuedBytes' = queuedBytes - Sum(taken)
     /\ active' = active - 1 + Cardinality(started)
     /\ activeBytes' = activeBytes - Bytes[c] + Sum(started)
     /\ caller' = [x \in Call |-> IF x \in dropped THEN "expired"
                                  ELSE IF x = c /\ caller[c] = "waiting" THEN "done"
                                  ELSE caller[x]]
     /\ UNCHANGED <<closed, late>>

\* mutant: the calls that wait are forgotten.
CloseForgets ==
  /\ ~closed
  /\ closed' = TRUE
  /\ queue' = <<>> /\ queuedBytes' = 0
  /\ UNCHANGED <<caller, active, activeBytes, running, late>>

Close ==
  /\ ~closed
  /\ closed' = TRUE
  /\ caller' = [c \in Call |-> IF c \in ToSet(queue) THEN "closed" ELSE caller[c]]
  /\ queue' = <<>> /\ queuedBytes' = 0
  /\ UNCHANGED <<active, activeBytes, running, late>>

\* Time passes for a call that is not dispatched.
DeadlinePasses(c) ==
  /\ deadlines /\ c \notin late
  /\ caller[c] = "new" \/ c \in ToSet(queue)
  /\ late' = late \cup {c}
  /\ UNCHANGED <<queue, active, activeBytes, queuedBytes, closed, caller, running>>

Next ==
  /\ UNCHANGED deadlines
  /\ \/ \E c \in Call : \/ Run(c) \/ RunAborted(c) \/ Expire(c) \/ Abort(c)
                        \/ CommandTimer(c) \/ Settles(c) \/ DeadlinePasses(c)
     \/ Close

\* Timers fire.  Nothing makes a promise of Redis settle.
Fairness == \A c \in Call : WF_gateVars(Expire(c)) /\ WF_gateVars(CommandTimer(c))

Spec == Init /\ [][Next]_vars /\ Fairness

-----------------------------------------------------------------------------

(***************************************************************************)
(* The counters the limits are tested against say what is really there:     *)
(* `active` and `activeBytes` count the promises that have not settled,      *)
(* `queuedBytes` the calls that wait, through expiry, abort, timeout, late   *)
(* settlement, hand-over and close.                                          *)
(***************************************************************************)
CountersExact ==
  /\ active = Cardinality(running) /\ activeBytes = Sum(running)
  /\ queuedBytes = Sum(ToSet(queue))

(***************************************************************************)
(* No lost wake-up: pump() runs only when a promise settles, so a call that  *)
(* waits while a slot is free might wait for nothing.  And nothing waits at  *)
(* a closed gate.                                                            *)
(***************************************************************************)
NoIdleSlot == queue # <<>> => active = MaxConcurrent /\ ~closed

(***************************************************************************)
(* A caller that was told its operation is unavailable may repeat it: the    *)
(* operation was not dispatched and never will be.                           *)
(***************************************************************************)
RefusedNeverRuns ==
  [][\A c \in Call : caller[c] \in Refused => c \notin running' /\ caller'[c] = caller[c]]_vars

(***************************************************************************)
(* Every caller is answered, though the promises behind the gate may never  *)
(* settle and the gate may be full of them, or be closed.                    *)
(***************************************************************************)
CallerAnswered == \A c \in Call : (caller[c] = "waiting") ~> (caller[c] \in Settled)

\* The gate as its callers see it.
Gate == INSTANCE AdmissionGate
          WITH waiting <- queue, holding <- running,
               away <- {c \in Call : caller[c] \in Refused}

(***************************************************************************)
(* The gate implements AdmissionGate, apart from the calls that are through. *)
(***************************************************************************)
ImplementsGate == Gate!Spec
=============================================================================
