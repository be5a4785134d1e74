------------------------------ MODULE Overload ------------------------------
(***************************************************************************)
(* What stands between the callers and Redis or the origin.  A behaviour is *)
(* about one of them, chosen at the start; the others stay as they are:     *)
(*   "gate"     the gate in front of Redis: that of the transaction         *)
(*              transport (deadlines) or L2OperationGate,                   *)
(*   "origin"   OriginLoadGate,                                             *)
(*   "breaker"  the circuit breaker of L2, which passes the call's epoch    *)
(*              (withEpoch), or of the event bus, which does not.           *)
(***************************************************************************)
EXTENDS Integers, FiniteSets

CONSTANTS
  Call, Bytes, MaxConcurrent, MaxQueued, MaxQueuedBytes,       \* of OperationGate
  Load, LoadBytes, MaxLoads, MaxWaiting, MaxWaitingBytes,      \* of OriginLoadGate
  User, FailureThreshold, CooldownMs, MaxEpoch                 \* of CircuitBreaker

VARIABLES
  part,
  deadlines, queue, active, activeBytes, queuedBytes, closed, caller, running, late,
  loads, queued, keyBytes, shut, budget, call, released,
  withEpoch, state, failures, epoch, probeInFlight, sinceOpened, calling, admittedAt

Gate == INSTANCE OperationGate
Origin == INSTANCE OriginLoadGate
              WITH Call <- Load, Bytes <- LoadBytes, MaxConcurrent <- MaxLoads,
                   MaxQueued <- MaxWaiting, MaxQueuedKeyBytes <- MaxWaitingBytes,
                   active <- loads, queuedBytes <- keyBytes, closed <- shut
Breaker == INSTANCE CircuitBreaker WITH Call <- User, running <- calling

ASSUME OverloadAssumption ==
  Gate!OperationGateAssumption /\ Origin!OriginGateAssumption /\ Breaker!BreakerAssumption

gateVars == <<deadlines, queue, active, activeBytes, queuedBytes, closed, caller, running, late>>
originVars == <<loads, queued, keyBytes, shut, budget, call, released>>
breakerVars == <<withEpoch, state, failures, epoch, probeInFlight, sinceOpened, calling, admittedAt>>
vars == <<part, gateVars, originVars, breakerVars>>

Init ==
  /\ part \in {"gate", "origin", "breaker"}
  /\ Gate!Init /\ Origin!Init /\ Breaker!Init
  \* what does not take part is of one kind
  /\ part # "gate" => deadlines
  /\ part # "breaker" => withEpoch

Next ==
  \/ part = "gate"    /\ Gate!Next    /\ UNCHANGED <<part, originVars, breakerVars>>
  \/ part = "origin"  /\ Origin!Next  /\ UNCHANGED <<part, gateVars, breakerVars>>
  \/ part = "breaker" /\ Breaker!Next /\ UNCHANGED <<part, gateVars, originVars>>

Fairness ==
  /\ \A c \in Call :
       /\ WF_gateVars(part = "gate" /\ Gate!Expire(c) /\ UNCHANGED deadlines)
       /\ WF_gateVars(part = "gate" /\ Gate!CommandTimer(c) /\ UNCHANGED deadlines)
  /\ \A c \in Load :
       /\ WF_originVars(part = "origin" /\ Origin!Release(c))
       /\ WF_originVars(part = "origin" /\ Origin!QueueTimer(c))
  /\ WF_breakerVars(part = "breaker" /\ Breaker!Tick /\ UNCHANGED withEpoch)
  /\ \A c \in User :
       /\ WF_breakerVars(part = "breaker" /\ (Breaker!Succeeds(c) \/ Breaker!Fails(c)) /\ UNCHANGED withEpoch)
       /\ WF_breakerVars(part = "breaker" /\ Breaker!Begin(c) /\ UNCHANGED withEpoch)

Spec == Init /\ [][Next]_vars /\ Fairness

-----------------------------------------------------------------------------
\* The types of the gates' and the breaker's fields.
TypeOK == Gate!TypeOK /\ Origin!TypeOK /\ Breaker!TypeOK

\* The counters the limits are tested against say what is really there, through expiry,
\* abort, timeout, late settlement, hand-over and close.
CountersExact == Gate!CountersExact

\* No call waits at a gate that has a free slot, or at a closed one (pump()).
NoIdleSlot == Gate!NoIdleSlot

\* A call reported as unavailable was not dispatched and never will be.
RefusedNeverRuns == Gate!RefusedNeverRuns

\* Every caller is answered, though the promises behind the gate may never settle.
GateAnswers == Gate!CallerAnswered

\* Slots and bytes of the origin gate are neither lost nor given twice, whichever of
\* hand-over, timer, abort, close and second release come together.
ReservationsExact == Origin!ReservationsExact

\* acquire() never overtakes a call that waits.
NoOvertaking == Origin!NoOvertaking

\* Every load that waits gets its reservation or an error.
WaiterServed == Origin!WaiterServed

\* Slots, bytes and places in the queues of all three gates: what the limits are tested
\* against is what is really there, no slot idles while a call waits, none is given past a
\* waiting call, none is lost or given twice.
SlotsExact == TypeOK /\ CountersExact /\ NoIdleSlot /\ ReservationsExact /\ NoOvertaking

\* Every caller of a gate is answered, though the promises behind it may never settle.
AnsweredTruly == GateAnswers /\ WaiterServed

\* Both gates implement AdmissionGate, and the answer of the gate in front of Redis holds:
\* a call reported as unavailable does not run later.
AdmissionKept == Gate!ImplementsGate /\ Origin!ImplementsGate /\ RefusedNeverRuns

\* A half-open breaker trusts at most one call admitted since it opened.
OneProbe == Breaker!OneProbe

\* The half-open L2 breaker is settled by its probe, not by an older call.
SettledByProbe == Breaker!ProbeDecides

\* The open L2 breaker stays open for the cooldown and then lets one call probe.
OpenUntilProbe == Breaker!OpenUntilProbe

\* A breaker that opened closes through one probe, after the cooldown, and on the probe's
\* own result (the L2 breaker; that of the bus passes no epoch and keeps only OneProbe).
ProbeDecides == []OneProbe /\ SettledByProbe /\ OpenUntilProbe

\* A breaker never stays open or half-open for ever.
NeverStuck == Breaker!NeverStuck
=============================================================================
