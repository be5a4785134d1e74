---------------------------- MODULE CircuitBreaker ----------------------------
(***************************************************************************)
(* CircuitBreaker and the calls that consult it.  A call asks canCall(),     *)
(* runs for as long as it likes and reports its result: runL2 together with  *)
(* the epoch it read when it began, publishInvalidation without: `withEpoch` *)
(* says which of the two this is and never changes.                          *)
(***************************************************************************)
EXTENDS Integers, FiniteSets

CONSTANTS
  Call,
  FailureThreshold, CooldownMs,
  MaxEpoch          \* bound on the epochs explored

BreakerAssumption ==
  /\ FailureThreshold \in Nat \ {0} /\ CooldownMs \in Nat
  /\ MaxEpoch \in Nat

VARIABLES
  withEpoch,     \* TRUE: the L2 breaker, FALSE: the event bus breaker
  state, failures, epoch, probeInFlight,
  sinceOpened,   \* Date.now() - openedAt, up to the cooldown
  running,       \* calls under way
  admittedAt     \* the epoch a call read when it was admitted
breakerVars == <<state, failures, epoch, probeInFlight, sinceOpened, running, admittedAt>>
vars == <<withEpoch, breakerVars>>

TypeOK ==
  /\ withEpoch \in BOOLEAN
  /\ state \in {"closed", "open", "half-open"}
  /\ failures \in Nat
  /\ epoch \in Nat /\ probeInFlight \in BOOLEAN
  /\ sinceOpened \in 0..CooldownMs
  /\ running \subseteq Call /\ admittedAt \in [Call -> Nat]

Init ==
  /\ withEpoch \in BOOLEAN
  /\ state = "closed" /\ failures = 0 /\ epoch = 0 /\ probeInFlight = FALSE
  /\ sinceOpened = 0
  /\ running = {} /\ admittedAt = [c \in Call |-> 0]

-----------------------------------------------------------------------------

Admit(c, e) ==
  /\ running' = running \cup {c}
  /\ admittedAt' = [admittedAt EXCEPT ![c] = e]

\* mutant: the probe is not remembered.
HalfOpenForgets(c, e) ==
  /\ Admit(c, e)
  /\ state' = "half-open" /\ epoch' = e /\ probeInFlight' = FALSE
  /\ UNCHANGED <<failures, sinceOpened>>

\* canCall() in the half-open state, entered now or before: one call is let through.
HalfOpen(c, e) ==
  /\ Admit(c, e)
  /\ state' = "half-open" /\ epoch' = e /\ probeInFlight' = TRUE
  /\ UNCHANGED <<failures, sinceOpened>>

\* A call that canCall() lets through.  One that it refuses changes nothing.
Begin(c) ==
  /\ c \notin running
  /\ \/ /\ state = "closed" /\ Admit(c, epoch)
        /\ UNCHANGED <<state, failures, epoch, probeInFlight, sinceOpened>>
     \/ state = "open" /\ sinceOpened = CooldownMs /\ epoch < MaxEpoch /\ HalfOpen(c, epoch + 1)
     \/ state = "half-open" /\ ~probeInFlight /\ HalfOpen(c, epoch)

Open ==
  /\ state' = "open" /\ sinceOpened' = 0 /\ probeInFlight' = FALSE
  /\ epoch' = epoch + 1

\* mutant: every result counts.
CountsAlways(c) == TRUE

\* recordSuccess and recordFailure ignore the result of an earlier epoch.
Counts(c) == withEpoch => admittedAt[c] = epoch

Ends(c) == c \in running /\ running' = running \ {c} /\ UNCHANGED admittedAt

Succeeds(c) ==
  /\ Ends(c)
  /\ IF Counts(c)
     THEN /\ state' = "closed" /\ probeInFlight' = FALSE /\ failures' = 0 /\ sinceOpened' = 0
          /\ UNCHANGED epoch
     ELSE UNCHANGED <<state, probeInFlight, failures, sinceOpened, epoch>>

\* mutant: the probe's failure is counted like any other and leaves the breaker half-open.
FailsSoftly(c) ==
  /\ Ends(c)
  /\ epoch < MaxEpoch
  /\ IF ~Counts(c) \/ state = "half-open" THEN UNCHANGED <<state, probeInFlight, failures, sinceOpened, epoch>>
     ELSE IF failures + 1 >= FailureThreshold THEN failures' = failures + 1 /\ Open
     ELSE failures' = failures + 1 /\ UNCHANGED <<state, probeInFlight, sinceOpened, epoch>>

Fails(c) ==
  /\ Ends(c)
  /\ epoch < MaxEpoch
  /\ IF ~Counts(c) THEN UNCHANGED <<state, probeInFlight, failures, sinceOpened, epoch>>
     ELSE IF state = "half-open" THEN Open /\ UNCHANGED failures
     ELSE IF failures + 1 >= FailureThreshold THEN failures' = failures + 1 /\ Open
     ELSE failures' = failures + 1 /\ UNCHANGED <<state, probeInFlight, sinceOpened, epoch>>

Tick ==
  /\ state = "open" /\ sinceOpened < CooldownMs
  /\ sinceOpened' = sinceOpened + 1
  /\ UNCHANGED <<state, failures, epoch, probeInFlight, running, admittedAt>>

Next ==
  /\ UNCHANGED withEpoch
  /\ Tick \/ \E c \in Call : Begin(c) \/ Succeeds(c) \/ Fails(c)

\* Time passes, every call ends (the gate and the bus answer every caller), and
\* the application goes on calling.
Fairness ==
  /\ WF_breakerVars(Tick)
  /\ \A c \in Call : WF_breakerVars(Succeeds(c) \/ Fails(c)) /\ WF_breakerVars(Begin(c))
Spec == Init /\ [][Next]_vars /\ Fairness

-----------------------------------------------------------------------------

(***************************************************************************)
(* One call is trusted at a time: while the breaker is half-open at most one *)
(* call that was admitted since it last opened is under way.                 *)
(***************************************************************************)
OneProbe ==
  state = "half-open" => Cardinality({c \in running : admittedAt[c] = epoch}) <= 1

(***************************************************************************)
(* The half-open breaker is settled by its probe: a call admitted before the *)
(* breaker opened, which may end at any time, neither closes nor reopens it. *)
(***************************************************************************)
ProbeDecides ==
  [][withEpoch /\ state = "half-open" /\ state' # "half-open" =>
       \E c \in running : c \notin running' /\ admittedAt[c] = epoch]_vars

(***************************************************************************)
(* An open breaker stays open for the cooldown, and then lets one call probe. *)
(***************************************************************************)
OpenUntilProbe ==
  [][withEpoch /\ state = "open" /\ state' # "open" => sinceOpened = CooldownMs /\ state' = "half-open"]_vars

(***************************************************************************)
(* The breaker is never stuck: it leaves the open and the half-open state,   *)
(* whatever results of earlier epochs arrive in between.                     *)
(***************************************************************************)
NeverStuck ==
  /\ (state = "half-open") ~> (state # "half-open" \/ epoch >= MaxEpoch)
  /\ (state = "open") ~> (state # "open" \/ epoch >= MaxEpoch)
=============================================================================
