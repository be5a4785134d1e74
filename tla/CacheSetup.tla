------------------------------ MODULE CacheSetup ------------------------------
(***************************************************************************)
(* setupCache() and the cleanup of ManagedLazyLayersCache: the clients,      *)
(* buses and caches that one call creates, the checks it waits for under a   *)
(* timeout, and who closes what when a check fails or the application closes *)
(* the cache.  The options are chosen in the initial state.                  *)
(***************************************************************************)
EXTENDS Naturals, Sequences, FiniteSets

VARIABLES
  opts,         \* what the application passed; `lateDial`: its own bus lets a dial under way
                \* finish after disconnect(), as RabbitMQEventBus and NatsEventBus do
  todo,         \* the checks still to make; the first one is awaited
  pc,           \* "start", "checking", "ready" (cache.ready() awaited), "cleaning",
                \* "returned", "closing" and "quitting" (close()), "closed", "failed",
                \* "threw" (out of a constructor)
  ownedRedis, callerRedis, subscriber,   \* connections: "none", "open", "closed"
  transport,    \* the connection of the application's bus; also "dialing", "adrift" (a dial
                \* that goes on after disconnect()) and "stray" (opened by such a dial)
  cache,        \* "none", "open", "closed"
  heard,        \* the checks that were answered well
  seen          \* how the others ended
vars == <<opts, todo, pc, ownedRedis, callerRedis, subscriber, transport, cache, heard, seen>>
connections == <<ownedRedis, callerRedis, subscriber, transport>>

Options ==
  {o \in [redis : {"none", "client", "url", "missing"}, kv : BOOLEAN, l2 : {"default", "off"},
          bus : {"default", "own", "off"}, lateDial : BOOLEAN, requireHealthy : BOOLEAN] :
     o.lateDial => o.bus = "own"}
Check == {"kv", "core", "ping", "bus", "cache"}
Outcome == {"ok", "refused", "timeout", "acl", "unknown-command", "malformed", "old", "unhealthy", "error"}

TypeOK ==
  /\ opts \in Options /\ todo \in Seq(Check) /\ heard \subseteq Check \cup {"ready"} /\ seen \subseteq Outcome
  /\ pc \in {"start", "checking", "ready", "cleaning", "returned", "closing", "quitting", "closed", "failed", "threw"}
  /\ {ownedRedis, callerRedis, subscriber} \subseteq {"none", "open", "closed"}
  /\ transport \in {"none", "dialing", "open", "closed", "adrift", "stray"} /\ cache \in {"none", "open", "closed"}
  /\ cache = "open" => ownedRedis # "closed"

Init ==
  /\ opts \in Options
  /\ todo = <<>> /\ pc = "start" /\ ownedRedis = "none" /\ subscriber = "none" /\ transport = "none"
  /\ callerRedis = IF opts.redis = "client" THEN "open" ELSE "none"
  /\ cache = "none" /\ heard = {} /\ seen = {}

-----------------------------------------------------------------------------
HasRedis == opts.redis \in {"client", "url"}
GeneratedBus == HasRedis /\ opts.bus = "default"
HasBus == GeneratedBus \/ opts.bus = "own"

\* The checks that setupCache makes, in its order.
Needed(c) ==
  CASE c = "kv"    -> opts.kv /\ opts.l2 = "default"
    [] c = "core"  -> HasRedis
    [] c = "ping"  -> HasRedis /\ ~HasBus
    [] c = "bus"   -> HasBus
    [] c = "cache" -> TRUE
Only(c) == IF Needed(c) THEN <<c>> ELSE <<>>
Plan == Only("kv") \o Only("core") \o Only("ping") \o Only("bus") \o Only("cache")

\* The awaited check is starting: the application's bus dials.
Dials(rest) == IF rest # <<>> /\ Head(rest) = "bus" /\ opts.bus = "own" THEN "dialing" ELSE transport

\* The clients, the store and the bus are made before the first check.
Start ==
  /\ pc = "start"
  /\ IF opts.redis = "missing" THEN pc' = "failed" /\ UNCHANGED <<todo, connections>>
     ELSE /\ pc' = "checking" /\ todo' = Plan
          /\ ownedRedis' = IF opts.redis = "url" THEN "open" ELSE "none"
          /\ subscriber' = IF GeneratedBus THEN "open" ELSE "none"
          /\ transport' = Dials(Plan) /\ UNCHANGED callerRedis
  /\ UNCHANGED <<opts, cache, heard, seen>>

\* The constructor of the store or of the bus throws: no handler is in place yet.
StartThrows ==
  /\ pc = "start" /\ HasRedis /\ pc' = "threw"
  /\ ownedRedis' = IF opts.redis = "url" THEN "open" ELSE "none"
  /\ UNCHANGED <<opts, todo, callerRedis, subscriber, transport, cache, heard, seen>>

\* classifyRedisError and getRedisCoreHealth: what kind of failure an outcome is.  A
\* refused connection carries a code; the error of withSetupTimeout has none, and its
\* message is not one that the classification knows.
Issue(out) ==
  CASE out = "acl" -> "acl"
    [] out = "unknown-command" -> "unknown-command"
    [] out = "malformed" -> "malformed-info"
    [] out = "old" -> "unsupported-version"
    [] out = "refused" -> "transport"
    [] OTHER -> "command"

\* mutant: the subscription is awaited without a timeout.
OutcomesOfPatientBus(c) ==
  CASE c = "core" -> {"ok", "refused", "timeout", "acl", "unknown-command", "malformed", "old"}
    [] c = "bus" -> {"ok", "unhealthy", "error"}
    [] c = "cache" -> {"ok", "error"}
    [] OTHER -> {"ok", "timeout", "error"}

Outcomes(c) ==
  CASE c = "core" -> {"ok", "refused", "timeout", "acl", "unknown-command", "malformed", "old"}
    [] c = "bus" -> {"ok", "unhealthy", "timeout", "error"}
    [] c = "cache" -> {"ok", "error"}
    [] OTHER -> {"ok", "timeout", "error"}

\* mutant: without requireHealthy no answer of the server matters.
FatalOptional(c, out) == out # "ok" /\ (opts.requireHealthy \/ c = "cache")

\* mutant: a bus that answers that it is unhealthy is accepted.
FatalAnswered(c, out) ==
  /\ out \notin {"ok", "unhealthy"}
  /\ CASE c = "core" -> opts.requireHealthy \/ Issue(out) # "transport"
       [] c = "cache" -> TRUE
       [] OTHER -> opts.requireHealthy

Fatal(c, out) ==
  /\ out # "ok"
  /\ CASE c = "core" -> opts.requireHealthy \/ Issue(out) # "transport"
       [] c = "cache" -> TRUE
       [] OTHER -> opts.requireHealthy

\* The awaited check ends.  A dial whose check timed out goes on by itself.
CheckEnds(out) ==
  /\ pc = "checking"
  /\ LET c == Head(todo) IN
     /\ out \in Outcomes(c)
     /\ heard' = IF out = "ok" THEN heard \cup {c} ELSE heard
     /\ seen' = IF out = "ok" THEN seen ELSE seen \cup {out}
     /\ cache' = IF c = "cache" /\ out = "ok" THEN "open" ELSE cache
     /\ todo' = Tail(todo)
     /\ transport' = CASE c = "bus" /\ opts.bus = "own" /\ out = "ok" -> "open"
                       [] c = "bus" /\ opts.bus = "own" /\ out \in {"unhealthy", "error"} -> "none"
                       [] OTHER -> Dials(Tail(todo))
     /\ pc' = IF Fatal(c, out) THEN "cleaning"
              ELSE IF c # "cache" THEN "checking"
              ELSE IF opts.requireHealthy THEN "ready" ELSE "returned"
  /\ UNCHANGED <<opts, ownedRedis, callerRedis, subscriber>>

\* cache.ready(), which setupCache awaits when it requires health.
ReadyEnds(out) ==
  /\ pc = "ready" /\ out \in (IF HasBus THEN {"ok", "timeout", "error"} ELSE {"ok"})
  /\ heard' = IF out = "ok" THEN heard \cup {"ready"} ELSE heard
  /\ seen' = IF out = "ok" THEN seen ELSE seen \cup {out}
  /\ pc' = IF out = "ok" THEN "returned" ELSE "cleaning"
  /\ UNCHANGED <<opts, todo, connections, cache>>

\* The dial of a check that timed out ends after all, perhaps after disconnect().
LateDial(out) ==
  /\ transport \in {"dialing", "adrift"} /\ ~(pc = "checking" /\ Head(todo) = "bus")
  /\ transport' = IF out # "ok" THEN "none" ELSE IF transport = "dialing" THEN "open" ELSE "stray"
  /\ UNCHANGED <<opts, todo, pc, ownedRedis, callerRedis, subscriber, cache, heard, seen>>

-----------------------------------------------------------------------------
\* What disconnect() makes of the connection of the application's bus.
Disconnected ==
  IF transport = "dialing" /\ opts.lateDial THEN "adrift"
  ELSE IF transport \in {"dialing", "open"} THEN "closed" ELSE transport

\* mutant: the client that the bus publishes on is disconnected with it.
BusDisconnectedBoth ==
  /\ subscriber' = IF GeneratedBus /\ subscriber = "open" THEN "closed" ELSE subscriber
  /\ callerRedis' = IF GeneratedBus /\ callerRedis = "open" THEN "closed" ELSE callerRedis
  /\ transport' = Disconnected

\* disconnect() of the bus: the subscriber of a Redis bus, the connection of another.
BusDisconnected ==
  /\ subscriber' = IF GeneratedBus /\ subscriber = "open" THEN "closed" ELSE subscriber
  /\ transport' = Disconnected
  /\ UNCHANGED callerRedis

RedisClosed == ownedRedis' = IF ownedRedis = "open" THEN "closed" ELSE ownedRedis

\* mutant: the cache is closed and setup's own client is not.
CleanupForgetsClient ==
  /\ pc = "cleaning" /\ pc' = "failed"
  /\ cache' = IF cache = "open" THEN "closed" ELSE cache
  /\ BusDisconnected /\ UNCHANGED ownedRedis
  /\ UNCHANGED <<opts, todo, heard, seen>>

\* The catch of setupCache: close() of the cache, or the bus and the client alone.
Cleanup ==
  /\ pc = "cleaning" /\ pc' = "failed"
  /\ cache' = IF cache = "open" THEN "closed" ELSE cache
  /\ BusDisconnected /\ RedisClosed
  /\ UNCHANGED <<opts, todo, heard, seen>>

\* close() of the managed cache: the cache and its bus first ...
Close ==
  /\ pc = "returned" /\ pc' = "closing" /\ cache' = "closed"
  /\ BusDisconnected
  /\ UNCHANGED <<opts, todo, ownedRedis, heard, seen>>

\* ... which may fail and is remembered ...
CacheClosed(ok) ==
  /\ pc = "closing" /\ pc' = "quitting"
  /\ seen' = IF ok THEN seen ELSE seen \cup {"error"}
  /\ UNCHANGED <<opts, todo, connections, cache, heard>>

\* ... then QUIT, or disconnect() when that fails.
Quit ==
  /\ pc = "quitting" /\ pc' = "closed"
  /\ RedisClosed
  /\ UNCHANGED <<opts, todo, callerRedis, subscriber, transport, cache, heard, seen>>

Next ==
  \/ Start \/ StartThrows \/ Cleanup \/ Close \/ Quit
  \/ \E out \in Outcome : CheckEnds(out) \/ ReadyEnds(out)
  \/ \E ok \in {"ok", "error"} : LateDial(ok)
  \/ \E ok \in BOOLEAN : CacheClosed(ok)

\* A step that no server has a say in: a timer, or a check without a request.
Unaided(out) == out = "timeout" \/ (pc = "checking" /\ Head(todo) = "cache") \/ (pc = "ready" /\ ~HasBus)

\* Servers may never answer; the timers fire and the calls of the cleanup settle.
Fairness ==
  /\ WF_vars(Start \/ StartThrows)
  /\ WF_vars(\E out \in Outcome : Unaided(out) /\ (CheckEnds(out) \/ ReadyEnds(out)))
  /\ WF_vars(Cleanup) /\ WF_vars(\E ok \in BOOLEAN : CacheClosed(ok)) /\ WF_vars(Quit)
Spec == Init /\ [][Next]_vars /\ Fairness

-----------------------------------------------------------------------------

(***************************************************************************)
(* When a check of setupCache() has failed or the cache has been closed, no  *)
(* connection that either made is open, with two exceptions.  A dial that is *)
(* under way when a bus of the application's own is disconnected may leave a *)
(* connection behind ("stray"): RabbitMQEventBus and NatsEventBus do not     *)
(* take such a dial back, and with a bus that does, none is left.  And a     *)
(* constructor that throws before the first check ("threw") leaves setup's   *)
(* own client behind.                                                        *)
(***************************************************************************)
NothingLeaks ==
  /\ pc \in {"failed", "closed"} => "open" \notin {ownedRedis, subscriber, transport}
  /\ transport = "stray" => opts.bus = "own" /\ opts.lateDial

(***************************************************************************)
(* A client the application passed in stays the application's: no failure of *)
(* a check, no cleanup and no close() disconnects it.                        *)
(***************************************************************************)
CallerKeepsClient == opts.redis = "client" => callerRedis = "open"

(***************************************************************************)
(* Startup is strict: a cache that setupCache() returns with requireHealthy  *)
(* has had every configured part answer, and its subscription.               *)
(***************************************************************************)
StrictStartup ==
  pc = "returned" /\ opts.requireHealthy =>
    {c \in Check : Needed(c)} \cup {"ready"} \subseteq heard

(***************************************************************************)
(* A server that is too old, denies INFO or is no Redis is never accepted,   *)
(* whatever the startup options say.                                         *)
(***************************************************************************)
NeverDowngrades ==
  pc = "returned" => seen \cap {"acl", "unknown-command", "malformed", "old"} = {}

(***************************************************************************)
(* setupCache() always answers, and close() always ends.                     *)
(***************************************************************************)
SetupEnds == []<>(pc \in {"returned", "closed", "failed", "threw"})
=============================================================================
