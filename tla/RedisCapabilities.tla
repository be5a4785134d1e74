------------------------- MODULE RedisCapabilities -------------------------
(***************************************************************************)
(* Read-only capability discovery (cache/redisCapabilities.ts): two        *)
(* bounded requests, INFO and COMMAND INFO, turn into a manifest that says *)
(* of every command whether it is supported, unavailable or unknown; the   *)
(* registry keeps one manifest per connection and drops it when Redis      *)
(* reports ready again, or when the application says so.  The server       *)
(* behind the connection may be replaced between any two answers.          *)
(*                                                                         *)
(* A reply is abstracted to its shape and its entries; an entry to the     *)
(* command it describes and whether its fields have the expected types.    *)
(***************************************************************************)
EXTENDS Naturals, Sequences, FiniteSets

CONSTANTS
    Commands,       \* REDIS_CAPABILITY_COMMANDS
    Clients,        \* [methods, minMajor, commandNames]: a client's methods, and the options
                    \* minimumRedisMajorVersion and commandNames (may repeat or name others)
    MaxNames,       \* limits.maxCommandNames
    Servers,        \* the servers a connection can reach: [major, has]
    Errors,         \* how a request fails: [message, code]
    MaxDiscoveries, MaxReconnects, MaxInvalidations   \* bounds of the model

\* "null" stands for a null entry and names no command.
CapabilitiesAssumption ==
    /\ Commands \subseteq STRING /\ "null" \notin Commands
    /\ \A c \in Clients :
         /\ c.methods \subseteq {"info", "command", "on"}
         /\ c.minMajor \in Nat /\ c.commandNames \in Seq(STRING)
    /\ Servers \subseteq [major : Nat, has : SUBSET STRING]
    /\ MaxNames \in Nat /\ MaxDiscoveries \in Nat /\ MaxReconnects \in Nat
    /\ MaxInvalidations \in Nat

\* The minimum of the health check, which no option changes.
MINIMUM_REDIS_MAJOR_VERSION == 6

Discoveries == 1..MaxDiscoveries
Null == [name |-> "null", typed |-> TRUE]
Entry(name) == [name |-> name, typed |-> TRUE]

VARIABLES
    methods,     \* the methods the client has, of info(), command() and on()
    minMajor,    \* options.minimumRedisMajorVersion
    names,       \* the command names discovery asks about
    server,      \* the server behind the current connection
    epoch,       \* connections made so far
    manifest,    \* [Discoveries -> a discovery and what it has found]
    started,     \* discoveries started
    slot,        \* RedisCapabilityRegistry.manifestPromise: a discovery or 0
    dropped,     \* calls of invalidate(), that of close() included
    closed       \* close() was called: the ready listener is detached

options == <<methods, minMajor, names>>
vars == <<options, server, epoch, manifest, started, slot, dropped, closed>>

\* attachRedisReconnectInvalidation: a client without on() has no listener.
Attached == "on" \in methods /\ ~closed

State(status, reason) == [status |-> status, reason |-> reason]
All(status, reason) == [c \in Commands |-> State(status, reason)]

Contains(s, name) == \E i \in 1..Len(s) : s[i] = name
Backwards(s) == [i \in 1..Len(s) |-> s[Len(s) - i + 1]]

\* mutant: a name is asked about as often as it is given, whatever the limit
NormalizeAll(requested) == SelectSeq(requested, LAMBDA name : name \in Commands)

\* The allowed names, each once, in the order asked for, up to the limit.
normalizeCommandNames(requested) ==
    LET upTo[n \in 0..Len(requested)] ==
          IF n = 0 THEN <<>>
          ELSE LET acc == upTo[n - 1]
                   name == requested[n]
               IN  IF name \in Commands /\ ~Contains(acc, name) /\ Len(acc) < MaxNames
                   THEN Append(acc, name) ELSE acc
    IN  upTo[Len(requested)]

------------------------------------------------------------------------------
(* Errors (cache/redisHealth.ts and failureState) *)

\* A code makes any other message transport.
classifyRedisError(error) ==
    CASE error.message = "noperm"          -> "acl"
      [] error.message = "unknown-command" -> "unknown-command"
      [] OTHER -> IF error.code \/ error.message = "socket" THEN "transport" ELSE "command"

stateForIssue(kind) ==
    CASE kind = "acl"                 -> State("unavailable", "acl-denied")
      [] kind = "unknown-command"     -> State("unavailable", "unknown-command")
      [] kind = "transport"           -> State("unknown", "transport")
      [] OTHER                        -> State("unknown", "command-error")

failureState(error) ==
    IF error.message = "timeout" THEN State("unknown", "timeout")
    ELSE stateForIssue(classifyRedisError(error))

TimedOut == [message |-> "timeout", code |-> TRUE]

\* getRedisCoreHealth of an INFO answer: the kind of its issue, or "ok".
getRedisCoreHealth(answer) ==
    CASE answer.kind = "error" -> classifyRedisError(answer.error)
      [] answer.kind = "text" -> IF answer.major >= MINIMUM_REDIS_MAJOR_VERSION THEN "ok"
                                    ELSE "unsupported-version"
      [] OTHER -> "malformed-info"

------------------------------------------------------------------------------
(* COMMAND INFO replies *)

\* mutant: an entry is accepted whatever command it describes
IsEntryOfAnyName(value, expected) == value # Null /\ value.typed

isCommandInfoEntry(value, expected) ==
    value # Null /\ value.name = expected /\ value.typed

\* An adapter may unwrap a one-element array ("entry") or key the entries by
\* name ("record"): a name missing from the record is not a null entry.
\* Anything but one acceptable entry or null per name is malformed.
parseCommandInfoReply(reply, asked) ==
    LET entries ==
          CASE reply.shape = "entry"  -> IF Len(asked) = 1
                                            /\ isCommandInfoEntry(reply.entries[1], asked[1])
                                         THEN reply.entries ELSE <<>>
            [] reply.shape = "scalar" -> <<>>
            [] OTHER -> reply.entries
        valid == /\ reply.shape # "scalar"
                 /\ Len(entries) = Len(asked)
                 /\ \A i \in 1..Len(asked) :
                       entries[i] = Null \/ isCommandInfoEntry(entries[i], asked[i])
    IN  [valid |-> valid,
         supported |-> IF valid
                       THEN {asked[i] : i \in {j \in 1..Len(asked) : entries[j] # Null}}
                       ELSE {}]

\* external: what a server answers to COMMAND INFO, in the shapes adapters
\* give it, and what a proxy or an adapter may make of it: entries out of
\* order, missing, ill-typed, or too many bytes.
CommandReplies(srv, asked) ==
    LET honest == [i \in 1..Len(asked) |->
                      IF asked[i] \in srv.has THEN Entry(asked[i]) ELSE Null]
        Reply(shape, entries, big) == [shape |-> shape, entries |-> entries, big |-> big]
    IN  {Reply(s, honest, FALSE) : s \in {"array", "record"}}
        \union {Reply("entry", e, FALSE) : e \in {honest} \cap [{1} -> {Entry(c) : c \in Commands}]}
        \union {Reply("array", Backwards(honest), FALSE),
                Reply("array", Tail(honest), FALSE),
                Reply("array", [i \in DOMAIN honest |-> [honest[i] EXCEPT !.typed = FALSE]], FALSE),
                Reply("scalar", <<>>, FALSE),
                Reply("array", honest, TRUE)}

\* external: what INFO server may answer: its version line, a text without
\* one, too many bytes, an error.
InfoAnswers(srv) ==
    {[kind |-> "text", major |-> srv.major]}
    \union [kind : {"garbled", "big"}]
    \union {[kind |-> "error", error |-> e] : e \in Errors}

------------------------------------------------------------------------------
(* Discovery *)

Nothing == [phase |-> "none", info |-> State("unknown", "not-queried"),
            commandInfo |-> State("unknown", "not-queried"),
            capabilities |-> All("unknown", "not-queried"),
            since |-> 0, turn |-> 0, answered |-> {}, health |-> "none"]

infoState(answer) ==
    CASE answer.kind = "absent" -> State("unknown", "client-method-unavailable")
      [] answer.kind = "big"    -> State("unavailable", "response-too-large")
      [] answer.kind = "text"   -> State("supported", "advertised")
      [] answer.kind = "error"  -> failureState(answer.error)
      [] OTHER -> State("unavailable", "malformed-response")

\* mutant: an old server is asked for its commands like any other
NoVersionGate(d, answer) ==
    [d EXCEPT !.info = infoState(answer), !.phase = "command",
              !.health = getRedisCoreHealth(answer)]

\* The INFO answer settles the version, or leaves it unknown; a version below
\* the minimum of the options ends the discovery with every command unavailable.
applyInfo(d, answer) ==
    LET base == [d EXCEPT !.info = infoState(answer), !.phase = "command",
                          !.health = getRedisCoreHealth(answer)]
    IN  IF answer.kind = "text" /\ answer.major < minMajor
        THEN [base EXCEPT !.phase = "done",
                          !.commandInfo = State("unavailable", "unsupported-version"),
                          !.capabilities = All("unavailable", "unsupported-version")]
        ELSE base

markUnknown(d, st) ==
    [d EXCEPT !.phase = "done", !.commandInfo = st,
              !.capabilities = All("unknown", st.reason)]

applyCommands(d, reply, asked) ==
    LET parsed == parseCommandInfoReply(reply, asked)
    IN  CASE reply.big -> markUnknown(d, State("unavailable", "response-too-large"))
          [] ~reply.big /\ ~parsed.valid ->
               markUnknown(d, State("unavailable", "malformed-response"))
          [] OTHER ->
               [d EXCEPT !.phase = "done", !.commandInfo = State("supported", "advertised"),
                         !.capabilities = [c \in Commands |->
                              IF ~Contains(asked, c) THEN @[c]
                              ELSE IF c \in parsed.supported THEN State("supported", "advertised")
                              ELSE State("unavailable", "unknown-command")]]

hasRedisCapability(d, c) == d.capabilities[c].status = "supported"

------------------------------------------------------------------------------
(* The registry *)

\* A discovery starts, on the current connection.
Discover ==
    /\ started < MaxDiscoveries
    /\ started' = started + 1 /\ slot' = started + 1
    /\ manifest' = [manifest EXCEPT ![started + 1] =
                       [Nothing EXCEPT !.phase = "info", !.since = epoch, !.turn = dropped]]
    /\ UNCHANGED <<options, server, epoch, dropped, closed>>

\* mutant: every call discovers again
GetWithoutSharing == Discover

\* get(): the first caller starts a discovery, the others share its promise.
Get == slot = 0 /\ Discover

\* A server whose version was read has answered.
Settle(d, answer) ==
    /\ manifest[d].phase = "info"
    /\ manifest' = [manifest EXCEPT ![d] =
                       [applyInfo(manifest[d], answer) EXCEPT
                          !.answered = IF answer.kind = "text" THEN @ \union {server} ELSE @]]
    /\ UNCHANGED <<options, server, epoch, started, slot, dropped, closed>>

InfoAnswered(d) ==
    "info" \in methods /\ \E answer \in InfoAnswers(server) : Settle(d, answer)

InfoMissing(d) == "info" \notin methods /\ Settle(d, [kind |-> "absent"])

\* mutant: a request that is not answered is waited for
NeverTimesOut(d) == FALSE /\ UNCHANGED vars

\* withTimeout: the race is lost, a later answer is ignored.
InfoTimeout(d) == "info" \in methods /\ Settle(d, [kind |-> "error", error |-> TimedOut])

Conclude(d, outcome) ==
    /\ manifest[d].phase = "command"
    /\ manifest' = [manifest EXCEPT ![d] = outcome]
    /\ UNCHANGED <<options, server, epoch, started, slot, dropped, closed>>

\* The client may lack command(), and with no name left nothing is asked.
CommandsSkipped(d) ==
    \/ /\ "command" \notin methods
       /\ Conclude(d, markUnknown(manifest[d], State("unknown", "client-method-unavailable")))
    \/ /\ "command" \in methods /\ names = <<>>
       /\ Conclude(d, [manifest[d] EXCEPT !.phase = "done"])

Asked == "command" \in methods /\ names # <<>>

CommandsAnswered(d) ==
    /\ Asked
    /\ \E reply \in CommandReplies(server, names) :
          Conclude(d, [applyCommands(manifest[d], reply, names)
                          EXCEPT !.answered = @ \union {server}])

CommandsFailed(d) ==
    Asked /\ \E e \in Errors : Conclude(d, markUnknown(manifest[d], failureState(e)))

CommandsTimeout(d) == Asked /\ Conclude(d, markUnknown(manifest[d], failureState(TimedOut)))

\* mutant: a discovery under way survives the reconnection
KeepUnfinished ==
    /\ epoch < MaxReconnects
    /\ epoch' = epoch + 1 /\ server' \in Servers
    /\ slot' = IF slot # 0 /\ manifest[slot].phase # "done" THEN slot ELSE 0
    /\ UNCHANGED <<options, manifest, started, dropped, closed>>

\* The connection is replaced and Redis reports ready: the registry's
\* listener, while it is attached, drops the manifest or the promise of one.
Reconnect ==
    /\ epoch < MaxReconnects
    /\ epoch' = epoch + 1 /\ server' \in Servers
    /\ slot' = IF Attached THEN 0 ELSE slot
    /\ UNCHANGED <<options, manifest, started, dropped, closed>>

\* invalidate(), which the application may call at any time.
Invalidate ==
    /\ slot # 0 /\ dropped < MaxInvalidations
    /\ slot' = 0 /\ dropped' = dropped + 1
    /\ UNCHANGED <<options, server, epoch, manifest, started, closed>>

Close ==
    /\ ~closed /\ closed' = TRUE /\ slot' = 0 /\ dropped' = dropped + 1
    /\ UNCHANGED <<options, server, epoch, manifest, started>>

\* The client and the options of discovery.
Given(client) ==
    /\ methods = client.methods /\ minMajor = client.minMajor
    /\ names = normalizeCommandNames(client.commandNames)

Init ==
    /\ \E client \in Clients : Given(client)
    /\ server \in Servers /\ epoch = 0
    /\ manifest = [d \in Discoveries |-> Nothing] /\ started = 0
    /\ slot = 0 /\ dropped = 0 /\ closed = FALSE

Next ==
    \/ Get \/ Reconnect \/ Invalidate \/ Close
    \/ \E d \in Discoveries :
          \/ InfoAnswered(d) \/ InfoMissing(d) \/ InfoTimeout(d) \/ CommandsSkipped(d)
          \/ CommandsAnswered(d) \/ CommandsFailed(d) \/ CommandsTimeout(d)

\* Only this process and its timers are fair: the server may never answer.
Fairness ==
    \A d \in Discoveries :
       /\ WF_vars(InfoMissing(d)) /\ WF_vars(InfoTimeout(d))
       /\ WF_vars(CommandsSkipped(d)) /\ WF_vars(CommandsTimeout(d))
Spec == Init /\ [][Next]_vars /\ Fairness

------------------------------------------------------------------------------
(* Properties *)

TypeOK ==
    /\ names \in Seq(Commands) /\ Len(names) <= MaxNames
    /\ server \in Servers /\ epoch \in 0..MaxReconnects
    /\ started \in 0..MaxDiscoveries /\ slot \in 0..started
    /\ dropped \in 0..(MaxInvalidations + 1) /\ closed \in BOOLEAN
    /\ \A d \in Discoveries :
          /\ manifest[d].phase \in {"none", "info", "command", "done"}
          /\ \A c \in Commands : manifest[d].capabilities[c].status
                                    \in {"supported", "unavailable", "unknown"}

Done == {d \in Discoveries : manifest[d].phase = "done"}

\* A command is advertised only when a server that answered this discovery
\* has it, and called unavailable only when such a server lacks it or is
\* below the minimum version of the options: an INFO that failed or timed
\* out, a reply out of order, cut short, ill-typed, too large or refused never
\* settles the question (parseCommandInfoReply, markUnknown).
VerdictsAreReal ==
    \A d \in Done, c \in Commands :
       /\ hasRedisCapability(manifest[d], c) =>
             \E s \in manifest[d].answered : c \in s.has
       /\ manifest[d].capabilities[c].status = "unavailable" =>
             \E s \in manifest[d].answered : c \notin s.has \/ s.major < minMajor

\* Unless the application lowers minimumRedisMajorVersion below the minimum
\* of the health check, a manifest never advertises a command of a server
\* whose version that check of the same INFO answer refuses (the version gate
\* before COMMAND INFO against getRedisCoreHealth).  With a lower option it
\* does: the health check does not read the option.
RefusedServerAdvertisesNothing ==
    minMajor >= MINIMUM_REDIS_MAJOR_VERSION =>
      \A d \in Done : manifest[d].health = "unsupported-version" =>
         \A c \in Commands : ~hasRedisCapability(manifest[d], c)

\* While a listener is attached, the manifest get() hands out was
\* discovered, from its first request on, over the current connection
\* (invalidate on 'ready', also of a discovery still under way).  A client
\* without on(), or a closed registry, keeps its manifest over reconnections.
CachedIsCurrent ==
    Attached /\ slot # 0 => manifest[slot].since = epoch

\* Simultaneous callers share one discovery: over one connection a second
\* discovery starts only after invalidate() or close() dropped the first.
OneDiscoveryPerConnection ==
    \A d, e \in 1..started :
       d # e /\ manifest[d].since = manifest[e].since => manifest[d].turn # manifest[e].turn

\* Every discovery ends with a manifest, whatever fails (withTimeout).
DiscoveryEnds ==
    []<>(\A d \in Discoveries : manifest[d].phase \notin {"info", "command"})
=============================================================================
