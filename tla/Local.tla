-------------------------------- MODULE Local --------------------------------
(***************************************************************************)
(* Parts that live inside one process or serve one call.  A behaviour is    *)
(* about one of them, chosen at the start; the others stay as they are:     *)
(*   "memory"       the L1 stores and the budget they share,                *)
(*   "setup"        setupCache() and close(),                               *)
(*   "capabilities" capability discovery and its registry,                  *)
(*   "kv"           purges of a KV namespace,                               *)
(*   "reads"        getOrSet().                                             *)
(***************************************************************************)
EXTENDS Integers, Sequences, FiniteSets

CONSTANTS
  Store, Key, Bytes, OtherBytes, HardCap, MinMemory, MaxEntries, MaxEntryBytes, HistoryBytes,
  MaxEvictionsPerWrite, EvictionsPerSample, PressureWindow, RecoveryWindow, CursorPeriod,
                                                                      \* of MemoryStore
  Commands, Clients, MaxNames, Servers, Errors, MaxDiscoveries, MaxReconnects, MaxInvalidations,
                                                                      \* of RedisCapabilities
  Name, Ours, Under, Matching, Late, MaxScan, PageSize, MinPage, MaxPuts,   \* of KVStore
  Caller, Nobody, Settings                                            \* of ReadThrough

VARIABLES
  part,
  used, categories, target, pressure, pressureFor, recoveryFor, clients, cursor,
  lru, bytes, open, closedStores, history,
  opts, todo, pc, ownedRedis, callerRedis, subscriber, transport, cache, heard, seen,
  methods, minMajor, names, server, connection, manifest, started, slot, dropped, detached,
  trailing, present, listed, puts, scan,
  setting, db, l1, aux, call, write, trust, closed, mutations, outages, lapses, floor, missed,
  kept, joined

Memory == INSTANCE MemoryStore WITH state <- pressure, closed <- closedStores
Setup == INSTANCE CacheSetup
Capabilities == INSTANCE RedisCapabilities WITH epoch <- connection, closed <- detached
Listing == INSTANCE KVStore
Reads == INSTANCE ReadThrough

ASSUME LocalAssumption ==
  /\ Memory!MemoryAssumption /\ Capabilities!CapabilitiesAssumption
  /\ Listing!KVAssumption /\ Reads!ReadThroughAssumption

memoryVars == <<used, categories, target, pressure, pressureFor, recoveryFor, clients, cursor,
                lru, bytes, open, closedStores, history>>
setupVars == <<opts, todo, pc, ownedRedis, callerRedis, subscriber, transport, cache, heard, seen>>
capabilityVars == <<methods, minMajor, names, server, connection, manifest, started, slot, dropped,
                    detached>>
kvVars == <<trailing, present, listed, puts, scan>>
readVars == <<setting, db, l1, aux, call, write, trust, closed, mutations, outages, lapses, floor,
              missed, kept, joined>>
vars == <<part, memoryVars, setupVars, capabilityVars, kvVars, readVars>>

\* One initial state for every part that the behaviour is not about.
Init ==
  /\ part \in {"memory", "setup", "capabilities", "kv", "reads"}
  /\ Memory!Init
  /\ Setup!Init /\ (part # "setup" => opts = CHOOSE o \in Setup!Options : o.redis = "none")
  /\ Capabilities!Init
  /\ part # "capabilities" =>
       /\ Capabilities!Given(CHOOSE client \in Clients : TRUE)
       /\ server = CHOOSE s \in Servers : TRUE
  /\ Listing!Init /\ (part # "kv" => present = {} /\ listed = {} /\ ~trailing)
  /\ Reads!Init /\ (part # "reads" => setting = CHOOSE s \in Settings : TRUE)

Next ==
  \/ part = "memory" /\ Memory!Next /\ UNCHANGED <<part, setupVars, capabilityVars, kvVars, readVars>>
  \/ part = "setup" /\ Setup!Next /\ UNCHANGED <<part, memoryVars, capabilityVars, kvVars, readVars>>
  \/ part = "capabilities" /\ Capabilities!Next /\ UNCHANGED <<part, memoryVars, setupVars, kvVars, readVars>>
  \/ part = "kv" /\ Listing!Next /\ UNCHANGED <<part, memoryVars, setupVars, capabilityVars, readVars>>
  \/ part = "reads" /\ Reads!Next /\ UNCHANGED <<part, memoryVars, setupVars, capabilityVars, kvVars>>

MemoryFairness ==
  WF_memoryVars(part = "memory" /\ clients # <<>>
                  /\ \E signal \in Memory!Signals : Memory!Sample(signal))
SetupFairness ==
  /\ WF_setupVars(part = "setup" /\ (Setup!Start \/ Setup!StartThrows))
  /\ WF_setupVars(part = "setup" /\ 
       \E out \in Setup!Outcome : Setup!Unaided(out) /\ (Setup!CheckEnds(out) \/ Setup!ReadyEnds(out)))
  /\ WF_setupVars(part = "setup" /\ Setup!Cleanup)
  /\ WF_setupVars(part = "setup" /\ \E ok \in BOOLEAN : Setup!CacheClosed(ok))
  /\ WF_setupVars(part = "setup" /\ Setup!Quit)
CapabilityFairness ==
  \A d \in Capabilities!Discoveries :
    /\ WF_capabilityVars(part = "capabilities" /\ Capabilities!InfoMissing(d))
    /\ WF_capabilityVars(part = "capabilities" /\ Capabilities!InfoTimeout(d))
    /\ WF_capabilityVars(part = "capabilities" /\ Capabilities!CommandsSkipped(d))
    /\ WF_capabilityVars(part = "capabilities" /\ Capabilities!CommandsTimeout(d))

KVFairness == WF_kvVars(part = "kv" /\ Listing!Progress /\ UNCHANGED trailing)

ReadFairness ==
  \A c \in Caller : WF_readVars(part = "reads" /\ Reads!Progress(c) /\ UNCHANGED setting)

Spec == /\ Init /\ [][Next]_vars
        /\ MemoryFairness /\ SetupFairness /\ CapabilityFairness /\ KVFairness /\ ReadFairness

------------------------------------------------------------------------------
\* The types of the parts' fields.
TypeOK ==
  Memory!TypeOK /\ Setup!TypeOK /\ Capabilities!TypeOK /\ Listing!TypeOK /\ Reads!TypeOK

\* The budget's ledger is the sum of what the stores hold, of their histories and of the
\* other users' reservations, on every path on which an entry leaves.
LedgerExact == Memory!LedgerExact

\* Whatever becomes of a set or a delete, no earlier value of the key is served.
NoObsoleteValue == Memory!NoObsoleteValue

\* Sampling brings the ledger under its target, wherever the entries are.
PressureRelieved == Memory!PressureRelieved

\* When a check of setupCache() failed or the cache was closed, nothing it made is open; only
\* a dial that a bus of the application's own leaves under way may open a connection later.
NothingLeaks == Setup!NothingLeaks

\* The application's own client survives every failure, cleanup and close.
CallerKeepsClient == Setup!CallerKeepsClient

\* A strict start means that every configured part answered.
StrictStartup == Setup!StrictStartup

\* An old server, one that denies INFO or one that is no Redis is never accepted.
NeverDowngrades == Setup!NeverDowngrades

\* setupCache() answers and close() ends.
SetupEnds == []<>(part = "setup" => pc \in {"returned", "closed", "failed", "threw"})

\* A capability is advertised, or denied, only on the word of a server that answered.
VerdictsAreReal == Capabilities!VerdictsAreReal

\* A server that the health check refuses advertises no command, unless the application lowered
\* the minimum version of discovery.
RefusedServerAdvertisesNothing == Capabilities!RefusedServerAdvertisesNothing

\* While its listener is attached, the manifest get() hands out was discovered over the current
\* connection.
CachedIsCurrent == Capabilities!CachedIsCurrent

\* Simultaneous callers share one discovery until invalidate() or close() drops it.
OneDiscoveryPerConnection == Capabilities!OneDiscoveryPerConnection

\* Every discovery ends with a manifest, whatever fails.
DiscoveryEnds == Capabilities!DiscoveryEnds

\* A purge that succeeds has deleted every matching name that was listed when it began and
\* nobody wrote meanwhile.
PurgeReaches == Listing!PurgeReaches

\* A purge that the Worker refuses as too large has deleted nothing.
RefusedWhole == Listing!RefusedWhole

\* A purge is refused only when too many names are listed.
RefusedRightly == Listing!RefusedRightly

\* The Worker never deletes on the strength of more names than it may scan.
ScanBounded == Listing!ScanBounded

\* size() counts the names listed under the prefix, when the listings do not change meanwhile.
SizeExact == Listing!SizeExact

\* Every purge and every size() ends, whatever cursors the service returns.
ScanEnds == []<>(scan.pc = "done")

\* A getOrSet() made after a delete is not answered with what a loader saw before it.
AnswersFresh == Reads!AnswersFresh

\* While the stream is trusted, L1, stale copies and negative entries are no older than a
\* delete the process knows of or missed.
CopiesFresh == Reads!NothingOlder

\* After a set() the key is not known as missing on the word of an earlier load.
SetNotHidden == Reads!SetNotHidden

\* Calls of one key share one load.
OneLoad == Reads!OneFlight

\* What is reserved of the budget is what the maps and the followers hold.
RoomExact == Reads!RoomExact

\* After close() the cache holds nothing, although loads are still running.
ClosedHoldsNothing == Reads!ClosedHoldsNothing

\* Every getOrSet() is answered, whatever the loader does and whoever closes the cache.
GetOrSetAnswered == \A c \in Caller : []<>(call[c].pc \in {"idle", "done"})

\* The memory budget: its ledger and the reserved room are what is really held, and a closed
\* cache holds nothing.
BudgetKept == TypeOK /\ LedgerExact /\ RoomExact /\ ClosedHoldsNothing

\* Nothing older than a set or a delete is kept or answered after it: not by L1, not by a
\* shared load, not as a stale copy, not as a miss.
NothingOlder == NoObsoleteValue /\ AnswersFresh /\ CopiesFresh /\ SetNotHidden

\* Calls that overlap share one load of a key, and one discovery of a connection unless the
\* application invalidates it.
OneFlight == OneLoad /\ OneDiscoveryPerConnection

\* setupCache(): no server is accepted that a check refused, nothing it made outlives a
\* failure or close(), and the application's client does.  Left out: a dial under way in the
\* application's own RabbitMQ or NATS bus, which disconnect() does not take back, and a
\* constructor that throws before the first check.
SetupExact == NothingLeaks /\ CallerKeepsClient /\ StrictStartup /\ NeverDowngrades

\* A capability is advertised only on the word of a server that answered, by a manifest of the
\* current connection (while the ready listener is attached), and only if the health check
\* accepts that server (while minimumRedisMajorVersion is not set below the check's own).
VerdictsCurrent == VerdictsAreReal /\ RefusedServerAdvertisesNothing /\ CachedIsCurrent

\* A purge of a KV namespace deletes all that matches and is listed or, refused as too large,
\* nothing; it is refused rightly, and size() counts what is listed.  A name that KV has and,
\* eventually consistent, does not list yet is out of their reach.
PurgeExact == PurgeReaches /\ RefusedWhole /\ RefusedRightly /\ ScanBounded /\ SizeExact

\* What was begun comes to its end: every getOrSet(), purge, discovery, setupCache() and
\* close() is answered, and sampling relieves pressure.
EverythingSettles == /\ GetOrSetAnswered /\ ScanEnds /\ DiscoveryEnds /\ SetupEnds
                     /\ PressureRelieved
=============================================================================
