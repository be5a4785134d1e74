------------------------------- MODULE Storage -------------------------------
(***************************************************************************)
(* Values at rest and on the wire, and what is built on them.  A behaviour  *)
(* is about one part, chosen at the start; the others stay as they are:     *)
(*   "redis"         RedisStore, in one of several layouts,                 *)
(*   "keys", "wire"  the pure functions,                                    *)
(*   "worker"        the Worker cache, in one of several setups,            *)
(*   "ticketing"     the example of the transaction coordinator.            *)
(***************************************************************************)
EXTENDS Integers, Sequences, FiniteSets

CONSTANTS
  Layouts,                                                        \* of RedisStore
  Texts, Patterns, Namespaces, Keys, GlobKeys, GlobPatterns,      \* of RedisKeys
  Sizes, Squeezes, Tiers, PackedInputs, Limits,                   \* of WireFormat
  Request, None, Setups,                                          \* of WorkerCache
  Caller, Requests, HoldMs, LeaseMs, RetentionMs, MaxCalls, MaxOperations, MaxHour
                                                                  \* of Ticketing
VARIABLES
  part,
  layout, clock, writes, data, index, task, faults,
  question, answer,
  setup, time, l1, stored, state, current, inflight, request, mutations, closed,
  hour, calls, sequence, seat, reservation, operation, byKey, record, charges, call, told

-----------------------------------------------------------------------------
(* The parts *)

Redis(s) == INSTANCE RedisStore
  WITH Key <- s.keys, Client <- s.clients, Big <- s.big, Versioned <- s.versioned,
       Indexed <- s.indexed, Snapshot <- s.snapshot, MaxEntries <- s.maxEntries, Ttl <- s.ttl,
       BatchSize <- s.batchSize, Calls <- s.calls, MaxWrites <- s.maxWrites,
       MaxTime <- s.maxTime, MaxFaults <- s.maxFaults, now <- clock
Names == INSTANCE RedisKeys
Wire == INSTANCE WireFormat
Worker(s) == INSTANCE WorkerCache
  WITH Publisher <- s.publisher, L1TtlMs <- s.l1TtlMs, TtlMs <- s.ttlMs,
       MaxMutations <- s.maxMutations, MaxTime <- s.maxTime, now <- time, call <- request
Tickets == INSTANCE Ticketing WITH MaxTime <- MaxHour, now <- hour

ASSUME StorageAssumption ==
  /\ \A s \in Layouts : Redis(s)!RedisStoreAssumption
  /\ \A s \in Setups : Worker(s)!WorkerAssumption
  /\ \A s, t \in Layouts : s.name = t.name => s = t
  /\ \A s, t \in Setups : s.name = t.name => s = t
  /\ Tickets!TicketingAssumption

redisVars == <<layout, clock, writes, data, index, task, faults>>
askVars == <<question, answer>>
workerVars == <<setup, time, l1, stored, state, current, inflight, request, mutations, closed>>
ticketVars == <<hour, calls, sequence, seat, reservation, operation, byKey, record, charges, call, told>>
vars == <<part, redisVars, askVars, workerVars, ticketVars>>

\* One initial state for every part that the behaviour is not about.
Init ==
  /\ part \in {"redis", "keys", "wire", "worker", "ticketing"}
  /\ layout \in {s.name : s \in Layouts}
  /\ part # "redis" => layout = (CHOOSE s \in Layouts : TRUE).name
  /\ \E s \in Layouts : layout = s.name /\ Redis(s)!Init
  /\ IF part = "wire" THEN Wire!Init ELSE Names!Init
  /\ setup \in {s.name : s \in Setups}
  /\ part # "worker" => setup = (CHOOSE s \in Setups : TRUE).name
  /\ \E s \in Setups : setup = s.name /\ Worker(s)!Init
  /\ Tickets!Init

Next ==
  \/ /\ part = "redis" /\ \E s \in Layouts : layout = s.name /\ Redis(s)!Next
     /\ UNCHANGED <<part, layout, askVars, workerVars, ticketVars>>
  \/ /\ (part = "keys" /\ Names!Next) \/ (part = "wire" /\ Wire!Next)
     /\ UNCHANGED <<part, redisVars, workerVars, ticketVars>>
  \/ /\ part = "worker" /\ \E s \in Setups : setup = s.name /\ Worker(s)!Next
     /\ UNCHANGED <<part, setup, redisVars, askVars, ticketVars>>
  \/ part = "ticketing" /\ Tickets!Next /\ UNCHANGED <<part, redisVars, askVars, workerVars>>

Spec == Init /\ [][Next]_vars

-----------------------------------------------------------------------------
(* RedisStore *)

\* The types of the parts' fields.
TypeOK ==
  /\ part = "redis" => \A s \in Layouts : layout = s.name => Redis(s)!TypeOK
  /\ part = "worker" => \A s \in Setups : setup = s.name => Worker(s)!TypeOK
  /\ part = "ticketing" => Tickets!TypeOK

\* However often EVALSHA is refused or its reply lost, a publishing script runs once.
ScriptRunsOnce ==
  part = "redis" => \A s \in Layouts : layout = s.name => Redis(s)!ScriptRunsOnce

\* A delete or a purge that succeeds leaves no value that it had to reach.
DeletesReach == [][part = "redis" => \A s \in Layouts : layout = s.name => Redis(s)!ReachedAll]_redisVars

\* With the snapshot script a TTL is returned with the value it belongs to.
SnapshotPairs == part = "redis" => \A s \in Layouts : layout = s.name => Redis(s)!SnapshotPairs

\* When nobody is at work the index holds at most maxEntries members.
LimitKept == part = "redis" => \A s \in Layouts : layout = s.name => Redis(s)!LimitKept

\* One client alone keeps the index complete: every live value is catalogued with its expiry.
AloneCatalogued == part = "redis" => \A s \in Layouts : layout = s.name => Redis(s)!AloneCatalogued

\* A call of RedisStore that succeeds has done its work, once: a delete or a purge left
\* nothing it had to reach, and no publishing script ran a second time.
CallsExact == [](TypeOK /\ ScriptRunsOnce) /\ DeletesReach

\* The index stays within its limit and, for one client, complete, and an expiry is never
\* paired with another value than its own.
IndexKept == LimitKept /\ AloneCatalogued /\ SnapshotPairs

-----------------------------------------------------------------------------
(* Names and records *)

\* The linear matcher accepts what the wildcard pattern denotes.
MatcherExact == part = "keys" => Names!MatcherExact

\* The name in Redis of a well-formed key reads back as the key.  A key with a lone surrogate
\* is excluded: Redis returns its name with U+FFFD, and the store knows it no more.
NamesReadBack == part = "keys" => Names!NamesReadBack

\* In the v2 layout two keys, well-formed or not, never share a name.
KeysApart == part = "keys" => Names!KeysApart

\* No name of one namespace is taken for a key of another.
NamespacesApart == part = "keys" => Names!NamespacesApart

\* The glob of a scan covers every key the pattern matches.
ScanCovers == part = "keys" => Names!ScanCovers

\* The layout that is chosen is one the client can run.
LayoutRunnable == part = "keys" => Names!LayoutRunnable

\* A pattern reaches exactly the well-formed keys it denotes, in its own namespace, through
\* names that read back as the keys they were made from.  Keys with a lone surrogate have
\* names of their own too, but deleteByPattern() and clear() pass over them.
PatternsExact == /\ MatcherExact /\ NamesReadBack /\ KeysApart
                 /\ NamespacesApart /\ ScanCovers /\ LayoutRunnable

\* A hit is the value that was stored, whichever release and runtime wrote it, except for an
\* untagged JSON record of one digit, which is read as another number.
ReadsWhatWasWritten == part = "wire" => Wire!ReadsWhatWasWritten

\* Node with gzip or no compression and Workers read each other's records.
RuntimesShare == part = "wire" => Wire!RuntimesShare

\* Every size gets the tier with the smallest bound above it.
TierOfItsSize == part = "wire" => Wire!TierOfItsSize

\* The MessagePack validator accepts exactly one value within the limits.
PackedExact == part = "wire" => Wire!PackedExact

\* The JSON validator accepts a document exactly when it is within the limits.
JsonExact == part = "wire" => Wire!JsonExact

\* A peer evicts the key that was invalidated and no other.
EventNamesKey == part = "wire" => Wire!EventNamesKey

\* Records and events: what is read is what was written, across releases and runtimes (save
\* for one-digit JSON of the releases without tags), and the validators refuse exactly what
\* exceeds their limits.
RecordsExact == /\ ReadsWhatWasWritten /\ RuntimesShare /\ TierOfItsSize
                /\ PackedExact /\ JsonExact /\ EventNamesKey

-----------------------------------------------------------------------------
(* The Worker cache *)

\* L1 holds nothing that was observed before the latest local mutation.
L1SinceMutation == part = "worker" => \A s \in Setups : setup = s.name => Worker(s)!L1SinceMutation

\* L1 keeps no value beyond the logical TTL of its record.
L1WithinTtl == part = "worker" => \A s \in Setups : setup = s.name => Worker(s)!L1WithinTtl

\* What requests share was observed after the mutations that preceded them.
SharedIsFresh == part = "worker" => \A s \in Setups : setup = s.name => Worker(s)!SharedIsFresh

\* Two loaders run together only if a mutation separates them.
OneLoad == part = "worker" => \A s \in Setups : setup = s.name => Worker(s)!OneLoad

\* The map of revisions holds a key exactly while somebody holds a guard on it.
GuardsExact == part = "worker" => \A s \in Setups : setup = s.name => Worker(s)!GuardsExact

\* A closed facade writes nothing to the L1 that others share.
ClosedWritesNothing == [][closed => l1' \in {l1, None}]_workerVars

\* A delete that resolves was executed by KV or is in the queue.
ResolvedMeansDone == part = "worker" => \A s \in Setups : setup = s.name => Worker(s)!ResolvedMeansDone

\* Nothing observed before a local mutation is in L1 or shared after it, nothing outlives its
\* record's TTL there, and a closed facade writes nothing to it.
WorkerFresh == [](L1SinceMutation /\ SharedIsFresh /\ L1WithinTtl) /\ ClosedWritesNothing

\* Calls of a Worker share one load between mutations, leave no guard behind, and a delete
\* that resolves was executed or queued.
WorkerCalls == OneLoad /\ GuardsExact /\ ResolvedMeansDone

-----------------------------------------------------------------------------
(* The ticketing example *)

\* A reservation that is held or confirmed has the seat, and no two have it.
OneHolder == part = "ticketing" => Tickets!OneHolder

\* A confirmed seat is never lost to another buyer's request or to time; its own buyer's
\* attempt that is still under way can free it.
SeatKept == [][part = "ticketing" => Tickets!KeepsSeat]_ticketVars

\* The seat is confirmed only against a payment.
ConfirmedPaid == part = "ticketing" => Tickets!ConfirmedPaid

\* One payment at most for an idempotency key.
ChargedOnce == part = "ticketing" => Tickets!ChargedOnce

\* All final answers about an operation are the one the database keeps.
AnswersAgree == part = "ticketing" => Tickets!AnswersAgree

\* A record that says completed is about an operation that is, with its result.
RedisFollows == part = "ticketing" => Tickets!RedisFollows

\* A seat belongs to one reservation, and once confirmed it stays with it.
SeatsExact == []OneHolder /\ SeatKept

\* Payments: one at most for an idempotency key, none missing behind a confirmed seat, and
\* every final answer, Redis's record too, agrees with the database.
PaymentsExact == ConfirmedPaid /\ ChargedOnce /\ AnswersAgree /\ RedisFollows
=============================================================================
