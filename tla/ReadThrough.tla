----------------------------- MODULE ReadThrough -----------------------------
(***************************************************************************)
(* getOrSet() inside one process of HybridCache, for one key: the calls that *)
(* share a load, and what a load leaves behind.                             *)
(*                                                                         *)
(*   inflight  the load that later calls join; it stops being joined when   *)
(*             it ends, expires, or the key is invalidated                  *)
(*   negative  the origin had no value                                      *)
(*   stale     the last value, served when a loader fails or times out      *)
(*                                                                         *)
(* Each of them is charged to the process-wide memory budget, which other   *)
(* users fill too.  A call runs in steps; between two of them it awaits and *)
(* anything may happen.  MemoryStore commits before it yields, so what L1   *)
(* does is part of the step that calls it.  A value is the version of the   *)
(* origin it was read from.  Expiry is a flag that time raises.             *)
(*                                                                         *)
(* There is no L2: LeasedFill and HybridCache model it.                     *)
(***************************************************************************)
EXTENDS Naturals, FiniteSets

CONSTANTS
  Caller,        \* calls of getOrSet()
  Nobody,        \* no call
  Settings       \* the scenarios

\* A scenario: who calls, the versions of the origin and those in which it has no value,
\* inflight.maxWaiters, the loads the origin gate runs or queues, the answers tryReserve()
\* may give, and bounds: mutations, losses of the stream, evictions and expiries.
Setting ==
  [callers : SUBSET Caller, maxVersion : Nat \ {0}, gone : SUBSET (Nat \ {0}), maxWaiters : Nat,
   maxLeaders : Nat \ {0}, room : SUBSET BOOLEAN,
   maxMutations : Nat, maxOutages : Nat, maxLapses : Nat]

ReadThroughAssumption ==
  IsFiniteSet(Caller) /\ Nobody \notin Caller /\ Settings \subseteq Setting

VARIABLES
  setting,    \* the scenario of the behaviour
  db,         \* the version of the origin
  l1,         \* the version in L1, 0 when there is none
  aux,        \* inflight, negative, stale, the followers, and what is reserved for them
  call,       \* one call of getOrSet()
  write,      \* the set() under way
  trust,      \* "trusted", "away" (the stream is lost), "restoring"
  closed,
  mutations, outages, lapses,
  floor,      \* history: the version of the last delete this process knows of
  missed,     \* history: the version of the last delete it missed
  kept,       \* history: the version of the last set() that ran to its end
  joined      \* history: the loads under way that nothing detached from their entry
vars == <<setting, db, l1, aux, call, write, trust, closed, mutations, outages, lapses, floor, missed, kept, joined>>

Version == 0..setting.maxVersion
NoEntry == [version |-> 0, expired |-> FALSE]
NoFlight == [by |-> Nobody, expired |-> FALSE]
Empty == [flight |-> NoFlight, stale |-> NoEntry, negative |-> NoEntry, followers |-> 0, reserved |-> 0]
Pending == [what |-> "pending", version |-> 0]

\* `lead` and `read` say whether the guards of the load and of the read under way
\* are still current; `since` is the newest delete known when the call was made.
NewCall == [pc |-> "idle", got |-> 0, lead |-> FALSE, read |-> FALSE, loaded |-> 0,
            follows |-> Nobody, since |-> 0, answer |-> Pending]
Leading == {"starting", "rechecking", "queued", "admitted", "loading", "stored"}
Points == {"idle", "reading", "following", "done"} \cup Leading

TypeOK ==
  /\ setting \in Settings /\ db \in 1..setting.maxVersion /\ l1 \in Version
  /\ aux \in [flight : [by : Caller \cup {Nobody}, expired : BOOLEAN],
              stale : [version : Version, expired : BOOLEAN],
              negative : [version : Version, expired : BOOLEAN],
              followers : 0..Cardinality(Caller), reserved : 0..Cardinality(Caller) + 3]
  /\ \A c \in Caller :
       /\ call[c].pc \in Points
       /\ call[c].got \in Version /\ call[c].loaded \in Version /\ call[c].since \in Version
       /\ call[c].follows \in Caller \cup {Nobody}
       /\ call[c].answer.what \in {"pending", "value", "none", "error"} /\ call[c].answer.version \in Version
  /\ write \in [pc : {"idle", "writing"}, version : Version, current : BOOLEAN]
  /\ trust \in {"trusted", "away", "restoring"} /\ closed \in BOOLEAN
  /\ mutations \in 0..setting.maxMutations /\ outages \in 0..setting.maxOutages /\ lapses \in 0..setting.maxLapses
  /\ floor \in Version /\ missed \in Version /\ kept \in Version /\ joined \subseteq Caller

Init ==
  /\ setting \in Settings /\ db = 1 /\ l1 = 0 /\ aux = Empty
  /\ call = [c \in Caller |-> NewCall]
  /\ write = [pc |-> "idle", version |-> 0, current |-> FALSE]
  /\ trust = "trusted" /\ closed = FALSE /\ mutations = 0 /\ outages = 0 /\ lapses = 0
  /\ floor = 0 /\ missed = 0 /\ kept = 0 /\ joined = {}

-----------------------------------------------------------------------------
(* The three maps and what is reserved for them *)

RemoveInflight(a) == IF a.flight = NoFlight THEN a ELSE [a EXCEPT !.flight = NoFlight, !.reserved = @ - 1]
RemoveNegative(a) == IF a.negative = NoEntry THEN a ELSE [a EXCEPT !.negative = NoEntry, !.reserved = @ - 1]
RemoveStale(a)    == IF a.stale = NoEntry THEN a ELSE [a EXCEPT !.stale = NoEntry, !.reserved = @ - 1]

\* An expired entry is removed by the call that finds it.
PruneInflight(a) == IF a.flight.expired THEN RemoveInflight(a) ELSE a

Trusted == ~closed /\ trust = "trusted"
PruneNegative(a) == IF Trusted /\ a.negative.expired THEN RemoveNegative(a) ELSE a
PruneStale(a)    == IF Trusted /\ a.stale.expired THEN RemoveStale(a) ELSE a

HasNegative(a) == Trusted /\ a.negative.version # 0 /\ ~a.negative.expired
HasStale(a)    == Trusted /\ a.stale.version # 0 /\ ~a.stale.expired

\* tryReserve may refuse: `ok` is its answer.
Entry(version) == [version |-> version, expired |-> FALSE]
WithStale(a, version, ok) ==
  IF ok THEN [a EXCEPT !.stale = Entry(version), !.reserved = @ + 1] ELSE a
WithNegative(a, version, ok) ==
  IF ok THEN [a EXCEPT !.negative = Entry(version), !.reserved = @ + 1] ELSE a

\* The earlier copy goes first, whether or not there is room for the new one.
RememberStale(a, version, ok) ==
  IF closed THEN a ELSE WithStale(RemoveStale(a), version, ok)

SetNegative(a, version, ok) ==
  IF Trusted THEN WithNegative(RemoveNegative(a), version, ok) ELSE a

\* reserveInflight: there was room for the entry of the load that c leads.
Registered(a, c) == [a EXCEPT !.flight.by = c, !.reserved = @ + 1]

Clear(a) == RemoveInflight(RemoveNegative(RemoveStale(a)))

-----------------------------------------------------------------------------
(* Guards and ends *)

\* Every guard taken so far is out of date.
Outdated == [c \in Caller |-> [call[c] EXCEPT !.lead = FALSE, !.read = FALSE]]

\* get(): what L1 has, unless the key is known to be missing or L1 is not trusted.
L1Read == IF Trusted /\ ~HasNegative(aux) THEN l1 ELSE 0
Reading(c, pc) == [call[c] EXCEPT !.pc = pc, !.got = L1Read, !.read = TRUE]

Becomes(c, record) == call' = [call EXCEPT ![c] = record]
Answered(c, what, version) ==
  [call[c] EXCEPT !.pc = "done", !.answer = [what |-> what, version |-> version]]

apart == <<db, write, trust, closed, mutations, outages, floor, missed, kept>>
aside == <<apart, lapses>>

\* mutant: whatever the entry of the key is by now, it is removed
EndUnowned(c, a, what, version) ==
  /\ aux' = RemoveInflight(a)
  /\ joined' = joined \ {c}
  /\ Becomes(c, Answered(c, what, version))

\* The load ends: its entry goes, unless another load has taken its place.
End(c, a, what, version) ==
  /\ aux' = IF a.flight.by = c THEN RemoveInflight(a) ELSE a
  /\ joined' = joined \ {c}
  /\ Becomes(c, Answered(c, what, version))

\* A failed load is answered from the stale copy, if there is one.
Fail(c) ==
  LET a == PruneStale(aux) IN
  IF HasStale(a) THEN End(c, a, "value", a.stale.version) ELSE End(c, a, "error", 0)

\* The read of a load found a value; it is remembered if it still counts.
EndWithRead(c) ==
  \E ok \in setting.room :
    End(c, IF call[c].read /\ Trusted THEN RememberStale(aux, call[c].got, ok) ELSE aux,
        "value", call[c].got)

-----------------------------------------------------------------------------
(* getOrSet() *)

\* joinInflight: at most maxWaiters wait, each with room in the budget.
Join(c, a, caller) ==
  \E ok \in setting.room :
    IF ok /\ a.followers < setting.maxWaiters
    THEN /\ aux' = [a EXCEPT !.followers = @ + 1, !.reserved = @ + 1]
         /\ Becomes(c, [caller EXCEPT !.pc = "following", !.follows = a.flight.by])
    ELSE /\ aux' = a
         /\ Becomes(c, [caller EXCEPT !.pc = "done", !.answer.what = "error"])

Pruned == IF aux.flight.expired THEN joined \ {aux.flight.by} ELSE joined

\* The call joins the load under way, or reads.
GetOrSet(c) ==
  /\ call[c].pc = "idle" /\ ~closed
  /\ LET a == PruneInflight(aux)
         since == IF Trusted /\ missed > floor THEN missed ELSE floor
     IN  IF a.flight.by # Nobody
         THEN Join(c, a, [call[c] EXCEPT !.since = since])
         ELSE /\ aux' = PruneNegative(a)
              /\ Becomes(c, [Reading(c, "reading") EXCEPT !.since = since])
  /\ joined' = Pruned
  /\ UNCHANGED <<aside, l1>>

ReadHit(c) ==
  /\ call[c].pc = "reading" /\ call[c].got # 0
  /\ EndWithRead(c)
  /\ UNCHANGED <<aside, l1>>

\* A miss that is final: the cache was closed, or the key is known to be missing.
ReadEnds(c) ==
  /\ call[c].pc = "reading" /\ call[c].got = 0
  /\ closed \/ HasNegative(aux)
  /\ Becomes(c, IF closed THEN Answered(c, "error", 0) ELSE Answered(c, "none", aux.negative.version))
  /\ UNCHANGED <<aside, l1, aux, joined>>

\* mutant: what came up during the read is not looked at
ReadMissUnchecked(c) ==
  /\ call[c].pc = "reading" /\ call[c].got = 0
  /\ ~closed /\ ~HasNegative(aux)
  /\ \E ok \in setting.room :
       /\ aux' = IF ok THEN Registered(RemoveInflight(aux), c) ELSE aux
       /\ joined' = IF ok THEN joined \cup {c} ELSE joined
  /\ Becomes(c, [call[c] EXCEPT !.pc = "starting"])
  /\ UNCHANGED <<aside, l1>>

\* A miss looks for a load again.  If there is none the call leads one, which others
\* may join when there is room for its entry.
ReadMiss(c) ==
  /\ call[c].pc = "reading" /\ call[c].got = 0
  /\ ~closed /\ ~HasNegative(aux)
  /\ LET a == PruneInflight(PruneNegative(aux)) IN
     IF a.flight.by # Nobody THEN Join(c, a, call[c]) /\ joined' = Pruned
     ELSE \E ok \in setting.room :
            /\ aux' = IF ok THEN Registered(a, c) ELSE a
            /\ joined' = IF ok THEN Pruned \cup {c} ELSE Pruned
            /\ Becomes(c, [call[c] EXCEPT !.pc = "starting"])
  /\ UNCHANGED <<aside, l1>>

\* mutant: the room of a follower is not given back
FollowerKeepsRoom(c) ==
  /\ call[c].pc = "following" /\ call[call[c].follows].pc = "done"
  /\ aux' = [aux EXCEPT !.followers = @ - 1]
  /\ Becomes(c, [call[c] EXCEPT !.pc = "done", !.answer = call[call[c].follows].answer])
  /\ UNCHANGED <<aside, l1, joined>>

\* The load a follower joined has ended: it has the same answer.
FollowerResumes(c) ==
  /\ call[c].pc = "following" /\ call[call[c].follows].pc = "done"
  /\ aux' = [aux EXCEPT !.followers = @ - 1, !.reserved = @ - 1]
  /\ Becomes(c, [call[c] EXCEPT !.pc = "done", !.answer = call[call[c].follows].answer])
  /\ UNCHANGED <<aside, l1, joined>>

-----------------------------------------------------------------------------
(* loadWithDistributedLock and loadAndStore *)

Leaders == {c \in Caller : call[c].pc \in Leading \ {"starting"}}

\* The load begins with a read of its own; too many loads, or a closed cache, refuse it.
Start(c) ==
  /\ call[c].pc = "starting"
  /\ IF closed THEN End(c, aux, "error", 0)
     ELSE IF Cardinality(Leaders) >= setting.maxLeaders THEN Fail(c)
     ELSE /\ aux' = PruneNegative(aux)
          /\ Becomes(c, [Reading(c, "rechecking") EXCEPT !.lead = TRUE])
          /\ UNCHANGED joined
  /\ UNCHANGED <<aside, l1>>

\* A read of the load ends it: with a value, or because the key is known to be missing.
RecheckEnds(c) ==
  /\ call[c].pc = "rechecking" \/ (call[c].pc = "admitted" /\ ~closed)
  /\ IF call[c].got # 0 THEN EndWithRead(c)
     ELSE HasNegative(aux) /\ End(c, aux, "none", aux.negative.version)
  /\ UNCHANGED <<aside, l1>>

\* The load asks the origin gate.
RecheckMiss(c) ==
  /\ call[c].pc = "rechecking" /\ call[c].got = 0 /\ ~HasNegative(aux)
  /\ Becomes(c, [call[c] EXCEPT !.pc = "queued"])
  /\ aux' = PruneNegative(aux)
  /\ UNCHANGED <<aside, l1, joined>>

\* Admitted, it reads once more.
Admitted(c) ==
  /\ call[c].pc = "queued" /\ ~closed
  /\ aux' = PruneNegative(aux)
  /\ Becomes(c, Reading(c, "admitted"))
  /\ UNCHANGED <<aside, l1, joined>>

\* mutant: close() clears the timers of the loads that wait, and does not answer them
RefusedForgets(c) ==
  /\ (call[c].pc = "queued" /\ ~closed) \/ (call[c].pc = "admitted" /\ closed)
  /\ Fail(c)
  /\ UNCHANGED <<aside, l1>>

\* The gate is full, its timer ends the wait, or close() does.
Refused(c) ==
  /\ call[c].pc = "queued" \/ (call[c].pc = "admitted" /\ closed)
  /\ Fail(c)
  /\ UNCHANGED <<aside, l1>>

LoaderStarts(c) ==
  /\ call[c].pc = "admitted" /\ ~closed /\ call[c].got = 0 /\ ~HasNegative(aux)
  /\ Becomes(c, [call[c] EXCEPT !.pc = "loading"])
  /\ aux' = PruneNegative(aux)
  /\ UNCHANGED <<aside, l1, joined>>

LoaderReads(c) ==
  /\ call[c].pc = "loading" /\ call[c].loaded = 0
  /\ Becomes(c, [call[c] EXCEPT !.loaded = db])
  /\ UNCHANGED <<aside, l1, aux, joined>>

\* The loader throws, or its soft or hard timeout comes first; close() alone does not
\* end a load.  What the loader does afterwards has no effect.
LoaderFails(c) ==
  /\ call[c].pc = "loading"
  /\ Fail(c)
  /\ UNCHANGED <<aside, l1>>

\* mutant: an obsolete load leaves its word that there is no value
LoaderFindsNoneUnguarded(c) ==
  /\ call[c].pc = "loading" /\ call[c].loaded \in setting.gone
  /\ \E ok \in setting.room :
       LET a == PruneStale(SetNegative(aux, call[c].loaded, ok)) IN
       IF HasStale(a) THEN End(c, a, "value", a.stale.version)
                      ELSE End(c, a, "none", call[c].loaded)
  /\ UNCHANGED <<aside, l1>>

\* The origin has no value: a load that still counts says so to the next calls, and
\* answers with the stale copy if there is one.
LoaderFindsNone(c) ==
  /\ call[c].pc = "loading" /\ call[c].loaded \in setting.gone
  /\ IF ~call[c].lead THEN End(c, aux, "none", call[c].loaded)
     ELSE \E ok \in setting.room :
            LET a == PruneStale(SetNegative(aux, call[c].loaded, ok)) IN
            IF HasStale(a) THEN End(c, a, "value", a.stale.version)
                           ELSE End(c, a, "none", call[c].loaded)
  /\ UNCHANGED <<aside, l1>>

\* A value.  A load that still counts writes it to L1; an obsolete one only answers.
LoaderFinds(c) ==
  /\ call[c].pc = "loading" /\ call[c].loaded \in (1..setting.maxVersion) \ setting.gone
  /\ IF call[c].lead
     THEN /\ l1' = call[c].loaded
          /\ Becomes(c, [call[c] EXCEPT !.pc = "stored"])
          /\ UNCHANGED <<aux, joined>>
     ELSE End(c, aux, "value", call[c].loaded) /\ UNCHANGED l1
  /\ UNCHANGED aside

\* mutant: the copy is kept although the load became obsolete while L1 was written
StoredUnguarded(c) ==
  /\ call[c].pc = "stored"
  /\ \E ok \in setting.room :
       End(c, RemoveNegative(RememberStale(aux, call[c].loaded, ok)), "value", call[c].loaded)
  /\ UNCHANGED <<aside, l1>>

\* The value is remembered, if the load still counts now that L1 has it.
Stored(c) ==
  /\ call[c].pc = "stored"
  /\ \E ok \in setting.room :
       End(c, IF call[c].lead THEN RemoveNegative(RememberStale(aux, call[c].loaded, ok)) ELSE aux,
           "value", call[c].loaded)
  /\ UNCHANGED <<aside, l1>>

-----------------------------------------------------------------------------
(* Mutations, the invalidation stream, close() *)

\* mutant: later calls may still join the load under way
DeleteKeepsInflight ==
  /\ ~closed /\ mutations < setting.maxMutations
  /\ mutations' = mutations + 1
  /\ call' = Outdated /\ write' = [write EXCEPT !.current = FALSE]
  /\ aux' = RemoveNegative(RemoveStale(aux)) /\ l1' = 0
  /\ floor' = db /\ joined' = {}
  /\ UNCHANGED <<db, trust, closed, outages, lapses, missed, kept>>

\* delete(), a matching deleteByPattern(), or a received one of either.
Delete ==
  /\ ~closed /\ mutations < setting.maxMutations
  /\ mutations' = mutations + 1
  /\ call' = Outdated /\ write' = [write EXCEPT !.current = FALSE]
  /\ aux' = Clear(aux) /\ l1' = 0
  /\ floor' = db /\ joined' = {}
  /\ UNCHANGED <<db, trust, closed, outages, lapses, missed, kept>>

\* deleteByPattern() of other keys: it moves the mutation epoch and leaves the key alone.
OtherPattern ==
  /\ ~closed /\ mutations < setting.maxMutations
  /\ mutations' = mutations + 1
  /\ call' = Outdated /\ write' = [write EXCEPT !.current = FALSE]
  /\ UNCHANGED <<db, l1, aux, trust, closed, outages, lapses, floor, missed, kept, joined>>

\* set() with a value of the origin's present version.
Set ==
  /\ ~closed /\ mutations < setting.maxMutations /\ write.pc = "idle" /\ db \notin setting.gone
  /\ mutations' = mutations + 1
  /\ call' = Outdated
  /\ write' = [pc |-> "writing", version |-> db, current |-> TRUE]
  /\ l1' = db
  /\ UNCHANGED <<db, aux, trust, closed, outages, lapses, floor, missed, kept, joined>>

\* It ends here, unless something made it obsolete while L1 was written.
SetSettles ==
  /\ write.pc = "writing"
  /\ write' = [write EXCEPT !.pc = "idle", !.current = FALSE]
  /\ \E ok \in setting.room :
       aux' = IF write.current THEN RemoveNegative(RememberStale(aux, write.version, ok)) ELSE aux
  /\ kept' = IF write.current THEN write.version ELSE kept
  /\ UNCHANGED <<db, l1, call, trust, closed, mutations, outages, lapses, floor, missed, joined>>

Flush ==
  /\ call' = Outdated /\ write' = [write EXCEPT !.current = FALSE]
  /\ aux' = Clear(aux) /\ l1' = 0 /\ joined' = {}

\* markInvalidationUntrusted
StreamLost ==
  /\ ~closed /\ outages < setting.maxOutages
  /\ outages' = outages + 1
  /\ trust' = "away"
  /\ Flush
  /\ UNCHANGED <<db, closed, mutations, lapses, floor, missed, kept>>

\* mutant: what was read while the stream was away is kept
StreamBackUnflushed ==
  /\ ~closed /\ trust = "away"
  /\ trust' = "restoring"
  /\ UNCHANGED <<db, l1, aux, call, write, closed, mutations, outages, lapses, floor, missed, kept, joined>>

\* restoreInvalidationTrust: it flushes, and yields.
StreamBack ==
  /\ ~closed /\ trust = "away"
  /\ trust' = "restoring"
  /\ Flush
  /\ UNCHANGED <<db, closed, mutations, outages, lapses, floor, missed, kept>>

TrustRestored ==
  /\ ~closed /\ trust = "restoring"
  /\ trust' = "trusted"
  /\ UNCHANGED <<db, l1, aux, call, write, closed, mutations, outages, lapses, floor, missed, kept, joined>>

\* A peer deletes the key while the stream is away.
DeleteMissed ==
  /\ trust = "away" /\ missed < db
  /\ missed' = db
  /\ UNCHANGED <<db, l1, aux, call, write, trust, closed, mutations, outages, lapses, floor, kept, joined>>

\* mutant: the stale copies are left
CloseKeepsStale ==
  /\ ~closed
  /\ closed' = TRUE
  /\ call' = Outdated /\ write' = [write EXCEPT !.current = FALSE]
  /\ aux' = RemoveInflight(RemoveNegative(aux)) /\ l1' = 0 /\ joined' = {}
  /\ UNCHANGED <<db, trust, mutations, outages, lapses, floor, missed, kept>>

\* close(): loads go on until their loader or its timeout ends them.
Close ==
  /\ ~closed
  /\ closed' = TRUE
  /\ Flush
  /\ UNCHANGED <<db, trust, mutations, outages, lapses, floor, missed, kept>>

-----------------------------------------------------------------------------
(* The environment *)

OriginWrite ==
  /\ db < setting.maxVersion
  /\ db' = db + 1
  /\ UNCHANGED <<l1, aux, call, write, trust, closed, mutations, outages, lapses, floor, missed, kept, joined>>

\* L1's own limits and TTL; the budget asks for a stale copy (evictOneStale).
Evicted ==
  /\ lapses < setting.maxLapses /\ lapses' = lapses + 1
  /\ \/ l1' = 0 /\ l1 # 0 /\ UNCHANGED aux
     \/ aux' = RemoveStale(aux) /\ aux.stale # NoEntry /\ UNCHANGED l1
  /\ UNCHANGED <<apart, call, joined>>

\* Time passes an expiresAt.
Expires ==
  /\ lapses < setting.maxLapses /\ lapses' = lapses + 1
  /\ \/ aux.flight.by # Nobody /\ ~aux.flight.expired /\ aux' = [aux EXCEPT !.flight.expired = TRUE]
     \/ aux.stale.version # 0 /\ ~aux.stale.expired /\ aux' = [aux EXCEPT !.stale.expired = TRUE]
     \/ aux.negative.version # 0 /\ ~aux.negative.expired /\ aux' = [aux EXCEPT !.negative.expired = TRUE]
  /\ UNCHANGED <<apart, l1, call, joined>>

-----------------------------------------------------------------------------

\* The steps of a call that nothing outside it delays for ever: continuations, and the
\* timers of the origin gate and of the loader.
Progress(c) ==
  \/ ReadHit(c) \/ ReadEnds(c) \/ ReadMiss(c) \/ FollowerResumes(c) \/ Start(c)
  \/ RecheckEnds(c) \/ RecheckMiss(c) \/ Refused(c) \/ LoaderStarts(c) \/ LoaderFails(c) \/ Stored(c)

Next ==
  /\ \/ \E c \in setting.callers :
          \/ GetOrSet(c) \/ Progress(c) \/ Admitted(c)
          \/ LoaderReads(c) \/ LoaderFindsNone(c) \/ LoaderFinds(c)
     \/ Delete \/ OtherPattern \/ Set \/ SetSettles
     \/ StreamLost \/ StreamBack \/ TrustRestored \/ DeleteMissed
     \/ Close \/ OriginWrite \/ Evicted \/ Expires
  /\ UNCHANGED setting

-----------------------------------------------------------------------------
(* Properties *)

\* "Local and remote invalidations fence in-flight loads": a call made after a delete is
\* not answered with what a loader saw before it, whoever loaded it and however the
\* answer came about (L1, a joined load, a stale copy, a negative entry).
AnswerFresh(c) == call[c].answer.what \in {"value", "none"} => call[c].answer.version >= call[c].since
AnswersFresh == \A c \in Caller : AnswerFresh(c)

\* While the stream is trusted, nothing the process keeps is older than a delete it knows
\* of or missed: no obsolete load put anything back.
NothingOlder ==
  Trusted => \A v \in {l1, aux.stale.version, aux.negative.version} :
               v # 0 => v >= floor /\ v >= missed

\* After a set() that ran to its end the key is not known as missing on the word of a load
\* that began before it.
SetNotHidden ==
  aux.negative.version # 0 => aux.negative.version >= kept

\* Calls of one key share one load: a second one runs only if the first was detached (by an
\* invalidation or its expiry) or could not be joined (no room for its entry).
OneFlight == Cardinality(joined) <= 1

\* What is reserved of the memory budget is what the maps and the followers hold, whatever
\* ended, expired or cleared them, and in whichever order.
RoomExact ==
  /\ aux.followers = Cardinality({c \in Caller : call[c].pc = "following"})
  /\ aux.reserved = aux.followers + (IF aux.flight = NoFlight THEN 0 ELSE 1)
                      + (IF aux.stale = NoEntry THEN 0 ELSE 1) + (IF aux.negative = NoEntry THEN 0 ELSE 1)

\* After close() the cache holds nothing, although loads are still running.
ClosedHoldsNothing ==
  closed => l1 = 0 /\ [aux EXCEPT !.followers = 0, !.reserved = 0] = Empty

\* Every call is answered, whatever the loader does and whoever closes the cache.
CallAnswered == \A c \in Caller : []<>(call[c].pc \in {"idle", "done"})
=============================================================================
