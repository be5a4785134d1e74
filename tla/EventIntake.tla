----------------------------- MODULE EventIntake -----------------------------
(***************************************************************************)
(* The receiving end of the invalidation stream in one process of            *)
(* HybridCache, without an L2: which events it takes for duplicates, which   *)
(* for outdated, and what the others do to the L1.                           *)
(*                                                                         *)
(*   seenEvents   the ids of the last events, bounded by number, age and     *)
(*                the memory budget                                          *)
(*   generations  a counter per key, in memory: a delete advances it, an     *)
(*                event carries it.  With versioning it is part of the       *)
(*                storage key.  When there is no room for another counter,   *)
(*                tracking is saturated, for good.  A peer that is saturated *)
(*                publishes the keys it has no counter of without one.       *)
(*                                                                         *)
(* The transport delivers events in any order, again when the handler        *)
(* throws, and sometimes again after it returned.  The events come from one  *)
(* peer.  A value is the version of the origin it was read from.             *)
(***************************************************************************)
EXTENDS Naturals, Sequences, FiniteSets

CONSTANTS
  Key,
  Runner,           \* handlers that run at once (handlerConcurrency)
  Idle,             \* no event
  NoGeneration,     \* the event carries no generation
  MaxVersion,       \* the last version of the origin
  Settings          \* the scenarios

\* A scenario: the keys in use, what the peer does, whether this process deletes keys too,
\* the limits of the code (eventDedupeMaxEntries, MAX_GENERATION_ENTRIES), the answers that
\* tryReserve() may give, and bounds of the model: events of the peer, deletes of this
\* process, deliveries of events that were handled, failures of an L1 that is not a
\* MemoryStore, ids that grow older than eventDedupeTtlMs.
Setting ==
  [keys : (SUBSET Key) \ {{}}, peerCalls : SUBSET {"delete", "set", "many", "restart", "saturate"},
   localDeletes : BOOLEAN, maxSeen : Nat, maxTracked : Nat, room : SUBSET BOOLEAN,
   maxEvents : Nat, maxMutations : Nat, maxRepeats : Nat, maxFails : Nat, maxLapses : Nat]

IntakeAssumption ==
  /\ IsFiniteSet(Key) /\ IsFiniteSet(Runner) /\ Runner # {}
  /\ MaxVersion \in Nat \ {0} /\ Settings \subseteq Setting
  /\ Idle \notin Nat /\ NoGeneration \notin Nat

VARIABLES
  setting,      \* the scenario of the behaviour
  versioned,    \* options.versioning.enabled
  db,           \* the version of the origin
  l1,           \* per key: entries, the generation in the storage key and the version
  gen, tracked, saturated,
  seen, lapsed, \* the ids in seenEvents, oldest first; the ones older than the TTL
  task,         \* per handler: the event, and how many of its keys are done
  fill,         \* the load under way
  log,          \* the events the peer published
  flying,       \* the ones the transport still has to deliver
  peer,         \* the peer's generations, the keys it has one of, whether it is saturated,
                \* and what it is loading
  spent,        \* how much of each bound is used up
  floor,        \* history: the version of the last delete that evicted the key here
  handled       \* history: the events whose handler returned
vars == <<setting, versioned, db, l1, gen, tracked, saturated, seen, lapsed, task, fill, log,
          flying, peer, spent, floor, handled>>

Id == 1..setting.maxEvents
Version == 0..MaxVersion
Free == [event |-> Idle, done |-> 0]
NewPeer == [gen |-> [k \in Key |-> 0], load |-> [k \in Key |-> 0], held |-> {}, full |-> FALSE]
NoFill == [on |-> FALSE, current |-> FALSE, storage |-> 0, version |-> 0]

TypeOK ==
  /\ setting \in Settings
  /\ versioned \in BOOLEAN /\ db \in 1..MaxVersion /\ saturated \in BOOLEAN
  /\ l1 \in [Key -> SUBSET [storage : Nat, version : Version]]
  /\ gen \in [Key -> Nat] /\ tracked \subseteq Key
  /\ seen \in Seq(Id) /\ lapsed \subseteq Id /\ flying \subseteq Id /\ handled \subseteq Id
  /\ task \in [Runner -> [event : Id \cup {Idle}, done : 0..Cardinality(Key)]]
  /\ fill \in [Key -> [on : BOOLEAN, current : BOOLEAN, storage : Nat, version : Version]]
  /\ Len(log) <= setting.maxEvents /\ floor \in [Key -> Version]

Init ==
  /\ setting \in Settings
  /\ versioned \in BOOLEAN /\ db = 1
  /\ l1 = [k \in Key |-> {}]
  /\ gen = [k \in Key |-> 0] /\ tracked = {} /\ saturated = FALSE
  /\ seen = <<>> /\ lapsed = {}
  /\ task = [h \in Runner |-> Free]
  /\ fill = [k \in Key |-> NoFill]
  /\ log = <<>> /\ flying = {}
  /\ peer = NewPeer
  /\ spent = [mutations |-> 0, repeats |-> 0, fails |-> 0, lapses |-> 0]
  /\ floor = [k \in Key |-> 0] /\ handled = {}

peerVars == <<db, log, peer>>

Spend(what, limit) == spent[what] < limit /\ spent' = [spent EXCEPT ![what] = @ + 1]
AtLeast(m, n) == IF m >= n THEN m ELSE n

-----------------------------------------------------------------------------
(* seenEvents *)

Ids == {seen[i] : i \in 1..Len(seen)}
IndexOf(s, id) == CHOOSE i \in 1..Len(s) : s[i] = id
Without(s, id) ==
  IF \E i \in 1..Len(s) : s[i] = id
  THEN SubSeq(s, 1, IndexOf(s, id) - 1) \o SubSeq(s, IndexOf(s, id) + 1, Len(s)) ELSE s
HasSeen(id) == id \in Ids \ lapsed

\* markEventSeen: the oldest ids make room; the budget may refuse all the same.
MarkSeen(id) ==
  LET others == Without(seen, id)
      recent == IF Len(others) >= setting.maxSeen THEN Tail(others) ELSE others
  IN  /\ \E ok \in setting.room :
           IF setting.maxSeen = 0 THEN seen' = others
           ELSE seen' = IF ok THEN Append(recent, id) ELSE recent
      /\ lapsed' = lapsed \ {id}

-----------------------------------------------------------------------------
(* generations *)

StorageKey(k) == IF versioned THEN gen[k] ELSE 0
VersionedCacheSafe == ~versioned \/ ~saturated
IsStale(e, k) == e.gen # NoGeneration /\ e.gen < gen[k]

\* The guards of the loads of these keys are out of date.
Outdated(ks) == [k \in Key |-> IF k \in ks THEN [fill[k] EXCEPT !.current = FALSE] ELSE fill[k]]
Evicted(k, storage) == [l1 EXCEPT ![k] = {x \in @ : x.storage # storage}]
Flushed == [k \in Key |-> {}]
Stored(l, k, storage, version) ==
  [l EXCEPT ![k] = {x \in @ : x.storage # storage} \cup {[storage |-> storage, version |-> version]}]

\* storeGeneration: the first counter there is no room for saturates the tracking.
StoreGeneration(k, g, ok, regression) ==
  LET fits == k \in tracked \/ (ok /\ Cardinality(tracked) < setting.maxTracked) IN
  /\ gen' = IF fits THEN [gen EXCEPT ![k] = g] ELSE gen
  /\ tracked' = IF fits THEN tracked \cup {k} ELSE tracked
  /\ saturated' = (saturated \/ regression \/ ~fits)

\* saturateGenerationTracking: with it go everything L1 has and every load under way.
Saturates == saturated' /\ ~saturated

\* advanceGenerationAfterRemoteSet
SetsGeneration(k, g, ok) ==
  IF g = NoGeneration THEN UNCHANGED <<gen, tracked, saturated>>
  ELSE StoreGeneration(k, AtLeast(gen[k], g), ok, FALSE)

\* advanceGenerationAfterDelete
Advanced(k, g) == IF g = NoGeneration THEN gen[k] + 1 ELSE AtLeast(gen[k], g)

-----------------------------------------------------------------------------
(* The handler *)

Finished(h, id) ==
  /\ task' = [task EXCEPT ![h] = Free]
  /\ flying' = flying \ {id}
  /\ handled' = handled \cup {id}

\* A delivery: a duplicate is acknowledged without effect.
Deliver(h, id) ==
  /\ task[h] = Free /\ id \in 1..Len(log)
  /\ \/ id \in flying /\ UNCHANGED spent
     \/ id \notin flying /\ Spend("repeats", setting.maxRepeats)
  /\ IF HasSeen(id)
     THEN Finished(h, id) /\ UNCHANGED <<seen, lapsed>>
     ELSE /\ MarkSeen(id)
          /\ task' = [task EXCEPT ![h] = [event |-> id, done |-> 0]]
          /\ UNCHANGED <<flying, handled>>
  /\ UNCHANGED <<peerVars, versioned, l1, gen, tracked, saturated, fill, floor>>

Current(h) == log[task[h].event]
KeyOf(h) == Current(h).keys[task[h].done + 1]
Handling(h, type) == task[h].event # Idle /\ Current(h).type = type

\* With versioning, an outdated delete may be a new one of a peer that was restarted.
Regression(h) == versioned /\ IsStale(Current(h), KeyOf(h))

\* One key of a 'del' event; an outdated one is applied too.  The storage key that is
\* deleted is the one from before.
DeleteKey(h) ==
  /\ Handling(h, "del")
  /\ LET k == KeyOf(h) IN
     /\ \E ok \in setting.room : StoreGeneration(k, Advanced(k, Current(h).gen), ok, Regression(h))
     /\ l1' = IF Saturates THEN Flushed ELSE Evicted(k, StorageKey(k))
     /\ fill' = Outdated(IF Saturates THEN Key ELSE {k})
     /\ floor' = [floor EXCEPT ![k] = AtLeast(@, Current(h).bound)]
  /\ IF task[h].done + 1 < Len(Current(h).keys)
     THEN task' = [task EXCEPT ![h].done = @ + 1] /\ UNCHANGED <<flying, handled>>
     ELSE Finished(h, task[h].event)
  /\ UNCHANGED <<peerVars, versioned, seen, lapsed, spent>>

\* mutant: the id of an event that could not be applied is kept
DeleteKeyFailsSeen(h) ==
  /\ Handling(h, "del") /\ Spend("fails", setting.maxFails)
  /\ LET k == KeyOf(h) IN
     /\ \E ok \in setting.room : StoreGeneration(k, Advanced(k, Current(h).gen), ok, Regression(h))
     /\ fill' = Outdated(IF Saturates THEN Key ELSE {k})
  /\ task' = [task EXCEPT ![h] = Free]
  /\ UNCHANGED <<peerVars, versioned, l1, flying, handled, floor, seen, lapsed>>

\* L1 rejects: the handler forgets the id and throws, and the transport keeps the event.
DeleteKeyFails(h) ==
  /\ Handling(h, "del") /\ Spend("fails", setting.maxFails)
  /\ LET k == KeyOf(h) IN
     /\ \E ok \in setting.room : StoreGeneration(k, Advanced(k, Current(h).gen), ok, Regression(h))
     /\ fill' = Outdated(IF Saturates THEN Key ELSE {k})
  /\ task' = [task EXCEPT ![h] = Free]
  /\ seen' = Without(seen, task[h].event) /\ lapsed' = lapsed \ {task[h].event}
  /\ UNCHANGED <<peerVars, versioned, l1, flying, handled, floor>>

\* mutant: a saturated cache takes the value of a peer
TakeValueSaturated(h) ==
  /\ Handling(h, "set")
  /\ LET k == KeyOf(h) IN
     IF (versioned /\ saturated) \/ IsStale(Current(h), k)
     THEN UNCHANGED <<l1, fill, gen, tracked, saturated>>
     ELSE \E ok, fits \in setting.room :
            /\ SetsGeneration(k, Current(h).gen, ok)
            /\ fill' = Outdated(IF Saturates THEN Key ELSE {k})
            /\ LET kept == IF Saturates THEN Flushed ELSE l1
                   storage == IF versioned THEN gen'[k] ELSE 0
               IN  l1' = IF fits /\ ~(versioned /\ saturated')
                         THEN Stored(kept, k, storage, Current(h).bound) ELSE kept
  /\ Finished(h, task[h].event)
  /\ UNCHANGED <<peerVars, versioned, seen, lapsed, spent, floor>>

\* A 'set' event: its value goes to L1, unless it is outdated, tracking is saturated, or
\* L1 has no room for it.
TakeValue(h) ==
  /\ Handling(h, "set")
  /\ LET k == KeyOf(h) IN
     IF saturated \/ IsStale(Current(h), k)
     THEN UNCHANGED <<l1, fill, gen, tracked, saturated>>
     ELSE \E ok, fits \in setting.room :
            /\ SetsGeneration(k, Current(h).gen, ok)
            /\ fill' = Outdated(IF Saturates THEN Key ELSE {k})
            /\ LET kept == IF Saturates THEN Flushed ELSE l1
                   storage == IF versioned THEN gen'[k] ELSE 0
               IN  l1' = IF fits /\ ~(versioned /\ saturated')
                         THEN Stored(kept, k, storage, Current(h).bound) ELSE kept
  /\ Finished(h, task[h].event)
  /\ UNCHANGED <<peerVars, versioned, seen, lapsed, spent, floor>>

-----------------------------------------------------------------------------
(* This process *)

\* A getOrSet() miss: its guard holds the storage key of the moment.
FillStarts(k) ==
  /\ ~fill[k].on
  /\ fill' = [fill EXCEPT ![k] = [on |-> TRUE, current |-> VersionedCacheSafe,
                                  storage |-> StorageKey(k), version |-> 0]]
  /\ UNCHANGED <<peerVars, versioned, l1, gen, tracked, saturated, seen, lapsed, task, flying,
                 spent, floor, handled>>

FillLoads(k) ==
  /\ fill[k].on /\ fill[k].version = 0
  /\ fill' = [fill EXCEPT ![k].version = db]
  /\ UNCHANGED <<peerVars, versioned, l1, gen, tracked, saturated, seen, lapsed, task, flying,
                 spent, floor, handled>>

FillStores(k) ==
  /\ fill[k].on /\ fill[k].version # 0
  /\ l1' = IF fill[k].current THEN Stored(l1, k, fill[k].storage, fill[k].version) ELSE l1
  /\ fill' = [fill EXCEPT ![k] = NoFill]
  /\ UNCHANGED <<peerVars, versioned, gen, tracked, saturated, seen, lapsed, task, flying,
                 spent, floor, handled>>

\* delete() of this process.
Delete(k) ==
  /\ setting.localDeletes /\ Spend("mutations", setting.maxMutations)
  /\ \E ok \in setting.room : StoreGeneration(k, gen[k] + 1, ok, FALSE)
  /\ l1' = IF Saturates THEN Flushed ELSE Evicted(k, StorageKey(k))
  /\ fill' = Outdated(IF Saturates THEN Key ELSE {k})
  /\ floor' = [floor EXCEPT ![k] = db]
  /\ UNCHANGED <<peerVars, versioned, seen, lapsed, task, flying, handled>>

-----------------------------------------------------------------------------
(* The peer, the origin and time *)

aside == <<versioned, l1, gen, tracked, saturated, seen, lapsed, task, fill, floor, handled>>

Publish(type, keys, g, bound) ==
  /\ Len(log) < setting.maxEvents
  /\ log' = Append(log, [type |-> type, keys |-> keys, gen |-> g, bound |-> bound])
  /\ flying' = flying \cup {Len(log) + 1}

\* generationForEvent of the peer
EventGeneration(p, k) == IF p.full /\ k \notin p.held THEN NoGeneration ELSE p.gen[k]

\* The peer's own storeGeneration: without room for the counter its tracking is saturated,
\* and every load under way is outdated.
PeerAdvances(k) ==
  \E room \in {TRUE, "saturate" \notin setting.peerCalls} :
    peer' = IF k \in peer.held \/ room
            THEN [peer EXCEPT !.gen[k] = @ + 1, !.held = @ \cup {k}, !.load[k] = 0]
            ELSE [peer EXCEPT !.full = TRUE,
                              !.load = [j \in Key |-> IF peer.full /\ j # k THEN @[j] ELSE 0]]

\* `bound` is the version before which the delete makes values obsolete.
PeerDeletes(k) ==
  /\ "delete" \in setting.peerCalls
  /\ PeerAdvances(k)
  /\ Publish("del", <<k>>, EventGeneration(peer', k), db)
  /\ UNCHANGED <<aside, db, spent>>

\* An event of an older publisher: several keys and no generation.
PeerDeletesMany ==
  /\ "many" \in setting.peerCalls
  /\ \E keys \in {s \in [1..Cardinality(setting.keys) -> setting.keys] : {s[i] : i \in DOMAIN s} = setting.keys} :
       Publish("del", keys, NoGeneration, db)
  /\ UNCHANGED <<aside, db, peer, spent>>

PeerLoads(k) ==
  /\ "set" \in setting.peerCalls /\ peer.load[k] = 0 /\ ~(versioned /\ peer.full)
  /\ peer' = [peer EXCEPT !.load[k] = db]
  /\ UNCHANGED <<aside, db, log, flying, spent>>

\* It broadcasts what it loaded, unless it has deleted the key since or has been saturated
\* (loadAndStore).
PeerSets(k) ==
  /\ peer.load[k] # 0
  /\ Publish("set", <<k>>, EventGeneration(peer, k), peer.load[k])
  /\ peer' = [peer EXCEPT !.load[k] = 0]
  /\ UNCHANGED <<aside, db, spent>>

PeerRestarts ==
  /\ "restart" \in setting.peerCalls /\ \E k \in Key : peer.gen[k] # 0
  /\ peer' = NewPeer
  /\ UNCHANGED <<aside, db, log, flying, spent>>

OriginWrite ==
  /\ db < MaxVersion
  /\ db' = db + 1
  /\ UNCHANGED <<aside, log, peer, flying, spent>>

SeenLapses(id) ==
  /\ HasSeen(id) /\ Spend("lapses", setting.maxLapses)
  /\ lapsed' = lapsed \cup {id}
  /\ UNCHANGED <<peerVars, versioned, l1, gen, tracked, saturated, seen, task, fill, flying, floor,
                 handled>>

Next ==
  /\ \/ \E h \in Runner : \/ \E id \in Id : Deliver(h, id)
                           \/ DeleteKey(h) \/ DeleteKeyFails(h) \/ TakeValue(h)
     \/ \E k \in setting.keys : \/ FillStarts(k) \/ FillLoads(k) \/ FillStores(k) \/ Delete(k)
                               \/ PeerDeletes(k) \/ PeerLoads(k) \/ PeerSets(k)
     \/ PeerDeletesMany \/ PeerRestarts \/ OriginWrite \/ \E id \in Id : SeenLapses(id)
  /\ UNCHANGED setting

-----------------------------------------------------------------------------
(* Properties *)

\* What get() may find in L1.
Visible(k) == {x \in l1[k] : VersionedCacheSafe /\ x.storage = StorageKey(k)}

\* Every generation comes from one publisher that is not restarted, or no values travel.
OneSource ==
  "set" \in setting.peerCalls =>
    setting.peerCalls \subseteq {"delete", "set", "saturate"} /\ ~setting.localDeletes

\* No value of the key was published without a generation.  With one nothing tells a late
\* value from a new one (isStaleGeneration(undefined) is false).
Ordered(k) ==
  ~\E i \in 1..Len(log) : log[i].type = "set" /\ log[i].keys[1] = k /\ log[i].gen = NoGeneration

\* "the delete wins whichever order the messages land in": once a delete has evicted a key
\* no value from before it is read again, whatever is delivered late or twice, although ids
\* are forgotten and the tracking of generations runs out of room here or at the peer.  Left
\* out are the keys of which a saturated peer publishes values without a generation: the
\* late ones among them do bring an older value back.
DeleteWins == OneSource => \A k \in Key : Ordered(k) => \A x \in Visible(k) : x.version >= floor[k]

\* One event is handled at a time.
Serial == \A g, h \in Runner : g = h

\* An event whose handler returned, so that the transport does not deliver it again, was
\* applied to every one of its keys: no failure leaves an id behind that makes the next
\* delivery a duplicate.
HandledMeansApplied ==
  Serial => \A id \in handled : log[id].type = "del" =>
              \A i \in 1..Len(log[id].keys) : floor[log[id].keys[i]] >= log[id].bound
=============================================================================
