----------------------------- MODULE HybridCache -----------------------------
(***************************************************************************)
(* One key of the layered cache, in several processes: the L1 entry of each *)
(* process, the L2 entry they share, and the event bus between them.        *)
(*                                                                         *)
(*   - HybridCache: get, set, delete, the publication of a fill, received   *)
(*     invalidations, mutation guards, trust in the invalidation stream     *)
(*   - L2OperationGate: L2 operations are dispatched in the order they      *)
(*     arrived, some time after they were requested                         *)
(*   - RedisEventBus: each event at most once, none while disconnected       *)
(*                                                                         *)
(* A task is one call in one process.  It runs in steps; between two of     *)
(* them it awaits L2 or the bus, and anything may happen.  A task that      *)
(* awaits L2 is in the gate (not dispatched), on the wire (sent, commands   *)
(* of one process execute in order) or back (executed, answer under way).   *)
(*                                                                         *)
(* MutationGuard holds a revision of the key and an epoch of the cache.     *)
(* Whether they still equal the cache's is all the code asks, so the model  *)
(* keeps the set of tasks for which they do.                                *)
(*                                                                         *)
(* A fill is the leader of a getOrSet() miss.  Which publications L2 takes  *)
(* is what FencedEntry promises and LeasedFill is proved to implement.      *)
(***************************************************************************)
EXTENDS Naturals, Sequences, SequencesExt

CONSTANTS
  Proc,         \* processes
  Slot,         \* call slots of a process: each one makes one call
  Calls,        \* the calls that are made
  MaxVersion,   \* the last version of the origin
  Scenarios     \* who takes part and what may fail: see `scenario`

ASSUME HybridAssumption ==
  /\ "handler" \notin Slot
  /\ Calls \subseteq {"get", "set", "delete", "fill"}
  /\ MaxVersion \in Nat \ {0}
  /\ Scenarios \subseteq [procs : SUBSET Proc, slots : SUBSET Slot, l2Fails : BOOLEAN, busFails : BOOLEAN]

VARIABLES
  \* Never changes: the processes there are, the slots that make a call, whether L2
  \* operations may fail, time out or be refused, and whether processes lose the bus or restart.
  scenario,
  \* The origin and the L2 entry, as in FencedEntry.
  db, floor, data,
  \* One process.
  l1,          \* its L1 entry
  trusted,     \* the processes whose invalidationTrusted is true
  restoring,   \* the ones in restoreInvalidationTrust, its revision unchanged
  gen,         \* the generation of the key
  \* One task.
  kind, pc,
  val,         \* the entry it writes, or the one it read
  sameKey,     \* the tasks whose guard has the revision of the key
  sameEpoch,   \* the tasks whose guard has the mutation epoch
  \* Between the process and L2, and the bus.
  gate,        \* tasks not yet dispatched
  wire,        \* tasks whose command is sent and not executed
  outbox,      \* events not yet published: under way, or in the retry queue
  link,        \* the processes subscribed to the bus
  inbox,       \* what the bus brought and the handler has not taken
  \* History.
  since,       \* for a delete: the origin version when it was called
  effective,   \* the deletes that L2 executed
  returned,    \* the newest `since` of a delete whose L2 part raised no error
  applied,     \* the newest delete whose effect reached the process
  owed         \* the newest delete whose event the process missed

originVars == <<db, floor, data>>
procVars   == <<l1, trusted, restoring, gen>>
taskVars   == <<kind, pc, val>>
guardVars  == <<sameKey, sameEpoch>>
queueVars  == <<gate, wire>>
busVars    == <<outbox, link, inbox>>
histVars   == <<since, effective, returned, applied, owed>>
cacheVars == <<originVars, procVars, taskVars, guardVars, queueVars, busVars, histVars>>
vars == <<scenario, cacheVars>>

-----------------------------------------------------------------------------

Absent == [val |-> 0, by |-> "none"]
Entries == {Absent} \cup [val : 1..MaxVersion, by : {"fill", "set"}]

Handler(p) == <<p, "handler">>
Task       == Proc \X (Slot \cup {"handler"})
Home(t)    == t[1]
TasksOf(p) == {t \in Task : Home(t) = p}

\* What a process tells the others.  bound is history: what its delete ensured.
Events == [id : Task, type : {"del", "set"}, gen : Nat, bound : 0..MaxVersion]

TypeOK ==
  /\ scenario \in Scenarios
  /\ db \in 1..MaxVersion /\ floor \in 1..MaxVersion /\ data \in Entries
  /\ l1 \in [Proc -> Entries] /\ gen \in [Proc -> Nat]
  /\ trusted \subseteq Proc /\ restoring \subseteq Proc /\ link \subseteq Proc
  /\ kind \in [Task -> {"none", "get", "set", "delete", "fill", "prime"}]
  /\ pc \in [Task -> {"idle", "load", "loaded", "gate", "wire", "back", "refused", "done"}]
  /\ val \in [Task -> Entries]
  /\ sameKey \subseteq Task /\ sameEpoch \subseteq Task
  /\ gate \in [Proc -> Seq(Task)] /\ wire \in [Proc -> Seq(Task)]
  /\ outbox \in [Proc -> SUBSET Events] /\ inbox \in [Proc -> Seq(Events)]
  /\ since \in [Task -> 0..MaxVersion] /\ effective \subseteq Task
  /\ returned \in 0..MaxVersion
  /\ applied \in [Proc -> 0..MaxVersion] /\ owed \in [Proc -> 0..MaxVersion]

Init ==
  /\ scenario \in Scenarios
  /\ db = 1 /\ floor = 1
  /\ data \in {Absent, [val |-> 1, by |-> "fill"]}
  /\ l1 = [p \in Proc |-> Absent]
  /\ gen = [p \in Proc |-> 0]
  /\ trusted = scenario.procs /\ restoring = {} /\ link = scenario.procs
  /\ kind = [t \in Task |-> "none"]
  /\ pc = [t \in Task |-> "idle"]
  /\ val = [t \in Task |-> Absent]
  /\ sameKey = {} /\ sameEpoch = {}
  /\ gate = [p \in Proc |-> <<>>]
  /\ wire = [p \in Proc |-> <<>>]
  /\ outbox = [p \in Proc |-> {}]
  /\ inbox = [p \in Proc |-> <<>>]
  /\ since = [t \in Task |-> 0]
  /\ effective = {}
  /\ returned = 0
  /\ applied = [p \in Proc |-> 0]
  /\ owed = [p \in Proc |-> 0]

-----------------------------------------------------------------------------
(***************************************************************************)
(* Guards.                                                                  *)
(***************************************************************************)

AtLeast(m, n) == IF m >= n THEN m ELSE n

\* observeKey(key)
Observe(t) ==
  /\ sameKey' = sameKey \cup {t}
  /\ sameEpoch' = sameEpoch \cup {t}

\* observeKey(key, true): every other guard of the key in this process is obsolete.
Mutate(t) ==
  /\ sameKey' = (sameKey \ TasksOf(Home(t))) \cup {t}
  /\ sameEpoch' = sameEpoch \cup {t}

\* releaseKey
Release(t) ==
  /\ sameKey' = sameKey \ {t}
  /\ sameEpoch' = sameEpoch \ {t}

IsCurrent(t) == t \in sameKey /\ t \in sameEpoch

-----------------------------------------------------------------------------
(***************************************************************************)
(* runL2.                                                                   *)
(***************************************************************************)

\* Ask for an L2 operation: it waits in the gate.
Request(t) == gate' = [gate EXCEPT ![Home(t)] = Append(@, t)]

\* The gate dispatches the oldest request, and the closure looks at its guard: a
\* delete asks for the revision of the key alone, a get for nothing.
Proceeds(t) ==
  CASE kind[t] = "delete"           -> t \in sameKey
    [] kind[t] \in {"set", "fill"}  -> IsCurrent(t)
    [] kind[t] \in {"get", "prime"} -> TRUE

Dispatch(p) ==
  /\ gate[p] # <<>>
  /\ LET t == Head(gate[p]) IN
     /\ gate' = [gate EXCEPT ![p] = Tail(@)]
     /\ \/ /\ Proceeds(t)
           /\ wire' = [wire EXCEPT ![p] = Append(@, t)]
           /\ pc' = [pc EXCEPT ![t] = "wire"]
        \/ /\ ~Proceeds(t)
           /\ pc' = [pc EXCEPT ![t] = "refused"]
           /\ UNCHANGED wire
  /\ UNCHANGED <<originVars, procVars, kind, val, guardVars, busVars, histVars>>

\* The oldest command on the wire is the one its task waits for: not an earlier one that
\* nobody waits for any more.
Awaited(p) ==
  LET t == Head(wire[p]) IN pc[t] = "wire" /\ \A i \in 2..Len(wire[p]) : wire[p][i] # t

\* Redis executes the oldest command of a process.  A publication may find its
\* lease gone; if it does not, FencedEntry says that the value is recent enough.
Execute(p) ==
  /\ wire[p] # <<>>
  /\ LET t == Head(wire[p]) IN
     /\ wire' = [wire EXCEPT ![p] = Tail(@)]
     /\ \/ /\ kind[t] \in {"get", "prime"}
           /\ val' = [val EXCEPT ![t] = IF Awaited(p) THEN data ELSE @]
           /\ pc' = [pc EXCEPT ![t] = IF Awaited(p) THEN "back" ELSE @]
           /\ UNCHANGED <<data, floor, effective, applied>>
        \/ /\ kind[t] \in {"set", "delete"}
           /\ data' = IF kind[t] = "set" THEN val[t] ELSE Absent
           /\ floor' = db
           /\ pc' = [pc EXCEPT ![t] = IF Awaited(p) THEN "back" ELSE @]
           /\ IF kind[t] = "delete"
              THEN /\ effective' = effective \cup {t}
                   /\ applied' = [applied EXCEPT ![p] = AtLeast(@, since[t])]
              ELSE UNCHANGED <<effective, applied>>
           /\ UNCHANGED val
        \/ /\ kind[t] = "fill"
           /\ val[t].val >= floor
           /\ data' = val[t]
           /\ pc' = [pc EXCEPT ![t] = IF Awaited(p) THEN "back" ELSE @]
           /\ UNCHANGED <<val, floor, effective, applied>>
        \/ /\ kind[t] = "fill"
           /\ pc' = [pc EXCEPT ![t] = IF Awaited(p) THEN "refused" ELSE @]
           /\ UNCHANGED <<val, data, floor, effective, applied>>
  /\ UNCHANGED <<db, procVars, kind, guardVars, gate, busVars, since, returned, owed>>

\* The answer is there, or the operation will have none: refused by an open
\* breaker, a full gate or an expired wait, failed, timed out, reply lost.  What
\* was sent may still be executed.
Answered(t) == pc[t] \in {"back", "refused"}
Failed(t)   == scenario.l2Fails /\ pc[t] \in {"gate", "wire", "back"}

Without(s, t) ==
  IF \E i \in 1..Len(s) : s[i] = t THEN RemoveAt(s, CHOOSE i \in 1..Len(s) : s[i] = t) ELSE s
Forget(t) == gate' = [gate EXCEPT ![Home(t)] = Without(@, t)]

\* The call ends.
End(t) ==
  /\ pc' = [pc EXCEPT ![t] = "done"]
  /\ Release(t)

\* The event a delete or a fill broadcasts, with the generation it has by then.
\* bound is what a delete that L2 executed ensures.
EventOf(t) ==
  [id    |-> t,
   type  |-> IF kind[t] = "delete" THEN "del" ELSE "set",
   gen   |-> gen[Home(t)],
   bound |-> IF t \in effective THEN since[t] ELSE 0]

Broadcast(t) == outbox' = [outbox EXCEPT ![Home(t)] = @ \cup {EventOf(t)}]

-----------------------------------------------------------------------------
(***************************************************************************)
(* The calls.                                                               *)
(***************************************************************************)

Begin(t, k) ==
  /\ k \in Calls
  /\ t \in scenario.procs \X scenario.slots
  /\ pc[t] = "idle"
  /\ kind' = [kind EXCEPT ![t] = k]

\* mutant: a get takes its guard with the mutate flag.
GetMutates(t) ==
  /\ Begin(t, "get")
  /\ Home(t) \in trusted => l1[Home(t)] = Absent
  /\ Mutate(t)
  /\ Request(t)
  /\ pc' = [pc EXCEPT ![t] = "gate"]
  /\ UNCHANGED <<originVars, procVars, val, wire, busVars, histVars>>

\* get(): a hit in a trusted L1 changes nothing, so only the others are steps.
Get(t) ==
  /\ Begin(t, "get")
  /\ Home(t) \in trusted => l1[Home(t)] = Absent
  /\ Observe(t)
  /\ Request(t)
  /\ pc' = [pc EXCEPT ![t] = "gate"]
  /\ UNCHANGED <<originVars, procVars, val, wire, busVars, histVars>>

\* The L2 value is promoted to L1 (unless memory is short) when the guard is
\* current and the stream of invalidations is trusted; the caller gets it anyway.
GetSettles(t) ==
  /\ kind[t] = "get"
  /\ Answered(t) \/ Failed(t)
  /\ \/ /\ Answered(t) /\ val[t] # Absent
        /\ IsCurrent(t) /\ Home(t) \in trusted
        /\ l1' = [l1 EXCEPT ![Home(t)] = val[t]]
     \/ UNCHANGED l1
  /\ Forget(t)
  /\ End(t)
  /\ UNCHANGED <<originVars, trusted, restoring, gen, kind, val, wire, busVars, histVars>>

\* set(): L1 first, then L2; nothing is broadcast.
Set(t) ==
  /\ Begin(t, "set")
  /\ Mutate(t)
  /\ val' = [val EXCEPT ![t] = [val |-> db, by |-> "set"]]
  /\ l1' = [l1 EXCEPT ![Home(t)] = [val |-> db, by |-> "set"]]
  /\ Request(t)
  /\ pc' = [pc EXCEPT ![t] = "gate"]
  /\ UNCHANGED <<originVars, trusted, restoring, gen, wire, busVars, histVars>>

SetSettles(t) ==
  /\ kind[t] = "set"
  /\ Answered(t) \/ Failed(t)
  /\ Forget(t)
  /\ End(t)
  /\ UNCHANGED <<originVars, procVars, kind, val, wire, busVars, histVars>>

\* mutant: the guards of the calls in flight stay current.
DeleteUnguarded(t) ==
  /\ Begin(t, "delete")
  /\ Observe(t)
  /\ gen' = [gen EXCEPT ![Home(t)] = @ + 1]
  /\ l1' = [l1 EXCEPT ![Home(t)] = Absent]
  /\ since' = [since EXCEPT ![t] = db]
  /\ Request(t)
  /\ pc' = [pc EXCEPT ![t] = "gate"]
  /\ UNCHANGED <<originVars, trusted, restoring, val, wire, busVars, effective, returned, applied, owed>>

\* delete(): guard, generation and L1 at once, then L2, then the bus.
Delete(t) ==
  /\ Begin(t, "delete")
  /\ Mutate(t)
  /\ gen' = [gen EXCEPT ![Home(t)] = @ + 1]
  /\ l1' = [l1 EXCEPT ![Home(t)] = Absent]
  /\ since' = [since EXCEPT ![t] = db]
  /\ Request(t)
  /\ pc' = [pc EXCEPT ![t] = "gate"]
  /\ UNCHANGED <<originVars, trusted, restoring, val, wire, busVars, effective, returned, applied, owed>>

DeleteSettles(t) ==
  /\ kind[t] = "delete"
  /\ \/ Answered(t) /\ returned' = AtLeast(returned, since[t])
     \/ Failed(t) /\ UNCHANGED returned
  /\ Forget(t)
  /\ End(t)
  /\ Broadcast(t)
  /\ UNCHANGED <<originVars, procVars, kind, val, wire, link, inbox, since, effective, applied, owed>>

\* A leader starts: loadWithDistributedLock.
Fill(t) ==
  /\ Begin(t, "fill")
  /\ Observe(t)
  /\ pc' = [pc EXCEPT ![t] = "load"]
  /\ UNCHANGED <<originVars, procVars, val, queueVars, busVars, histVars>>

LoaderReads(t) ==
  /\ pc[t] = "load"
  /\ val' = [val EXCEPT ![t] = [val |-> db, by |-> "fill"]]
  /\ pc' = [pc EXCEPT ![t] = "loaded"]
  /\ UNCHANGED <<originVars, procVars, kind, guardVars, queueVars, busVars, histVars>>

\* The loader's value goes to L2 first, if the guard is still current.
FillPublishes(t) ==
  /\ pc[t] = "loaded"
  /\ IsCurrent(t)
  /\ Request(t)
  /\ pc' = [pc EXCEPT ![t] = "gate"]
  /\ UNCHANGED <<originVars, procVars, kind, val, guardVars, wire, busVars, histVars>>

\* Otherwise, or without a lease, only the caller gets it.
FillKept(t) ==
  /\ pc[t] \in {"load", "loaded"}
  /\ End(t)
  /\ UNCHANGED <<originVars, procVars, kind, val, queueVars, busVars, histVars>>

\* 'published': L1 and the broadcast, if the guard is current even now.  The
\* broadcast is optional, and skipped when the value is too large.
FillPublished(t) ==
  /\ kind[t] = "fill" /\ pc[t] = "back"
  /\ IsCurrent(t) /\ Home(t) \in trusted
  /\ l1' = [l1 EXCEPT ![Home(t)] = val[t]]
  /\ End(t)
  /\ Broadcast(t) \/ UNCHANGED outbox
  /\ UNCHANGED <<originVars, trusted, restoring, gen, kind, val, queueVars, link, inbox, histVars>>

\* 'not-owner', skipped, failed, uncertain, or obsolete by now.
FillSettles(t) ==
  /\ kind[t] = "fill"
  /\ \/ pc[t] = "back" /\ ~(IsCurrent(t) /\ Home(t) \in trusted)
     \/ pc[t] = "refused"
     \/ Failed(t)
  /\ Forget(t)
  /\ End(t)
  /\ UNCHANGED <<originVars, procVars, kind, val, wire, busVars, histVars>>

-----------------------------------------------------------------------------
(***************************************************************************)
(* The bus.                                                                 *)
(***************************************************************************)

\* An event reaches every subscribed peer, late if earlier attempts failed, before or
\* after younger ones; a peer that is not subscribed misses it.
Publish(p) ==
  /\ \E e \in outbox[p] :
       /\ inbox' = [q \in Proc |-> IF q \in link \ {p} THEN Append(inbox[q], e) ELSE inbox[q]]
       /\ owed' = [q \in Proc |-> IF q \notin scenario.procs \ (link \cup {p}) THEN owed[q] ELSE AtLeast(owed[q], e.bound)]
       /\ outbox' = [outbox EXCEPT ![p] = @ \ {e}]
  /\ UNCHANGED <<originVars, procVars, taskVars, guardVars, queueVars, link, since, effective, returned, applied>>

\* The bus breaker is open, or the retry queue drops the event: no peer is told.
PublishFails(p) ==
  /\ scenario.busFails
  /\ \E e \in outbox[p] : outbox' = [outbox EXCEPT ![p] = @ \ {e}]
  /\ UNCHANGED <<originVars, procVars, taskVars, guardVars, queueVars, link, inbox, histVars>>

\* The handler takes the oldest event, one at a time.
Received(p, type) ==
  /\ pc[Handler(p)] = "idle"
  /\ inbox[p] # <<>> /\ Head(inbox[p]).type = type
  /\ inbox' = [inbox EXCEPT ![p] = Tail(@)]

\* mutant: evicts L1 and leaves the calls in flight alone.
ReceiveDeleteUnguarded(p) ==
  /\ Received(p, "del")
  /\ LET e == Head(inbox[p]) IN
     /\ gen' = [gen EXCEPT ![p] = AtLeast(@, e.gen)]
     /\ applied' = [applied EXCEPT ![p] = AtLeast(@, e.bound)]
  /\ l1' = [l1 EXCEPT ![p] = Absent]
  /\ UNCHANGED <<originVars, trusted, restoring, taskVars, guardVars, queueVars, outbox, link,
                 since, effective, returned, owed>>

\* applyRemoteDelete: also when the generation looks stale, since the peer may have
\* restarted.  Only this process evicts; the publisher owns L2.
ReceiveDelete(p) ==
  /\ Received(p, "del")
  /\ LET e == Head(inbox[p]) IN
     /\ gen' = [gen EXCEPT ![p] = AtLeast(@, e.gen)]
     /\ applied' = [applied EXCEPT ![p] = AtLeast(@, e.bound)]
  /\ sameKey' = sameKey \ TasksOf(p)
  /\ l1' = [l1 EXCEPT ![p] = Absent]
  /\ UNCHANGED <<originVars, trusted, restoring, taskVars, sameEpoch, queueVars, outbox, link,
                 since, effective, returned, owed>>

\* applyRemoteSet: untrusted, or of an older generation.
IgnoreSet(p) ==
  /\ Received(p, "set")
  /\ p \notin trusted \/ Head(inbox[p]).gen < gen[p]
  /\ UNCHANGED <<originVars, procVars, taskVars, guardVars, queueVars, outbox, link, histVars>>

\* applyRemoteSet: the event is a hint, the value is read from L2.
ReceiveSet(p) ==
  /\ Received(p, "set")
  /\ p \in trusted /\ Head(inbox[p]).gen >= gen[p]
  /\ gen' = [gen EXCEPT ![p] = Head(inbox[p]).gen]
  /\ Mutate(Handler(p))
  /\ Request(Handler(p))
  /\ kind' = [kind EXCEPT ![Handler(p)] = "prime"]
  /\ pc' = [pc EXCEPT ![Handler(p)] = "gate"]
  /\ UNCHANGED <<originVars, l1, trusted, restoring, val, wire, outbox, link, histVars>>

\* What L2 holds goes to L1; nothing there, no answer or no memory: L1 is emptied.
PrimeSettles(p) ==
  LET t == Handler(p) IN
  /\ kind[t] = "prime"
  /\ Answered(t) \/ Failed(t)
  /\ IF IsCurrent(t) /\ p \in trusted
     THEN \/ Answered(t) /\ l1' = [l1 EXCEPT ![p] = val[t]]
          \/ l1' = [l1 EXCEPT ![p] = Absent]
     ELSE UNCHANGED l1
  /\ Forget(t)
  /\ Release(t)
  /\ pc' = [pc EXCEPT ![t] = "idle"]
  /\ val' = [val EXCEPT ![t] = Absent]
  /\ UNCHANGED <<originVars, trusted, restoring, gen, kind, wire, busVars, histVars>>

-----------------------------------------------------------------------------
(***************************************************************************)
(* Trust.                                                                   *)
(***************************************************************************)

\* The newest delete among the events of a sequence.
Newest(events) ==
  LET bounds == {events[i].bound : i \in 1..Len(events)} \cup {0}
  IN  CHOOSE b \in bounds : \A c \in bounds : b >= c

\* clearInflight, clearNegative, clearStale, l1.deleteByPattern('*'), epoch + 1.
Flush(p) ==
  /\ l1' = [l1 EXCEPT ![p] = Absent]
  /\ sameEpoch' = sameEpoch \ TasksOf(p)

\* The connection is gone; nobody knows yet.
LinkDrops(p) ==
  /\ scenario.busFails
  /\ p \in link
  /\ link' = link \ {p}
  /\ UNCHANGED <<originVars, procVars, taskVars, guardVars, queueVars, outbox, inbox, histVars>>

\* 'disconnected': the queued events are discarded, the cache does not trust L1.
Disconnected(p) ==
  /\ p \notin link
  /\ p \in trusted \cup restoring
  /\ inbox' = [inbox EXCEPT ![p] = <<>>]
  /\ owed' = [owed EXCEPT ![p] = AtLeast(@, Newest(inbox[p]))]
  /\ trusted' = trusted \ {p}
  /\ restoring' = restoring \ {p}
  /\ Flush(p)
  /\ UNCHANGED <<originVars, gen, taskVars, sameKey, queueVars, outbox, link, since, effective, returned, applied>>

\* 'error': the handler's queue is full and drops an event.
Overflow(p) ==
  /\ scenario.busFails
  /\ inbox[p] # <<>>
  /\ LET last == Len(inbox[p]) IN
     /\ inbox' = [inbox EXCEPT ![p] = SubSeq(@, 1, last - 1)]
     /\ owed' = [owed EXCEPT ![p] = AtLeast(@, inbox[p][last].bound)]
  /\ trusted' = trusted \ {p}
  /\ restoring' = restoring \ {p}
  /\ Flush(p)
  /\ UNCHANGED <<originVars, gen, taskVars, sameKey, queueVars, outbox, link, since, effective, returned, applied>>

\* 'subscribed', on a new connection or once the handler is idle after an overflow:
\* restoreInvalidationTrust flushes, and yields.
Subscribed(p) ==
  /\ p \notin trusted \cup restoring
  /\ p \in link => inbox[p] = <<>> /\ pc[Handler(p)] = "idle"
  /\ link' = link \cup {p}
  /\ restoring' = restoring \cup {p}
  /\ Flush(p)
  /\ UNCHANGED <<originVars, trusted, gen, taskVars, sameKey, queueVars, outbox, inbox, histVars>>

\* It trusts the stream again, unless the bus went away meanwhile.
TrustRestored(p) ==
  /\ p \in restoring
  /\ restoring' = restoring \ {p}
  /\ trusted' = trusted \cup {p}
  /\ UNCHANGED <<originVars, l1, gen, taskVars, guardVars, queueVars, busVars, histVars>>

\* The process dies and comes back with an empty cache.  What it sent may still be
\* executed; generations start at 0 again.
Restart(p) ==
  /\ scenario.busFails
  /\ l1' = [l1 EXCEPT ![p] = Absent]
  /\ gen' = [gen EXCEPT ![p] = 0]
  /\ trusted' = trusted \ {p}
  /\ restoring' = restoring \ {p}
  /\ link' = link \ {p}
  /\ inbox' = [inbox EXCEPT ![p] = <<>>]
  /\ owed' = [owed EXCEPT ![p] = AtLeast(@, Newest(inbox[p]))]
  /\ gate' = [gate EXCEPT ![p] = <<>>]
  /\ outbox' = [outbox EXCEPT ![p] = {}]
  /\ pc' = [t \in Task |-> IF t = Handler(p) THEN "idle"
                         ELSE IF Home(t) = p /\ pc[t] # "idle" THEN "done" ELSE pc[t]]
  /\ sameKey' = sameKey \ TasksOf(p)
  /\ sameEpoch' = sameEpoch \ TasksOf(p)
  /\ UNCHANGED <<originVars, kind, val, wire, since, effective, returned, applied>>

-----------------------------------------------------------------------------
(***************************************************************************)
(* The environment.                                                         *)
(***************************************************************************)

OriginWrite ==
  /\ db < MaxVersion
  /\ db' = db + 1
  /\ UNCHANGED <<floor, data, procVars, taskVars, guardVars, queueVars, busVars, histVars>>

\* TTL, eviction, memory pressure.
L1Evicts(p) ==
  /\ l1[p] # Absent
  /\ l1' = [l1 EXCEPT ![p] = Absent]
  /\ UNCHANGED <<originVars, trusted, restoring, gen, taskVars, guardVars, queueVars, busVars, histVars>>

L2Expires ==
  /\ data # Absent
  /\ data' = Absent
  /\ UNCHANGED <<db, floor, procVars, taskVars, guardVars, queueVars, busVars, histVars>>

Call(t) ==
  \/ Get(t) \/ GetSettles(t) \/ Set(t) \/ SetSettles(t) \/ Delete(t) \/ DeleteSettles(t)
  \/ Fill(t) \/ LoaderReads(t) \/ FillPublishes(t) \/ FillKept(t) \/ FillPublished(t) \/ FillSettles(t)

Shared(p) ==
  \/ Dispatch(p) \/ Execute(p) \/ Publish(p) \/ PublishFails(p) \/ ReceiveDelete(p) \/ IgnoreSet(p) \/ ReceiveSet(p) \/ PrimeSettles(p)
  \/ LinkDrops(p) \/ Disconnected(p) \/ Overflow(p) \/ Subscribed(p) \/ TrustRestored(p) \/ Restart(p) \/ L1Evicts(p)

Next ==
  /\ UNCHANGED scenario
  /\ \/ OriginWrite \/ L2Expires
     \/ \E t \in Task : Call(t)
     \/ \E p \in scenario.procs : Shared(p)

Spec == Init /\ [][Next]_vars

-----------------------------------------------------------------------------
(***************************************************************************)
(* Properties.                                                              *)
(***************************************************************************)

\* "Local and remote invalidations fence in-flight loads and L2 promotions": a
\* process that trusts its bus and is connected to it serves from L1 no loader
\* result older than a delete that reached it, or whose event it missed while it
\* was away.
L1Fresh ==
  /\ TypeOK
  /\ \A p \in trusted \cap link :
       l1[p].by = "fill" => l1[p].val >= applied[p] /\ l1[p].val >= owed[p]

\* "Invalidate one key locally, in L2, and across the event bus": when all calls
\* are over, L2 holds no loader result older than a delete that returned and
\* whose L2 part raised no error.
DeleteReachesL2 ==
  (\A t \in Task : pc[t] \in {"idle", "done"}) /\ (\A p \in Proc : wire[p] = <<>>)
    => (data.by = "fill" => data.val >= returned)

\* One process, and nothing fails.
Alone == /\ \A p, q \in scenario.procs : p = q
         /\ ~scenario.l2Fails /\ ~scenario.busFails

\* Among the calls of one process, nothing failing, a delete reaches L2: whatever
\* supersedes one that waits for L2 reaches L2 in its place.
LocalDeleteReachesL2 == Alone => DeleteReachesL2
=============================================================================
