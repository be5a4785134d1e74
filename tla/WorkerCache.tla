----------------------------- MODULE WorkerCache -----------------------------
(***************************************************************************)
(* CloudflareWorkerCache: requests that share one facade in an isolate, its *)
(* L1, its in-flight loads and its revision guards, over a KV namespace      *)
(* that is eventually consistent and cannot compare and set.  One key: the   *)
(* facade keeps nothing that relates two.  A step is what runs between two   *)
(* awaits.                                                                   *)
(*                                                                          *)
(* A value is the number of local mutations that had been made when it was   *)
(* observed, and the time its logical TTL ends.                              *)
(***************************************************************************)
EXTENDS Integers, FiniteSets

CONSTANTS
  Request, None,
  Publisher,              \* options.invalidationPublisher is given
  L1TtlMs, TtlMs,
  MaxMutations, MaxTime   \* bounds of the model

WorkerAssumption ==
  /\ None \notin Request /\ IsFiniteSet(Request) /\ Publisher \in BOOLEAN
  /\ {L1TtlMs, TtlMs} \subseteq Nat \ {0} /\ {MaxMutations, MaxTime} \subseteq Nat

VARIABLES
  now,
  l1,          \* the entry: a value and when it leaves; or None
  stored,      \* ends of the logical TTLs of the records that KV may still return
  state,       \* [Ids -> WorkerKeyRevision], 0 references: free
  current,     \* keyRevisions.get(name): an id or 0
  inflight,    \* the request whose promise is registered, or None
  call,        \* [Request -> its call, see Idle]
  mutations,   \* local set, delete and deleteByPattern calls so far
  closed
vars == <<now, l1, stored, state, current, inflight, call, mutations, closed>>

Ids == 1..Cardinality(Request)
Answer(from, seen) == [from |-> from, seen |-> seen]
Nothing == Answer("nothing", 0)

\* The operation and where it is; its guard; the mutations when it was called and when it
\* took its guard; when its KV call began; whose load it waits for; what KV and the queue
\* did for it; its answer.
Idle == [op |-> "none", pc |-> "done", id |-> 0, revision |-> 0, since |-> 0, seen |-> 0,
         at |-> 0, leader |-> None, kv |-> FALSE, queued |-> FALSE, out |-> Nothing]

Init ==
  /\ now = 0 /\ l1 = None /\ stored = {} /\ closed = FALSE /\ mutations = 0
  /\ state = [i \in Ids |-> [revision |-> 0, references |-> 0]] /\ current = 0
  /\ inflight = None /\ call = [r \in Request |-> Idle]

Smaller(a, b) == IF a < b THEN a ELSE b

-----------------------------------------------------------------------------
(* Guards *)

\* observeKey: the state of the key, made when there is none, and one more reference.
Observe(id, mutate) ==
  /\ IF current # 0 THEN id = current ELSE state[id].references = 0
  /\ current' = id
  /\ LET before == IF current # 0 THEN state[id] ELSE [revision |-> 0, references |-> 0]
     IN  state' = [state EXCEPT ![id] =
           [revision |-> before.revision + IF mutate THEN 1 ELSE 0, references |-> before.references + 1]]

\* mutant: the state stays in the map.
ReleaseKeeps(c) == state' = [state EXCEPT ![c.id].references = @ - 1] /\ UNCHANGED current

releaseKey(c) ==
  /\ state' = [state EXCEPT ![c.id].references = @ - 1]
  /\ current' = IF state[c.id].references = 1 /\ current = c.id THEN 0 ELSE current

\* mutant: a facade that was closed is as current as ever.
CurrentThoughClosed(c) == state[c.id].revision = c.revision

\* mutant: what happened to the key meanwhile is not asked.
CurrentIfOpen(c) == ~closed /\ current = c.id

isCurrent(c) == ~closed /\ current = c.id /\ state[c.id].revision = c.revision

\* mutant: the time the call to KV took is not counted.
RemainingWhole(ttl, at) == Smaller(L1TtlMs, ttl)

\* What is left for L1 of a TTL that was known at a time.
Remaining(ttl, at) == Smaller(L1TtlMs, ttl - (now - at))

Entry(seen, ttl, until) == [seen |-> seen, expires |-> now + ttl, until |-> until]

-----------------------------------------------------------------------------
(* get, getOrSet *)

Finish(r, out) == call' = [call EXCEPT ![r] = [Idle EXCEPT !.since = call[r].since, !.out = out]]

\* L1 answers at once; otherwise KV is asked under a guard.
Get(r, op) ==
  /\ call[r].pc = "done" /\ ~closed
  /\ LET local == l1 # None /\ l1.expires > now IN
     \/ /\ local
        /\ call' = [call EXCEPT ![r] = [Idle EXCEPT !.since = mutations, !.out = Answer("l1", l1.seen)]]
        /\ UNCHANGED <<l1, state, current>>
     \/ /\ ~local /\ l1' = None
        /\ \E id \in Ids :
             /\ Observe(id, FALSE)
             /\ call' = [call EXCEPT ![r] =
                  [Idle EXCEPT !.op = op, !.pc = "reading", !.id = id, !.revision = state'[id].revision,
                               !.since = mutations, !.seen = mutations, !.at = now]]
  /\ UNCHANGED <<now, stored, inflight, mutations, closed>>

\* The part of getOrSet after its get.
Missed(r) == IF call[r].op = "get" THEN Finish(r, Nothing)
             ELSE call' = [call EXCEPT ![r] = [Idle EXCEPT !.op = "getOrSet", !.pc = "checked", !.since = call[r].since]]

\* external: KV returns a record it was given at some time, or none.
KVReturns == {u \in stored : u > now}

ReadReturns(r) ==
  /\ call[r].pc = "reading" /\ releaseKey(call[r])
  /\ \/ Missed(r) /\ UNCHANGED l1
     \/ \E until \in KVReturns :
          LET left == Remaining(until - now, call[r].at) IN
          IF left <= 0 THEN Missed(r) /\ UNCHANGED l1
          ELSE /\ l1' = IF isCurrent(call[r]) THEN Entry(call[r].seen, left, until) ELSE l1
               /\ Finish(r, Answer("kv", call[r].seen))
  /\ UNCHANGED <<now, stored, inflight, mutations, closed>>

ReadFails(r) ==
  /\ call[r].pc = "reading" /\ releaseKey(call[r])
  /\ IF call[r].op = "get" THEN Finish(r, Answer("error", 0)) ELSE Missed(r)
  /\ UNCHANGED <<now, l1, stored, inflight, mutations, closed>>

\* mutant: a load that is under way is not looked for.
LeadAlways(r) ==
  /\ call[r].pc = "checked" /\ ~closed
  /\ \E id \in Ids :
       /\ Observe(id, FALSE) /\ inflight' = r
       /\ call' = [call EXCEPT ![r].pc = "starting", ![r].id = id, ![r].revision = state'[id].revision,
                               ![r].seen = mutations]
  /\ UNCHANGED <<now, l1, stored, mutations, closed>>

\* Joins the registered load, or registers one.
Lead(r) ==
  /\ call[r].pc = "checked"
  /\ \/ closed /\ Finish(r, Answer("closed", 0)) /\ UNCHANGED <<state, current, inflight>>
     \/ /\ ~closed /\ inflight # None
        /\ call' = [call EXCEPT ![r].pc = "joined", ![r].leader = inflight]
        /\ UNCHANGED <<state, current, inflight>>
     \/ /\ ~closed /\ inflight = None
        /\ \E id \in Ids :
             /\ Observe(id, FALSE) /\ inflight' = r
             /\ call' = [call EXCEPT ![r].pc = "starting", ![r].id = id, ![r].revision = state'[id].revision,
                                     ![r].seen = mutations]
  /\ UNCHANGED <<now, l1, stored, mutations, closed>>

\* The promise settles: who joined it is answered too, and it leaves the map if it is
\* still there.
Settle(r, out) ==
  /\ call' = [c \in Request |->
       IF c = r \/ (call[c].pc = "joined" /\ call[c].leader = r)
       THEN [Idle EXCEPT !.since = call[c].since,
                         !.out = IF c # r /\ out.from = "origin" THEN Answer("joined", out.seen) ELSE out]
       ELSE call[c]]
  /\ inflight' = IF inflight = r THEN None ELSE inflight
  /\ releaseKey(call[r])

LoadStarts(r) ==
  /\ call[r].pc = "starting"
  /\ \/ closed /\ Settle(r, Answer("closed", 0))
     \/ ~closed /\ call' = [call EXCEPT ![r].pc = "loading"] /\ UNCHANGED <<state, current, inflight>>
  /\ UNCHANGED <<now, l1, stored, mutations, closed>>

\* The loader's value is published if no mutation came in between.  (A loader that fails or
\* returns nothing settles the promise likewise.)
LoadReturns(r, out) ==
  /\ call[r].pc = "loading"
  /\ \/ /\ out = "value" /\ isCurrent(call[r])
        /\ call' = [call EXCEPT ![r].pc = "putting", ![r].at = now]
        /\ UNCHANGED <<state, current, inflight>>
     \/ /\ ~(out = "value" /\ isCurrent(call[r]))
        /\ Settle(r, Answer(IF out = "value" THEN "origin" ELSE out, call[r].seen))
  /\ UNCHANGED <<now, l1, stored, mutations, closed>>

\* publishValue after the put.  KV has the record unless the put failed, and may have it
\* even then; a load whose put failed keeps its value in L1 all the same.
PutReturns(r, ok, lands) ==
  /\ call[r].pc = "putting" /\ (ok => lands)
  /\ stored' = IF lands THEN stored \union {call[r].at + TtlMs} ELSE stored
  /\ LET left == Remaining(TtlMs, call[r].at) IN
     l1' = IF isCurrent(call[r]) /\ left > 0 /\ (ok \/ call[r].op = "getOrSet")
           THEN Entry(call[r].seen, left, call[r].at + TtlMs) ELSE l1
  /\ Settle(r, IF call[r].op = "getOrSet" THEN Answer("origin", call[r].seen)
               ELSE IF ok THEN Nothing ELSE Answer("error", 0))
  /\ UNCHANGED <<now, mutations, closed>>

-----------------------------------------------------------------------------
(* set, delete, deleteByPattern, close *)

\* mutant: the load that is under way stays registered.
MutateKeepsLoad(r, op, pc) ==
  /\ call[r].pc = "done" /\ ~closed /\ mutations < MaxMutations /\ mutations' = mutations + 1
  /\ \E id \in Ids :
       /\ Observe(id, TRUE)
       /\ call' = [call EXCEPT ![r] = [Idle EXCEPT !.op = op, !.pc = pc, !.id = id,
                     !.revision = state'[id].revision, !.since = mutations, !.seen = mutations + 1, !.at = now]]
  /\ l1' = None
  /\ UNCHANGED <<now, stored, inflight, closed>>

\* What set and delete do before their first await.
Mutate(r, op, pc) ==
  /\ call[r].pc = "done" /\ ~closed /\ mutations < MaxMutations /\ mutations' = mutations + 1
  /\ \E id \in Ids :
       /\ Observe(id, TRUE)
       /\ call' = [call EXCEPT ![r] = [Idle EXCEPT !.op = op, !.pc = pc, !.id = id,
                     !.revision = state'[id].revision, !.since = mutations, !.seen = mutations + 1, !.at = now]]
  /\ inflight' = None /\ l1' = None
  /\ UNCHANGED <<now, stored, closed>>

Set(r) == Mutate(r, "set", "putting")
Delete(r) == Mutate(r, "delete", "deleting")

\* A pattern bumps the states that exist and takes no guard.
DeleteByPattern(r) ==
  /\ call[r].pc = "done" /\ ~closed /\ mutations < MaxMutations /\ mutations' = mutations + 1
  /\ state' = [i \in Ids |-> IF i = current THEN [state[i] EXCEPT !.revision = @ + 1] ELSE state[i]]
  /\ call' = [call EXCEPT ![r] = [Idle EXCEPT !.op = "pattern", !.pc = "deleting", !.since = mutations]]
  /\ inflight' = None /\ l1' = None
  /\ UNCHANGED <<now, stored, current, closed>>

Unguard(r) == IF call[r].id = 0 THEN UNCHANGED <<state, current>> ELSE releaseKey(call[r])

Resolve(r, out, kv, queued) ==
  /\ call' = [call EXCEPT ![r] = [Idle EXCEPT !.op = "resolved", !.since = call[r].since, !.out = out,
                                              !.kv = kv, !.queued = queued]]
  /\ Unguard(r)

\* mutant: an error of KV is forgotten.
DeleteForgets(r, result) ==
  /\ call[r].pc = "deleting"
  /\ IF result # "range" /\ Publisher
     THEN call' = [call EXCEPT ![r].pc = "publishing", ![r].kv = result = "ok"] /\ UNCHANGED <<state, current>>
     ELSE Resolve(r, Nothing, result = "ok", FALSE)
  /\ UNCHANGED <<now, l1, stored, inflight, mutations, closed>>

\* invalidateWithQueue: a RangeError is the caller's; after any other failure the queue may
\* still invalidate.
DeleteReturns(r, result) ==
  /\ call[r].pc = "deleting"
  /\ IF result # "range" /\ Publisher
     THEN call' = [call EXCEPT ![r].pc = "publishing", ![r].kv = result = "ok"] /\ UNCHANGED <<state, current>>
     ELSE Resolve(r, IF result = "ok" THEN Nothing ELSE Answer("error", 0), result = "ok", FALSE)
  /\ UNCHANGED <<now, l1, stored, inflight, mutations, closed>>

PublishReturns(r, ok) ==
  /\ call[r].pc = "publishing"
  /\ Resolve(r, IF ok THEN Nothing ELSE Answer("error", 0), call[r].kv, ok)
  /\ UNCHANGED <<now, l1, stored, inflight, mutations, closed>>

Close ==
  /\ ~closed /\ closed' = TRUE /\ inflight' = None /\ current' = 0
  /\ UNCHANGED <<now, l1, stored, state, call, mutations>>

Tick ==
  /\ now < MaxTime /\ now' = now + 1 /\ stored' = {u \in stored : u > now + 1}
  /\ UNCHANGED <<l1, state, current, inflight, call, mutations, closed>>

Next ==
  \/ Close \/ Tick
  \/ \E r \in Request :
       \/ \E op \in {"get", "getOrSet"} : Get(r, op)
       \/ ReadReturns(r) \/ ReadFails(r) \/ Lead(r) \/ LoadStarts(r)
       \/ \E out \in {"value", "nothing", "error"} : LoadReturns(r, out)
       \/ \E ok, lands \in BOOLEAN : PutReturns(r, ok, lands)
       \/ Set(r) \/ Delete(r) \/ DeleteByPattern(r)
       \/ \E result \in {"ok", "fails", "range"} : DeleteReturns(r, result)
       \/ \E ok \in BOOLEAN : PublishReturns(r, ok)

Spec == Init /\ [][Next]_vars

-----------------------------------------------------------------------------
TypeOK ==
  /\ now \in 0..MaxTime /\ mutations \in 0..MaxMutations /\ current \in Ids \union {0}
  /\ inflight \in Request \union {None} /\ closed \in BOOLEAN
  /\ \A i \in Ids : state[i].references \in 0..Cardinality(Request)
  /\ \A r \in Request : call[r].id \in Ids \union {0} /\ call[r].seen \in 0..mutations

(***************************************************************************)
(* L1 holds nothing that was observed before the latest local set or delete, *)
(* whatever reads and loads were under way when it came.                     *)
(***************************************************************************)
L1SinceMutation == ~closed /\ l1 # None => l1.seen = mutations

(***************************************************************************)
(* L1 keeps no value beyond the logical TTL of the record it came from,      *)
(* however long the calls to KV took.                                        *)
(***************************************************************************)
L1WithinTtl == l1 # None => l1.expires <= l1.until

(***************************************************************************)
(* A request is not answered from L1 or from another request's load with     *)
(* what was observed before a mutation that preceded the request.            *)
(***************************************************************************)
SharedIsFresh ==
  \A r \in Request : call[r].out.from \in {"l1", "joined"} => call[r].out.seen >= call[r].since

(***************************************************************************)
(* One load at a time: two loaders of the key run together only if a         *)
(* mutation separates their beginnings.                                      *)
(***************************************************************************)
Loading(r) == call[r].op = "getOrSet" /\ call[r].pc \in {"starting", "loading"}
OneLoad ==
  \A r, s \in Request : r # s /\ Loading(r) /\ Loading(s) => call[r].seen # call[s].seen

(***************************************************************************)
(* The map of revisions holds a key exactly while somebody holds a guard on  *)
(* it: nothing is forgotten early, nothing stays behind.                     *)
(***************************************************************************)
Holding(i) == {r \in Request : call[r].id = i}
GuardsExact ==
  /\ \A i \in Ids : state[i].references = Cardinality(Holding(i))
  /\ current # 0 => Holding(current) # {}

(***************************************************************************)
(* After close() the L1, which others may share, gets nothing more from this *)
(* facade.                                                                   *)
(***************************************************************************)
ClosedWritesNothing == [][closed => l1' \in {l1, None}]_vars

(***************************************************************************)
(* A delete that resolves was executed by KV or is in the queue.             *)
(***************************************************************************)
ResolvedMeansDone ==
  \A r \in Request : call[r].op = "resolved" /\ call[r].out = Nothing => call[r].kv \/ call[r].queued
=============================================================================
