------------------------------ MODULE RedisStore ------------------------------
(***************************************************************************)
(* The namespace-wide side of RedisStore: values with their expiry, the      *)
(* sorted set that catalogues them by expiry, and the operations that touch  *)
(* both in several commands: set, get, delete, deleteByPattern, size,        *)
(* inspect and the trimming to maxEntries.  A step is one command that Redis *)
(* executes; between two commands of one client every other client may act.  *)
(* The lease that the v2 scripts fence is the subject of LeasedFill.         *)
(***************************************************************************)
EXTENDS Integers, FiniteSets

CONSTANTS
  Key, Client,
  Big,            \* keys whose values exceed the preview budget of inspect()
  Versioned,      \* the v2 layout: scripts; otherwise pipelines
  Indexed,        \* useIndex()
  Snapshot,       \* supportsServerSnapshot(): GET and PTTL in one script
  MaxEntries, Ttl, BatchSize,
  Calls,          \* [Client -> the operations its application uses]
  MaxWrites, MaxTime, MaxFaults   \* bounds of the model

RedisStoreAssumption ==
  /\ IsFiniteSet(Key) /\ IsFiniteSet(Client) /\ Big \subseteq Key /\ {Versioned, Indexed, Snapshot} \subseteq BOOLEAN
  /\ {MaxEntries, MaxWrites, MaxFaults} \subseteq Nat
  /\ {Ttl, BatchSize, MaxTime} \subseteq Nat \ {0}

VARIABLES
  now,
  writes,   \* values written so far
  data,     \* [Key -> the value it holds: which write, and when it expires]
  index,    \* [Key -> its score, or 0 when it is not a member]
  task,     \* [Client -> the call it executes, see Idle]
  faults
vars == <<now, writes, data, index, task, faults>>
redis == <<writes, data, index>>

Nothing == [write |-> 0, until |-> 0]
Live(k) == data[k] # Nothing
Members == {k \in Key : index[k] # 0}

\* The operation, its step and key; when a pipeline computed its score; for a delete, the
\* values written before it and the keys it is about; the keys it still has to visit; the
\* batch of keys it deletes and those of it that are left; the scores and the cardinality it read;
\* the value it read without its TTL; by how much a TTL it returned exceeds the value's
\* own; how often its script ran, and whether it was sent by its text.
Idle == [op |-> "idle", step |-> "done", key |-> "none", since |-> 0, before |-> 0,
         scope |-> {}, todo |-> {}, batch |-> {}, left |-> {}, seen |-> [k \in Key |-> 0],
         size |-> 0, got |-> Nothing, excess |-> {}, ran |-> 0, eval |-> FALSE, ok |-> TRUE]
Steps == {"write", "zadd", "prune", "zcard", "zrange", "recheck", "delete", "zrem", "scan",
          "read", "pttl", "unindex", "done"}

Init ==
  /\ now = 1 /\ writes = 0 /\ faults = 0
  /\ data = [k \in Key |-> Nothing] /\ index = [k \in Key |-> 0]
  /\ task = [c \in Client |-> Idle]

Deleting(t) == [t EXCEPT !.left = t.batch, !.step = IF t.batch = {} THEN "done" ELSE "delete"]

\* A call that is done leaves only whether it succeeded and the TTLs it returned.
Become(c, t) ==
  task' = [task EXCEPT ![c] =
             IF t.step # "done" THEN t
             ELSE [Idle EXCEPT !.ok = t.ok, !.excess = t.excess]]
Goto(c, step) == Become(c, [task[c] EXCEPT !.step = step])
At(c, step) == task[c].step = step

Doing(op, step) == [Idle EXCEPT !.op = op, !.step = step]
Call(c, t) ==
  /\ At(c, "done") /\ t.op \in Calls[c] /\ Become(c, t)
  /\ UNCHANGED <<now, redis, faults>>

-----------------------------------------------------------------------------
(* set *)

Set(c, k) ==
  /\ writes < MaxWrites
  /\ Call(c, [Doing("set", "write") EXCEPT !.key = k, !.since = IF Versioned THEN 0 ELSE now])

Commit(k) ==
  /\ writes < MaxWrites /\ writes' = writes + 1
  /\ data' = [data EXCEPT ![k] = [write |-> writes + 1, until |-> now + Ttl]]

\* SET_AND_FENCE_LUA, or the SET of the pipeline.
Write(c) ==
  /\ At(c, "write") /\ Commit(task[c].key)
  /\ Become(c, [task[c] EXCEPT !.ran = @ + 1, !.step = IF Indexed THEN "zadd" ELSE "done"])
  /\ UNCHANGED <<now, index, faults>>

\* executeScript: Redis does not know the script, which was therefore not run, and the
\* caller sends its text once.
NoScript(c) ==
  /\ Versioned /\ task[c].step \in {"write", "delete"} /\ ~task[c].eval
  /\ Become(c, [task[c] EXCEPT !.eval = TRUE])
  /\ UNCHANGED <<now, redis, faults>>

\* mutant: whatever the error, the script is sent again.
ReplyLostRetried(c) ==
  /\ At(c, "write") /\ faults < MaxFaults /\ faults' = faults + 1 /\ Commit(task[c].key)
  /\ Become(c, [task[c] EXCEPT !.ran = @ + 1])
  /\ UNCHANGED <<now, index>>

\* The write is executed and its reply lost: the call rejects, or the pipeline goes on
\* and rejects at its end.
ReplyLost(c) ==
  /\ At(c, "write") /\ faults < MaxFaults /\ faults' = faults + 1 /\ Commit(task[c].key)
  /\ Become(c, [task[c] EXCEPT !.ran = @ + 1, !.ok = FALSE,
                               !.step = IF Versioned \/ ~Indexed THEN "done" ELSE "zadd"])
  /\ UNCHANGED <<now, index>>

\* mutant: the lifetime is counted twice.
ScoreTwice(c) == now + Ttl + Ttl

\* recordPublishedIndex computes the expiry after the write, the pipeline of the old
\* layout before it.
Score(c) == Ttl + IF Versioned THEN now ELSE task[c].since

Zadd(c) ==
  /\ At(c, "zadd") /\ index' = [index EXCEPT ![task[c].key] = Score(c)]
  /\ Goto(c, IF task[c].ok THEN "prune" ELSE "done")
  /\ UNCHANGED <<now, writes, data, faults>>

-----------------------------------------------------------------------------
(* trimIndex, size *)

\* mutant: the members about to expire go first.
PruneAhead(c) ==
  /\ At(c, "prune")
  /\ index' = [k \in Key |-> IF index[k] <= now + 1 THEN 0 ELSE index[k]]
  /\ Goto(c, IF task[c].op = "pattern" THEN "scan" ELSE "zcard")
  /\ UNCHANGED <<now, writes, data, faults>>

\* pruneExpiredIndexMembers: ZREMRANGEBYSCORE -inf now.
Prune(c) ==
  /\ At(c, "prune")
  /\ index' = [k \in Key |-> IF index[k] <= now THEN 0 ELSE index[k]]
  /\ Goto(c, IF task[c].op = "pattern" THEN "scan" ELSE "zcard")
  /\ UNCHANGED <<now, writes, data, faults>>

\* Maintenance that fails is logged and the operation goes on.
PruneFails(c) ==
  /\ At(c, "prune") /\ faults < MaxFaults /\ faults' = faults + 1
  /\ Goto(c, IF task[c].op = "pattern" THEN "scan" ELSE "zcard")
  /\ UNCHANGED <<now, redis>>

Zcard(c) ==
  /\ At(c, "zcard")
  /\ Become(c, [task[c] EXCEPT
       !.size = Cardinality(Members),
       !.step = CASE task[c].op = "set" /\ Cardinality(Members) > MaxEntries -> "zrange"
                  [] task[c].op = "inspect" /\ task[c].todo # {} -> "read"
                  [] OTHER -> "done"])
  /\ UNCHANGED <<now, redis, faults>>

\* mutant: one member too many stays.
OverflowLess(c) == task[c].size - MaxEntries - 1

Overflow(c) == task[c].size - MaxEntries

\* ZRANGE 0 overflow-1 WITHSCORES: the members with the lowest scores.
Zrange(c) ==
  /\ At(c, "zrange")
  /\ \E S \in SUBSET Members :
       /\ Cardinality(S) = Overflow(c) \/ (S = Members /\ Cardinality(S) < Overflow(c))
       /\ \A k \in S, l \in Members \ S : index[k] <= index[l]
       /\ Become(c, [task[c] EXCEPT !.todo = S, !.step = "recheck",
                                    !.seen = [k \in Key |-> IF k \in S THEN index[k] ELSE 0]])
  /\ UNCHANGED <<now, redis, faults>>

\* ZSCORE of a candidate: one that was refreshed or removed is skipped.
Recheck(c, k) ==
  /\ At(c, "recheck") /\ k \in task[c].todo
  /\ Become(c, [task[c] EXCEPT !.todo = @ \ {k},
                               !.batch = IF index[k] = task[c].seen[k] THEN @ \union {k} ELSE @])
  /\ UNCHANGED <<now, redis, faults>>

Rechecked(c) ==
  /\ At(c, "recheck") /\ task[c].todo = {}
  /\ Become(c, Deleting(task[c]))
  /\ UNCHANGED <<now, redis, faults>>

-----------------------------------------------------------------------------
(* deleteKeys, delete, deleteByPattern *)

\* deleteKeys is done with its batch: a pattern delete scans on, the others return.
Deleted(t) == [t EXCEPT !.batch = {}, !.step = IF t.op = "pattern" THEN "scan" ELSE "done"]

\* DELETE_AND_FENCE_LUA, one key at a time, or one UNLINK for the batch.
Unlink(c) ==
  /\ At(c, "delete")
  /\ \E K \in SUBSET task[c].left \ {{}} :
       /\ IF Versioned THEN Cardinality(K) = 1 ELSE K = task[c].left
       /\ data' = [k \in Key |-> IF k \in K THEN Nothing ELSE data[k]]
       /\ LET t == [task[c] EXCEPT !.left = @ \ K, !.eval = FALSE]
          IN  Become(c, CASE t.left # {} -> t
                          [] t.left = {} /\ Indexed -> [t EXCEPT !.step = "zrem"]
                          [] OTHER -> Deleted(t))
  /\ UNCHANGED <<now, writes, index, faults>>

Zrem(c) ==
  /\ At(c, "zrem")
  /\ index' = [k \in Key |-> IF k \in task[c].batch THEN 0 ELSE index[k]]
  /\ Become(c, Deleted(task[c]))
  /\ UNCHANGED <<now, writes, data, faults>>

Delete(c, k) ==
  Call(c, Deleting([Doing("delete", "delete") EXCEPT !.before = writes, !.batch = {k}, !.scope = {k}]))

\* What a scan finds now: members of the index, or keys that hold a value.
Present(k) == IF Indexed THEN index[k] # 0 ELSE Live(k)

\* external: SCAN and ZSCAN return every key that is there from the beginning to the
\* end; a key added meanwhile may or may not be returned.
Scanned(pattern) == {S \in SUBSET pattern : {k \in pattern : Present(k)} \subseteq S}

DeleteByPattern(c, pattern) ==
  /\ "pattern" \in Calls[c]
  /\ \E S \in Scanned(pattern) :
       Call(c, [Doing("pattern", IF Indexed THEN "prune" ELSE "scan")
                  EXCEPT !.before = writes, !.todo = S, !.scope = pattern])

\* deleteIndexedPattern, or the filter of a page.
ScanReturns(c, k) ==
  /\ At(c, "scan") /\ k \in task[c].todo
  /\ LET t == [task[c] EXCEPT !.todo = @ \ {k},
                              !.batch = IF Present(k) THEN @ \union {k} ELSE @]
     IN  Become(c, IF Cardinality(t.batch) >= BatchSize THEN Deleting(t) ELSE t)
  /\ UNCHANGED <<now, redis, faults>>

\* mutant: the last batch is not full and is not deleted.
ScanEndsEarly(c) == At(c, "scan") /\ task[c].todo = {} /\ Goto(c, "done") /\ UNCHANGED <<now, redis, faults>>

ScanEnds(c) == At(c, "scan") /\ task[c].todo = {} /\ Become(c, Deleting(task[c])) /\ UNCHANGED <<now, redis, faults>>

-----------------------------------------------------------------------------
(* get, size, inspect *)

Get(c, k) == Call(c, [Doing("get", "read") EXCEPT !.key = k, !.todo = {k}])
Size(c) == Indexed /\ Call(c, Doing("size", "prune"))

\* A page of the keys that match.  The keys are the ones the scan step returned.
Inspect(c) ==
  \E S \in SUBSET {k \in Key : Present(k)} :
     LET step == CASE Indexed -> "prune" [] ~Indexed /\ S # {} -> "read" [] OTHER -> "done"
     IN  Call(c, [Doing("inspect", step) EXCEPT !.todo = S])

\* A value and the expiry computed from the TTL that was read with it, or nothing.
\* inspect() does not return a value beyond its budget.
Returned(t, k, value, until) ==
  LET shown == value # Nothing /\ ~(t.op = "inspect" /\ k \in Big)
      s == [t EXCEPT !.todo = @ \ {k}, !.got = Nothing,
                     !.excess = IF shown THEN @ \union {until - value.until} ELSE @]
  IN  [s EXCEPT !.step = CASE s.op = "get" /\ value = Nothing /\ Indexed -> "unindex"
                           [] s.todo # {} -> "read"
                           [] OTHER -> "done"]

\* mutant: the value and its TTL are read one after the other.
ReadValueOnly(c, k) ==
  /\ At(c, "read") /\ k \in task[c].todo
  /\ Become(c, IF Live(k) THEN [task[c] EXCEPT !.got = data[k], !.key = k, !.step = "pttl"]
                          ELSE Returned(task[c], k, Nothing, 0))
  /\ UNCHANGED <<now, redis, faults>>

\* SNAPSHOT_LUA, or GETBUFFER of the fallback.
Read(c, k) ==
  /\ At(c, "read") /\ k \in task[c].todo
  /\ Become(c, IF Live(k) /\ ~Snapshot
               THEN [task[c] EXCEPT !.got = data[k], !.key = k, !.step = "pttl"]
               ELSE Returned(task[c], k, data[k], data[k].until))
  /\ UNCHANGED <<now, redis, faults>>

\* PTTL of the fallback: the TTL of whatever the key holds by now.
Pttl(c) ==
  /\ At(c, "pttl")
  /\ LET k == task[c].key
     IN  Become(c, Returned(task[c], k, IF Live(k) THEN task[c].got ELSE Nothing, data[k].until))
  /\ UNCHANGED <<now, redis, faults>>

\* removeFromIndex after a miss, whatever has been written since.
Unindex(c) ==
  /\ At(c, "unindex")
  /\ index' = [index EXCEPT ![task[c].key] = 0] /\ Goto(c, "done")
  /\ UNCHANGED <<now, writes, data, faults>>

-----------------------------------------------------------------------------
\* A command fails before it is executed.  What follows the script of a v2 set is
\* bookkeeping: its failure is logged.  The pipeline executes its ZADD even if its SET
\* failed.
Fails(c) ==
  /\ task[c].step \notin {"done", "scan", "prune"} /\ faults < MaxFaults /\ faults' = faults + 1
  /\ LET t == task[c]
         bookkeeping == t.op = "set" /\ Versioned /\ t.step # "write"
     IN  Become(c, [t EXCEPT !.ok = bookkeeping,
                             !.step = IF t.step = "write" /\ ~Versioned /\ Indexed
                                      THEN "zadd" ELSE "done"])
  /\ UNCHANGED <<now, redis>>

\* Time passes; Redis drops what expires.
Tick ==
  /\ now < MaxTime /\ now' = now + 1
  /\ data' = [k \in Key |-> IF data[k].until <= now + 1 THEN Nothing ELSE data[k]]
  /\ UNCHANGED <<writes, index, task, faults>>

Next ==
  \/ Tick
  \/ \E c \in Client :
       \/ Write(c) \/ NoScript(c) \/ ReplyLost(c) \/ Zadd(c)
       \/ Prune(c) \/ PruneFails(c) \/ Zcard(c) \/ Zrange(c) \/ Rechecked(c)
       \/ Unlink(c) \/ Zrem(c) \/ ScanEnds(c) \/ Pttl(c) \/ Unindex(c) \/ Fails(c)
       \/ \E k \in task[c].todo : Recheck(c, k) \/ ScanReturns(c, k) \/ Read(c, k)
       \/ /\ At(c, "done")
          /\ \/ Size(c) \/ Inspect(c)
             \/ \E pattern \in SUBSET Key : DeleteByPattern(c, pattern)
             \/ \E k \in Key : Set(c, k) \/ Get(c, k) \/ Delete(c, k)

Spec == Init /\ [][Next]_vars

-----------------------------------------------------------------------------
TypeOK ==
  /\ now \in 1..MaxTime /\ faults \in 0..MaxFaults /\ writes \in 0..MaxWrites
  /\ data \in [Key -> [write : 0..writes, until : 0..MaxTime + Ttl]]
  /\ index \in [Key -> 0..MaxTime + Ttl]
  /\ \A c \in Client : /\ task[c].step \in Steps /\ task[c].batch \subseteq Key
                       /\ task[c].left \subseteq task[c].batch

Quiet == \A c \in Client : At(c, "done")

(***************************************************************************)
(* A script that changes data runs at most once per call, also when Redis    *)
(* has forgotten it and when a reply is lost (executeScript).                *)
(***************************************************************************)
ScriptRunsOnce == \A c \in Client : task[c].ran <= 1

(***************************************************************************)
(* A delete or a pattern delete by scanning that succeeds leaves none of the *)
(* values that were there when it was called, whatever is written, expires   *)
(* or is trimmed meanwhile.                                                  *)
(***************************************************************************)
Reached(t, s) ==
  t.step # "done" /\ s.step = "done" /\ s.ok /\ (t.op = "delete" \/ (t.op = "pattern" /\ ~Indexed))
    => \A k \in t.scope : data'[k] = Nothing \/ data'[k].write > t.before
ReachedAll == \A c \in Client : Reached(task[c], task'[c])
DeletesReach == [][ReachedAll]_vars

(***************************************************************************)
(* A value is returned with its own expiry, not with that of a later write   *)
(* (getEncoded, inspect over the snapshot script).                           *)
(***************************************************************************)
SnapshotPairs == Snapshot => \A c \in Client : task[c].excess \subseteq {0}

(***************************************************************************)
(* Between operations, if none has failed, the catalogue is within its limit *)
(* however the trims of several clients overlapped.                          *)
(***************************************************************************)
LimitKept == Indexed /\ Quiet /\ faults = 0 => Cardinality(Members) <= MaxEntries

(***************************************************************************)
(* One client alone, if nothing fails, catalogues every live value between   *)
(* its operations: none expires from the index early.  (The pipeline of the  *)
(* old layout may: it computes the score before the write.)                  *)
(***************************************************************************)
AloneCatalogued ==
  Versioned /\ Indexed /\ Cardinality(Client) = 1 /\ Quiet /\ faults = 0 => \A k \in Key : Live(k) => index[k] # 0
=============================================================================
