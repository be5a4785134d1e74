----------------------------- MODULE LeasedFill ------------------------------
(***************************************************************************)
(* The lease-protected cache fill: every leader of a getOrSet() miss, in    *)
(* any process, on ONE versioned entry of a RedisStore (its data key and    *)
(* its lock key).                                                           *)
(*                                                                         *)
(*   - HybridCache.loadWithDistributedLockInternal, loadAndStore            *)
(*   - maintainLock (distributedLock.ts): the local lease and its renewal   *)
(*   - RedisStore's owner-checked scripts: acquire, renew, publish, release *)
(*     and the fencing set / delete / pattern delete                        *)
(*                                                                         *)
(* A filler is one leader call.  Its token is a fresh random UUID, so the   *)
(* filler itself stands for the token.  The commands of one filler travel   *)
(* on one connection, in order (pipe).  The caller of a command may stop    *)
(* waiting for it (gate timeout, lost reply, breaker), while the command    *)
(* still runs later: such a command is in the pipe, answered to nobody.     *)
(*                                                                         *)
(* Time is discrete.  Every timer is kept as the time it has left, so that  *)
(* Tick, the only action that passes time, decrements all of them, and the  *)
(* state space is finite without a bound on the clock.  Redis and the       *)
(* processes measure elapsed time at the same rate.                         *)
(***************************************************************************)
EXTENDS Naturals, Sequences

CONSTANTS
  Filler,        \* the leader calls; a filler is also its lock token
  None,          \* no token: the lock key does not exist
  MaxVersion,    \* the last version of the origin
  LockTtl,       \* distributedLock.ttlMs, in ticks
  WaitTimeout,   \* distributedLock.waitTimeoutMs, in ticks
  OnTimeout,     \* distributedLock.onTimeout
  MaxPipe,       \* commands a filler may have outstanding
  PatternCalls   \* whether the behaviour includes a deleteByPattern call

ASSUME FillerAssumption == None \notin Filler
ASSUME VersionAssumption == MaxVersion \in Nat \ {0}
ASSUME TtlAssumption == LockTtl \in Nat \ {0}
ASSUME WaitAssumption == WaitTimeout \in Nat /\ OnTimeout \in {"load", "throw"}
ASSUME PipeAssumption == MaxPipe \in Nat /\ PatternCalls \in BOOLEAN

VARIABLES
  \* The origin and the entry in Redis.
  db,          \* the version the origin returns now
  data,        \* the data key: [val, by]; val = 0 when the key is absent
  lock,        \* the lock key: the owner's token, or None
  lockTtl,     \* its PTTL; 0 when there is none
  pattern,     \* how far a pattern delete is
  patternFloor,  \* db when it was called
  \* One leader call.
  pc,          \* where loadWithDistributedLockInternal / loadAndStore stands
  contended,   \* the leaders that have observed an owner
  wait,        \* waitUntil - now
  mayPublish,  \* the ones whose guard.publicationAllowed is not false
  current,     \* the ones whose isCurrent(guard) holds, the signal left aside
  loaded,      \* the origin version the loader read; 0 before
  \* maintainLock.
  lease,       \* the local lease
  leaseLeft,   \* deadline - now
  renewal,     \* the renewal under way
  renewalLeft, \* startedAt + ttl - now
  \* The connection of the filler's process.
  pipe,        \* commands sent and not yet executed
  call,        \* the awaited acquire or publish
  callLeft,    \* for an acquire: acquiredAt + ttl - now
  \* History.
  floor,       \* db when the entry was last fenced
  fenced       \* the leaders whose lock a fence removed since its acquisition

lockVars    == <<lock, lockTtl>>
patternVars == <<pattern, patternFloor>>
originVars  == <<db, data, lockVars, patternVars>>
leaderVars == <<pc, contended, wait, mayPublish, current, loaded>>
leaseVars  == <<lease, leaseLeft, renewal, renewalLeft>>
wireVars   == <<pipe, call, callLeft>>
histVars   == <<floor, fenced>>
vars == <<originVars, leaderVars, leaseVars, wireVars, histVars>>

-----------------------------------------------------------------------------

Version == 1..MaxVersion
Absent  == [val |-> 0, by |-> "none"]

Op      == {"acquire", "renew", "publish", "release"}
Command == [op : Op, val : 0..MaxVersion, to : {"caller", "nobody"}]

\* Program points.  Waiting: in the acquisition loop.  Working: in loadAndStore.
Waiting == {"acquiring", "poll"}
Working == {"queued", "admitted", "loading", "read", "publish", "publishing"}
Point   == {"idle", "done"} \cup Waiting \cup Working

CallState  == {"none", "sent", "yes", "no", "error"}
LeaseState == {"none", "held", "lost"}

OriginType ==
  /\ db \in Version /\ floor \in Version
  /\ data \in [val : 0..MaxVersion, by : {"none", "fill", "set"}]
  /\ lock \in Filler \cup {None} /\ lockTtl \in 0..LockTtl
  /\ pattern \in {"idle", "data", "leases", "done"} /\ patternFloor \in Version

LeaderType ==
  /\ pc \in [Filler -> Point]
  /\ wait \in [Filler -> 0..WaitTimeout]
  /\ loaded \in [Filler -> 0..MaxVersion]
  /\ contended \subseteq Filler /\ fenced \subseteq Filler
  /\ mayPublish \subseteq Filler /\ current \subseteq Filler

LeaseType ==
  /\ lease \in [Filler -> LeaseState] /\ leaseLeft \in [Filler -> 0..LockTtl]
  /\ renewal \in [Filler -> CallState] /\ renewalLeft \in [Filler -> 0..LockTtl]
  /\ call \in [Filler -> CallState] /\ callLeft \in [Filler -> 0..LockTtl]

PipeType == pipe \in [Filler -> Seq(Command)]

\* Every variable has its type.
TypeOK == OriginType /\ LeaderType /\ LeaseType /\ PipeType

Init ==
  /\ db = 1
  /\ data \in {Absent, [val |-> 1, by |-> "fill"]}
  /\ lock = None
  /\ lockTtl = 0
  /\ pattern = "idle"
  /\ patternFloor = 1
  /\ pc = [f \in Filler |-> "idle"]
  /\ contended = {}
  /\ wait = [f \in Filler |-> 0]
  /\ mayPublish = Filler
  /\ current = Filler
  /\ loaded = [f \in Filler |-> 0]
  /\ lease = [f \in Filler |-> "none"]
  /\ leaseLeft = [f \in Filler |-> 0]
  /\ renewal = [f \in Filler |-> "none"]
  /\ renewalLeft = [f \in Filler |-> 0]
  /\ pipe = [f \in Filler |-> <<>>]
  /\ call = [f \in Filler |-> "none"]
  /\ callLeft = [f \in Filler |-> 0]
  /\ floor = 1
  /\ fenced = {}

-----------------------------------------------------------------------------
(***************************************************************************)
(* Redis.  One command, one atomic step.                                    *)
(***************************************************************************)

\* A fence: the lock key goes, whoever owns it, and the data key is replaced.
\* SET_AND_FENCE_LUA and DELETE_AND_FENCE_LUA.
FenceWithKeepsLock(entry) ==                                       \* mutant
  /\ data' = entry
  /\ floor' = db
  /\ UNCHANGED <<lock, lockTtl, fenced>>

FenceWith(entry) ==
  /\ data' = entry
  /\ lock' = None
  /\ lockTtl' = 0
  /\ floor' = db
  /\ fenced' = fenced \cup {f \in Filler : lock = f /\ pc[f] # "done"}

\* Any process deletes the key: RedisStore.delete.
DirectDelete ==
  /\ FenceWith(Absent)
  /\ UNCHANGED <<db, patternVars, leaderVars, leaseVars, wireVars>>

\* Any process sets the key to a value it read or wrote: RedisStore.setEncoded.
DirectSet ==
  /\ \E v \in 1..db : FenceWith([val |-> v, by |-> "set"])
  /\ UNCHANGED <<db, patternVars, leaderVars, leaseVars, wireVars>>

\* The PX of the data key passes.
DataExpires ==
  /\ data # Absent
  /\ data' = Absent
  /\ UNCHANGED <<db, lockVars, patternVars, leaderVars, leaseVars, wireVars, histVars>>

\* RedisStore.deleteByPattern, for a pattern that matches the key: first the
\* entries the scan finds, then the leases a second scan finds.  A commit to the
\* origin made before the call has a version of at most patternFloor.
PatternCalled ==
  /\ PatternCalls
  /\ pattern = "idle"
  /\ pattern' = "data"
  /\ patternFloor' = db
  /\ UNCHANGED <<db, data, lockVars, leaderVars, leaseVars, wireVars, histVars>>

DeletePatternData ==
  /\ pattern = "data"
  /\ pattern' = "leases"
  /\ \/ data # Absent /\ FenceWith(Absent)
     \/ data = Absent /\ UNCHANGED <<data, lockVars, histVars>>
  /\ UNCHANGED <<db, patternFloor, leaderVars, leaseVars, wireVars>>

FencePatternLeases ==
  /\ pattern = "leases"
  /\ pattern' = "done"
  /\ \/ lock # None /\ FenceWith(Absent)
     \/ lock = None /\ UNCHANGED <<data, lockVars, histVars>>
  /\ UNCHANGED <<db, patternFloor, leaderVars, leaseVars, wireVars>>

\* The head of f's pipe is a command op.
NextCommand(f, op) == pipe[f] # <<>> /\ Head(pipe[f]).op = op

\* Executing it takes it off the pipe.
Taken(f) == pipe' = [pipe EXCEPT ![f] = Tail(@)]

\* Its reply reaches whoever still awaits it.
Reply(record, f, ok) ==
  IF Head(pipe[f]).to = "caller"
  THEN [record EXCEPT ![f] = IF ok THEN "yes" ELSE "no"]
  ELSE record

ExecAcquireNoExpiry(f) ==                                          \* mutant
  /\ NextCommand(f, "acquire")
  /\ Taken(f)
  /\ call' = Reply(call, f, lock = None)
  /\ lock' = IF lock = None THEN f ELSE lock
  /\ UNCHANGED <<db, data, lockTtl, patternVars, leaderVars, leaseVars, callLeft, histVars>>

\* SET key token PX ttl NX
ExecAcquire(f) ==
  /\ NextCommand(f, "acquire")
  /\ Taken(f)
  /\ call' = Reply(call, f, lock = None)
  /\ IF lock = None
     THEN /\ lock' = f
          /\ lockTtl' = LockTtl
          /\ fenced' = fenced \ {f}
     ELSE UNCHANGED <<lockVars, fenced>>
  /\ UNCHANGED <<db, data, patternVars, leaderVars, leaseVars, callLeft, floor>>

\* RENEW_LOCK_LUA
ExecRenew(f) ==
  /\ NextCommand(f, "renew")
  /\ Taken(f)
  /\ renewal' = Reply(renewal, f, lock = f)
  /\ lockTtl' = IF lock = f THEN LockTtl ELSE lockTtl
  /\ UNCHANGED <<db, data, lock, patternVars, leaderVars, lease, leaseLeft, renewalLeft, call, callLeft, histVars>>

ExecPublishUnchecked(f) ==                                         \* mutant
  /\ NextCommand(f, "publish")
  /\ Taken(f)
  /\ call' = Reply(call, f, TRUE)
  /\ data' = [val |-> Head(pipe[f]).val, by |-> "fill"]
  /\ UNCHANGED <<db, lockVars, patternVars, leaderVars, leaseVars, callLeft, histVars>>

\* PUBLISH_IF_OWNER_LUA
ExecPublish(f) ==
  /\ NextCommand(f, "publish")
  /\ Taken(f)
  /\ call' = Reply(call, f, lock = f)
  /\ data' = IF lock = f THEN [val |-> Head(pipe[f]).val, by |-> "fill"] ELSE data
  /\ UNCHANGED <<db, lockVars, patternVars, leaderVars, leaseVars, callLeft, histVars>>

\* RELEASE_LOCK_LUA
ExecRelease(f) ==
  /\ NextCommand(f, "release")
  /\ Taken(f)
  /\ lock' = IF lock = f THEN None ELSE lock
  /\ lockTtl' = IF lock = f THEN 0 ELSE lockTtl
  /\ UNCHANGED <<db, data, patternVars, leaderVars, leaseVars, call, callLeft, histVars>>

\* The connection breaks: what was not executed never will be (the managed
\* client sets autoResendUnfulfilledCommands to false), and its callers see an
\* error.
Failed(record, f) ==
  IF record[f] = "sent" THEN [record EXCEPT ![f] = "error"] ELSE record

Disconnect(f) ==
  /\ pipe[f] # <<>>
  /\ pipe' = [pipe EXCEPT ![f] = <<>>]
  /\ call' = Failed(call, f)
  /\ renewal' = Failed(renewal, f)
  /\ UNCHANGED <<originVars, leaderVars, lease, leaseLeft, renewalLeft, callLeft, histVars>>

-----------------------------------------------------------------------------
(***************************************************************************)
(* One leader call.                                                         *)
(***************************************************************************)

\* Commands of the given kinds stay on the wire, but nobody awaits them.
Unawaited(p, ops) ==
  [i \in 1..Len(p) |->
     [op |-> p[i].op, val |-> p[i].val, to |-> IF p[i].op \in ops THEN "nobody" ELSE p[i].to]]

\* val is the payload of a publication.
Send(f, op, val) ==
  pipe' = [pipe EXCEPT ![f] = Append(@, [op |-> op, val |-> val, to |-> "caller"])]

Goto(f, point) == pc' = [pc EXCEPT ![f] = point]

\* lease.assertOwned(), for a call that may have no lease at all.
AssertOwned(f) ==
  \/ lease[f] = "none"
  \/ lease[f] = "held" /\ leaseLeft[f] > 0

\* The call ends: nobody awaits its commands any more, its locals are gone.
Ended(f) ==
  /\ Goto(f, "done")
  /\ contended' = contended \ {f}
  /\ wait' = [wait EXCEPT ![f] = 0]
  /\ mayPublish' = mayPublish \cup {f}
  /\ current' = current \cup {f}
  /\ loaded' = [loaded EXCEPT ![f] = 0]
  /\ lease' = [lease EXCEPT ![f] = "none"]
  /\ leaseLeft' = [leaseLeft EXCEPT ![f] = 0]
  /\ renewal' = [renewal EXCEPT ![f] = "none"]
  /\ renewalLeft' = [renewalLeft EXCEPT ![f] = 0]
  /\ call' = [call EXCEPT ![f] = "none"]
  /\ callLeft' = [callLeft EXCEPT ![f] = 0]
  /\ fenced' = fenced \ {f}
  /\ UNCHANGED <<originVars, floor>>

\* With a lease, the finally block stops it and then sends the release, which an
\* open breaker or a full gate skips.
Finish(f) ==
  /\ Ended(f)
  /\ \/ pipe' = [pipe EXCEPT ![f] = Unawaited(@, Op)]
     \/ /\ lease[f] # "none"
        /\ pipe' = [pipe EXCEPT ![f] =
                      Append(Unawaited(@, Op), [op |-> "release", val |-> 0, to |-> "nobody"])]

\* runL2('acquireLock'); acquiredAt is taken before the command is sent.  An open
\* breaker or a full gate fails the call without sending it.
TryAcquire(f) ==
  /\ Goto(f, "acquiring")
  /\ \/ /\ Len(pipe[f]) < MaxPipe
        /\ Send(f, "acquire", 0)
        /\ call' = [call EXCEPT ![f] = "sent"]
        /\ callLeft' = [callLeft EXCEPT ![f] = LockTtl]
     \/ /\ call' = [call EXCEPT ![f] = "error"]
        /\ UNCHANGED <<pipe, callLeft>>
  /\ UNCHANGED <<originVars, contended, mayPublish, current, loaded, leaseVars, histVars>>

\* getOrSet missed both tiers and starts a leader: observeKey, fresh token.
StartFill(f) ==
  /\ pc[f] = "idle"
  /\ TryAcquire(f)
  /\ wait' = [wait EXCEPT ![f] = WaitTimeout]

\* The acquisition loop is over, and loadAndStore begins.
LeaveLoop(f) ==
  /\ Goto(f, "queued")
  /\ contended' = contended \ {f}
  /\ wait' = [wait EXCEPT ![f] = 0]

AcquiredFullTtl(f) ==                                              \* mutant
  /\ pc[f] = "acquiring"
  /\ call[f] = "yes"
  /\ lease' = [lease EXCEPT ![f] = "held"]
  /\ leaseLeft' = [leaseLeft EXCEPT ![f] = LockTtl]
  /\ call' = [call EXCEPT ![f] = "none"]
  /\ callLeft' = [callLeft EXCEPT ![f] = 0]
  /\ LeaveLoop(f)
  /\ UNCHANGED <<originVars, mayPublish, current, loaded, renewal, renewalLeft, pipe, histVars>>

\* acquired === true: maintainLock starts the local lease, which counts from the
\* moment the acquisition was sent.
Acquired(f) ==
  /\ pc[f] = "acquiring"
  /\ call[f] = "yes"
  /\ lease' = [lease EXCEPT ![f] = "held"]
  /\ leaseLeft' = [leaseLeft EXCEPT ![f] = callLeft[f]]
  /\ call' = [call EXCEPT ![f] = "none"]
  /\ callLeft' = [callLeft EXCEPT ![f] = 0]
  /\ LeaveLoop(f)
  /\ UNCHANGED <<originVars, mayPublish, current, loaded, renewal, renewalLeft, pipe, histVars>>

\* acquired === false: somebody else owns the lock.
Contended(f) ==
  /\ pc[f] = "acquiring"
  /\ call[f] = "no"
  /\ Goto(f, "poll")
  /\ contended' = contended \cup {f}
  /\ call' = [call EXCEPT ![f] = "none"]
  /\ callLeft' = [callLeft EXCEPT ![f] = 0]
  /\ UNCHANGED <<originVars, wait, mayPublish, current, loaded, leaseVars, pipe, histVars>>

\* acquired === undefined: the call failed or timed out, whatever Redis did.
\* Without an owner seen before, load for this caller only.
AcquireUnknown(f) ==
  /\ pc[f] = "acquiring"
  /\ pipe' = [pipe EXCEPT ![f] = Unawaited(@, {"acquire"})]
  /\ call' = [call EXCEPT ![f] = "none"]
  /\ callLeft' = [callLeft EXCEPT ![f] = 0]
  /\ IF f \in contended
     THEN Goto(f, "poll") /\ UNCHANGED <<contended, wait, mayPublish>>
     ELSE LeaveLoop(f) /\ mayPublish' = mayPublish \ {f}
  /\ UNCHANGED <<originVars, current, loaded, leaseVars, histVars>>

\* After the sleep: a value is there, in L1 or L2, or a remembered miss.  L1 and
\* the negative cache belong to the process, so a hit does not depend on data.
PollHit(f) ==
  /\ pc[f] = "poll"
  /\ Finish(f)

PollMissForever(f) ==                                              \* mutant
  /\ pc[f] = "poll"
  /\ TryAcquire(f)
  /\ UNCHANGED wait

\* No value (or the read failed open): try again while the wait budget lasts.
PollMiss(f) ==
  /\ pc[f] = "poll"
  /\ wait[f] > 0
  /\ TryAcquire(f)
  /\ UNCHANGED wait

\* The budget is spent: load without publishing, or stale value / error.
PollTimeout(f) ==
  /\ pc[f] = "poll"
  /\ wait[f] = 0
  /\ IF OnTimeout = "load"
     THEN /\ LeaveLoop(f)
          /\ mayPublish' = mayPublish \ {f}
          /\ UNCHANGED <<originVars, current, loaded, leaseVars, wireVars, histVars>>
     ELSE Finish(f)

\* The cache is read again after the acquisition and before the origin gate
\* ("queued"), and once more when the gate admits the load ("admitted").  Again
\* L1, L2 or the negative cache may answer, and a read that fails is a miss.
RecheckHit(f) ==
  /\ pc[f] \in {"queued", "admitted"}
  /\ pc[f] = "admitted" => AssertOwned(f)
  /\ Finish(f)

RecheckMiss(f) ==
  /\ pc[f] \in {"queued", "admitted"}
  /\ AssertOwned(f)
  /\ Goto(f, IF pc[f] = "queued" THEN "admitted" ELSE "loading")
  /\ UNCHANGED <<originVars, contended, wait, mayPublish, current, loaded, leaseVars, wireVars, histVars>>

\* The loader reads the origin at some point of its execution.
LoaderReads(f) ==
  /\ pc[f] = "loading"
  /\ Goto(f, "read")
  /\ loaded' = [loaded EXCEPT ![f] = db]
  /\ UNCHANGED <<originVars, contended, wait, mayPublish, current, leaseVars, wireVars, histVars>>

\* The loader returned a value that may be published: wait for the L2 gate.
LoaderSettles(f) ==
  /\ pc[f] = "read"
  /\ AssertOwned(f)
  /\ f \in mayPublish /\ f \in current
  /\ Goto(f, "publish")
  /\ UNCHANGED <<originVars, contended, wait, mayPublish, current, loaded, leaseVars, wireVars, histVars>>

\* It returned a value that may not, or undefined: only this caller gets it.
LoaderUnpublished(f) ==
  /\ pc[f] = "read"
  /\ AssertOwned(f)
  /\ Finish(f)

\* Overload, queue timeout, loader error or timeout, lost lease: stale or error.
FillFails(f) ==
  /\ pc[f] \in {"queued", "admitted", "loading", "read"}
  /\ Finish(f)

\* The gate dispatches the publication; its closure asks isCurrent again.
DispatchPublish(f) ==
  /\ pc[f] = "publish"
  /\ f \in current /\ lease[f] = "held"
  /\ Len(pipe[f]) < MaxPipe
  /\ Goto(f, "publishing")
  /\ Send(f, "publish", loaded[f])
  /\ call' = [call EXCEPT ![f] = "sent"]
  /\ callLeft' = [callLeft EXCEPT ![f] = 0]
  /\ UNCHANGED <<originVars, contended, wait, mayPublish, current, loaded, leaseVars, histVars>>

\* It is obsolete by now, or the gate or the breaker refuses it.
PublishSkipped(f) ==
  /\ pc[f] = "publish"
  /\ Finish(f)

\* published / not-owner (the winner is read and returned) / failed or timed out.
PublishSettles(f) ==
  /\ pc[f] = "publishing"
  /\ Finish(f)

-----------------------------------------------------------------------------
(***************************************************************************)
(* maintainLock.                                                            *)
(***************************************************************************)

\* The renewal timer fires while the lease is owned.
StartRenewal(f) ==
  /\ lease[f] = "held" /\ leaseLeft[f] > 0
  /\ renewal[f] = "none"
  /\ Len(pipe[f]) < MaxPipe
  /\ Send(f, "renew", 0)
  /\ renewal' = [renewal EXCEPT ![f] = "sent"]
  /\ renewalLeft' = [renewalLeft EXCEPT ![f] = LockTtl]
  /\ UNCHANGED <<originVars, leaderVars, lease, leaseLeft, call, callLeft, histVars>>

Renewed(f) ==
  /\ lease[f] = "held" /\ leaseLeft[f] > 0
  /\ renewal[f] = "yes"
  /\ leaseLeft' = [leaseLeft EXCEPT ![f] = renewalLeft[f]]
  /\ renewal' = [renewal EXCEPT ![f] = "none"]
  /\ renewalLeft' = [renewalLeft EXCEPT ![f] = 0]
  /\ UNCHANGED <<originVars, leaderVars, lease, wireVars, histVars>>

\* lose(): the expiry timer fired, or the renewal was not sent (open breaker, full
\* gate), was refused, failed, timed out, lost its reply or came too late.
LoseLease(f) ==
  /\ lease[f] = "held"
  /\ lease' = [lease EXCEPT ![f] = "lost"]
  /\ leaseLeft' = [leaseLeft EXCEPT ![f] = 0]
  /\ renewal' = [renewal EXCEPT ![f] = "none"]
  /\ renewalLeft' = [renewalLeft EXCEPT ![f] = 0]
  /\ pipe' = [pipe EXCEPT ![f] = Unawaited(@, {"renew"})]
  /\ UNCHANGED <<originVars, leaderVars, call, callLeft, histVars>>

-----------------------------------------------------------------------------
(***************************************************************************)
(* The environment of a leader.                                             *)
(***************************************************************************)

\* A set, delete, pattern delete or trust change in f's own process makes the
\* guard obsolete (key revision or mutation epoch).
LocalMutation(f) ==
  /\ pc[f] \in Waiting \cup Working
  /\ f \in current
  /\ current' = current \ {f}
  /\ UNCHANGED <<originVars, pc, contended, wait, mayPublish, loaded, leaseVars, wireVars, histVars>>

\* The process closes the cache, or dies: nothing is released, but what is on
\* the wire may still be executed.
ProcessStops(f) ==
  /\ pc[f] \notin {"idle", "done"}
  /\ Ended(f)
  /\ pipe' = [pipe EXCEPT ![f] = Unawaited(@, Op)]

\* The application commits a new version.
OriginWrite ==
  /\ db < MaxVersion
  /\ db' = db + 1
  /\ UNCHANGED <<data, lockVars, patternVars, leaderVars, leaseVars, wireVars, histVars>>

\* A deadline that has passed stays passed: Math.max(0, deadline - now).
Less(n) == IF n = 0 THEN 0 ELSE n - 1

\* One tick passes, for Redis and for every process.  A key whose TTL is 0 has
\* none and stays.
Tick ==
  /\ \/ lockTtl > 0
     \/ \E f \in Filler : \/ wait[f] > 0 \/ leaseLeft[f] > 0
                          \/ renewalLeft[f] > 0 \/ callLeft[f] > 0
  /\ lock' = IF lockTtl = 1 THEN None ELSE lock
  /\ lockTtl' = Less(lockTtl)
  /\ wait' = [f \in Filler |-> Less(wait[f])]
  /\ leaseLeft' = [f \in Filler |-> Less(leaseLeft[f])]
  /\ renewalLeft' = [f \in Filler |-> Less(renewalLeft[f])]
  /\ callLeft' = [f \in Filler |-> Less(callLeft[f])]
  /\ UNCHANGED <<db, data, patternVars, pc, contended, mayPublish, current, loaded,
                 lease, renewal, pipe, call, histVars>>

-----------------------------------------------------------------------------

Leader(f) ==
  \/ StartFill(f) \/ Acquired(f) \/ Contended(f) \/ AcquireUnknown(f)
  \/ PollHit(f) \/ PollMiss(f) \/ PollTimeout(f) \/ RecheckHit(f) \/ RecheckMiss(f)
  \/ LoaderReads(f) \/ LoaderSettles(f) \/ LoaderUnpublished(f) \/ FillFails(f)
  \/ DispatchPublish(f) \/ PublishSkipped(f) \/ PublishSettles(f)

Wire(f) ==
  \/ ExecAcquire(f) \/ ExecRenew(f) \/ ExecPublish(f) \/ ExecRelease(f) \/ Disconnect(f)

LeaseTimer(f) == StartRenewal(f) \/ Renewed(f) \/ LoseLease(f)

Next ==
  \/ DirectDelete \/ DirectSet \/ DataExpires
  \/ PatternCalled \/ DeletePatternData \/ FencePatternLeases
  \/ OriginWrite \/ Tick
  \/ \E f \in Filler : \/ Leader(f) \/ Wire(f) \/ LeaseTimer(f)
                       \/ LocalMutation(f) \/ ProcessStops(f)

Spec == Init /\ [][Next]_vars

\* Fairness.  Every call a leader awaits is settled by its own timer at the latest
\* (l2Gate's operation timeout), a sleep ends, and time passes.  Nothing is
\* assumed of the loader, of Redis, of the owner of the lock or of the writers.
LiveSpec ==
  /\ Spec
  /\ WF_vars(Tick)
  /\ \A f \in Filler :
       /\ WF_vars(Acquired(f) \/ Contended(f) \/ AcquireUnknown(f))
       /\ WF_vars(PollHit(f) \/ PollMiss(f) \/ PollTimeout(f))

-----------------------------------------------------------------------------
(***************************************************************************)
(* Properties.                                                              *)
(***************************************************************************)

\* A loader result in L2 is at least as recent as the origin was when the key was
\* last directly set or deleted in Redis: no interleaving of expiry, takeover,
\* late command or lost reply lets an old fill undo an invalidation.
NoStaleFill == data.by = "fill" => data.val >= floor

\* While the process believes in its lease (assertOwned passes), Redis holds its
\* token and will hold it at least until the local deadline, unless a direct set
\* or delete fenced it.  So two leaders load under a lease only after a fence.
LeaseSound ==
  \A f \in Filler :
    lease[f] = "held" /\ leaseLeft[f] > 0
      => f \in fenced \/ (lock = f /\ lockTtl >= leaseLeft[f])

\* The entry behaves as FencedEntry promises: a refinement with the same origin,
\* floor and data, in which every lease step is a stutter.
Entry == INSTANCE FencedEntry
ImplementsEntry == Entry!EntrySpec

\* "Pattern invalidation fences matching lease-only keys": once deleteByPattern
\* has returned, no value loaded before it was called is left in the entry.
PatternFenced ==
  pattern = "done" /\ data.by = "fill" => data.val >= patternFloor

\* A leader that waits for the lock stops waiting, even when the owner hangs and
\* renews for ever, or Redis answers nothing.
WaiterResolves ==
  \A f \in Filler : pc[f] \in Waiting ~> pc[f] \notin Waiting

\* A lock whose leader is gone (closed, crashed, or its release was lost) does not
\* stay: the server frees it.
OrphanLockExpires ==
  \A f \in Filler : lock = f /\ pc[f] = "done" ~> lock # f
-----------------------------------------------------------------------------
(***************************************************************************)
(* The inductive invariant behind NoStaleFill, LeaseSound and               *)
(* ImplementsEntry.                                                         *)
(***************************************************************************)

\* What is in the entry.
EntryInv ==
  /\ floor <= db
  /\ data.val <= db
  /\ NoStaleFill

\* Where a leader stands and what it holds.  The last conjunct is the heart of the
\* matter: a loaded value is recent enough as long as the lock was never fenced.
LeaderInv(f) ==
  /\ lease[f] # "none" => pc[f] \in Working
  /\ renewal[f] # "none" => lease[f] = "held"
  /\ loaded[f] # 0 <=> pc[f] \in {"read", "publish", "publishing"}
  /\ loaded[f] <= db
  /\ lease[f] = "held" /\ lock = f /\ loaded[f] # 0 => loaded[f] >= floor

\* What may still be on the wire.  Commands run in the order they were sent: once
\* an acquisition is answered, no earlier one can give the token the lock again.
CommandInv(f, i) ==
  LET c == pipe[f][i] IN
  /\ c.op = "acquire" =>
       /\ lease[f] = "none"
       /\ c.to = "caller" => i = Len(pipe[f]) /\ pc[f] = "acquiring" /\ call[f] = "sent"
       /\ ~(pc[f] = "acquiring" /\ call[f] \in {"yes", "no"})
       /\ \A j \in 1..Len(pipe[f]) : pipe[f][j].op # "publish"
  /\ c.op = "renew" /\ c.to = "caller" => lease[f] = "held"
  /\ c.op = "publish" =>
       /\ pc[f] \in {"publishing", "done"}
       /\ c.val \in 1..db
       /\ lock = f => c.val >= floor
  /\ c.op = "release" => pc[f] = "done"

WireInv(f) == \A i \in 1..Len(pipe[f]) : CommandInv(f, i)

\* Every grant of time not yet used up is covered by the lock in Redis.
Covered(f, left) == left > 0 => f \in fenced \/ (lock = f /\ lockTtl >= left)

LeaseInv(f) ==
  /\ lease[f] = "held" => Covered(f, leaseLeft[f])
  /\ pc[f] = "acquiring" /\ call[f] = "yes" => Covered(f, callLeft[f])
  /\ renewal[f] = "yes" => Covered(f, renewalLeft[f])

\* The conjunction that every action preserves.
IndInv ==
  /\ TypeOK
  /\ EntryInv
  /\ \A f \in Filler : LeaderInv(f) /\ WireInv(f) /\ LeaseInv(f)
=============================================================================
