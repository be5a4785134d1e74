--------------------------- MODULE OperationStore ----------------------------
(***************************************************************************)
(* Transaction coordination (src/transactions): the workers of any number   *)
(* of processes that attempt ONE durable operation through their            *)
(* RedisOperationStore, and the record of that operation on the primary.    *)
(*                                                                         *)
(*   - OPERATION_COORDINATION_LUA, the script every command runs            *)
(*   - RedisOperationStore: begin, renew, complete, readStatus, close, and  *)
(*     dispatch, which tells the caller what became of a command            *)
(*   - RedisOperationTransport.execute, with its NOSCRIPT recovery          *)
(*   - maintainOperationLease, the local lease of a worker                  *)
(*                                                                         *)
(* A call occupies a slot (Id) from the moment it is made until its command *)
(* can no longer run.  BoundedOperationGate is reduced to what a caller     *)
(* sees of it: a call waits, then is dispatched or refused.                 *)
(*                                                                         *)
(* Time is discrete and every deadline is kept as the time it has left.     *)
(* Only the age of a call counts up; past the longest lease it no longer    *)
(* matters.  The primary and the processes measure the same elapsed time.   *)
(***************************************************************************)
EXTENDS Naturals

CONSTANTS
  Worker,     \* attempts; each has its own store
  Owner,      \* lease tokens (newOwner)
  Id,         \* call slots; their number bounds the calls under way
  Identity,   \* fingerprint and durableId presented for the operation key
  Result,     \* references of committed results
  None,
  Ident,      \* Ident[w]: the identity worker w presents
  Lease,      \* Lease[w]: leaseMs of its store, in ticks
  Retention,  \* Retention[w]: retentionMs of its store, in ticks
  MaxTime,    \* a bound on every lease and retention
  Anchored,   \* whether maintainOperationLease is given startedAt
  Closing,    \* the workers that may close their store
  Flushing,   \* whether the primary may have lost the script
  Resends     \* whether the client repeats a command it has no reply to

ASSUME NoneAssumption ==
  None \notin Worker \cup Owner \cup Id \cup Identity \cup Result
ASSUME IdentAssumption == Ident \in [Worker -> Identity]
ASSUME TimeAssumption ==
  /\ MaxTime \in Nat
  /\ Lease \in [Worker -> 1..MaxTime]
  /\ Retention \in [Worker -> 1..MaxTime]
  /\ \A w \in Worker : Lease[w] <= Retention[w]
ASSUME ScenarioAssumption ==
  /\ Closing \subseteq Worker
  /\ Anchored \in BOOLEAN /\ Flushing \in BOOLEAN /\ Resends \in BOOLEAN

VARIABLES
  \* The record in Redis.
  state,       \* "none" when the key does not exist
  owner, identity, result,
  leaseLeft,   \* leaseUntilMs - now, not below 0
  retainLeft,  \* retainUntilMs - now, which is also its PTTL
  \* The calls.
  req,         \* the command and its arguments
  net,         \* where the command is
  reply,       \* the reply on its way back
  age,         \* the time since a begin or renew that is awaited was made
  caller,      \* what the caller knows
  written,     \* history: the calls whose command has written
  misled,      \* history: those of them told that nothing was written
  \* The workers.
  lease,       \* the owner token begin returned, or None
  ctl,         \* maintainOperationLease: "none", "live" or "lost"
  ctlLeft,     \* its deadline - now
  renewing,    \* the renewal it awaits
  closed       \* the workers whose store is closed

recVars  == <<state, owner, identity, result, leaseLeft, retainLeft>>
callVars == <<req, net, reply, age, caller, written, misled>>
workVars == <<lease, ctl, ctlLeft, renewing, closed>>
vars == <<recVars, callVars, workVars>>

-----------------------------------------------------------------------------

Cmd  == {"begin", "renew", "complete", "read"}
Kind == {"missing", "in_progress", "recovery_required", "acquired", "renewed",
         "completed", "lost", "conflict", "rejected"}

Request == [cmd : Cmd, w : Worker, owner : Owner \cup {None},
            result : Result \cup {None}]
Reply   == [kind : Kind, left : 0..MaxTime, result : Result \cup {None}]

NoRequest == [cmd |-> "none"]
NoReply   == [kind |-> "none"]

\* A command that is in the gate, one that may still run, one that NOSCRIPT
\* turned back and that goes out again as EVAL, one that has run.
Flying == {"evalsha", "eval"}
Net    == {"idle", "gate", "noscript", "reply"} \cup Flying

\* What dispatch has told the caller.  "unavailable" and "protocol" say that
\* the command has written nothing and will not.
Definite == {"unavailable", "protocol"}
Told     == {"none", "waiting", "unknown"} \cup Definite

RecordType ==
  /\ state \in {"none", "pending", "completed"}
  /\ owner \in Owner \cup {None}
  /\ identity \in Identity \cup {None}
  /\ result \in Result \cup {None}
  /\ leaseLeft \in 0..MaxTime
  /\ retainLeft \in 0..MaxTime

CallType ==
  /\ req \in [Id -> Request \cup {NoRequest}]
  /\ net \in [Id -> Net]
  /\ reply \in [Id -> Reply \cup {NoReply}]
  /\ age \in [Id -> 0..MaxTime]
  /\ caller \in [Id -> Told]
  /\ written \subseteq Id /\ misled \subseteq Id

WorkerType ==
  /\ lease \in [Worker -> Owner \cup {None}]
  /\ ctl \in [Worker -> {"none", "live", "lost"}]
  /\ ctlLeft \in [Worker -> 0..MaxTime]
  /\ renewing \in [Worker -> Id \cup {None}]
  /\ closed \subseteq Worker

\* Every variable has its type.
TypeOK == RecordType /\ CallType /\ WorkerType

NoRecord ==
  /\ state = "none" /\ owner = None /\ identity = None /\ result = None
  /\ leaseLeft = 0 /\ retainLeft = 0

Init ==
  /\ NoRecord
  /\ req = [i \in Id |-> NoRequest]
  /\ net = [i \in Id |-> "idle"]
  /\ reply = [i \in Id |-> NoReply]
  /\ age = [i \in Id |-> 0]
  /\ caller = [i \in Id |-> "none"]
  /\ written = {}
  /\ misled = {}
  /\ lease = [w \in Worker |-> None]
  /\ ctl = [w \in Worker |-> "none"]
  /\ ctlLeft = [w \in Worker |-> 0]
  /\ renewing = [w \in Worker |-> None]
  /\ closed = {}

-----------------------------------------------------------------------------
(* Making a call: begin, renew, complete, readStatus up to the gate.        *)

Less(t) == IF t = 0 THEN 0 ELSE t - 1
Minus(a, b) == IF a <= b THEN 0 ELSE a - b
Later(a, b) == IF a <= b THEN b ELSE a

\* The call a worker's own code awaits; its renewals run beside it.
Busy(w) ==
  \E i \in Id : /\ net[i] # "idle" /\ caller[i] = "waiting"
                /\ req[i].w = w /\ req[i].cmd # "renew"

Ask(i, w, cmd, o, r) ==
  /\ net[i] = "idle"
  /\ req' = [req EXCEPT ![i] = [cmd |-> cmd, w |-> w, owner |-> o, result |-> r]]
  /\ net' = [net EXCEPT ![i] = "gate"]
  /\ age' = [age EXCEPT ![i] = 0]
  /\ caller' = [caller EXCEPT ![i] = "waiting"]
  /\ UNCHANGED <<recVars, reply, written, misled>>

\* newOwner: a token nothing refers to any more stands for a fresh one.
Fresh(o) ==
  /\ owner # o
  /\ \A w \in Worker : lease[w] # o
  /\ \A i \in Id : net[i] # "idle" => req[i].owner # o

Begin(w, i) ==
  /\ w \notin closed /\ ~Busy(w) /\ lease[w] = None
  /\ \E o \in Owner : Fresh(o) /\ Ask(i, w, "begin", o, None)
  /\ UNCHANGED workVars

Complete(w, i) ==
  /\ w \notin closed /\ ~Busy(w) /\ lease[w] # None
  /\ \E r \in Result : Ask(i, w, "complete", lease[w], r)
  /\ UNCHANGED workVars

ReadStatus(w, i) ==
  /\ w \notin closed /\ ~Busy(w)
  /\ Ask(i, w, "read", None, None)
  /\ UNCHANGED workVars

-----------------------------------------------------------------------------
(* maintainOperationLease.                                                  *)

\* assertLive() of a controller that has not been stopped does not throw.
LocallyLive(w) == ctl[w] = "live" /\ ctlLeft[w] > 0

\* lose(): the deadline no longer matters, and a renewal is not heard.
Lose(w) ==
  /\ ctl' = [ctl EXCEPT ![w] = "lost"]
  /\ ctlLeft' = [ctlLeft EXCEPT ![w] = 0]
  /\ renewing' = [renewing EXCEPT ![w] = None]

\* The controller is given, or has renewed, a deadline.
Holds(w, left) ==
  IF left = 0
  THEN Lose(w)
  ELSE /\ ctl' = [ctl EXCEPT ![w] = "live"]
       /\ ctlLeft' = [ctlLeft EXCEPT ![w] = left]
       /\ renewing' = [renewing EXCEPT ![w] = None]

\* stop(), and the worker gives up its lease.
LetGo(w) ==
  /\ lease' = [lease EXCEPT ![w] = None]
  /\ ctl' = [ctl EXCEPT ![w] = "none"]
  /\ ctlLeft' = [ctlLeft EXCEPT ![w] = 0]
  /\ renewing' = [renewing EXCEPT ![w] = None]

\* The renewal timer; assertLive() has not thrown.
RenewalDue(w, i) ==
  /\ LocallyLive(w) /\ renewing[w] = None /\ w \notin closed
  /\ Ask(i, w, "renew", lease[w], None)
  /\ renewing' = [renewing EXCEPT ![w] = i]
  /\ UNCHANGED <<lease, ctl, ctlLeft, closed>>

\* The expiry timer, or either timer when the deadline has passed or the
\* store is closed.
LeaseRunsOut(w) ==
  /\ ctl[w] = "live"
  /\ ctlLeft[w] = 0 \/ (renewing[w] = None /\ w \in closed)
  /\ Lose(w)
  /\ UNCHANGED <<recVars, callVars, lease, closed>>

\* The worker stops the controller without completing.
Abandon(w) ==
  /\ lease[w] # None /\ ~Busy(w)
  /\ LetGo(w)
  /\ UNCHANGED <<recVars, callVars, closed>>

-----------------------------------------------------------------------------
(* dispatch and execute: a call on its way to Redis and back.               *)

\* The call leaves its slot.
Settle(i, told) ==
  /\ req' = [req EXCEPT ![i] = NoRequest]
  /\ net' = [net EXCEPT ![i] = "idle"]
  /\ reply' = [reply EXCEPT ![i] = NoReply]
  /\ age' = [age EXCEPT ![i] = 0]
  /\ caller' = [caller EXCEPT ![i] = "none"]
  /\ written' = written \ {i}
  /\ misled' = IF told \in Definite /\ i \in written THEN misled \cup {i} ELSE misled

HeardBy(w, i) == renewing[w] = i

\* A rejected promise ends a controller that awaits it; the other callers
\* keep what they have.
Fails(i) ==
  /\ IF HeardBy(req[i].w, i) THEN Lose(req[i].w)
     ELSE UNCHANGED <<ctl, ctlLeft, renewing>>
  /\ UNCHANGED <<lease, closed>>

\* The queue is full, the call expires in it, its deadline has passed or the
\* primary is not ready.
Refuse(i) ==
  /\ net[i] = "gate"
  /\ Settle(i, "unavailable")
  /\ Fails(i)
  /\ UNCHANGED recVars

Dispatch(i) ==
  /\ net[i] = "gate"
  /\ net' = [net EXCEPT ![i] = "evalsha"]
  /\ UNCHANGED <<recVars, req, reply, age, caller, written, misled, workVars>>

\* The primary does not know the script, and execute sends it.
NoScript(i) ==
  /\ Flushing /\ net[i] = "evalsha"
  /\ net' = [net EXCEPT ![i] = "noscript"]
  /\ UNCHANGED <<recVars, req, reply, age, caller, written, misled, workVars>>

SendEval(i) ==
  /\ net[i] = "noscript"
  /\ net' = [net EXCEPT ![i] = "eval"]
  /\ UNCHANGED <<recVars, req, reply, age, caller, written, misled, workVars>>

\* A client that resends: the reply was lost with the connection, and the
\* command runs again.  assertPrimary accepts such a client only when its
\* options cannot be inspected and the caller vouches for it.
Resend(i) ==
  /\ Resends /\ net[i] = "reply"
  /\ net' = [net EXCEPT ![i] = "evalsha"]
  /\ reply' = [reply EXCEPT ![i] = NoReply]
  /\ UNCHANGED <<recVars, req, age, caller, written, misled, workVars>>

\* mutant: dispatch forgets that the command had been dispatched.
GiveUpUnavailable(i) ==
  /\ caller[i] = "waiting" /\ net[i] \in Flying
  /\ caller' = [caller EXCEPT ![i] = "unavailable"]
  /\ Fails(i)
  /\ UNCHANGED <<recVars, req, net, reply, age, written, misled>>

\* The command times out, or its connection fails: it may still run.
GiveUp(i) ==
  /\ caller[i] = "waiting" /\ net[i] \in Flying \cup {"noscript", "reply"}
  /\ IF net[i] = "reply"
     THEN Settle(i, "unknown")
     ELSE /\ caller' = [caller EXCEPT ![i] = "unknown"]
          /\ age' = [age EXCEPT ![i] = 0]
          /\ UNCHANGED <<req, net, reply, written, misled>>
  /\ Fails(i)
  /\ UNCHANGED recVars

\* A command nobody waits for is lost with its connection.
Vanish(i) ==
  /\ caller[i] # "waiting" /\ net[i] \in Flying \cup {"noscript"}
  /\ Settle(i, caller[i])
  /\ UNCHANGED <<recVars, workVars>>

-----------------------------------------------------------------------------
(* OPERATION_COORDINATION_LUA.                                              *)

Present  == state # "none"
Held     == state = "pending" /\ leaseLeft > 0

Other(w) == Present /\ identity # Ident[w]

Owned(i) == Held /\ owner = req[i].owner

\* mutant: renew and complete check the owner but not the remaining lease.
WritesLapsed(i) ==
  /\ ~Other(req[i].w) /\ state # "completed"
  /\ CASE req[i].cmd = "begin" -> ~Held /\ owner # req[i].owner
       [] req[i].cmd \in {"renew", "complete"} -> owner = req[i].owner
       [] OTHER -> FALSE

\* The script reaches persist.
Writes(i) ==
  /\ ~Other(req[i].w) /\ state # "completed"
  /\ CASE req[i].cmd = "begin" -> ~Held /\ owner # req[i].owner
       [] req[i].cmd \in {"renew", "complete"} -> Owned(i)
       [] OTHER -> FALSE

Answer(kind, left, r) == [kind |-> kind, left |-> left, result |-> r]

ReadAnswer ==
  CASE ~Present            -> Answer("missing", 0, None)
    [] state = "completed" -> Answer("completed", 0, result)
    [] Held                -> Answer("in_progress", leaseLeft, None)
    [] OTHER               -> Answer("recovery_required", 0, None)

CompletedAnswer(i) ==
  CASE req[i].cmd = "renew" -> Answer("lost", 0, None)
    [] req[i].cmd = "complete" /\ req[i].result # result ->
         Answer("conflict", 0, None)
    [] OTHER -> Answer("completed", 0, result)

BeginAnswer(i) ==
  CASE Owned(i)                       -> Answer("acquired", leaseLeft, None)
    [] Held /\ owner # req[i].owner   -> Answer("in_progress", leaseLeft, None)
    [] ~Held /\ owner = req[i].owner  -> Answer("rejected", 0, None)
    [] ~Held /\ owner # req[i].owner  -> Answer("acquired", Lease[req[i].w], None)

OwnerAnswer(i) ==
  CASE ~Owned(i) -> Answer("lost", 0, None)
    [] Owned(i) /\ req[i].cmd = "renew"    -> Answer("renewed", Lease[req[i].w], None)
    [] Owned(i) /\ req[i].cmd = "complete" -> Answer("completed", 0, req[i].result)

\* In the order of the script's returns.
ScriptAnswer(i) ==
  IF Other(req[i].w) THEN Answer("conflict", 0, None)
  ELSE IF req[i].cmd = "read" THEN ReadAnswer
  ELSE IF state = "completed" THEN CompletedAnswer(i)
  ELSE IF req[i].cmd = "begin" THEN BeginAnswer(i)
  ELSE OwnerAnswer(i)

\* mutant: every write sets the retention of its own store.
RetainedAnew(w) == Retention[w]

\* retainedDeadline(): retention is never shortened.
Retained(w) == Later(retainLeft, Retention[w])

Persist(i) ==
  /\ owner' = req[i].owner
  /\ identity' = Ident[req[i].w]
  /\ retainLeft' = Retained(req[i].w)
  /\ IF req[i].cmd = "complete"
     THEN state' = "completed" /\ leaseLeft' = 0 /\ result' = req[i].result
     ELSE state' = "pending" /\ leaseLeft' = Lease[req[i].w] /\ result' = None

\* mutant: a begin that finds the operation in progress refreshes its lease.
ExecuteRefreshing(i) ==
  /\ net[i] \in Flying
  /\ IF Writes(i) THEN Persist(i)
     ELSE /\ leaseLeft' = IF Held /\ req[i].cmd = "begin" THEN Lease[req[i].w] ELSE leaseLeft
          /\ retainLeft' = IF Held /\ req[i].cmd = "begin" THEN Retained(req[i].w) ELSE retainLeft
          /\ UNCHANGED <<state, owner, identity, result>>
  /\ IF caller[i] = "waiting"
     THEN /\ net' = [net EXCEPT ![i] = "reply"]
          /\ reply' = [reply EXCEPT ![i] = ScriptAnswer(i)]
          /\ UNCHANGED <<req, age, caller, written, misled>>
     ELSE Settle(i, caller[i])
  /\ UNCHANGED workVars

Execute(i) ==
  /\ net[i] \in Flying
  /\ IF Writes(i) THEN Persist(i) ELSE UNCHANGED recVars
  /\ IF caller[i] = "waiting"
     THEN /\ net' = [net EXCEPT ![i] = "reply"]
          /\ reply' = [reply EXCEPT ![i] = ScriptAnswer(i)]
          /\ written' = IF Writes(i) THEN written \cup {i} ELSE written
          /\ UNCHANGED <<req, age, caller, misled>>
     ELSE Settle(i, caller[i])
  /\ UNCHANGED workVars

-----------------------------------------------------------------------------
(* The reply reaches the caller: decodeBegin, decodeRenew, decodeComplete   *)
(* and decodeStatus, and what the caller does with the result.              *)

\* decimal(): a duration beyond the store's own lease is not believed.
Believed(i) == reply[i].left <= Lease[req[i].w]

Arrives(i) == net[i] = "reply" /\ caller[i] = "waiting"

Answered(i) ==
  /\ Settle(i, "none")
  /\ UNCHANGED <<recVars, closed>>

\* A TX_ error, which the script raises before it writes.
Rejected(i) ==
  /\ Arrives(i) /\ reply[i].kind = "rejected"
  /\ Settle(i, "protocol")
  /\ Fails(i)
  /\ UNCHANGED recVars

InvalidReply(i) ==
  /\ Arrives(i) /\ ~Believed(i)
  /\ Settle(i, "unknown")
  /\ Fails(i)
  /\ UNCHANGED recVars

\* begin returns a lease, and the worker has it maintained.
Acquired(i) ==
  /\ Arrives(i) /\ reply[i].kind = "acquired" /\ Believed(i)
  /\ LET w == req[i].w IN
     /\ lease' = [lease EXCEPT ![w] = req[i].owner]
     /\ Holds(w, IF Anchored THEN Minus(reply[i].left, age[i]) ELSE reply[i].left)
  /\ Answered(i)

\* mutant: the renewed deadline counts from the reply.
RenewedFromReply(i) ==
  /\ Arrives(i) /\ req[i].cmd = "renew" /\ Believed(i)
  /\ LET w == req[i].w IN
     IF HeardBy(w, i)
     THEN Holds(w, IF reply[i].kind = "renewed" /\ ctlLeft[w] > 0
                   THEN reply[i].left ELSE 0)
     ELSE UNCHANGED <<ctl, ctlLeft, renewing>>
  /\ UNCHANGED lease
  /\ Answered(i)

\* The controller's renewal returns: the new deadline counts from the moment
\* the renewal was asked for, and does not revive a deadline already passed.
Renewed(i) ==
  /\ Arrives(i) /\ req[i].cmd = "renew" /\ Believed(i)
  /\ LET w == req[i].w IN
     IF HeardBy(w, i)
     THEN Holds(w, IF reply[i].kind = "renewed" /\ ctlLeft[w] > 0
                   THEN Minus(reply[i].left, age[i]) ELSE 0)
     ELSE UNCHANGED <<ctl, ctlLeft, renewing>>
  /\ UNCHANGED lease
  /\ Answered(i)

\* complete returns: completed, lost or conflict, the attempt is over.
Completed(i) ==
  /\ Arrives(i) /\ req[i].cmd = "complete"
  /\ LetGo(req[i].w)
  /\ Answered(i)

\* readStatus, or a begin that was not granted.
Informed(i) ==
  /\ Arrives(i) /\ Believed(i)
  /\ req[i].cmd \in {"read", "begin"} /\ reply[i].kind \notin {"acquired", "rejected"}
  /\ UNCHANGED <<lease, ctl, ctlLeft, renewing>>
  /\ Answered(i)

-----------------------------------------------------------------------------

\* The gate and the transport close too: the calls still waiting are refused.
Close(w) ==
  LET end == {i \in Id : net[i] = "gate" /\ req[i].w = w}
  IN /\ w \in Closing \ closed
     /\ closed' = closed \cup {w}
     /\ req' = [i \in Id |-> IF i \in end THEN NoRequest ELSE req[i]]
     /\ net' = [i \in Id |-> IF i \in end THEN "idle" ELSE net[i]]
     /\ reply' = [i \in Id |-> IF i \in end THEN NoReply ELSE reply[i]]
     /\ age' = [i \in Id |-> IF i \in end THEN 0 ELSE age[i]]
     /\ caller' = [i \in Id |-> IF i \in end THEN "none" ELSE caller[i]]
     /\ written' = written \ end
     /\ misled' = misled \cup (written \cap end)
     /\ IF renewing[w] \in end THEN Lose(w) ELSE UNCHANGED <<ctl, ctlLeft, renewing>>
     /\ UNCHANGED <<recVars, lease>>

\* The process dies and starts again.  What it has sent may still run.
Crash(w) ==
  LET own == {i \in Id : net[i] # "idle" /\ req[i].w = w}
      end == {i \in own : net[i] \notin Flying}
  IN /\ req' = [i \in Id |-> IF i \in end THEN NoRequest ELSE req[i]]
     /\ net' = [i \in Id |-> IF i \in end THEN "idle" ELSE net[i]]
     /\ reply' = [i \in Id |-> IF i \in end THEN NoReply ELSE reply[i]]
     /\ age' = [i \in Id |-> IF i \in own THEN 0 ELSE age[i]]
     /\ caller' = [i \in Id |-> IF i \in own THEN "none" ELSE caller[i]]
     /\ written' = written \ end
     /\ LetGo(w)
     /\ closed' = closed \ {w}
     /\ UNCHANGED <<recVars, misled>>

\* Somebody has noted when the call was made.
Timed(i) == net[i] # "idle" /\ caller[i] = "waiting" /\ req[i].cmd \in {"begin", "renew"}

\* Redis drops the record in the millisecond after its PTTL has run out.
Tick ==
  /\ IF Present /\ retainLeft = 0
     THEN /\ state' = "none" /\ owner' = None /\ identity' = None /\ result' = None
          /\ leaseLeft' = 0 /\ retainLeft' = 0
     ELSE /\ leaseLeft' = Less(leaseLeft)
          /\ retainLeft' = Less(retainLeft)
          /\ UNCHANGED <<state, owner, identity, result>>
  /\ age' = [i \in Id |-> IF Timed(i) /\ age[i] < MaxTime THEN age[i] + 1 ELSE age[i]]
  /\ ctlLeft' = [w \in Worker |-> Less(ctlLeft[w])]
  /\ UNCHANGED <<req, net, reply, caller, written, misled, lease, ctl, renewing, closed>>

WorkerStep(w) ==
  \/ \E i \in Id : Begin(w, i) \/ Complete(w, i) \/ ReadStatus(w, i) \/ RenewalDue(w, i)
  \/ LeaseRunsOut(w) \/ Abandon(w) \/ Close(w) \/ Crash(w)

CallStep(i) ==
  \/ Refuse(i) \/ Dispatch(i) \/ NoScript(i) \/ SendEval(i) \/ Resend(i)
  \/ GiveUp(i) \/ Vanish(i) \/ Execute(i)
  \/ Rejected(i) \/ InvalidReply(i) \/ Acquired(i) \/ Renewed(i)
  \/ Completed(i) \/ Informed(i)

Next ==
  \/ \E w \in Worker : WorkerStep(w)
  \/ \E i \in Id : CallStep(i)
  \/ Tick

Spec == Init /\ [][Next]_vars

\* Time passes; nothing else is needed of the environment.
LiveSpec == Spec /\ WF_vars(Tick)

-----------------------------------------------------------------------------
(* Properties.                                                              *)

\* maintainOperationLease: assertLive() passes in at most one worker at a
\* time, whatever was delayed, lost or timed out, provided the controller is
\* told when the acquisition was dispatched.
LocalLeaseExclusive ==
  Anchored => \A v, w \in Worker : LocallyLive(v) /\ LocallyLive(w) => v = w

\* dispatch: a caller that was told OperationUnavailableError or
\* OperationProtocolError may retry blindly, for its command has not written
\* and cannot write any more.  It is what assertPrimary's options are for: it
\* would not hold with a client that resends.
DefiniteMeansNoWrite ==
  ~Resends => misled = {} /\ \A i \in Id : caller[i] \in Definite => net[i] = "idle"

\* retainedDeadline: no command shortens the retention of the record, also
\* when it comes from a store with a shorter one; only time does, and a
\* record is not dropped before its time.
RetentionKept ==
  [][Present /\ retainLeft > 0 =>
       /\ Present'
       /\ \/ retainLeft' >= retainLeft
          \/ retainLeft' = retainLeft - 1 /\ UNCHANGED net]_vars

\* The phase of the operation the record stands for.
Phase == IF state = "none" THEN "none"
         ELSE IF state = "completed" THEN "done"
         ELSE IF Held THEN "held" ELSE "lapsed"

Ledger == INSTANCE OperationLedger WITH phase <- Phase

\* The record, its script and its expiry implement the ledger: one holder at
\* a time, no revival of a lapsed hold, one result, one identity.
ImplementsLedger == Ledger!LedgerSpec

\* A hold that no worker knows of, because the reply to begin was lost, the
\* worker died or gave up, does not last: polling does not keep it alive.
Orphan(o) ==
  /\ Held /\ owner = o
  /\ \A w \in Worker : lease[w] # o
  /\ \A i \in Id : net[i] # "idle" /\ caller[i] = "waiting" => req[i].owner # o

OrphanLapses == \A o \in Owner : Orphan(o) ~> ~(Held /\ owner = o)

=============================================================================
