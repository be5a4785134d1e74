---------------------------- MODULE StorageProofs ----------------------------
(***************************************************************************)
(* Theorems about Storage: RedisStore, the Worker cache and the ticketing    *)
(* example.                                                                  *)
(***************************************************************************)
EXTENDS Storage, FiniteSetTheorems, TLAPS

-----------------------------------------------------------------------------
(* RedisStore: the invariant *)

RedisTask(s) ==
  [op : {"idle", "set", "get", "delete", "pattern", "size", "inspect"}, step : Redis(s)!Steps,
   key : s.keys \cup {"none"}, since : 0..s.maxTime, before : Nat,
   scope : SUBSET s.keys, todo : SUBSET s.keys, batch : SUBSET s.keys, left : SUBSET s.keys,
   seen : [s.keys -> Nat], size : Nat, got : [write : Nat, until : Nat], excess : SUBSET Int,
   ran : Nat, eval : BOOLEAN, ok : BOOLEAN]

RedisTypes(s) ==
  /\ clock \in 1..s.maxTime /\ faults \in 0..s.maxFaults /\ writes \in 0..s.maxWrites
  /\ data \in [s.keys -> [write : 0..writes, until : 0..s.maxTime + s.ttl]]
  /\ index \in [s.keys -> 0..s.maxTime + s.ttl]
  /\ task \in [s.clients -> RedisTask(s)]

\* What the fields of a task mean at each of its steps, after w writes.
RedisTaskOk(s, t, w) ==
  /\ t.step \in {"write", "zadd", "unindex", "pttl"} => t.key \in s.keys
  /\ t.step \in {"write", "zadd", "zrange", "recheck"} => t.op = "set"
  /\ t.op = "get" => t.key \in s.keys /\ t.todo \subseteq {t.key}
  /\ t.ran <= 1 /\ (t.step = "write" => t.ran = 0)
  /\ t.left \subseteq t.batch
  /\ t.step # "delete" => t.left = {} \/ (t.step = "done" /\ (~t.ok \/ t.op = "set"))
  /\ t.step = "zrange" => t.size > s.maxEntries
  /\ t.op = "delete" => t.todo = {} /\ t.step \in {"delete", "zrem", "done"}
  /\ t.op = "pattern" => /\ t.step \in {"prune", "scan", "delete", "zrem", "done"}
                         /\ t.step = "done" /\ t.ok => t.todo = {}
  /\ t.step = "pttl" => ~s.snapshot /\ t.got # Redis(s)!Nothing
  /\ s.snapshot => t.excess \subseteq {0}
  /\ t.before <= w

\* A key that a delete has still to reach is one that it will visit: with the values d.
Unreached(s, t, d) ==
  t.op = "delete" \/ (t.op = "pattern" /\ ~s.indexed) =>
    \A k \in t.scope : \/ d[k] = Redis(s)!Nothing \/ d[k].write > t.before
                       \/ k \in t.left \/ k \in t.todo \/ (t.step = "scan" /\ k \in t.batch)

RedisTasks(s) ==
  /\ \A c \in s.clients : RedisTaskOk(s, task[c], writes) /\ Unreached(s, task[c], data)
  /\ faults = 0 => \A c \in s.clients : task[c].ok

\* A set that has still to count the members, or one that will remove all that are too many:
\* with the index x.
MembersOf(s, x) == {k \in s.keys : x[k] # 0}
Counting(t) == t.op = "set" /\ t.step \in {"prune", "zcard"}
Trimming(s, t, x) ==
  \/ t.step = "zrange" /\ Cardinality(MembersOf(s, x)) <= t.size
  \/ /\ t.step = "recheck" /\ \A k \in t.todo : x[k] \in {t.seen[k], 0}
     /\ Cardinality(MembersOf(s, x) \ (t.todo \cup t.batch)) <= s.maxEntries
  \/ t.step \in {"delete", "zrem"} /\ Cardinality(MembersOf(s, x) \ t.batch) <= s.maxEntries
LimitInv(s) ==
  s.indexed /\ faults = 0 =>
    \/ Cardinality(MembersOf(s, index)) <= s.maxEntries
    \/ \E c \in s.clients : Counting(task[c]) \/ Trimming(s, task[c], index)

\* What expires when, and what the task of the only client has just written or deleted.
DataLives(s) ==
  \A k \in s.keys : data[k] # Redis(s)!Nothing => data[k].until > clock /\ data[k].until <= clock + s.ttl
Alone(s) == s.versioned /\ s.indexed /\ Cardinality(s.clients) = 1
AloneOk(s, t, d, x) ==
  /\ \A k \in s.keys : d[k] # Redis(s)!Nothing => x[k] >= d[k].until \/ (t.step = "zadd" /\ t.key = k)
  /\ t.step \in {"delete", "zrem"} => \A k \in t.batch \ t.left : d[k] = Redis(s)!Nothing
  /\ t.step = "unindex" => d[t.key] = Redis(s)!Nothing
AloneInv(s) ==
  /\ DataLives(s)
  /\ Alone(s) /\ faults = 0 => \A c \in s.clients : AloneOk(s, task[c], data, index)

RedisInv(s) == RedisTypes(s) /\ RedisTasks(s) /\ LimitInv(s) /\ AloneInv(s)

-----------------------------------------------------------------------------
(* The Worker cache: the invariant *)

WorkerPc == {"done", "reading", "checked", "joined", "starting", "loading", "putting", "deleting",
             "publishing"}
WorkerAnswer == [from : {"nothing", "l1", "kv", "error", "closed", "origin", "joined"}, seen : Nat]
WorkerCall(s) ==
  [op : {"none", "get", "getOrSet", "set", "delete", "pattern", "resolved"}, pc : WorkerPc,
   id : Worker(s)!Ids \cup {0}, revision : Nat, since : Nat, seen : Nat, at : Nat,
   leader : Request \cup {None}, kv : BOOLEAN, queued : BOOLEAN,
   out : WorkerAnswer]

WorkerTypes(s) ==
  /\ time \in 0..s.maxTime /\ mutations \in 0..s.maxMutations /\ closed \in BOOLEAN
  /\ stored \subseteq Nat /\ l1 \in {None} \cup [seen : Nat, expires : Int, until : Int]
  /\ state \in [Worker(s)!Ids -> [revision : Nat, references : Nat]]
  /\ current \in Worker(s)!Ids \cup {0} /\ inflight \in Request \cup {None}
  /\ request \in [Request -> WorkerCall(s)]

Running(t) == t.op = "getOrSet" /\ t.pc \in {"starting", "loading", "putting"}

\* What the fields of a call mean at each of its steps, after m mutations at time n.
WorkerCallOk(t, m, n) ==
  /\ t.pc \in {"reading", "starting", "loading", "putting"} => t.id # 0
  /\ t.pc \in {"done", "checked", "joined"} => t.id = 0
  /\ t.pc \in {"checked", "joined", "starting", "loading"} => t.op = "getOrSet"
  /\ t.pc = "putting" => t.op \in {"getOrSet", "set"}
  /\ t.op = "resolved" => t.pc = "done"
  /\ t.since <= m /\ t.seen <= m /\ t.at <= n
  /\ t.op = "resolved" /\ t.out.from = "nothing" => t.kv \/ t.queued
  /\ t.out.from \in {"l1", "joined"} => t.out.seen >= t.since

\* A guard whose revision is the key's was taken after the latest mutation.
GuardsFresh(s) ==
  \A r \in Request : request[r].id # 0 /\ request[r].id = current =>
    /\ request[r].revision <= state[current].revision
    /\ request[r].revision = state[current].revision => request[r].seen = mutations

\* The load that is registered began after the latest mutation, and there is no other.
LoadsOk ==
  /\ inflight # None => ~closed /\ Running(request[inflight]) /\ request[inflight].seen = mutations
  /\ \A r \in Request : ~closed /\ Running(request[r]) /\ request[r].seen = mutations => inflight = r
  /\ \A r \in Request : request[r].pc = "joined" =>
       /\ request[r].leader \in Request /\ Running(request[request[r].leader])
       /\ request[request[r].leader].seen >= request[r].since
  /\ \A q, r \in Request : q # r /\ Running(request[q]) /\ Running(request[r]) =>
       request[q].seen # request[r].seen

L1Ok == /\ ~closed /\ l1 # None => l1.seen = mutations
        /\ l1 # None => l1.expires <= l1.until
\* The references of a state of the map are the guards on it.
Guarding(i) == {r \in Request : request[r].id = i}
GuardCount(s) ==
  /\ \A i \in Worker(s)!Ids : state[i].references = Cardinality(Guarding(i))
  /\ current # 0 => Guarding(current) # {}
  /\ closed => current = 0

WorkerInv(s) ==
  /\ WorkerTypes(s) /\ (\A r \in Request : WorkerCallOk(request[r], mutations, time))
  /\ GuardsFresh(s) /\ LoadsOk /\ L1Ok /\ GuardCount(s)

-----------------------------------------------------------------------------
(* The ticketing example: the invariant *)

Final == {"held", "confirmed", "released", "declined"}
Results == Final \cup {"none", "available", "pending", "conflict", "completed", "in_progress", "acquired"}
Ticket == Tickets!Id
Buyers == {q.buyer : q \in Requests} \cup {"none"}
Fingerprints == {Tickets!Fingerprint(q) : q \in Requests} \cup {<<>>}
AnyRequest == Requests \cup {Tickets!Idle.request}
OperationKeys == {q.key : q \in Requests} \cup {"none"}
TicketPc == {"done", "claiming", "begin", "begun", "lookup", "execute", "finalize", "complete"}

SeatRow == [state : {"available", "held", "confirmed"}, holder : 0..MaxOperations, until : Nat]
ReservationRow == [buyer : Buyers, state : {"none", "held", "confirmed", "released"}, until : Nat]
Operation ==
  [kind : {"none", "reserve", "confirm", "release"}, key : OperationKeys,
   fingerprint : Fingerprints, reservation : 0..MaxOperations,
   state : {"none", "pending", "completed"}, version : Nat, result : Results]
CoordinationRecord ==
  [id : 0..MaxOperations, owner : Nat, state : {"none", "pending", "completed"}, lease : Nat,
   retain : Nat, ref : Results]
TicketCall ==
  [pc : TicketPc, request : AnyRequest, serial : Nat, id : 0..MaxOperations,
   version : Nat, at : Nat, result : Results]

TicketTypes ==
  /\ hour \in 0..MaxHour /\ calls \in 0..MaxCalls /\ sequence \in 0..MaxOperations
  /\ seat \in SeatRow /\ reservation \in [Ticket -> ReservationRow]
  /\ operation \in [Ticket -> Operation] /\ byKey \in [Tickets!Slot -> 0..MaxOperations]
  /\ record \in [Tickets!Slot -> CoordinationRecord] /\ charges \in [Ticket -> {0, 1}]
  /\ call \in [Caller -> TicketCall] /\ told \in [Ticket -> SUBSET Final]

\* Nothing is known of an id that was not given.
IdsFresh ==
  \A i \in Ticket : i > sequence =>
    /\ reservation[i].state = "none" /\ operation[i].state = "none" /\ operation[i].kind = "none"
    /\ charges[i] = 0

SeatOk == /\ seat.holder = 0 <=> seat = Tickets!NoSeat
          /\ seat.holder # 0 => seat.state \in {"held", "confirmed"}

OperationsOk ==
  \A i \in Ticket :
    /\ operation[i].state = "none" <=> operation[i].kind = "none"
    /\ operation[i].state = "pending" => /\ operation[i].reservation \in Ticket
                                         /\ reservation[operation[i].reservation].state # "none"
    /\ operation[i].kind = "confirm" =>
         <<"confirm", operation[i].key>> \in Tickets!Slot /\ byKey[<<"confirm", operation[i].key>>] = i
    /\ charges[i] = 1 => operation[i].kind = "confirm"
    /\ operation[i].state = "completed" => operation[i].result \in Final
AnswersOk ==
  \A i \in Ticket : \A x \in told[i] : operation[i].state = "completed" /\ operation[i].result = x
SlotsOk == \A x \in Tickets!Slot : byKey[x] # 0 => operation[byKey[x]].state # "none"

TicketCallOk(t) ==
  /\ t.pc # "done" => t.request \in Requests
  /\ t.pc = "claiming" => t.request.kind = "reserve"
  /\ t.pc \notin {"done", "claiming"} => t.id \in Ticket /\ operation[t.id].state # "none"
  /\ t.pc \in {"lookup", "execute"} => operation[t.id].kind = "confirm"
  /\ t.pc = "finalize" => /\ t.result \in Final
                          /\ operation[t.id].kind = "confirm" /\ t.result = "confirmed" => charges[t.id] = 1
  /\ t.pc = "complete" => operation[t.id].state = "completed" /\ operation[t.id].result = t.result
RecordsOk ==
  \A x \in Tickets!Slot : record[x].state = "completed" =>
    /\ record[x].id \in Ticket /\ operation[record[x].id].state = "completed"
    /\ operation[record[x].id].result = record[x].ref

TicketInv ==
  /\ TicketTypes /\ IdsFresh /\ SeatOk /\ OperationsOk /\ AnswersOk /\ SlotsOk /\ RecordsOk
  /\ \A c \in Caller : TicketCallOk(call[c])
  /\ Tickets!OneHolder /\ Tickets!ConfirmedPaid

-----------------------------------------------------------------------------
\* The parts count as this module does.
LEMMA SameCardinality ==
  ASSUME NEW S
  PROVE  /\ Tickets!Cardinality(S) = Cardinality(S)
         /\ \A s : Worker(s)!Cardinality(S) = Cardinality(S)
         /\ \A s : Redis(s)!Cardinality(S) = Cardinality(S)
<1>1. Tickets!Cardinality(S) = Cardinality(S)
  BY DEF Tickets!Cardinality, Cardinality
<1>2. ASSUME NEW s PROVE Worker(s)!Cardinality(S) = Cardinality(S)
  BY DEF Worker!Cardinality, Cardinality
<1>3. ASSUME NEW s PROVE Redis(s)!Cardinality(S) = Cardinality(S)
  BY DEF Redis!Cardinality, Cardinality
<1> QED  BY <1>1, <1>2, <1>3

LEMMA SameFinite ==
  ASSUME NEW S, NEW s
  PROVE  Worker(s)!IsFiniteSet(S) = IsFiniteSet(S) /\ Redis(s)!IsFiniteSet(S) = IsFiniteSet(S)
BY DEF Worker!IsFiniteSet, Redis!IsFiniteSet, IsFiniteSet

-----------------------------------------------------------------------------
(* The ticketing example: lemmas *)

LEMMA TicketConstants ==
  /\ HoldMs \in Nat \ {0} /\ LeaseMs \in Nat \ {0} /\ RetentionMs \in Nat \ {0}
  /\ MaxCalls \in Nat \ {0} /\ MaxOperations \in Nat \ {0} /\ MaxHour \in Nat
  /\ Ticket = 1..MaxOperations
  /\ \A q \in Requests : /\ q.kind \in {"reserve", "confirm", "release"}
                         /\ q.reservation \in 0..MaxOperations
                         /\ <<q.kind, q.key>> \in Tickets!Slot
                         /\ q.buyer \in Buyers /\ q.key \in OperationKeys
<1>1. /\ {HoldMs, LeaseMs, RetentionMs, MaxCalls, MaxOperations} \subseteq Nat \ {0} /\ MaxHour \in Nat
      /\ \A q \in Requests : /\ q.kind \in {"reserve", "confirm", "release"}
                             /\ q.reservation \in 0..MaxOperations
  BY StorageAssumption DEF Tickets!TicketingAssumption
<1> QED  BY <1>1 DEF Ticket, Tickets!Id, Tickets!Slot, Buyers, OperationKeys

LEMMA TicketNumbers == /\ MaxOperations \in Nat \ {0} /\ Ticket = 1..MaxOperations
                       /\ Ticket = Tickets!Id /\ 0 \notin Ticket
BY TicketConstants DEF Ticket

LEMMA TicketStart == Tickets!Init => TicketInv
<1> SUFFICES ASSUME Tickets!Init PROVE TicketInv  OBVIOUS
<1> USE TicketConstants DEF Tickets!Init, Ticket, Tickets!NoSeat, Tickets!NoReservation,
      Tickets!NoOperation, Tickets!NoRecord, Tickets!Idle
<1>1. TicketTypes
  BY DEF TicketTypes, SeatRow, ReservationRow, Operation, CoordinationRecord, TicketCall, Buyers,
    Fingerprints, AnyRequest, OperationKeys, Results, Final, TicketPc
<1>2. IdsFresh /\ SeatOk /\ OperationsOk /\ AnswersOk /\ SlotsOk /\ RecordsOk
  BY DEF IdsFresh, SeatOk, OperationsOk, AnswersOk, SlotsOk, RecordsOk
<1>3. \A c \in Caller : TicketCallOk(call[c])
  BY DEF TicketCallOk
<1>4. Tickets!OneHolder /\ Tickets!ConfirmedPaid
  BY DEF Tickets!OneHolder, Tickets!ConfirmedPaid
<1> QED  BY <1>1, <1>2, <1>3, <1>4 DEF TicketInv

\* What no step undoes: an operation keeps what it is about, and its result once it has one; a
\* payment stays.
Grows ==
  \A i \in Ticket :
    /\ operation[i].state # "none" =>
         /\ operation'[i].state # "none" /\ operation'[i].kind = operation[i].kind
         /\ operation'[i].reservation = operation[i].reservation /\ operation'[i].key = operation[i].key
    /\ operation[i].state = "completed" =>
         operation'[i].state = "completed" /\ operation'[i].result = operation[i].result
    /\ charges[i] = 1 => charges'[i] = 1

\* What the rows keep when a hold ends, a reservation is released or nothing happens to them.
RowsStep ==
  /\ seat' \in SeatRow /\ reservation' \in [Ticket -> ReservationRow]
  /\ SeatOk' /\ Tickets!OneHolder'
  /\ \A i \in Ticket : reservation[i].state = "none" <=> reservation'[i].state = "none"
  /\ \A i \in Ticket : reservation'[i].state = "confirmed" => reservation[i].state = "confirmed"

LEMMA RowsUnchanged ==
  ASSUME TicketInv, UNCHANGED <<seat, reservation>>
  PROVE  RowsStep
BY DEF TicketInv, TicketTypes, RowsStep, SeatOk, Tickets!OneHolder, Ticket, Tickets!NoSeat

LEMMA RowsExpire ==
  ASSUME TicketInv, NEW at \in Nat, Tickets!expireSeat(at)
  PROVE  RowsStep
<1> USE TicketNumbers
<1>1. CASE seat.state # "held" \/ seat.until > at
  BY <1>1, RowsUnchanged DEF Tickets!expireSeat
<1>2. CASE ~(seat.state # "held" \/ seat.until > at)
  <2>1. seat.holder \in Ticket
    BY <1>2 DEF TicketInv, TicketTypes, SeatRow, ReservationRow, SeatOk, Tickets!NoSeat
  <2>2. /\ reservation' = [reservation EXCEPT ![seat.holder].state = IF @ = "held" THEN "released" ELSE @]
        /\ seat' = Tickets!NoSeat
    BY <1>2 DEF Tickets!expireSeat
  <2>3. reservation[seat.holder].state = "held"
    BY <1>2, <2>1 DEF TicketInv, Tickets!OneHolder
  <2>4. seat' \in SeatRow
    BY <2>2 DEF SeatRow, Tickets!NoSeat
  <2>8. reservation' \in [Ticket -> ReservationRow]
    BY <2>1, <2>2, <2>3, ZenonT(60) DEF TicketInv, TicketTypes, SeatRow, ReservationRow, Tickets!NoSeat
  <2>5. SeatOk'
    BY <2>2 DEF SeatOk, Tickets!NoSeat
  <2>6. Tickets!OneHolder'
    BY <2>1, <2>2, <2>3 DEF TicketInv, TicketTypes, SeatRow, ReservationRow, Tickets!OneHolder, Tickets!NoSeat, Ticket
  <2>7. \A i \in Ticket : /\ reservation[i].state = "none" <=> reservation'[i].state = "none"
                          /\ reservation'[i].state = "confirmed" => reservation[i].state = "confirmed"
    BY <2>1, <2>2, <2>3 DEF TicketInv, TicketTypes, SeatRow, ReservationRow
  <2> QED  BY <2>4, <2>5, <2>6, <2>7, <2>8 DEF RowsStep
<1> QED  BY <1>1, <1>2

LEMMA RowsRelease ==
  ASSUME TicketInv, NEW r \in Ticket, Tickets!releaseReservation(r), reservation[r].state # "none"
  PROVE  RowsStep
<1> USE TicketNumbers
<1>1. /\ reservation' = [reservation EXCEPT ![r].state = "released"]
      /\ seat' = IF seat.holder = r THEN Tickets!NoSeat ELSE seat
  BY DEF Tickets!releaseReservation
<1>2. seat' \in SeatRow
  BY <1>1 DEF TicketInv, TicketTypes, SeatRow, Tickets!NoSeat
<1>6. reservation' \in [Ticket -> ReservationRow]
  BY <1>1, ZenonT(60) DEF TicketInv, TicketTypes, ReservationRow
<1>3. SeatOk'
  BY <1>1 DEF TicketInv, SeatOk, Tickets!NoSeat
<1>4. Tickets!OneHolder'
  BY <1>1 DEF TicketInv, TicketTypes, SeatRow, ReservationRow, Tickets!OneHolder, Tickets!NoSeat, Ticket, SeatOk
<1>5. \A i \in Ticket : /\ reservation[i].state = "none" <=> reservation'[i].state = "none"
                        /\ reservation'[i].state = "confirmed" => reservation[i].state = "confirmed"
  BY <1>1 DEF TicketInv, TicketTypes, SeatRow, ReservationRow
<1> QED  BY <1>2, <1>3, <1>4, <1>5, <1>6 DEF RowsStep

LEMMA CallsKept ==
  ASSUME TicketInv, Grows, NEW c \in Caller, NEW k \in TicketCall, Tickets!Goto(c, k), TicketCallOk(call[c])'
  PROVE  call' \in [Caller -> TicketCall] /\ \A d \in Caller : TicketCallOk(call[d])'
<1>1. call \in [Caller -> TicketCall] /\ call' = [call EXCEPT ![c] = k]
  BY DEF TicketInv, TicketTypes, Tickets!Goto
<1>2. call' \in [Caller -> TicketCall]
  BY <1>1
<1>3. ASSUME NEW d \in Caller, d # c PROVE TicketCallOk(call[d])'
  <2>1. call'[d] = call[d] /\ call[d] \in TicketCall /\ TicketCallOk(call[d])
    BY <1>1, <1>3 DEF TicketInv
  <2> QED  BY <2>1 DEF Grows, TicketCallOk, TicketCall
<1> QED  BY <1>2, <1>3

LEMMA CallsUntouched ==
  ASSUME TicketInv, Grows, UNCHANGED call
  PROVE  call' \in [Caller -> TicketCall] /\ \A d \in Caller : TicketCallOk(call[d])'
<1>1. ASSUME NEW d \in Caller PROVE TicketCallOk(call[d])'
  <2>1. call'[d] = call[d] /\ call[d] \in TicketCall /\ TicketCallOk(call[d])
    BY DEF TicketInv, TicketTypes
  <2> QED  BY <2>1 DEF Grows, TicketCallOk, TicketCall
<1> QED  BY <1>1 DEF TicketInv, TicketTypes

LEMMA AnswersKept == ASSUME TicketInv, Grows, UNCHANGED told PROVE AnswersOk'
BY DEF TicketInv, TicketTypes, Grows, AnswersOk

\* A call returns: a final answer is the operation's result.
LEMMA ReturnKept ==
  ASSUME TicketInv, Grows, NEW c \in Caller, NEW id, NEW result, Tickets!Return(c, id, result),
         result \in Final =>
           id \in Ticket /\ operation'[id].state = "completed" /\ operation'[id].result = result
  PROVE  /\ call' \in [Caller -> TicketCall] /\ \A d \in Caller : TicketCallOk(call[d])'
         /\ told' \in [Ticket -> SUBSET Final] /\ AnswersOk'
<1>1. /\ Tickets!Goto(c, Tickets!Idle)
      /\ told' = IF result \in Final THEN [told EXCEPT ![id] = @ \union {result}] ELSE told
  BY DEF Tickets!Return, Final
<1>2. Tickets!Idle \in TicketCall
  BY TicketConstants DEF Tickets!Idle, TicketCall, AnyRequest, TicketPc, Results
<1>3. call' \in [Caller -> TicketCall] /\ \A d \in Caller : TicketCallOk(call[d])'
  <2>1. TicketCallOk(call[c])'
    BY <1>1 DEF TicketCallOk, Tickets!Goto, Tickets!Idle, TicketInv, TicketTypes
  <2> QED  BY <1>1, <1>2, <2>1, CallsKept
<1>4. told \in [Ticket -> SUBSET Final] /\ AnswersOk
  BY DEF TicketInv, TicketTypes
<1>5. told' \in [Ticket -> SUBSET Final]
  BY <1>1, <1>4
<1>6. AnswersOk'
  BY <1>1, <1>4 DEF AnswersOk, Grows
<1> QED  BY <1>3, <1>5, <1>6

LEMMA RecordsKept ==
  ASSUME TicketInv, Grows, UNCHANGED record
  PROVE  RecordsOk' /\ record' \in [Tickets!Slot -> CoordinationRecord]
BY DEF TicketInv, TicketTypes, Grows, RecordsOk

\* A step that gives no id and touches no operation.
LEMMA RowsOnly ==
  ASSUME TicketInv, RowsStep, UNCHANGED <<sequence, operation, byKey, charges>>
  PROVE  Grows /\ SlotsOk' /\ Tickets!ConfirmedPaid' /\ IdsFresh' /\ OperationsOk'
<1> USE TicketNumbers
<1>1. Grows
  BY DEF Grows
<1>2. SlotsOk'
  BY DEF TicketInv, SlotsOk
<1>3. Tickets!ConfirmedPaid'
  BY DEF TicketInv, Tickets!ConfirmedPaid, RowsStep
<1>4. IdsFresh'
  BY DEF TicketInv, IdsFresh, RowsStep
<1>5. OperationsOk'
  BY DEF TicketInv, OperationsOk, RowsStep
<1> QED  BY <1>1, <1>2, <1>3, <1>4, <1>5

LEMMA TicketTick == ASSUME TicketInv, Tickets!Tick PROVE TicketInv'
<1>1. /\ hour' \in 0..MaxHour /\ UNCHANGED <<seat, reservation>>
      /\ UNCHANGED <<calls, sequence, operation, byKey, record, charges, call, told>>
  BY TicketConstants DEF TicketInv, TicketTypes, Tickets!Tick, Tickets!db
<1>2. RowsStep
  BY <1>1, RowsUnchanged
<1>3. /\ Grows /\ SlotsOk' /\ Tickets!ConfirmedPaid' /\ IdsFresh' /\ OperationsOk'
  BY <1>1, <1>2, RowsOnly
<1>4. AnswersOk' /\ RecordsOk' /\ \A d \in Caller : TicketCallOk(call[d])'
  BY <1>1, <1>3, AnswersKept, RecordsKept, CallsUntouched
<1>5. TicketTypes'
  BY <1>1 DEF TicketInv, TicketTypes
<1> QED  BY <1>2, <1>3, <1>4, <1>5 DEF TicketInv, RowsStep

LEMMA TicketReadSeat == ASSUME TicketInv, Tickets!readSeat PROVE TicketInv'
<1>1. /\ Tickets!expireSeat(hour) /\ hour \in Nat
      /\ UNCHANGED <<hour, calls, sequence, operation, byKey, record, charges, call, told>>
  BY TicketConstants DEF TicketInv, TicketTypes, Tickets!readSeat
<1>2. RowsStep
  BY <1>1, RowsExpire
<1>3. /\ Grows /\ SlotsOk' /\ Tickets!ConfirmedPaid' /\ IdsFresh' /\ OperationsOk'
  BY <1>1, <1>2, RowsOnly
<1>4. AnswersOk' /\ RecordsOk' /\ \A d \in Caller : TicketCallOk(call[d])'
  BY <1>1, <1>3, AnswersKept, RecordsKept, CallsUntouched
<1>5. TicketTypes'
  BY <1>1, <1>2 DEF TicketInv, TicketTypes, RowsStep
<1> QED  BY <1>2, <1>3, <1>4, <1>5 DEF TicketInv, RowsStep

\* The steps of a call that touch neither rows nor operations.
LEMMA TicketDies == ASSUME TicketInv, NEW c \in Caller, Tickets!Dies(c) PROVE TicketInv'
<1>1. /\ Tickets!Goto(c, Tickets!Idle) /\ UNCHANGED <<seat, reservation>>
      /\ UNCHANGED <<hour, calls, sequence, operation, byKey, record, charges, told>>
  BY DEF Tickets!Dies, Tickets!db
<1>2. RowsStep
  BY <1>1, RowsUnchanged
<1>3. Grows /\ SlotsOk' /\ Tickets!ConfirmedPaid' /\ IdsFresh' /\ OperationsOk'
  BY <1>1, <1>2, RowsOnly
<1>4. TicketCallOk(call[c])' /\ Tickets!Idle \in TicketCall
  BY <1>1, TicketConstants
    DEF TicketCallOk, Tickets!Goto, Tickets!Idle, TicketInv, TicketTypes, TicketCall, AnyRequest,
        TicketPc, Results
<1>5. call' \in [Caller -> TicketCall] /\ \A d \in Caller : TicketCallOk(call[d])'
  BY <1>1, <1>3, <1>4, CallsKept
<1>6. AnswersOk' /\ RecordsOk'
  BY <1>1, <1>3, AnswersKept, RecordsKept
<1>7. TicketTypes'
  BY <1>1, <1>5 DEF TicketInv, TicketTypes
<1> QED  BY <1>2, <1>3, <1>5, <1>6, <1>7 DEF TicketInv, RowsStep

LEMMA TicketLookup == ASSUME TicketInv, NEW c \in Caller, Tickets!Lookup(c) PROVE TicketInv'
<1> DEFINE k == IF charges[call[c].id] > 0 THEN [call[c] EXCEPT !.pc = "finalize", !.result = "confirmed"]
                ELSE [call[c] EXCEPT !.pc = "execute"]
<1>1. /\ Tickets!Goto(c, k) /\ UNCHANGED <<seat, reservation>> /\ call[c].pc = "lookup"
      /\ UNCHANGED <<hour, calls, sequence, operation, byKey, record, charges, told>>
  BY DEF Tickets!Lookup, Tickets!db
<1>2. RowsStep
  BY <1>1, RowsUnchanged
<1>3. Grows /\ SlotsOk' /\ Tickets!ConfirmedPaid' /\ IdsFresh' /\ OperationsOk'
  BY <1>1, <1>2, RowsOnly
<1>4. call[c] \in TicketCall /\ TicketCallOk(call[c]) /\ charges \in [Ticket -> {0, 1}]
  BY DEF TicketInv, TicketTypes
<1>5. k \in TicketCall
  BY <1>4 DEF TicketCall, TicketPc, Results, Final
<1>6. call'[c] = k
  BY <1>1 DEF Tickets!Goto, TicketInv, TicketTypes
<1>7. TicketCallOk(call[c])'
  BY <1>1, <1>4, <1>6 DEF TicketCallOk, TicketCall, Final
<1>8. call' \in [Caller -> TicketCall] /\ \A d \in Caller : TicketCallOk(call[d])'
  BY <1>1, <1>3, <1>5, <1>7, CallsKept
<1>9. AnswersOk' /\ RecordsOk'
  BY <1>1, <1>3, AnswersKept, RecordsKept
<1>10. TicketTypes'
  BY <1>1, <1>8 DEF TicketInv, TicketTypes
<1> QED  BY <1>2, <1>3, <1>8, <1>9, <1>10 DEF TicketInv, RowsStep

LEMMA TicketExecute ==
  ASSUME TicketInv, NEW c \in Caller, NEW outcome \in {"confirmed", "declined", "unknown"},
         NEW paid \in BOOLEAN, Tickets!Execute(c, outcome, paid)
  PROVE  TicketInv'
<1> USE TicketNumbers
<1> DEFINE id == call[c].id
           k == [call[c] EXCEPT !.pc = "finalize", !.result = outcome]
<1>1. /\ call[c].pc = "execute" /\ (outcome = "confirmed" => paid)
      /\ charges' = [charges EXCEPT ![id] = IF paid THEN 1 ELSE @]
      /\ IF outcome = "unknown" THEN Tickets!Return(c, id, "pending")
         ELSE Tickets!Goto(c, k) /\ UNCHANGED told
      /\ UNCHANGED <<hour, calls, sequence, seat, reservation, operation, byKey, record>>
  BY DEF Tickets!Execute, Tickets!Outcome, Tickets!db
<1>2. /\ call[c] \in TicketCall /\ TicketCallOk(call[c]) /\ charges \in [Ticket -> {0, 1}]
      /\ id \in Ticket /\ operation[id].kind = "confirm" /\ operation[id].state # "none"
  BY <1>1 DEF TicketInv, TicketTypes, TicketCallOk
<1>3. charges' \in [Ticket -> {0, 1}] /\ charges'[id] = IF paid THEN 1 ELSE charges[id]
  BY <1>1, <1>2
<1>4. Grows
  BY <1>1, <1>2 DEF Grows
<1>5. RowsStep
  BY <1>1, RowsUnchanged
<1>6. SlotsOk' /\ RecordsOk'
  BY <1>1, <1>4, RecordsKept DEF TicketInv, SlotsOk
<1>7. IdsFresh'
  BY <1>1, <1>2 DEF TicketInv, TicketTypes, IdsFresh
<1>8. OperationsOk'
  BY <1>1, <1>2 DEF TicketInv, TicketTypes, OperationsOk
<1>9. Tickets!ConfirmedPaid'
  BY <1>1, <1>2, <1>3 DEF TicketInv, Tickets!ConfirmedPaid
<1>10. /\ call' \in [Caller -> TicketCall] /\ \A d \in Caller : TicketCallOk(call[d])'
       /\ told' \in [Ticket -> SUBSET Final] /\ AnswersOk'
  <2>1. CASE outcome = "unknown"
    <3>1. Tickets!Return(c, id, "pending") /\ "pending" \notin Final
      BY <1>1, <2>1 DEF Final
    <3> QED  BY <1>4, <3>1, ReturnKept
  <2>2. CASE outcome # "unknown"
    <3>1. Tickets!Goto(c, k) /\ UNCHANGED told
      BY <1>1, <2>2
    <3>2. k \in TicketCall
      BY <1>2, <2>2 DEF TicketCall, TicketPc, Results, Final
    <3>3. call'[c] = k
      BY <3>1 DEF Tickets!Goto, TicketInv, TicketTypes
    <3>4. TicketCallOk(call[c])'
      BY <1>1, <1>2, <1>3, <2>2, <3>3 DEF TicketCallOk, TicketCall, Final
    <3>5. call' \in [Caller -> TicketCall] /\ \A d \in Caller : TicketCallOk(call[d])'
      BY <1>4, <3>1, <3>2, <3>4, CallsKept
    <3>6. AnswersOk' /\ told' \in [Ticket -> SUBSET Final]
      BY <1>4, <3>1, AnswersKept DEF TicketInv, TicketTypes
    <3> QED  BY <3>5, <3>6
  <2> QED  BY <2>1, <2>2
<1>11. TicketTypes'
  BY <1>1, <1>3, <1>10 DEF TicketInv, TicketTypes
<1> QED  BY <1>5, <1>6, <1>7, <1>8, <1>9, <1>10, <1>11 DEF TicketInv, RowsStep

\* The record of a slot as the primary reads it.
LEMMA KeptRecord ==
  ASSUME TicketInv, NEW x \in Tickets!Slot
  PROVE  /\ Tickets!Kept(x) \in CoordinationRecord
         /\ Tickets!Kept(x) = record[x] \/ Tickets!Kept(x).state = "none"
<1>1. Tickets!NoRecord \in CoordinationRecord /\ Tickets!NoRecord.state = "none"
  BY TicketConstants DEF Tickets!NoRecord, CoordinationRecord, Results
<1> QED  BY <1>1 DEF Tickets!Kept, TicketInv, TicketTypes

\* One record is written; one that says completed is right.
LEMMA RecordWritten ==
  ASSUME TicketInv, Grows, NEW x \in Tickets!Slot, NEW r \in CoordinationRecord,
         record' = [record EXCEPT ![x] = r],
         r.state = "completed" =>
           /\ r.id \in Ticket /\ operation'[r.id].state = "completed" /\ operation'[r.id].result = r.ref
  PROVE  RecordsOk' /\ record' \in [Tickets!Slot -> CoordinationRecord]
<1>1. record \in [Tickets!Slot -> CoordinationRecord] /\ RecordsOk
  BY DEF TicketInv, TicketTypes
<1>2. record' \in [Tickets!Slot -> CoordinationRecord]
  BY <1>1
<1>3. RecordsOk'
  BY <1>1 DEF RecordsOk, Grows
<1> QED  BY <1>2, <1>3

\* The slot of a request.
LEMMA CallSlot ==
  ASSUME TicketInv, NEW c \in Caller, call[c].pc # "done"
  PROVE  Tickets!SlotOf(call[c].request) \in Tickets!Slot /\ call[c].request \in Requests
BY TicketConstants DEF TicketInv, TicketCallOk, Tickets!SlotOf

LEMMA TicketBegin == ASSUME TicketInv, NEW c \in Caller, Tickets!Begin(c) PROVE TicketInv'
<1> DEFINE x == Tickets!SlotOf(call[c].request)
           k == [call[c] EXCEPT !.pc = "begun", !.result = Tickets!BeginReply(c)]
           r == [id |-> call[c].id, owner |-> call[c].serial, state |-> "pending", lease |-> hour + LeaseMs,
                 retain |-> Tickets!Later(Tickets!Kept(x).retain, hour + RetentionMs), ref |-> "none"]
<1>1. /\ call[c].pc = "begin" /\ Tickets!Goto(c, k)
      /\ record' = [record EXCEPT ![x] = IF Tickets!BeginReply(c) # "acquired" THEN Tickets!Kept(x) ELSE r]
      /\ UNCHANGED <<hour, calls, sequence, seat, reservation, operation, byKey, charges, told>>
  BY DEF Tickets!Begin, Tickets!db
<1>2. RowsStep
  BY <1>1, RowsUnchanged
<1>3. Grows /\ SlotsOk' /\ Tickets!ConfirmedPaid' /\ IdsFresh' /\ OperationsOk'
  BY <1>1, <1>2, RowsOnly
<1>4. /\ call[c] \in TicketCall /\ TicketCallOk(call[c]) /\ x \in Tickets!Slot
      /\ Tickets!Kept(x) \in CoordinationRecord
      /\ Tickets!Kept(x) = record[x] \/ Tickets!Kept(x).state = "none"
  BY <1>1, CallSlot, KeptRecord DEF TicketInv, TicketTypes
<1>5. r \in CoordinationRecord
  BY <1>4, TicketConstants DEF TicketInv, TicketTypes, TicketCall, CoordinationRecord, Tickets!Later, Results
<1>6. RecordsOk' /\ record' \in [Tickets!Slot -> CoordinationRecord]
  <2>1. CASE Tickets!BeginReply(c) # "acquired"
    <3>1. Tickets!Kept(x).state = "completed" =>
            /\ Tickets!Kept(x).id \in Ticket /\ operation'[Tickets!Kept(x).id].state = "completed"
            /\ operation'[Tickets!Kept(x).id].result = Tickets!Kept(x).ref
      BY <1>1, <1>4 DEF TicketInv, RecordsOk
    <3> HIDE DEF x
    <3> QED  BY <1>1, <1>3, <1>4, <2>1, <3>1, RecordWritten
  <2>2. CASE Tickets!BeginReply(c) = "acquired"
    <3>1. r.state # "completed"
      OBVIOUS
    <3> HIDE DEF x, r
    <3> QED  BY <1>1, <1>3, <1>4, <1>5, <2>2, <3>1, RecordWritten
  <2> QED  BY <2>1, <2>2
<1>7. Tickets!BeginReply(c) \in Results
  BY DEF Tickets!BeginReply, Results
<1>8. k \in TicketCall
  BY <1>4, <1>7 DEF TicketCall, TicketPc
<1>9. call'[c] = k
  BY <1>1 DEF Tickets!Goto, TicketInv, TicketTypes
<1>10. TicketCallOk(call[c])'
  BY <1>1, <1>4, <1>9 DEF TicketCallOk, TicketCall
<1>11. call' \in [Caller -> TicketCall] /\ \A d \in Caller : TicketCallOk(call[d])'
  <2> HIDE DEF k
  <2> QED  BY <1>1, <1>3, <1>8, <1>10, CallsKept
<1>12. AnswersOk'
  BY <1>1, <1>3, AnswersKept
<1>13. TicketTypes'
  BY <1>1, <1>6, <1>11 DEF TicketInv, TicketTypes
<1> QED  BY <1>2, <1>3, <1>6, <1>11, <1>12, <1>13 DEF TicketInv, RowsStep

LEMMA TicketBegun == ASSUME TicketInv, NEW c \in Caller, Tickets!Begun(c) PROVE TicketInv'
<1> USE TicketNumbers
<1> DEFINE id == call[c].id
           k == [call[c] EXCEPT !.version = operation[id].version + 1,
                   !.result = CASE operation[id].kind = "reserve" -> "held"
                                [] operation[id].kind = "release" -> "released"
                                [] OTHER -> "none",
                   !.pc = IF operation[id].kind = "confirm" THEN "lookup" ELSE "finalize"]
           claims == operation' = [operation EXCEPT ![id].version = @ + 1]
<1>1. /\ call[c].pc = "begun"
      /\ UNCHANGED <<hour, calls, sequence, seat, reservation, byKey, record, charges>>
      /\ \/ Tickets!Return(c, id, "error") /\ UNCHANGED operation
         \/ Tickets!Return(c, id, Tickets!readFinalOrPending(id)) /\ UNCHANGED operation
         \/ Tickets!Return(c, id, "pending") /\ UNCHANGED operation
         \/ /\ operation[id].state = "completed"
            /\ Tickets!Return(c, id, operation[id].result) /\ UNCHANGED operation
         \/ /\ operation[id].state # "completed"
            /\ claims /\ Tickets!Goto(c, k) /\ UNCHANGED told
  BY DEF Tickets!Begun
<1>2. /\ call[c] \in TicketCall /\ TicketCallOk(call[c]) /\ operation \in [Ticket -> Operation]
      /\ id \in Ticket /\ operation[id].state # "none" /\ operation[id] \in Operation
  BY <1>1 DEF TicketInv, TicketTypes, TicketCallOk
<1>3. RowsStep
  BY <1>1, RowsUnchanged
<1>4. CASE UNCHANGED operation /\ \E result : Tickets!Return(c, id, result) /\
             (result \in Final => operation[id].state = "completed" /\ operation[id].result = result)
  <2>1. Grows /\ SlotsOk' /\ Tickets!ConfirmedPaid' /\ IdsFresh' /\ OperationsOk'
    BY <1>1, <1>3, <1>4, RowsOnly
  <2>2. /\ call' \in [Caller -> TicketCall] /\ \A d \in Caller : TicketCallOk(call[d])'
        /\ told' \in [Ticket -> SUBSET Final] /\ AnswersOk'
    BY <1>2, <1>4, <2>1, ReturnKept
  <2>3. RecordsOk'
    BY <1>1, <2>1, RecordsKept
  <2>4. TicketTypes'
    BY <1>1, <1>4, <2>2 DEF TicketInv, TicketTypes
  <2> QED  BY <1>3, <2>1, <2>2, <2>3, <2>4 DEF TicketInv, RowsStep
<1>5. CASE operation[id].state # "completed" /\ claims /\ Tickets!Goto(c, k) /\ UNCHANGED told
  <2>1. /\ operation' \in [Ticket -> Operation]
        /\ \A i \in Ticket : /\ operation'[i].state = operation[i].state
                             /\ operation'[i].kind = operation[i].kind
                             /\ operation'[i].key = operation[i].key
                             /\ operation'[i].reservation = operation[i].reservation
                             /\ operation'[i].result = operation[i].result
    <3>1. operation'[id] = [operation[id] EXCEPT !.version = operation[id].version + 1]
      BY <1>2, <1>5
    <3>2. operation'[id] \in Operation
      BY <1>2, <3>1 DEF Operation
    <3>3. /\ operation'[id].state = operation[id].state /\ operation'[id].kind = operation[id].kind
          /\ operation'[id].key = operation[id].key /\ operation'[id].result = operation[id].result
          /\ operation'[id].reservation = operation[id].reservation
      BY <1>2, <3>1 DEF Operation
    <3>4. \A i \in Ticket : i # id => operation'[i] = operation[i]
      BY <1>2, <1>5
    <3>5. operation' \in [Ticket -> Operation]
      BY <1>2, <1>5, <3>2, <3>4
    <3> QED  BY <3>3, <3>4, <3>5
  <2>2. Grows
    BY <1>1, <2>1 DEF Grows
  <2>3. AnswersOk' /\ RecordsOk'
    BY <1>1, <1>5, <2>2, AnswersKept, RecordsKept
  <2>4. SlotsOk'
    BY <1>1, <2>1, TicketNumbers DEF TicketInv, TicketTypes, SlotsOk
  <2>5. IdsFresh' /\ OperationsOk'
    BY <1>1, <2>1, SMTT(60) DEF TicketInv, TicketTypes, IdsFresh, OperationsOk
  <2>6. Tickets!ConfirmedPaid'
    BY <1>1, <2>1 DEF TicketInv, Tickets!ConfirmedPaid
  <2>13. operation[id].version + 1 \in Nat
    BY <1>2, SMTT(60) DEF Operation
  <2>7. k \in TicketCall
    BY <1>2, <2>13 DEF TicketCall, TicketPc, Results, Final
  <2>8. call'[c] = k
    BY <1>5 DEF Tickets!Goto, TicketInv, TicketTypes
  <2>9. operation[id].kind \in {"reserve", "confirm", "release"}
    BY <1>2 DEF Operation, TicketInv, OperationsOk
  <2>10. TicketCallOk(call[c])'
    <3>1. /\ call'[c].id = id /\ call'[c].request = call[c].request
          /\ call'[c].pc = IF operation[id].kind = "confirm" THEN "lookup" ELSE "finalize"
          /\ operation[id].kind = "reserve" => call'[c].result = "held"
          /\ operation[id].kind = "release" => call'[c].result = "released"
      BY <1>2, <2>8 DEF TicketCall
    <3>2. call[c].request \in Requests
      BY <1>1, <1>2 DEF TicketCallOk
    <3> HIDE DEF k
    <3> QED  BY <1>2, <2>1, <2>9, <3>1, <3>2 DEF TicketCallOk, Final
  <2>11. call' \in [Caller -> TicketCall] /\ \A d \in Caller : TicketCallOk(call[d])'
    <3> HIDE DEF k
    <3> QED  BY <1>5, <2>2, <2>7, <2>10, CallsKept, SMTT(60)
  <2>12. TicketTypes'
    BY <1>1, <1>5, <2>1, <2>11 DEF TicketInv, TicketTypes
  <2> QED  BY <1>3, <2>3, <2>4, <2>5, <2>6, <2>11, <2>12 DEF TicketInv, RowsStep
<1>6. /\ "error" \notin Final /\ "pending" \notin Final
      /\ Tickets!readFinalOrPending(id) \in Final =>
           operation[id].state = "completed" /\ operation[id].result = Tickets!readFinalOrPending(id)
  BY DEF Final, Tickets!readFinalOrPending
<1> QED
  <2> HIDE DEF k, claims, id
  <2> QED  BY <1>1, <1>4, <1>5, <1>6

LEMMA TicketComplete ==
  ASSUME TicketInv, NEW c \in Caller, NEW executed \in BOOLEAN, Tickets!Complete(c, executed)
  PROVE  TicketInv'
<1> DEFINE x == Tickets!SlotOf(call[c].request)
           r == Tickets!Kept(x)
           done == [r EXCEPT !.state = "completed", !.ref = call[c].result, !.lease = 0,
                             !.retain = Tickets!Later(@, hour + RetentionMs)]
<1>1. /\ call[c].pc = "complete" /\ Tickets!Return(c, call[c].id, call[c].result)
      /\ \/ UNCHANGED record
         \/ r.id = call[c].id /\ record' = [record EXCEPT ![x] = done]
         \/ record' = [record EXCEPT ![x] = r]
      /\ UNCHANGED <<hour, calls, sequence, seat, reservation, operation, byKey, charges>>
  BY DEF Tickets!Complete, Tickets!CompletedBy, Tickets!db
<1>2. RowsStep
  BY <1>1, RowsUnchanged
<1>3. Grows /\ SlotsOk' /\ Tickets!ConfirmedPaid' /\ IdsFresh' /\ OperationsOk'
  BY <1>1, <1>2, RowsOnly
<1>4. /\ call[c] \in TicketCall /\ x \in Tickets!Slot /\ r \in CoordinationRecord
      /\ r = record[x] \/ r.state = "none"
  BY <1>1, CallSlot, KeptRecord DEF TicketInv, TicketTypes
<1>5. /\ call[c].id \in Ticket /\ operation[call[c].id].state = "completed"
      /\ operation[call[c].id].result = call[c].result
  BY <1>1 DEF TicketInv, TicketCallOk
<1>6. /\ call' \in [Caller -> TicketCall] /\ \A d \in Caller : TicketCallOk(call[d])'
      /\ told' \in [Ticket -> SUBSET Final] /\ AnswersOk'
  BY <1>1, <1>3, <1>5, ReturnKept
<1>7. /\ done \in CoordinationRecord /\ done.id = r.id /\ done.ref = call[c].result
  <2>1. Tickets!Later(r.retain, hour + RetentionMs) \in Nat
    BY <1>4, TicketConstants DEF TicketInv, TicketTypes, CoordinationRecord, Tickets!Later
  <2> HIDE DEF r
  <2> QED  BY <1>4, <2>1 DEF CoordinationRecord, TicketCall
<1>8. r.state = "completed" =>
        /\ r.id \in Ticket /\ operation'[r.id].state = "completed" /\ operation'[r.id].result = r.ref
  BY <1>1, <1>4 DEF TicketInv, RecordsOk
<1>9. RecordsOk' /\ record' \in [Tickets!Slot -> CoordinationRecord]
  <2> HIDE DEF x, r, done
  <2> QED  BY <1>1, <1>3, <1>4, <1>5, <1>7, <1>8, RecordsKept, RecordWritten
<1>10. TicketTypes'
  BY <1>1, <1>6, <1>9 DEF TicketInv, TicketTypes
<1> QED  BY <1>2, <1>3, <1>6, <1>9, <1>10 DEF TicketInv, RowsStep

\* The seat is confirmed for the reservation that has it.
LEMMA RowsConfirm ==
  ASSUME TicketInv, NEW r \in Ticket, reservation[r].state = "held", seat.holder = r,
         reservation' = [reservation EXCEPT ![r].state = "confirmed"],
         seat' = [seat EXCEPT !.state = "confirmed", !.until = 0]
  PROVE  /\ seat' \in SeatRow /\ reservation' \in [Ticket -> ReservationRow]
         /\ SeatOk' /\ Tickets!OneHolder'
         /\ \A i \in Ticket : reservation[i].state = "none" <=> reservation'[i].state = "none"
         /\ \A i \in Ticket : i # r => reservation'[i] = reservation[i]
<1> USE TicketNumbers
<1>1. seat \in SeatRow /\ reservation \in [Ticket -> ReservationRow] /\ SeatOk /\ Tickets!OneHolder
  BY DEF TicketInv, TicketTypes
<1>2. /\ seat' \in SeatRow /\ seat'.state = "confirmed" /\ seat'.holder = r
  BY <1>1 DEF SeatRow
<1>3. reservation'[r] \in ReservationRow /\ reservation'[r].state = "confirmed"
  BY <1>1 DEF ReservationRow
<1>4. \A i \in Ticket : i # r => reservation'[i] = reservation[i]
  BY <1>1
<1>5. reservation' \in [Ticket -> ReservationRow]
  BY <1>1, <1>3, <1>4
<1>6. SeatOk'
  BY <1>2 DEF SeatOk, Tickets!NoSeat
<1>7. Tickets!OneHolder'
  BY <1>1, <1>2, <1>3, <1>4 DEF Tickets!OneHolder
<1> QED  BY <1>2, <1>3, <1>4, <1>5, <1>6, <1>7

LEMMA TicketFinalize == ASSUME TicketInv, NEW c \in Caller, Tickets!Finalize(c) PROVE TicketInv'
<1> USE TicketNumbers
<1> DEFINE id == call[c].id
           o == operation[id]
           r == o.reservation
           result == Tickets!ResultOf(c)
           k == [call[c] EXCEPT !.pc = "complete", !.result = result]
<1>1. /\ call[c].pc = "finalize"
      /\ UNCHANGED <<hour, calls, sequence, byKey, record, charges>>
      /\ IF Tickets!Latest(c)
         THEN /\ operation' = [operation EXCEPT ![id] = Tickets!Final(o, result)]
              /\ Tickets!Rows(o, r, result) /\ Tickets!Goto(c, k) /\ UNCHANGED told
         ELSE Tickets!Return(c, id, "pending") /\ UNCHANGED <<operation, seat, reservation>>
  BY DEF Tickets!Finalize
<1>2. /\ call[c] \in TicketCall /\ TicketCallOk(call[c]) /\ operation \in [Ticket -> Operation]
      /\ id \in Ticket /\ o.state # "none" /\ o \in Operation /\ call[c].result \in Final
      /\ o.kind = "confirm" /\ call[c].result = "confirmed" => charges[id] = 1
  BY <1>1 DEF TicketInv, TicketTypes, TicketCallOk
<1>3. CASE ~Tickets!Latest(c)
  <2>1. UNCHANGED <<operation, seat, reservation>> /\ Tickets!Return(c, id, "pending") /\ "pending" \notin Final
    BY <1>1, <1>3 DEF Final
  <2>2. RowsStep
    BY <2>1, RowsUnchanged
  <2>3. Grows /\ SlotsOk' /\ Tickets!ConfirmedPaid' /\ IdsFresh' /\ OperationsOk'
    BY <1>1, <2>1, <2>2, RowsOnly
  <2>4. /\ call' \in [Caller -> TicketCall] /\ \A d \in Caller : TicketCallOk(call[d])'
        /\ told' \in [Ticket -> SUBSET Final] /\ AnswersOk'
    BY <2>1, <2>3, ReturnKept
  <2>5. RecordsOk'
    BY <1>1, <2>3, RecordsKept
  <2>6. TicketTypes'
    BY <1>1, <2>1, <2>4 DEF TicketInv, TicketTypes
  <2> QED  BY <2>2, <2>3, <2>4, <2>5, <2>6 DEF TicketInv, RowsStep
<1>4. CASE Tickets!Latest(c)
  <2>1. /\ operation' = [operation EXCEPT ![id] = Tickets!Final(o, result)]
        /\ Tickets!Rows(o, r, result) /\ Tickets!Goto(c, k) /\ UNCHANGED told
    BY <1>1, <1>4
  <2>2. o.state = "pending" /\ r \in Ticket /\ reservation[r].state # "none"
    BY <1>2, <1>4 DEF Tickets!Latest, TicketInv, OperationsOk
  <2>3. /\ result \in Final
        /\ result = "confirmed" => call[c].result = "confirmed"
    BY <1>2 DEF Tickets!ResultOf, Final
  <2>4. /\ Tickets!Final(o, result) \in Operation
        /\ Tickets!Final(o, result).state = "completed" /\ Tickets!Final(o, result).result = result
        /\ Tickets!Final(o, result).kind = o.kind /\ Tickets!Final(o, result).key = o.key
        /\ Tickets!Final(o, result).reservation = r
    <3> HIDE DEF o, result
    <3> QED  BY <1>2, <2>3 DEF Tickets!Final, Operation, Results, r
  <2> HIDE DEF result, k, o, r
  <2>5. /\ operation' \in [Ticket -> Operation] /\ operation'[id] = Tickets!Final(o, result)
        /\ \A i \in Ticket : i # id => operation'[i] = operation[i]
    BY <1>2, <2>1, <2>4
  <2>6. Grows
    BY <1>1, <1>2, <2>2, <2>4, <2>5 DEF Grows, o, r
  <2>7. AnswersOk' /\ RecordsOk'
    BY <1>1, <2>1, <2>6, AnswersKept, RecordsKept
  <2>8. SlotsOk'
    BY <1>1, <2>4, <2>5 DEF TicketInv, TicketTypes, SlotsOk
  <2>9. /\ seat' \in SeatRow /\ reservation' \in [Ticket -> ReservationRow]
        /\ SeatOk' /\ Tickets!OneHolder'
        /\ \A i \in Ticket : reservation[i].state = "none" <=> reservation'[i].state = "none"
        /\ \A i \in Ticket : reservation'[i].state = "confirmed" =>
             reservation[i].state = "confirmed" \/ (i = r /\ o.kind = "confirm" /\ result = "confirmed")
    <3>1. CASE UNCHANGED <<seat, reservation>>
      BY <3>1, RowsUnchanged DEF RowsStep
    <3>2. CASE Tickets!releaseReservation(r)
      BY <2>2, <3>2, RowsRelease DEF RowsStep
    <3>3. CASE /\ reservation[r].state = "held" /\ seat.holder = r /\ o.kind = "confirm" /\ result = "confirmed"
               /\ reservation' = [reservation EXCEPT ![r].state = "confirmed"]
               /\ seat' = [seat EXCEPT !.state = "confirmed", !.until = 0]
      BY <2>2, <3>3, RowsConfirm
    <3> QED  BY <2>1, <3>1, <3>2, <3>3 DEF Tickets!Rows, Tickets!Mine
  <2>10. IdsFresh'
    BY <1>1, <1>2, <2>5, <2>9 DEF TicketInv, TicketTypes, IdsFresh, o
  <2>11. OperationsOk'
    <3>1. ASSUME NEW i \in Ticket, i # id
          PROVE  /\ operation'[i] = operation[i]
                 /\ operation[i].state = "pending" => reservation'[operation[i].reservation].state # "none"
      BY <2>5, <2>9, <3>1 DEF TicketInv, OperationsOk
    <3>2. /\ operation'[id].state = "completed" /\ operation'[id].result \in Final
          /\ operation'[id].kind = operation[id].kind /\ operation'[id].key = operation[id].key
      <4>1. operation[id] = o
        BY DEF o
      <4> QED  BY <2>3, <2>4, <2>5, <4>1
    <3>3. operation[id].kind # "none"
      BY <1>2, <2>2 DEF TicketInv, OperationsOk, o
    <3> QED  BY <1>1, <1>2, <3>1, <3>2, <3>3 DEF TicketInv, OperationsOk
  <2>12. Tickets!ConfirmedPaid'
    <3> SUFFICES ASSUME NEW i \in Ticket, reservation'[i].state = "confirmed"
                 PROVE  \E j \in Ticket : /\ operation'[j].kind = "confirm" /\ operation'[j].reservation = i
                                          /\ charges'[j] = 1
      BY DEF Tickets!ConfirmedPaid
    <3>1. CASE reservation[i].state = "confirmed"
      <4>1. PICK j \in Ticket : operation[j].kind = "confirm" /\ operation[j].reservation = i /\ charges[j] = 1
        BY <3>1 DEF TicketInv, Tickets!ConfirmedPaid
      <4> QED  BY <1>1, <4>1, <2>4, <2>5 DEF o, r
    <3>2. CASE i = r /\ o.kind = "confirm" /\ result = "confirmed"
      BY <1>1, <1>2, <2>3, <2>4, <2>5, <3>2
    <3> QED  BY <2>9, <3>1, <3>2
  <2>13. k \in TicketCall
    BY <1>2, <2>3 DEF TicketCall, TicketPc, Results, k
  <2>14. call'[c] = k
    BY <2>1 DEF Tickets!Goto, TicketInv, TicketTypes
  <2>15. TicketCallOk(call[c])'
    <3>1. /\ call'[c].id = id /\ call'[c].request = call[c].request /\ call'[c].pc = "complete"
          /\ call'[c].result = result
      BY <1>2, <2>14 DEF TicketCall, k
    <3>2. call[c].request \in Requests
      BY <1>1, <1>2 DEF TicketCallOk
    <3> QED  BY <1>2, <2>4, <2>5, <3>1, <3>2 DEF TicketCallOk
  <2>16. call' \in [Caller -> TicketCall] /\ \A d \in Caller : TicketCallOk(call[d])'
    BY <2>1, <2>6, <2>13, <2>15, CallsKept
  <2>17. TicketTypes'
    BY <1>1, <2>1, <2>5, <2>9, <2>16 DEF TicketInv, TicketTypes
  <2> QED  BY <2>7, <2>8, <2>9, <2>10, <2>11, <2>12, <2>16, <2>17 DEF TicketInv
<1> QED  BY <1>3, <1>4

\* A new operation gets the next id.
LEMMA NextTicket ==
  ASSUME TicketInv, sequence + 1 \in Ticket
  PROVE  /\ sequence + 1 \in 0..MaxOperations /\ sequence + 1 > sequence
         /\ reservation[sequence + 1].state = "none" /\ operation[sequence + 1].state = "none"
         /\ operation[sequence + 1].kind = "none" /\ charges[sequence + 1] = 0
         /\ \A i \in Ticket : operation[i].state # "none" => i # sequence + 1
         /\ \A i \in Ticket : i > sequence + 1 => i > sequence
         /\ seat.holder # sequence + 1
<1> USE TicketNumbers
<1>1. sequence \in 0..MaxOperations
  BY DEF TicketInv, TicketTypes
<1>2. sequence + 1 \in 0..MaxOperations /\ sequence + 1 > sequence
  BY <1>1
<1>3. /\ reservation[sequence + 1].state = "none" /\ operation[sequence + 1].state = "none"
      /\ operation[sequence + 1].kind = "none" /\ charges[sequence + 1] = 0
  BY <1>2 DEF TicketInv, IdsFresh
<1>4. \A i \in Ticket : operation[i].state # "none" => i # sequence + 1
  BY <1>3
<1>5. \A i \in Ticket : i > sequence + 1 => i > sequence
  BY <1>1
<1>6. seat.holder # sequence + 1
  BY <1>1, <1>3 DEF TicketInv, TicketTypes, SeatOk, SeatRow, Tickets!OneHolder
<1> QED  BY <1>2, <1>3, <1>4, <1>5, <1>6

\* An operation is saved under the next id.  The key of a confirm had none before.
LEMMA SavesOperation ==
  ASSUME TicketInv, NEW q \in Requests, NEW o \in Operation, sequence + 1 \in Ticket,
         Tickets!saveOperation(q, o), UNCHANGED charges,
         o.kind = q.kind, o.key = q.key, o.state \in {"pending", "completed"},
         o.state = "completed" => o.result \in Final,
         q.kind = "confirm" => byKey[Tickets!SlotOf(q)] = 0,
         o.state = "pending" => o.reservation \in Ticket /\ reservation'[o.reservation].state # "none",
         \A i \in Ticket : reservation[i].state # "none" => reservation'[i].state # "none",
         \A i \in Ticket : i > sequence + 1 => reservation'[i].state = "none",
         \A i \in Ticket : reservation'[i].state = "confirmed" => reservation[i].state = "confirmed"
  PROVE  /\ Grows /\ SlotsOk' /\ IdsFresh' /\ OperationsOk' /\ Tickets!ConfirmedPaid'
         /\ sequence' \in 0..MaxOperations /\ operation' \in [Ticket -> Operation]
         /\ byKey' \in [Tickets!Slot -> 0..MaxOperations] /\ operation'[sequence + 1] = o
<1> USE TicketNumbers
<1> DEFINE n == sequence + 1
           x == Tickets!SlotOf(q)
<1>1. /\ n \in 0..MaxOperations /\ n > sequence /\ operation[n].state = "none" /\ charges[n] = 0
      /\ operation[n].kind = "none" /\ \A i \in Ticket : operation[i].state # "none" => i # n
      /\ \A i \in Ticket : i > n => i > sequence
  BY NextTicket
<1>2. /\ sequence' = n /\ operation' = [operation EXCEPT ![n] = o] /\ byKey' = [byKey EXCEPT ![x] = n]
  BY DEF Tickets!saveOperation
<1>3. /\ operation \in [Ticket -> Operation] /\ byKey \in [Tickets!Slot -> 0..MaxOperations]
      /\ charges \in [Ticket -> {0, 1}] /\ x \in Tickets!Slot /\ x = <<o.kind, o.key>>
      /\ o.kind \in {"reserve", "confirm", "release"}
  BY TicketConstants DEF TicketInv, TicketTypes, Tickets!SlotOf
<1> HIDE DEF n, x
<1>4. n \in Ticket
  BY DEF n
<1>5. /\ operation' \in [Ticket -> Operation] /\ operation'[n] = o
      /\ \A i \in Ticket : i # n => operation'[i] = operation[i]
  BY <1>2, <1>3, <1>4
<1>6. /\ byKey' \in [Tickets!Slot -> 0..MaxOperations] /\ byKey'[x] = n
      /\ \A y \in Tickets!Slot : y # x => byKey'[y] = byKey[y]
  BY <1>1, <1>2, <1>3
<1>7. Grows
  BY <1>1, <1>5 DEF Grows
<1>8. SlotsOk'
  <2> SUFFICES ASSUME NEW y \in Tickets!Slot, byKey'[y] # 0 PROVE operation'[byKey'[y]].state # "none"
    BY DEF SlotsOk
  <2>1. CASE y = x
    BY <1>5, <1>6, <2>1
  <2>2. CASE y # x
    BY <1>1, <1>3, <1>5, <1>6, <2>2 DEF TicketInv, SlotsOk
  <2> QED  BY <2>1, <2>2
<1>9. IdsFresh'
  BY <1>1, <1>2, <1>5 DEF TicketInv, TicketTypes, IdsFresh, n
<1>10. OperationsOk'
  <2> SUFFICES ASSUME NEW i \in Ticket
               PROVE  /\ operation'[i].state = "none" <=> operation'[i].kind = "none"
                      /\ operation'[i].state = "pending" =>
                           /\ operation'[i].reservation \in Ticket
                           /\ reservation'[operation'[i].reservation].state # "none"
                      /\ operation'[i].kind = "confirm" =>
                           /\ <<"confirm", operation'[i].key>> \in Tickets!Slot
                           /\ byKey'[<<"confirm", operation'[i].key>>] = i
                      /\ charges'[i] = 1 => operation'[i].kind = "confirm"
                      /\ operation'[i].state = "completed" => operation'[i].result \in Final
    BY DEF OperationsOk
  <2>1. CASE i = n
    <3>1. operation'[i] = o /\ charges'[i] # 1
      BY <1>1, <1>5, <2>1
    <3>2. o.kind = "confirm" => <<"confirm", o.key>> = x
      BY <1>3
    <3>3. o.kind = "confirm" => <<"confirm", o.key>> \in Tickets!Slot /\ byKey'[<<"confirm", o.key>>] = i
      BY <1>3, <1>6, <2>1, <3>2
    <3>4. o.kind # "none" /\ o.state # "none"
      BY <1>3
    <3> QED  BY <3>1, <3>3, <3>4
  <2>2. CASE i # n
    <3>1. /\ operation'[i] = operation[i] /\ charges'[i] = charges[i]
          /\ operation[i].state = "none" <=> operation[i].kind = "none"
          /\ operation[i].state = "pending" =>
               operation[i].reservation \in Ticket /\ reservation'[operation[i].reservation].state # "none"
          /\ charges[i] = 1 => operation[i].kind = "confirm"
          /\ operation[i].state = "completed" => operation[i].result \in Final
      BY <1>5, <2>2 DEF TicketInv, OperationsOk
    <3>2. ASSUME operation[i].kind = "confirm"
          PROVE  /\ <<"confirm", operation[i].key>> \in Tickets!Slot
                 /\ byKey'[<<"confirm", operation[i].key>>] = i
      <4>1. <<"confirm", operation[i].key>> \in Tickets!Slot /\ byKey[<<"confirm", operation[i].key>>] = i
        BY <3>2 DEF TicketInv, OperationsOk
      <4>2. CASE <<"confirm", operation[i].key>> = x
        <5>1. q.kind = "confirm"
          BY <1>3, <4>2
        <5> QED  BY <4>1, <4>2, <5>1 DEF x
      <4>3. CASE <<"confirm", operation[i].key>> # x
        BY <1>6, <4>1, <4>3
      <4> QED  BY <4>2, <4>3
    <3> QED  BY <3>1, <3>2
  <2> QED  BY <2>1, <2>2
<1>11. Tickets!ConfirmedPaid'
  <2> SUFFICES ASSUME NEW i \in Ticket, reservation'[i].state = "confirmed"
               PROVE  \E j \in Ticket : /\ operation'[j].kind = "confirm" /\ operation'[j].reservation = i
                                        /\ charges'[j] = 1
    BY DEF Tickets!ConfirmedPaid
  <2>1. PICK j \in Ticket : operation[j].kind = "confirm" /\ operation[j].reservation = i /\ charges[j] = 1
    BY DEF TicketInv, Tickets!ConfirmedPaid
  <2> QED  BY <1>1, <1>5, <2>1
<1> QED  BY <1>1, <1>2, <1>5, <1>6, <1>7, <1>8, <1>9, <1>10, <1>11 DEF n

\* The operation that a request makes.
LEMMA NewOperationOk ==
  ASSUME NEW q \in Requests, NEW r \in 0..MaxOperations
  PROVE  /\ Tickets!NewOperation(q, r) \in Operation
         /\ Tickets!Final(Tickets!NewOperation(q, r), "declined") \in Operation
         /\ Tickets!NewOperation(q, r).kind = q.kind /\ Tickets!NewOperation(q, r).key = q.key
         /\ Tickets!NewOperation(q, r).state = "pending" /\ Tickets!NewOperation(q, r).reservation = r
         /\ Tickets!Final(Tickets!NewOperation(q, r), "declined").kind = q.kind
         /\ Tickets!Final(Tickets!NewOperation(q, r), "declined").key = q.key
         /\ Tickets!Final(Tickets!NewOperation(q, r), "declined").state = "completed"
         /\ Tickets!Final(Tickets!NewOperation(q, r), "declined").result = "declined"
<1>1. q.kind \in {"reserve", "confirm", "release"} /\ q.key \in OperationKeys
  BY TicketConstants
<1>2. Tickets!Fingerprint(q) \in Fingerprints
  BY DEF Fingerprints
<1>3. "none" \in Results /\ "declined" \in Results
  BY DEF Results, Final
<1> QED  BY <1>1, <1>2, <1>3 DEF Tickets!NewOperation, Tickets!Final, Operation

\* The claim of a free seat by the next id.
LEMMA RowsClaim ==
  ASSUME TicketInv, sequence + 1 \in Ticket, NEW b \in Buyers, NEW u \in Nat, seat.state = "available",
         reservation' = [reservation EXCEPT ![sequence + 1] = [buyer |-> b, state |-> "held", until |-> u]],
         seat' = [state |-> "held", holder |-> sequence + 1, until |-> u]
  PROVE  /\ seat' \in SeatRow /\ reservation' \in [Ticket -> ReservationRow]
         /\ SeatOk' /\ Tickets!OneHolder'
         /\ reservation'[sequence + 1].state = "held"
         /\ \A i \in Ticket : i # sequence + 1 => reservation'[i] = reservation[i]
<1> USE TicketNumbers
<1> DEFINE n == sequence + 1
<1>1. seat \in SeatRow /\ reservation \in [Ticket -> ReservationRow] /\ Tickets!OneHolder
  BY DEF TicketInv, TicketTypes
<1>2. n \in 0..MaxOperations
  BY NextTicket
<1> HIDE DEF n
<1>3. n \in Ticket /\ reservation' = [reservation EXCEPT ![n] = [buyer |-> b, state |-> "held", until |-> u]]
      /\ seat' = [state |-> "held", holder |-> n, until |-> u]
  BY DEF n
<1>4. seat' \in SeatRow /\ seat'.holder = n /\ seat'.state = "held"
  BY <1>2, <1>3 DEF SeatRow
<1>5. /\ reservation' \in [Ticket -> ReservationRow] /\ reservation'[n].state = "held"
      /\ \A i \in Ticket : i # n => reservation'[i] = reservation[i]
  BY <1>1, <1>3 DEF ReservationRow
<1>6. SeatOk'
  BY <1>3, <1>4 DEF SeatOk, Tickets!NoSeat
<1>7. Tickets!OneHolder'
  BY <1>1, <1>3, <1>4, <1>5 DEF Tickets!OneHolder
<1> QED  BY <1>4, <1>5, <1>6, <1>7 DEF n

\* The reservation that came too late is kept as released.
LEMMA RowsLate ==
  ASSUME TicketInv, sequence + 1 \in Ticket, NEW b \in Buyers, NEW u \in Nat,
         reservation' = [reservation EXCEPT ![sequence + 1] = [buyer |-> b, state |-> "released", until |-> u]],
         UNCHANGED seat
  PROVE  /\ reservation' \in [Ticket -> ReservationRow] /\ SeatOk' /\ Tickets!OneHolder'
         /\ reservation'[sequence + 1].state = "released"
         /\ \A i \in Ticket : i # sequence + 1 => reservation'[i] = reservation[i]
<1> USE TicketNumbers
<1> DEFINE n == sequence + 1
<1>1. /\ seat \in SeatRow /\ reservation \in [Ticket -> ReservationRow] /\ Tickets!OneHolder /\ SeatOk
  BY DEF TicketInv, TicketTypes
<1>2. seat.holder # n /\ n \in Ticket
  BY NextTicket
<1> HIDE DEF n
<1>3. reservation' = [reservation EXCEPT ![n] = [buyer |-> b, state |-> "released", until |-> u]]
  BY DEF n
<1>4. /\ reservation' \in [Ticket -> ReservationRow] /\ reservation'[n].state = "released"
      /\ \A i \in Ticket : i # n => reservation'[i] = reservation[i]
  BY <1>1, <1>2, <1>3 DEF ReservationRow
<1>5. SeatOk' /\ Tickets!OneHolder'
  BY <1>1, <1>2, <1>4 DEF SeatOk, Tickets!OneHolder, SeatRow, Tickets!NoSeat
<1> QED  BY <1>4, <1>5 DEF n

LEMMA TicketClaim == ASSUME TicketInv, NEW c \in Caller, Tickets!ClaimSeat(c) PROVE TicketInv'
<1> USE TicketNumbers
<1> DEFINE q == call[c].request
           n == sequence + 1
           u == call[c].at + HoldMs
           k == [call[c] EXCEPT !.pc = "begin", !.id = n, !.at = 0, !.result = "none"]
           late == Tickets!Final(Tickets!NewOperation(q, 0), "declined")
           new == Tickets!NewOperation(q, n)
<1>1. /\ call[c].pc = "claiming" /\ n \in Ticket
      /\ UNCHANGED <<hour, calls, record, charges>>
      /\ \/ /\ Tickets!saveOperation(q, late)
            /\ reservation' = [reservation EXCEPT ![n] = [buyer |-> q.buyer, state |-> "released", until |-> u]]
            /\ Tickets!Return(c, n, "declined") /\ UNCHANGED seat
         \/ /\ seat.state = "available" /\ Tickets!saveOperation(q, new)
            /\ reservation' = [reservation EXCEPT ![n] = [buyer |-> q.buyer, state |-> "held", until |-> u]]
            /\ seat' = [state |-> "held", holder |-> n, until |-> u]
            /\ Tickets!Goto(c, k) /\ UNCHANGED told
  BY DEF Tickets!ClaimSeat, Tickets!SeatIsFree
<1>2. /\ call[c] \in TicketCall /\ TicketCallOk(call[c]) /\ q \in Requests /\ q.kind = "reserve"
      /\ q.buyer \in Buyers /\ u \in Nat
  <2>1. call[c] \in TicketCall /\ TicketCallOk(call[c]) /\ q \in Requests /\ q.kind = "reserve"
    BY <1>1 DEF TicketInv, TicketTypes, TicketCallOk
  <2>2. q.buyer \in Buyers /\ HoldMs \in Nat
    BY <2>1, TicketConstants
  <2>3. call[c].at \in Nat
    BY <2>1 DEF TicketCall
  <2> QED  BY <2>1, <2>2, <2>3
<1>3. /\ n \in 0..MaxOperations /\ n > sequence /\ \A i \in Ticket : i > n => i > sequence
      /\ reservation[n].state = "none"
  BY <1>1, NextTicket
<1>4. late \in Operation /\ new \in Operation
  BY <1>2, <1>3, NewOperationOk
<1>5. CASE /\ Tickets!saveOperation(q, late)
           /\ reservation' = [reservation EXCEPT ![n] = [buyer |-> q.buyer, state |-> "released", until |-> u]]
           /\ Tickets!Return(c, n, "declined") /\ UNCHANGED seat
  <2>1. /\ reservation' \in [Ticket -> ReservationRow] /\ SeatOk' /\ Tickets!OneHolder'
        /\ reservation'[n].state = "released" /\ \A i \in Ticket : i # n => reservation'[i] = reservation[i]
    BY <1>1, <1>2, <1>5, RowsLate
  <2>2. /\ late.kind = q.kind /\ late.key = q.key /\ late.state = "completed" /\ late.result = "declined"
        /\ "declined" \in Final
    BY <1>2, NewOperationOk DEF Final
  <2>3. /\ \A i \in Ticket : reservation[i].state # "none" => reservation'[i].state # "none"
        /\ \A i \in Ticket : i > n => reservation'[i].state = "none"
        /\ \A i \in Ticket : reservation'[i].state = "confirmed" => reservation[i].state = "confirmed"
    BY <1>3, <2>1 DEF TicketInv, IdsFresh
  <2>4. /\ Grows /\ SlotsOk' /\ IdsFresh' /\ OperationsOk' /\ Tickets!ConfirmedPaid'
        /\ sequence' \in 0..MaxOperations /\ operation' \in [Ticket -> Operation]
        /\ byKey' \in [Tickets!Slot -> 0..MaxOperations] /\ operation'[n] = late
    <3> HIDE DEF late, q
    <3> QED  BY <1>1, <1>2, <1>4, <1>5, <2>2, <2>3, SavesOperation
  <2>5. /\ call' \in [Caller -> TicketCall] /\ \A d \in Caller : TicketCallOk(call[d])'
        /\ told' \in [Ticket -> SUBSET Final] /\ AnswersOk'
    <3> HIDE DEF late, n
    <3> QED  BY <1>1, <1>5, <2>2, <2>4, ReturnKept
  <2>6. RecordsOk'
    BY <1>1, <2>4, RecordsKept
  <2>7. TicketTypes'
    BY <1>1, <1>5, <2>1, <2>4, <2>5 DEF TicketInv, TicketTypes
  <2> QED  BY <2>1, <2>4, <2>5, <2>6, <2>7 DEF TicketInv
<1>6. CASE /\ seat.state = "available" /\ Tickets!saveOperation(q, new)
           /\ reservation' = [reservation EXCEPT ![n] = [buyer |-> q.buyer, state |-> "held", until |-> u]]
           /\ seat' = [state |-> "held", holder |-> n, until |-> u]
           /\ Tickets!Goto(c, k) /\ UNCHANGED told
  <2>1. /\ seat' \in SeatRow /\ reservation' \in [Ticket -> ReservationRow] /\ SeatOk' /\ Tickets!OneHolder'
        /\ reservation'[n].state = "held" /\ \A i \in Ticket : i # n => reservation'[i] = reservation[i]
    BY <1>1, <1>2, <1>6, RowsClaim
  <2>2. /\ new.kind = q.kind /\ new.key = q.key /\ new.state = "pending" /\ new.reservation = n
    BY <1>2, <1>3, NewOperationOk
  <2>3. /\ \A i \in Ticket : reservation[i].state # "none" => reservation'[i].state # "none"
        /\ \A i \in Ticket : i > n => reservation'[i].state = "none"
        /\ \A i \in Ticket : reservation'[i].state = "confirmed" => reservation[i].state = "confirmed"
    BY <1>3, <2>1 DEF TicketInv, IdsFresh
  <2>4. /\ Grows /\ SlotsOk' /\ IdsFresh' /\ OperationsOk' /\ Tickets!ConfirmedPaid'
        /\ sequence' \in 0..MaxOperations /\ operation' \in [Ticket -> Operation]
        /\ byKey' \in [Tickets!Slot -> 0..MaxOperations] /\ operation'[n] = new
    <3> HIDE DEF new, q
    <3> QED  BY <1>1, <1>2, <1>4, <1>6, <2>1, <2>2, <2>3, SavesOperation
  <2>5. k \in TicketCall
    BY <1>2, <1>3 DEF TicketCall, TicketPc, Results
  <2>6. call'[c] = k
    BY <1>6 DEF Tickets!Goto, TicketInv, TicketTypes
  <2>7. TicketCallOk(call[c])'
    <3>1. call'[c].id = n /\ call'[c].request = q /\ call'[c].pc = "begin"
      BY <1>2, <2>6 DEF TicketCall
    <3> HIDE DEF new, n, q, k
    <3> QED  BY <1>1, <1>2, <2>2, <2>4, <3>1 DEF TicketCallOk
  <2>8. call' \in [Caller -> TicketCall] /\ \A d \in Caller : TicketCallOk(call[d])'
    <3> HIDE DEF k
    <3> QED  BY <1>6, <2>4, <2>5, <2>7, CallsKept
  <2>9. RecordsOk' /\ AnswersOk' /\ told' \in [Ticket -> SUBSET Final]
    BY <1>1, <1>6, <2>4, RecordsKept, AnswersKept DEF TicketInv, TicketTypes
  <2>10. TicketTypes'
    BY <1>1, <1>6, <2>1, <2>4, <2>8, <2>9 DEF TicketInv, TicketTypes
  <2> QED  BY <2>1, <2>4, <2>8, <2>9, <2>10 DEF TicketInv
<1> QED  BY <1>1, <1>5, <1>6

\* A call begins: with an id, under a request.
LEMMA OpenedOk ==
  ASSUME TicketInv, NEW q \in Requests, NEW pc \in TicketPc, NEW id \in 0..MaxOperations
  PROVE  /\ Tickets!Opened(q, pc, id) \in TicketCall /\ Tickets!Opened(q, pc, id).pc = pc
         /\ Tickets!Opened(q, pc, id).request = q /\ Tickets!Opened(q, pc, id).id = id
<1>1. calls + 1 \in Nat /\ q \in AnyRequest /\ "none" \in Results
  BY DEF TicketInv, TicketTypes, AnyRequest, Results
<1> QED  BY <1>1 DEF Tickets!Opened, Tickets!Idle, TicketCall

LEMMA TicketRepeat ==
  ASSUME TicketInv, NEW c \in Caller, NEW q \in Requests, Tickets!Start(c, q), Tickets!Repeat(c, q)
  PROVE  TicketInv'
<1> USE TicketNumbers
<1> DEFINE id == byKey[Tickets!SlotOf(q)]
           k == Tickets!Opened(q, "begin", id)
<1>1. /\ id # 0 /\ UNCHANGED <<seat, reservation>> /\ calls' = calls + 1 /\ calls < MaxCalls
      /\ UNCHANGED <<sequence, operation, byKey, hour, record, charges>>
      /\ \/ Tickets!Return(c, id, "error")
         \/ operation[id].state = "completed" /\ Tickets!Return(c, id, operation[id].result)
         \/ operation[id].state = "pending" /\ Tickets!Goto(c, k) /\ UNCHANGED told
  BY DEF Tickets!Start, Tickets!Repeat, Tickets!db
<1>2. id \in Ticket /\ id \in 0..MaxOperations
  <2>1. Tickets!SlotOf(q) \in Tickets!Slot
    BY TicketConstants DEF Tickets!SlotOf
  <2> QED  BY <1>1, <2>1 DEF TicketInv, TicketTypes
<1>3. RowsStep
  BY <1>1, RowsUnchanged
<1>4. Grows /\ SlotsOk' /\ Tickets!ConfirmedPaid' /\ IdsFresh' /\ OperationsOk'
  BY <1>1, <1>3, RowsOnly
<1>5. RecordsOk' /\ calls' \in 0..MaxCalls
  BY <1>1, <1>4, RecordsKept, TicketConstants DEF TicketInv, TicketTypes
<1>6. /\ call' \in [Caller -> TicketCall] /\ \A d \in Caller : TicketCallOk(call[d])'
      /\ told' \in [Ticket -> SUBSET Final] /\ AnswersOk'
  <2>1. CASE Tickets!Return(c, id, "error")
    <3>1. "error" \notin Final
      BY DEF Final
    <3> HIDE DEF id
    <3> QED  BY <1>4, <2>1, <3>1, ReturnKept
  <2>2. CASE operation[id].state = "completed" /\ Tickets!Return(c, id, operation[id].result)
    <3> HIDE DEF id
    <3> QED  BY <1>1, <1>2, <1>4, <2>2, ReturnKept
  <2>3. CASE operation[id].state = "pending" /\ Tickets!Goto(c, k) /\ UNCHANGED told
    <3>1. k \in TicketCall /\ k.pc = "begin" /\ k.request = q /\ k.id = id
      BY <1>2, OpenedOk DEF TicketPc
    <3> HIDE DEF k, id
    <3>2. call'[c] = k
      BY <2>3 DEF Tickets!Goto, TicketInv, TicketTypes
    <3>3. TicketCallOk(call[c])'
      BY <1>1, <1>2, <2>3, <3>1, <3>2 DEF TicketCallOk
    <3> QED  BY <1>4, <2>3, <3>1, <3>3, CallsKept, AnswersKept DEF TicketInv, TicketTypes
  <2> QED  BY <1>1, <2>1, <2>2, <2>3
<1>7. TicketTypes'
  BY <1>1, <1>5, <1>6 DEF TicketInv, TicketTypes
<1> QED  BY <1>3, <1>4, <1>5, <1>6, <1>7 DEF TicketInv, RowsStep

LEMMA TicketReserve ==
  ASSUME TicketInv, NEW c \in Caller, NEW q \in Requests, Tickets!Reserve(c, q)
  PROVE  TicketInv'
<1> DEFINE k == [Tickets!Opened(q, "claiming", 0) EXCEPT !.at = hour, !.result = seat'.state]
<1>1. CASE Tickets!Repeat(c, q)
  BY <1>1, TicketRepeat DEF Tickets!Reserve
<1>2. CASE ~Tickets!Repeat(c, q)
  <2>1. /\ q.kind = "reserve" /\ Tickets!expireSeat(hour) /\ Tickets!Goto(c, k)
        /\ calls' = calls + 1 /\ calls < MaxCalls
        /\ UNCHANGED <<hour, sequence, operation, byKey, record, charges, told>>
    BY <1>2 DEF Tickets!Reserve, Tickets!Start
  <2>2. hour \in Nat /\ calls' \in 0..MaxCalls
    BY <2>1, TicketConstants DEF TicketInv, TicketTypes
  <2>3. RowsStep
    BY <2>1, <2>2, RowsExpire
  <2>4. Grows /\ SlotsOk' /\ Tickets!ConfirmedPaid' /\ IdsFresh' /\ OperationsOk'
    BY <2>1, <2>3, RowsOnly
  <2>5. RecordsOk' /\ AnswersOk'
    BY <2>1, <2>4, RecordsKept, AnswersKept
  <2>6. k \in TicketCall /\ k.pc = "claiming" /\ k.request = q
    <3>1. seat'.state \in Results
      BY <2>3 DEF RowsStep, SeatRow, Results, Final
    <3>2. /\ Tickets!Opened(q, "claiming", 0) \in TicketCall
          /\ Tickets!Opened(q, "claiming", 0).pc = "claiming"
          /\ Tickets!Opened(q, "claiming", 0).request = q
      BY OpenedOk, TicketConstants DEF TicketPc
    <3> QED  BY <2>2, <3>1, <3>2 DEF TicketCall
  <2> HIDE DEF k
  <2>7. call'[c] = k
    BY <2>1 DEF Tickets!Goto, TicketInv, TicketTypes
  <2>8. TicketCallOk(call[c])'
    BY <2>1, <2>6, <2>7 DEF TicketCallOk
  <2>9. call' \in [Caller -> TicketCall] /\ \A d \in Caller : TicketCallOk(call[d])'
    BY <2>1, <2>4, <2>6, <2>8, CallsKept
  <2>10. TicketTypes'
    BY <2>1, <2>2, <2>3, <2>9 DEF TicketInv, TicketTypes, RowsStep
  <2> QED  BY <2>3, <2>4, <2>5, <2>9, <2>10 DEF TicketInv, RowsStep
<1> QED  BY <1>1, <1>2

\* A new operation on a reservation, admitted or declined.
LEMMA TicketPrepare ==
  ASSUME TicketInv, NEW c \in Caller, NEW q \in Requests, NEW permitted \in BOOLEAN, Tickets!Start(c, q),
         Tickets!Prepare(c, q, permitted), RowsStep, byKey[Tickets!SlotOf(q)] = 0,
         permitted => q.reservation \in Ticket /\ reservation[q.reservation].state # "none"
  PROVE  TicketInv'
<1> USE TicketNumbers
<1> DEFINE n == sequence + 1
           k == Tickets!Opened(q, "begin", n)
           new == Tickets!NewOperation(q, q.reservation)
           late == Tickets!Final(new, "declined")
<1>1. /\ n \in Ticket /\ calls' = calls + 1 /\ calls < MaxCalls /\ UNCHANGED <<hour, record, charges>>
      /\ \/ permitted /\ Tickets!saveOperation(q, new) /\ Tickets!Goto(c, k) /\ UNCHANGED told
         \/ Tickets!saveOperation(q, late) /\ Tickets!Return(c, n, "declined")
  BY DEF Tickets!Start, Tickets!Prepare
<1>2. /\ n \in 0..MaxOperations /\ n > sequence /\ \A i \in Ticket : i > n => i > sequence
  BY <1>1, NextTicket
<1>3. /\ new \in Operation /\ new.kind = q.kind /\ new.key = q.key /\ new.state = "pending"
      /\ new.reservation = q.reservation
      /\ late \in Operation /\ late.kind = q.kind /\ late.key = q.key /\ late.state = "completed"
      /\ late.result = "declined" /\ "declined" \in Final
  <2>1. q.reservation \in 0..MaxOperations
    BY TicketConstants
  <2> QED  BY <2>1, NewOperationOk DEF Final
<1>4. /\ \A i \in Ticket : reservation[i].state # "none" => reservation'[i].state # "none"
      /\ \A i \in Ticket : i > n => reservation'[i].state = "none"
      /\ \A i \in Ticket : reservation'[i].state = "confirmed" => reservation[i].state = "confirmed"
  BY <1>2 DEF RowsStep, TicketInv, IdsFresh
<1>5. calls' \in 0..MaxCalls
  BY <1>1, TicketConstants DEF TicketInv, TicketTypes
<1>6. CASE permitted /\ Tickets!saveOperation(q, new) /\ Tickets!Goto(c, k) /\ UNCHANGED told
  <2>1. /\ Grows /\ SlotsOk' /\ IdsFresh' /\ OperationsOk' /\ Tickets!ConfirmedPaid'
        /\ sequence' \in 0..MaxOperations /\ operation' \in [Ticket -> Operation]
        /\ byKey' \in [Tickets!Slot -> 0..MaxOperations] /\ operation'[n] = new
    <3> HIDE DEF new, late
    <3> QED  BY <1>1, <1>3, <1>4, <1>6, SavesOperation
  <2>2. k \in TicketCall /\ k.pc = "begin" /\ k.request = q /\ k.id = n
    BY <1>2, OpenedOk DEF TicketPc
  <2> HIDE DEF k, n, new
  <2>3. call'[c] = k
    BY <1>6 DEF Tickets!Goto, TicketInv, TicketTypes
  <2>4. TicketCallOk(call[c])'
    BY <1>1, <1>3, <2>1, <2>2, <2>3 DEF TicketCallOk
  <2>5. call' \in [Caller -> TicketCall] /\ \A d \in Caller : TicketCallOk(call[d])'
    BY <1>6, <2>1, <2>2, <2>4, CallsKept
  <2>6. RecordsOk' /\ AnswersOk'
    BY <1>1, <1>6, <2>1, RecordsKept, AnswersKept
  <2>7. TicketTypes'
    BY <1>1, <1>5, <1>6, <2>1, <2>5 DEF TicketInv, TicketTypes, RowsStep
  <2> QED  BY <2>1, <2>5, <2>6, <2>7 DEF TicketInv, RowsStep
<1>7. CASE Tickets!saveOperation(q, late) /\ Tickets!Return(c, n, "declined")
  <2>1. /\ Grows /\ SlotsOk' /\ IdsFresh' /\ OperationsOk' /\ Tickets!ConfirmedPaid'
        /\ sequence' \in 0..MaxOperations /\ operation' \in [Ticket -> Operation]
        /\ byKey' \in [Tickets!Slot -> 0..MaxOperations] /\ operation'[n] = late
    <3> HIDE DEF new, late
    <3> QED  BY <1>1, <1>3, <1>4, <1>7, SavesOperation
  <2>2. /\ call' \in [Caller -> TicketCall] /\ \A d \in Caller : TicketCallOk(call[d])'
        /\ told' \in [Ticket -> SUBSET Final] /\ AnswersOk'
    <3> HIDE DEF late, n
    <3> QED  BY <1>1, <1>3, <1>7, <2>1, ReturnKept
  <2>3. RecordsOk'
    BY <1>1, <2>1, RecordsKept
  <2>4. TicketTypes'
    BY <1>1, <1>5, <2>1, <2>2 DEF TicketInv, TicketTypes, RowsStep
  <2> QED  BY <2>1, <2>2, <2>3, <2>4 DEF TicketInv, RowsStep
<1> QED  BY <1>1, <1>6, <1>7

LEMMA TicketConfirm ==
  ASSUME TicketInv, NEW c \in Caller, NEW q \in Requests, Tickets!Confirm(c, q)
  PROVE  TicketInv'
<1>1. CASE Tickets!Repeat(c, q)
  BY <1>1, TicketRepeat DEF Tickets!Confirm
<1>2. CASE ~Tickets!Repeat(c, q)
  <2>1. /\ Tickets!Start(c, q) /\ byKey[Tickets!SlotOf(q)] = 0
        /\ Tickets!Prepare(c, q, Tickets!Confirmable(q))
        /\ IF Tickets!Held(q) /\ ~Tickets!Confirmable(q) THEN Tickets!releaseReservation(q.reservation)
           ELSE UNCHANGED <<seat, reservation>>
    BY <1>2 DEF Tickets!Confirm
  <2>2. Tickets!Held(q) => q.reservation \in Ticket /\ reservation[q.reservation].state = "held"
    BY DEF Tickets!Held, Ticket
  <2>3. RowsStep
    BY <2>1, <2>2, RowsUnchanged, RowsRelease
  <2>4. Tickets!Confirmable(q) \in BOOLEAN /\ (Tickets!Confirmable(q) => Tickets!Held(q))
    BY DEF Tickets!Confirmable, Tickets!Held
  <2> QED  BY <2>1, <2>2, <2>3, <2>4, TicketPrepare
<1> QED  BY <1>1, <1>2

LEMMA TicketRelease ==
  ASSUME TicketInv, NEW c \in Caller, NEW q \in Requests, Tickets!Release(c, q)
  PROVE  TicketInv'
<1>1. CASE Tickets!Repeat(c, q)
  BY <1>1, TicketRepeat DEF Tickets!Release
<1>2. CASE ~Tickets!Repeat(c, q)
  <2>1. /\ Tickets!Start(c, q) /\ byKey[Tickets!SlotOf(q)] = 0 /\ Tickets!Prepare(c, q, Tickets!Held(q))
        /\ UNCHANGED <<seat, reservation>>
    BY <1>2 DEF Tickets!Release
  <2>2. /\ Tickets!Held(q) \in BOOLEAN
        /\ Tickets!Held(q) => q.reservation \in Ticket /\ reservation[q.reservation].state # "none"
    BY DEF Tickets!Held, Ticket
  <2> QED  BY <2>1, <2>2, RowsUnchanged, TicketPrepare
<1> QED  BY <1>1, <1>2

LEMMA TicketStep == ASSUME TicketInv, Tickets!Next PROVE TicketInv'
<1>1. CASE Tickets!Tick \/ Tickets!readSeat
  BY <1>1, TicketTick, TicketReadSeat
<1>2. ASSUME NEW c \in Caller, NEW q \in Requests,
             Tickets!Reserve(c, q) \/ Tickets!Confirm(c, q) \/ Tickets!Release(c, q)
      PROVE  TicketInv'
  BY <1>2, TicketReserve, TicketConfirm, TicketRelease
<1>3. ASSUME NEW c \in Caller,
             \/ Tickets!ClaimSeat(c) \/ Tickets!Begin(c) \/ Tickets!Begun(c) \/ Tickets!Lookup(c)
             \/ Tickets!Finalize(c) \/ Tickets!Dies(c)
      PROVE  TicketInv'
  BY <1>3, TicketClaim, TicketBegin, TicketBegun, TicketLookup, TicketFinalize, TicketDies
<1>4. ASSUME NEW c \in Caller, NEW outcome \in {"confirmed", "declined", "unknown"}, NEW paid \in BOOLEAN,
             Tickets!Execute(c, outcome, paid)
      PROVE  TicketInv'
  BY <1>4, TicketExecute
<1>5. ASSUME NEW c \in Caller, NEW executed \in BOOLEAN, Tickets!Complete(c, executed)
      PROVE  TicketInv'
  BY <1>5, TicketComplete
<1> QED  BY <1>1, <1>2, <1>3, <1>4, <1>5 DEF Tickets!Next

LEMMA TicketStutter == ASSUME TicketInv, UNCHANGED ticketVars PROVE TicketInv'
<1>1. /\ UNCHANGED <<seat, reservation>>
      /\ UNCHANGED <<hour, calls, sequence, operation, byKey, record, charges, call, told>>
  BY DEF ticketVars
<1>2. RowsStep
  BY <1>1, RowsUnchanged
<1>3. /\ Grows /\ SlotsOk' /\ Tickets!ConfirmedPaid' /\ IdsFresh' /\ OperationsOk'
  BY <1>1, <1>2, RowsOnly
<1>4. AnswersOk' /\ RecordsOk' /\ \A d \in Caller : TicketCallOk(call[d])'
  BY <1>1, <1>3, AnswersKept, RecordsKept, CallsUntouched
<1>5. TicketTypes'
  BY <1>1 DEF TicketInv, TicketTypes
<1> QED  BY <1>2, <1>3, <1>4, <1>5 DEF TicketInv, RowsStep

\* Once the seat is confirmed, only the reservation's own finalization touches it.
LEMMA SeatStays == ASSUME TicketInv, Tickets!Next PROVE Tickets!KeepsSeat
<1> USE TicketNumbers
<1> SUFFICES ASSUME seat.holder # 0, reservation[seat.holder].state = "confirmed",
                    ~\E c \in Caller : /\ call[c].pc = "finalize" /\ call'[c].pc = "complete"
                                       /\ operation[call[c].id].reservation = seat.holder
             PROVE  seat' = seat
  BY DEF Tickets!KeepsSeat
<1>1. seat.holder \in Ticket /\ seat.state = "confirmed" /\ seat \in SeatRow
  BY DEF TicketInv, TicketTypes, SeatRow, Tickets!OneHolder
<1>2. ASSUME NEW at, Tickets!expireSeat(at) PROVE seat' = seat
  BY <1>1, <1>2 DEF Tickets!expireSeat
<1>3. CASE Tickets!Tick \/ Tickets!readSeat
  BY <1>2, <1>3 DEF Tickets!Tick, Tickets!readSeat, Tickets!db
<1>4. ASSUME NEW c \in Caller, NEW q \in Requests,
             Tickets!Reserve(c, q) \/ Tickets!Confirm(c, q) \/ Tickets!Release(c, q)
      PROVE  seat' = seat
  <2>1. CASE Tickets!Reserve(c, q)
    BY <1>2, <2>1 DEF Tickets!Reserve, Tickets!Repeat, Tickets!db
  <2>2. CASE Tickets!Confirm(c, q)
    <3>1. Tickets!Held(q) => q.reservation # seat.holder
      BY <1>1 DEF Tickets!Held
    <3> QED  BY <2>2, <3>1 DEF Tickets!Confirm, Tickets!Repeat, Tickets!db, Tickets!releaseReservation
  <2>3. CASE Tickets!Release(c, q)
    BY <2>3 DEF Tickets!Release, Tickets!Repeat, Tickets!db
  <2> QED  BY <1>4, <2>1, <2>2, <2>3
<1>5. ASSUME NEW c \in Caller,
             \/ Tickets!ClaimSeat(c) \/ Tickets!Begin(c) \/ Tickets!Begun(c) \/ Tickets!Lookup(c)
             \/ Tickets!Dies(c)
      PROVE  seat' = seat
  BY <1>1, <1>5 DEF Tickets!ClaimSeat, Tickets!SeatIsFree, Tickets!Begin, Tickets!Begun, Tickets!Lookup,
    Tickets!Dies, Tickets!db
<1>6. ASSUME NEW c \in Caller, Tickets!Finalize(c) PROVE seat' = seat
  <2> DEFINE o == operation[call[c].id]
             k == [call[c] EXCEPT !.pc = "complete", !.result = Tickets!ResultOf(c)]
  <2>1. CASE ~Tickets!Latest(c)
    BY <1>6, <2>1 DEF Tickets!Finalize
  <2>2. CASE Tickets!Latest(c)
    <3>1. /\ call[c].pc = "finalize" /\ Tickets!Goto(c, k) /\ Tickets!Rows(o, o.reservation, Tickets!ResultOf(c))
      BY <1>6, <2>2 DEF Tickets!Finalize
    <3>2. call'[c].pc = "complete"
      BY <3>1 DEF Tickets!Goto, TicketInv, TicketTypes, TicketCall
    <3>3. o.reservation # seat.holder
      BY <3>1, <3>2
    <3> HIDE DEF o
    <3> QED  BY <3>1, <3>3 DEF Tickets!Rows, Tickets!Mine, Tickets!releaseReservation
  <2> QED  BY <2>1, <2>2
<1>7. ASSUME NEW c \in Caller, NEW outcome \in {"confirmed", "declined", "unknown"}, NEW paid \in BOOLEAN,
             Tickets!Execute(c, outcome, paid)
      PROVE  seat' = seat
  BY <1>7 DEF Tickets!Execute, Tickets!db
<1>8. ASSUME NEW c \in Caller, NEW executed \in BOOLEAN, Tickets!Complete(c, executed)
      PROVE  seat' = seat
  BY <1>8 DEF Tickets!Complete, Tickets!db
<1> QED  BY <1>3, <1>4, <1>5, <1>6, <1>7, <1>8 DEF Tickets!Next

\* The invariant says what the example promises.
LEMMA TicketPromises ==
  ASSUME TicketInv
  PROVE  /\ Tickets!TypeOK /\ Tickets!OneHolder /\ Tickets!ConfirmedPaid /\ Tickets!ChargedOnce
         /\ Tickets!AnswersAgree /\ Tickets!RedisFollows
<1> USE TicketNumbers
<1>1. Tickets!TypeOK
  BY DEF TicketInv, TicketTypes, SeatRow, ReservationRow, Operation, Tickets!TypeOK
<1>2. Tickets!ChargedOnce
  <2> SUFFICES ASSUME NEW x \in Tickets!Slot
               PROVE  Cardinality({i \in Tickets!Id : <<operation[i].kind, operation[i].key>> = x
                                                      /\ charges[i] > 0}) <= 1
    BY SameCardinality DEF Tickets!ChargedOnce
  <2> DEFINE S == {i \in Tickets!Id : <<operation[i].kind, operation[i].key>> = x /\ charges[i] > 0}
  <2>1. S \subseteq {byKey[x]}
    <3> SUFFICES ASSUME NEW i \in Ticket, <<operation[i].kind, operation[i].key>> = x, charges[i] > 0
                 PROVE  i = byKey[x]
      OBVIOUS
    <3>1. charges[i] = 1
      BY DEF TicketInv, TicketTypes
    <3>2. operation[i].kind = "confirm" /\ byKey[<<"confirm", operation[i].key>>] = i
      BY <3>1 DEF TicketInv, OperationsOk
    <3> QED  BY <3>2
  <2>2. IsFiniteSet({byKey[x]}) /\ Cardinality({byKey[x]}) = 1
    BY FS_Singleton
  <2>3. Cardinality(S) <= Cardinality({byKey[x]})
    BY <2>1, <2>2, FS_Subset
  <2> QED  BY <2>2, <2>3
<1>3. Tickets!AnswersAgree
  BY DEF TicketInv, AnswersOk, Tickets!AnswersAgree
<1>4. Tickets!RedisFollows
  BY DEF TicketInv, RecordsOk, Tickets!RedisFollows
<1> QED  BY <1>1, <1>2, <1>3, <1>4 DEF TicketInv

-----------------------------------------------------------------------------
(* The Worker cache: lemmas *)

LEMMA WorkerConstants ==
  ASSUME NEW s \in Setups
  PROVE  /\ s.publisher \in BOOLEAN /\ s.l1TtlMs \in Nat \ {0} /\ s.ttlMs \in Nat \ {0}
         /\ s.maxMutations \in Nat /\ s.maxTime \in Nat
         /\ None \notin Request /\ IsFiniteSet(Request)
         /\ Cardinality(Request) \in Nat /\ Worker(s)!Ids = 1..Cardinality(Request)
         /\ 0 \notin Worker(s)!Ids
<1>1. Worker(s)!WorkerAssumption
  BY StorageAssumption
<1>2. /\ s.publisher \in BOOLEAN /\ s.l1TtlMs \in Nat \ {0} /\ s.ttlMs \in Nat \ {0}
      /\ s.maxMutations \in Nat /\ s.maxTime \in Nat /\ None \notin Request
  BY <1>1 DEF Worker!WorkerAssumption
<1>3. IsFiniteSet(Request)
  BY <1>1, SameFinite DEF Worker!WorkerAssumption
<1>4. Cardinality(Request) \in Nat
  BY <1>3, FS_CardinalityType
<1>5. Worker(s)!Ids = 1..Cardinality(Request)
  BY SameCardinality DEF Worker!Ids
<1> QED  BY <1>2, <1>3, <1>4, <1>5

LEMMA IdleCall ==
  ASSUME NEW s \in Setups
  PROVE  Worker(s)!Idle \in WorkerCall(s)
BY DEF Worker!Idle, Worker!Nothing, Worker!Answer, WorkerCall, WorkerAnswer, WorkerPc

LEMMA WorkerStart == ASSUME NEW s \in Setups, Worker(s)!Init PROVE WorkerInv(s)
<1> USE WorkerConstants
<1>1. /\ time = 0 /\ l1 = None /\ stored = {} /\ closed = FALSE /\ mutations = 0
      /\ state = [i \in Worker(s)!Ids |-> [revision |-> 0, references |-> 0]] /\ current = 0
      /\ inflight = None /\ request = [r \in Request |-> Worker(s)!Idle]
  BY DEF Worker!Init
<1>2. WorkerTypes(s)
  <2>1. request \in [Request -> WorkerCall(s)]
    BY <1>1, IdleCall
  <2>2. state \in [Worker(s)!Ids -> [revision : Nat, references : Nat]]
    BY <1>1
  <2>3. time \in 0..s.maxTime /\ mutations \in 0..s.maxMutations
    BY <1>1
  <2>4. closed \in BOOLEAN /\ stored \subseteq Nat /\ l1 \in {None}
    BY <1>1
  <2> QED  BY <1>1, <2>1, <2>2, <2>3, <2>4 DEF WorkerTypes
<1>3. \A r \in Request : WorkerCallOk(request[r], mutations, time)
  BY <1>1 DEF WorkerCallOk, Worker!Idle, Worker!Nothing, Worker!Answer
<1>4. GuardsFresh(s) /\ L1Ok
  BY <1>1 DEF GuardsFresh, L1Ok
<1>5. LoadsOk
  BY <1>1 DEF LoadsOk, Running, Worker!Idle
<1>6. GuardCount(s)
  <2>1. ASSUME NEW i \in Worker(s)!Ids PROVE Guarding(i) = {}
    BY <1>1, <2>1 DEF Guarding, Worker!Idle
  <2> QED  BY <1>1, <2>1, FS_EmptySet DEF GuardCount
<1> QED  BY <1>2, <1>3, <1>4, <1>5, <1>6 DEF WorkerInv

LEMMA GuardingFinite ==
  ASSUME NEW s \in Setups, NEW i
  PROVE  /\ IsFiniteSet(Guarding(i)) /\ Cardinality(Guarding(i)) \in Nat
         /\ Cardinality(Guarding(i)) <= Cardinality(Request)
         /\ Cardinality(Guarding(i)) = 0 <=> Guarding(i) = {}
<1>1. Guarding(i) \subseteq Request
  BY DEF Guarding
<1>2. IsFiniteSet(Guarding(i)) /\ Cardinality(Guarding(i)) <= Cardinality(Request)
  BY <1>1, WorkerConstants, FS_Subset
<1> QED  BY <1>2, FS_CardinalityType, FS_EmptySet

\* What becomes of the guards in a step.
GuardStep(s) ==
  /\ state' \in [Worker(s)!Ids -> [revision : Nat, references : Nat]] /\ current' \in Worker(s)!Ids \cup {0}
  /\ GuardCount(s)' /\ GuardsFresh(s)'

\* A call that had no guard takes one.
LEMMA GuardTaken ==
  ASSUME NEW s \in Setups, WorkerInv(s), NEW r \in Request, request[r].id = 0, ~closed, UNCHANGED closed,
         NEW id \in Worker(s)!Ids, NEW mutate \in BOOLEAN, Worker(s)!Observe(id, mutate),
         NEW k, request' = [request EXCEPT ![r] = k], k.id = id, k.revision = state'[id].revision,
         k.seen = mutations', mutations' = IF mutate THEN mutations + 1 ELSE mutations
  PROVE  GuardStep(s)
<1> USE WorkerConstants
<1>1. /\ state \in [Worker(s)!Ids -> [revision : Nat, references : Nat]]
      /\ current \in Worker(s)!Ids \cup {0} /\ request \in [Request -> WorkerCall(s)] /\ mutations \in Nat
      /\ \A i \in Worker(s)!Ids : state[i].references = Cardinality(Guarding(i))
  BY DEF WorkerInv, WorkerTypes, GuardCount
<1>2. IF current # 0 THEN id = current ELSE state[id].references = 0
  BY DEF Worker!Observe
<1>3. current' = id
  BY DEF Worker!Observe
<1>4. PICK v \in Nat : /\ state' = [state EXCEPT ![id] = [revision |-> v, references |-> state[id].references + 1]]
                       /\ current # 0 => v = state[id].revision + IF mutate THEN 1 ELSE 0
  <2>1. CASE current # 0
    <3> DEFINE v == state[id].revision + IF mutate THEN 1 ELSE 0
    <3>1. state' = [state EXCEPT ![id] = [revision |-> v, references |-> state[id].references + 1]]
      BY <2>1 DEF Worker!Observe
    <3>2. v \in Nat
      BY <1>1
    <3> HIDE DEF v
    <3> QED  BY <3>1, <3>2 DEF v
  <2>2. CASE current = 0
    <3> DEFINE v == 0 + IF mutate THEN 1 ELSE 0
    <3>1. state' = [state EXCEPT ![id] = [revision |-> v, references |-> 0 + 1]]
      BY <2>2 DEF Worker!Observe
    <3>2. v \in Nat /\ state[id].references = 0
      BY <1>2, <2>2
    <3> HIDE DEF v
    <3> QED  BY <2>2, <3>1, <3>2
  <2> QED  BY <2>1, <2>2
<1>5. state' \in [Worker(s)!Ids -> [revision : Nat, references : Nat]]
  BY <1>1, <1>4
<1>6. ASSUME NEW q \in Request, q # r PROVE request'[q] = request[q]
  BY <1>1, <1>6
<1>7. request'[r] = k
  BY <1>1
<1>8. GuardCount(s)'
  <2>1. Guarding(id)' = Guarding(id) \cup {r} /\ r \notin Guarding(id)
    BY <1>6, <1>7 DEF Guarding
  <2>0. IsFiniteSet(Guarding(id))
    BY GuardingFinite
  <2>2. Cardinality(Guarding(id) \cup {r}) = Cardinality(Guarding(id)) + 1
    BY <2>0, <2>1, FS_AddElement
  <2>3. ASSUME NEW i \in Worker(s)!Ids, i # id PROVE Guarding(i)' = Guarding(i)
    BY <1>6, <1>7, <2>3 DEF Guarding
  <2>4. \A i \in Worker(s)!Ids : state'[i].references = Cardinality(Guarding(i)')
    BY <1>1, <1>4, <2>1, <2>2, <2>3
  <2> QED  BY <1>3, <2>1, <2>4 DEF GuardCount
<1>9. GuardsFresh(s)'
  <2> SUFFICES ASSUME NEW q \in Request, request'[q].id = id
               PROVE  /\ request'[q].revision <= state'[id].revision
                      /\ request'[q].revision = state'[id].revision => request'[q].seen = mutations'
    BY <1>3 DEF GuardsFresh
  <2>1. CASE q = r
    BY <1>4, <1>5, <1>7, <2>1
  <2>2. CASE q # r
    <3>1. request[q].id = id
      BY <1>6, <2>2
    <3>2. current = id
      <4>1. q \in Guarding(id)
        BY <3>1 DEF Guarding
      <4> QED  BY <1>1, <1>2, <4>1, GuardingFinite
    <3>3. /\ request[q].revision <= state[id].revision
          /\ request[q].revision = state[id].revision => request[q].seen = mutations
      BY <3>1, <3>2 DEF WorkerInv, GuardsFresh
    <3>4. state'[id].revision = state[id].revision + IF mutate THEN 1 ELSE 0
      BY <1>1, <1>4, <3>2
    <3>5. request[q].revision \in Nat /\ state[id].revision \in Nat
      BY <1>1 DEF WorkerCall
    <3> QED  BY <1>6, <2>2, <3>3, <3>4, <3>5
  <2> QED  BY <2>1, <2>2
<1> QED  BY <1>3, <1>5, <1>8, <1>9 DEF GuardStep

LEMMA GuardTakenToRead ==
  ASSUME NEW s \in Setups, WorkerInv(s), NEW r \in Request, request[r].id = 0, ~closed,
         UNCHANGED <<closed, mutations>>, NEW id \in Worker(s)!Ids, Worker(s)!Observe(id, FALSE),
         NEW k, request' = [request EXCEPT ![r] = k], k.id = id, k.revision = state'[id].revision,
         k.seen = mutations
  PROVE  GuardStep(s)
<1>1. k.seen = mutations' /\ mutations' = IF FALSE THEN mutations + 1 ELSE mutations
  OBVIOUS
<1> QED  BY <1>1, GuardTaken

\* A call gives its guard back; others that are answered with it had none.
LEMMA GuardReleased ==
  ASSUME NEW s \in Setups, WorkerInv(s), NEW r \in Request, request[r].id # 0, UNCHANGED <<closed, mutations>>,
         Worker(s)!releaseKey(request[r]), request'[r].id = 0,
         \A q \in Request \ {r} : request'[q] = request[q] \/ (request[q].id = 0 /\ request'[q].id = 0)
  PROVE  GuardStep(s)
<1> USE WorkerConstants
<1>0. PICK id \in Worker(s)!Ids : request[r].id = id
  BY DEF WorkerInv, WorkerTypes, WorkerCall
<1>1. /\ state \in [Worker(s)!Ids -> [revision : Nat, references : Nat]]
      /\ current \in Worker(s)!Ids \cup {0} /\ mutations \in Nat
      /\ \A i \in Worker(s)!Ids : state[i].references = Cardinality(Guarding(i))
  BY DEF WorkerInv, WorkerTypes, GuardCount, WorkerCall
<1>2. /\ state' = [state EXCEPT ![id].references = state[id].references - 1]
      /\ current' = IF state[id].references = 1 /\ current = id THEN 0 ELSE current
  BY <1>0, <1>1 DEF Worker!releaseKey
<1>3. r \in Guarding(id)
  BY <1>0 DEF Guarding
<1>4. state[id].references >= 1
  BY <1>1, <1>3, GuardingFinite
<1>5. state' \in [Worker(s)!Ids -> [revision : Nat, references : Nat]] /\ current' \in Worker(s)!Ids \cup {0}
  BY <1>1, <1>2, <1>4, SMTT(60)
<1>6. ASSUME NEW i \in Worker(s)!Ids, i # id PROVE Guarding(i)' = Guarding(i)
  BY <1>0, <1>6 DEF Guarding
<1>7. Guarding(id)' = Guarding(id) \ {r}
  BY <1>0 DEF Guarding
<1>8. IsFiniteSet(Guarding(id))
  BY GuardingFinite
<1>9. /\ IsFiniteSet(Guarding(id)') /\ Cardinality(Guarding(id)') = Cardinality(Guarding(id)) - 1
      /\ Cardinality(Guarding(id)') = 0 <=> Guarding(id)' = {}
  BY <1>3, <1>7, <1>8, FS_RemoveElement, FS_EmptySet
<1>10. GuardCount(s)'
  <2>1. \A i \in Worker(s)!Ids : state'[i].references = Cardinality(Guarding(i)')
    BY <1>1, <1>2, <1>6, <1>9
  <2>2. ASSUME NEW i \in Worker(s)!Ids, current' = i PROVE Guarding(i)' # {}
    <3>1. current = i
      BY <1>2, <2>2
    <3>2. Guarding(i) # {}
      BY <3>1 DEF WorkerInv, GuardCount
    <3>3. CASE i # id
      BY <1>6, <3>2, <3>3
    <3>4. CASE i = id
      <4>1. state[id].references # 1
        BY <1>2, <2>2, <3>1, <3>4
      <4>2. Guarding(id)' # {}
        BY <1>1, <1>9, <4>1
      <4> QED  BY <3>4, <4>2 DEF Guarding
    <3> QED  BY <3>3, <3>4
  <2>4. current' # 0 => Guarding(current)' # {}
    BY <1>5, <2>2 DEF Guarding
  <2>3. closed => current' = 0
    BY <1>2 DEF WorkerInv, GuardCount
  <2> QED  BY <2>1, <2>3, <2>4 DEF GuardCount
<1>11. \A i \in Worker(s)!Ids : state'[i].revision = state[i].revision
  BY <1>1, <1>2
<1>12. GuardsFresh(s)'
  <2> SUFFICES ASSUME NEW q \in Request, request'[q].id # 0, request'[q].id = current'
               PROVE  /\ request'[q].revision <= state'[current'].revision
                      /\ request'[q].revision = state'[current'].revision => request'[q].seen = mutations'
    BY DEF GuardsFresh
  <2>1. request'[q] = request[q] /\ current' = current
    BY <1>2
  <2> QED  BY <1>1, <1>11, <2>1 DEF WorkerInv, GuardsFresh
<1> QED  BY <1>5, <1>10, <1>12 DEF GuardStep

\* No guard is taken or given back.
LEMMA GuardsKept ==
  ASSUME NEW s \in Setups, WorkerInv(s), UNCHANGED <<closed, mutations, state, current>>,
         \A q \in Request : \/ request'[q].id = 0 /\ request[q].id = 0
                            \/ /\ request'[q].id = request[q].id /\ request'[q].seen = request[q].seen
                               /\ request'[q].revision = request[q].revision
  PROVE  GuardStep(s)
<1>1. \A i : Guarding(i)' = Guarding(i)
  BY DEF Guarding
<1>2. GuardCount(s)'
  BY <1>1 DEF WorkerInv, GuardCount
<1>3. GuardsFresh(s)'
  BY DEF WorkerInv, GuardsFresh
<1> QED  BY <1>2, <1>3 DEF GuardStep, WorkerInv, WorkerTypes

-----------------------------------------------------------------------------
(* The Worker cache: the calls *)

\* The calls are as before except one.
LEMMA OneCall ==
  ASSUME NEW s \in Setups, WorkerInv(s), NEW r \in Request, NEW k \in WorkerCall(s),
         request' = [request EXCEPT ![r] = k], mutations' \in Nat, mutations' >= mutations,
         time' \in Nat, time' >= time, WorkerCallOk(k, mutations', time')
  PROVE  /\ request' \in [Request -> WorkerCall(s)] /\ request'[r] = k
         /\ \A q \in Request : WorkerCallOk(request[q], mutations, time)'
         /\ \A q \in Request \ {r} : request'[q] = request[q]
<1>1. /\ request \in [Request -> WorkerCall(s)] /\ mutations \in Nat /\ time \in Nat
  BY WorkerConstants DEF WorkerInv, WorkerTypes
<1>2. /\ request' \in [Request -> WorkerCall(s)] /\ request'[r] = k
      /\ \A q \in Request \ {r} : request'[q] = request[q]
  BY <1>1
<1>3. ASSUME NEW q \in Request PROVE WorkerCallOk(request[q], mutations, time)'
  <2>1. CASE q = r
    BY <1>2, <2>1 DEF WorkerCallOk
  <2>2. CASE q # r
    <3>1. request'[q] = request[q] /\ request[q] \in WorkerCall(s) /\ WorkerCallOk(request[q], mutations, time)
      BY <1>1, <1>2, <2>2 DEF WorkerInv
    <3>2. request[q].since \in Nat /\ request[q].seen \in Nat /\ request[q].at \in Nat
      BY <3>1 DEF WorkerCall
    <3> QED  BY <1>1, <3>1, <3>2 DEF WorkerCallOk
  <2> QED  BY <2>1, <2>2
<1> QED  BY <1>2, <1>3

\* The same when no mutation is made and no time passes.
LEMMA OneCallNow ==
  ASSUME NEW s \in Setups, WorkerInv(s), NEW r \in Request, NEW k \in WorkerCall(s),
         request' = [request EXCEPT ![r] = k], mutations' = mutations, time' = time,
         WorkerCallOk(k, mutations, time)
  PROVE  /\ request' \in [Request -> WorkerCall(s)] /\ request'[r] = k
         /\ \A q \in Request : WorkerCallOk(request[q], mutations, time)'
         /\ \A q \in Request \ {r} : request'[q] = request[q]
<1>1. mutations' \in Nat /\ mutations' >= mutations /\ time' \in Nat /\ time' >= time
  BY WorkerConstants DEF WorkerInv, WorkerTypes
<1>2. WorkerCallOk(k, mutations', time')
  OBVIOUS
<1> QED  BY <1>1, <1>2, OneCall

\* Nothing happens to the loads or to who waits for them.
LEMMA LoadsKept ==
  ASSUME NEW s \in Setups, WorkerInv(s), UNCHANGED <<inflight, mutations, closed>>,
         \A q \in Request :
           /\ Running(request'[q]) <=> Running(request[q])
           /\ Running(request[q]) => request'[q].seen = request[q].seen
           /\ request'[q].pc = "joined" => /\ request[q].pc = "joined" /\ request'[q].leader = request[q].leader
                                           /\ request'[q].since = request[q].since
  PROVE  LoadsOk'
<1>0. inflight \in Request \cup {None} /\ None \notin Request
  BY WorkerConstants DEF WorkerInv, WorkerTypes
<1>1. inflight # None => ~closed /\ Running(request'[inflight]) /\ request'[inflight].seen = mutations
  BY <1>0 DEF WorkerInv, LoadsOk
<1>2. \A q \in Request : ~closed /\ Running(request'[q]) /\ request'[q].seen = mutations => inflight = q
  BY DEF WorkerInv, LoadsOk
<1>3. \A q \in Request : request'[q].pc = "joined" =>
         /\ request'[q].leader \in Request /\ Running(request'[request'[q].leader])
         /\ request'[request'[q].leader].seen >= request'[q].since
  BY DEF WorkerInv, LoadsOk
<1>4. \A q, r \in Request : q # r /\ Running(request'[q]) /\ Running(request'[r]) =>
         request'[q].seen # request'[r].seen
  BY DEF WorkerInv, LoadsOk
<1> QED  BY <1>1, <1>2, <1>3, <1>4 DEF LoadsOk, Running

LEMMA WorkerWhole ==
  ASSUME NEW s \in Setups, WorkerInv(s), time' \in 0..s.maxTime, mutations' \in 0..s.maxMutations,
         closed' \in BOOLEAN, stored' \subseteq Nat, l1' \in {None} \cup [seen : Nat, expires : Int, until : Int],
         inflight' \in Request \cup {None}, request' \in [Request -> WorkerCall(s)],
         \A q \in Request : WorkerCallOk(request[q], mutations, time)', GuardStep(s), LoadsOk', L1Ok'
  PROVE  WorkerInv(s)'
<1>1. WorkerTypes(s)'
  BY DEF WorkerTypes, GuardStep
<1> QED  BY <1>1 DEF WorkerInv, GuardStep

LEMMA WorkerNumbers ==
  ASSUME NEW s \in Setups, WorkerInv(s)
  PROVE  /\ time \in Nat /\ mutations \in Nat /\ s.maxTime \in Nat /\ s.maxMutations \in Nat
         /\ time <= s.maxTime /\ mutations <= s.maxMutations
         /\ s.ttlMs \in Nat /\ s.l1TtlMs \in Nat /\ closed \in BOOLEAN
         /\ time \in 0..s.maxTime /\ mutations \in 0..s.maxMutations
         /\ None \notin Request /\ inflight \in Request \cup {None}
         /\ stored \subseteq Nat /\ l1 \in {None} \cup [seen : Nat, expires : Int, until : Int]
         /\ request \in [Request -> WorkerCall(s)]
         /\ state \in [Worker(s)!Ids -> [revision : Nat, references : Nat]]
BY WorkerConstants DEF WorkerInv, WorkerTypes

LEMMA WorkerGet ==
  ASSUME NEW s \in Setups, WorkerInv(s), NEW r \in Request, NEW op \in {"get", "getOrSet"}, Worker(s)!Get(r, op)
  PROVE  WorkerInv(s)'
<1>0. /\ request[r].pc = "done" /\ ~closed /\ request[r].id = 0
      /\ UNCHANGED <<time, stored, inflight, mutations, closed>>
  BY DEF Worker!Get, WorkerInv, WorkerCallOk
<1>n. /\ time \in Nat /\ mutations \in Nat /\ time \in 0..s.maxTime /\ mutations \in 0..s.maxMutations
      /\ closed \in BOOLEAN /\ stored \subseteq Nat /\ inflight \in Request \cup {None}
      /\ l1 \in {None} \cup [seen : Nat, expires : Int, until : Int]
      /\ state \in [Worker(s)!Ids -> [revision : Nat, references : Nat]]
  BY WorkerNumbers
<1>1. CASE l1 # None /\ l1.expires > time
  <2> DEFINE k == [Worker(s)!Idle EXCEPT !.since = mutations, !.out = Worker(s)!Answer("l1", l1.seen)]
  <2>1. request' = [request EXCEPT ![r] = k] /\ UNCHANGED <<l1, state, current>>
    BY <1>1 DEF Worker!Get
  <2>2. l1.seen = mutations /\ l1.seen \in Nat
    BY <1>0, <1>1, <1>n DEF WorkerInv, L1Ok
  <2>3. /\ k.pc = "done" /\ k.op = "none" /\ k.id = 0 /\ k.since = mutations /\ k.seen = 0 /\ k.at = 0
        /\ k.out.seen = l1.seen
    BY DEF Worker!Idle, Worker!Answer
  <2>k. k \in WorkerCall(s)
    BY <1>n, <2>2, IdleCall, ZenonT(60) DEF WorkerCall, WorkerAnswer, Worker!Answer
  <2> HIDE DEF k
  <2>o. WorkerCallOk(k, mutations, time)
    BY <1>n, <2>2, <2>3 DEF WorkerCallOk
  <2>4. /\ request' \in [Request -> WorkerCall(s)] /\ request'[r] = k
        /\ \A q \in Request : WorkerCallOk(request[q], mutations, time)'
        /\ \A q \in Request \ {r} : request'[q] = request[q]
    BY <1>0, <2>1, <2>k, <2>o, OneCallNow
  <2>5. GuardStep(s)
    BY <1>0, <2>1, <2>3, <2>4, GuardsKept
  <2>6. LoadsOk'
    BY <1>0, <2>3, <2>4, LoadsKept DEF Running
  <2>7. L1Ok'
    BY <1>0, <2>1 DEF WorkerInv, L1Ok
  <2> QED  BY <1>0, <1>n, <2>1, <2>4, <2>5, <2>6, <2>7, WorkerWhole
<1>2. CASE ~(l1 # None /\ l1.expires > time)
  <2>1. PICK id \in Worker(s)!Ids :
          /\ Worker(s)!Observe(id, FALSE)
          /\ request' = [request EXCEPT ![r] =
                  [Worker(s)!Idle EXCEPT !.op = op, !.pc = "reading", !.id = id, !.revision = state'[id].revision,
                               !.since = mutations, !.seen = mutations, !.at = time]]
    BY <1>2 DEF Worker!Get
  <2>2. l1' = None
    BY <1>2 DEF Worker!Get
  <2> DEFINE k == [Worker(s)!Idle EXCEPT !.op = op, !.pc = "reading", !.id = id, !.revision = state'[id].revision,
                               !.since = mutations, !.seen = mutations, !.at = time]
  <2>a. Worker(s)!Observe(id, FALSE)
    BY <2>1
  <2>3. state'[id].revision \in Nat
    BY <1>n, <2>a, WorkerConstants DEF Worker!Observe
  <2>4. /\ k.id = id /\ k.revision = state'[id].revision /\ k.seen = mutations /\ k.since = mutations
        /\ k.op = op /\ k.pc = "reading" /\ id # 0 /\ k.at = time /\ k.out.from = "nothing"
    BY WorkerConstants DEF Worker!Idle, Worker!Nothing, Worker!Answer
  <2>5. k \in WorkerCall(s)
    BY <1>n, <2>3 DEF WorkerCall, WorkerAnswer, WorkerPc, Worker!Idle, Worker!Nothing, Worker!Answer
  <2>6. request' = [request EXCEPT ![r] = k]
    BY <2>1
  <2> HIDE DEF k
  <2>o. WorkerCallOk(k, mutations, time)
    BY <1>n, <2>4 DEF WorkerCallOk
  <2>7. /\ request' \in [Request -> WorkerCall(s)] /\ request'[r] = k
        /\ \A q \in Request : WorkerCallOk(request[q], mutations, time)'
        /\ \A q \in Request \ {r} : request'[q] = request[q]
    BY <1>0, <2>5, <2>6, <2>o, OneCallNow
  <2>8. GuardStep(s)
    BY <1>0, <2>4, <2>6, <2>a, GuardTakenToRead
  <2>9. LoadsOk'
    BY <1>0, <2>4, <2>7, LoadsKept DEF Running
  <2>10. L1Ok'
    BY <2>2 DEF L1Ok
  <2> QED  BY <1>0, <1>n, <2>2, <2>7, <2>8, <2>9, <2>10, WorkerWhole
<1> QED  BY <1>1, <1>2

\* A call that has ended, and one whose read has found nothing.
Finished(s, since, out) == [Worker(s)!Idle EXCEPT !.since = since, !.out = out]
Checked(s, since) == [Worker(s)!Idle EXCEPT !.op = "getOrSet", !.pc = "checked", !.since = since]

LEMMA FinishOk ==
  ASSUME NEW s \in Setups, NEW m \in Nat, NEW n \in Nat, NEW since \in Nat, since <= m,
         NEW out \in WorkerAnswer, out.from \in {"l1", "joined"} => out.seen >= since
  PROVE  /\ Finished(s, since, out) \in WorkerCall(s) /\ WorkerCallOk(Finished(s, since, out), m, n)
         /\ Finished(s, since, out).pc = "done" /\ Finished(s, since, out).op = "none"
         /\ Finished(s, since, out).id = 0 /\ ~Running(Finished(s, since, out))
<1> DEFINE k == Finished(s, since, out)
<1>1. k \in WorkerCall(s)
  BY IdleCall, ZenonT(60) DEF WorkerCall, WorkerAnswer, Finished
<1>2. /\ k.pc = "done" /\ k.op = "none" /\ k.id = 0 /\ k.since = since /\ k.out = out
      /\ k.seen = 0 /\ k.at = 0
  BY DEF Worker!Idle, Finished
<1> HIDE DEF k
<1>3. WorkerCallOk(k, m, n) /\ ~Running(k)
  BY <1>1, <1>2 DEF WorkerCallOk, Running
<1> QED  BY <1>1, <1>2, <1>3 DEF k

LEMMA CheckedOk ==
  ASSUME NEW s \in Setups, NEW m \in Nat, NEW n \in Nat, NEW since \in Nat, since <= m
  PROVE  /\ Checked(s, since) \in WorkerCall(s) /\ WorkerCallOk(Checked(s, since), m, n)
         /\ Checked(s, since).pc = "checked" /\ Checked(s, since).id = 0 /\ ~Running(Checked(s, since))
<1> DEFINE k == Checked(s, since)
<1>1. k \in WorkerCall(s)
  BY IdleCall, ZenonT(60) DEF WorkerCall, WorkerPc, Checked
<1>2. /\ k.pc = "checked" /\ k.op = "getOrSet" /\ k.id = 0 /\ k.since = since
      /\ k.seen = 0 /\ k.at = 0 /\ k.out.from = "nothing"
  BY DEF Worker!Idle, Worker!Nothing, Worker!Answer, Checked
<1> HIDE DEF k
<1>3. WorkerCallOk(k, m, n) /\ ~Running(k)
  BY <1>1, <1>2 DEF WorkerCallOk, Running
<1> QED  BY <1>1, <1>2, <1>3 DEF k

\* A call that does not load gives its guard back and goes on without.
LEMMA CallEnds ==
  ASSUME NEW s \in Setups, WorkerInv(s), NEW r \in Request, request[r].id # 0, ~Running(request[r]),
         NEW k \in WorkerCall(s), request' = [request EXCEPT ![r] = k], WorkerCallOk(k, mutations, time),
         k.id = 0, ~Running(k), k.pc # "joined", Worker(s)!releaseKey(request[r]),
         UNCHANGED <<time, stored, inflight, mutations, closed>>,
         l1' \in {None} \cup [seen : Nat, expires : Int, until : Int], L1Ok'
  PROVE  WorkerInv(s)'
<1>1. /\ request' \in [Request -> WorkerCall(s)] /\ request'[r] = k
      /\ \A q \in Request : WorkerCallOk(request[q], mutations, time)'
      /\ \A q \in Request \ {r} : request'[q] = request[q]
  BY OneCallNow
<1>2. GuardStep(s)
  BY <1>1, GuardReleased
<1>3. LoadsOk'
  BY <1>1, LoadsKept
<1> QED  BY <1>1, <1>2, <1>3, WorkerNumbers, WorkerWhole

\* A call goes on and keeps the guard that it has, or has none.
LEMMA CallMoves ==
  ASSUME NEW s \in Setups, WorkerInv(s), NEW r \in Request,
         NEW k \in WorkerCall(s), request' = [request EXCEPT ![r] = k], WorkerCallOk(k, mutations, time),
         k.id = request[r].id, k.id # 0 => k.seen = request[r].seen /\ k.revision = request[r].revision,
         Running(k) <=> Running(request[r]), Running(k) => k.seen = request[r].seen, k.pc # "joined",
         UNCHANGED <<time, stored, inflight, mutations, closed, state, current, l1>>
  PROVE  WorkerInv(s)'
<1>1. /\ request' \in [Request -> WorkerCall(s)] /\ request'[r] = k
      /\ \A q \in Request : WorkerCallOk(request[q], mutations, time)'
      /\ \A q \in Request \ {r} : request'[q] = request[q]
  BY OneCallNow
<1>2. GuardStep(s)
  BY <1>1, GuardsKept
<1>3. LoadsOk'
  BY <1>1, LoadsKept
<1>4. L1Ok'
  BY DEF WorkerInv, L1Ok
<1> QED  BY <1>1, <1>2, <1>3, <1>4, WorkerNumbers, WorkerWhole

LEMMA CallNumbers ==
  ASSUME NEW s \in Setups, WorkerInv(s), NEW r \in Request
  PROVE  /\ request[r] \in WorkerCall(s) /\ WorkerCallOk(request[r], mutations, time)
         /\ request[r].since \in Nat /\ request[r].seen \in Nat /\ request[r].at \in Nat
         /\ request[r].revision \in Nat
         /\ request[r].since <= mutations /\ request[r].seen <= mutations /\ request[r].at <= time
BY DEF WorkerInv, WorkerTypes, WorkerCall, WorkerCallOk

LEMMA ReadingCall ==
  ASSUME NEW s \in Setups, WorkerInv(s), NEW r \in Request, request[r].pc = "reading"
  PROVE  request[r].id # 0 /\ ~Running(request[r])
BY CallNumbers DEF WorkerCallOk, Running

LEMMA MissedEnds ==
  ASSUME NEW s \in Setups, WorkerInv(s), NEW r \in Request, request[r].pc = "reading", Worker(s)!Missed(r),
         Worker(s)!releaseKey(request[r]), UNCHANGED <<time, l1, stored, inflight, mutations, closed>>
  PROVE  WorkerInv(s)'
<1>0. request[r].id # 0 /\ ~Running(request[r])
  BY ReadingCall
<1>1. time \in Nat /\ mutations \in Nat /\ l1' \in {None} \cup [seen : Nat, expires : Int, until : Int]
  BY WorkerNumbers
<1>2. L1Ok'
  BY DEF WorkerInv, L1Ok
<1>3. request[r].since \in Nat /\ request[r].since <= mutations
  BY CallNumbers
<1>4. CASE request[r].op = "get"
  <2> DEFINE out == Worker(s)!Nothing
             k == Finished(s, request[r].since, out)
  <2>1. request' = [request EXCEPT ![r] = k]
    BY <1>4 DEF Worker!Missed, Worker!Finish, Finished
  <2>2. out \in WorkerAnswer /\ out.from = "nothing"
    BY DEF WorkerAnswer, Worker!Nothing, Worker!Answer
  <2> HIDE DEF out
  <2>3. k \in WorkerCall(s) /\ WorkerCallOk(k, mutations, time) /\ k.pc = "done" /\ k.id = 0 /\ ~Running(k)
    BY FinishOk, <1>1, <1>3, <2>2
  <2> QED  BY <1>0, <1>1, <1>2, <2>1, <2>3, CallEnds
<1>5. CASE request[r].op # "get"
  <2> DEFINE k == Checked(s, request[r].since)
  <2>1. request' = [request EXCEPT ![r] = k]
    BY <1>5 DEF Worker!Missed, Checked
  <2>3. k \in WorkerCall(s) /\ WorkerCallOk(k, mutations, time) /\ k.pc = "checked" /\ k.id = 0 /\ ~Running(k)
    BY CheckedOk, <1>1, <1>3
  <2> QED  BY <1>0, <1>1, <1>2, <2>1, <2>3, CallEnds
<1> QED  BY <1>4, <1>5

LEMMA WorkerReadFails ==
  ASSUME NEW s \in Setups, WorkerInv(s), NEW r \in Request, Worker(s)!ReadFails(r)
  PROVE  WorkerInv(s)'
<1>0. /\ request[r].pc = "reading" /\ Worker(s)!releaseKey(request[r])
      /\ UNCHANGED <<time, l1, stored, inflight, mutations, closed>>
  BY DEF Worker!ReadFails
<1>1. CASE request[r].op = "get"
  <2> DEFINE k == Finished(s, request[r].since, Worker(s)!Answer("error", 0))
  <2>1. request' = [request EXCEPT ![r] = k]
    BY <1>1 DEF Worker!ReadFails, Worker!Finish, Finished
  <2>2. Worker(s)!Answer("error", 0) \in WorkerAnswer /\ Worker(s)!Answer("error", 0).from = "error"
    BY DEF WorkerAnswer, Worker!Answer
  <2>3. time \in Nat /\ mutations \in Nat /\ l1' \in {None} \cup [seen : Nat, expires : Int, until : Int]
    BY <1>0, WorkerNumbers
  <2>4. k \in WorkerCall(s) /\ WorkerCallOk(k, mutations, time) /\ k.pc = "done" /\ k.id = 0 /\ ~Running(k)
    BY FinishOk, <2>2, <2>3, CallNumbers
  <2>5. L1Ok'
    BY <1>0 DEF WorkerInv, L1Ok
  <2> QED  BY <1>0, <2>1, <2>3, <2>4, <2>5, ReadingCall, CallEnds
<1>2. CASE request[r].op # "get"
  <2>1. Worker(s)!Missed(r)
    BY <1>2 DEF Worker!ReadFails
  <2> QED  BY <1>0, <2>1, MissedEnds
<1> QED  BY <1>1, <1>2

\* A guard that is current was taken after the latest mutation.
LEMMA CurrentSees ==
  ASSUME NEW s \in Setups, WorkerInv(s), NEW r \in Request, request[r].id # 0, Worker(s)!isCurrent(request[r])
  PROVE  ~closed /\ request[r].seen = mutations
BY DEF Worker!isCurrent, WorkerInv, GuardsFresh

\* What is written to L1 is fresh and ends with its record.
LEMMA Written ==
  ASSUME NEW s \in Setups, WorkerInv(s), NEW seen \in Nat, seen = mutations, NEW at \in Nat, at <= time,
         NEW ttl \in Int, NEW until \in Int, until = at + ttl \/ until = time + ttl,
         l1' = Worker(s)!Entry(seen, Worker(s)!Remaining(ttl, at), until), UNCHANGED <<mutations, closed>>
  PROVE  l1' \in [seen : Nat, expires : Int, until : Int] /\ L1Ok'
<1>1. time \in Nat /\ s.l1TtlMs \in Nat
  BY WorkerNumbers
<1>2. Worker(s)!Remaining(ttl, at) \in Int /\ Worker(s)!Remaining(ttl, at) <= ttl - (time - at)
  BY <1>1 DEF Worker!Remaining, Worker!Smaller
<1>3. l1' = [seen |-> seen, expires |-> time + Worker(s)!Remaining(ttl, at), until |-> until]
  BY DEF Worker!Entry
<1>4. l1'.expires <= l1'.until /\ l1'.seen = mutations
  BY <1>1, <1>2, <1>3
<1> QED  BY <1>1, <1>2, <1>3, <1>4 DEF L1Ok

LEMMA WorkerReadReturns ==
  ASSUME NEW s \in Setups, WorkerInv(s), NEW r \in Request, Worker(s)!ReadReturns(r)
  PROVE  WorkerInv(s)'
<1>0. /\ request[r].pc = "reading" /\ Worker(s)!releaseKey(request[r])
      /\ UNCHANGED <<time, stored, inflight, mutations, closed>>
  BY DEF Worker!ReadReturns
<1>1. CASE Worker(s)!Missed(r) /\ UNCHANGED l1
  BY <1>0, <1>1, MissedEnds
<1>2. ASSUME NEW until \in Worker(s)!KVReturns,
             l1' = IF Worker(s)!isCurrent(request[r])
                   THEN Worker(s)!Entry(request[r].seen, Worker(s)!Remaining(until - time, request[r].at), until)
                   ELSE l1,
             Worker(s)!Finish(r, Worker(s)!Answer("kv", request[r].seen))
      PROVE  WorkerInv(s)'
  <2> DEFINE out == Worker(s)!Answer("kv", request[r].seen)
             k == Finished(s, request[r].since, out)
  <2>1. request' = [request EXCEPT ![r] = k]
    BY <1>2 DEF Worker!Finish, Finished
  <2>2. out \in WorkerAnswer /\ out.from = "kv"
    BY CallNumbers DEF WorkerAnswer, Worker!Answer
  <2>3. time \in Nat /\ mutations \in Nat /\ l1 \in {None} \cup [seen : Nat, expires : Int, until : Int]
    BY <1>0, WorkerNumbers
  <2>4. k \in WorkerCall(s) /\ WorkerCallOk(k, mutations, time) /\ k.pc = "done" /\ k.id = 0 /\ ~Running(k)
    BY FinishOk, <2>2, <2>3, CallNumbers
  <2>5. L1Ok' /\ l1' \in {None} \cup [seen : Nat, expires : Int, until : Int]
    <3>1. CASE ~Worker(s)!isCurrent(request[r])
      BY <1>0, <1>2, <2>3, <3>1 DEF WorkerInv, L1Ok
    <3>2. CASE Worker(s)!isCurrent(request[r])
      <4>1. request[r].seen = mutations
        BY <1>0, <3>2, ReadingCall, CurrentSees
      <4>2. until \in Nat
        BY WorkerNumbers DEF Worker!KVReturns
      <4>3. l1' = Worker(s)!Entry(request[r].seen, Worker(s)!Remaining(until - time, request[r].at), until)
        BY <1>2, <3>2
      <4>4. /\ request[r].seen \in Nat /\ request[r].at \in Nat /\ request[r].at <= time
            /\ until - time \in Int /\ until = time + (until - time)
        BY <2>3, <4>2, CallNumbers
      <4> QED  BY <1>0, <4>1, <4>2, <4>3, <4>4, Written
    <3> QED  BY <3>1, <3>2
  <2> QED  BY <1>0, <2>1, <2>4, <2>5, ReadingCall, CallEnds
<1> QED  BY <1>1, <1>2 DEF Worker!ReadReturns

-----------------------------------------------------------------------------
(* The Worker cache: the loads *)

LEMMA WorkerLead ==
  ASSUME NEW s \in Setups, WorkerInv(s), NEW r \in Request, Worker(s)!Lead(r)
  PROVE  WorkerInv(s)'
<1>0. request[r].pc = "checked" /\ UNCHANGED <<time, l1, stored, mutations, closed>>
  BY DEF Worker!Lead
<1>c. /\ request[r] \in WorkerCall(s) /\ WorkerCallOk(request[r], mutations, time)
      /\ request[r].id = 0 /\ request[r].op = "getOrSet" /\ ~Running(request[r])
      /\ request[r].since \in Nat /\ request[r].since <= mutations
  BY <1>0, CallNumbers DEF WorkerCallOk, Running
<1>n. /\ time \in Nat /\ mutations \in Nat /\ time \in 0..s.maxTime /\ mutations \in 0..s.maxMutations
      /\ closed \in BOOLEAN /\ stored \subseteq Nat /\ inflight \in Request \cup {None} /\ None \notin Request
      /\ l1 \in {None} \cup [seen : Nat, expires : Int, until : Int]
      /\ state \in [Worker(s)!Ids -> [revision : Nat, references : Nat]]
      /\ request \in [Request -> WorkerCall(s)]
  BY WorkerNumbers
<1>l. L1Ok'
  BY <1>0 DEF WorkerInv, L1Ok
<1>1. CASE closed
  <2> DEFINE out == Worker(s)!Answer("closed", 0)
             k == Finished(s, request[r].since, out)
  <2>1. request' = [request EXCEPT ![r] = k] /\ UNCHANGED <<state, current, inflight>>
    BY <1>0, <1>1 DEF Worker!Lead, Worker!Finish, Finished
  <2>2. out \in WorkerAnswer /\ out.from = "closed"
    BY DEF WorkerAnswer, Worker!Answer
  <2> HIDE DEF out
  <2>3. k \in WorkerCall(s) /\ WorkerCallOk(k, mutations, time) /\ k.pc = "done" /\ k.id = 0 /\ ~Running(k)
    BY FinishOk, <1>c, <1>n, <2>2
  <2> HIDE DEF k
  <2> QED  BY <1>0, <1>c, <2>1, <2>3, CallMoves
<1>2. CASE ~closed /\ inflight # None
  <2> DEFINE k == [request[r] EXCEPT !.pc = "joined", !.leader = inflight]
  <2>1. request' = [request EXCEPT ![r] = k]
    BY <1>0, <1>2, <1>n DEF Worker!Lead
  <2>2. UNCHANGED <<state, current, inflight>>
    BY <1>0, <1>2 DEF Worker!Lead
  <2>3. k \in WorkerCall(s) /\ k.pc = "joined" /\ k.leader = inflight /\ k.since = request[r].since /\ k.id = 0
    BY <1>c, <1>n DEF WorkerCall, WorkerPc
  <2>4. WorkerCallOk(k, mutations, time) /\ ~Running(k)
    BY <1>0, <1>c, <1>n DEF WorkerCallOk, WorkerCall, Running
  <2> HIDE DEF k
  <2>5. /\ request' \in [Request -> WorkerCall(s)] /\ request'[r] = k
        /\ \A q \in Request : WorkerCallOk(request[q], mutations, time)'
        /\ \A q \in Request \ {r} : request'[q] = request[q]
    BY <1>0, <2>1, <2>3, <2>4, OneCallNow
  <2>6. GuardStep(s)
    BY <1>0, <1>c, <2>2, <2>3, <2>5, GuardsKept
  <2>7. LoadsOk'
    <3>1. inflight \in Request /\ inflight # r /\ Running(request[inflight]) /\ request[inflight].seen = mutations
      BY <1>2, <1>c, <1>n DEF WorkerInv, LoadsOk
    <3>2. \A q \in Request : Running(request'[q]) => q # r /\ Running(request[q]) /\ request'[q] = request[q]
      BY <2>4, <2>5
    <3>3. \A q \in Request : q # r /\ Running(request[q]) => Running(request'[q]) /\ request'[q].seen = request[q].seen
      BY <2>5
    <3>4. \A q \in Request : request'[q].pc = "joined" =>
             /\ request'[q].leader \in Request /\ Running(request'[request'[q].leader])
             /\ request'[request'[q].leader].seen >= request'[q].since
      <4> TAKE q \in Request
      <4>1. CASE q = r
        BY <1>c, <1>n, <2>3, <2>5, <3>1, <3>3, <4>1
      <4>2. CASE q # r
        <5> SUFFICES ASSUME request[q].pc = "joined"
                     PROVE  /\ request[q].leader \in Request /\ Running(request'[request[q].leader])
                            /\ request'[request[q].leader].seen >= request[q].since
          BY <2>5, <4>2
        <5>1. /\ request[q].leader \in Request /\ Running(request[request[q].leader])
              /\ request[request[q].leader].seen >= request[q].since
          BY DEF WorkerInv, LoadsOk
        <5>2. request[q].leader # r
          BY <1>c, <5>1
        <5> QED  BY <3>3, <5>1, <5>2
      <4> QED  BY <4>1, <4>2
    <3>5. \A p, q \in Request : p # q /\ Running(request'[p]) /\ Running(request'[q]) =>
             request'[p].seen # request'[q].seen
      BY <3>2 DEF WorkerInv, LoadsOk
    <3>6. \A q \in Request : ~closed /\ Running(request'[q]) /\ request'[q].seen = mutations => inflight = q
      BY <3>2 DEF WorkerInv, LoadsOk
    <3>7. inflight # None => ~closed /\ Running(request'[inflight]) /\ request'[inflight].seen = mutations
      BY <1>2, <3>1, <3>3
    <3> QED  BY <1>0, <2>2, <3>4, <3>5, <3>6, <3>7 DEF LoadsOk, Running
  <2> QED  BY <1>0, <1>l, <1>n, <2>2, <2>5, <2>6, <2>7, WorkerWhole
<1>3. CASE ~closed /\ inflight = None
  <2>1. PICK id \in Worker(s)!Ids :
          /\ Worker(s)!Observe(id, FALSE) /\ inflight' = r
          /\ request' = [request EXCEPT ![r].pc = "starting", ![r].id = id, ![r].revision = state'[id].revision,
                                        ![r].seen = mutations]
    BY <1>0, <1>3 DEF Worker!Lead
  <2> DEFINE k == [request[r] EXCEPT !.pc = "starting", !.id = id, !.revision = state'[id].revision,
                                     !.seen = mutations]
  <2>a. Worker(s)!Observe(id, FALSE) /\ inflight' = r
    BY <2>1
  <2>2. request' = [request EXCEPT ![r] = k]
    BY <1>n, <2>1
  <2>3. state'[id].revision \in Nat
    BY <1>n, <2>a, WorkerConstants DEF Worker!Observe
  <2>4. /\ k.id = id /\ k.revision = state'[id].revision /\ k.seen = mutations /\ k.pc = "starting"
        /\ k.op = "getOrSet" /\ k.since = request[r].since /\ k.at = request[r].at /\ k.out = request[r].out
    BY <1>c DEF WorkerCall
  <2>5. k \in WorkerCall(s)
    BY <1>c, <1>n, <2>3 DEF WorkerCall, WorkerPc
  <2> HIDE DEF k
  <2>6. WorkerCallOk(k, mutations, time) /\ Running(k)
    BY <1>0, <1>c, <1>n, <2>4, WorkerConstants DEF WorkerCallOk, Running
  <2>7. /\ request' \in [Request -> WorkerCall(s)] /\ request'[r] = k
        /\ \A q \in Request : WorkerCallOk(request[q], mutations, time)'
        /\ \A q \in Request \ {r} : request'[q] = request[q]
    BY <1>0, <2>2, <2>5, <2>6, OneCallNow
  <2>8. GuardStep(s)
    BY <1>0, <1>3, <1>c, <2>2, <2>4, <2>a, GuardTakenToRead
  <2>9. LoadsOk'
    <3>1. \A q \in Request : q # r /\ Running(request'[q]) => Running(request[q]) /\ request'[q].seen # mutations
      BY <1>3, <1>n, <2>7 DEF WorkerInv, LoadsOk
    <3>2. \A q \in Request : Running(request[q]) => q # r /\ Running(request'[q]) /\ request'[q].seen = request[q].seen
      BY <1>c, <2>7
    <3>3. \A q \in Request : ~closed /\ Running(request'[q]) /\ request'[q].seen = mutations => r = q
      BY <3>1
    <3>4. \A q \in Request : request'[q].pc = "joined" =>
             /\ request'[q].leader \in Request /\ Running(request'[request'[q].leader])
             /\ request'[request'[q].leader].seen >= request'[q].since
      <4> TAKE q \in Request
      <4> HAVE request'[q].pc = "joined"
      <4>1. q # r /\ request'[q] = request[q]
        BY <2>4, <2>7
      <4>2. /\ request[q].leader \in Request /\ Running(request[request[q].leader])
            /\ request[request[q].leader].seen >= request[q].since
        BY <4>1 DEF WorkerInv, LoadsOk
      <4> QED  BY <3>2, <4>1, <4>2
    <3>5. \A p, q \in Request : p # q /\ Running(request'[p]) /\ Running(request'[q]) =>
             request'[p].seen # request'[q].seen
      <4> TAKE p, q \in Request
      <4>1. CASE p # r /\ q # r
        BY <2>7, <4>1 DEF WorkerInv, LoadsOk
      <4>2. CASE p = r \/ q = r
        BY <2>4, <2>7, <3>1, <4>2
      <4> QED  BY <4>1, <4>2
    <3>6. ~closed /\ Running(request'[r]) /\ request'[r].seen = mutations
      BY <1>3, <2>4, <2>6, <2>7
    <3> QED  BY <1>0, <2>a, <3>3, <3>4, <3>5, <3>6 DEF LoadsOk, Running
  <2> QED  BY <1>0, <1>l, <1>n, <2>a, <2>7, <2>8, <2>9, WorkerWhole
<1> QED  BY <1>1, <1>2, <1>3

\* A load or a set ends, and with it the calls that joined it.
LEMMA Settled ==
  ASSUME NEW s \in Setups, WorkerInv(s), NEW r \in Request, request[r].pc \in {"starting", "loading", "putting"},
         NEW out \in WorkerAnswer, out.from \in {"origin", "nothing", "error", "closed"},
         out.from = "origin" => out.seen = request[r].seen,
         Worker(s)!Settle(r, out), UNCHANGED <<time, mutations, closed>>,
         stored' \subseteq Nat, l1' \in {None} \cup [seen : Nat, expires : Int, until : Int], L1Ok'
  PROVE  WorkerInv(s)'
<1> DEFINE Gone(c) == c = r \/ (request[c].pc = "joined" /\ request[c].leader = r)
           shared == Worker(s)!Answer("joined", out.seen)
           given(c) == IF c # r /\ out.from = "origin" THEN shared ELSE out
           k(c) == Finished(s, request[c].since, given(c))
<1>n. /\ time \in Nat /\ mutations \in Nat /\ time \in 0..s.maxTime /\ mutations \in 0..s.maxMutations
      /\ closed \in BOOLEAN /\ inflight \in Request \cup {None} /\ None \notin Request
      /\ request \in [Request -> WorkerCall(s)]
  BY WorkerNumbers
<1>1. \A c \in Request : request'[c] = IF Gone(c) THEN k(c) ELSE request[c]
  BY Zenon DEF Worker!Settle, Finished
<1>2. inflight' = (IF inflight = r THEN None ELSE inflight) /\ Worker(s)!releaseKey(request[r])
  BY DEF Worker!Settle
<1>3. request[r].id # 0 /\ \A c \in Request : request[c].pc = "joined" => request[c].id = 0 /\ ~Running(request[c])
  BY DEF WorkerInv, WorkerCallOk, Running
<1>4. ASSUME NEW c \in Request, Gone(c)
      PROVE  /\ k(c) \in WorkerCall(s) /\ WorkerCallOk(k(c), mutations, time)
             /\ k(c).pc = "done" /\ k(c).id = 0 /\ ~Running(k(c))
  <2>1. request[c].since \in Nat /\ request[c].since <= mutations
    BY CallNumbers
  <2>2. out.seen \in Nat
    BY DEF WorkerAnswer
  <2>3. shared \in WorkerAnswer /\ shared.seen = out.seen /\ shared.from = "joined"
    BY <2>2 DEF WorkerAnswer, Worker!Answer
  <2>4. c # r /\ out.from = "origin" => out.seen >= request[c].since
    BY <1>4 DEF WorkerInv, LoadsOk
  <2> HIDE DEF shared
  <2>5. given(c) \in WorkerAnswer /\ (given(c).from \in {"l1", "joined"} => given(c).seen >= request[c].since)
    BY <2>3, <2>4
  <2> HIDE DEF given
  <2> QED  BY FinishOk, <1>n, <2>1, <2>5
<1> HIDE DEF k
<1>5. request' \in [Request -> WorkerCall(s)]
  <2>1. request' = [c \in Request |-> request'[c]]
    BY DEF Worker!Settle
  <2>2. \A c \in Request : request'[c] \in WorkerCall(s)
    BY <1>1, <1>4, <1>n
  <2> QED  BY <2>1, <2>2
<1>6. \A c \in Request : WorkerCallOk(request[c], mutations, time)'
  <2>1. \A c \in Request : WorkerCallOk(request'[c], mutations, time)
    BY <1>1, <1>4 DEF WorkerInv
  <2> QED  BY <2>1
<1>7. GuardStep(s)
  <2>1. request'[r].id = 0
    BY <1>1, <1>4
  <2>2. \A q \in Request \ {r} : request'[q] = request[q] \/ (request[q].id = 0 /\ request'[q].id = 0)
    BY <1>1, <1>3, <1>4
  <2> QED  BY <1>2, <1>3, <2>1, <2>2, GuardReleased
<1>8. LoadsOk'
  <2>1. \A q \in Request : Running(request'[q]) => q # r /\ Running(request[q]) /\ request'[q] = request[q]
    BY <1>1, <1>4
  <2>2. \A q \in Request : q # r /\ Running(request[q]) => request'[q] = request[q]
    BY <1>1, <1>3
  <2>3. inflight' # None => ~closed /\ Running(request'[inflight']) /\ request'[inflight'].seen = mutations
    BY <1>2, <1>n, <2>2 DEF WorkerInv, LoadsOk
  <2>4. \A q \in Request : ~closed /\ Running(request'[q]) /\ request'[q].seen = mutations => inflight' = q
    BY <1>2, <2>1 DEF WorkerInv, LoadsOk
  <2>5. \A q \in Request : request'[q].pc = "joined" =>
           /\ request'[q].leader \in Request /\ Running(request'[request'[q].leader])
           /\ request'[request'[q].leader].seen >= request'[q].since
    <3> TAKE q \in Request
    <3> HAVE request'[q].pc = "joined"
    <3>1. ~Gone(q) /\ request'[q] = request[q]
      BY <1>1, <1>4
    <3>2. /\ request[q].leader \in Request /\ Running(request[request[q].leader])
          /\ request[request[q].leader].seen >= request[q].since
      BY <3>1 DEF WorkerInv, LoadsOk
    <3> QED  BY <2>2, <3>1, <3>2
  <2>6. \A p, q \in Request : p # q /\ Running(request'[p]) /\ Running(request'[q]) =>
           request'[p].seen # request'[q].seen
    BY <2>1 DEF WorkerInv, LoadsOk
  <2> QED  BY <2>3, <2>4, <2>5, <2>6 DEF LoadsOk, Running
<1>9. inflight' \in Request \cup {None}
  BY <1>2, <1>n
<1> QED  BY <1>5, <1>6, <1>7, <1>8, <1>9, <1>n, WorkerWhole

LEMMA WorkerLoadStarts ==
  ASSUME NEW s \in Setups, WorkerInv(s), NEW r \in Request, Worker(s)!LoadStarts(r)
  PROVE  WorkerInv(s)'
<1>0. request[r].pc = "starting" /\ UNCHANGED <<time, l1, stored, mutations, closed>>
  BY DEF Worker!LoadStarts
<1>1. CASE closed
  <2> DEFINE out == Worker(s)!Answer("closed", 0)
  <2>1. Worker(s)!Settle(r, out)
    BY <1>1 DEF Worker!LoadStarts
  <2>2. out \in WorkerAnswer /\ out.from = "closed"
    BY DEF WorkerAnswer, Worker!Answer
  <2>3. stored' \subseteq Nat /\ l1' \in {None} \cup [seen : Nat, expires : Int, until : Int]
    BY <1>0, WorkerNumbers
  <2>4. L1Ok'
    BY <1>0 DEF WorkerInv, L1Ok
  <2> HIDE DEF out
  <2> QED  BY <1>0, <2>1, <2>2, <2>3, <2>4, Settled
<1>2. CASE ~closed
  <2> DEFINE k == [request[r] EXCEPT !.pc = "loading"]
  <2>0. request \in [Request -> WorkerCall(s)] /\ request[r] \in WorkerCall(s)
    BY WorkerNumbers
  <2>1. request' = [request EXCEPT ![r] = k] /\ UNCHANGED <<state, current, inflight>>
    BY <1>2, <2>0 DEF Worker!LoadStarts
  <2>2. k \in WorkerCall(s) /\ k.id = request[r].id /\ k.seen = request[r].seen /\ k.revision = request[r].revision
        /\ k.pc = "loading" /\ k.op = request[r].op
    BY <2>0 DEF WorkerCall, WorkerPc
  <2>3. WorkerCallOk(k, mutations, time)
    BY <1>0, <2>0, CallNumbers DEF WorkerCallOk, WorkerCall
  <2> HIDE DEF k
  <2>4. Running(k) <=> Running(request[r])
    BY <1>0, <2>2 DEF Running
  <2> QED  BY <1>0, <2>1, <2>2, <2>3, <2>4, CallMoves
<1> QED  BY <1>1, <1>2

LEMMA WorkerLoadReturns ==
  ASSUME NEW s \in Setups, WorkerInv(s), NEW r \in Request, NEW out \in {"value", "nothing", "error"},
         Worker(s)!LoadReturns(r, out)
  PROVE  WorkerInv(s)'
<1>0. request[r].pc = "loading" /\ UNCHANGED <<time, l1, stored, mutations, closed>>
  BY DEF Worker!LoadReturns
<1>1. CASE ~(out = "value" /\ Worker(s)!isCurrent(request[r]))
  <2> DEFINE answered == Worker(s)!Answer(IF out = "value" THEN "origin" ELSE out, request[r].seen)
  <2>1. Worker(s)!Settle(r, answered)
    BY <1>1 DEF Worker!LoadReturns
  <2>2. /\ answered \in WorkerAnswer /\ answered.from \in {"origin", "nothing", "error", "closed"}
        /\ answered.seen = request[r].seen
    BY CallNumbers DEF WorkerAnswer, Worker!Answer
  <2>3. stored' \subseteq Nat /\ l1' \in {None} \cup [seen : Nat, expires : Int, until : Int]
    BY <1>0, WorkerNumbers
  <2>4. L1Ok'
    BY <1>0 DEF WorkerInv, L1Ok
  <2> HIDE DEF answered
  <2> QED  BY <1>0, <2>1, <2>2, <2>3, <2>4, Settled
<1>2. CASE out = "value" /\ Worker(s)!isCurrent(request[r])
  <2> DEFINE k == [request[r] EXCEPT !.pc = "putting", !.at = time]
  <2>0. /\ request \in [Request -> WorkerCall(s)] /\ request[r] \in WorkerCall(s) /\ time \in Nat
        /\ mutations \in Nat
    BY WorkerNumbers
  <2>1. request' = [request EXCEPT ![r] = k] /\ UNCHANGED <<state, current, inflight>>
    BY <1>2, <2>0 DEF Worker!LoadReturns
  <2>2. k \in WorkerCall(s) /\ k.id = request[r].id /\ k.seen = request[r].seen /\ k.revision = request[r].revision
        /\ k.pc = "putting" /\ k.op = request[r].op
    BY <2>0 DEF WorkerCall, WorkerPc
  <2>3. WorkerCallOk(k, mutations, time)
    BY <1>0, <2>0, CallNumbers DEF WorkerCallOk, WorkerCall
  <2> HIDE DEF k
  <2>4. Running(k) <=> Running(request[r])
    BY <1>0, <2>2 DEF Running
  <2> QED  BY <1>0, <2>1, <2>2, <2>3, <2>4, CallMoves
<1> QED  BY <1>1, <1>2

LEMMA WorkerPutReturns ==
  ASSUME NEW s \in Setups, WorkerInv(s), NEW r \in Request, NEW ok \in BOOLEAN, NEW lands \in BOOLEAN,
         Worker(s)!PutReturns(r, ok, lands)
  PROVE  WorkerInv(s)'
<1>0. request[r].pc = "putting" /\ UNCHANGED <<time, mutations, closed>>
  BY DEF Worker!PutReturns
<1>c. /\ request[r].seen \in Nat /\ request[r].at \in Nat /\ request[r].at <= time /\ request[r].id # 0
  BY <1>0, CallNumbers DEF WorkerCallOk
<1>n. /\ time \in Nat /\ mutations \in Nat /\ s.ttlMs \in Nat /\ stored \subseteq Nat
      /\ l1 \in {None} \cup [seen : Nat, expires : Int, until : Int]
  BY WorkerNumbers
<1> DEFINE answered == IF request[r].op = "getOrSet" THEN Worker(s)!Answer("origin", request[r].seen)
                       ELSE IF ok THEN Worker(s)!Nothing ELSE Worker(s)!Answer("error", 0)
<1>1. Worker(s)!Settle(r, answered)
  BY DEF Worker!PutReturns
<1>2. /\ answered \in WorkerAnswer /\ answered.from \in {"origin", "nothing", "error", "closed"}
      /\ answered.from = "origin" => answered.seen = request[r].seen
  BY <1>c DEF WorkerAnswer, Worker!Answer, Worker!Nothing
<1>3. stored' \subseteq Nat
  BY <1>c, <1>n DEF Worker!PutReturns
<1>4. l1' \in {None} \cup [seen : Nat, expires : Int, until : Int] /\ L1Ok'
  <2>1. CASE l1' = l1
    BY <1>0, <1>n, <2>1 DEF WorkerInv, L1Ok
  <2>2. CASE l1' # l1
    <3>1. /\ Worker(s)!isCurrent(request[r])
          /\ l1' = Worker(s)!Entry(request[r].seen, Worker(s)!Remaining(s.ttlMs, request[r].at),
                                   request[r].at + s.ttlMs)
      BY <2>2 DEF Worker!PutReturns
    <3>2. request[r].seen = mutations
      BY <1>c, <3>1, CurrentSees
    <3>3. s.ttlMs \in Int /\ request[r].at + s.ttlMs \in Int
      BY <1>c, <1>n
    <3> QED  BY <1>0, <1>c, <3>1, <3>2, <3>3, Written
  <2> QED  BY <2>1, <2>2
<1> HIDE DEF answered
<1> QED  BY <1>0, <1>1, <1>2, <1>3, <1>4, Settled

-----------------------------------------------------------------------------
(* The Worker cache: mutations, and the whole *)

\* A mutation leaves no load registered, and every load that runs is older.
LEMMA LoadsOutdated ==
  ASSUME NEW s \in Setups, WorkerInv(s), NEW r \in Request, ~Running(request[r]), NEW k, ~Running(k), k.pc # "joined",
         request' = [request EXCEPT ![r] = k], mutations' = mutations + 1, inflight' = None
  PROVE  LoadsOk'
<1>1. request \in [Request -> WorkerCall(s)] /\ mutations \in Nat
  BY WorkerNumbers
<1>2. request'[r] = k /\ \A q \in Request \ {r} : request'[q] = request[q]
  BY <1>1
<1>3. \A q \in Request : Running(request'[q]) => q # r /\ Running(request[q]) /\ request'[q] = request[q]
  BY <1>2
<1>4. \A q \in Request : Running(request[q]) => request'[q] = request[q]
  BY <1>2
<1>5. \A q \in Request : request'[q].pc = "joined" =>
         /\ request'[q].leader \in Request /\ Running(request'[request'[q].leader])
         /\ request'[request'[q].leader].seen >= request'[q].since
  <2> TAKE q \in Request
  <2> HAVE request'[q].pc = "joined"
  <2>1. request'[q] = request[q]
    BY <1>2
  <2>2. /\ request[q].leader \in Request /\ Running(request[request[q].leader])
        /\ request[request[q].leader].seen >= request[q].since
    BY <2>1 DEF WorkerInv, LoadsOk
  <2> QED  BY <1>4, <2>1, <2>2
<1>6. \A p, q \in Request : p # q /\ Running(request'[p]) /\ Running(request'[q]) =>
         request'[p].seen # request'[q].seen
  BY <1>3 DEF WorkerInv, LoadsOk
<1>7. \A q \in Request : Running(request'[q]) => request'[q].seen # mutations + 1
  BY <1>1, <1>3, CallNumbers
<1> QED  BY <1>5, <1>6, <1>7 DEF LoadsOk, Running

LEMMA WorkerMutate ==
  ASSUME NEW s \in Setups, WorkerInv(s), NEW r \in Request,
         NEW op \in {"set", "delete"}, NEW pc, pc = (IF op = "set" THEN "putting" ELSE "deleting"),
         Worker(s)!Mutate(r, op, pc)
  PROVE  WorkerInv(s)'
<1>0. /\ request[r].pc = "done" /\ ~closed /\ mutations < s.maxMutations /\ mutations' = mutations + 1
      /\ inflight' = None /\ l1' = None /\ UNCHANGED <<time, stored, closed>>
  BY DEF Worker!Mutate
<1>c. request[r].id = 0 /\ ~Running(request[r])
  BY <1>0, CallNumbers DEF WorkerCallOk, Running
<1>n. /\ time \in Nat /\ mutations \in Nat /\ time \in 0..s.maxTime /\ s.maxMutations \in Nat
      /\ closed \in BOOLEAN /\ stored \subseteq Nat
      /\ state \in [Worker(s)!Ids -> [revision : Nat, references : Nat]]
  BY WorkerNumbers
<1>1. PICK id \in Worker(s)!Ids :
        /\ Worker(s)!Observe(id, TRUE)
        /\ request' = [request EXCEPT ![r] = [Worker(s)!Idle EXCEPT !.op = op, !.pc = pc, !.id = id,
                     !.revision = state'[id].revision, !.since = mutations, !.seen = mutations + 1, !.at = time]]
  BY DEF Worker!Mutate
<1> DEFINE k == [Worker(s)!Idle EXCEPT !.op = op, !.pc = pc, !.id = id,
                     !.revision = state'[id].revision, !.since = mutations, !.seen = mutations + 1, !.at = time]
<1>a. Worker(s)!Observe(id, TRUE)
  BY <1>1
<1>2. request' = [request EXCEPT ![r] = k]
  BY <1>1
<1>3. state'[id].revision \in Nat
  BY <1>a, <1>n, WorkerConstants DEF Worker!Observe
<1>4. /\ k.id = id /\ k.revision = state'[id].revision /\ k.seen = mutations + 1 /\ k.since = mutations
      /\ k.op = op /\ k.pc = pc /\ id # 0 /\ k.at = time /\ k.out.from = "nothing"
  BY WorkerConstants DEF Worker!Idle, Worker!Nothing, Worker!Answer
<1>5. k \in WorkerCall(s)
  <2>1. pc \in WorkerPc /\ mutations + 1 \in Nat
    BY <1>n DEF WorkerPc
  <2> QED  BY <1>3, <1>n, <2>1, ZenonT(60) DEF WorkerCall, WorkerAnswer, Worker!Idle, Worker!Nothing, Worker!Answer
<1> HIDE DEF k
<1>6. WorkerCallOk(k, mutations', time')
  BY <1>0, <1>4, <1>n DEF WorkerCallOk
<1>7. /\ request' \in [Request -> WorkerCall(s)] /\ request'[r] = k
      /\ \A q \in Request : WorkerCallOk(request[q], mutations, time)'
  <2>1. mutations' \in Nat /\ mutations' >= mutations /\ time' \in Nat /\ time' >= time
    BY <1>0, <1>n
  <2> QED  BY <1>2, <1>5, <1>6, <2>1, OneCall
<1>8. GuardStep(s)
  <2>1. k.seen = mutations' /\ mutations' = IF TRUE THEN mutations + 1 ELSE mutations
    BY <1>0, <1>4
  <2> QED  BY <1>0, <1>2, <1>4, <1>a, <1>c, <2>1, GuardTaken
<1>9. LoadsOk'
  <2>1. ~Running(k) /\ k.pc # "joined"
    BY <1>4 DEF Running
  <2> QED  BY <1>0, <1>2, <1>c, <2>1, LoadsOutdated
<1>10. L1Ok' /\ mutations' \in 0..s.maxMutations
  BY <1>0, <1>n DEF L1Ok
<1> QED  BY <1>0, <1>7, <1>8, <1>9, <1>10, <1>n, WorkerWhole

LEMMA WorkerPattern ==
  ASSUME NEW s \in Setups, WorkerInv(s), NEW r \in Request, Worker(s)!DeleteByPattern(r)
  PROVE  WorkerInv(s)'
<1>0. /\ request[r].pc = "done" /\ ~closed /\ mutations < s.maxMutations /\ mutations' = mutations + 1
      /\ inflight' = None /\ l1' = None /\ UNCHANGED <<time, stored, closed, current>>
      /\ state' = [i \in Worker(s)!Ids |-> IF i = current THEN [state[i] EXCEPT !.revision = @ + 1] ELSE state[i]]
  BY DEF Worker!DeleteByPattern
<1>c. request[r].id = 0 /\ ~Running(request[r])
  BY <1>0, CallNumbers DEF WorkerCallOk, Running
<1>n. /\ time \in Nat /\ mutations \in Nat /\ time \in 0..s.maxTime /\ s.maxMutations \in Nat
      /\ closed \in BOOLEAN /\ stored \subseteq Nat
      /\ state \in [Worker(s)!Ids -> [revision : Nat, references : Nat]]
  BY WorkerNumbers
<1> DEFINE k == [Worker(s)!Idle EXCEPT !.op = "pattern", !.pc = "deleting", !.since = mutations]
<1>2. request' = [request EXCEPT ![r] = k]
  BY DEF Worker!DeleteByPattern
<1>4. /\ k.id = 0 /\ k.seen = 0 /\ k.since = mutations /\ k.op = "pattern" /\ k.pc = "deleting" /\ k.at = 0
      /\ k.out.from = "nothing"
  BY DEF Worker!Idle, Worker!Nothing, Worker!Answer
<1>5. k \in WorkerCall(s)
  BY <1>n DEF WorkerCall, WorkerAnswer, WorkerPc, Worker!Idle, Worker!Nothing, Worker!Answer
<1> HIDE DEF k
<1>6. WorkerCallOk(k, mutations', time')
  BY <1>0, <1>4, <1>n DEF WorkerCallOk
<1>7. /\ request' \in [Request -> WorkerCall(s)] /\ request'[r] = k
      /\ \A q \in Request : WorkerCallOk(request[q], mutations, time)'
      /\ \A q \in Request \ {r} : request'[q] = request[q]
  <2>1. mutations' \in Nat /\ mutations' >= mutations /\ time' \in Nat /\ time' >= time
    BY <1>0, <1>n
  <2> QED  BY <1>2, <1>5, <1>6, <2>1, OneCall
<1>8. GuardStep(s)
  <2>1. state' \in [Worker(s)!Ids -> [revision : Nat, references : Nat]]
    BY <1>0, <1>n
  <2>2. \A i \in Worker(s)!Ids : state'[i].references = state[i].references
    BY <1>0, <1>n
  <2>3. \A i : Guarding(i)' = Guarding(i)
    BY <1>4, <1>7, <1>c DEF Guarding
  <2>4. GuardCount(s)'
    BY <1>0, <2>2, <2>3 DEF WorkerInv, GuardCount
  <2>5. GuardsFresh(s)'
    <3> SUFFICES ASSUME NEW q \in Request, request'[q].id # 0, request'[q].id = current
                 PROVE  /\ request'[q].revision <= state'[current].revision
                        /\ request'[q].revision # state'[current].revision
      BY <1>0 DEF GuardsFresh
    <3>1. q # r /\ request'[q] = request[q]
      BY <1>4, <1>7
    <3>2. request[q].revision <= state[current].revision
      BY <3>1 DEF WorkerInv, GuardsFresh
    <3>3. current \in Worker(s)!Ids
      BY <3>1 DEF WorkerInv, WorkerTypes
    <3>4. state'[current].revision = state[current].revision + 1 /\ state[current].revision \in Nat
      BY <1>0, <1>n, <3>3
    <3>5. request[q].revision \in Nat
      BY CallNumbers
    <3> QED  BY <3>1, <3>2, <3>4, <3>5
  <2> QED  BY <1>0, <2>1, <2>4, <2>5 DEF GuardStep, WorkerInv, WorkerTypes
<1>9. LoadsOk'
  <2>1. ~Running(k) /\ k.pc # "joined"
    BY <1>4 DEF Running
  <2> QED  BY <1>0, <1>2, <1>c, <2>1, LoadsOutdated
<1>10. L1Ok' /\ mutations' \in 0..s.maxMutations
  BY <1>0, <1>n DEF L1Ok
<1> QED  BY <1>0, <1>7, <1>8, <1>9, <1>10, <1>n, WorkerWhole

LEMMA WorkerResolve ==
  ASSUME NEW s \in Setups, WorkerInv(s), NEW r \in Request, request[r].pc \in {"deleting", "publishing"},
         NEW out \in WorkerAnswer, out.from \in {"nothing", "error"}, NEW kv \in BOOLEAN, NEW queued \in BOOLEAN,
         out.from = "nothing" => kv \/ queued, Worker(s)!Resolve(r, out, kv, queued),
         UNCHANGED <<time, l1, stored, inflight, mutations, closed>>
  PROVE  WorkerInv(s)'
<1>1. /\ request[r].since \in Nat /\ request[r].since <= mutations /\ mutations \in Nat /\ time \in Nat
      /\ ~Running(request[r])
  BY CallNumbers, WorkerNumbers DEF Running
<1> DEFINE k == [Worker(s)!Idle EXCEPT !.op = "resolved", !.since = request[r].since, !.out = out,
                                       !.kv = kv, !.queued = queued]
<1>2. request' = [request EXCEPT ![r] = k]
  BY DEF Worker!Resolve
<1>3. /\ k.pc = "done" /\ k.op = "resolved" /\ k.id = 0 /\ k.since = request[r].since /\ k.out = out
      /\ k.seen = 0 /\ k.at = 0 /\ k.kv = kv /\ k.queued = queued
  BY DEF Worker!Idle
<1>4. k \in WorkerCall(s)
  BY <1>1, IdleCall, ZenonT(60) DEF WorkerCall
<1> HIDE DEF k
<1>5. WorkerCallOk(k, mutations, time) /\ ~Running(k)
  BY <1>1, <1>3 DEF WorkerCallOk, Running
<1>6. CASE request[r].id = 0
  <2>1. UNCHANGED <<state, current>>
    BY <1>6 DEF Worker!Resolve, Worker!Unguard
  <2> QED  BY <1>1, <1>2, <1>3, <1>4, <1>5, <1>6, <2>1, CallMoves
<1>7. CASE request[r].id # 0
  <2>1. Worker(s)!releaseKey(request[r])
    BY <1>7 DEF Worker!Resolve, Worker!Unguard
  <2>2. l1' \in {None} \cup [seen : Nat, expires : Int, until : Int] /\ L1Ok'
    BY WorkerNumbers DEF WorkerInv, L1Ok
  <2> QED  BY <1>1, <1>2, <1>3, <1>4, <1>5, <1>7, <2>1, <2>2, CallEnds
<1> QED  BY <1>6, <1>7

LEMMA WorkerDeleteReturns ==
  ASSUME NEW s \in Setups, WorkerInv(s), NEW r \in Request, NEW result \in {"ok", "fails", "range"},
         Worker(s)!DeleteReturns(r, result)
  PROVE  WorkerInv(s)'
<1>0. request[r].pc = "deleting" /\ UNCHANGED <<time, l1, stored, inflight, mutations, closed>>
  BY DEF Worker!DeleteReturns
<1>1. CASE result # "range" /\ s.publisher
  <2> DEFINE done == result = "ok"
             k == [request[r] EXCEPT !.pc = "publishing", !.kv = done]
  <2>0. request \in [Request -> WorkerCall(s)] /\ request[r] \in WorkerCall(s)
    BY WorkerNumbers
  <2>d. done \in BOOLEAN
    OBVIOUS
  <2>1. request' = [request EXCEPT ![r] = k] /\ UNCHANGED <<state, current>>
    BY <1>1, <2>0 DEF Worker!DeleteReturns
  <2> HIDE DEF done
  <2>2. /\ k.id = request[r].id /\ k.seen = request[r].seen /\ k.revision = request[r].revision
        /\ k.pc = "publishing" /\ k.op = request[r].op /\ k.since = request[r].since /\ k.at = request[r].at
        /\ k.out = request[r].out
    BY <2>0 DEF WorkerCall
  <2>3. k \in WorkerCall(s)
    BY <2>0, <2>d DEF WorkerCall, WorkerPc
  <2> HIDE DEF k
  <2>4. WorkerCallOk(k, mutations, time)
    BY <1>0, <2>2, CallNumbers DEF WorkerCallOk
  <2>5. ~Running(k) /\ ~Running(request[r])
    BY <1>0, <2>2 DEF Running
  <2> QED  BY <1>0, <2>1, <2>2, <2>3, <2>4, <2>5, CallMoves
<1>2. CASE ~(result # "range" /\ s.publisher)
  <2> DEFINE out == IF result = "ok" THEN Worker(s)!Nothing ELSE Worker(s)!Answer("error", 0)
             done == result = "ok"
  <2>1. Worker(s)!Resolve(r, out, done, FALSE)
    BY <1>2 DEF Worker!DeleteReturns
  <2>2. out \in WorkerAnswer /\ out.from \in {"nothing", "error"} /\ (out.from = "nothing" => done)
    BY DEF WorkerAnswer, Worker!Nothing, Worker!Answer
  <2>3. done \in BOOLEAN
    OBVIOUS
  <2> HIDE DEF out, done
  <2> QED  BY <1>0, <2>1, <2>2, <2>3, WorkerResolve
<1> QED  BY <1>1, <1>2

LEMMA WorkerPublishReturns ==
  ASSUME NEW s \in Setups, WorkerInv(s), NEW r \in Request, NEW ok \in BOOLEAN, Worker(s)!PublishReturns(r, ok)
  PROVE  WorkerInv(s)'
<1> DEFINE out == IF ok THEN Worker(s)!Nothing ELSE Worker(s)!Answer("error", 0)
<1>1. request[r].pc = "publishing" /\ UNCHANGED <<time, l1, stored, inflight, mutations, closed>>
  BY DEF Worker!PublishReturns
<1>2. Worker(s)!Resolve(r, out, request[r].kv, ok)
  BY DEF Worker!PublishReturns
<1>3. out \in WorkerAnswer /\ out.from \in {"nothing", "error"} /\ (out.from = "nothing" => ok)
  BY DEF WorkerAnswer, Worker!Nothing, Worker!Answer
<1>4. request[r].kv \in BOOLEAN
  BY CallNumbers DEF WorkerCall
<1> HIDE DEF out
<1> QED  BY <1>1, <1>2, <1>3, <1>4, WorkerResolve

LEMMA WorkerClose == ASSUME NEW s \in Setups, WorkerInv(s), Worker(s)!Close PROVE WorkerInv(s)'
<1>1. /\ closed' = TRUE /\ inflight' = None /\ current' = 0
      /\ UNCHANGED <<time, l1, stored, state, request, mutations>>
  BY DEF Worker!Close
<1>2. WorkerTypes(s)'
  <2>1. closed' \in BOOLEAN
    BY <1>1
  <2> QED  BY <1>1, <2>1 DEF WorkerInv, WorkerTypes
<1>3. \A q \in Request : WorkerCallOk(request[q], mutations, time)'
  BY <1>1 DEF WorkerInv
<1>4. \A i : Guarding(i)' = Guarding(i)
  BY <1>1 DEF Guarding
<1>5. GuardCount(s)' /\ GuardsFresh(s)'
  BY <1>1, <1>4, WorkerConstants DEF WorkerInv, GuardCount, GuardsFresh
<1>6. LoadsOk'
  BY <1>1 DEF WorkerInv, LoadsOk, Running
<1>7. L1Ok'
  BY <1>1 DEF WorkerInv, L1Ok
<1> QED  BY <1>2, <1>3, <1>5, <1>6, <1>7 DEF WorkerInv

LEMMA WorkerTick == ASSUME NEW s \in Setups, WorkerInv(s), Worker(s)!Tick PROVE WorkerInv(s)'
<1>1. /\ time < s.maxTime /\ time' = time + 1 /\ stored' \subseteq stored
      /\ UNCHANGED <<l1, state, current, inflight, request, mutations, closed>>
  BY DEF Worker!Tick
<1>2. time' \in 0..s.maxTime /\ time \in Nat
  BY <1>1, WorkerNumbers
<1>3. \A q \in Request : WorkerCallOk(request[q], mutations, time)'
  BY <1>1, <1>2, CallNumbers DEF WorkerCallOk
<1>4. GuardStep(s)
  BY <1>1, GuardsKept
<1>5. LoadsOk'
  BY <1>1 DEF WorkerInv, LoadsOk, Running
<1>6. L1Ok'
  BY <1>1 DEF WorkerInv, L1Ok
<1>7. WorkerTypes(s)'
  BY <1>1, <1>2 DEF WorkerInv, WorkerTypes
<1> QED  BY <1>3, <1>4, <1>5, <1>6, <1>7 DEF WorkerInv, GuardStep

LEMMA WorkerStep == ASSUME NEW s \in Setups, WorkerInv(s), Worker(s)!Next PROVE WorkerInv(s)'
<1>1. ASSUME NEW r \in Request, Worker(s)!Set(r) \/ Worker(s)!Delete(r) PROVE WorkerInv(s)'
  BY <1>1, WorkerMutate DEF Worker!Set, Worker!Delete
<1> QED  BY <1>1, WorkerClose, WorkerTick, WorkerGet, WorkerReadReturns, WorkerReadFails, WorkerLead, WorkerLoadStarts,
            WorkerLoadReturns, WorkerPutReturns, WorkerPattern, WorkerDeleteReturns, WorkerPublishReturns
         DEF Worker!Next

LEMMA WorkerStutter == ASSUME NEW s \in Setups, WorkerInv(s), UNCHANGED workerVars PROVE WorkerInv(s)'
<1>1. UNCHANGED <<time, l1, stored, state, current, inflight, request, mutations, closed>>
  BY DEF workerVars
<1>2. WorkerTypes(s)' /\ (\A q \in Request : WorkerCallOk(request[q], mutations, time)') /\ L1Ok'
  BY <1>1 DEF WorkerInv, WorkerTypes, L1Ok
<1>3. GuardStep(s)
  BY <1>1, GuardsKept
<1>4. LoadsOk'
  BY <1>1 DEF WorkerInv, LoadsOk, Running
<1> QED  BY <1>2, <1>3, <1>4 DEF WorkerInv, GuardStep

\* Once the facade is closed no step writes to L1.
LEMMA ClosedStays ==
  ASSUME NEW s \in Setups, Worker(s)!Next, closed
  PROVE  l1' \in {l1, None}
<1>1. ASSUME NEW r \in Request, Worker(s)!ReadReturns(r) PROVE l1' \in {l1, None}
  BY <1>1 DEF Worker!ReadReturns, Worker!isCurrent
<1>2. ASSUME NEW r \in Request, NEW ok \in BOOLEAN, NEW lands \in BOOLEAN, Worker(s)!PutReturns(r, ok, lands)
      PROVE  l1' \in {l1, None}
  BY <1>2 DEF Worker!PutReturns, Worker!isCurrent
<1>3. ASSUME NEW r \in Request, \/ \E op \in {"get", "getOrSet"} : Worker(s)!Get(r, op)
                                \/ Worker(s)!Set(r) \/ Worker(s)!Delete(r) \/ Worker(s)!DeleteByPattern(r)
      PROVE  l1' \in {l1, None}
  BY <1>3 DEF Worker!Get, Worker!Set, Worker!Delete, Worker!Mutate, Worker!DeleteByPattern
<1>4. ASSUME NEW r \in Request,
             \/ Worker(s)!ReadFails(r) \/ Worker(s)!Lead(r) \/ Worker(s)!LoadStarts(r)
             \/ \E out \in {"value", "nothing", "error"} : Worker(s)!LoadReturns(r, out)
             \/ \E result \in {"ok", "fails", "range"} : Worker(s)!DeleteReturns(r, result)
             \/ \E ok \in BOOLEAN : Worker(s)!PublishReturns(r, ok)
      PROVE  l1' \in {l1, None}
  BY <1>4 DEF Worker!ReadFails, Worker!Lead, Worker!LoadStarts, Worker!LoadReturns, Worker!DeleteReturns,
       Worker!PublishReturns
<1>5. CASE Worker(s)!Close \/ Worker(s)!Tick
  BY <1>5 DEF Worker!Close, Worker!Tick
<1> QED  BY <1>1, <1>2, <1>3, <1>4, <1>5 DEF Worker!Next

\* The invariant says what the Worker cache promises.
LEMMA WorkerPromises ==
  ASSUME NEW s \in Setups, WorkerInv(s)
  PROVE  /\ Worker(s)!TypeOK /\ Worker(s)!L1SinceMutation /\ Worker(s)!L1WithinTtl /\ Worker(s)!SharedIsFresh
         /\ Worker(s)!OneLoad /\ Worker(s)!GuardsExact /\ Worker(s)!ResolvedMeansDone
<1>1. Worker(s)!TypeOK
  <2>1. ASSUME NEW i \in Worker(s)!Ids PROVE state[i].references \in 0..Worker(s)!Cardinality(Request)
    <3>1. state[i].references = Cardinality(Guarding(i))
      BY DEF WorkerInv, GuardCount
    <3> QED  BY <3>1, GuardingFinite, SameCardinality, WorkerConstants
  <2>2. \A r \in Request : request[r].id \in Worker(s)!Ids \cup {0} /\ request[r].seen \in 0..mutations
    BY CallNumbers, WorkerNumbers DEF WorkerCall
  <2> QED  BY <2>1, <2>2 DEF Worker!TypeOK, WorkerInv, WorkerTypes
<1>2. Worker(s)!L1SinceMutation /\ Worker(s)!L1WithinTtl
  BY DEF WorkerInv, L1Ok, Worker!L1SinceMutation, Worker!L1WithinTtl
<1>3. Worker(s)!SharedIsFresh /\ Worker(s)!ResolvedMeansDone
  BY DEF WorkerInv, WorkerCallOk, Worker!SharedIsFresh, Worker!ResolvedMeansDone, Worker!Nothing, Worker!Answer
<1>4. Worker(s)!OneLoad
  BY DEF WorkerInv, LoadsOk, Running, Worker!OneLoad, Worker!Loading
<1>5. Worker(s)!GuardsExact
  <2>1. \A i : Worker(s)!Holding(i) = Guarding(i)
    BY DEF Worker!Holding, Guarding
  <2> QED  BY <2>1, SameCardinality DEF WorkerInv, GuardCount, Worker!GuardsExact
<1> QED  BY <1>1, <1>2, <1>3, <1>4, <1>5

-----------------------------------------------------------------------------
(* RedisStore: lemmas *)

LEMMA RedisConstants ==
  ASSUME NEW s \in Layouts
  PROVE  /\ IsFiniteSet(s.keys) /\ IsFiniteSet(s.clients)
         /\ s.versioned \in BOOLEAN /\ s.indexed \in BOOLEAN /\ s.snapshot \in BOOLEAN
         /\ s.maxEntries \in Nat /\ s.maxWrites \in Nat /\ s.maxFaults \in Nat
         /\ s.ttl \in Nat \ {0} /\ s.batchSize \in Nat \ {0} /\ s.maxTime \in Nat \ {0}
<1>1. Redis(s)!RedisStoreAssumption
  BY StorageAssumption
<1>2. IsFiniteSet(s.keys) /\ IsFiniteSet(s.clients)
  BY <1>1, SameFinite DEF Redis!RedisStoreAssumption
<1> QED  BY <1>1, <1>2 DEF Redis!RedisStoreAssumption

\* What Become makes of a task.
Became(s, t) == IF t.step # "done" THEN t ELSE [Redis(s)!Idle EXCEPT !.ok = t.ok, !.excess = t.excess]

LEMMA IdleTask == ASSUME NEW s \in Layouts PROVE Redis(s)!Idle \in RedisTask(s)
BY RedisConstants DEF Redis!Idle, Redis!Nothing, Redis!Steps, RedisTask

LEMMA BecameOk ==
  ASSUME NEW s \in Layouts, NEW t \in RedisTask(s)
  PROVE  /\ Became(s, t) \in RedisTask(s) /\ Became(s, t).ok = t.ok /\ Became(s, t).step = t.step
         /\ \A w \in Nat : RedisTaskOk(s, t, w) => RedisTaskOk(s, Became(s, t), w)
         /\ \A d : Unreached(s, t, d) => Unreached(s, Became(s, t), d)
         /\ \A d, x : AloneOk(s, t, d, x) => AloneOk(s, Became(s, t), d, x)
         /\ Counting(t) => Counting(Became(s, t))
         /\ \A x : Trimming(s, t, x) => Trimming(s, Became(s, t), x)
<1>1. CASE t.step # "done"
  BY <1>1 DEF Became
<1>2. CASE t.step = "done"
  <2> DEFINE k == [Redis(s)!Idle EXCEPT !.ok = t.ok, !.excess = t.excess]
  <2>1. Became(s, t) = k
    BY <1>2 DEF Became
  <2>2. k \in RedisTask(s)
    BY IdleTask, ZenonT(60) DEF RedisTask
  <2>3. /\ k.ok = t.ok /\ k.step = "done" /\ k.op = "idle" /\ k.excess = t.excess /\ k.left = {} /\ k.batch = {}
        /\ k.todo = {} /\ k.ran = 0 /\ k.before = 0
    BY DEF Redis!Idle
  <2> HIDE DEF k
  <2>4. \A w \in Nat : RedisTaskOk(s, t, w) => RedisTaskOk(s, k, w)
    BY <2>3 DEF RedisTaskOk
  <2>5. \A d : Unreached(s, k, d)
    BY <2>3 DEF Unreached
  <2>6. \A d, x : AloneOk(s, t, d, x) => AloneOk(s, k, d, x)
    BY <1>2, <2>3 DEF AloneOk
  <2>7. ~Counting(t) /\ \A x : ~Trimming(s, t, x)
    BY <1>2 DEF Counting, Trimming
  <2> QED  BY <1>2, <2>1, <2>2, <2>3, <2>4, <2>5, <2>6, <2>7
<1> QED  BY <1>1, <1>2

LEMMA RedisStart == ASSUME NEW s \in Layouts, Redis(s)!Init PROVE RedisInv(s)
<1>1. /\ clock = 1 /\ writes = 0 /\ faults = 0 /\ data = [k \in s.keys |-> Redis(s)!Nothing]
      /\ index = [k \in s.keys |-> 0] /\ task = [c \in s.clients |-> Redis(s)!Idle]
  BY DEF Redis!Init
<1>2. /\ s.maxEntries \in Nat /\ s.maxWrites \in Nat /\ s.maxFaults \in Nat /\ s.ttl \in Nat /\ s.maxTime \in Nat \ {0}
  BY RedisConstants
<1>3. RedisTypes(s)
  <2>1. task \in [s.clients -> RedisTask(s)]
    BY <1>1, IdleTask
  <2>2. /\ data \in [s.keys -> [write : 0..writes, until : 0..s.maxTime + s.ttl]]
        /\ index \in [s.keys -> 0..s.maxTime + s.ttl]
    BY <1>1, <1>2 DEF Redis!Nothing
  <2> QED  BY <1>1, <1>2, <2>1, <2>2 DEF RedisTypes
<1>4. RedisTasks(s)
  BY <1>1 DEF RedisTasks, RedisTaskOk, Unreached, Redis!Idle
<1>5. LimitInv(s)
  <2>1. MembersOf(s, index) = {}
    BY <1>1 DEF MembersOf
  <2> QED  BY <1>2, <2>1, FS_EmptySet DEF LimitInv
<1>6. AloneInv(s)
  BY <1>1 DEF AloneInv, DataLives, AloneOk, Redis!Idle
<1> QED  BY <1>3, <1>4, <1>5, <1>6 DEF RedisInv

LEMMA MembersFinite ==
  ASSUME NEW s \in Layouts, NEW x, NEW S
  PROVE  /\ IsFiniteSet(MembersOf(s, x)) /\ Cardinality(MembersOf(s, x)) \in Nat
         /\ IsFiniteSet(MembersOf(s, x) \ S) /\ Cardinality(MembersOf(s, x) \ S) \in Nat
<1>1. MembersOf(s, x) \subseteq s.keys /\ MembersOf(s, x) \ S \subseteq s.keys
  BY DEF MembersOf
<1> QED  BY <1>1, RedisConstants, FS_Subset, FS_CardinalityType

\* Members that go, and nothing else, leave a trim what it is.
LEMMA TrimmingKept ==
  ASSUME NEW s \in Layouts, NEW t, t.size \in Nat, t.todo \subseteq s.keys, NEW x, NEW y, \A k \in s.keys : y[k] \in {x[k], 0}
  PROVE  /\ Cardinality(MembersOf(s, x)) <= s.maxEntries => Cardinality(MembersOf(s, y)) <= s.maxEntries
         /\ Trimming(s, t, x) => Trimming(s, t, y)
<1>0. s.maxEntries \in Nat
  BY RedisConstants
<1>1. MembersOf(s, y) \subseteq MembersOf(s, x)
  BY DEF MembersOf
<1>2. ASSUME NEW S
      PROVE  /\ Cardinality(MembersOf(s, y) \ S) <= Cardinality(MembersOf(s, x) \ S)
             /\ Cardinality(MembersOf(s, y) \ S) \in Nat /\ Cardinality(MembersOf(s, x) \ S) \in Nat
  <2>1. MembersOf(s, y) \ S \subseteq MembersOf(s, x) \ S
    BY <1>1
  <2> QED  BY <2>1, MembersFinite, FS_Subset
<1>3. /\ Cardinality(MembersOf(s, y)) <= Cardinality(MembersOf(s, x))
      /\ Cardinality(MembersOf(s, y)) \in Nat /\ Cardinality(MembersOf(s, x)) \in Nat
  BY <1>1, MembersFinite, FS_Subset
<1>4. ASSUME t.step = "recheck", \A k \in t.todo : x[k] \in {t.seen[k], 0} PROVE \A k \in t.todo : y[k] \in {t.seen[k], 0}
  BY <1>4
<1>5. ASSUME Trimming(s, t, x) PROVE Trimming(s, t, y)
  <2>1. CASE t.step = "zrange"
    BY <1>3, <1>5, <2>1 DEF Trimming
  <2>2. CASE t.step = "recheck"
    <3> DEFINE S == t.todo \cup t.batch
    <3>1. /\ \A k \in t.todo : y[k] \in {t.seen[k], 0}
          /\ Cardinality(MembersOf(s, x) \ S) <= s.maxEntries
      BY <1>4, <1>5, <2>2 DEF Trimming
    <3> HIDE DEF S
    <3>2. Cardinality(MembersOf(s, y) \ S) <= s.maxEntries
      BY <1>0, <1>2, <3>1
    <3> QED  BY <2>2, <3>1, <3>2 DEF Trimming, S
  <2>3. CASE t.step \in {"delete", "zrem"}
    <3>1. Cardinality(MembersOf(s, x) \ t.batch) <= s.maxEntries
      BY <1>5, <2>3 DEF Trimming
    <3>2. Cardinality(MembersOf(s, y) \ t.batch) <= s.maxEntries
      BY <1>0, <1>2, <3>1, SMTT(60)
    <3> QED  BY <2>3, <3>2 DEF Trimming
  <2> QED  BY <1>5, <2>1, <2>2, <2>3 DEF Trimming
<1> QED  BY <1>0, <1>3, <1>5

\* What a step of a client, whose task becomes t, does to the limit of the index.
LimitMoves(s, c, t) ==
  \/ Counting(t)
  \/ /\ \A k \in s.keys : index'[k] \in {index[k], 0}
     /\ Counting(task[c]) \/ Trimming(s, task[c], index) =>
          \/ Cardinality(MembersOf(s, index')) <= s.maxEntries
          \/ Counting(t) \/ Trimming(s, t, index')

\* One client takes a step: its task becomes t.
LEMMA RedisMoves ==
  ASSUME NEW s \in Layouts, RedisInv(s), NEW c \in s.clients, NEW t \in RedisTask(s), Redis(s)!Become(c, t),
         clock' = clock, faults' \in faults..s.maxFaults, writes' \in writes..s.maxWrites,
         data' \in [s.keys -> [write : 0..writes', until : 0..s.maxTime + s.ttl]],
         index' \in [s.keys -> 0..s.maxTime + s.ttl], DataLives(s)',
         \A k \in s.keys : data'[k] = data[k] \/ data'[k] = Redis(s)!Nothing \/ data'[k].write > writes,
         RedisTaskOk(s, t, writes'), Unreached(s, t, data'), faults' = 0 => t.ok,
         s.indexed /\ faults' = 0 => LimitMoves(s, c, t),
         Alone(s) /\ faults' = 0 => AloneOk(s, t, data', index'),
         task[c].step # "done" => t.op = task[c].op /\ t.scope = task[c].scope /\ t.before = task[c].before
  PROVE  RedisInv(s)' /\ Redis(s)!ReachedAll
<1>n. /\ clock \in Nat /\ faults \in Nat /\ writes \in Nat /\ s.maxFaults \in Nat /\ s.maxWrites \in Nat
      /\ faults' \in 0..s.maxFaults /\ writes' \in 0..s.maxWrites /\ writes' >= writes /\ (faults' = 0 => faults = 0)
      /\ task \in [s.clients -> RedisTask(s)] /\ s.maxEntries \in Nat
  BY RedisConstants DEF RedisInv, RedisTypes
<1> DEFINE k == Became(s, t)
<1>1. task' = [task EXCEPT ![c] = k]
  BY DEF Redis!Become, Became
<1>2. /\ k \in RedisTask(s) /\ k.ok = t.ok /\ k.step = t.step /\ RedisTaskOk(s, k, writes')
      /\ Unreached(s, k, data') /\ (AloneOk(s, t, data', index') => AloneOk(s, k, data', index'))
      /\ (Counting(t) => Counting(k)) /\ (Trimming(s, t, index') => Trimming(s, k, index'))
  BY <1>n, BecameOk
<1> HIDE DEF k
<1>3. /\ task' \in [s.clients -> RedisTask(s)] /\ task'[c] = k
      /\ \A b \in s.clients \ {c} : task'[b] = task[b]
  BY <1>1, <1>2, <1>n
<1>4. RedisTypes(s)'
  BY <1>3, <1>n DEF RedisInv, RedisTypes
<1>5. RedisTasks(s)'
  <2>1. ASSUME NEW b \in s.clients, b # c
        PROVE  RedisTaskOk(s, task[b], writes') /\ Unreached(s, task[b], data')
    <3>1. RedisTaskOk(s, task[b], writes) /\ Unreached(s, task[b], data)
      BY DEF RedisInv, RedisTasks
    <3>2. task[b] \in RedisTask(s) /\ task[b].before \in Nat /\ task[b].scope \subseteq s.keys
      BY <1>n DEF RedisTask
    <3>3. RedisTaskOk(s, task[b], writes')
      BY <1>n, <3>1, <3>2 DEF RedisTaskOk
    <3>4. task[b].before <= writes
      BY <3>1 DEF RedisTaskOk
    <3>5. \A i \in s.keys : data'[i].write \in Nat
      BY <1>n
    <3>6. Unreached(s, task[b], data')
      BY <1>n, <3>1, <3>2, <3>4, <3>5 DEF Unreached
    <3> QED  BY <3>3, <3>6
  <2>2. \A b \in s.clients : RedisTaskOk(s, task'[b], writes') /\ Unreached(s, task'[b], data')
    BY <1>2, <1>3, <2>1
  <2>3. faults' = 0 => \A b \in s.clients : task'[b].ok
    BY <1>2, <1>3, <1>n DEF RedisInv, RedisTasks
  <2> QED  BY <2>2, <2>3 DEF RedisTasks
<1>6. LimitInv(s)'
  <2> SUFFICES ASSUME s.indexed, faults' = 0
               PROVE  \/ Cardinality(MembersOf(s, index')) <= s.maxEntries
                      \/ \E b \in s.clients : Counting(task'[b]) \/ Trimming(s, task'[b], index')
    BY DEF LimitInv, MembersOf, Counting, Trimming
  <2>1. CASE Counting(t)
    BY <1>2, <1>3, <2>1
  <2>2. CASE ~Counting(t)
    <3>1. /\ \A i \in s.keys : index'[i] \in {index[i], 0}
          /\ Counting(task[c]) \/ Trimming(s, task[c], index) =>
               Cardinality(MembersOf(s, index')) <= s.maxEntries \/ Trimming(s, t, index')
      BY <2>2 DEF LimitMoves
    <3>2. CASE Cardinality(MembersOf(s, index)) <= s.maxEntries
      <4>1. t.size \in Nat /\ t.todo \subseteq s.keys
        BY DEF RedisTask
      <4> QED  BY <3>1, <3>2, <4>1, TrimmingKept
    <3>3. ASSUME NEW b \in s.clients, Counting(task[b]) \/ Trimming(s, task[b], index)
          PROVE  \/ Cardinality(MembersOf(s, index')) <= s.maxEntries
                 \/ Counting(task'[b]) \/ Trimming(s, task'[b], index')
      <4>1. CASE b = c
        BY <1>2, <1>3, <3>1, <3>3, <4>1
      <4>2. CASE b # c
        <5>1. task[b].size \in Nat /\ task[b].todo \subseteq s.keys /\ task'[b] = task[b]
          BY <1>3, <1>n, <4>2 DEF RedisTask
        <5>2. Trimming(s, task[b], index) => Trimming(s, task[b], index')
          BY <3>1, <5>1, TrimmingKept
        <5> QED  BY <3>3, <5>1, <5>2
      <4> QED  BY <4>1, <4>2
    <3>4. \/ Cardinality(MembersOf(s, index)) <= s.maxEntries
          \/ \E b \in s.clients : Counting(task[b]) \/ Trimming(s, task[b], index)
      BY <1>n DEF RedisInv, LimitInv
    <3> QED  BY <3>2, <3>3, <3>4
  <2> QED  BY <2>1, <2>2
<1>7. AloneInv(s)'
  <2> SUFFICES ASSUME Alone(s), faults' = 0, NEW b \in s.clients PROVE AloneOk(s, task'[b], data', index')
    BY DEF AloneInv, Alone, AloneOk
  <2>1. b = c
    BY RedisConstants, FS_Singleton DEF Alone
  <2> QED  BY <1>2, <1>3, <2>1
<1>8. Redis(s)!ReachedAll
  <2> SUFFICES ASSUME NEW b \in s.clients, task[b].step # "done", task'[b].step = "done", task'[b].ok,
                      task[b].op = "delete" \/ (task[b].op = "pattern" /\ ~s.indexed), NEW i \in task[b].scope
               PROVE  data'[i] = Redis(s)!Nothing \/ data'[i].write > task[b].before
    BY DEF Redis!ReachedAll, Redis!Reached
  <2>1. b = c
    BY <1>3
  <2>2. t.step = "done" /\ t.ok /\ t.op = task[b].op /\ i \in t.scope /\ t.before = task[b].before
    BY <1>2, <1>3, <2>1
  <2>3. t.left = {} /\ t.todo = {}
    BY <2>2 DEF RedisTaskOk
  <2> QED  BY <2>2, <2>3 DEF Unreached
<1> QED  BY <1>4, <1>5, <1>6, <1>7, <1>8 DEF RedisInv

LEMMA TaskFacts ==
  ASSUME NEW s \in Layouts, RedisInv(s), NEW c \in s.clients
  PROVE  /\ task[c] \in RedisTask(s) /\ RedisTaskOk(s, task[c], writes) /\ Unreached(s, task[c], data)
         /\ (faults = 0 => task[c].ok)
         /\ (Alone(s) /\ faults = 0 => AloneOk(s, task[c], data, index))
BY DEF RedisInv, RedisTypes, RedisTasks, AloneInv

LEMMA RedisNumbers ==
  ASSUME NEW s \in Layouts, RedisInv(s)
  PROVE  /\ clock \in Nat /\ faults \in Nat /\ writes \in Nat /\ clock \in 1..s.maxTime
         /\ faults \in 0..s.maxFaults /\ writes \in 0..s.maxWrites
         /\ s.maxFaults \in Nat /\ s.maxWrites \in Nat /\ s.maxTime \in Nat /\ s.ttl \in Nat \ {0}
         /\ data \in [s.keys -> [write : 0..writes, until : 0..s.maxTime + s.ttl]]
         /\ index \in [s.keys -> 0..s.maxTime + s.ttl]
         /\ task \in [s.clients -> RedisTask(s)] /\ DataLives(s)
BY RedisConstants DEF RedisInv, RedisTypes, AloneInv

\* A step that changes nothing but the task of the client that takes it.
LEMMA TaskMoves ==
  ASSUME NEW s \in Layouts, RedisInv(s), NEW c \in s.clients, NEW t \in RedisTask(s), Redis(s)!Become(c, t),
         UNCHANGED <<clock, writes, data, index, faults>>,
         RedisTaskOk(s, t, writes), Unreached(s, t, data), faults = 0 => t.ok,
         s.indexed /\ faults = 0 /\ (Counting(task[c]) \/ Trimming(s, task[c], index)) =>
           Cardinality(MembersOf(s, index)) <= s.maxEntries \/ Counting(t) \/ Trimming(s, t, index),
         Alone(s) /\ faults = 0 => AloneOk(s, t, data, index),
         task[c].step # "done" => t.op = task[c].op /\ t.scope = task[c].scope /\ t.before = task[c].before
  PROVE  RedisInv(s)' /\ Redis(s)!ReachedAll
<1>1. /\ faults' \in faults..s.maxFaults /\ writes' \in writes..s.maxWrites
      /\ data' \in [s.keys -> [write : 0..writes', until : 0..s.maxTime + s.ttl]]
      /\ index' \in [s.keys -> 0..s.maxTime + s.ttl]
  BY RedisNumbers
<1>2. DataLives(s)'
  BY RedisNumbers DEF DataLives
<1>3. s.indexed /\ faults' = 0 => LimitMoves(s, c, t)
  BY DEF LimitMoves
<1>4. RedisTaskOk(s, t, writes') /\ Unreached(s, t, data')
  OBVIOUS
<1>5. Alone(s) /\ faults' = 0 => AloneOk(s, t, data', index')
  OBVIOUS
<1>6. \A k \in s.keys : data'[k] = data[k]
  OBVIOUS
<1> QED  BY <1>1, <1>2, <1>3, <1>4, <1>5, <1>6, RedisMoves

\* A call begins: with nothing in its batch that it need not delete.
LEMMA RedisCall ==
  ASSUME NEW s \in Layouts, RedisInv(s), NEW c \in s.clients, NEW t \in RedisTask(s), Redis(s)!Call(c, t),
         RedisTaskOk(s, t, writes), Unreached(s, t, data), t.ok, t.step # "unindex", t.batch = t.left
  PROVE  RedisInv(s)' /\ Redis(s)!ReachedAll
<1>1. task[c].step = "done" /\ Redis(s)!Become(c, t) /\ UNCHANGED <<clock, writes, data, index, faults>>
  BY DEF Redis!Call, Redis!At, Redis!redis
<1>2. ~Counting(task[c]) /\ ~Trimming(s, task[c], index)
  BY <1>1 DEF Counting, Trimming
<1>3. Alone(s) /\ faults = 0 => AloneOk(s, t, data, index)
  <2> SUFFICES ASSUME Alone(s), faults = 0 PROVE AloneOk(s, t, data, index)  OBVIOUS
  <2>1. \A k \in s.keys : data[k] # Redis(s)!Nothing => index[k] >= data[k].until
    BY <1>1, TaskFacts DEF AloneOk
  <2> QED  BY <2>1 DEF AloneOk
<1> QED  BY <1>1, <1>2, <1>3, TaskMoves

LEMMA DoingTask ==
  ASSUME NEW s \in Layouts, NEW op \in {"set", "get", "delete", "pattern", "size", "inspect"},
         NEW step \in Redis(s)!Steps
  PROVE  LET t == Redis(s)!Doing(op, step)
         IN  /\ t \in RedisTask(s) /\ t.op = op /\ t.step = step /\ t.ran = 0 /\ t.left = {} /\ t.batch = {}
             /\ t.excess = {} /\ t.before = 0 /\ t.ok /\ t.todo = {}
<1> DEFINE idle == Redis(s)!Idle
<1>1. idle \in RedisTask(s)
  BY IdleTask
<1>2. /\ idle.ran = 0 /\ idle.left = {} /\ idle.batch = {} /\ idle.excess = {} /\ idle.before = 0 /\ idle.ok
      /\ idle.todo = {}
  BY DEF Redis!Idle
<1>3. Redis(s)!Doing(op, step) = [idle EXCEPT !.op = op, !.step = step]
  BY DEF Redis!Doing
<1> HIDE DEF idle
<1>4. [idle EXCEPT !.op = op, !.step = step] \in RedisTask(s)
  BY <1>1 DEF RedisTask
<1> QED  BY <1>1, <1>2, <1>3, <1>4 DEF RedisTask

LEMMA StepNames ==
  ASSUME NEW s \in Layouts
  PROVE  {"write", "zadd", "prune", "zcard", "zrange", "recheck", "delete", "zrem", "scan", "read", "pttl",
          "unindex", "done"} \subseteq Redis(s)!Steps
BY DEF Redis!Steps

LEMMA RedisSet ==
  ASSUME NEW s \in Layouts, RedisInv(s), NEW c \in s.clients, NEW k \in s.keys, Redis(s)!Set(c, k)
  PROVE  RedisInv(s)' /\ Redis(s)!ReachedAll
<1> DEFINE since == IF s.versioned THEN 0 ELSE clock
           t == [Redis(s)!Doing("set", "write") EXCEPT !.key = k, !.since = since]
<1>1. Redis(s)!Call(c, t)
  BY DEF Redis!Set
<1>b. LET d == Redis(s)!Doing("set", "write")
      IN  /\ d \in RedisTask(s) /\ d.op = "set" /\ d.step = "write" /\ d.ran = 0 /\ d.left = {} /\ d.batch = {}
          /\ d.excess = {} /\ d.before = 0 /\ d.ok /\ d.todo = {}
  BY StepNames, DoingTask
<1>c. since \in 0..s.maxTime
  BY RedisNumbers
<1> HIDE DEF since
<1>2. t \in RedisTask(s)
  BY <1>b, <1>c DEF RedisTask
<1>3. /\ t.op = "set" /\ t.step = "write" /\ t.key = k /\ t.ran = 0 /\ t.left = {} /\ t.batch = {} /\ t.excess = {}
      /\ t.before = 0 /\ t.ok
  BY <1>b DEF RedisTask
<1> HIDE DEF t
<1>4. RedisTaskOk(s, t, writes) /\ Unreached(s, t, data)
  BY <1>3, RedisNumbers DEF RedisTaskOk, Unreached
<1> QED  BY <1>1, <1>2, <1>3, <1>4, RedisCall

LEMMA RedisGet ==
  ASSUME NEW s \in Layouts, RedisInv(s), NEW c \in s.clients, NEW k \in s.keys, Redis(s)!Get(c, k)
  PROVE  RedisInv(s)' /\ Redis(s)!ReachedAll
<1> DEFINE t == [Redis(s)!Doing("get", "read") EXCEPT !.key = k, !.todo = {k}]
<1>1. Redis(s)!Call(c, t)
  BY DEF Redis!Get
<1>b. LET d == Redis(s)!Doing("get", "read")
      IN  /\ d \in RedisTask(s) /\ d.op = "get" /\ d.step = "read" /\ d.ran = 0 /\ d.left = {} /\ d.batch = {}
          /\ d.excess = {} /\ d.before = 0 /\ d.ok /\ d.todo = {}
  BY StepNames, DoingTask
<1>2. t \in RedisTask(s)
  BY <1>b, ZenonT(60) DEF RedisTask
<1>3. /\ t.op = "get" /\ t.step = "read" /\ t.key = k /\ t.ran = 0 /\ t.left = {} /\ t.batch = {} /\ t.excess = {}
      /\ t.before = 0 /\ t.ok /\ t.todo = {k}
  BY <1>b DEF RedisTask
<1> HIDE DEF t
<1>4. RedisTaskOk(s, t, writes) /\ Unreached(s, t, data)
  BY <1>3, RedisNumbers DEF RedisTaskOk, Unreached
<1> QED  BY <1>1, <1>2, <1>3, <1>4, RedisCall

LEMMA RedisSize ==
  ASSUME NEW s \in Layouts, RedisInv(s), NEW c \in s.clients, Redis(s)!Size(c)
  PROVE  RedisInv(s)' /\ Redis(s)!ReachedAll
<1> DEFINE t == Redis(s)!Doing("size", "prune")
<1>1. Redis(s)!Call(c, t)
  BY DEF Redis!Size
<1>b. LET d == Redis(s)!Doing("size", "prune")
      IN  /\ d \in RedisTask(s) /\ d.op = "size" /\ d.step = "prune" /\ d.ran = 0 /\ d.left = {} /\ d.batch = {}
          /\ d.excess = {} /\ d.before = 0 /\ d.ok /\ d.todo = {}
  BY StepNames, DoingTask
<1>2. t \in RedisTask(s)
  BY <1>b DEF RedisTask
<1>3. /\ t.op = "size" /\ t.step = "prune" /\ t.ran = 0 /\ t.left = {} /\ t.batch = {} /\ t.excess = {}
      /\ t.before = 0 /\ t.ok
  BY <1>b DEF RedisTask
<1> HIDE DEF t
<1>4. RedisTaskOk(s, t, writes) /\ Unreached(s, t, data)
  BY <1>3, RedisNumbers DEF RedisTaskOk, Unreached
<1> QED  BY <1>1, <1>2, <1>3, <1>4, RedisCall

LEMMA RedisInspect ==
  ASSUME NEW s \in Layouts, RedisInv(s), NEW c \in s.clients, Redis(s)!Inspect(c)
  PROVE  RedisInv(s)' /\ Redis(s)!ReachedAll
<1>0. PICK S \in SUBSET s.keys, step \in {"prune", "read", "done"} :
        Redis(s)!Call(c, [Redis(s)!Doing("inspect", step) EXCEPT !.todo = S])
  BY DEF Redis!Inspect
<1> DEFINE t == [Redis(s)!Doing("inspect", step) EXCEPT !.todo = S]
<1>1. Redis(s)!Call(c, t)
  BY <1>0
<1>b. LET d == Redis(s)!Doing("inspect", step)
      IN  /\ d \in RedisTask(s) /\ d.op = "inspect" /\ d.step = step /\ d.ran = 0 /\ d.left = {} /\ d.batch = {}
          /\ d.excess = {} /\ d.before = 0 /\ d.ok /\ d.todo = {}
  BY StepNames, DoingTask
<1>2. t \in RedisTask(s)
  BY <1>b DEF RedisTask
<1>3. /\ t.op = "inspect" /\ t.step = step /\ t.ran = 0 /\ t.left = {} /\ t.batch = {} /\ t.excess = {}
      /\ t.before = 0 /\ t.ok
  BY <1>b DEF RedisTask
<1> HIDE DEF t
<1>4. RedisTaskOk(s, t, writes) /\ Unreached(s, t, data)
  BY <1>3, RedisNumbers DEF RedisTaskOk, Unreached
<1> QED  BY <1>1, <1>2, <1>3, <1>4, RedisCall

LEMMA RedisDelete ==
  ASSUME NEW s \in Layouts, RedisInv(s), NEW c \in s.clients, NEW k \in s.keys, Redis(s)!Delete(c, k)
  PROVE  RedisInv(s)' /\ Redis(s)!ReachedAll
<1> DEFINE u == [Redis(s)!Doing("delete", "delete") EXCEPT !.before = writes, !.batch = {k}, !.scope = {k}]
           t == Redis(s)!Deleting(u)
<1>1. Redis(s)!Call(c, t)
  BY DEF Redis!Delete
<1>n. writes \in Nat
  BY RedisNumbers
<1>b. LET d == Redis(s)!Doing("delete", "delete")
      IN  /\ d \in RedisTask(s) /\ d.op = "delete" /\ d.step = "delete" /\ d.ran = 0 /\ d.left = {} /\ d.batch = {}
          /\ d.excess = {} /\ d.before = 0 /\ d.ok /\ d.todo = {}
  BY StepNames, DoingTask
<1>2. u \in RedisTask(s)
  BY <1>b, <1>n, ZenonT(60) DEF RedisTask
<1>3. /\ u.op = "delete" /\ u.ran = 0 /\ u.batch = {k} /\ u.excess = {} /\ u.todo = {} /\ u.scope = {k}
      /\ u.before = writes /\ u.ok
  BY <1>b DEF RedisTask
<1> HIDE DEF u
<1>4. t \in RedisTask(s)
  BY <1>2, <1>3, StepNames, ZenonT(60) DEF Redis!Deleting, RedisTask
<1>5. /\ t.op = "delete" /\ t.step = "delete" /\ t.ran = 0 /\ t.batch = {k} /\ t.left = {k} /\ t.excess = {} /\ t.todo = {}
      /\ t.scope = {k} /\ t.before = writes /\ t.ok
  BY <1>2, <1>3 DEF Redis!Deleting, RedisTask
<1> HIDE DEF t
<1>6. RedisTaskOk(s, t, writes) /\ Unreached(s, t, data)
  BY <1>5, <1>n DEF RedisTaskOk, Unreached
<1> QED  BY <1>1, <1>4, <1>5, <1>6, RedisCall

LEMMA RedisPattern ==
  ASSUME NEW s \in Layouts, RedisInv(s), NEW c \in s.clients, NEW pattern \in SUBSET s.keys,
         Redis(s)!DeleteByPattern(c, pattern)
  PROVE  RedisInv(s)' /\ Redis(s)!ReachedAll
<1>0. PICK S \in Redis(s)!Scanned(pattern) :
        Redis(s)!Call(c, [Redis(s)!Doing("pattern", IF s.indexed THEN "prune" ELSE "scan")
                            EXCEPT !.before = writes, !.todo = S, !.scope = pattern])
  BY DEF Redis!DeleteByPattern
<1> DEFINE step == IF s.indexed THEN "prune" ELSE "scan"
           t == [Redis(s)!Doing("pattern", step) EXCEPT !.before = writes, !.todo = S, !.scope = pattern]
<1>1. Redis(s)!Call(c, t)
  BY <1>0
<1>n. writes \in Nat /\ S \subseteq s.keys
  BY RedisNumbers DEF Redis!Scanned
<1>b. LET d == Redis(s)!Doing("pattern", step)
      IN  /\ d \in RedisTask(s) /\ d.op = "pattern" /\ d.step = step /\ d.ran = 0 /\ d.left = {} /\ d.batch = {}
          /\ d.excess = {} /\ d.before = 0 /\ d.ok /\ d.todo = {}
  BY StepNames, DoingTask
<1> HIDE DEF step
<1>2. t \in RedisTask(s)
  BY <1>b, <1>n DEF RedisTask
<1>3. /\ t.op = "pattern" /\ t.step = step /\ t.ran = 0 /\ t.left = {} /\ t.batch = {} /\ t.excess = {}
      /\ t.before = writes /\ t.ok /\ t.todo = S /\ t.scope = pattern
  BY <1>b DEF RedisTask
<1> HIDE DEF t
<1>4. RedisTaskOk(s, t, writes)
  BY <1>3, <1>n DEF RedisTaskOk, step
<1>5. Unreached(s, t, data)
  BY <1>3 DEF Unreached, step, Redis!Scanned, Redis!Present, Redis!Live
<1> QED  BY <1>1, <1>2, <1>3, <1>4, <1>5, RedisCall DEF step

-----------------------------------------------------------------------------
(* RedisStore: the commands *)

LEMMA Committed ==
  ASSUME NEW s \in Layouts, RedisInv(s), NEW k \in s.keys, Redis(s)!Commit(k), clock' = clock
  PROVE  /\ writes' = writes + 1 /\ writes' \in writes..s.maxWrites
         /\ data' \in [s.keys -> [write : 0..writes', until : 0..s.maxTime + s.ttl]] /\ DataLives(s)'
         /\ data'[k].write > writes /\ \A l \in s.keys \ {k} : data'[l] = data[l]
<1>n. /\ clock \in 1..s.maxTime /\ writes \in Nat /\ s.maxWrites \in Nat /\ s.maxTime \in Nat /\ s.ttl \in Nat \ {0}
      /\ data \in [s.keys -> [write : 0..writes, until : 0..s.maxTime + s.ttl]] /\ DataLives(s)
  BY RedisNumbers
<1>1. /\ writes < s.maxWrites /\ writes' = writes + 1
      /\ data' = [data EXCEPT ![k] = [write |-> writes + 1, until |-> clock + s.ttl]]
  BY DEF Redis!Commit
<1>2. data' \in [s.keys -> [write : 0..writes', until : 0..s.maxTime + s.ttl]]
  BY <1>1, <1>n
<1>3. data'[k] = [write |-> writes + 1, until |-> clock + s.ttl] /\ \A l \in s.keys \ {k} : data'[l] = data[l]
  BY <1>1, <1>n
<1>4. DataLives(s)'
  <2>1. ASSUME NEW l \in s.keys, data'[l] # Redis(s)!Nothing PROVE data'[l].until > clock /\ data'[l].until <= clock + s.ttl
    BY <1>3, <1>n, <2>1 DEF DataLives
  <2> QED  BY <2>1 DEF DataLives, Redis!Nothing
<1> QED  BY <1>1, <1>2, <1>3, <1>4, <1>n

\* The write and what becomes of the task: it goes on to the index, or it is done.
LEMMA Writes ==
  ASSUME NEW s \in Layouts, RedisInv(s), NEW c \in s.clients, task[c].step = "write",
         Redis(s)!Commit(task[c].key), NEW step \in {"zadd", "done"}, NEW ok \in BOOLEAN,
         NEW t, t = [task[c] EXCEPT !.ran = task[c].ran + 1, !.ok = ok, !.step = step], Redis(s)!Become(c, t),
         UNCHANGED <<clock, index>>, faults' \in faults..s.maxFaults, faults' = 0 => ok,
         s.indexed /\ faults' = 0 => step = "zadd"
  PROVE  RedisInv(s)' /\ Redis(s)!ReachedAll
<1>u. task[c] \in RedisTask(s) /\ RedisTaskOk(s, task[c], writes)
      /\ (Alone(s) /\ faults = 0 => AloneOk(s, task[c], data, index))
  BY TaskFacts
<1>k. task[c].key \in s.keys /\ task[c].op = "set" /\ task[c].ran = 0
  BY <1>u DEF RedisTaskOk
<1>a. step \in Redis(s)!Steps /\ task[c].ran + 1 \in Nat
  BY <1>k, StepNames
<1>1. t \in RedisTask(s)
  BY <1>a, <1>u DEF RedisTask
<1>2. /\ t.step = step /\ t.op = "set" /\ t.key = task[c].key /\ t.ran = 1 /\ t.left = {} /\ t.ok = ok
      /\ t.excess = task[c].excess /\ t.before = task[c].before /\ t.scope = task[c].scope /\ t.op = task[c].op
  BY <1>k, <1>u DEF RedisTask, RedisTaskOk
<1>3. /\ writes' = writes + 1 /\ writes' \in writes..s.maxWrites
      /\ data' \in [s.keys -> [write : 0..writes', until : 0..s.maxTime + s.ttl]] /\ DataLives(s)'
      /\ data'[task[c].key].write > writes /\ \A l \in s.keys \ {task[c].key} : data'[l] = data[l]
  BY <1>k, Committed
<1>n. index' \in [s.keys -> 0..s.maxTime + s.ttl] /\ writes \in Nat /\ faults \in Nat
  BY RedisNumbers
<1>4. RedisTaskOk(s, t, writes')
  BY <1>2, <1>3, <1>k, <1>n, <1>u DEF RedisTaskOk, RedisTask
<1>5. Unreached(s, t, data')
  BY <1>2 DEF Unreached
<1>6. LimitMoves(s, c, t)
  BY DEF LimitMoves, Counting, Trimming
<1>7. Alone(s) /\ faults' = 0 => AloneOk(s, t, data', index')
  <2> SUFFICES ASSUME Alone(s), faults' = 0 PROVE AloneOk(s, t, data', index')  OBVIOUS
  <2>1. faults = 0 /\ step = "zadd"
    BY <1>n DEF Alone
  <2> QED  BY <1>2, <1>3, <1>u, <2>1 DEF AloneOk
<1>8. \A k \in s.keys : data'[k] = data[k] \/ data'[k].write > writes
  BY <1>3
<1> QED  BY <1>1, <1>2, <1>3, <1>4, <1>5, <1>6, <1>7, <1>8, <1>n, RedisMoves

LEMMA RedisWrite ==
  ASSUME NEW s \in Layouts, RedisInv(s), NEW c \in s.clients, Redis(s)!Write(c)
  PROVE  RedisInv(s)' /\ Redis(s)!ReachedAll
<1> DEFINE step == IF s.indexed THEN "zadd" ELSE "done"
           t == [task[c] EXCEPT !.ran = task[c].ran + 1, !.ok = task[c].ok, !.step = step]
<1>u. task[c] \in RedisTask(s) /\ (faults = 0 => task[c].ok)
  BY TaskFacts
<1>1. task[c].step = "write" /\ Redis(s)!Commit(task[c].key) /\ UNCHANGED <<clock, index, faults>>
  BY DEF Redis!Write, Redis!At
<1>2. [task[c] EXCEPT !.ran = @ + 1, !.step = step] = t
  BY <1>u DEF RedisTask
<1>3. Redis(s)!Become(c, t)
  <2>1. Redis(s)!Become(c, [task[c] EXCEPT !.ran = @ + 1, !.step = step])
    BY DEF Redis!Write
  <2> HIDE DEF t
  <2> QED  BY <1>2, <2>1
<1>4. /\ step \in {"zadd", "done"} /\ (s.indexed => step = "zadd") /\ task[c].ok \in BOOLEAN
      /\ faults' \in faults..s.maxFaults
  BY <1>1, <1>u, RedisNumbers DEF RedisTask
<1> HIDE DEF step
<1> QED  BY <1>1, <1>3, <1>4, <1>u, Writes

LEMMA RedisReplyLost ==
  ASSUME NEW s \in Layouts, RedisInv(s), NEW c \in s.clients, Redis(s)!ReplyLost(c)
  PROVE  RedisInv(s)' /\ Redis(s)!ReachedAll
<1> DEFINE step == IF s.versioned \/ ~s.indexed THEN "done" ELSE "zadd"
           t == [task[c] EXCEPT !.ran = task[c].ran + 1, !.ok = FALSE, !.step = step]
<1>1. /\ task[c].step = "write" /\ Redis(s)!Commit(task[c].key) /\ UNCHANGED <<clock, index>>
      /\ faults < s.maxFaults /\ faults' = faults + 1 /\ Redis(s)!Become(c, t)
  BY DEF Redis!ReplyLost, Redis!At
<1>2. step \in {"zadd", "done"} /\ faults' \in faults..s.maxFaults /\ faults' # 0
  BY <1>1, RedisNumbers
<1> HIDE DEF step
<1> QED  BY <1>1, <1>2, Writes

LEMMA RedisNoScript ==
  ASSUME NEW s \in Layouts, RedisInv(s), NEW c \in s.clients, Redis(s)!NoScript(c)
  PROVE  RedisInv(s)' /\ Redis(s)!ReachedAll
<1> DEFINE t == [task[c] EXCEPT !.eval = TRUE]
<1>u. /\ task[c] \in RedisTask(s) /\ RedisTaskOk(s, task[c], writes) /\ Unreached(s, task[c], data)
      /\ (faults = 0 => task[c].ok) /\ (Alone(s) /\ faults = 0 => AloneOk(s, task[c], data, index))
  BY TaskFacts
<1>1. /\ task[c].step \in {"write", "delete"} /\ Redis(s)!Become(c, t)
      /\ UNCHANGED <<clock, writes, data, index, faults>>
  BY DEF Redis!NoScript, Redis!redis
<1>2. t \in RedisTask(s)
  BY <1>u DEF RedisTask
<1>3. /\ t.op = task[c].op /\ t.step = task[c].step /\ t.key = task[c].key /\ t.before = task[c].before
      /\ t.scope = task[c].scope /\ t.todo = task[c].todo /\ t.batch = task[c].batch /\ t.left = task[c].left
      /\ t.seen = task[c].seen /\ t.size = task[c].size /\ t.excess = task[c].excess /\ t.ran = task[c].ran
      /\ t.ok = task[c].ok
  BY <1>u DEF RedisTask
<1> HIDE DEF t
<1>4. RedisTaskOk(s, t, writes)
  BY <1>1, <1>3, <1>u DEF RedisTaskOk
<1>5. Unreached(s, t, data)
  BY <1>3, <1>u DEF Unreached
<1>6. /\ Counting(task[c]) => Counting(t)
      /\ Trimming(s, task[c], index) => Trimming(s, t, index)
  BY <1>3 DEF Counting, Trimming
<1>7. Alone(s) /\ faults = 0 => AloneOk(s, t, data, index)
  BY <1>3, <1>u DEF AloneOk
<1> QED  BY <1>1, <1>2, <1>3, <1>4, <1>5, <1>6, <1>7, <1>u, TaskMoves

LEMMA RedisZadd ==
  ASSUME NEW s \in Layouts, RedisInv(s), NEW c \in s.clients, Redis(s)!Zadd(c)
  PROVE  RedisInv(s)' /\ Redis(s)!ReachedAll
<1> DEFINE step == IF task[c].ok THEN "prune" ELSE "done"
           t == [task[c] EXCEPT !.step = step]
<1>u. /\ task[c] \in RedisTask(s) /\ RedisTaskOk(s, task[c], writes)
      /\ (faults = 0 => task[c].ok) /\ (Alone(s) /\ faults = 0 => AloneOk(s, task[c], data, index))
  BY TaskFacts
<1>n. /\ clock \in 1..s.maxTime /\ faults \in 0..s.maxFaults /\ writes \in 0..s.maxWrites /\ s.maxTime \in Nat
      /\ s.ttl \in Nat \ {0} /\ s.maxFaults \in Nat /\ s.maxWrites \in Nat /\ DataLives(s)
      /\ data \in [s.keys -> [write : 0..writes, until : 0..s.maxTime + s.ttl]]
      /\ index \in [s.keys -> 0..s.maxTime + s.ttl]
  BY RedisNumbers
<1>1. /\ task[c].step = "zadd" /\ Redis(s)!Become(c, t) /\ UNCHANGED <<clock, writes, data, faults>>
      /\ index' = [index EXCEPT ![task[c].key] = Redis(s)!Score(c)]
  BY DEF Redis!Zadd, Redis!At, Redis!Goto
<1>2. task[c].key \in s.keys /\ task[c].op = "set"
  BY <1>1, <1>u DEF RedisTaskOk
<1>3. Redis(s)!Score(c) \in 0..s.maxTime + s.ttl /\ (s.versioned => Redis(s)!Score(c) = s.ttl + clock)
  BY <1>n, <1>u DEF Redis!Score, RedisTask
<1>4. index' \in [s.keys -> 0..s.maxTime + s.ttl]
  BY <1>1, <1>2, <1>3, <1>n
<1>5. step \in Redis(s)!Steps /\ (task[c].ok => step = "prune") /\ step \in {"prune", "done"}
  BY StepNames
<1> HIDE DEF step
<1>6. t \in RedisTask(s)
  BY <1>5, <1>u DEF RedisTask
<1>7. /\ t.op = task[c].op /\ t.step = step /\ t.before = task[c].before /\ t.key = task[c].key
      /\ t.scope = task[c].scope /\ t.todo = task[c].todo /\ t.batch = task[c].batch /\ t.left = task[c].left
      /\ t.excess = task[c].excess /\ t.ran = task[c].ran /\ t.ok = task[c].ok
  BY <1>u DEF RedisTask
<1> HIDE DEF t
<1>8. RedisTaskOk(s, t, writes') /\ Unreached(s, t, data')
  BY <1>1, <1>2, <1>5, <1>7, <1>u DEF RedisTaskOk, Unreached
<1>9. faults' = 0 => LimitMoves(s, c, t)
  BY <1>1, <1>2, <1>5, <1>7, <1>u DEF LimitMoves, Counting
<1>10. Alone(s) /\ faults' = 0 => AloneOk(s, t, data', index')
  <2> SUFFICES ASSUME Alone(s), faults = 0 PROVE AloneOk(s, t, data, index')
    BY <1>1
  <2>1. \A k \in s.keys : data[k] # Redis(s)!Nothing => index'[k] >= data[k].until
    <3> TAKE k \in s.keys
    <3>1. CASE k = task[c].key
      BY <1>1, <1>2, <1>3, <1>n, <3>1 DEF Alone, DataLives
    <3>2. CASE k # task[c].key
      BY <1>1, <1>u, <1>n, <3>2 DEF AloneOk
    <3> QED  BY <3>1, <3>2
  <2> QED  BY <1>5, <1>7, <2>1 DEF AloneOk
<1>11. DataLives(s)' /\ faults' \in faults..s.maxFaults /\ writes' \in writes..s.maxWrites
       /\ data' \in [s.keys -> [write : 0..writes', until : 0..s.maxTime + s.ttl]]
       /\ \A k \in s.keys : data'[k] = data[k]
  BY <1>1, <1>n DEF DataLives
<1> QED  BY <1>1, <1>4, <1>6, <1>7, <1>8, <1>9, <1>10, <1>11, <1>u, RedisMoves

\* The members that expired go, or the maintenance fails; then the task goes on.
LEMMA Pruned ==
  ASSUME NEW s \in Layouts, RedisInv(s), NEW c \in s.clients, task[c].step = "prune",
         NEW step, step = (IF task[c].op = "pattern" THEN "scan" ELSE "zcard"),
         Redis(s)!Goto(c, step), UNCHANGED <<clock, writes, data>>, faults' \in faults..s.maxFaults,
         index' \in [s.keys -> 0..s.maxTime + s.ttl], \A k \in s.keys : index'[k] \in {index[k], 0},
         \A k \in s.keys : index[k] > clock => index'[k] = index[k]
  PROVE  RedisInv(s)' /\ Redis(s)!ReachedAll
<1> DEFINE t == [task[c] EXCEPT !.step = step]
<1>u. /\ task[c] \in RedisTask(s) /\ RedisTaskOk(s, task[c], writes) /\ Unreached(s, task[c], data)
      /\ (faults = 0 => task[c].ok) /\ (Alone(s) /\ faults = 0 => AloneOk(s, task[c], data, index))
  BY TaskFacts
<1>n. /\ clock \in 1..s.maxTime /\ faults \in Nat /\ writes \in 0..s.maxWrites /\ DataLives(s) /\ s.maxWrites \in Nat
      /\ data \in [s.keys -> [write : 0..writes, until : 0..s.maxTime + s.ttl]]
      /\ index \in [s.keys -> 0..s.maxTime + s.ttl] /\ s.maxTime \in Nat /\ s.ttl \in Nat
  BY RedisNumbers
<1>1. Redis(s)!Become(c, t)
  BY DEF Redis!Goto
<1>2. t \in RedisTask(s)
  BY <1>u, StepNames DEF RedisTask
<1>3. /\ t.op = task[c].op /\ t.step = step /\ t.before = task[c].before /\ t.key = task[c].key
      /\ t.scope = task[c].scope /\ t.todo = task[c].todo /\ t.batch = task[c].batch /\ t.left = task[c].left
      /\ t.excess = task[c].excess /\ t.ran = task[c].ran /\ t.ok = task[c].ok
  BY <1>u DEF RedisTask
<1> HIDE DEF t
<1>4. RedisTaskOk(s, t, writes')
  BY <1>3, <1>u DEF RedisTaskOk
<1>5. Unreached(s, t, data')
  BY <1>3, <1>u DEF Unreached
<1>6. LimitMoves(s, c, t)
  BY <1>3 DEF LimitMoves, Counting, Trimming
<1>7. Alone(s) /\ faults' = 0 => AloneOk(s, t, data', index')
  <2> SUFFICES ASSUME Alone(s), faults = 0 PROVE AloneOk(s, t, data, index')
    BY <1>n
  <2>1. \A k \in s.keys : data[k] # Redis(s)!Nothing => index'[k] >= data[k].until
    BY <1>n, <1>u DEF AloneOk, DataLives
  <2> QED  BY <1>3, <2>1 DEF AloneOk
<1>8. DataLives(s)' /\ writes' \in writes..s.maxWrites
       /\ data' \in [s.keys -> [write : 0..writes', until : 0..s.maxTime + s.ttl]]
       /\ \A k \in s.keys : data'[k] = data[k]
  BY <1>n DEF DataLives
<1>9. faults' = 0 => t.ok
  BY <1>3, <1>n, <1>u
<1> QED  BY <1>1, <1>2, <1>3, <1>4, <1>5, <1>6, <1>7, <1>8, <1>9, <1>u, RedisMoves

LEMMA RedisPrune ==
  ASSUME NEW s \in Layouts, RedisInv(s), NEW c \in s.clients, Redis(s)!Prune(c) \/ Redis(s)!PruneFails(c)
  PROVE  RedisInv(s)' /\ Redis(s)!ReachedAll
<1>n. /\ clock \in Nat /\ faults \in 0..s.maxFaults /\ s.maxFaults \in Nat /\ s.maxTime \in Nat /\ s.ttl \in Nat
      /\ index \in [s.keys -> 0..s.maxTime + s.ttl]
  BY RedisNumbers
<1> DEFINE step == IF task[c].op = "pattern" THEN "scan" ELSE "zcard"
<1>1. CASE Redis(s)!Prune(c)
  <2>1. /\ task[c].step = "prune" /\ Redis(s)!Goto(c, step) /\ UNCHANGED <<clock, writes, data, faults>>
        /\ index' = [k \in s.keys |-> IF index[k] <= clock THEN 0 ELSE index[k]]
    BY <1>1 DEF Redis!Prune, Redis!At
  <2>2. /\ index' \in [s.keys -> 0..s.maxTime + s.ttl] /\ faults' \in faults..s.maxFaults
        /\ \A k \in s.keys : index'[k] \in {index[k], 0} /\ (index[k] > clock => index'[k] = index[k])
    BY <1>n, <2>1
  <2> HIDE DEF step
  <2> QED  BY <2>1, <2>2, Pruned DEF step
<1>2. CASE Redis(s)!PruneFails(c)
  <2>1. /\ task[c].step = "prune" /\ Redis(s)!Goto(c, step) /\ UNCHANGED <<clock, writes, data, index>>
        /\ faults < s.maxFaults /\ faults' = faults + 1
    BY <1>2 DEF Redis!PruneFails, Redis!At, Redis!redis
  <2>2. index' \in [s.keys -> 0..s.maxTime + s.ttl] /\ faults' \in faults..s.maxFaults
    BY <1>n, <2>1
  <2> QED  BY <2>1, <2>2, Pruned
<1> QED  BY <1>1, <1>2

LEMMA RedisZcard ==
  ASSUME NEW s \in Layouts, RedisInv(s), NEW c \in s.clients, Redis(s)!Zcard(c)
  PROVE  RedisInv(s)' /\ Redis(s)!ReachedAll
<1> DEFINE n == Cardinality(MembersOf(s, index))
           step == CASE task[c].op = "set" /\ n > s.maxEntries -> "zrange"
                     [] task[c].op = "inspect" /\ task[c].todo # {} -> "read"
                     [] OTHER -> "done"
           t == [task[c] EXCEPT !.size = n, !.step = step]
<1>u. /\ task[c] \in RedisTask(s) /\ RedisTaskOk(s, task[c], writes) /\ Unreached(s, task[c], data)
      /\ (faults = 0 => task[c].ok) /\ (Alone(s) /\ faults = 0 => AloneOk(s, task[c], data, index))
  BY TaskFacts
<1>n. n \in Nat /\ s.maxEntries \in Nat
  BY MembersFinite, RedisConstants
<1>1. task[c].step = "zcard" /\ Redis(s)!Become(c, t) /\ UNCHANGED <<clock, writes, data, index, faults>>
  <2>1. Redis(s)!Members = MembersOf(s, index)
    BY DEF Redis!Members, MembersOf
  <2>2. Redis(s)!Cardinality(Redis(s)!Members) = n
    BY <2>1, SameCardinality
  <2> QED  BY <2>2 DEF Redis!Zcard, Redis!At, Redis!redis
<1>2. /\ step \in {"zrange", "read", "done"} /\ step \in Redis(s)!Steps
      /\ task[c].op = "set" => IF n > s.maxEntries THEN step = "zrange" ELSE step = "done"
      /\ step = "zrange" => n > s.maxEntries /\ task[c].op = "set"
  BY StepNames
<1> HIDE DEF n, step
<1>3. t \in RedisTask(s)
  BY <1>2, <1>n, <1>u DEF RedisTask
<1>4. /\ t.op = task[c].op /\ t.step = step /\ t.key = task[c].key /\ t.before = task[c].before
      /\ t.scope = task[c].scope /\ t.todo = task[c].todo /\ t.batch = task[c].batch /\ t.left = task[c].left
      /\ t.size = n /\ t.excess = task[c].excess /\ t.ran = task[c].ran /\ t.ok = task[c].ok
  BY <1>u DEF RedisTask
<1> HIDE DEF t
<1>5. task[c].op \notin {"delete", "pattern"} /\ task[c].left = {}
  BY <1>1, <1>u DEF RedisTaskOk
<1>6. RedisTaskOk(s, t, writes)
  BY <1>2, <1>4, <1>5, <1>u DEF RedisTaskOk
<1>7. Unreached(s, t, data)
  BY <1>4, <1>5 DEF Unreached
<1>8. Counting(task[c]) \/ Trimming(s, task[c], index) => n <= s.maxEntries \/ Trimming(s, t, index)
  BY <1>1, <1>2, <1>4, <1>n DEF Counting, Trimming, n
<1>9. Alone(s) /\ faults = 0 => AloneOk(s, t, data, index)
  BY <1>1, <1>2, <1>4, <1>u DEF AloneOk
<1> QED  BY <1>1, <1>3, <1>4, <1>6, <1>7, <1>8, <1>9, <1>u, TaskMoves DEF n

LEMMA RedisZrange ==
  ASSUME NEW s \in Layouts, RedisInv(s), NEW c \in s.clients, Redis(s)!Zrange(c)
  PROVE  RedisInv(s)' /\ Redis(s)!ReachedAll
<1> DEFINE M == MembersOf(s, index)
<1>0. Redis(s)!Members = M
  BY DEF Redis!Members, MembersOf
<1>1. PICK S \in SUBSET M :
        /\ Cardinality(S) = task[c].size - s.maxEntries \/ S = M
        /\ Redis(s)!Become(c, [task[c] EXCEPT !.todo = S, !.step = "recheck",
                                    !.seen = [k \in s.keys |-> IF k \in S THEN index[k] ELSE 0]])
  BY <1>0, SameCardinality DEF Redis!Zrange, Redis!Overflow
<1> DEFINE seen == [k \in s.keys |-> IF k \in S THEN index[k] ELSE 0]
           t == [task[c] EXCEPT !.todo = S, !.step = "recheck", !.seen = seen]
<1>u. /\ task[c] \in RedisTask(s) /\ RedisTaskOk(s, task[c], writes) /\ Unreached(s, task[c], data)
      /\ (faults = 0 => task[c].ok) /\ (Alone(s) /\ faults = 0 => AloneOk(s, task[c], data, index))
  BY TaskFacts
<1>2. task[c].step = "zrange" /\ Redis(s)!Become(c, t) /\ UNCHANGED <<clock, writes, data, index, faults>>
  BY <1>1 DEF Redis!Zrange, Redis!At, Redis!redis
<1>3. seen \in [s.keys -> Nat] /\ S \subseteq s.keys /\ \A k \in S : seen[k] = index[k]
  <2>1. S \subseteq s.keys
    BY DEF MembersOf
  <2> QED  BY <2>1, RedisNumbers
<1> HIDE DEF seen
<1>4. t \in RedisTask(s)
  BY <1>3, <1>u, StepNames DEF RedisTask
<1>5. /\ t.op = task[c].op /\ t.step = "recheck" /\ t.key = task[c].key /\ t.before = task[c].before
      /\ t.scope = task[c].scope /\ t.todo = S /\ t.batch = task[c].batch /\ t.left = task[c].left
      /\ t.seen = seen /\ t.excess = task[c].excess /\ t.ran = task[c].ran /\ t.ok = task[c].ok
  BY <1>u DEF RedisTask
<1> HIDE DEF t
<1>6. task[c].op = "set" /\ task[c].left = {}
  BY <1>2, <1>u DEF RedisTaskOk
<1>7. RedisTaskOk(s, t, writes) /\ Unreached(s, t, data)
  BY <1>5, <1>6, <1>u DEF RedisTaskOk, Unreached
<1>8. ASSUME Counting(task[c]) \/ Trimming(s, task[c], index) PROVE Trimming(s, t, index)
  <2>1. Cardinality(M) <= task[c].size
    BY <1>2, <1>8 DEF Counting, Trimming
  <2>n. IsFiniteSet(M) /\ Cardinality(M) \in Nat /\ s.maxEntries \in Nat /\ task[c].size \in Nat
    BY <1>u, MembersFinite, RedisConstants DEF RedisTask
  <2>2. IsFiniteSet(S) /\ Cardinality(S) \in Nat /\ IsFiniteSet(M \ S) /\ Cardinality(M \ S) \in Nat
    BY <2>n, FS_Subset, FS_CardinalityType
  <2>3. Cardinality(M \ S) <= s.maxEntries
    <3>1. CASE S = M
      <4>1. M \ S = {}
        BY <3>1
      <4> QED  BY <2>n, <4>1, FS_EmptySet
    <3>2. CASE Cardinality(S) = task[c].size - s.maxEntries
      <4>1. M \cap S = S
        OBVIOUS
      <4>2. Cardinality(M \ S) = Cardinality(M) - Cardinality(M \cap S)
        BY <2>n, FS_Difference
      <4>3. Cardinality(M \ S) = Cardinality(M) - Cardinality(S)
        BY <4>1, <4>2
      <4> HIDE DEF M
      <4> QED  BY <2>1, <2>2, <2>n, <3>2, <4>3
    <3> QED  BY <1>1, <3>1, <3>2
  <2>4. Cardinality(M \ (t.todo \cup t.batch)) <= s.maxEntries
    <3> DEFINE T == M \ (t.todo \cup t.batch)
    <3>1. T \subseteq M \ S
      BY <1>5
    <3>2. Cardinality(T) <= Cardinality(M \ S) /\ Cardinality(T) \in Nat
      BY <2>2, <3>1, FS_Subset, FS_CardinalityType
    <3> QED  BY <2>2, <2>3, <2>n, <3>2
  <2> QED  BY <1>3, <1>5, <2>4 DEF Trimming
<1>9. Alone(s) /\ faults = 0 => AloneOk(s, t, data, index)
  BY <1>2, <1>5, <1>u DEF AloneOk
<1> QED  BY <1>2, <1>4, <1>5, <1>7, <1>8, <1>9, <1>u, TaskMoves

LEMMA RedisRecheck ==
  ASSUME NEW s \in Layouts, RedisInv(s), NEW c \in s.clients, NEW k \in task[c].todo, Redis(s)!Recheck(c, k)
  PROVE  RedisInv(s)' /\ Redis(s)!ReachedAll
<1> DEFINE todo == task[c].todo \ {k}
           batch == IF index[k] = task[c].seen[k] THEN task[c].batch \cup {k} ELSE task[c].batch
           t == [task[c] EXCEPT !.todo = todo, !.batch = batch]
<1>u. /\ task[c] \in RedisTask(s) /\ RedisTaskOk(s, task[c], writes) /\ Unreached(s, task[c], data)
      /\ (faults = 0 => task[c].ok) /\ (Alone(s) /\ faults = 0 => AloneOk(s, task[c], data, index))
  BY TaskFacts
<1>1. task[c].step = "recheck" /\ Redis(s)!Become(c, t) /\ UNCHANGED <<clock, writes, data, index, faults>>
  BY DEF Redis!Recheck, Redis!At, Redis!redis
<1>2. todo \subseteq s.keys /\ batch \subseteq s.keys /\ task[c].batch \subseteq batch
  BY <1>u DEF RedisTask
<1>3. \A l \in MembersOf(s, index) : l \notin todo \cup batch /\ index[k] \in {task[c].seen[k], 0} =>
                                       l \notin task[c].todo \cup task[c].batch
  BY DEF MembersOf
<1>t. todo \subseteq task[c].todo
  OBVIOUS
<1> HIDE DEF todo, batch
<1>4. t \in RedisTask(s)
  BY <1>2, <1>u DEF RedisTask
<1>5. /\ t.op = task[c].op /\ t.step = "recheck" /\ t.key = task[c].key /\ t.before = task[c].before
      /\ t.scope = task[c].scope /\ t.todo = todo /\ t.batch = batch /\ t.left = task[c].left
      /\ t.seen = task[c].seen /\ t.excess = task[c].excess /\ t.ran = task[c].ran /\ t.ok = task[c].ok
  BY <1>1, <1>u DEF RedisTask
<1> HIDE DEF t
<1>6. task[c].op = "set" /\ task[c].left = {}
  BY <1>1, <1>u DEF RedisTaskOk
<1>7. RedisTaskOk(s, t, writes) /\ Unreached(s, t, data)
  BY <1>5, <1>6, <1>u DEF RedisTaskOk, Unreached
<1>8. ASSUME Counting(task[c]) \/ Trimming(s, task[c], index) PROVE Trimming(s, t, index)
  <2>1. /\ \A l \in task[c].todo : index[l] \in {task[c].seen[l], 0}
        /\ Cardinality(MembersOf(s, index) \ (task[c].todo \cup task[c].batch)) <= s.maxEntries
    BY <1>1, <1>8 DEF Counting, Trimming
  <2> DEFINE T == MembersOf(s, index) \ (todo \cup batch)
             U == MembersOf(s, index) \ (task[c].todo \cup task[c].batch)
  <2>2. T \subseteq U
    BY <1>3, <2>1
  <2>3. Cardinality(T) <= Cardinality(U) /\ Cardinality(T) \in Nat /\ Cardinality(U) \in Nat
    <3>1. IsFiniteSet(U) /\ Cardinality(U) \in Nat
      BY MembersFinite
    <3> QED  BY <2>2, <3>1, FS_Subset, FS_CardinalityType
  <2>4. Cardinality(T) <= s.maxEntries
    BY <2>1, <2>3, RedisConstants
  <2> QED  BY <1>5, <1>t, <2>1, <2>4 DEF Trimming
<1>9. Alone(s) /\ faults = 0 => AloneOk(s, t, data, index)
  BY <1>1, <1>5, <1>u DEF AloneOk
<1> QED  BY <1>1, <1>4, <1>5, <1>7, <1>8, <1>9, <1>u, TaskMoves

\* The batch is complete and is deleted next.
LEMMA DeletingOk ==
  ASSUME NEW s \in Layouts, NEW u \in RedisTask(s), NEW w, NEW d, NEW x, RedisTaskOk(s, u, w), Unreached(s, u, d),
         u.step \in {"recheck", "scan"}, u.batch = {} => u.todo = {},
         NEW t, t = Redis(s)!Deleting(u)
  PROVE  /\ t \in RedisTask(s) /\ RedisTaskOk(s, t, w) /\ Unreached(s, t, d)
         /\ t.op = u.op /\ t.scope = u.scope /\ t.before = u.before /\ t.ok = u.ok /\ t.batch = u.batch
         /\ t.step = IF u.batch = {} THEN "done" ELSE "delete"
         /\ AloneOk(s, u, d, x) => AloneOk(s, t, d, x)
<1> DEFINE step == IF u.batch = {} THEN "done" ELSE "delete"
<1>1. t = [u EXCEPT !.left = u.batch, !.step = step]
  BY DEF Redis!Deleting
<1>2. step \in {"done", "delete"} /\ step \in Redis(s)!Steps /\ (step = "done" => u.batch = {})
  BY StepNames
<1>3. step = IF u.batch = {} THEN "done" ELSE "delete"
  OBVIOUS
<1> HIDE DEF step
<1>4. t \in RedisTask(s)
  BY <1>1, <1>2, ZenonT(60) DEF RedisTask
<1>5. /\ t.op = u.op /\ t.step = step /\ t.key = u.key /\ t.before = u.before /\ t.scope = u.scope
      /\ t.todo = u.todo /\ t.batch = u.batch /\ t.left = u.batch /\ t.excess = u.excess /\ t.ran = u.ran /\ t.ok = u.ok
  BY <1>1 DEF RedisTask
<1>6. RedisTaskOk(s, t, w)
  BY <1>2, <1>5 DEF RedisTaskOk
<1>7. Unreached(s, t, d)
  BY <1>5 DEF Unreached, RedisTaskOk
<1>8. AloneOk(s, u, d, x) => AloneOk(s, t, d, x)
  BY <1>2, <1>5 DEF AloneOk
<1> QED  BY <1>3, <1>4, <1>5, <1>6, <1>7, <1>8

LEMMA RedisRechecked ==
  ASSUME NEW s \in Layouts, RedisInv(s), NEW c \in s.clients, Redis(s)!Rechecked(c)
  PROVE  RedisInv(s)' /\ Redis(s)!ReachedAll
<1>u. /\ task[c] \in RedisTask(s) /\ RedisTaskOk(s, task[c], writes) /\ Unreached(s, task[c], data)
      /\ (faults = 0 => task[c].ok) /\ (Alone(s) /\ faults = 0 => AloneOk(s, task[c], data, index))
  BY TaskFacts
<1>1. PICK t : t = Redis(s)!Deleting(task[c]) /\ Redis(s)!Become(c, t)
  BY DEF Redis!Rechecked
<1>2. /\ task[c].step = "recheck" /\ task[c].todo = {} /\ UNCHANGED <<clock, writes, data, index, faults>>
  BY DEF Redis!Rechecked, Redis!At, Redis!redis
<1>3. /\ t \in RedisTask(s) /\ RedisTaskOk(s, t, writes) /\ Unreached(s, t, data)
      /\ t.op = task[c].op /\ t.scope = task[c].scope /\ t.before = task[c].before /\ t.ok = task[c].ok
      /\ t.batch = task[c].batch /\ t.step = (IF task[c].batch = {} THEN "done" ELSE "delete")
      /\ (AloneOk(s, task[c], data, index) => AloneOk(s, t, data, index))
  BY <1>1, <1>2, <1>u, DeletingOk
<1>4. ASSUME Counting(task[c]) \/ Trimming(s, task[c], index)
      PROVE  Cardinality(MembersOf(s, index)) <= s.maxEntries \/ Trimming(s, t, index)
  <2>1. Cardinality(MembersOf(s, index) \ (task[c].todo \cup task[c].batch)) <= s.maxEntries
    BY <1>2, <1>4 DEF Counting, Trimming
  <2>2. MembersOf(s, index) \ (task[c].todo \cup task[c].batch) = MembersOf(s, index) \ task[c].batch
    BY <1>2
  <2>3. CASE task[c].batch = {}
    <3>1. MembersOf(s, index) \ task[c].batch = MembersOf(s, index)
      BY <2>3
    <3> QED  BY <2>1, <2>2, <3>1
  <2>4. CASE task[c].batch # {}
    BY <1>3, <2>1, <2>2, <2>4 DEF Trimming
  <2> QED  BY <2>3, <2>4
<1> QED  BY <1>1, <1>2, <1>3, <1>4, <1>u, TaskMoves

LEMMA RedisScanEnds ==
  ASSUME NEW s \in Layouts, RedisInv(s), NEW c \in s.clients, Redis(s)!ScanEnds(c)
  PROVE  RedisInv(s)' /\ Redis(s)!ReachedAll
<1>u. /\ task[c] \in RedisTask(s) /\ RedisTaskOk(s, task[c], writes) /\ Unreached(s, task[c], data)
      /\ (faults = 0 => task[c].ok) /\ (Alone(s) /\ faults = 0 => AloneOk(s, task[c], data, index))
  BY TaskFacts
<1>1. PICK t : t = Redis(s)!Deleting(task[c]) /\ Redis(s)!Become(c, t)
  BY DEF Redis!ScanEnds
<1>2. /\ task[c].step = "scan" /\ task[c].todo = {} /\ UNCHANGED <<clock, writes, data, index, faults>>
  BY DEF Redis!ScanEnds, Redis!At, Redis!redis
<1>3. /\ t \in RedisTask(s) /\ RedisTaskOk(s, t, writes) /\ Unreached(s, t, data)
      /\ t.op = task[c].op /\ t.scope = task[c].scope /\ t.before = task[c].before /\ t.ok = task[c].ok
      /\ (AloneOk(s, task[c], data, index) => AloneOk(s, t, data, index))
  BY <1>1, <1>2, <1>u, DeletingOk
<1>4. ~Counting(task[c]) /\ ~Trimming(s, task[c], index)
  BY <1>2 DEF Counting, Trimming
<1> QED  BY <1>1, <1>2, <1>3, <1>4, <1>u, TaskMoves

LEMMA RedisScanReturns ==
  ASSUME NEW s \in Layouts, RedisInv(s), NEW c \in s.clients, NEW k \in task[c].todo, Redis(s)!ScanReturns(c, k)
  PROVE  RedisInv(s)' /\ Redis(s)!ReachedAll
<1>u. /\ task[c] \in RedisTask(s) /\ RedisTaskOk(s, task[c], writes) /\ Unreached(s, task[c], data)
      /\ (faults = 0 => task[c].ok) /\ (Alone(s) /\ faults = 0 => AloneOk(s, task[c], data, index))
  BY TaskFacts
<1> DEFINE todo == task[c].todo \ {k}
           batch == IF Redis(s)!Present(k) THEN task[c].batch \cup {k} ELSE task[c].batch
           u == [task[c] EXCEPT !.todo = todo, !.batch = batch]
<1>1. PICK t : t = (IF Redis(s)!Cardinality(u.batch) >= s.batchSize THEN Redis(s)!Deleting(u) ELSE u)
                /\ Redis(s)!Become(c, t)
  BY DEF Redis!ScanReturns
<1>2. /\ task[c].step = "scan" /\ UNCHANGED <<clock, writes, data, index, faults>>
  BY DEF Redis!ScanReturns, Redis!At, Redis!redis
<1>3. /\ todo \subseteq s.keys /\ batch \subseteq s.keys /\ task[c].batch \subseteq batch /\ todo \subseteq task[c].todo
      /\ task[c].todo = todo \cup {k}
  BY <1>u DEF RedisTask
<1>4. ~s.indexed /\ data[k] # Redis(s)!Nothing => k \in batch
  BY DEF Redis!Present, Redis!Live
<1> HIDE DEF todo, batch
<1>5. u \in RedisTask(s)
  BY <1>3, <1>u DEF RedisTask
<1>6. /\ u.op = task[c].op /\ u.step = "scan" /\ u.key = task[c].key /\ u.before = task[c].before
      /\ u.scope = task[c].scope /\ u.todo = todo /\ u.batch = batch /\ u.left = task[c].left
      /\ u.excess = task[c].excess /\ u.ran = task[c].ran /\ u.ok = task[c].ok
  BY <1>2, <1>u DEF RedisTask
<1> HIDE DEF u
<1>7. RedisTaskOk(s, u, writes)
  BY <1>2, <1>3, <1>6, <1>u DEF RedisTaskOk
<1>8. Unreached(s, u, data)
  BY <1>2, <1>3, <1>4, <1>6, <1>7, <1>u DEF Unreached, RedisTaskOk
<1>9. Alone(s) /\ faults = 0 => AloneOk(s, u, data, index)
  BY <1>2, <1>6, <1>u DEF AloneOk
<1>10. ~Counting(task[c]) /\ ~Trimming(s, task[c], index)
  BY <1>2 DEF Counting, Trimming
<1>11. /\ t \in RedisTask(s) /\ RedisTaskOk(s, t, writes) /\ Unreached(s, t, data) /\ t.ok = u.ok
       /\ t.op = u.op /\ t.scope = u.scope /\ t.before = u.before
       /\ (Alone(s) /\ faults = 0 => AloneOk(s, t, data, index))
  <2>1. CASE t = u
    BY <1>5, <1>7, <1>8, <1>9, <2>1
  <2>2. CASE t = Redis(s)!Deleting(u) /\ Redis(s)!Cardinality(u.batch) >= s.batchSize
    <3>1. u.batch # {}
      <4>1. Redis(s)!Cardinality(u.batch) = Cardinality(u.batch) /\ Cardinality({}) = 0
        BY SameCardinality, FS_EmptySet
      <4>2. s.batchSize \in Nat \ {0}
        BY RedisConstants
      <4>3. Cardinality(u.batch) >= s.batchSize
        BY <2>2, <4>1
      <4> QED  BY <4>1, <4>2, <4>3
    <3> QED  BY <1>5, <1>6, <1>7, <1>8, <1>9, <2>2, <3>1, DeletingOk
  <2> QED  BY <1>1, <2>1, <2>2
<1> QED  BY <1>1, <1>2, <1>6, <1>10, <1>11, <1>u, TaskMoves

LEMMA RedisUnlink ==
  ASSUME NEW s \in Layouts, RedisInv(s), NEW c \in s.clients, Redis(s)!Unlink(c)
  PROVE  RedisInv(s)' /\ Redis(s)!ReachedAll
<1>u. /\ task[c] \in RedisTask(s) /\ RedisTaskOk(s, task[c], writes) /\ Unreached(s, task[c], data)
      /\ (faults = 0 => task[c].ok) /\ (Alone(s) /\ faults = 0 => AloneOk(s, task[c], data, index))
  BY TaskFacts
<1>n. /\ clock \in Nat /\ faults \in 0..s.maxFaults /\ writes \in 0..s.maxWrites /\ s.maxTime \in Nat
      /\ s.ttl \in Nat \ {0} /\ s.maxFaults \in Nat /\ s.maxWrites \in Nat /\ DataLives(s)
      /\ data \in [s.keys -> [write : 0..writes, until : 0..s.maxTime + s.ttl]]
      /\ index \in [s.keys -> 0..s.maxTime + s.ttl]
  BY RedisNumbers, SMTT(60)
<1>1. PICK K \in SUBSET task[c].left :
        /\ data' = [k \in s.keys |-> IF k \in K THEN Redis(s)!Nothing ELSE data[k]]
        /\ LET t == [task[c] EXCEPT !.left = @ \ K, !.eval = FALSE]
           IN  Redis(s)!Become(c, CASE t.left # {} -> t
                                    [] t.left = {} /\ s.indexed -> [t EXCEPT !.step = "zrem"]
                                    [] OTHER -> Redis(s)!Deleted(t))
  BY ZenonT(60) DEF Redis!Unlink
<1>2. task[c].step = "delete" /\ UNCHANGED <<clock, writes, index, faults>>
  BY DEF Redis!Unlink, Redis!At
<1> DEFINE left == task[c].left \ K
           t1 == [task[c] EXCEPT !.left = left, !.eval = FALSE]
           last == IF task[c].op = "pattern" THEN "scan" ELSE "done"
           step == IF left # {} THEN "delete" ELSE IF s.indexed THEN "zrem" ELSE last
           batch == IF left = {} /\ ~s.indexed THEN {} ELSE task[c].batch
           t == [task[c] EXCEPT !.left = left, !.eval = FALSE, !.batch = batch, !.step = step]
<1>3. /\ left \subseteq task[c].left /\ left \subseteq s.keys /\ batch \subseteq s.keys /\ left \subseteq batch
      /\ K \subseteq s.keys /\ task[c].left \subseteq left \cup K /\ s.indexed \in BOOLEAN
  BY <1>u, RedisConstants DEF RedisTask, RedisTaskOk
<1>4. /\ left # {} => step = "delete" /\ batch = task[c].batch
      /\ left = {} /\ s.indexed => step = "zrem" /\ batch = task[c].batch
      /\ left = {} /\ ~s.indexed => step = last /\ batch = {}
      /\ last \in {"scan", "done"} /\ (last = "scan" <=> task[c].op = "pattern")
      /\ step \in {"delete", "zrem", "scan", "done"} /\ step \in Redis(s)!Steps
  BY StepNames
<1>5. Redis(s)!Become(c, CASE t1.left # {} -> t1
                           [] t1.left = {} /\ s.indexed -> [t1 EXCEPT !.step = "zrem"]
                           [] OTHER -> Redis(s)!Deleted(t1))
  BY <1>1
<1>l. last = IF task[c].op = "pattern" THEN "scan" ELSE "done"
  OBVIOUS
<1> HIDE DEF left, step, batch, last
<1>6. t1.left = left /\ t1.op = task[c].op /\ t1 \in RedisTask(s)
  BY <1>3, <1>u DEF RedisTask
<1>7. Redis(s)!Become(c, t)
  <2>1. CASE left # {}
    <3>1. t1 = t
      BY <1>2, <1>4, <1>u, <2>1 DEF RedisTask
    <3> HIDE DEF t, t1
    <3> QED  BY <1>5, <1>6, <2>1, <3>1
  <2>2. CASE left = {} /\ s.indexed
    <3>1. [t1 EXCEPT !.step = "zrem"] = t
      BY <1>4, <1>u, <2>2 DEF RedisTask
    <3> HIDE DEF t, t1
    <3> QED  BY <1>5, <1>6, <2>2, <3>1
  <2>3. CASE left = {} /\ ~s.indexed
    <3>1. Redis(s)!Deleted(t1) = [t1 EXCEPT !.batch = {}, !.step = last]
      BY <1>6, <1>l DEF Redis!Deleted
    <3>2. [t1 EXCEPT !.batch = {}, !.step = last] = t
      BY <1>4, <1>u, <2>3 DEF RedisTask
    <3> HIDE DEF t, t1
    <3> QED  BY <1>5, <1>6, <2>3, <3>1, <3>2
  <2> QED  BY <1>3, <2>1, <2>2, <2>3
<1>8. t \in RedisTask(s)
  BY <1>3, <1>4, <1>u DEF RedisTask
<1>9. /\ t.op = task[c].op /\ t.step = step /\ t.key = task[c].key /\ t.before = task[c].before
      /\ t.scope = task[c].scope /\ t.todo = task[c].todo /\ t.batch = batch /\ t.left = left
      /\ t.excess = task[c].excess /\ t.ran = task[c].ran /\ t.ok = task[c].ok
  BY <1>u DEF RedisTask
<1> HIDE DEF t, t1
<1>10. RedisTaskOk(s, t, writes')
  BY <1>2, <1>3, <1>4, <1>9, <1>u DEF RedisTaskOk
<1>11. \A k \in s.keys : data'[k] = IF k \in K THEN Redis(s)!Nothing ELSE data[k]
  BY <1>1
<1>12. /\ data' \in [s.keys -> [write : 0..writes', until : 0..s.maxTime + s.ttl]]
       /\ faults' \in faults..s.maxFaults /\ writes' \in writes..s.maxWrites
       /\ index' \in [s.keys -> 0..s.maxTime + s.ttl]
  <2>1. Redis(s)!Nothing \in [write : 0..writes', until : 0..s.maxTime + s.ttl]
    BY <1>2, <1>n DEF Redis!Nothing
  <2> QED  BY <1>1, <1>2, <1>n, <2>1
<1>13. DataLives(s)'
  <2>1. \A k \in s.keys : data'[k] # Redis(s)!Nothing => data'[k] = data[k]
    BY <1>11
  <2> QED  BY <1>2, <1>n, <2>1 DEF DataLives, Redis!Nothing
<1>14. Unreached(s, t, data')
  BY <1>2, <1>3, <1>9, <1>11, <1>u DEF Unreached, RedisTask
<1>15. s.indexed => LimitMoves(s, c, t)
  BY <1>2, <1>4, <1>9 DEF LimitMoves, Counting, Trimming
<1>16. Alone(s) /\ faults' = 0 => AloneOk(s, t, data', index')
  <2> SUFFICES ASSUME Alone(s), faults = 0 PROVE AloneOk(s, t, data', index)
    BY <1>2
  <2>1. s.indexed /\ AloneOk(s, task[c], data, index)
    BY <1>u DEF Alone
  <2>2. batch = task[c].batch /\ step \in {"delete", "zrem"}
    BY <1>3, <1>4, <2>1
  <2>3. \A k \in s.keys : data'[k] # Redis(s)!Nothing => index[k] >= data'[k].until
    BY <1>2, <1>11, <2>1 DEF AloneOk
  <2>4. \A k \in t.batch \ t.left : data'[k] = Redis(s)!Nothing
    BY <1>2, <1>3, <1>9, <1>11, <1>u, <2>1, <2>2 DEF AloneOk, RedisTask
  <2> QED  BY <1>9, <2>2, <2>3, <2>4 DEF AloneOk
<1> QED  BY <1>2, <1>7, <1>8, <1>9, <1>10, <1>11, <1>12, <1>13, <1>14, <1>15, <1>16, <1>u, RedisMoves

LEMMA RedisZrem ==
  ASSUME NEW s \in Layouts, RedisInv(s), NEW c \in s.clients, Redis(s)!Zrem(c)
  PROVE  RedisInv(s)' /\ Redis(s)!ReachedAll
<1>u. /\ task[c] \in RedisTask(s) /\ RedisTaskOk(s, task[c], writes) /\ Unreached(s, task[c], data)
      /\ (faults = 0 => task[c].ok) /\ (Alone(s) /\ faults = 0 => AloneOk(s, task[c], data, index))
  BY TaskFacts
<1>n. /\ clock \in Nat /\ faults \in 0..s.maxFaults /\ writes \in 0..s.maxWrites /\ s.maxTime \in Nat
      /\ s.ttl \in Nat \ {0} /\ s.maxFaults \in Nat /\ s.maxWrites \in Nat /\ DataLives(s)
      /\ data \in [s.keys -> [write : 0..writes, until : 0..s.maxTime + s.ttl]]
      /\ index \in [s.keys -> 0..s.maxTime + s.ttl]
  BY RedisNumbers
<1> DEFINE step == IF task[c].op = "pattern" THEN "scan" ELSE "done"
           t == [task[c] EXCEPT !.batch = {}, !.step = step]
<1>1. /\ task[c].step = "zrem" /\ Redis(s)!Become(c, t) /\ UNCHANGED <<clock, writes, data, faults>>
      /\ index' = [k \in s.keys |-> IF k \in task[c].batch THEN 0 ELSE index[k]]
  BY DEF Redis!Zrem, Redis!At, Redis!Deleted
<1>2. step \in {"scan", "done"} /\ (step = "scan" <=> task[c].op = "pattern") /\ step \in Redis(s)!Steps
  BY StepNames
<1> HIDE DEF step
<1>3. t \in RedisTask(s)
  BY <1>2, <1>u DEF RedisTask
<1>4. /\ t.op = task[c].op /\ t.step = step /\ t.key = task[c].key /\ t.before = task[c].before
      /\ t.scope = task[c].scope /\ t.todo = task[c].todo /\ t.batch = {} /\ t.left = task[c].left
      /\ t.excess = task[c].excess /\ t.ran = task[c].ran /\ t.ok = task[c].ok
  BY <1>u DEF RedisTask
<1> HIDE DEF t
<1>5. task[c].left = {}
  BY <1>1, <1>u DEF RedisTaskOk
<1>6. RedisTaskOk(s, t, writes') /\ Unreached(s, t, data')
  BY <1>1, <1>2, <1>4, <1>5, <1>u DEF RedisTaskOk, Unreached
<1>7. /\ \A k \in s.keys : index'[k] = IF k \in task[c].batch THEN 0 ELSE index[k]
      /\ index' \in [s.keys -> 0..s.maxTime + s.ttl]
  BY <1>1, <1>n
<1>8. LimitMoves(s, c, t)
  <2>1. MembersOf(s, index') = MembersOf(s, index) \ task[c].batch
    BY <1>7 DEF MembersOf
  <2>2. Counting(task[c]) \/ Trimming(s, task[c], index) =>
          Cardinality(MembersOf(s, index) \ task[c].batch) <= s.maxEntries
    BY <1>1 DEF Counting, Trimming
  <2> QED  BY <1>7, <2>1, <2>2 DEF LimitMoves
<1>9. Alone(s) /\ faults' = 0 => AloneOk(s, t, data', index')
  <2> SUFFICES ASSUME Alone(s), faults = 0 PROVE AloneOk(s, t, data, index')
    BY <1>1
  <2>1. \A k \in s.keys : data[k] # Redis(s)!Nothing => index'[k] >= data[k].until
    BY <1>1, <1>5, <1>7, <1>u DEF AloneOk
  <2> QED  BY <1>2, <1>4, <2>1 DEF AloneOk
<1>10. DataLives(s)' /\ faults' \in faults..s.maxFaults /\ writes' \in writes..s.maxWrites
       /\ data' \in [s.keys -> [write : 0..writes', until : 0..s.maxTime + s.ttl]]
       /\ \A k \in s.keys : data'[k] = data[k]
  BY <1>1, <1>n DEF DataLives
<1> QED  BY <1>1, <1>3, <1>4, <1>6, <1>7, <1>8, <1>9, <1>10, <1>u, RedisMoves

LEMMA RedisUnindex ==
  ASSUME NEW s \in Layouts, RedisInv(s), NEW c \in s.clients, Redis(s)!Unindex(c)
  PROVE  RedisInv(s)' /\ Redis(s)!ReachedAll
<1>u. /\ task[c] \in RedisTask(s) /\ RedisTaskOk(s, task[c], writes) /\ Unreached(s, task[c], data)
      /\ (faults = 0 => task[c].ok) /\ (Alone(s) /\ faults = 0 => AloneOk(s, task[c], data, index))
  BY TaskFacts
<1>n. /\ clock \in Nat /\ faults \in 0..s.maxFaults /\ writes \in 0..s.maxWrites /\ s.maxTime \in Nat
      /\ s.ttl \in Nat \ {0} /\ s.maxFaults \in Nat /\ s.maxWrites \in Nat /\ DataLives(s)
      /\ data \in [s.keys -> [write : 0..writes, until : 0..s.maxTime + s.ttl]]
      /\ index \in [s.keys -> 0..s.maxTime + s.ttl]
  BY RedisNumbers
<1> DEFINE t == [task[c] EXCEPT !.step = "done"]
<1>1. /\ task[c].step = "unindex" /\ Redis(s)!Become(c, t) /\ UNCHANGED <<clock, writes, data, faults>>
      /\ index' = [index EXCEPT ![task[c].key] = 0]
  BY DEF Redis!Unindex, Redis!At, Redis!Goto
<1>3. t \in RedisTask(s)
  BY <1>u, StepNames DEF RedisTask
<1>4. /\ t.op = task[c].op /\ t.step = "done" /\ t.key = task[c].key /\ t.before = task[c].before
      /\ t.scope = task[c].scope /\ t.todo = task[c].todo /\ t.batch = task[c].batch /\ t.left = task[c].left
      /\ t.excess = task[c].excess /\ t.ran = task[c].ran /\ t.ok = task[c].ok
  BY <1>u DEF RedisTask
<1> HIDE DEF t
<1>5. task[c].left = {} /\ task[c].op \notin {"delete", "pattern"} /\ task[c].key \in s.keys
  BY <1>1, <1>u DEF RedisTaskOk
<1>6. RedisTaskOk(s, t, writes') /\ Unreached(s, t, data')
  BY <1>1, <1>4, <1>5, <1>u DEF RedisTaskOk, Unreached
<1>7. /\ \A k \in s.keys : index'[k] = IF k = task[c].key THEN 0 ELSE index[k]
      /\ index' \in [s.keys -> 0..s.maxTime + s.ttl]
  BY <1>1, <1>5, <1>n
<1>8. LimitMoves(s, c, t)
  BY <1>1, <1>7 DEF LimitMoves, Counting, Trimming
<1>9. Alone(s) /\ faults' = 0 => AloneOk(s, t, data', index')
  <2> SUFFICES ASSUME Alone(s), faults = 0 PROVE AloneOk(s, t, data, index')
    BY <1>1
  <2>1. \A k \in s.keys : data[k] # Redis(s)!Nothing => index'[k] >= data[k].until
    BY <1>1, <1>7, <1>u DEF AloneOk
  <2> QED  BY <1>4, <2>1 DEF AloneOk
<1>10. DataLives(s)' /\ faults' \in faults..s.maxFaults /\ writes' \in writes..s.maxWrites
       /\ data' \in [s.keys -> [write : 0..writes', until : 0..s.maxTime + s.ttl]]
       /\ \A k \in s.keys : data'[k] = data[k]
  BY <1>1, <1>n DEF DataLives
<1> QED  BY <1>1, <1>3, <1>4, <1>6, <1>7, <1>8, <1>9, <1>10, <1>u, RedisMoves

\* A read that is done with a key.
LEMMA ReturnedOk ==
  ASSUME NEW s \in Layouts, NEW u \in RedisTask(s), NEW w, NEW d, NEW x, RedisTaskOk(s, u, w),
         u.step \in {"read", "pttl"}, NEW k, NEW value, NEW until, until \in Int, value.until \in Int,
         s.snapshot => until = value.until, u.op = "get" => k = u.key,
         value = Redis(s)!Nothing => d[k] = Redis(s)!Nothing,
         NEW t, t = Redis(s)!Returned(u, k, value, until)
  PROVE  /\ t \in RedisTask(s) /\ RedisTaskOk(s, t, w) /\ Unreached(s, t, d)
         /\ t.op = u.op /\ t.scope = u.scope /\ t.before = u.before /\ t.ok = u.ok
         /\ AloneOk(s, u, d, x) => AloneOk(s, t, d, x)
<1> DEFINE shown == value # Redis(s)!Nothing /\ ~(u.op = "inspect" /\ k \in s.big)
           excess == IF shown THEN u.excess \cup {until - value.until} ELSE u.excess
           todo == u.todo \ {k}
           r == [u EXCEPT !.todo = todo, !.got = Redis(s)!Nothing, !.excess = excess]
           step == CASE u.op = "get" /\ value = Redis(s)!Nothing /\ s.indexed -> "unindex"
                     [] todo # {} -> "read"
                     [] OTHER -> "done"
           e == [r EXCEPT !.step = step]
<1>0. Redis(s)!Nothing \in [write : Nat, until : Nat]
  BY DEF Redis!Nothing
<1>1. /\ u.excess \subseteq Int /\ excess \subseteq Int /\ todo \subseteq u.todo /\ todo \subseteq s.keys
      /\ (s.snapshot => excess \subseteq {0})
  BY DEF RedisTask, RedisTaskOk
<1>2. /\ step \in {"unindex", "read", "done"} /\ step \in Redis(s)!Steps
      /\ step = "unindex" => u.op = "get" /\ value = Redis(s)!Nothing
  BY StepNames
<1>3. t = e
  <2>1. r.op = u.op /\ r.todo = todo
    BY DEF RedisTask
  <2>2. Redis(s)!Returned(u, k, value, until) =
          [r EXCEPT !.step = CASE r.op = "get" /\ value = Redis(s)!Nothing /\ s.indexed -> "unindex"
                               [] r.todo # {} -> "read"
                               [] OTHER -> "done"]
    BY DEF Redis!Returned
  <2> HIDE DEF r, todo
  <2> QED  BY <2>1, <2>2
<1> HIDE DEF excess, todo, step
<1>4. e \in RedisTask(s)
  BY <1>0, <1>1, <1>2 DEF RedisTask
<1>5. /\ e.op = u.op /\ e.step = step /\ e.key = u.key /\ e.before = u.before /\ e.scope = u.scope
      /\ e.todo = todo /\ e.batch = u.batch /\ e.left = u.left /\ e.excess = excess /\ e.ran = u.ran /\ e.ok = u.ok
  BY DEF RedisTask
<1> HIDE DEF e, r
<1>6. u.op \notin {"delete", "pattern"} /\ u.left = {}
  BY DEF RedisTaskOk
<1>7. RedisTaskOk(s, e, w)
  BY <1>1, <1>2, <1>5, <1>6 DEF RedisTaskOk
<1>8. Unreached(s, e, d)
  BY <1>5, <1>6 DEF Unreached
<1>9. AloneOk(s, u, d, x) => AloneOk(s, e, d, x)
  BY <1>2, <1>5 DEF AloneOk
<1> QED  BY <1>3, <1>4, <1>5, <1>7, <1>8, <1>9

LEMMA RedisRead ==
  ASSUME NEW s \in Layouts, RedisInv(s), NEW c \in s.clients, NEW k \in task[c].todo, Redis(s)!Read(c, k)
  PROVE  RedisInv(s)' /\ Redis(s)!ReachedAll
<1>u. /\ task[c] \in RedisTask(s) /\ RedisTaskOk(s, task[c], writes) /\ Unreached(s, task[c], data)
      /\ (faults = 0 => task[c].ok) /\ (Alone(s) /\ faults = 0 => AloneOk(s, task[c], data, index))
  BY TaskFacts
<1> DEFINE p == [task[c] EXCEPT !.got = data[k], !.key = k, !.step = "pttl"]
<1>1. PICK t : /\ t = IF Redis(s)!Live(k) /\ ~s.snapshot THEN p
                      ELSE Redis(s)!Returned(task[c], k, data[k], data[k].until)
               /\ Redis(s)!Become(c, t)
  BY DEF Redis!Read
<1>2. task[c].step = "read" /\ UNCHANGED <<clock, writes, data, index, faults>>
  BY DEF Redis!Read, Redis!At, Redis!redis
<1>3. k \in s.keys /\ (task[c].op = "get" => k = task[c].key)
  BY <1>u DEF RedisTask, RedisTaskOk
<1>4. data[k] \in [write : Nat, until : Nat]
  BY <1>3, RedisNumbers
<1>5. /\ t \in RedisTask(s) /\ RedisTaskOk(s, t, writes) /\ Unreached(s, t, data)
      /\ t.op = task[c].op /\ t.scope = task[c].scope /\ t.before = task[c].before /\ t.ok = task[c].ok
      /\ (AloneOk(s, task[c], data, index) => AloneOk(s, t, data, index))
  <2>1. CASE t = p /\ Redis(s)!Live(k) /\ ~s.snapshot
    <3>1. p \in RedisTask(s)
      BY <1>3, <1>4, <1>u, StepNames DEF RedisTask
    <3>2. /\ p.op = task[c].op /\ p.step = "pttl" /\ p.key = k /\ p.before = task[c].before /\ p.scope = task[c].scope
          /\ p.todo = task[c].todo /\ p.batch = task[c].batch /\ p.left = task[c].left /\ p.got = data[k]
          /\ p.excess = task[c].excess /\ p.ran = task[c].ran /\ p.ok = task[c].ok
      BY <1>u DEF RedisTask
    <3> HIDE DEF p
    <3>3. data[k] # Redis(s)!Nothing
      BY <2>1 DEF Redis!Live
    <3>4. RedisTaskOk(s, p, writes)
      BY <1>2, <1>3, <1>u, <2>1, <3>2, <3>3 DEF RedisTaskOk
    <3>5. Unreached(s, p, data)
      BY <1>2, <1>u, <3>2 DEF Unreached, RedisTaskOk
    <3>6. AloneOk(s, task[c], data, index) => AloneOk(s, p, data, index)
      BY <1>2, <3>2 DEF AloneOk
    <3> QED  BY <2>1, <3>1, <3>2, <3>4, <3>5, <3>6
  <2>2. CASE t = Redis(s)!Returned(task[c], k, data[k], data[k].until)
    <3>1. data[k].until \in Int
      BY <1>4
    <3> QED  BY <1>2, <1>3, <1>u, <2>2, <3>1, ReturnedOk, SMTT(60)
  <2> QED  BY <1>1, <2>1, <2>2
<1>6. ~Counting(task[c]) /\ ~Trimming(s, task[c], index)
  BY <1>2 DEF Counting, Trimming
<1> QED  BY <1>1, <1>2, <1>5, <1>6, <1>u, TaskMoves

LEMMA RedisPttl ==
  ASSUME NEW s \in Layouts, RedisInv(s), NEW c \in s.clients, Redis(s)!Pttl(c)
  PROVE  RedisInv(s)' /\ Redis(s)!ReachedAll
<1>u. /\ task[c] \in RedisTask(s) /\ RedisTaskOk(s, task[c], writes) /\ Unreached(s, task[c], data)
      /\ (faults = 0 => task[c].ok) /\ (Alone(s) /\ faults = 0 => AloneOk(s, task[c], data, index))
  BY TaskFacts
<1> DEFINE k == task[c].key
           value == IF Redis(s)!Live(k) THEN task[c].got ELSE Redis(s)!Nothing
<1>1. PICK t : t = Redis(s)!Returned(task[c], k, value, data[k].until) /\ Redis(s)!Become(c, t)
  BY DEF Redis!Pttl
<1>2. task[c].step = "pttl" /\ UNCHANGED <<clock, writes, data, index, faults>>
  BY DEF Redis!Pttl, Redis!At, Redis!redis
<1>3. k \in s.keys /\ ~s.snapshot /\ task[c].got # Redis(s)!Nothing
  BY <1>2, <1>u DEF RedisTaskOk
<1>4. data[k].until \in Int /\ value.until \in Int
  <2>1. task[c].got.until \in Int
    BY <1>u DEF RedisTask
  <2>2. data[k].until \in Int
    BY <1>3, RedisNumbers
  <2>3. Redis(s)!Nothing.until \in Int
    BY DEF Redis!Nothing
  <2> QED  BY <2>1, <2>2, <2>3
<1>5. value = Redis(s)!Nothing => data[k] = Redis(s)!Nothing
  BY <1>3 DEF Redis!Live
<1> HIDE DEF value
<1>6. /\ t \in RedisTask(s) /\ RedisTaskOk(s, t, writes) /\ Unreached(s, t, data)
      /\ t.op = task[c].op /\ t.scope = task[c].scope /\ t.before = task[c].before /\ t.ok = task[c].ok
      /\ (AloneOk(s, task[c], data, index) => AloneOk(s, t, data, index))
  BY <1>1, <1>2, <1>3, <1>4, <1>5, <1>u, ReturnedOk
<1>7. ~Counting(task[c]) /\ ~Trimming(s, task[c], index)
  BY <1>2 DEF Counting, Trimming
<1> QED  BY <1>1, <1>2, <1>6, <1>7, <1>u, TaskMoves

LEMMA RedisFails ==
  ASSUME NEW s \in Layouts, RedisInv(s), NEW c \in s.clients, Redis(s)!Fails(c)
  PROVE  RedisInv(s)' /\ Redis(s)!ReachedAll
<1>u. task[c] \in RedisTask(s) /\ RedisTaskOk(s, task[c], writes) /\ Unreached(s, task[c], data)
  BY TaskFacts
<1>n. /\ clock \in Nat /\ faults \in 0..s.maxFaults /\ writes \in 0..s.maxWrites
      /\ s.maxFaults \in Nat /\ s.maxWrites \in Nat /\ DataLives(s)
      /\ data \in [s.keys -> [write : 0..writes, until : 0..s.maxTime + s.ttl]]
      /\ index \in [s.keys -> 0..s.maxTime + s.ttl]
  BY RedisNumbers
<1> DEFINE ok == task[c].op = "set" /\ s.versioned /\ task[c].step # "write"
           step == IF task[c].step = "write" /\ ~s.versioned /\ s.indexed THEN "zadd" ELSE "done"
           t == [task[c] EXCEPT !.ok = ok, !.step = step]
<1>1. /\ task[c].step \notin {"done", "scan", "prune"} /\ faults < s.maxFaults /\ faults' = faults + 1
      /\ Redis(s)!Become(c, t) /\ UNCHANGED <<clock, writes, data, index>>
  BY DEF Redis!Fails, Redis!redis
<1>2. /\ step \in {"zadd", "done"} /\ (step = "zadd" => task[c].step = "write") /\ step \in Redis(s)!Steps
      /\ ok \in BOOLEAN /\ (ok => task[c].op = "set")
  BY StepNames, RedisConstants
<1> HIDE DEF step, ok
<1>3. t \in RedisTask(s)
  BY <1>2, <1>u DEF RedisTask
<1>4. /\ t.op = task[c].op /\ t.step = step /\ t.key = task[c].key /\ t.before = task[c].before
      /\ t.scope = task[c].scope /\ t.todo = task[c].todo /\ t.batch = task[c].batch /\ t.left = task[c].left
      /\ t.excess = task[c].excess /\ t.ran = task[c].ran /\ t.ok = ok
  BY <1>u DEF RedisTask
<1> HIDE DEF t
<1>6. RedisTaskOk(s, t, writes')
  BY <1>1, <1>2, <1>4, <1>u DEF RedisTaskOk
<1>7. Unreached(s, t, data')
  BY <1>1, <1>4, <1>u DEF Unreached
<1>8. DataLives(s)' /\ faults' \in faults..s.maxFaults /\ faults' # 0 /\ writes' \in writes..s.maxWrites
       /\ data' \in [s.keys -> [write : 0..writes', until : 0..s.maxTime + s.ttl]]
       /\ index' \in [s.keys -> 0..s.maxTime + s.ttl]
       /\ \A k \in s.keys : data'[k] = data[k]
  BY <1>1, <1>n DEF DataLives
<1> QED  BY <1>1, <1>3, <1>4, <1>6, <1>7, <1>8, RedisMoves

LEMMA RedisTick == ASSUME NEW s \in Layouts, RedisInv(s), Redis(s)!Tick PROVE RedisInv(s)' /\ Redis(s)!ReachedAll
<1>n. /\ clock \in 1..s.maxTime /\ faults \in 0..s.maxFaults /\ writes \in 0..s.maxWrites /\ s.maxTime \in Nat
      /\ s.ttl \in Nat \ {0} /\ DataLives(s)
      /\ data \in [s.keys -> [write : 0..writes, until : 0..s.maxTime + s.ttl]]
      /\ index \in [s.keys -> 0..s.maxTime + s.ttl] /\ task \in [s.clients -> RedisTask(s)]
  BY RedisNumbers
<1>1. /\ clock < s.maxTime /\ clock' = clock + 1 /\ UNCHANGED <<writes, index, task, faults>>
      /\ data' = [k \in s.keys |-> IF data[k].until <= clock + 1 THEN Redis(s)!Nothing ELSE data[k]]
  BY DEF Redis!Tick
<1>2. /\ \A k \in s.keys : data'[k] = Redis(s)!Nothing \/ (data'[k] = data[k] /\ data[k].until > clock + 1)
      /\ data' \in [s.keys -> [write : 0..writes', until : 0..s.maxTime + s.ttl]]
  <2>1. Redis(s)!Nothing \in [write : 0..writes', until : 0..s.maxTime + s.ttl]
    BY <1>1, <1>n DEF Redis!Nothing
  <2> QED  BY <1>1, <1>n, <2>1
<1>3. RedisTypes(s)'
  BY <1>1, <1>2, <1>n DEF RedisTypes, RedisTask, Redis!Steps
<1>4. ASSUME NEW c \in s.clients
      PROVE  /\ RedisTaskOk(s, task[c], writes) /\ Unreached(s, task[c], data')
             /\ (Alone(s) /\ faults = 0 => AloneOk(s, task[c], data', index))
  <2>u. /\ task[c] \in RedisTask(s) /\ RedisTaskOk(s, task[c], writes) /\ Unreached(s, task[c], data)
        /\ (Alone(s) /\ faults = 0 => AloneOk(s, task[c], data, index))
    BY TaskFacts
  <2>1. Unreached(s, task[c], data')
    BY <1>2, <2>u DEF Unreached, RedisTask
  <2>2. Alone(s) /\ faults = 0 => AloneOk(s, task[c], data', index)
    BY <1>2, <2>u DEF AloneOk, RedisTaskOk, RedisTask
  <2> QED  BY <2>1, <2>2, <2>u
<1>5. RedisTasks(s)'
  <2>1. faults' = 0 => \A c \in s.clients : task'[c].ok
    BY <1>1 DEF RedisInv, RedisTasks
  <2>2. \A c \in s.clients : RedisTaskOk(s, task'[c], writes') /\ Unreached(s, task'[c], data')
    BY <1>1, <1>4
  <2> QED  BY <2>1, <2>2 DEF RedisTasks, RedisTaskOk, Unreached, Redis!Nothing
<1>6. LimitInv(s)'
  BY <1>1 DEF RedisInv, LimitInv, MembersOf, Counting, Trimming
<1>7. DataLives(s)'
  BY <1>1, <1>2, <1>n DEF DataLives, Redis!Nothing
<1>8. AloneInv(s)'
  <2>1. Alone(s) /\ faults' = 0 => \A c \in s.clients : AloneOk(s, task'[c], data', index')
    BY <1>1, <1>4
  <2> QED  BY <1>7, <2>1 DEF AloneInv, AloneOk, Alone, Redis!Nothing
<1>9. Redis(s)!ReachedAll
  BY <1>1 DEF Redis!ReachedAll, Redis!Reached
<1> QED  BY <1>3, <1>5, <1>6, <1>8, <1>9 DEF RedisInv

LEMMA RedisStep ==
  ASSUME NEW s \in Layouts, RedisInv(s), Redis(s)!Next PROVE RedisInv(s)' /\ Redis(s)!ReachedAll
<1>1. CASE Redis(s)!Tick
  BY <1>1, RedisTick
<1>2. ASSUME NEW c \in s.clients,
             Redis(s)!Write(c) \/ Redis(s)!NoScript(c) \/ Redis(s)!ReplyLost(c) \/ Redis(s)!Zadd(c)
             \/ Redis(s)!Prune(c) \/ Redis(s)!PruneFails(c) \/ Redis(s)!Zcard(c) \/ Redis(s)!Zrange(c)
             \/ Redis(s)!Rechecked(c)
      PROVE  RedisInv(s)' /\ Redis(s)!ReachedAll
  BY <1>2, RedisWrite, RedisNoScript, RedisReplyLost, RedisZadd, RedisPrune, RedisZcard, RedisZrange, RedisRechecked
<1>3. ASSUME NEW c \in s.clients,
             Redis(s)!Unlink(c) \/ Redis(s)!Zrem(c) \/ Redis(s)!ScanEnds(c) \/ Redis(s)!Pttl(c)
             \/ Redis(s)!Unindex(c) \/ Redis(s)!Fails(c)
      PROVE  RedisInv(s)' /\ Redis(s)!ReachedAll
  BY <1>3, RedisUnlink, RedisZrem, RedisScanEnds, RedisPttl, RedisUnindex, RedisFails
<1>4. ASSUME NEW c \in s.clients, NEW k \in task[c].todo,
             Redis(s)!Recheck(c, k) \/ Redis(s)!ScanReturns(c, k) \/ Redis(s)!Read(c, k)
      PROVE  RedisInv(s)' /\ Redis(s)!ReachedAll
  BY <1>4, RedisRecheck, RedisScanReturns, RedisRead
<1>5. ASSUME NEW c \in s.clients, Redis(s)!Size(c) \/ Redis(s)!Inspect(c)
      PROVE  RedisInv(s)' /\ Redis(s)!ReachedAll
  BY <1>5, RedisSize, RedisInspect
<1>6. ASSUME NEW c \in s.clients, NEW pattern \in SUBSET s.keys, Redis(s)!DeleteByPattern(c, pattern)
      PROVE  RedisInv(s)' /\ Redis(s)!ReachedAll
  BY <1>6, RedisPattern
<1>7. ASSUME NEW c \in s.clients, NEW k \in s.keys, Redis(s)!Set(c, k) \/ Redis(s)!Get(c, k) \/ Redis(s)!Delete(c, k)
      PROVE  RedisInv(s)' /\ Redis(s)!ReachedAll
  BY <1>7, RedisSet, RedisGet, RedisDelete
<1> QED  BY <1>1, <1>2, <1>3, <1>4, <1>5, <1>6, <1>7 DEF Redis!Next

LEMMA RedisStutter == ASSUME NEW s \in Layouts, RedisInv(s), UNCHANGED redisVars PROVE RedisInv(s)'
<1>1. RedisTypes(s)'
  BY DEF RedisInv, RedisTypes, redisVars, RedisTask, Redis!Steps
<1>2. RedisTasks(s)'
  BY DEF RedisInv, RedisTasks, redisVars, RedisTaskOk, Unreached, Redis!Nothing
<1>3. LimitInv(s)'
  BY DEF RedisInv, LimitInv, redisVars, MembersOf, Counting, Trimming
<1>4. AloneInv(s)'
  BY DEF RedisInv, AloneInv, redisVars, DataLives, Alone, AloneOk, Redis!Nothing
<1> QED  BY <1>1, <1>2, <1>3, <1>4 DEF RedisInv

LEMMA RedisPromises ==
  ASSUME NEW s \in Layouts, RedisInv(s)
  PROVE  /\ Redis(s)!TypeOK /\ Redis(s)!ScriptRunsOnce /\ Redis(s)!SnapshotPairs /\ Redis(s)!LimitKept
         /\ Redis(s)!AloneCatalogued
<1>1. Redis(s)!TypeOK
  BY DEF RedisInv, RedisTypes, RedisTasks, RedisTaskOk, RedisTask, Redis!TypeOK
<1>2. Redis(s)!ScriptRunsOnce /\ Redis(s)!SnapshotPairs
  BY DEF RedisInv, RedisTasks, RedisTaskOk, Redis!ScriptRunsOnce, Redis!SnapshotPairs
<1>3. Redis(s)!LimitKept
  <2> SUFFICES ASSUME s.indexed, Redis(s)!Quiet, faults = 0
               PROVE  Redis(s)!Cardinality(Redis(s)!Members) <= s.maxEntries
    BY DEF Redis!LimitKept
  <2>1. \A c \in s.clients : ~Counting(task[c]) /\ ~Trimming(s, task[c], index)
    BY DEF Redis!Quiet, Redis!At, Counting, Trimming
  <2>2. Cardinality(MembersOf(s, index)) <= s.maxEntries
    BY <2>1 DEF RedisInv, LimitInv
  <2>3. Redis(s)!Members = MembersOf(s, index)
    BY DEF Redis!Members, MembersOf
  <2> QED  BY <2>2, <2>3, SameCardinality
<1>4. Redis(s)!AloneCatalogued
  <2> SUFFICES ASSUME s.versioned, s.indexed, Redis(s)!Cardinality(s.clients) = 1, Redis(s)!Quiet, faults = 0,
                      NEW k \in s.keys, Redis(s)!Live(k)
               PROVE  index[k] # 0
    BY DEF Redis!AloneCatalogued
  <2>1. Cardinality(s.clients) = 1
    BY SameCardinality
  <2>2. PICK c \in s.clients : TRUE
    <3>1. s.clients # {}
      BY <2>1, FS_EmptySet
    <3> QED  BY <3>1
  <2>3. AloneOk(s, task[c], data, index) /\ DataLives(s) /\ task[c].step = "done"
    BY <2>1 DEF RedisInv, AloneInv, Alone, Redis!Quiet, Redis!At
  <2>4. index[k] >= data[k].until /\ data[k].until > clock
    BY <2>3 DEF AloneOk, DataLives, Redis!Live
  <2>5. clock \in Nat /\ index[k] \in Nat /\ data[k].until \in Nat
    BY RedisNumbers
  <2> QED  BY <2>4, <2>5
<1> QED  BY <1>1, <1>2, <1>3, <1>4

-----------------------------------------------------------------------------
(* The parts together *)

\* Each part keeps its invariant, in the layout and the setup of the behaviour.
StorageInv ==
  /\ \A s \in Layouts : layout = s.name => RedisInv(s)
  /\ \A s \in Setups : setup = s.name => WorkerInv(s)
  /\ TicketInv

LEMMA StorageStart == Init => StorageInv
<1> SUFFICES ASSUME Init PROVE StorageInv  OBVIOUS
<1>1. PICK r \in Layouts : layout = r.name /\ Redis(r)!Init
  BY DEF Init
<1>2. PICK w \in Setups : setup = w.name /\ Worker(w)!Init
  BY DEF Init
<1>3. RedisInv(r) /\ WorkerInv(w)
  BY <1>1, <1>2, RedisStart, WorkerStart
<1>4. (\A s \in Layouts : layout = s.name => s = r) /\ (\A s \in Setups : setup = s.name => s = w)
  BY <1>1, <1>2, StorageAssumption
<1>5. TicketInv
  BY TicketStart DEF Init
<1> QED  BY <1>3, <1>4, <1>5 DEF StorageInv

\* What a step of the whole does to one part.
LEMMA PartSteps ==
  ASSUME StorageInv, [Next]_vars
  PROVE  /\ UNCHANGED layout /\ UNCHANGED setup /\ UNCHANGED part
         /\ UNCHANGED redisVars \/ (part = "redis" /\ \A s \in Layouts : layout = s.name => Redis(s)!Next)
         /\ UNCHANGED workerVars \/ (part = "worker" /\ \A s \in Setups : setup = s.name => Worker(s)!Next)
         /\ UNCHANGED ticketVars \/ (part = "ticketing" /\ Tickets!Next)
<1>1. CASE UNCHANGED vars
  BY <1>1 DEF vars, redisVars, workerVars, ticketVars
<1>2. CASE /\ part = "redis" /\ \E s \in Layouts : layout = s.name /\ Redis(s)!Next
           /\ UNCHANGED <<part, layout, askVars, workerVars, ticketVars>>
  <2>1. PICK r \in Layouts : layout = r.name /\ Redis(r)!Next
    BY <1>2
  <2>2. \A s \in Layouts : layout = s.name => s = r
    BY <2>1, StorageAssumption
  <2>3. \A s \in Layouts : layout = s.name => Redis(s)!Next
    BY <2>1, <2>2
  <2>4. UNCHANGED setup
    BY <1>2 DEF workerVars
  <2> QED  BY <1>2, <2>3, <2>4
<1>3. CASE /\ (part = "keys" /\ Names!Next) \/ (part = "wire" /\ Wire!Next)
           /\ UNCHANGED <<part, redisVars, workerVars, ticketVars>>
  BY <1>3 DEF redisVars, workerVars
<1>4. CASE /\ part = "worker" /\ \E s \in Setups : setup = s.name /\ Worker(s)!Next
           /\ UNCHANGED <<part, setup, redisVars, askVars, ticketVars>>
  <2>1. PICK w \in Setups : setup = w.name /\ Worker(w)!Next
    BY <1>4
  <2>2. \A s \in Setups : setup = s.name => s = w
    BY <2>1, StorageAssumption
  <2>3. \A s \in Setups : setup = s.name => Worker(s)!Next
    BY <2>1, <2>2
  <2>4. UNCHANGED layout
    BY <1>4 DEF redisVars
  <2> QED  BY <1>4, <2>3, <2>4
<1>5. CASE part = "ticketing" /\ Tickets!Next /\ UNCHANGED <<part, redisVars, askVars, workerVars>>
  BY <1>5 DEF redisVars, workerVars
<1> QED  BY <1>1, <1>2, <1>3, <1>4, <1>5 DEF Next

LEMMA StorageStep == StorageInv /\ [Next]_vars => StorageInv'
<1> SUFFICES ASSUME StorageInv, [Next]_vars PROVE StorageInv'  OBVIOUS
<1>1. ASSUME NEW s \in Layouts, layout' = s.name PROVE RedisInv(s)'
  BY <1>1, PartSteps, RedisStep, RedisStutter DEF StorageInv
<1>2. ASSUME NEW s \in Setups, setup' = s.name PROVE WorkerInv(s)'
  BY <1>2, PartSteps, WorkerStep, WorkerStutter DEF StorageInv
<1>3. TicketInv'
  BY PartSteps, TicketStep, TicketStutter DEF StorageInv
<1> QED  BY <1>1, <1>2, <1>3 DEF StorageInv

LEMMA StorageAlways == Spec => []StorageInv
<1>1. Init => StorageInv
  BY StorageStart
<1>2. StorageInv /\ [Next]_vars => StorageInv'
  BY StorageStep
<1> QED  BY <1>1, <1>2, PTL DEF Spec

(***************************************************************************)
(* A delete or a pattern delete by scanning that succeeds leaves none of the *)
(* values that were there when it was called, and a publishing script runs   *)
(* once per call whatever is lost (RedisStore.deleteKeys, deleteByPattern,   *)
(* executeScript): for any number of keys, clients, writes and faults.       *)
(***************************************************************************)
THEOREM DeletesAreExact == Spec => CallsExact
<1>1. StorageInv => TypeOK /\ ScriptRunsOnce
  <2> SUFFICES ASSUME StorageInv PROVE TypeOK /\ ScriptRunsOnce  OBVIOUS
  <2>1. \A s \in Layouts : layout = s.name => Redis(s)!TypeOK /\ Redis(s)!ScriptRunsOnce
    BY RedisPromises DEF StorageInv
  <2>2. \A s \in Setups : setup = s.name => Worker(s)!TypeOK
    BY WorkerPromises DEF StorageInv
  <2>3. Tickets!TypeOK
    BY TicketPromises DEF StorageInv
  <2> QED  BY <2>1, <2>2, <2>3 DEF TypeOK, ScriptRunsOnce
<1>2. StorageInv /\ [Next]_vars => [part = "redis" => \A s \in Layouts : layout = s.name => Redis(s)!ReachedAll]_redisVars
  <2> SUFFICES ASSUME StorageInv, [Next]_vars, ~UNCHANGED redisVars, NEW s \in Layouts, layout = s.name
               PROVE  Redis(s)!ReachedAll
    OBVIOUS
  <2>1. RedisInv(s) /\ Redis(s)!Next
    BY PartSteps DEF StorageInv
  <2> QED  BY <2>1, RedisStep
<1> QED  BY <1>1, <1>2, StorageAlways, PTL DEF Spec, CallsExact, DeletesReach

(***************************************************************************)
(* Between operations, if none has failed, the index is within maxEntries    *)
(* however the trims of any number of clients overlapped; one client alone   *)
(* keeps every live value in it; and with the snapshot script a TTL is       *)
(* returned with its own value (RedisStore.trimIndex, recordPublishedIndex,  *)
(* removeFromIndex, getEncoded).                                             *)
(***************************************************************************)
THEOREM IndexIsKept == Spec => []IndexKept
<1>1. StorageInv => IndexKept
  BY RedisPromises DEF StorageInv, IndexKept, LimitKept, AloneCatalogued, SnapshotPairs
<1> QED  BY <1>1, StorageAlways, PTL

(***************************************************************************)
(* The Worker cache: nothing observed before a local mutation is in L1 or is *)
(* shared after it, L1 keeps nothing beyond the TTL of its record, and a     *)
(* closed facade writes nothing to it (observeKey, isCurrent, getOrSet,      *)
(* publishValue): for any number of requests and mutations.                  *)
(***************************************************************************)
THEOREM WorkersStayFresh == Spec => WorkerFresh
<1>1. StorageInv => L1SinceMutation /\ SharedIsFresh /\ L1WithinTtl
  BY WorkerPromises DEF StorageInv, L1SinceMutation, SharedIsFresh, L1WithinTtl
<1>2. StorageInv /\ [Next]_vars => [closed => l1' \in {l1, None}]_workerVars
  <2> SUFFICES ASSUME StorageInv, [Next]_vars, ~UNCHANGED workerVars, closed
               PROVE  l1' \in {l1, None}
    OBVIOUS
  <2>1. \E s \in Setups : Worker(s)!Next
    BY DEF Next, vars, workerVars
  <2> QED  BY <2>1, ClosedStays
<1> QED  BY <1>1, <1>2, StorageAlways, PTL DEF Spec, WorkerFresh, ClosedWritesNothing

(***************************************************************************)
(* Requests of a Worker share one load between two mutations, the map of     *)
(* revisions holds a key exactly while a guard is held on it, and a delete   *)
(* that resolves was executed by KV or is in the queue.                      *)
(***************************************************************************)
THEOREM WorkerCallsAreExact == Spec => []WorkerCalls
<1>1. StorageInv => WorkerCalls
  BY WorkerPromises DEF StorageInv, WorkerCalls, OneLoad, GuardsExact, ResolvedMeansDone
<1> QED  BY <1>1, StorageAlways, PTL

(***************************************************************************)
(* The ticketing example: a seat is held by at most one reservation, and a   *)
(* confirmed seat is not lost to another request or to time, whatever dies   *)
(* between its transactions.  An attempt of its own buyer that is still      *)
(* under way can free it.                                                    *)
(***************************************************************************)
THEOREM SeatsAreExact == Spec => SeatsExact
<1>1. StorageInv => OneHolder
  BY TicketPromises DEF StorageInv, OneHolder
<1>2. StorageInv /\ [Next]_vars => [part = "ticketing" => Tickets!KeepsSeat]_ticketVars
  BY PartSteps, SeatStays DEF StorageInv
<1> QED  BY <1>1, <1>2, StorageAlways, PTL DEF Spec, SeatsExact, SeatKept

(***************************************************************************)
(* Payments of the example: one at most for an idempotency key, one behind   *)
(* every confirmed seat, and every final answer, and the record in Redis,    *)
(* agree with the database.                                                  *)
(***************************************************************************)
THEOREM PaymentsAreExact == Spec => []PaymentsExact
<1>1. StorageInv => PaymentsExact
  BY TicketPromises DEF StorageInv, PaymentsExact, ConfirmedPaid, ChargedOnce, AnswersAgree, RedisFollows
<1> QED  BY <1>1, StorageAlways, PTL

=============================================================================
