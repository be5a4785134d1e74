------------------------------ MODULE Ticketing ------------------------------
(***************************************************************************)
(* The ticketing example of the transaction coordinator: a service that     *)
(* reserves, confirms and releases a seat, a durable database, a payment    *)
(* provider, and the coordination record in Redis that only one attempt at  *)
(* a time shall work.  A step is what runs between two awaits; a request    *)
(* may die at any await and is repeated with its idempotency key.  One      *)
(* seat: nothing relates two.                                               *)
(***************************************************************************)
EXTENDS Integers, FiniteSets

CONSTANTS
  Caller,
  Requests,                \* [kind, buyer, key, reservation]; a reserve names no reservation
  HoldMs, LeaseMs, RetentionMs,
  MaxCalls, MaxOperations, MaxTime   \* bounds of the model

TicketingAssumption ==
  /\ {HoldMs, LeaseMs, RetentionMs, MaxCalls, MaxOperations} \subseteq Nat \ {0} /\ MaxTime \in Nat
  /\ \A q \in Requests : /\ q.kind \in {"reserve", "confirm", "release"}
                         /\ q.reservation \in 0..MaxOperations

VARIABLES
  now, calls,
  sequence,      \* durable ids given so far
  seat,          \* the row: state, the reservation that has it, when the hold ends
  reservation,   \* [Id -> its row; state "none" when there is none]
  operation,     \* [Id -> the durable operation; state "none" when there is none]
  byKey,         \* [<<kind, key>> -> the durable id the database saved last, or 0]
  record,        \* [<<kind, key>> -> the coordination record in Redis]
  charges,       \* [Id -> payments the provider executed under the operation's key]
  call,          \* [Caller -> its request and where it is]
  told           \* [Id -> final results that were returned to callers]
db == <<sequence, seat, reservation, operation, byKey>>
vars == <<now, calls, db, record, charges, call, told>>

Id == 1..MaxOperations
Slot == {<<q.kind, q.key>> : q \in Requests}
NoSeat == [state |-> "available", holder |-> 0, until |-> 0]
NoReservation == [buyer |-> "none", state |-> "none", until |-> 0]
NoOperation == [kind |-> "none", key |-> "none", fingerprint |-> <<>>, reservation |-> 0,
                state |-> "none", version |-> 0, result |-> "none"]
NoRecord == [id |-> 0, owner |-> 0, state |-> "none", lease |-> 0, retain |-> 0, ref |-> "none"]
\* The serial number of a call is the owner token of its claim.
Idle == [pc |-> "done", request |-> [kind |-> "none", buyer |-> "none", key |-> "none", reservation |-> 0],
         serial |-> 0, id |-> 0, version |-> 0, at |-> 0, result |-> "none"]

Init ==
  /\ now = 0 /\ calls = 0 /\ sequence = 0 /\ seat = NoSeat
  /\ reservation = [i \in Id |-> NoReservation] /\ operation = [i \in Id |-> NoOperation]
  /\ byKey = [s \in Slot |-> 0] /\ record = [s \in Slot |-> NoRecord]
  /\ charges = [i \in Id |-> 0] /\ call = [c \in Caller |-> Idle] /\ told = [i \in Id |-> {}]

SlotOf(q) == <<q.kind, q.key>>
Fingerprint(q) == <<q.reservation, q.buyer>>
Later(a, b) == IF a > b THEN a ELSE b

-----------------------------------------------------------------------------
(* The database *)

\* mutant: a hold ends whatever became of the seat.
ExpireAny(at) ==
  IF seat.holder = 0 \/ reservation[seat.holder].until > at THEN UNCHANGED <<seat, reservation>>
  ELSE /\ reservation' = [reservation EXCEPT ![seat.holder].state = "released"]
       /\ seat' = NoSeat

expireSeat(at) ==
  IF seat.state # "held" \/ seat.until > at THEN UNCHANGED <<seat, reservation>>
  ELSE /\ reservation' = [reservation EXCEPT ![seat.holder].state = IF @ = "held" THEN "released" ELSE @]
       /\ seat' = NoSeat

releaseReservation(r) ==
  /\ reservation' = [reservation EXCEPT ![r].state = "released"]
  /\ seat' = IF seat.holder = r THEN NoSeat ELSE seat

NewOperation(q, r) ==
  [kind |-> q.kind, key |-> q.key, fingerprint |-> Fingerprint(q), reservation |-> r,
   state |-> "pending", version |-> 0, result |-> "none"]
Final(o, result) == [o EXCEPT !.state = "completed", !.result = result]

saveOperation(q, o) ==
  /\ sequence' = sequence + 1
  /\ operation' = [operation EXCEPT ![sequence + 1] = o]
  /\ byKey' = [byKey EXCEPT ![SlotOf(q)] = sequence + 1]

-----------------------------------------------------------------------------
(* How a call goes on *)

Goto(c, k) == call' = [call EXCEPT ![c] = k]

\* The call returns or throws; told is what a final answer said.
Return(c, id, result) ==
  /\ Goto(c, Idle)
  /\ told' = IF result \in {"held", "confirmed", "released", "declined"}
             THEN [told EXCEPT ![id] = @ \union {result}] ELSE told

readFinalOrPending(id) == IF operation[id].state = "completed" THEN operation[id].result ELSE "pending"

Start(c, q) ==
  /\ call[c].pc = "done" /\ calls < MaxCalls /\ calls' = calls + 1
  /\ UNCHANGED <<now, record, charges>>

Opened(q, pc, id) == [Idle EXCEPT !.pc = pc, !.request = q, !.serial = calls + 1, !.id = id]

\* An operation with this key exists.
Repeat(c, q) ==
  LET id == byKey[SlotOf(q)] IN
  /\ id # 0
  /\ \/ /\ operation[id].fingerprint # Fingerprint(q) /\ Return(c, id, "error")
     \/ /\ operation[id].fingerprint = Fingerprint(q) /\ operation[id].state = "completed"
        /\ Return(c, id, operation[id].result)
     \/ /\ operation[id].fingerprint = Fingerprint(q) /\ operation[id].state = "pending"
        /\ Goto(c, Opened(q, "begin", id)) /\ UNCHANGED told
  /\ UNCHANGED db

\* prepareReservation up to its yield: what it read may change before it goes on.
Reserve(c, q) ==
  /\ q.kind = "reserve" /\ Start(c, q)
  /\ \/ Repeat(c, q)
     \/ /\ byKey[SlotOf(q)] = 0 /\ expireSeat(now)
        /\ Goto(c, [Opened(q, "claiming", 0) EXCEPT !.at = now, !.result = seat'.state])
        /\ UNCHANGED <<sequence, operation, byKey, told>>

\* mutant: the seat is taken as it was before the yield.
SeatIsFreeStale(c) == call[c].result = "available"

SeatIsFree(c) == seat.state = "available"

\* The rest of prepareReservation: the seat row is checked and claimed in one step.
ClaimSeat(c) ==
  LET q == call[c].request
      id == sequence + 1
  IN
  /\ call[c].pc = "claiming" /\ id \in Id
  /\ IF ~SeatIsFree(c)
     THEN /\ saveOperation(q, Final(NewOperation(q, 0), "declined"))
          /\ reservation' = [reservation EXCEPT ![id] =
               [buyer |-> q.buyer, state |-> "released", until |-> call[c].at + HoldMs]]
          /\ Return(c, id, "declined") /\ UNCHANGED seat
     ELSE /\ saveOperation(q, NewOperation(q, id))
          /\ reservation' = [reservation EXCEPT ![id] =
               [buyer |-> q.buyer, state |-> "held", until |-> call[c].at + HoldMs]]
          /\ seat' = [state |-> "held", holder |-> id, until |-> call[c].at + HoldMs]
          /\ Goto(c, [call[c] EXCEPT !.pc = "begin", !.id = id, !.at = 0, !.result = "none"]) /\ UNCHANGED told
  /\ UNCHANGED <<now, calls, record, charges>>

\* prepareConfirm for a new key, and prepareRelease.
Held(q) == /\ q.reservation \in Id /\ reservation[q.reservation].state = "held"
           /\ reservation[q.reservation].buyer = q.buyer
Confirmable(q) == Held(q) /\ reservation[q.reservation].until > now /\ seat.holder = q.reservation

Prepare(c, q, permitted) ==
  /\ sequence + 1 \in Id
  /\ IF permitted
     THEN /\ saveOperation(q, NewOperation(q, q.reservation))
          /\ Goto(c, Opened(q, "begin", sequence + 1)) /\ UNCHANGED told
     ELSE /\ saveOperation(q, Final(NewOperation(q, q.reservation), "declined"))
          /\ Return(c, sequence + 1, "declined")

\* mutant: a key that was used is not looked for.
ConfirmAfresh(c, q) ==
  /\ q.kind = "confirm" /\ Start(c, q)
  /\ Prepare(c, q, Confirmable(q)) /\ UNCHANGED <<seat, reservation>>

Confirm(c, q) ==
  /\ q.kind = "confirm" /\ Start(c, q)
  /\ \/ Repeat(c, q)
     \/ /\ byKey[SlotOf(q)] = 0 /\ Prepare(c, q, Confirmable(q))
        /\ IF Held(q) /\ ~Confirmable(q) THEN releaseReservation(q.reservation)
           ELSE UNCHANGED <<seat, reservation>>

Release(c, q) ==
  /\ q.kind = "release" /\ Start(c, q)
  /\ \/ Repeat(c, q)
     \/ byKey[SlotOf(q)] = 0 /\ Prepare(c, q, Held(q)) /\ UNCHANGED <<seat, reservation>>

-----------------------------------------------------------------------------
(* Coordination: operations.begin() and complete() over the primary *)

Kept(s) == IF record[s].retain <= now THEN NoRecord ELSE record[s]

\* The primary executes begin; the reply is what it says of the record.
BeginReply(c) ==
  LET r == Kept(SlotOf(call[c].request)) IN
  CASE r.id # 0 /\ r.id # call[c].id -> "conflict"
    [] r.id = call[c].id /\ r.state = "completed" -> "completed"
    [] r.id = call[c].id /\ r.state = "pending" /\ r.lease > now -> "in_progress"
    [] OTHER -> "acquired"

Begin(c) ==
  LET s == SlotOf(call[c].request) IN
  /\ call[c].pc = "begin"
  /\ record' = IF BeginReply(c) # "acquired" THEN [record EXCEPT ![s] = Kept(s)]
               ELSE [record EXCEPT ![s] =
                       [id |-> call[c].id, owner |-> call[c].serial, state |-> "pending", lease |-> now + LeaseMs,
                        retain |-> Later(Kept(s).retain, now + RetentionMs), ref |-> "none"]]
  /\ Goto(c, [call[c] EXCEPT !.pc = "begun", !.result = BeginReply(c)])
  /\ UNCHANGED <<now, calls, db, charges, told>>

\* The reply arrives; with a claim, claimAttempt follows at once.
Begun(c) ==
  LET id == call[c].id IN
  /\ call[c].pc = "begun"
  /\ CASE call[c].result = "conflict" -> Return(c, id, "error") /\ UNCHANGED operation
       [] call[c].result = "completed" -> Return(c, id, readFinalOrPending(id)) /\ UNCHANGED operation
       [] call[c].result = "in_progress" -> Return(c, id, "pending") /\ UNCHANGED operation
       [] OTHER ->
            IF operation[id].state = "completed"
            THEN Return(c, id, operation[id].result) /\ UNCHANGED operation
            ELSE /\ operation' = [operation EXCEPT ![id].version = @ + 1]
                 /\ Goto(c, [call[c] EXCEPT !.version = operation[id].version + 1,
                               !.result = CASE operation[id].kind = "reserve" -> "held"
                                            [] operation[id].kind = "release" -> "released"
                                            [] OTHER -> "none",
                               !.pc = IF operation[id].kind = "confirm" THEN "lookup" ELSE "finalize"])
                 /\ UNCHANGED told
  /\ UNCHANGED <<now, calls, sequence, seat, reservation, byKey, record, charges>>

\* complete() by the claim's owner while it has the lease, or a repetition of what is there.
CompletedBy(c) ==
  LET s == SlotOf(call[c].request)
      r == Kept(s)
  IN  IF r.id = call[c].id /\ r.state = "pending" /\ r.owner = call[c].serial /\ r.lease > now
      THEN [record EXCEPT ![s] = [r EXCEPT !.state = "completed", !.ref = call[c].result, !.lease = 0,
                                           !.retain = Later(@, now + RetentionMs)]]
      ELSE [record EXCEPT ![s] = r]

\* completeQuietly: the result is final whatever becomes of the call.
Complete(c, executed) ==
  /\ call[c].pc = "complete"
  /\ record' = IF executed THEN CompletedBy(c) ELSE record
  /\ Return(c, call[c].id, call[c].result)
  /\ UNCHANGED <<now, calls, db, charges>>

-----------------------------------------------------------------------------
(* The provider *)

Lookup(c) ==
  /\ call[c].pc = "lookup"
  /\ Goto(c, IF charges[call[c].id] > 0 THEN [call[c] EXCEPT !.pc = "finalize", !.result = "confirmed"]
             ELSE [call[c] EXCEPT !.pc = "execute"])
  /\ UNCHANGED <<now, calls, db, record, charges, told>>

\* mutant: an outcome that is not known counts as a payment.
OutcomeOptimistic(outcome) == IF outcome = "unknown" THEN "confirmed" ELSE outcome

\* The result an outcome of the provider stands for.
Outcome(outcome) == outcome

\* The provider knows its key: a second execution is the first one's outcome.  An answer
\* that is lost leaves the operation pending.
Execute(c, outcome, paid) ==
  /\ call[c].pc = "execute"
  /\ (outcome = "confirmed" => paid) /\ (outcome = "declined" => ~paid /\ charges[call[c].id] = 0)
  /\ charges' = [charges EXCEPT ![call[c].id] = IF paid THEN 1 ELSE @]
  /\ IF Outcome(outcome) = "unknown" THEN Return(c, call[c].id, "pending")
     ELSE Goto(c, [call[c] EXCEPT !.pc = "finalize", !.result = Outcome(outcome)]) /\ UNCHANGED told
  /\ UNCHANGED <<now, calls, db, record>>

-----------------------------------------------------------------------------
(* finalizeAttempt *)

\* mutant: an attempt that was overtaken finishes all the same.
LatestAny(c) == TRUE

Latest(c) == operation[call[c].id].state = "pending" /\ operation[call[c].id].version = call[c].version

\* Whether the seat is the reservation's, and what the operation's result is.
Mine(r) == seat.holder = r
ResultOf(c) ==
  LET o == operation[call[c].id]
      r == o.reservation
  IN  CASE o.kind = "reserve" /\ (reservation[r].until <= now \/ ~Mine(r)) -> "declined"
        [] o.kind = "confirm" /\ (reservation[r].state # "held" \/ ~Mine(r)) -> "declined"
        [] OTHER -> call[c].result

Rows(o, r, result) ==
  CASE o.kind = "confirm" /\ (reservation[r].state # "held" \/ ~Mine(r)) -> UNCHANGED <<seat, reservation>>
    [] o.kind = "confirm" /\ reservation[r].state = "held" /\ Mine(r) /\ result = "confirmed" ->
         /\ reservation' = [reservation EXCEPT ![r].state = "confirmed"]
         /\ seat' = [seat EXCEPT !.state = "confirmed", !.until = 0]
    [] o.kind = "reserve" /\ result = "held" -> UNCHANGED <<seat, reservation>>
    [] OTHER -> releaseReservation(r)

Finalize(c) ==
  LET id == call[c].id
      o == operation[id]
      result == ResultOf(c)
  IN
  /\ call[c].pc = "finalize"
  /\ IF Latest(c)
     THEN /\ operation' = [operation EXCEPT ![id] = Final(o, result)]
          /\ Rows(o, o.reservation, result)
          /\ Goto(c, [call[c] EXCEPT !.pc = "complete", !.result = result]) /\ UNCHANGED told
     ELSE Return(c, id, "pending") /\ UNCHANGED <<operation, seat, reservation>>
  /\ UNCHANGED <<now, calls, sequence, byKey, record, charges>>

-----------------------------------------------------------------------------
\* The request dies, or the call it awaits throws; what it sent may have been executed.
Dies(c) ==
  /\ call[c].pc # "done" /\ Goto(c, Idle)
  /\ UNCHANGED <<now, calls, db, record, charges, told>>

readSeat == expireSeat(now) /\ UNCHANGED <<now, calls, sequence, operation, byKey, record, charges, call, told>>

Tick == now < MaxTime /\ now' = now + 1 /\ UNCHANGED <<calls, db, record, charges, call, told>>

Next ==
  \/ Tick \/ readSeat
  \/ \E c \in Caller :
       \/ \E q \in Requests : Reserve(c, q) \/ Confirm(c, q) \/ Release(c, q)
       \/ ClaimSeat(c) \/ Begin(c) \/ Begun(c) \/ Lookup(c) \/ Finalize(c) \/ Dies(c)
       \/ \E outcome \in {"confirmed", "declined", "unknown"}, paid \in BOOLEAN : Execute(c, outcome, paid)
       \/ \E executed \in BOOLEAN : Complete(c, executed)

Spec == Init /\ [][Next]_vars

-----------------------------------------------------------------------------
TypeOK ==
  /\ now \in 0..MaxTime /\ calls \in 0..MaxCalls /\ sequence \in 0..MaxOperations
  /\ seat.state \in {"available", "held", "confirmed"} /\ seat.holder \in 0..MaxOperations
  /\ \A i \in Id : /\ reservation[i].state \in {"none", "held", "confirmed", "released"}
                   /\ operation[i].state \in {"none", "pending", "completed"}

(***************************************************************************)
(* The rows agree: a reservation that is held or confirmed has the seat, so  *)
(* that no two buyers have it, whoever checked it before which await.        *)
(***************************************************************************)
OneHolder ==
  /\ \A r \in Id : reservation[r].state \in {"held", "confirmed"} =>
       seat.holder = r /\ seat.state = reservation[r].state
  /\ seat.holder # 0 => reservation[seat.holder].state = seat.state

(***************************************************************************)
(* A confirmed seat is never lost to another buyer's request or to time: only *)
(* an attempt of its own buyer that was under way can give it up.            *)
(***************************************************************************)
KeepsSeat ==
  seat.holder # 0 /\ reservation[seat.holder].state = "confirmed" =>
    \/ seat' = seat
    \/ \E c \in Caller : /\ call[c].pc = "finalize" /\ call'[c].pc = "complete"
                         /\ operation[call[c].id].reservation = seat.holder
SeatKept == [][KeepsSeat]_vars

(***************************************************************************)
(* The seat is confirmed only against a payment for it.                      *)
(***************************************************************************)
ConfirmedPaid ==
  \A r \in Id : reservation[r].state = "confirmed" =>
    \E i \in Id : operation[i].kind = "confirm" /\ operation[i].reservation = r /\ charges[i] = 1

(***************************************************************************)
(* One payment at most for an idempotency key, however often it is repeated, *)
(* whichever attempts overlap and whichever die.                             *)
(***************************************************************************)
ChargedOnce ==
  \A s \in Slot : Cardinality({i \in Id : <<operation[i].kind, operation[i].key>> = s /\ charges[i] > 0}) <= 1

(***************************************************************************)
(* All final answers about an operation are the one the database keeps.      *)
(***************************************************************************)
AnswersAgree == \A i \in Id : told[i] \subseteq {operation[i].result}

(***************************************************************************)
(* Redis never runs ahead of the database: a record that says completed is   *)
(* about an operation that is, and has its result.                           *)
(***************************************************************************)
RedisFollows ==
  \A s \in Slot : record[s].state = "completed" =>
    operation[record[s].id].state = "completed" /\ operation[record[s].id].result = record[s].ref
=============================================================================
