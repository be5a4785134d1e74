------------------------ MODULE OperationStoreProofs -------------------------
(***************************************************************************)
(* TLAPS proofs about OperationStore: IndInv is inductive, hence, for any   *)
(* set of workers, any leases and retentions and any number of calls under  *)
(* way, TypeOK, LocalLeaseExclusive, DefiniteMeansNoWrite and RetentionKept *)
(* hold and the record implements OperationLedger.                         *)
(***************************************************************************)
EXTENDS OperationStore, TLAPS

\* The record: what the fields of each state are.
RecInv ==
  /\ state = "none" => owner = None /\ identity = None /\ result = None /\ retainLeft = 0
  /\ state # "none" => owner \in Owner /\ identity \in Identity
  /\ state = "pending" => result = None
  /\ state # "pending" => leaseLeft = 0
  /\ leaseLeft <= retainLeft

\* A slot in use holds a well-formed request.
CallOK(i) ==
  /\ net[i] # "idle" => req[i] \in Request
  /\ net[i] # "idle" /\ req[i].cmd # "read" => req[i].owner \in Owner
  /\ net[i] # "idle" /\ req[i].cmd = "complete" => req[i].result \in Result
  /\ net[i] = "reply" => reply[i] \in Reply /\ caller[i] = "waiting"
  /\ net[i] = "reply" /\ reply[i].kind = "acquired" => req[i].cmd = "begin"
  /\ net[i] = "reply" /\ reply[i].kind = "renewed" => req[i].cmd = "renew"
  /\ net[i] = "idle" => caller[i] = "none"

CallInv == \A i \in Id : CallOK(i)

\* Unless the client resends, a command that has written has a reply that
\* says so.
NoWriteInv ==
  /\ \A i \in Id : caller[i] \notin Definite
  /\ ~Resends =>
       /\ misled = {}
       /\ \A i \in written : net[i] = "reply" /\ reply[i].kind # "rejected"

\* A token belongs to one worker.
TokenInv ==
  /\ \A v, w \in Worker : lease[v] = lease[w] /\ lease[v] # None => v = w
  /\ \A i \in Id, w \in Worker :
       net[i] # "idle" /\ lease[w] # None /\ req[i].owner = lease[w] => req[i].w = w
  /\ \A i, j \in Id :
       net[i] # "idle" /\ net[j] # "idle" /\ req[i].owner = req[j].owner
         /\ req[i].owner # None => req[i].w = req[j].w

\* A renewal a controller listens to is its own.
RenewalOK(w) ==
  /\ ctl[w] = "live" => lease[w] # None
  /\ renewing[w] # None =>
       /\ ctl[w] = "live"
       /\ net[renewing[w]] # "idle" /\ caller[renewing[w]] = "waiting"
       /\ req[renewing[w]].w = w
       /\ req[renewing[w]].cmd = "renew" /\ req[renewing[w]].owner = lease[w]

RenewalInv == \A w \in Worker : RenewalOK(w)

\* The record covers `left' more time of the attempt with token o.
Covers(o, left) ==
  left > 0 => /\ owner = o
              /\ left <= retainLeft
              /\ state = "pending" => left <= leaseLeft

\* What a reply on its way grants, counted from its call.
Granted(i) == Minus(reply[i].left, age[i])

\* What workers believe, and what they are about to be told, is covered.
CoverInv ==
  /\ \A w \in Worker : /\ ctlLeft[w] <= Lease[w]
                       /\ ctl[w] = "live" => Covers(lease[w], ctlLeft[w])
  /\ \A i \in Id : net[i] = "reply" /\ Believed(i) /\ reply[i].kind \in {"acquired", "renewed"} =>
       Covers(req[i].owner, Granted(i))

IndInv ==
  /\ TypeOK /\ RecInv /\ CallInv /\ NoWriteInv /\ TokenInv /\ RenewalInv
  /\ Anchored => CoverInv

USE NoneAssumption, IdentAssumption, TimeAssumption, ScenarioAssumption

-----------------------------------------------------------------------------
(* Types. *)

\* A new call is well formed.
LEMMA AskType ==
  ASSUME CallType, NEW i \in Id, NEW w \in Worker, NEW cmd \in Cmd,
         NEW o \in Owner \cup {None}, NEW r \in Result \cup {None}, Ask(i, w, cmd, o, r)
  PROVE  CallType'
<1>1. [cmd |-> cmd, w |-> w, owner |-> o, result |-> r] \in Request
  BY DEF Request
<1>2. req' \in [Id -> Request \cup {NoRequest}]
  BY <1>1 DEF CallType, Ask
<1>3. net' \in [Id -> Net] /\ caller' \in [Id -> Told]
  BY DEF CallType, Ask, Net, Told
<1>4. age' \in [Id -> 0..MaxTime]
  BY DEF CallType, Ask
<1> QED
  BY <1>2, <1>3, <1>4 DEF CallType, Ask

\* A slot that is left is well formed.
LEMMA SettleType ==
  ASSUME CallType, NEW i \in Id, NEW told, Settle(i, told)
  PROVE  CallType'
<1>1. req' \in [Id -> Request \cup {NoRequest}] /\ reply' \in [Id -> Reply \cup {NoReply}]
  BY DEF CallType, Settle
<1>2. net' \in [Id -> Net] /\ caller' \in [Id -> Told]
  BY DEF CallType, Settle, Net, Told
<1>3. age' \in [Id -> 0..MaxTime]
  BY DEF CallType, Settle
<1> QED
  BY <1>1, <1>2, <1>3 DEF CallType, Settle

\* Arithmetic on the time left stays within the bound.
LEMMA TimeType ==
  ASSUME NEW s \in 0..MaxTime, NEW t \in 0..MaxTime
  PROVE  /\ Less(s) \in 0..MaxTime /\ Less(s) <= s
         /\ Minus(s, t) \in 0..MaxTime /\ Minus(s, t) <= s
         /\ Later(s, t) \in 0..MaxTime /\ Later(s, t) >= s /\ Later(s, t) >= t
  BY DEF Less, Minus, Later

\* The script's reply is well formed.
LEMMA AnswerType ==
  ASSUME RecordType, NEW i \in Id, req[i] \in Request
  PROVE  ScriptAnswer(i) \in Reply
<1>1. \A k \in Kind, t \in 0..MaxTime, r \in Result \cup {None} : Answer(k, t, r) \in Reply
  BY DEF Answer, Reply
<1>2. req[i].w \in Worker /\ req[i].result \in Result \cup {None}
  BY DEF Request
<1>3. 0 \in 0..MaxTime /\ leaseLeft \in 0..MaxTime /\ Lease[req[i].w] \in 0..MaxTime
  BY <1>2 DEF RecordType
<1>4. ReadAnswer \in Reply
  BY <1>1, <1>3 DEF ReadAnswer, RecordType, Kind
<1>5. CompletedAnswer(i) \in Reply
  BY <1>1, <1>3 DEF CompletedAnswer, RecordType, Kind
<1>6. BeginAnswer(i) \in Reply
  BY <1>1, <1>3 DEF BeginAnswer, Owned, Kind
<1>7. OwnerAnswer(i) \in Reply \/ req[i].cmd \in {"read", "begin"}
  BY <1>1, <1>2, <1>3 DEF OwnerAnswer, Kind, Request, Cmd
<1> QED
  BY <1>1, <1>3, <1>4, <1>5, <1>6, <1>7 DEF ScriptAnswer, Kind

\* The script leaves a well-formed record.
LEMMA PersistType ==
  ASSUME RecordType, NEW i \in Id, req[i] \in Request, Persist(i)
  PROVE  RecordType'
<1>1. /\ req[i].w \in Worker /\ req[i].owner \in Owner \cup {None}
      /\ req[i].result \in Result \cup {None}
  BY DEF Request
<1>2. Retention[req[i].w] \in 0..MaxTime /\ Lease[req[i].w] \in 0..MaxTime
  BY <1>1
<1>3. Retained(req[i].w) \in 0..MaxTime
  BY <1>2, TimeType DEF Retained, RecordType
<1>4. 0 \in 0..MaxTime
  OBVIOUS
<1> QED
  BY <1>1, <1>2, <1>3, <1>4 DEF RecordType, Persist

\* A controller that is lost, live or stopped is well formed.
LEMMA ControllerType ==
  ASSUME WorkerType, NEW w \in Worker, NEW left \in 0..MaxTime
  PROVE  /\ Lose(w) /\ UNCHANGED <<lease, closed>> => WorkerType'
         /\ Holds(w, left) /\ UNCHANGED <<lease, closed>> => WorkerType'
         /\ LetGo(w) /\ closed' \subseteq Worker => WorkerType'
<1>1. 0 \in 0..MaxTime
  OBVIOUS
<1>2. Lose(w) /\ UNCHANGED <<lease, closed>> => WorkerType'
  BY <1>1 DEF WorkerType, Lose
<1>3. Holds(w, left) /\ UNCHANGED <<lease, closed>> => WorkerType'
  BY <1>2 DEF WorkerType, Holds
<1>4. LetGo(w) /\ closed' \subseteq Worker => WorkerType'
  BY <1>1 DEF WorkerType, LetGo
<1> QED
  BY <1>2, <1>3, <1>4

\* A failed call leaves the workers well formed.
LEMMA FailsType ==
  ASSUME WorkerType, NEW i \in Id, req[i] \in Request, Fails(i)
  PROVE  WorkerType'
<1>1. req[i].w \in Worker /\ 0 \in 0..MaxTime
  BY DEF Request
<1>2. CASE HeardBy(req[i].w, i)
  BY <1>1, <1>2, ControllerType DEF Fails
<1>3. CASE ~HeardBy(req[i].w, i)
  BY <1>3 DEF Fails, WorkerType
<1> QED
  BY <1>2, <1>3

\* The calls a worker makes keep the types.
LEMMA AskingType ==
  ASSUME TypeOK, NEW w \in Worker, NEW i \in Id,
         Begin(w, i) \/ Complete(w, i) \/ ReadStatus(w, i) \/ RenewalDue(w, i)
  PROVE  TypeOK'
<1>1. CASE Begin(w, i)
  <2>1. CallType'
    BY <1>1, AskType DEF TypeOK, Begin, Cmd
  <2> QED
    BY <1>1, <2>1 DEF TypeOK, Begin, Ask, RecordType, WorkerType, recVars, workVars
<1>2. CASE Complete(w, i)
  <2>1. lease[w] \in Owner \cup {None}
    BY DEF TypeOK, WorkerType
  <2>2. CallType'
    BY <1>2, <2>1, AskType DEF TypeOK, Complete, Cmd
  <2> QED
    BY <1>2, <2>2 DEF TypeOK, Complete, Ask, RecordType, WorkerType, recVars, workVars
<1>3. CASE ReadStatus(w, i)
  <2>1. CallType'
    BY <1>3, AskType DEF TypeOK, ReadStatus, Cmd
  <2> QED
    BY <1>3, <2>1 DEF TypeOK, ReadStatus, Ask, RecordType, WorkerType, recVars, workVars
<1>4. CASE RenewalDue(w, i)
  <2>1. lease[w] \in Owner \cup {None}
    BY DEF TypeOK, WorkerType
  <2>2. CallType'
    BY <1>4, <2>1, AskType DEF TypeOK, RenewalDue, Cmd
  <2>3. RecordType'
    BY <1>4 DEF TypeOK, RenewalDue, Ask, RecordType, recVars
  <2>4. WorkerType'
    BY <1>4 DEF TypeOK, RenewalDue, WorkerType
  <2> QED
    BY <2>2, <2>3, <2>4 DEF TypeOK
<1> QED
  BY <1>1, <1>2, <1>3, <1>4

\* The other steps of a worker keep the types.
LEMMA WorkerStepType ==
  ASSUME TypeOK, NEW w \in Worker, LeaseRunsOut(w) \/ Abandon(w) \/ Close(w) \/ Crash(w)
  PROVE  TypeOK'
<1>0. 0 \in 0..MaxTime
  OBVIOUS
<1>1. CASE LeaseRunsOut(w)
  <2>1. WorkerType'
    BY <1>0, <1>1, ControllerType DEF TypeOK, LeaseRunsOut
  <2> QED
    BY <1>1, <2>1 DEF TypeOK, LeaseRunsOut, RecordType, CallType, recVars, callVars
<1>2. CASE Abandon(w)
  <2>1. WorkerType'
    BY <1>0, <1>2, ControllerType DEF TypeOK, Abandon, WorkerType
  <2> QED
    BY <1>2, <2>1 DEF TypeOK, Abandon, RecordType, CallType, recVars, callVars
<1>3. CASE Close(w)
  <2>1. WorkerType'
    BY <1>0, <1>3 DEF TypeOK, Close, WorkerType, Lose
  <2>2. RecordType'
    BY <1>3 DEF TypeOK, Close, RecordType, recVars
  <2>3. req' \in [Id -> Request \cup {NoRequest}] /\ reply' \in [Id -> Reply \cup {NoReply}]
    BY <1>3 DEF TypeOK, Close, CallType
  <2>4. net' \in [Id -> Net] /\ caller' \in [Id -> Told]
    BY <1>3 DEF TypeOK, Close, CallType, Net, Told
  <2>5. age' \in [Id -> 0..MaxTime] /\ written' \subseteq Id /\ misled' \subseteq Id
    BY <1>0, <1>3 DEF TypeOK, Close, CallType
  <2> QED
    BY <2>1, <2>2, <2>3, <2>4, <2>5 DEF TypeOK, CallType
<1>4. CASE Crash(w)
  <2>1. WorkerType'
    BY <1>0, <1>4, ControllerType DEF TypeOK, Crash, WorkerType
  <2>2. RecordType'
    BY <1>4 DEF TypeOK, Crash, RecordType, recVars
  <2>3. req' \in [Id -> Request \cup {NoRequest}] /\ reply' \in [Id -> Reply \cup {NoReply}]
    BY <1>4 DEF TypeOK, Crash, CallType
  <2>4. net' \in [Id -> Net] /\ caller' \in [Id -> Told]
    BY <1>4 DEF TypeOK, Crash, CallType, Net, Told
  <2>5. age' \in [Id -> 0..MaxTime] /\ written' \subseteq Id /\ misled' \subseteq Id
    BY <1>0, <1>4 DEF TypeOK, Crash, CallType
  <2> QED
    BY <2>1, <2>2, <2>3, <2>4, <2>5 DEF TypeOK, CallType
<1> QED
  BY <1>1, <1>2, <1>3, <1>4

\* A command on its way keeps the types.
LEMMA TransitType ==
  ASSUME TypeOK, CallInv, NEW i \in Id,
         \/ Refuse(i) \/ Dispatch(i) \/ NoScript(i) \/ SendEval(i) \/ Resend(i)
         \/ GiveUp(i) \/ Vanish(i)
  PROVE  TypeOK'
<1>1. CASE Refuse(i)
  <2>1. req[i] \in Request
    BY <1>1 DEF CallInv, CallOK, Refuse
  <2>2. CallType' /\ WorkerType'
    BY <1>1, <2>1, SettleType, FailsType DEF TypeOK, Refuse
  <2> QED
    BY <1>1, <2>2 DEF TypeOK, Refuse, RecordType, recVars
<1>2. CASE Dispatch(i) \/ NoScript(i) \/ SendEval(i) \/ Resend(i)
  <2>1. net' \in [Id -> Net]
    BY <1>2 DEF TypeOK, CallType, Dispatch, NoScript, SendEval, Resend, Net, Flying
  <2>2. reply' \in [Id -> Reply \cup {NoReply}]
    BY <1>2 DEF TypeOK, CallType, Dispatch, NoScript, SendEval, Resend
  <2>3. CallType'
    BY <1>2, <2>1, <2>2 DEF TypeOK, CallType, Dispatch, NoScript, SendEval, Resend
  <2>4. UNCHANGED <<recVars, workVars>>
    BY <1>2 DEF Dispatch, NoScript, SendEval, Resend
  <2> QED
    BY <2>3, <2>4 DEF TypeOK, RecordType, WorkerType, recVars, workVars
<1>3. CASE GiveUp(i)
  <2>1. req[i] \in Request
    BY <1>3 DEF CallInv, CallOK, GiveUp, Flying
  <2>2. WorkerType'
    BY <1>3, <2>1, FailsType DEF TypeOK, GiveUp
  <2>3. CASE net[i] = "reply"
    BY <1>3, <2>2, <2>3, SettleType DEF TypeOK, GiveUp, RecordType, recVars
  <2>4. CASE net[i] # "reply"
    <3>1. caller' \in [Id -> Told]
      BY <1>3, <2>4 DEF TypeOK, GiveUp, CallType, Told
    <3>2. age' \in [Id -> 0..MaxTime]
      BY <1>3, <2>4 DEF TypeOK, GiveUp, CallType
    <3> QED
      BY <1>3, <2>2, <2>4, <3>1, <3>2 DEF TypeOK, GiveUp, CallType, RecordType, recVars
  <2> QED
    BY <2>3, <2>4
<1>4. CASE Vanish(i)
  <2>1. CallType'
    BY <1>4, SettleType DEF TypeOK, Vanish
  <2> QED
    BY <1>4, <2>1 DEF TypeOK, Vanish, RecordType, WorkerType, recVars, workVars
<1> QED
  BY <1>1, <1>2, <1>3, <1>4

\* The script keeps the types.
LEMMA ExecuteType ==
  ASSUME TypeOK, CallInv, NEW i \in Id, Execute(i)
  PROVE  TypeOK'
<1>1. req[i] \in Request
  BY DEF CallInv, CallOK, Execute, Flying
<1>2. RecordType'
  <2>1. CASE Writes(i)
    BY <1>1, <2>1, PersistType DEF TypeOK, Execute
  <2>2. CASE ~Writes(i)
    BY <2>2 DEF TypeOK, Execute, RecordType, recVars
  <2> QED
    BY <2>1, <2>2
<1>3. CallType'
  <2>1. CASE caller[i] = "waiting"
    <3>1. ScriptAnswer(i) \in Reply
      BY <1>1, AnswerType DEF TypeOK
    <3>2. reply' \in [Id -> Reply \cup {NoReply}]
      BY <2>1, <3>1 DEF TypeOK, CallType, Execute
    <3>3. net' \in [Id -> Net]
      BY <2>1 DEF TypeOK, CallType, Execute, Net
    <3>4. written' \subseteq Id
      BY <2>1 DEF TypeOK, CallType, Execute
    <3> QED
      BY <2>1, <3>2, <3>3, <3>4 DEF TypeOK, CallType, Execute
  <2>2. CASE caller[i] # "waiting"
    BY <2>2, SettleType DEF TypeOK, Execute
  <2> QED
    BY <2>1, <2>2
<1> QED
  BY <1>2, <1>3 DEF TypeOK, Execute, WorkerType, workVars

\* A reply that arrives keeps the types.
LEMMA ReplyType ==
  ASSUME TypeOK, CallInv, NEW i \in Id,
         \/ Rejected(i) \/ InvalidReply(i) \/ Acquired(i)
         \/ Renewed(i) \/ Completed(i) \/ Informed(i)
  PROVE  TypeOK'
<1>1. Arrives(i)
  BY DEF Rejected, InvalidReply, Acquired, Renewed, Completed, Informed
<1>2. req[i] \in Request /\ reply[i] \in Reply
  BY <1>1 DEF CallInv, CallOK, Arrives
<1>3. /\ req[i].w \in Worker /\ req[i].owner \in Owner \cup {None}
      /\ reply[i].left \in 0..MaxTime
  BY <1>2 DEF Request, Reply
<1>4. 0 \in 0..MaxTime /\ Granted(i) \in 0..MaxTime
  <2>1. age[i] \in 0..MaxTime
    BY DEF TypeOK, CallType
  <2> QED
    BY <1>3, <2>1 DEF Granted, Minus
<1>5. \E told : Settle(i, told)
  BY DEF Rejected, InvalidReply, Acquired, Renewed, Completed, Informed, Answered
<1>6. CallType'
  BY <1>5, SettleType DEF TypeOK
<1>7. RecordType'
  BY DEF TypeOK, Rejected, InvalidReply, Acquired, Renewed, Completed, Informed, Answered,
         RecordType, recVars
<1>8. WorkerType'
  <2>1. CASE Rejected(i) \/ InvalidReply(i)
    BY <1>2, <2>1, FailsType DEF TypeOK, Rejected, InvalidReply
  <2>2. CASE Acquired(i)
    <3> DEFINE left == IF Anchored THEN Minus(reply[i].left, age[i]) ELSE reply[i].left
    <3>1. left \in 0..MaxTime
      BY <1>3, <1>4 DEF Granted
    <3>2. Holds(req[i].w, left) /\ UNCHANGED closed
      BY <2>2 DEF Acquired, Answered
    <3>3. lease' \in [Worker -> Owner \cup {None}]
      BY <1>3, <2>2 DEF TypeOK, WorkerType, Acquired
    <3> HIDE DEF left
    <3> QED
      BY <1>3, <1>4, <3>1, <3>2, <3>3 DEF TypeOK, WorkerType, Holds, Lose
  <2>3. CASE Renewed(i)
    <3>1. CASE HeardBy(req[i].w, i)
      <4> DEFINE left == IF reply[i].kind = "renewed" /\ ctlLeft[req[i].w] > 0
                         THEN Minus(reply[i].left, age[i]) ELSE 0
      <4>1. left \in 0..MaxTime
        BY <1>4 DEF Granted
      <4>2. Holds(req[i].w, left) /\ UNCHANGED <<lease, closed>>
        BY <2>3, <3>1 DEF Renewed, Answered
      <4> HIDE DEF left
      <4> QED
        BY <1>3, <4>1, <4>2, ControllerType DEF TypeOK
    <3>2. CASE ~HeardBy(req[i].w, i)
      BY <2>3, <3>2 DEF Renewed, Answered, TypeOK, WorkerType
    <3> QED
      BY <3>1, <3>2
  <2>4. CASE Completed(i)
    BY <1>3, <1>4, <2>4, ControllerType DEF TypeOK, WorkerType, Completed, Answered
  <2>5. CASE Informed(i)
    BY <2>5 DEF TypeOK, WorkerType, Informed, Answered
  <2> QED
    BY <2>1, <2>2, <2>3, <2>4, <2>5
<1> QED
  BY <1>6, <1>7, <1>8 DEF TypeOK

\* Time keeps the types.
LEMMA TickType ==
  ASSUME TypeOK, Tick
  PROVE  TypeOK'
<1>1. RecordType'
  BY TimeType DEF TypeOK, RecordType, Tick
<1>2. age' \in [Id -> 0..MaxTime]
  BY DEF TypeOK, CallType, Tick
<1>3. CallType'
  BY <1>2 DEF TypeOK, CallType, Tick
<1>4. ctlLeft' \in [Worker -> 0..MaxTime]
  BY TimeType DEF TypeOK, WorkerType, Tick
<1>5. WorkerType'
  BY <1>4 DEF TypeOK, WorkerType, Tick
<1> QED
  BY <1>1, <1>3, <1>5 DEF TypeOK

\* The initial states are well typed.
LEMMA TypeInit == Init => TypeOK
<1> SUFFICES ASSUME Init PROVE TypeOK
  OBVIOUS
<1>0. 0 \in 0..MaxTime
  OBVIOUS
<1>1. RecordType
  BY <1>0 DEF Init, NoRecord, RecordType
<1>2. CallType
  BY <1>0 DEF Init, CallType, Net, Told
<1>3. WorkerType
  BY <1>0 DEF Init, WorkerType
<1> QED
  BY <1>1, <1>2, <1>3 DEF TypeOK

\* Every step keeps the types.
LEMMA TypeNext ==
  ASSUME TypeOK, CallInv, [Next]_vars
  PROVE  TypeOK'
<1>1. ASSUME NEW w \in Worker, WorkerStep(w)
      PROVE  TypeOK'
  BY <1>1, AskingType, WorkerStepType DEF WorkerStep
<1>2. ASSUME NEW i \in Id, CallStep(i)
      PROVE  TypeOK'
  BY <1>2, TransitType, ExecuteType, ReplyType DEF CallStep
<1>3. CASE UNCHANGED vars
  BY <1>3 DEF TypeOK, RecordType, CallType, WorkerType, vars, recVars, callVars, workVars
<1> QED
  BY <1>1, <1>2, <1>3, TickType DEF Next

-----------------------------------------------------------------------------
(* The record. *)

\* Only a command that writes and the passage of time touch the record.
LEMMA RecordSteps ==
  ASSUME [Next]_vars
  PROVE  \/ UNCHANGED recVars
         \/ \E i \in Id : net[i] \in Flying /\ Writes(i) /\ Persist(i)
         \/ Tick
<1>1. ASSUME NEW w \in Worker, WorkerStep(w)
      PROVE  UNCHANGED recVars
  BY <1>1 DEF WorkerStep, Begin, Complete, ReadStatus, RenewalDue, Ask, LeaseRunsOut, Abandon,
              Close, Crash
<1>2. ASSUME NEW i \in Id, CallStep(i)
      PROVE  UNCHANGED recVars \/ (net[i] \in Flying /\ Writes(i) /\ Persist(i))
  <2>1. CASE Execute(i)
    BY <2>1 DEF Execute
  <2>2. CASE ~Execute(i)
    BY <1>2, <2>2 DEF CallStep, Refuse, Dispatch, NoScript, SendEval, Resend, GiveUp, Vanish,
              Rejected, InvalidReply, Acquired, Renewed, Completed, Informed, Answered
  <2> QED
    BY <2>1, <2>2
<1>3. CASE UNCHANGED vars
  BY <1>3 DEF vars
<1> QED
  BY <1>1, <1>2, <1>3 DEF Next

\* What the script writes.
LEMMA PersistFacts ==
  ASSUME TypeOK, RecInv, CallInv, NEW i \in Id, net[i] \in Flying, Writes(i), Persist(i)
  PROVE  /\ req[i] \in Request /\ req[i].w \in Worker /\ req[i].owner \in Owner
         /\ owner' = req[i].owner /\ identity' = Ident[req[i].w]
         /\ retainLeft' >= retainLeft /\ retainLeft' >= Lease[req[i].w]
         /\ \/ /\ req[i].cmd = "begin" /\ ~Held /\ owner # req[i].owner
               /\ state' = "pending" /\ leaseLeft' = Lease[req[i].w] /\ result' = None
            \/ /\ req[i].cmd = "renew" /\ Held /\ owner = req[i].owner
               /\ state' = "pending" /\ leaseLeft' = Lease[req[i].w] /\ result' = None
            \/ /\ req[i].cmd = "complete" /\ Held /\ owner = req[i].owner
               /\ state' = "completed" /\ leaseLeft' = 0 /\ result' = req[i].result
               /\ req[i].result \in Result
         /\ state # "completed" /\ ~Other(req[i].w)
<1>1. req[i] \in Request
  BY DEF CallInv, CallOK, Flying
<1>2. req[i].w \in Worker /\ req[i].cmd \in Cmd
  BY <1>1 DEF Request
<1>3. req[i].cmd # "read" /\ state # "completed" /\ ~Other(req[i].w)
  BY DEF Writes
<1>4. req[i].owner \in Owner /\ (req[i].cmd = "complete" => req[i].result \in Result)
  BY <1>3 DEF CallInv, CallOK, Flying
<1>5. retainLeft' >= retainLeft /\ retainLeft' >= Lease[req[i].w]
  <2>1. Retention[req[i].w] \in 0..MaxTime /\ retainLeft \in 0..MaxTime
    BY <1>2 DEF TypeOK, RecordType
  <2>2. retainLeft' = Later(retainLeft, Retention[req[i].w])
    BY DEF Persist, Retained
  <2> QED
    BY <1>2, <2>1, <2>2 DEF Later
<1>6. CASE req[i].cmd = "begin"
  BY <1>1, <1>2, <1>3, <1>4, <1>5, <1>6 DEF Writes, Persist
<1>7. CASE req[i].cmd = "renew"
  BY <1>1, <1>2, <1>3, <1>4, <1>5, <1>7 DEF Writes, Persist, Owned
<1>8. CASE req[i].cmd = "complete"
  BY <1>1, <1>2, <1>3, <1>4, <1>5, <1>8 DEF Writes, Persist, Owned
<1> QED
  BY <1>2, <1>3, <1>6, <1>7, <1>8 DEF Cmd

\* Every step keeps the fields of the record consistent.
LEMMA RecNext ==
  ASSUME TypeOK, RecInv, CallInv, [Next]_vars
  PROVE  RecInv'
<1>1. CASE UNCHANGED recVars
  BY <1>1 DEF RecInv, recVars
<1>2. ASSUME NEW i \in Id, net[i] \in Flying, Writes(i), Persist(i)
      PROVE  RecInv'
  <2>1. /\ req[i].w \in Worker /\ req[i].owner \in Owner
        /\ owner' = req[i].owner /\ identity' = Ident[req[i].w]
        /\ retainLeft' >= retainLeft /\ retainLeft' >= Lease[req[i].w]
        /\ \/ state' = "pending" /\ leaseLeft' = Lease[req[i].w] /\ result' = None
           \/ state' = "completed" /\ leaseLeft' = 0
    BY <1>2, PersistFacts
  <2>2. retainLeft \in 0..MaxTime /\ Ident[req[i].w] \in Identity
    BY <2>1 DEF TypeOK, RecordType
  <2>3. retainLeft' \in 0..MaxTime
    BY <1>2, PersistType, PersistFacts DEF TypeOK, RecordType
  <2> QED
    BY <2>1, <2>2, <2>3 DEF RecInv
<1>3. CASE Tick
  <2>1. leaseLeft \in 0..MaxTime /\ retainLeft \in 0..MaxTime
    BY DEF TypeOK, RecordType
  <2>2. CASE Present /\ retainLeft = 0
    BY <1>3, <2>2 DEF Tick, RecInv
  <2>3. CASE ~(Present /\ retainLeft = 0)
    BY <1>3, <2>1, <2>3 DEF Tick, RecInv, Less
  <2> QED
    BY <2>2, <2>3
<1> QED
  BY <1>1, <1>2, <1>3, RecordSteps

-----------------------------------------------------------------------------
(* The call slots: what a step that makes no call can do to slot j. *)

Kept(j) ==
  /\ req'[j] = req[j] /\ net'[j] = net[j] /\ reply'[j] = reply[j] /\ caller'[j] = caller[j]
  /\ age'[j] = age[j] /\ (j \in written' <=> j \in written)

Freed(j) == net'[j] = "idle" /\ caller'[j] = "none" /\ j \notin written'

Moved(j) ==
  /\ net[j] # "idle" /\ net'[j] \in Flying \cup {"noscript"} /\ req'[j] = req[j]
  /\ caller'[j] \in {caller[j], "unknown", "none"}
  /\ (j \in written' <=> j \in written)
  /\ Resends \/ net[j] # "reply"

Ran(j) ==
  /\ net[j] \in Flying /\ net'[j] = "reply" /\ req'[j] = req[j] /\ age'[j] = age[j]
  /\ caller[j] = "waiting" /\ caller'[j] = "waiting"
  /\ reply'[j] = ScriptAnswer(j) /\ (j \in written' => j \in written \/ Writes(j))
  /\ IF Writes(j) THEN Persist(j) ELSE UNCHANGED recVars

Change(j) == Kept(j) \/ Freed(j) \/ Moved(j) \/ Ran(j)

\* Worker w makes a call in slot i.
Asks(w, i) == Begin(w, i) \/ Complete(w, i) \/ ReadStatus(w, i) \/ RenewalDue(w, i)

\* Leaving a slot changes no other.
LEMMA SettleChange ==
  ASSUME TypeOK, NEW i \in Id, NEW told, Settle(i, told)
  PROVE  \A j \in Id : Change(j)
<1> SUFFICES ASSUME NEW j \in Id PROVE Change(j)
  OBVIOUS
<1>1. CASE j = i
  <2>1. Freed(j)
    BY <1>1 DEF Settle, Freed, TypeOK, CallType
  <2> QED
    BY <2>1 DEF Change
<1>2. CASE j # i
  <2>1. Kept(j)
    BY <1>2 DEF Settle, Kept, TypeOK, CallType
  <2> QED
    BY <2>1 DEF Change
<1> QED
  BY <1>1, <1>2

\* A step of a command in slot i.
LEMMA CallChange ==
  ASSUME TypeOK, CallInv, NEW i \in Id, CallStep(i)
  PROVE  \A j \in Id : Change(j)
<1>1. CASE \E told : Settle(i, told)
  BY <1>1, SettleChange
<1>2. CASE Dispatch(i) \/ NoScript(i) \/ SendEval(i) \/ Resend(i)
  <2> SUFFICES ASSUME NEW j \in Id PROVE Change(j)
    OBVIOUS
  <2>1. CASE j = i
    <3>1. Moved(j)
      BY <1>2, <2>1 DEF Dispatch, NoScript, SendEval, Resend, Moved, TypeOK, CallType, Flying
    <3> QED
      BY <3>1 DEF Change
  <2>2. CASE j # i
    <3>1. Kept(j)
      BY <1>2, <2>2 DEF Dispatch, NoScript, SendEval, Resend, Kept, TypeOK, CallType
    <3> QED
      BY <3>1 DEF Change
  <2> QED
    BY <2>1, <2>2
<1>3. CASE GiveUp(i) /\ net[i] # "reply"
  <2> SUFFICES ASSUME NEW j \in Id PROVE Change(j)
    OBVIOUS
  <2>1. CASE j = i
    <3>1. Moved(j)
      BY <1>3, <2>1 DEF GiveUp, Moved, TypeOK, CallType, Flying
    <3> QED
      BY <3>1 DEF Change
  <2>2. CASE j # i
    <3>1. Kept(j)
      BY <1>3, <2>2 DEF GiveUp, Kept, TypeOK, CallType
    <3> QED
      BY <3>1 DEF Change
  <2> QED
    BY <2>1, <2>2
<1>4. CASE Execute(i) /\ caller[i] = "waiting"
  <2> SUFFICES ASSUME NEW j \in Id PROVE Change(j)
    OBVIOUS
  <2>1. CASE j = i
    <3>1. Ran(j)
      BY <1>4, <2>1 DEF Execute, Ran, TypeOK, CallType
    <3> QED
      BY <3>1 DEF Change
  <2>2. CASE j # i
    <3>1. Kept(j)
      BY <1>4, <2>2 DEF Execute, Kept, TypeOK, CallType
    <3> QED
      BY <3>1 DEF Change
  <2> QED
    BY <2>1, <2>2
<1> QED
  BY <1>1, <1>2, <1>3, <1>4 DEF CallStep, Refuse, GiveUp, Vanish, Execute, Rejected, InvalidReply,
     Acquired, Renewed, Completed, Informed, Answered

\* A step of a worker other than a call.
LEMMA WorkerChange ==
  ASSUME TypeOK, CallInv, NEW w \in Worker, LeaseRunsOut(w) \/ Abandon(w) \/ Close(w) \/ Crash(w)
  PROVE  \A j \in Id : Change(j)
<1> SUFFICES ASSUME NEW j \in Id PROVE Change(j)
  OBVIOUS
<1>1. CASE LeaseRunsOut(w) \/ Abandon(w)
  BY <1>1 DEF LeaseRunsOut, Abandon, callVars, Change, Kept
<1>2. CASE Close(w)
  <2>1. CASE net[j] = "gate" /\ req[j].w = w
    <3>1. Freed(j)
      BY <1>2, <2>1 DEF Close, Freed
    <3> QED
      BY <3>1 DEF Change
  <2>2. CASE ~(net[j] = "gate" /\ req[j].w = w)
    <3>1. Kept(j)
      BY <1>2, <2>2 DEF Close, Kept
    <3> QED
      BY <3>1 DEF Change
  <2> QED
    BY <2>1, <2>2
<1>3. CASE Crash(w)
  <2>1. CASE net[j] # "idle" /\ req[j].w = w /\ net[j] \notin Flying
    <3>1. Freed(j)
      BY <1>3, <2>1 DEF Crash, Freed
    <3> QED
      BY <3>1 DEF Change
  <2>2. CASE net[j] # "idle" /\ req[j].w = w /\ net[j] \in Flying
    <3>1. Moved(j)
      BY <1>3, <2>2 DEF Crash, Moved, Flying
    <3> QED
      BY <3>1 DEF Change
  <2>3. CASE ~(net[j] # "idle" /\ req[j].w = w)
    <3>1. Kept(j)
      BY <1>3, <2>3 DEF Crash, Kept
    <3> QED
      BY <3>1 DEF Change
  <2> QED
    BY <2>1, <2>2, <2>3
<1> QED
  BY <1>1, <1>3, <1>2

\* Every step makes one call, changes the slots in the ways above, or is a tick.
LEMMA SlotSteps ==
  ASSUME TypeOK, CallInv, [Next]_vars
  PROVE  \/ \E w \in Worker, i \in Id : Asks(w, i)
         \/ \A j \in Id : Change(j)
         \/ Tick
<1>1. ASSUME NEW w \in Worker, WorkerStep(w)
      PROVE  (\E i \in Id : Asks(w, i)) \/ \A j \in Id : Change(j)
  BY <1>1, WorkerChange DEF WorkerStep, Asks
<1>2. ASSUME NEW i \in Id, CallStep(i)
      PROVE  \A j \in Id : Change(j)
  BY <1>2, CallChange
<1>3. CASE UNCHANGED vars
  BY <1>3 DEF vars, callVars, Change, Kept
<1> QED
  BY <1>1, <1>2, <1>3 DEF Next

\* What a new call looks like.
LEMMA AsksFacts ==
  ASSUME TypeOK, RenewalInv, NEW w \in Worker, NEW i \in Id, Asks(w, i)
  PROVE  /\ net[i] = "idle" /\ net' = [net EXCEPT ![i] = "gate"]
         /\ caller' = [caller EXCEPT ![i] = "waiting"] /\ age' = [age EXCEPT ![i] = 0]
         /\ UNCHANGED <<recVars, reply, written, misled, lease, ctl, ctlLeft>>
         /\ \E cmd \in Cmd, o \in Owner \cup {None}, r \in Result \cup {None} :
              /\ req' = [req EXCEPT ![i] = [cmd |-> cmd, w |-> w, owner |-> o, result |-> r]]
              /\ cmd # "read" => o \in Owner
              /\ cmd = "complete" => r \in Result
              /\ o = None \/ Fresh(o) \/ o = lease[w]
              /\ \/ UNCHANGED renewing
                 \/ /\ cmd = "renew" /\ o = lease[w] /\ ctl[w] = "live"
                    /\ renewing' = [renewing EXCEPT ![w] = i]
<1>1. lease[w] \in Owner \cup {None}
  BY DEF TypeOK, WorkerType
<1>2. CASE Begin(w, i)
  BY <1>2 DEF Begin, Ask, workVars, Cmd
<1>3. CASE Complete(w, i)
  BY <1>1, <1>3 DEF Complete, Ask, workVars, Cmd
<1>4. CASE ReadStatus(w, i)
  BY <1>4 DEF ReadStatus, Ask, workVars, Cmd
<1>5. CASE RenewalDue(w, i)
  <2>1. ctl[w] = "live" /\ lease[w] \in Owner
    BY <1>1, <1>5 DEF RenewalDue, LocallyLive, RenewalInv, RenewalOK
  <2> QED
    BY <1>5, <2>1 DEF RenewalDue, Ask, Cmd
<1> QED
  BY <1>2, <1>3, <1>4, <1>5 DEF Asks

\* The kinds of reply the script gives.
LEMMA AnswerFacts ==
  ASSUME TypeOK, NEW i \in Id, req[i] \in Request
  PROVE  /\ ScriptAnswer(i).kind = "acquired" =>
              /\ req[i].cmd = "begin" /\ (Writes(i) \/ Owned(i))
              /\ ScriptAnswer(i).left = IF Owned(i) THEN leaseLeft ELSE Lease[req[i].w]
         /\ ScriptAnswer(i).kind = "renewed" =>
              /\ req[i].cmd = "renew" /\ Writes(i)
              /\ ScriptAnswer(i).left = Lease[req[i].w]
         /\ ScriptAnswer(i).kind = "rejected" => ~Writes(i)
<1>1. req[i].cmd \in Cmd
  BY DEF Request
<1>2. CASE Other(req[i].w)
  BY <1>2 DEF ScriptAnswer, Answer
<1>3. CASE ~Other(req[i].w) /\ req[i].cmd = "read"
  <2>1. ScriptAnswer(i) = ReadAnswer
    BY <1>3 DEF ScriptAnswer
  <2> QED
    BY <2>1 DEF ReadAnswer, Answer, Present, Held
<1>4. CASE ~Other(req[i].w) /\ req[i].cmd # "read" /\ state = "completed"
  <2>1. ScriptAnswer(i) = CompletedAnswer(i)
    BY <1>4 DEF ScriptAnswer
  <2> QED
    BY <2>1 DEF CompletedAnswer, Answer
<1>5. CASE ~Other(req[i].w) /\ req[i].cmd = "begin" /\ state # "completed"
  <2>1. ScriptAnswer(i) = BeginAnswer(i)
    BY <1>5 DEF ScriptAnswer
  <2>2. Writes(i) <=> ~Held /\ owner # req[i].owner
    BY <1>5 DEF Writes
  <2> QED
    BY <1>5, <2>1, <2>2 DEF BeginAnswer, Answer, Owned
<1>6. CASE ~Other(req[i].w) /\ req[i].cmd \in {"renew", "complete"} /\ state # "completed"
  <2>1. ScriptAnswer(i) = OwnerAnswer(i)
    BY <1>6 DEF ScriptAnswer
  <2>2. Writes(i) <=> Owned(i)
    BY <1>6 DEF Writes
  <2> QED
    BY <1>6, <2>1, <2>2 DEF OwnerAnswer, Answer
<1> QED
  BY <1>1, <1>2, <1>3, <1>4, <1>5, <1>6 DEF Cmd

\* Every step keeps the slots well formed.
LEMMA CallNext ==
  ASSUME TypeOK, CallInv, RenewalInv, [Next]_vars
  PROVE  CallInv'
<1>1. ASSUME NEW w \in Worker, NEW i \in Id, Asks(w, i)
      PROVE  CallInv'
  <2>1. PICK cmd \in Cmd, o \in Owner \cup {None}, r \in Result \cup {None} :
          /\ req' = [req EXCEPT ![i] = [cmd |-> cmd, w |-> w, owner |-> o, result |-> r]]
          /\ cmd # "read" => o \in Owner
          /\ cmd = "complete" => r \in Result
    BY <1>1, AsksFacts
  <2>2. /\ net' = [net EXCEPT ![i] = "gate"] /\ caller' = [caller EXCEPT ![i] = "waiting"]
        /\ reply' = reply
    BY <1>1, AsksFacts
  <2>3. [cmd |-> cmd, w |-> w, owner |-> o, result |-> r] \in Request
    BY DEF Request
  <2> SUFFICES ASSUME NEW j \in Id PROVE CallOK(j)'
    BY DEF CallInv
  <2>4. CASE j = i
    BY <2>1, <2>2, <2>3, <2>4 DEF TypeOK, CallType, CallOK
  <2>5. CASE j # i
    <3>1. req'[j] = req[j] /\ net'[j] = net[j] /\ caller'[j] = caller[j] /\ reply'[j] = reply[j]
      BY <2>1, <2>2, <2>5 DEF TypeOK, CallType
    <3> QED
      BY <3>1 DEF CallInv, CallOK
  <2> QED
    BY <2>4, <2>5
<1>2. ASSUME \A j \in Id : Change(j)
      PROVE  CallInv'
  <2> SUFFICES ASSUME NEW j \in Id PROVE CallOK(j)'
    BY DEF CallInv
  <2>1. CASE Kept(j)
    BY <2>1 DEF Kept, CallInv, CallOK
  <2>2. CASE Freed(j)
    BY <2>2 DEF Freed, CallOK
  <2>3. CASE Moved(j)
    BY <2>3 DEF Moved, CallInv, CallOK, Flying
  <2>4. CASE Ran(j)
    <3>1. req[j] \in Request
      BY <2>4 DEF Ran, CallInv, CallOK, Flying
    <3>2. ScriptAnswer(j) \in Reply
      BY <3>1, AnswerType DEF TypeOK
    <3>3. /\ ScriptAnswer(j).kind = "acquired" => req[j].cmd = "begin"
          /\ ScriptAnswer(j).kind = "renewed" => req[j].cmd = "renew"
      BY <3>1, AnswerFacts
    <3> QED
      BY <2>4, <3>1, <3>2, <3>3 DEF Ran, CallInv, CallOK, Flying
  <2> QED
    BY <1>2, <2>1, <2>2, <2>3, <2>4 DEF Change
<1>3. CASE Tick
  BY <1>3 DEF Tick, CallInv, CallOK
<1> QED
  BY <1>1, <1>2, <1>3, SlotSteps

-----------------------------------------------------------------------------
(* What callers are told. *)

\* Who can become misled: a caller refused or rejected after a write.
LEMMA MisledSteps ==
  ASSUME [Next]_vars
  PROVE  \/ UNCHANGED misled
         \/ \E i \in written \cap Id :
              \/ net[i] = "gate"
              \/ net[i] = "reply" /\ reply[i].kind = "rejected"
              \/ caller[i] \in Definite
<1>1. ASSUME NEW w \in Worker, WorkerStep(w)
      PROVE  UNCHANGED misled \/ \E i \in written \cap Id : net[i] = "gate"
  <2>1. CASE Close(w)
    BY <2>1 DEF Close
  <2>2. CASE ~Close(w)
    BY <1>1, <2>2 DEF WorkerStep, Begin, Complete, ReadStatus, RenewalDue, Ask, LeaseRunsOut,
                      Abandon, Crash, callVars
  <2> QED
    BY <2>1, <2>2
<1>2. ASSUME NEW i \in Id, CallStep(i), misled' # misled
      PROVE  /\ i \in written
             /\ \/ net[i] = "gate"
                \/ net[i] = "reply" /\ reply[i].kind = "rejected"
                \/ caller[i] \in Definite
  <2>1. CASE Refuse(i)
    BY <1>2, <2>1 DEF Refuse, Settle
  <2>2. CASE Rejected(i)
    BY <1>2, <2>2 DEF Rejected, Arrives, Settle
  <2>3. CASE Vanish(i) \/ Execute(i)
    BY <1>2, <2>3 DEF Vanish, Execute, Settle
  <2>4. CASE GiveUp(i) \/ InvalidReply(i)
    BY <1>2, <2>4 DEF GiveUp, InvalidReply, Settle, Definite
  <2>5. CASE Acquired(i) \/ Renewed(i) \/ Completed(i) \/ Informed(i)
    BY <1>2, <2>5 DEF Acquired, Renewed, Completed, Informed, Answered, Settle, Definite
  <2>6. CASE Dispatch(i) \/ NoScript(i) \/ SendEval(i) \/ Resend(i)
    BY <1>2, <2>6 DEF Dispatch, NoScript, SendEval, Resend
  <2> QED
    BY <1>2, <2>1, <2>2, <2>3, <2>4, <2>5, <2>6 DEF CallStep
<1>3. CASE Tick \/ UNCHANGED vars
  BY <1>3 DEF Tick, vars, callVars
<1> QED
  BY <1>1, <1>2, <1>3 DEF Next

\* Every step keeps definite outcomes true.
LEMMA NoWriteNext ==
  ASSUME TypeOK, CallInv, RenewalInv, NoWriteInv, [Next]_vars
  PROVE  NoWriteInv'
<1>0. written \subseteq Id
  BY DEF TypeOK, CallType
<1>1. ASSUME ~Resends PROVE misled' = {}
  BY <1>0, <1>1, MisledSteps DEF NoWriteInv
<1>2. ASSUME NEW w \in Worker, NEW i \in Id, Asks(w, i)
      PROVE  NoWriteInv'
  <2>1. /\ net[i] = "idle" /\ net' = [net EXCEPT ![i] = "gate"]
        /\ caller' = [caller EXCEPT ![i] = "waiting"] /\ UNCHANGED <<reply, written>>
    BY <1>2, AsksFacts
  <2>2. \A j \in Id : caller'[j] \notin Definite
    BY <2>1 DEF TypeOK, CallType, NoWriteInv, Definite
  <2>3. ASSUME ~Resends, NEW j \in written'
        PROVE  net'[j] = "reply" /\ reply'[j].kind # "rejected"
    <3>1. j \in written /\ net[j] = "reply" /\ j # i /\ j \in Id
      BY <1>0, <2>1, <2>3 DEF NoWriteInv
    <3> QED
      BY <2>1, <2>3, <3>1 DEF NoWriteInv, TypeOK, CallType
  <2> QED
    BY <1>1, <2>2, <2>3 DEF NoWriteInv
<1>3. ASSUME \A j \in Id : Change(j), TypeOK'
      PROVE  NoWriteInv'
  <2>1. ASSUME NEW j \in Id PROVE caller'[j] \notin Definite
    BY <1>3 DEF Change, Kept, Freed, Moved, Ran, NoWriteInv, Definite
  <2>2. ASSUME ~Resends, NEW j \in written'
        PROVE  net'[j] = "reply" /\ reply'[j].kind # "rejected"
    <3>1. j \in Id
      BY <1>3 DEF TypeOK, CallType
    <3>2. CASE Kept(j)
      BY <2>2, <3>1, <3>2 DEF Kept, NoWriteInv
    <3>3. CASE Moved(j)
      BY <2>2, <3>1, <3>3 DEF Moved, NoWriteInv
    <3>4. CASE Ran(j)
      <4>1. req[j] \in Request
        BY <3>1, <3>4 DEF Ran, CallInv, CallOK, Flying
      <4>2. j \notin written
        BY <2>2, <3>4 DEF Ran, NoWriteInv, Flying
      <4>3. Writes(j)
        BY <2>2, <3>4, <4>2 DEF Ran
      <4> QED
        BY <3>1, <3>4, <4>1, <4>3, AnswerFacts DEF Ran
    <3> QED
      BY <1>3, <2>2, <3>1, <3>2, <3>3, <3>4 DEF Change, Freed
  <2> QED
    BY <1>1, <2>1, <2>2 DEF NoWriteInv
<1>4. CASE Tick
  BY <1>1, <1>4 DEF Tick, NoWriteInv
<1> QED
  BY <1>2, <1>3, <1>4, SlotSteps, TypeNext

-----------------------------------------------------------------------------
(* Tokens, leases and controllers. *)

\* How the lease a worker holds can change.
LEMMA LeaseSteps ==
  ASSUME TypeOK, CallInv, [Next]_vars
  PROVE  \A w \in Worker :
           \/ lease'[w] \in {lease[w], None}
           \/ \E i \in Id : /\ net[i] = "reply" /\ reply[i].kind = "acquired"
                           /\ req[i].w = w /\ lease'[w] = req[i].owner
<1>1. ASSUME NEW v \in Worker, WorkerStep(v), NEW w \in Worker
      PROVE  lease'[w] \in {lease[w], None}
  BY <1>1 DEF WorkerStep, Begin, Complete, ReadStatus, RenewalDue, LeaseRunsOut, Abandon,
              Close, Crash, LetGo, workVars, TypeOK, WorkerType
<1>2. ASSUME NEW i \in Id, CallStep(i), ~Acquired(i), NEW w \in Worker
      PROVE  lease'[w] \in {lease[w], None}
  <2>1. CASE Completed(i)
    BY <2>1 DEF Completed, LetGo, TypeOK, WorkerType
  <2>2. CASE ~Completed(i)
    BY <1>2, <2>2 DEF CallStep, Refuse, Dispatch, NoScript, SendEval, Resend, GiveUp, Vanish,
         Execute, Rejected, InvalidReply, Renewed, Informed, Fails, workVars
  <2> QED
    BY <2>1, <2>2
<1>3. ASSUME NEW i \in Id, Acquired(i), NEW w \in Worker
      PROVE  \/ lease'[w] = lease[w]
             \/ /\ net[i] = "reply" /\ reply[i].kind = "acquired"
                /\ req[i].w = w /\ lease'[w] = req[i].owner
  BY <1>3 DEF Acquired, Arrives, TypeOK, WorkerType
<1>4. CASE Tick \/ UNCHANGED vars
  BY <1>4 DEF Tick, vars, workVars
<1> QED
  BY <1>1, <1>2, <1>3, <1>4 DEF Next

\* Every step keeps tokens apart.
LEMMA TokenNext ==
  ASSUME TypeOK, CallInv, RenewalInv, TokenInv, [Next]_vars
  PROVE  TokenInv'
<1>1. ASSUME NEW w \in Worker, NEW i \in Id, Asks(w, i)
      PROVE  TokenInv'
  <2>1. PICK cmd \in Cmd, o \in Owner \cup {None}, r \in Result \cup {None} :
          /\ req' = [req EXCEPT ![i] = [cmd |-> cmd, w |-> w, owner |-> o, result |-> r]]
          /\ o = None \/ Fresh(o) \/ o = lease[w]
    BY <1>1, AsksFacts
  <2>2. net' = [net EXCEPT ![i] = "gate"] /\ lease' = lease
    BY <1>1, AsksFacts
  <2>3. req'[i].owner = o /\ req'[i].w = w
    BY <2>1 DEF TypeOK, CallType
  <2>4. \A j \in Id : j # i => req'[j] = req[j] /\ net'[j] = net[j]
    BY <2>1, <2>2 DEF TypeOK, CallType
  <2>5. ASSUME NEW v \in Worker, lease[v] # None, o = lease[v]
        PROVE  v = w
    BY <2>1, <2>5 DEF Fresh, TokenInv
  <2>6. ASSUME NEW j \in Id, j # i, net[j] # "idle", req[j].owner = o, o # None
        PROVE  req[j].w = w
    BY <2>1, <2>6 DEF Fresh, TokenInv
  <2>7. \A u, v \in Worker : lease'[u] = lease'[v] /\ lease'[u] # None => u = v
    BY <2>2 DEF TokenInv
  <2>8. ASSUME NEW j \in Id, NEW v \in Worker,
               net'[j] # "idle", lease'[v] # None, req'[j].owner = lease'[v]
        PROVE  req'[j].w = v
    BY <2>2, <2>3, <2>4, <2>5, <2>8 DEF TokenInv
  <2>9. ASSUME NEW j \in Id, NEW k \in Id, net'[j] # "idle", net'[k] # "idle",
               req'[j].owner = req'[k].owner, req'[j].owner # None
        PROVE  req'[j].w = req'[k].w
    BY <2>3, <2>4, <2>6, <2>9 DEF TokenInv
  <2> QED
    BY <2>7, <2>8, <2>9 DEF TokenInv
<1>2. ASSUME \A j \in Id : net'[j] # "idle" => net[j] # "idle" /\ req'[j] = req[j]
      PROVE  TokenInv'
  <2>1. ASSUME NEW w \in Worker, lease'[w] # None
        PROVE  \/ lease'[w] = lease[w]
               \/ \E i \in Id : net[i] # "idle" /\ req[i].w = w /\ lease'[w] = req[i].owner
    BY <2>1, LeaseSteps
  <2>2. ASSUME NEW v \in Worker, NEW w \in Worker, lease'[v] = lease'[w], lease'[v] # None
        PROVE  v = w
    BY <2>1, <2>2 DEF TokenInv
  <2>3. ASSUME NEW j \in Id, NEW w \in Worker,
               net'[j] # "idle", lease'[w] # None, req'[j].owner = lease'[w]
        PROVE  req'[j].w = w
    BY <1>2, <2>1, <2>3 DEF TokenInv
  <2>4. ASSUME NEW j \in Id, NEW k \in Id, net'[j] # "idle", net'[k] # "idle",
               req'[j].owner = req'[k].owner, req'[j].owner # None
        PROVE  req'[j].w = req'[k].w
    BY <1>2, <2>4 DEF TokenInv
  <2> QED
    BY <2>2, <2>3, <2>4 DEF TokenInv
<1>3. CASE \A j \in Id : Change(j)
  BY <1>2, <1>3 DEF Change, Kept, Freed, Moved, Ran, Flying
<1>4. CASE Tick
  BY <1>2, <1>4 DEF Tick
<1> QED
  BY <1>1, <1>3, <1>4, SlotSteps

\* What a step that makes no call can do to the controller of worker w: leave
\* it alone, end it, or give it the deadline of a reply.
Undisturbed(w) ==
  /\ ctl'[w] = ctl[w] /\ ctlLeft'[w] = ctlLeft[w]
  /\ renewing'[w] = renewing[w] /\ lease'[w] = lease[w]
  /\ renewing[w] # None =>
       /\ net'[renewing[w]] # "idle" /\ caller'[renewing[w]] = "waiting"
       /\ req'[renewing[w]] = req[renewing[w]]

Off(w) == ctl'[w] # "live" /\ renewing'[w] = None /\ ctlLeft'[w] = 0

Given(w) ==
  /\ ctl'[w] = "live" /\ renewing'[w] = None /\ lease'[w] \in Owner
  /\ \E i \in Id :
       /\ net[i] = "reply" /\ Believed(i) /\ reply[i].kind \in {"acquired", "renewed"}
       /\ req[i].w = w /\ lease'[w] = req[i].owner
       /\ ctlLeft'[w] <= Lease[w] /\ (Anchored => ctlLeft'[w] = Granted(i))

Controlled(w) == Undisturbed(w) \/ Off(w) \/ Given(w)

\* A step of the command in slot i leaves the other slots alone.
LEMMA OtherSlots ==
  ASSUME TypeOK, NEW i \in Id, CallStep(i), NEW k \in Id, k # i
  PROVE  net'[k] = net[k] /\ caller'[k] = caller[k] /\ req'[k] = req[k]
<1>1. CASE \E told : Settle(i, told)
  BY <1>1 DEF Settle, TypeOK, CallType
<1>2. CASE Dispatch(i) \/ NoScript(i) \/ SendEval(i) \/ Resend(i)
  BY <1>2 DEF Dispatch, NoScript, SendEval, Resend, TypeOK, CallType
<1>3. CASE GiveUp(i) /\ net[i] # "reply"
  BY <1>3 DEF GiveUp, TypeOK, CallType
<1>4. CASE Execute(i) /\ caller[i] = "waiting"
  BY <1>4 DEF Execute, TypeOK, CallType
<1> QED
  BY <1>1, <1>2, <1>3, <1>4 DEF CallStep, Refuse, GiveUp, Vanish, Execute, Rejected, InvalidReply,
     Acquired, Renewed, Completed, Informed, Answered

\* A failed call ends the controller that awaits it, and no other.
LEMMA FailsControl ==
  ASSUME TypeOK, CallInv, RenewalInv, NEW i \in Id, CallStep(i), net[i] # "idle", Fails(i),
         NEW w \in Worker
  PROVE  Controlled(w)
<1>0. req[i].w \in Worker
  BY DEF CallInv, CallOK, Request
<1>1. CASE renewing[w] = i
  <2>1. req[i].w = w
    BY <1>1 DEF RenewalInv, RenewalOK
  <2>2. Lose(w)
    BY <1>1, <2>1 DEF Fails, HeardBy
  <2>3. Off(w)
    BY <2>2 DEF Lose, Off, TypeOK, WorkerType
  <2> QED
    BY <2>3 DEF Controlled
<1>2. CASE renewing[w] # i
  <2>1. /\ ctl'[w] = ctl[w] /\ ctlLeft'[w] = ctlLeft[w]
        /\ renewing'[w] = renewing[w] /\ lease'[w] = lease[w]
    BY <1>0, <1>2 DEF Fails, HeardBy, Lose, TypeOK, WorkerType
  <2>2. renewing[w] # None =>
          /\ renewing[w] \in Id /\ net[renewing[w]] # "idle" /\ caller[renewing[w]] = "waiting"
    BY DEF RenewalInv, RenewalOK, TypeOK, WorkerType
  <2>3. Undisturbed(w)
    BY <1>2, <2>1, <2>2, OtherSlots DEF Undisturbed
  <2> QED
    BY <2>3 DEF Controlled
<1> QED
  BY <1>1, <1>2

\* A step of a call that no controller hears of.
LEMMA SilentControl ==
  ASSUME TypeOK, CallInv, RenewalInv, NEW i \in Id, CallStep(i),
         UNCHANGED <<lease, ctl, ctlLeft, renewing>>, NEW w \in Worker,
         \/ renewing[w] # i
         \/ net'[i] # "idle" /\ caller'[i] = "waiting" /\ req'[i] = req[i]
  PROVE  Controlled(w)
<1>1. renewing[w] # None =>
        /\ renewing[w] \in Id /\ net[renewing[w]] # "idle" /\ caller[renewing[w]] = "waiting"
  BY DEF RenewalInv, RenewalOK, TypeOK, WorkerType
<1>2. Undisturbed(w)
  BY <1>1, OtherSlots DEF Undisturbed
<1> QED
  BY <1>2 DEF Controlled

\* A deadline given to worker v.
LEMMA HoldsControl ==
  ASSUME TypeOK, CallInv, RenewalInv, NEW i \in Id, CallStep(i), net[i] = "reply",
         reply[i].kind \in {"acquired", "renewed"}, Believed(i), req[i].owner \in Owner,
         NEW left \in 0..MaxTime, Holds(req[i].w, left), left <= Lease[req[i].w],
         Anchored => left = Granted(i),
         lease' = [lease EXCEPT ![req[i].w] = req[i].owner],
         NEW w \in Worker, renewing[w] = i => w = req[i].w
  PROVE  Controlled(w)
<1>0. req[i].w \in Worker
  BY DEF CallInv, CallOK, Request
<1>1. CASE w = req[i].w /\ left = 0
  <2>1. Off(w)
    BY <1>1 DEF Holds, Lose, Off, TypeOK, WorkerType
  <2> QED
    BY <2>1 DEF Controlled
<1>2. CASE w = req[i].w /\ left # 0
  <2>1. ctl'[w] = "live" /\ renewing'[w] = None /\ ctlLeft'[w] = left /\ lease'[w] = req[i].owner
    BY <1>2 DEF Holds, TypeOK, WorkerType
  <2>2. Given(w)
    BY <1>2, <2>1 DEF Given
  <2> QED
    BY <2>2 DEF Controlled
<1>3. CASE w # req[i].w
  <2>1. /\ ctl'[w] = ctl[w] /\ ctlLeft'[w] = ctlLeft[w]
        /\ renewing'[w] = renewing[w] /\ lease'[w] = lease[w]
    BY <1>0, <1>3 DEF Holds, Lose, TypeOK, WorkerType
  <2>2. renewing[w] # None =>
          /\ renewing[w] \in Id /\ net[renewing[w]] # "idle" /\ caller[renewing[w]] = "waiting"
    BY DEF RenewalInv, RenewalOK, TypeOK, WorkerType
  <2>3. Undisturbed(w)
    BY <1>3, <2>1, <2>2, OtherSlots DEF Undisturbed
  <2> QED
    BY <2>3 DEF Controlled
<1> QED
  BY <1>1, <1>2, <1>3

\* A step of a call affects controllers in the ways above.
LEMMA CallControl ==
  ASSUME TypeOK, CallInv, RenewalInv, NEW i \in Id, CallStep(i), NEW w \in Worker
  PROVE  Controlled(w)
<1>0. renewing[w] = i => /\ net[i] # "idle" /\ caller[i] = "waiting" /\ req[i].w = w
                         /\ req[i].cmd = "renew" /\ req[i].owner = lease[w] /\ lease[w] \in Owner
  BY DEF RenewalInv, RenewalOK, TypeOK, WorkerType
<1>1. CASE Refuse(i) \/ GiveUp(i) \/ Rejected(i) \/ InvalidReply(i)
  <2>1. Fails(i) /\ net[i] # "idle"
    BY <1>1 DEF Refuse, GiveUp, Rejected, InvalidReply, Arrives, Flying
  <2> QED
    BY <2>1, FailsControl
<1>2. CASE Dispatch(i) \/ NoScript(i) \/ SendEval(i) \/ Resend(i)
  <2>1. /\ UNCHANGED <<lease, ctl, ctlLeft, renewing>> /\ net'[i] # "idle"
        /\ caller' = caller /\ req' = req
    BY <1>2 DEF Dispatch, NoScript, SendEval, Resend, workVars, TypeOK, CallType
  <2> QED
    BY <1>0, <2>1, SilentControl
<1>3. CASE Vanish(i)
  <2>1. UNCHANGED <<lease, ctl, ctlLeft, renewing>> /\ renewing[w] # i
    BY <1>0, <1>3 DEF Vanish, workVars
  <2> QED
    BY <2>1, SilentControl
<1>4. CASE Execute(i)
  <2>1. UNCHANGED <<lease, ctl, ctlLeft, renewing>>
    BY <1>4 DEF Execute, workVars
  <2>2. CASE renewing[w] # i
    BY <2>1, <2>2, SilentControl
  <2>3. CASE renewing[w] = i
    <3>1. net'[i] = "reply" /\ caller'[i] = "waiting" /\ req'[i] = req[i]
      BY <1>0, <1>4, <2>3 DEF Execute, TypeOK, CallType
    <3> QED
      BY <2>1, <3>1, SilentControl
  <2> QED
    BY <2>2, <2>3
<1>5. CASE Informed(i)
  <2>1. UNCHANGED <<lease, ctl, ctlLeft, renewing>> /\ renewing[w] # i
    BY <1>0, <1>5 DEF Informed
  <2> QED
    BY <2>1, SilentControl
<1>6. CASE Completed(i)
  <2>1. LetGo(req[i].w) /\ renewing[w] # i /\ req[i].w \in Worker
    BY <1>0, <1>6 DEF Completed, Arrives, CallInv, CallOK, Request
  <2>2. CASE w = req[i].w
    <3>1. Off(w)
      BY <2>1, <2>2 DEF LetGo, Off, TypeOK, WorkerType
    <3> QED
      BY <3>1 DEF Controlled
  <2>3. CASE w # req[i].w
    <3>1. /\ ctl'[w] = ctl[w] /\ ctlLeft'[w] = ctlLeft[w]
          /\ renewing'[w] = renewing[w] /\ lease'[w] = lease[w]
      BY <2>1, <2>3 DEF LetGo, TypeOK, WorkerType
    <3>2. renewing[w] # None =>
            /\ renewing[w] \in Id /\ net[renewing[w]] # "idle" /\ caller[renewing[w]] = "waiting"
      BY DEF RenewalInv, RenewalOK, TypeOK, WorkerType
    <3>3. Undisturbed(w)
      BY <2>1, <3>1, <3>2, OtherSlots DEF Undisturbed
    <3> QED
      BY <3>3 DEF Controlled
  <2> QED
    BY <2>2, <2>3
<1>7. ASSUME Arrives(i)
      PROVE  /\ req[i].w \in Worker /\ reply[i].left \in 0..MaxTime /\ Granted(i) \in 0..MaxTime
             /\ Granted(i) <= reply[i].left
  <2>1. req[i] \in Request /\ reply[i] \in Reply
    BY <1>7 DEF Arrives, CallInv, CallOK
  <2>2. req[i].w \in Worker /\ reply[i].left \in 0..MaxTime
    BY <2>1 DEF Request, Reply
  <2>3. age[i] \in 0..MaxTime
    BY DEF TypeOK, CallType
  <2> QED
    BY <2>2, <2>3 DEF Granted, Minus
<1>8. CASE Acquired(i)
  <2> DEFINE left == IF Anchored THEN Granted(i) ELSE reply[i].left
  <2>1. /\ Arrives(i) /\ net[i] = "reply" /\ reply[i].kind = "acquired" /\ Believed(i)
        /\ Holds(req[i].w, left) /\ lease' = [lease EXCEPT ![req[i].w] = req[i].owner]
    BY <1>8 DEF Acquired, Arrives, Granted
  <2>2. req[i].cmd = "begin" /\ req[i].owner \in Owner
    BY <2>1 DEF CallInv, CallOK
  <2>3. left \in 0..MaxTime /\ left <= Lease[req[i].w] /\ (Anchored => left = Granted(i))
    BY <1>7, <2>1 DEF Believed
  <2>4. renewing[w] # i
    BY <1>0, <2>2
  <2> HIDE DEF left
  <2> QED
    BY <2>1, <2>2, <2>3, <2>4, HoldsControl
<1>9. CASE Renewed(i) /\ HeardBy(req[i].w, i)
  <2>1. /\ Arrives(i) /\ net[i] = "reply" /\ req[i].cmd = "renew" /\ Believed(i) /\ lease' = lease
    BY <1>9 DEF Renewed, Arrives
  <2>2. /\ req[i].w \in Worker /\ renewing[req[i].w] = i
        /\ req[i].owner = lease[req[i].w] /\ req[i].owner \in Owner
    BY <1>7, <1>9, <2>1 DEF HeardBy, RenewalInv, RenewalOK, CallInv, CallOK
  <2>3. lease' = [lease EXCEPT ![req[i].w] = req[i].owner]
    BY <2>1, <2>2 DEF TypeOK, WorkerType
  <2>4. CASE reply[i].kind = "renewed" /\ ctlLeft[req[i].w] > 0
    <3>1. Holds(req[i].w, Granted(i))
      BY <1>9, <2>4 DEF Renewed, Granted
    <3>2. Granted(i) <= Lease[req[i].w]
      BY <1>7, <2>1, <2>2 DEF Believed
    <3> QED
      BY <1>0, <1>7, <2>1, <2>2, <2>3, <2>4, <3>1, <3>2, HoldsControl
  <2>5. CASE ~(reply[i].kind = "renewed" /\ ctlLeft[req[i].w] > 0)
    <3>1. Holds(req[i].w, 0)
      BY <1>9, <2>5 DEF Renewed
    <3>2. Lose(req[i].w)
      BY <3>1 DEF Holds
    <3>3. UNCHANGED closed
      BY <1>9 DEF Renewed, Answered
    <3>4. Fails(i)
      BY <1>9, <2>1, <3>2, <3>3 DEF Fails
    <3> QED
      BY <2>1, <3>4, FailsControl
  <2> QED
    BY <2>4, <2>5
<1>10. CASE Renewed(i) /\ ~HeardBy(req[i].w, i)
  <2>1. UNCHANGED <<lease, ctl, ctlLeft, renewing>> /\ renewing[w] # i
    BY <1>0, <1>10 DEF Renewed, HeardBy
  <2> QED
    BY <2>1, SilentControl
<1> QED
  BY <1>1, <1>2, <1>3, <1>4, <1>5, <1>6, <1>8, <1>9, <1>10 DEF CallStep

\* A step of a worker other than a call affects controllers in the ways above.
LEMMA WorkerControl ==
  ASSUME TypeOK, CallInv, RenewalInv, NEW v \in Worker, NEW w \in Worker,
         LeaseRunsOut(v) \/ Abandon(v) \/ Close(v) \/ Crash(v)
  PROVE  Controlled(w)
<1>0. renewing[w] # None =>
        /\ renewing[w] \in Id /\ net[renewing[w]] # "idle" /\ caller[renewing[w]] = "waiting"
        /\ req[renewing[w]].w = w
  BY DEF RenewalInv, RenewalOK, TypeOK, WorkerType
<1>1. CASE Close(v)
  <2>1. CASE v = w /\ renewing[w] # None /\ net[renewing[w]] = "gate"
    <3>1. Off(w)
      BY <1>0, <1>1, <2>1 DEF Close, Lose, Off, TypeOK, WorkerType
    <3> QED
      BY <3>1 DEF Controlled
  <2>2. CASE ~(v = w /\ renewing[w] # None /\ net[renewing[w]] = "gate")
    <3>1. /\ ctl'[w] = ctl[w] /\ ctlLeft'[w] = ctlLeft[w]
          /\ renewing'[w] = renewing[w] /\ lease'[w] = lease[w]
      BY <1>1, <2>2 DEF Close, Lose, TypeOK, WorkerType
    <3>2. ASSUME renewing[w] # None
          PROVE  /\ net'[renewing[w]] = net[renewing[w]]
                 /\ caller'[renewing[w]] = caller[renewing[w]]
                 /\ req'[renewing[w]] = req[renewing[w]]
      BY <1>0, <1>1, <2>2, <3>2 DEF Close
    <3>3. Undisturbed(w)
      BY <1>0, <3>1, <3>2 DEF Undisturbed
    <3> QED
      BY <3>3 DEF Controlled
  <2> QED
    BY <2>1, <2>2
<1>2. CASE LeaseRunsOut(v) /\ v = w
  BY <1>2 DEF LeaseRunsOut, Lose, Controlled, Off, TypeOK, WorkerType
<1>3. CASE (Abandon(v) \/ Crash(v)) /\ v = w
  BY <1>3 DEF Abandon, Crash, LetGo, Controlled, Off, TypeOK, WorkerType
<1>4. CASE LeaseRunsOut(v) /\ v # w
  BY <1>0, <1>4 DEF LeaseRunsOut, Lose, callVars, Controlled, Undisturbed, TypeOK, WorkerType
<1>5. CASE Abandon(v) /\ v # w
  BY <1>0, <1>5 DEF Abandon, LetGo, callVars, Controlled, Undisturbed, TypeOK, WorkerType
<1>6. CASE Crash(v) /\ v # w
  <2>1. /\ ctl'[w] = ctl[w] /\ ctlLeft'[w] = ctlLeft[w]
        /\ renewing'[w] = renewing[w] /\ lease'[w] = lease[w]
    BY <1>6 DEF Crash, LetGo, TypeOK, WorkerType
  <2>2. ASSUME NEW k \in Id, req[k].w = w
        PROVE  net'[k] = net[k] /\ caller'[k] = caller[k] /\ req'[k] = req[k]
    BY <1>6, <2>2 DEF Crash
  <2>3. Undisturbed(w)
    BY <1>0, <2>1, <2>2 DEF Undisturbed
  <2> QED
    BY <2>3 DEF Controlled
<1> QED
  BY <1>1, <1>2, <1>3, <1>4, <1>5, <1>6

\* Every step makes one call, affects slots and controllers in the ways above,
\* or is a tick.
LEMMA Steps ==
  ASSUME TypeOK, CallInv, RenewalInv, [Next]_vars
  PROVE  \/ \E w \in Worker, i \in Id : Asks(w, i)
         \/ (\A j \in Id : Change(j)) /\ (\A w \in Worker : Controlled(w))
         \/ Tick
<1>1. ASSUME NEW v \in Worker, WorkerStep(v)
      PROVE  \/ \E i \in Id : Asks(v, i)
             \/ (\A j \in Id : Change(j)) /\ (\A w \in Worker : Controlled(w))
  BY <1>1, WorkerChange, WorkerControl DEF WorkerStep, Asks
<1>2. ASSUME NEW i \in Id, CallStep(i)
      PROVE  (\A j \in Id : Change(j)) /\ (\A w \in Worker : Controlled(w))
  BY <1>2, CallChange, CallControl
<1>3. CASE UNCHANGED vars
  <2>1. \A j \in Id : Change(j)
    BY <1>3 DEF vars, callVars, Change, Kept
  <2>2. ASSUME NEW w \in Worker PROVE Controlled(w)
    <3>1. renewing[w] # None => net[renewing[w]] # "idle" /\ caller[renewing[w]] = "waiting"
      BY DEF RenewalInv, RenewalOK
    <3> QED
      BY <1>3, <3>1 DEF vars, callVars, workVars, Controlled, Undisturbed
  <2> QED
    BY <2>1, <2>2
<1> QED
  BY <1>1, <1>2, <1>3 DEF Next

\* Every step keeps controllers with their own renewals.
LEMMA RenewalNext ==
  ASSUME TypeOK, CallInv, RenewalInv, [Next]_vars
  PROVE  RenewalInv'
<1>1. ASSUME NEW v \in Worker, NEW i \in Id, Asks(v, i), NEW w \in Worker
      PROVE  RenewalOK(w)'
  <2>1. PICK cmd \in Cmd, o \in Owner \cup {None}, r \in Result \cup {None} :
          /\ req' = [req EXCEPT ![i] = [cmd |-> cmd, w |-> v, owner |-> o, result |-> r]]
          /\ \/ UNCHANGED renewing
             \/ /\ cmd = "renew" /\ o = lease[v] /\ ctl[v] = "live"
                /\ renewing' = [renewing EXCEPT ![v] = i]
    BY <1>1, AsksFacts
  <2>2. /\ net[i] = "idle" /\ net' = [net EXCEPT ![i] = "gate"]
        /\ caller' = [caller EXCEPT ![i] = "waiting"] /\ UNCHANGED <<lease, ctl>>
    BY <1>1, AsksFacts
  <2>3. CASE renewing'[w] = renewing[w]
    <3>1. renewing[w] # None => renewing[w] \in Id /\ renewing[w] # i
      BY <2>2 DEF RenewalInv, RenewalOK, TypeOK, WorkerType
    <3> QED
      BY <2>1, <2>2, <2>3, <3>1 DEF RenewalInv, RenewalOK, TypeOK, CallType
  <2>4. CASE renewing'[w] # renewing[w]
    <3>1. w = v /\ renewing'[w] = i /\ cmd = "renew" /\ o = lease[w] /\ ctl[w] = "live"
      BY <2>1, <2>4 DEF TypeOK, WorkerType
    <3> QED
      BY <2>1, <2>2, <3>1 DEF RenewalInv, RenewalOK, TypeOK, CallType
  <2> QED
    BY <2>3, <2>4
<1>2. ASSUME NEW w \in Worker, Controlled(w)
      PROVE  RenewalOK(w)'
  <2>1. CASE Undisturbed(w)
    BY <2>1 DEF Undisturbed, RenewalInv, RenewalOK
  <2>2. CASE Off(w)
    BY <2>2 DEF Off, RenewalOK
  <2>3. CASE Given(w)
    BY <2>3 DEF Given, RenewalOK
  <2> QED
    BY <1>2, <2>1, <2>2, <2>3 DEF Controlled
<1>3. CASE Tick
  BY <1>3 DEF Tick, RenewalInv, RenewalOK
<1> QED
  BY <1>1, <1>2, <1>3, Steps DEF RenewalInv, RenewalOK

-----------------------------------------------------------------------------
(* Coverage. *)

\* After the step the record covers `left' more time of the attempt o.
StillCovers(o, left) ==
  left > 0 => /\ owner' = o
              /\ left <= retainLeft'
              /\ state' = "pending" => left <= leaseLeft'

\* No step but a tick takes time away from an attempt: another command writes
\* only once the hold is over, and its own renewals do not shorten it.
LEMMA CoverKept ==
  ASSUME TypeOK, RecInv, CallInv, [Next]_vars, ~Tick,
         NEW o \in Owner, NEW left \in 0..MaxTime, NEW w \in Worker,
         Covers(o, left), left <= Lease[w],
         \A i \in Id : net[i] # "idle" /\ req[i].owner = o => req[i].w = w
  PROVE  StillCovers(o, left)
<1>1. CASE UNCHANGED recVars
  BY <1>1 DEF recVars, Covers, StillCovers
<1>2. ASSUME NEW i \in Id, net[i] \in Flying, Writes(i), Persist(i), left > 0
      PROVE  StillCovers(o, left)
  <2>1. owner = o /\ left <= retainLeft /\ (state = "pending" => left <= leaseLeft)
    BY <1>2 DEF Covers
  <2>2. state # "none" /\ leaseLeft \in 0..MaxTime /\ retainLeft \in 0..MaxTime
    BY <2>1 DEF RecInv, TypeOK, RecordType
  <2>3. Held
    <3>1. state = "pending"
      BY <1>2, <2>2 DEF Writes, TypeOK, RecordType
    <3> QED
      BY <1>2, <2>1, <2>2, <3>1 DEF Held
  <2>4. /\ owner' = req[i].owner /\ owner = req[i].owner /\ retainLeft' >= retainLeft
        /\ \/ state' = "pending" /\ leaseLeft' = Lease[req[i].w]
           \/ state' = "completed"
    BY <1>2, <2>3, PersistFacts
  <2>5. req[i].w = w
    BY <1>2, <2>1, <2>4 DEF Flying
  <2>6. retainLeft' \in 0..MaxTime
    BY <1>2, PersistFacts, PersistType DEF TypeOK, RecordType
  <2> QED
    BY <2>1, <2>2, <2>4, <2>5, <2>6 DEF StillCovers
<1> QED
  BY <1>1, <1>2, RecordSteps DEF StillCovers

\* A tick takes one unit of time away from the attempt as it does from the
\* record.
LEMMA CoverTick ==
  ASSUME TypeOK, Tick, NEW o \in Owner, NEW left \in 0..MaxTime, Covers(o, left)
  PROVE  StillCovers(o, Less(left))
<1>1. leaseLeft \in 0..MaxTime /\ retainLeft \in 0..MaxTime
  BY DEF TypeOK, RecordType
<1>2. CASE left = 0
  BY <1>2 DEF StillCovers, Less
<1>3. CASE left > 0
  <2>1. owner = o /\ left <= retainLeft /\ (state = "pending" => left <= leaseLeft)
    BY <1>3 DEF Covers
  <2>2. /\ leaseLeft' = leaseLeft - 1 \/ leaseLeft = 0
        /\ retainLeft' = retainLeft - 1 /\ owner' = owner /\ state' = state
    BY <1>1, <1>3, <2>1 DEF Tick, Less
  <2> QED
    BY <1>1, <1>3, <2>1, <2>2 DEF StillCovers, Less
<1> QED
  BY <1>2, <1>3

\* A smaller claim is covered too.
LEMMA CoverLess ==
  ASSUME TypeOK', NEW o, NEW left \in 0..MaxTime, NEW less \in 0..MaxTime, less <= left,
         StillCovers(o, left)
  PROVE  StillCovers(o, less)
<1>1. leaseLeft' \in 0..MaxTime /\ retainLeft' \in 0..MaxTime
  BY DEF TypeOK, RecordType
<1> QED
  BY <1>1 DEF StillCovers

\* The script grants no more than the record then covers.
LEMMA CoverGrant ==
  ASSUME TypeOK, TypeOK', RecInv, CallInv, NEW j \in Id, Ran(j),
         ScriptAnswer(j).kind \in {"acquired", "renewed"}
  PROVE  StillCovers(req[j].owner, ScriptAnswer(j).left)
<1>1. req[j] \in Request /\ net[j] \in Flying
  BY DEF Ran, CallInv, CallOK, Flying
<1>2. CASE Writes(j)
  <2>1. ScriptAnswer(j).left = Lease[req[j].w] /\ req[j].cmd \in {"begin", "renew"}
    <3>1. req[j].cmd = "begin" => ~Owned(j)
      BY <1>2 DEF Writes, Owned
    <3> QED
      BY <1>1, <3>1, AnswerFacts
  <2>2. Persist(j)
    BY <1>2 DEF Ran
  <2>3. /\ owner' = req[j].owner /\ leaseLeft' = Lease[req[j].w]
        /\ retainLeft' >= Lease[req[j].w]
    BY <1>1, <1>2, <2>1, <2>2, PersistFacts
  <2>4. leaseLeft' \in 0..MaxTime /\ retainLeft' \in 0..MaxTime
    BY DEF TypeOK, RecordType
  <2> QED
    BY <2>1, <2>3, <2>4 DEF StillCovers
<1>3. CASE ~Writes(j)
  <2>1. UNCHANGED recVars
    BY <1>3 DEF Ran
  <2>2. Owned(j) /\ ScriptAnswer(j).left = leaseLeft
    BY <1>1, <1>3, AnswerFacts
  <2>3. /\ owner' = req[j].owner /\ leaseLeft <= retainLeft
        /\ retainLeft' = retainLeft /\ leaseLeft' = leaseLeft
    BY <2>1, <2>2 DEF recVars, Owned, RecInv
  <2>4. leaseLeft \in 0..MaxTime
    BY DEF TypeOK, RecordType
  <2> QED
    BY <2>2, <2>3, <2>4 DEF StillCovers
<1> QED
  BY <1>2, <1>3

\* What workers and replies know of the time left.
CoverOK(w) ==
  ctlLeft[w] <= Lease[w] /\ (ctl[w] = "live" => Covers(lease[w], ctlLeft[w]))

GrantOK(i) ==
  net[i] = "reply" /\ Believed(i) /\ reply[i].kind \in {"acquired", "renewed"} =>
    Covers(req[i].owner, Granted(i))

\* Every step keeps what workers believe covered.
LEMMA CoverWorkers ==
  ASSUME TypeOK, TypeOK', RecInv, CallInv, RenewalInv, TokenInv, Anchored, CoverInv, [Next]_vars,
         NEW w \in Worker
  PROVE  CoverOK(w)'
<1>0. /\ ctlLeft[w] \in 0..MaxTime /\ ctlLeft'[w] \in 0..MaxTime /\ Lease[w] \in 1..MaxTime
      /\ ctlLeft[w] <= Lease[w]
  BY DEF TypeOK, WorkerType, CoverInv
<1>1. ASSUME ctl[w] = "live"
      PROVE  /\ lease[w] \in Owner /\ Covers(lease[w], ctlLeft[w])
             /\ \A i \in Id : net[i] # "idle" /\ req[i].owner = lease[w] => req[i].w = w
  <2>1. lease[w] # None /\ lease[w] \in Owner \cup {None}
    BY <1>1 DEF RenewalInv, RenewalOK, TypeOK, WorkerType
  <2> QED
    BY <1>1, <2>1 DEF CoverInv, TokenInv
<1>2. CASE Tick
  <2>1. /\ ctlLeft'[w] = Less(ctlLeft[w]) /\ lease'[w] = lease[w] /\ ctl'[w] = ctl[w]
    BY <1>2 DEF Tick
  <2>2. ctl[w] = "live" => StillCovers(lease[w], Less(ctlLeft[w]))
    BY <1>0, <1>1, <1>2, CoverTick
  <2>3. ctlLeft'[w] <= Lease[w]
    BY <1>0, <2>1 DEF Less
  <2> QED
    BY <2>1, <2>2, <2>3 DEF CoverOK, Covers, StillCovers
<1>3. ASSUME ~Tick, ctl'[w] = ctl[w], ctlLeft'[w] = ctlLeft[w], lease'[w] = lease[w]
      PROVE  CoverOK(w)'
  <2>1. ctl[w] = "live" => StillCovers(lease[w], ctlLeft[w])
    BY <1>0, <1>1, <1>3, CoverKept
  <2> QED
    BY <1>0, <1>3, <2>1 DEF CoverOK, Covers, StillCovers
<1>4. CASE Off(w)
  BY <1>0, <1>4 DEF Off, CoverOK
<1>5. CASE ~Tick /\ Given(w)
  <2>1. PICK i \in Id :
          /\ net[i] = "reply" /\ Believed(i) /\ reply[i].kind \in {"acquired", "renewed"}
          /\ req[i].w = w /\ lease'[w] = req[i].owner
          /\ ctlLeft'[w] <= Lease[w] /\ ctlLeft'[w] = Granted(i)
    BY <1>5 DEF Given
  <2>2. lease'[w] \in Owner
    BY <1>5 DEF Given
  <2>3. Covers(req[i].owner, Granted(i))
    BY <2>1 DEF CoverInv
  <2>4. \A j \in Id : net[j] # "idle" /\ req[j].owner = req[i].owner => req[j].w = w
    BY <2>1, <2>2 DEF TokenInv
  <2>5. StillCovers(req[i].owner, Granted(i))
    BY <1>0, <1>5, <2>1, <2>2, <2>3, <2>4, CoverKept
  <2> QED
    BY <2>1, <2>5 DEF CoverOK, Covers, StillCovers
<1>6. ASSUME NEW v \in Worker, NEW i \in Id, Asks(v, i)
      PROVE  ctl'[w] = ctl[w] /\ ctlLeft'[w] = ctlLeft[w] /\ lease'[w] = lease[w]
  BY <1>6, AsksFacts
<1> QED
  BY <1>2, <1>3, <1>4, <1>5, <1>6, Steps DEF Controlled, Undisturbed

\* Every step keeps what workers are about to be told covered.
LEMMA CoverReplies ==
  ASSUME TypeOK, TypeOK', RecInv, CallInv, CallInv', RenewalInv, TokenInv, Anchored, CoverInv,
         [Next]_vars, NEW j \in Id
  PROVE  GrantOK(j)'
<1> SUFFICES ASSUME net'[j] = "reply", Believed(j)', reply'[j].kind \in {"acquired", "renewed"}
             PROVE  StillCovers(req'[j].owner, Granted(j)')
  BY DEF GrantOK, Covers, StillCovers
<1>1. reply'[j] \in Reply /\ age'[j] \in 0..MaxTime
  BY DEF CallInv, CallOK, TypeOK, CallType
<1>2. reply'[j].left \in 0..MaxTime
  BY <1>1 DEF Reply
<1>3. Granted(j)' = Minus(reply'[j].left, age'[j])
  BY DEF Granted
<1>4. ASSUME net[j] = "reply", reply'[j] = reply[j], req'[j] = req[j]
      PROVE  /\ req[j].owner \in Owner /\ req[j].w \in Worker /\ req[j].cmd \in {"begin", "renew"}
             /\ caller[j] = "waiting" /\ reply[j].left <= Lease[req[j].w]
             /\ Covers(req[j].owner, Granted(j))
             /\ \A i \in Id : net[i] # "idle" /\ req[i].owner = req[j].owner => req[i].w = req[j].w
  <2>1. req[j] \in Request /\ req[j].cmd \in {"begin", "renew"} /\ caller[j] = "waiting"
    BY <1>4 DEF CallInv, CallOK
  <2>2. req[j].owner \in Owner /\ req[j].w \in Worker
    BY <1>4, <2>1 DEF CallInv, CallOK, Request
  <2>3. reply[j].left <= Lease[req[j].w] /\ Believed(j)
    BY <1>4 DEF Believed
  <2>4. Covers(req[j].owner, Granted(j))
    BY <1>4, <2>3 DEF CoverInv
  <2>5. \A i \in Id : net[i] # "idle" /\ req[i].owner = req[j].owner => req[i].w = req[j].w
    BY <1>4, <2>2 DEF TokenInv
  <2> QED
    BY <2>1, <2>2, <2>3, <2>4, <2>5
<1>5. CASE Tick
  <2>1. net[j] = "reply" /\ reply'[j] = reply[j] /\ req'[j] = req[j]
    BY <1>5 DEF Tick
  <2>2. Timed(j)
    BY <1>4, <2>1 DEF Timed
  <2>3. age[j] \in 0..MaxTime
    BY DEF TypeOK, CallType
  <2>4. age'[j] = IF age[j] < MaxTime THEN age[j] + 1 ELSE age[j]
    BY <1>5, <2>2 DEF Tick
  <2>5. Granted(j) = Minus(reply[j].left, age[j])
    BY DEF Granted
  <2>6. Granted(j)' = Less(Granted(j)) /\ Granted(j) \in 0..MaxTime
    BY <1>2, <1>3, <2>1, <2>3, <2>4, <2>5 DEF Minus, Less
  <2>7. StillCovers(req[j].owner, Less(Granted(j)))
    BY <1>4, <1>5, <2>1, <2>6, CoverTick
  <2> QED
    BY <2>1, <2>6, <2>7
<1>6. CASE ~Tick /\ net[j] = "reply" /\ reply'[j] = reply[j] /\ req'[j] = req[j] /\ age'[j] = age[j]
  <2>1. Granted(j) = Minus(reply[j].left, age[j])
    BY DEF Granted
  <2>2. /\ Granted(j)' = Granted(j) /\ Granted(j) \in 0..MaxTime
        /\ Granted(j) <= reply[j].left
    BY <1>1, <1>2, <1>3, <1>6, <2>1 DEF Minus
  <2>3. Granted(j) <= Lease[req[j].w]
    BY <1>2, <1>4, <1>6, <2>2
  <2>4. StillCovers(req[j].owner, Granted(j))
    BY <1>4, <1>6, <2>2, <2>3, CoverKept
  <2> QED
    BY <1>6, <2>2, <2>4
<1>7. CASE Ran(j)
  <2>1. reply'[j] = ScriptAnswer(j) /\ req'[j] = req[j]
    BY <1>7 DEF Ran
  <2>2. StillCovers(req[j].owner, reply'[j].left)
    BY <1>7, <2>1, CoverGrant
  <2>3. Granted(j)' \in 0..MaxTime /\ Granted(j)' <= reply'[j].left
    BY <1>1, <1>2, <1>3 DEF Minus
  <2> QED
    BY <1>2, <2>1, <2>2, <2>3, CoverLess
<1>8. ASSUME NEW w \in Worker, NEW i \in Id, Asks(w, i)
      PROVE  net[j] = "reply" /\ reply'[j] = reply[j] /\ req'[j] = req[j] /\ age'[j] = age[j]
  <2>1. /\ net' = [net EXCEPT ![i] = "gate"] /\ age' = [age EXCEPT ![i] = 0] /\ reply' = reply
    BY <1>8, AsksFacts
  <2>2. PICK cmd \in Cmd, o \in Owner \cup {None}, r \in Result \cup {None} :
          req' = [req EXCEPT ![i] = [cmd |-> cmd, w |-> w, owner |-> o, result |-> r]]
    BY <1>8, AsksFacts
  <2>3. j # i
    BY <2>1 DEF TypeOK, CallType
  <2> QED
    BY <2>1, <2>2, <2>3 DEF TypeOK, CallType
<1>9. CASE Kept(j) \/ Freed(j) \/ Moved(j)
  BY <1>5, <1>6, <1>9 DEF Kept, Freed, Moved, Flying
<1> QED
  BY <1>5, <1>6, <1>7, <1>8, <1>9, SlotSteps DEF Change

-----------------------------------------------------------------------------
(* The theorems. *)

\* The initial states satisfy the inductive invariant.
LEMMA IndInit == Init => IndInv
<1> SUFFICES ASSUME Init PROVE IndInv
  OBVIOUS
<1>1. RecInv
  BY DEF Init, NoRecord, RecInv
<1>2. CallInv
  BY DEF Init, CallInv, CallOK
<1>3. NoWriteInv
  BY DEF Init, NoWriteInv, Definite
<1>4. TokenInv
  BY DEF Init, TokenInv
<1>5. RenewalInv
  BY DEF Init, RenewalInv, RenewalOK
<1>6. CoverInv
  BY DEF Init, CoverInv
<1> QED
  BY <1>1, <1>2, <1>3, <1>4, <1>5, <1>6, TypeInit DEF IndInv

\* Every step keeps the inductive invariant.
LEMMA IndNext == IndInv /\ [Next]_vars => IndInv'
<1> SUFFICES ASSUME IndInv, [Next]_vars PROVE IndInv'
  OBVIOUS
<1>1. TypeOK /\ RecInv /\ CallInv /\ NoWriteInv /\ TokenInv /\ RenewalInv
  BY DEF IndInv
<1>2. TypeOK' /\ CallInv' /\ RecInv'
  BY <1>1, TypeNext, CallNext, RecNext
<1>3. NoWriteInv' /\ TokenInv' /\ RenewalInv'
  BY <1>1, NoWriteNext, TokenNext, RenewalNext
<1>4. ASSUME Anchored PROVE CoverInv'
  <2>1. CoverInv
    BY <1>4 DEF IndInv
  <2>2. \A w \in Worker : CoverOK(w)'
    BY <1>1, <1>2, <1>4, <2>1, CoverWorkers
  <2>3. \A i \in Id : GrantOK(i)'
    BY <1>1, <1>2, <1>4, <2>1, CoverReplies
  <2> QED
    BY <2>2, <2>3 DEF CoverInv, CoverOK, GrantOK
<1>5. Anchored' = Anchored
  OBVIOUS
<1> QED
  BY <1>2, <1>3, <1>4, <1>5 DEF IndInv

\* IndInv holds in every reachable state.
THEOREM Inductive == Spec => []IndInv
<1> QED
  BY IndInit, IndNext, PTL DEF Spec

\* Types: no time left drops below zero or above the longest lease or
\* retention, and every record, command and reply stays well formed.
THEOREM TypeCorrect == Spec => []TypeOK
<1>1. IndInv => TypeOK
  BY DEF IndInv
<1> QED
  BY <1>1, Inductive, PTL

\* maintainOperationLease with startedAt: whatever the number of workers, the
\* leases and the delays, assertLive() passes in at most one of them.
THEOREM LeasesExclusive == Spec => []LocalLeaseExclusive
<1>1. IndInv => LocalLeaseExclusive
  <2> SUFFICES ASSUME IndInv, Anchored, NEW v \in Worker, NEW w \in Worker,
                      LocallyLive(v), LocallyLive(w)
               PROVE  v = w
    BY DEF LocalLeaseExclusive
  <2>1. owner = lease[v] /\ owner = lease[w]
    BY DEF IndInv, CoverInv, Covers, LocallyLive
  <2>2. lease[v] # None
    BY DEF IndInv, RenewalInv, RenewalOK, LocallyLive
  <2> QED
    BY <2>1, <2>2 DEF IndInv, TokenInv
<1> QED
  BY <1>1, Inductive, PTL

\* dispatch and a client that does not resend: a caller told that its command
\* had no effect was told the truth.
THEOREM DefiniteOutcomes == Spec => []DefiniteMeansNoWrite
<1>1. IndInv => DefiniteMeansNoWrite
  BY DEF IndInv, NoWriteInv, DefiniteMeansNoWrite
<1> QED
  BY <1>1, Inductive, PTL

\* retainedDeadline and PEXPIREAT: only the passage of time shortens the
\* retention of the record.
THEOREM RetentionNotShortened == Spec => RetentionKept
<1> DEFINE Kept1 == Present /\ retainLeft > 0 =>
                      /\ Present'
                      /\ \/ retainLeft' >= retainLeft
                         \/ retainLeft' = retainLeft - 1 /\ UNCHANGED net
<1>1. ASSUME IndInv, [Next]_vars PROVE Kept1
  <2> SUFFICES ASSUME Present, retainLeft > 0
               PROVE  /\ Present'
                      /\ \/ retainLeft' >= retainLeft
                         \/ retainLeft' = retainLeft - 1 /\ UNCHANGED net
    OBVIOUS
  <2>1. TypeOK /\ RecInv /\ CallInv /\ retainLeft \in 0..MaxTime
    BY <1>1 DEF IndInv, TypeOK, RecordType
  <2>2. CASE UNCHANGED recVars
    BY <2>1, <2>2 DEF recVars, Present
  <2>3. ASSUME NEW i \in Id, net[i] \in Flying, Writes(i), Persist(i)
        PROVE  Present' /\ retainLeft' >= retainLeft
    BY <2>1, <2>3, PersistFacts DEF Present
  <2>4. CASE Tick
    BY <2>1, <2>4 DEF Tick, Present, Less
  <2> QED
    BY <1>1, <2>2, <2>3, <2>4, RecordSteps
<1>2. IndInv /\ [Next]_vars => [Kept1]_vars
  BY <1>1
<1> HIDE DEF Kept1
<1>3. Spec => [][Kept1]_vars
  BY <1>2, Inductive, PTL DEF Spec
<1> QED
  BY <1>3 DEF RetentionKept, Kept1

\* Every step of the record is a step of the ledger or none.
LEMMA LedgerStep ==
  ASSUME IndInv, IndInv', [Next]_vars
  PROVE  [Ledger!LedgerNext]_(Ledger!ledgerVars)
<1>1. TypeOK /\ RecInv /\ CallInv /\ TypeOK'
  BY DEF IndInv
<1>2. leaseLeft \in 0..MaxTime /\ retainLeft \in 0..MaxTime /\ leaseLeft' \in 0..MaxTime
  BY <1>1 DEF TypeOK, RecordType
<1>3. CASE UNCHANGED recVars
  BY <1>3 DEF recVars, Ledger!ledgerVars, Phase, Held
<1>4. ASSUME NEW i \in Id, net[i] \in Flying, Writes(i), Persist(i)
      PROVE  [Ledger!LedgerNext]_(Ledger!ledgerVars)
  <2>1. /\ req[i].w \in Worker /\ req[i].owner \in Owner
        /\ owner' = req[i].owner /\ identity' = Ident[req[i].w]
        /\ state # "completed" /\ ~Other(req[i].w)
    BY <1>1, <1>4, PersistFacts
  <2>2. Lease[req[i].w] > 0 /\ Ident[req[i].w] \in Identity
    BY <2>1
  <2>3. Present => identity' = identity
    BY <2>1 DEF Other
  <2>4. CASE req[i].cmd = "begin"
    <3>1. /\ ~Held /\ owner # req[i].owner /\ state' = "pending" /\ result' = None
          /\ leaseLeft' = Lease[req[i].w]
      BY <1>1, <1>4, <2>4, PersistFacts
    <3>2. Phase \in {"none", "lapsed"} /\ (Phase = "lapsed" => Present)
      BY <2>1, <3>1 DEF Phase, Present
    <3>3. Phase' = "held"
      BY <2>2, <3>1 DEF Phase, Held
    <3>4. Ledger!Claim
      BY <2>1, <2>2, <2>3, <3>1, <3>2, <3>3 DEF Ledger!Claim
    <3> QED
      BY <3>4 DEF Ledger!LedgerNext
  <2>5. CASE req[i].cmd = "renew"
    <3>1. /\ Held /\ owner = req[i].owner /\ state' = "pending" /\ result' = None
          /\ leaseLeft' = Lease[req[i].w]
      BY <1>1, <1>4, <2>5, PersistFacts
    <3>2. Phase = "held" /\ Phase' = "held"
      BY <2>2, <3>1 DEF Phase, Held
    <3>3. result' = result /\ owner' = owner /\ identity' = identity
      BY <1>1, <2>1, <2>3, <3>1 DEF RecInv, Held, Present
    <3> QED
      BY <3>2, <3>3 DEF Ledger!ledgerVars
  <2>6. CASE req[i].cmd = "complete"
    <3>1. /\ Held /\ owner = req[i].owner /\ state' = "completed" /\ result' = req[i].result
          /\ req[i].result \in Result
      BY <1>1, <1>4, <2>6, PersistFacts
    <3>2. Phase = "held" /\ Phase' = "done"
      BY <3>1 DEF Phase, Held
    <3>3. owner' = owner /\ identity' = identity
      BY <2>1, <2>3, <3>1 DEF Held, Present
    <3>4. Ledger!Finish
      BY <3>1, <3>2, <3>3 DEF Ledger!Finish
    <3> QED
      BY <3>4 DEF Ledger!LedgerNext
  <2> QED
    BY <1>1, <1>4, <2>4, <2>5, <2>6, PersistFacts
<1>5. CASE Tick
  <2>1. CASE Present /\ retainLeft = 0
    <3>1. ~Held /\ Phase \in {"lapsed", "done"}
      BY <1>1, <1>2, <2>1 DEF RecInv, Held, Phase, Present
    <3>2. Phase' = "none" /\ owner' = None /\ identity' = None /\ result' = None
      BY <1>5, <2>1 DEF Tick, Phase
    <3>3. Ledger!Forget
      BY <3>1, <3>2 DEF Ledger!Forget, Ledger!Empty
    <3> QED
      BY <3>3 DEF Ledger!LedgerNext
  <2>2. CASE ~(Present /\ retainLeft = 0)
    <3>1. UNCHANGED <<state, owner, identity, result>> /\ leaseLeft' = Less(leaseLeft)
      BY <1>5, <2>2 DEF Tick
    <3>2. CASE Held /\ ~Held'
      <4>1. Phase = "held" /\ Phase' = "lapsed"
        BY <3>1, <3>2 DEF Phase, Held
      <4>2. Ledger!Lapse
        BY <3>1, <4>1 DEF Ledger!Lapse
      <4> QED
        BY <4>2 DEF Ledger!LedgerNext
    <3>3. CASE Held <=> Held'
      <4>1. Phase' = Phase
        BY <3>1, <3>3 DEF Phase
      <4> QED
        BY <3>1, <4>1 DEF Ledger!ledgerVars
    <3>4. Held' => Held
      BY <1>2, <3>1 DEF Held, Less
    <3> QED
      BY <3>2, <3>3, <3>4
  <2> QED
    BY <2>1, <2>2
<1> QED
  BY <1>3, <1>4, <1>5, RecordSteps

\* OPERATION_COORDINATION_LUA and the expiry of its record implement the
\* ledger: one holder at a time, no lapsed hold taken up again by its owner,
\* one result, one identity.
THEOREM Refinement == Spec => ImplementsLedger
<1>1. Init => Ledger!Empty
  BY DEF Init, NoRecord, Ledger!Empty, Phase
<1>2. IndInv /\ IndInv' /\ [Next]_vars => [Ledger!LedgerNext]_(Ledger!ledgerVars)
  BY LedgerStep
<1> QED
  BY <1>1, <1>2, Inductive, PTL DEF Spec, ImplementsLedger, Ledger!LedgerSpec
=============================================================================
