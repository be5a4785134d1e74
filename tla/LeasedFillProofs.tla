-------------------------- MODULE LeasedFillProofs ---------------------------
(***************************************************************************)
(* TLAPS proofs about LeasedFill: IndInv is inductive, hence every          *)
(* behaviour, for any set of leaders and any TTLs, satisfies TypeOK,        *)
(* NoStaleFill and LeaseSound, and implements FencedEntry.                  *)
(***************************************************************************)
EXTENDS LeasedFill, TLAPS

USE FillerAssumption, VersionAssumption, TtlAssumption, WaitAssumption, PipeAssumption

-----------------------------------------------------------------------------
(* Facts about pipes. *)

\* Commands nobody awaits any more are the same commands, in the same order.
LEMMA UnawaitedFacts ==
  ASSUME NEW p \in Seq(Command), NEW ops
  PROVE  /\ Unawaited(p, ops) \in Seq(Command)
         /\ Len(Unawaited(p, ops)) = Len(p)
         /\ \A i \in 1..Len(p) :
              /\ Unawaited(p, ops)[i].op = p[i].op
              /\ Unawaited(p, ops)[i].val = p[i].val
              /\ Unawaited(p, ops)[i].to = "caller" => p[i].to = "caller" /\ p[i].op \notin ops
<1>1. ASSUME NEW i \in 1..Len(p)
      PROVE  /\ Unawaited(p, ops)[i] \in Command
             /\ Unawaited(p, ops)[i].op = p[i].op
             /\ Unawaited(p, ops)[i].val = p[i].val
             /\ Unawaited(p, ops)[i].to = "caller" => p[i].to = "caller" /\ p[i].op \notin ops
  <2>1. p[i] \in Command
    OBVIOUS
  <2>2. Unawaited(p, ops)[i] =
          [op |-> p[i].op, val |-> p[i].val, to |-> IF p[i].op \in ops THEN "nobody" ELSE p[i].to]
    BY DEF Unawaited
  <2>3. CASE p[i].op \in ops
    BY <2>1, <2>2, <2>3 DEF Command
  <2>4. CASE p[i].op \notin ops
    BY <2>1, <2>2, <2>4 DEF Command
  <2> QED
    BY <2>3, <2>4
<1>2. Len(p) \in Nat /\ Unawaited(p, ops) \in [1..Len(p) -> Command]
  BY <1>1 DEF Unawaited
<1>3. Unawaited(p, ops) \in Seq(Command) /\ Len(Unawaited(p, ops)) = Len(p)
  BY <1>2
<1> QED
  BY <1>1, <1>3

\* Sending a command puts it last.
LEMMA AppendFacts ==
  ASSUME NEW p \in Seq(Command), NEW c \in Command
  PROVE  /\ Append(p, c) \in Seq(Command)
         /\ Len(Append(p, c)) = Len(p) + 1
         /\ Append(p, c)[Len(p) + 1] = c
         /\ \A i \in 1..Len(p) : Append(p, c)[i] = p[i]
  OBVIOUS

\* Executing a command takes the first one.
LEMMA TailFacts ==
  ASSUME NEW p \in Seq(Command), p # <<>>
  PROVE  /\ Len(p) \in Nat /\ Len(p) > 0
         /\ Head(p) = p[1] /\ Head(p) \in Command
         /\ Tail(p) \in Seq(Command)
         /\ Len(Tail(p)) = Len(p) - 1
         /\ \A i \in 1..Len(Tail(p)) : i + 1 \in 1..Len(p) /\ Tail(p)[i] = p[i + 1]
  OBVIOUS
-----------------------------------------------------------------------------
(* Types. *)

\* Sending a command keeps the pipes well typed.
LEMMA SendType ==
  ASSUME PipeType, NEW f \in Filler, NEW op \in Op, NEW val \in 0..MaxVersion, Send(f, op, val)
  PROVE  PipeType'
<1>1. [op |-> op, val |-> val, to |-> "caller"] \in Command
  BY DEF Command
<1>2. pipe[f] \in Seq(Command)
  BY DEF PipeType
<1>3. Append(pipe[f], [op |-> op, val |-> val, to |-> "caller"]) \in Seq(Command)
  BY <1>1, <1>2, AppendFacts
<1> QED
  BY <1>3 DEF PipeType, Send

\* An attempt to acquire, sent or refused, keeps the lease and the pipes well typed.
LEMMA TryAcquireType ==
  ASSUME TypeOK, NEW f \in Filler, TryAcquire(f)
  PROVE  LeaseType' /\ PipeType'
<1>1. CASE Send(f, "acquire", 0) /\ call' = [call EXCEPT ![f] = "sent"]
                                 /\ callLeft' = [callLeft EXCEPT ![f] = LockTtl]
  <2>1. PipeType'
    BY <1>1, SendType DEF TypeOK, Op
  <2>2. LeaseType'
    BY <1>1 DEF TryAcquire, TypeOK, LeaseType, leaseVars, CallState
  <2> QED
    BY <2>1, <2>2
<1>2. CASE call' = [call EXCEPT ![f] = "error"] /\ UNCHANGED <<pipe, callLeft>>
  BY <1>2 DEF TryAcquire, TypeOK, LeaseType, PipeType, leaseVars, CallState
<1> QED
  BY <1>1, <1>2 DEF TryAcquire

\* The end of a call, with or without a release, keeps the pipes well typed.
LEMMA FinishPipe ==
  ASSUME PipeType, NEW f \in Filler, Finish(f)
  PROVE  PipeType'
<1>1. pipe[f] \in Seq(Command)
  BY DEF PipeType
<1>2. Unawaited(pipe[f], Op) \in Seq(Command)
  BY <1>1, UnawaitedFacts
<1>3. [op |-> "release", val |-> 0, to |-> "nobody"] \in Command
  BY DEF Command, Op
<1>4. Append(Unawaited(pipe[f], Op), [op |-> "release", val |-> 0, to |-> "nobody"]) \in Seq(Command)
  BY <1>2, <1>3, AppendFacts
<1> QED
  BY <1>2, <1>4 DEF PipeType, Finish

\* The initial states are well typed.
LEMMA TypeInit == Init => TypeOK
<1> SUFFICES ASSUME Init PROVE TypeOK
  OBVIOUS
<1>1. OriginType
  BY DEF Init, OriginType, Version, Absent
<1>2. LeaderType
  BY DEF Init, LeaderType, Point, Waiting, Working
<1>3. LeaseType
  BY DEF Init, LeaseType, CallState, LeaseState
<1>4. PipeType
  BY DEF Init, PipeType
<1> QED
  BY <1>1, <1>2, <1>3, <1>4 DEF TypeOK

\* Every step keeps the types, one case per action.
LEMMA TypeNext == TypeOK /\ [Next]_vars => TypeOK'
<1> SUFFICES ASSUME TypeOK, [Next]_vars PROVE TypeOK'
  OBVIOUS
<1> USE DEF TypeOK, lockVars, patternVars, originVars, leaderVars, leaseVars, wireVars, histVars
<1>1. CASE DirectDelete
  <2>1. OriginType'
    BY <1>1 DEF DirectDelete, FenceWith, Absent, OriginType, Version
  <2>2. LeaderType'
    BY <1>1 DEF DirectDelete, FenceWith, Absent, LeaderType, Point, Waiting, Working, OriginType, Version
  <2>3. LeaseType'
    BY <1>1 DEF DirectDelete, FenceWith, Absent, LeaseType, CallState, LeaseState
  <2>4. PipeType'
    BY <1>1 DEF DirectDelete, FenceWith, Absent, PipeType
  <2> QED
    BY <2>1, <2>2, <2>3, <2>4
<1>2. CASE DirectSet
  <2>1. OriginType'
    BY <1>2 DEF DirectSet, FenceWith, OriginType, Version
  <2>2. LeaderType'
    BY <1>2 DEF DirectSet, FenceWith, LeaderType, Point, Waiting, Working, OriginType, Version
  <2>3. LeaseType'
    BY <1>2 DEF DirectSet, FenceWith, LeaseType, CallState, LeaseState
  <2>4. PipeType'
    BY <1>2 DEF DirectSet, FenceWith, PipeType
  <2> QED
    BY <2>1, <2>2, <2>3, <2>4
<1>3. CASE DataExpires
  <2>1. OriginType'
    BY <1>3 DEF DataExpires, Absent, OriginType, Version
  <2>2. LeaderType'
    BY <1>3 DEF DataExpires, Absent, LeaderType, Point, Waiting, Working, OriginType, Version
  <2>3. LeaseType'
    BY <1>3 DEF DataExpires, Absent, LeaseType, CallState, LeaseState
  <2>4. PipeType'
    BY <1>3 DEF DataExpires, Absent, PipeType
  <2> QED
    BY <2>1, <2>2, <2>3, <2>4
<1>4. CASE PatternCalled
  <2>1. OriginType'
    BY <1>4 DEF PatternCalled, OriginType, Version
  <2>2. LeaderType'
    BY <1>4 DEF PatternCalled, LeaderType, Point, Waiting, Working, OriginType, Version
  <2>3. LeaseType'
    BY <1>4 DEF PatternCalled, LeaseType, CallState, LeaseState
  <2>4. PipeType'
    BY <1>4 DEF PatternCalled, PipeType
  <2> QED
    BY <2>1, <2>2, <2>3, <2>4
<1>5. CASE DeletePatternData
  <2>1. OriginType'
    BY <1>5 DEF DeletePatternData, FenceWith, Absent, OriginType, Version
  <2>2. LeaderType'
    BY <1>5 DEF DeletePatternData, FenceWith, Absent, LeaderType, Point, Waiting, Working, OriginType, Version
  <2>3. LeaseType'
    BY <1>5 DEF DeletePatternData, FenceWith, Absent, LeaseType, CallState, LeaseState
  <2>4. PipeType'
    BY <1>5 DEF DeletePatternData, FenceWith, Absent, PipeType
  <2> QED
    BY <2>1, <2>2, <2>3, <2>4
<1>6. CASE FencePatternLeases
  <2>1. OriginType'
    BY <1>6 DEF FencePatternLeases, FenceWith, Absent, OriginType, Version
  <2>2. LeaderType'
    BY <1>6 DEF FencePatternLeases, FenceWith, Absent, LeaderType, Point, Waiting, Working, OriginType, Version
  <2>3. LeaseType'
    BY <1>6 DEF FencePatternLeases, FenceWith, Absent, LeaseType, CallState, LeaseState
  <2>4. PipeType'
    BY <1>6 DEF FencePatternLeases, FenceWith, Absent, PipeType
  <2> QED
    BY <2>1, <2>2, <2>3, <2>4
<1>7. CASE OriginWrite
  <2>1. OriginType'
    BY <1>7 DEF OriginWrite, OriginType, Version
  <2>2. LeaderType'
    BY <1>7 DEF OriginWrite, LeaderType, Point, Waiting, Working, OriginType, Version
  <2>3. LeaseType'
    BY <1>7 DEF OriginWrite, LeaseType, CallState, LeaseState
  <2>4. PipeType'
    BY <1>7 DEF OriginWrite, PipeType
  <2> QED
    BY <2>1, <2>2, <2>3, <2>4
<1>8. CASE Tick
  <2>1. OriginType'
    BY <1>8 DEF Tick, Less, OriginType, Version
  <2>2. LeaderType'
    BY <1>8 DEF Tick, Less, LeaderType, Point, Waiting, Working, OriginType, Version
  <2>3. LeaseType'
    BY <1>8 DEF Tick, Less, LeaseType, CallState, LeaseState
  <2>4. PipeType'
    BY <1>8 DEF Tick, Less, PipeType
  <2> QED
    BY <2>1, <2>2, <2>3, <2>4
<1>9. ASSUME NEW f \in Filler, Leader(f) PROVE TypeOK'
  <2>1. CASE StartFill(f)
    <3>1. OriginType'
      BY <2>1 DEF StartFill, TryAcquire, Goto, Send, OriginType, Version
    <3>2. LeaderType'
      BY <2>1 DEF StartFill, TryAcquire, Goto, Send, LeaderType, Point, Waiting, Working, OriginType, Version
    <3>3. LeaseType'
      BY <2>1, TryAcquireType DEF StartFill
    <3>4. PipeType'
      BY <2>1, TryAcquireType DEF StartFill
    <3> QED
      BY <3>1, <3>2, <3>3, <3>4
  <2>2. CASE Acquired(f)
    <3>1. OriginType'
      BY <2>2 DEF Acquired, LeaveLoop, Goto, OriginType, Version
    <3>2. LeaderType'
      BY <2>2 DEF Acquired, LeaveLoop, Goto, LeaderType, Point, Waiting, Working, OriginType, Version
    <3>3. LeaseType'
      BY <2>2 DEF Acquired, LeaveLoop, Goto, LeaseType, CallState, LeaseState
    <3>4. PipeType'
      BY <2>2 DEF Acquired, LeaveLoop, Goto, PipeType
    <3> QED
      BY <3>1, <3>2, <3>3, <3>4
  <2>3. CASE Contended(f)
    <3>1. OriginType'
      BY <2>3 DEF Contended, Goto, OriginType, Version
    <3>2. LeaderType'
      BY <2>3 DEF Contended, Goto, LeaderType, Point, Waiting, Working, OriginType, Version
    <3>3. LeaseType'
      BY <2>3 DEF Contended, Goto, LeaseType, CallState, LeaseState
    <3>4. PipeType'
      BY <2>3 DEF Contended, Goto, PipeType
    <3> QED
      BY <3>1, <3>2, <3>3, <3>4
  <2>4. CASE AcquireUnknown(f)
    <3>1. OriginType'
      BY <2>4 DEF AcquireUnknown, LeaveLoop, Goto, OriginType, Version
    <3>2. LeaderType'
      BY <2>4 DEF AcquireUnknown, LeaveLoop, Goto, LeaderType, Point, Waiting, Working, OriginType, Version
    <3>3. LeaseType'
      BY <2>4 DEF AcquireUnknown, LeaveLoop, Goto, LeaseType, CallState, LeaseState
    <3>4. PipeType'
      BY <2>4, UnawaitedFacts DEF AcquireUnknown, LeaveLoop, Goto, PipeType
    <3> QED
      BY <3>1, <3>2, <3>3, <3>4
  <2>5. ASSUME Finish(f) PROVE TypeOK'
    <3>1. OriginType'
      BY <2>5 DEF Finish, Ended, Goto, OriginType, Version
    <3>2. LeaderType'
      BY <2>5 DEF Finish, Ended, Goto, LeaderType, Point, Waiting, Working, OriginType, Version
    <3>3. LeaseType'
      BY <2>5 DEF Finish, Ended, Goto, LeaseType, CallState, LeaseState
    <3>4. PipeType'
      BY <2>5, FinishPipe
    <3> QED
      BY <3>1, <3>2, <3>3, <3>4
  <2>6. CASE PollMiss(f)
    <3>1. OriginType'
      BY <2>6 DEF PollMiss, TryAcquire, Goto, Send, OriginType, Version
    <3>2. LeaderType'
      BY <2>6 DEF PollMiss, TryAcquire, Goto, Send, LeaderType, Point, Waiting, Working, OriginType, Version
    <3>3. LeaseType'
      BY <2>6, TryAcquireType DEF PollMiss
    <3>4. PipeType'
      BY <2>6, TryAcquireType DEF PollMiss
    <3> QED
      BY <3>1, <3>2, <3>3, <3>4
  <2>7. CASE PollTimeout(f)
    <3>1. CASE OnTimeout = "load"
      <4>1. OriginType'
        BY <2>7, <3>1 DEF PollTimeout, LeaveLoop, Goto, OriginType, Version
      <4>2. LeaderType'
        BY <2>7, <3>1 DEF PollTimeout, LeaveLoop, Goto, LeaderType, Point, Waiting, Working
      <4>3. LeaseType' /\ PipeType'
        BY <2>7, <3>1 DEF PollTimeout, LeaveLoop, Goto, LeaseType, PipeType
      <4> QED
        BY <4>1, <4>2, <4>3
    <3>2. CASE OnTimeout # "load"
      BY <2>5, <2>7, <3>2 DEF PollTimeout
    <3> QED
      BY <3>1, <3>2
  <2>8. CASE RecheckMiss(f)
    <3>1. OriginType'
      BY <2>8 DEF RecheckMiss, Goto, OriginType, Version
    <3>2. LeaderType'
      BY <2>8 DEF RecheckMiss, Goto, LeaderType, Point, Waiting, Working, OriginType, Version
    <3>3. LeaseType'
      BY <2>8 DEF RecheckMiss, Goto, LeaseType, CallState, LeaseState
    <3>4. PipeType'
      BY <2>8 DEF RecheckMiss, Goto, PipeType
    <3> QED
      BY <3>1, <3>2, <3>3, <3>4
  <2>9. CASE LoaderReads(f)
    <3>1. OriginType'
      BY <2>9 DEF LoaderReads, Goto, OriginType, Version
    <3>2. LeaderType'
      BY <2>9 DEF LoaderReads, Goto, LeaderType, Point, Waiting, Working, OriginType, Version
    <3>3. LeaseType'
      BY <2>9 DEF LoaderReads, Goto, LeaseType, CallState, LeaseState
    <3>4. PipeType'
      BY <2>9 DEF LoaderReads, Goto, PipeType
    <3> QED
      BY <3>1, <3>2, <3>3, <3>4
  <2>10. CASE LoaderSettles(f)
    <3>1. OriginType'
      BY <2>10 DEF LoaderSettles, Goto, OriginType, Version
    <3>2. LeaderType'
      BY <2>10 DEF LoaderSettles, Goto, LeaderType, Point, Waiting, Working, OriginType, Version
    <3>3. LeaseType'
      BY <2>10 DEF LoaderSettles, Goto, LeaseType, CallState, LeaseState
    <3>4. PipeType'
      BY <2>10 DEF LoaderSettles, Goto, PipeType
    <3> QED
      BY <3>1, <3>2, <3>3, <3>4
  <2>11. CASE DispatchPublish(f)
    <3>1. OriginType'
      BY <2>11 DEF DispatchPublish, Goto, Send, OriginType, Version
    <3>2. LeaderType'
      BY <2>11 DEF DispatchPublish, Goto, Send, LeaderType, Point, Waiting, Working, OriginType, Version
    <3>3. LeaseType'
      BY <2>11 DEF DispatchPublish, Goto, Send, LeaseType, CallState, LeaseState
    <3>4. PipeType'
      BY <2>11, SendType DEF DispatchPublish, LeaderType, Op
    <3> QED
      BY <3>1, <3>2, <3>3, <3>4
  <2> QED
    BY <1>9, <2>1, <2>2, <2>3, <2>4, <2>5, <2>6, <2>7, <2>8, <2>9, <2>10, <2>11 DEF Leader, PollHit, RecheckHit, LoaderUnpublished, FillFails, PublishSkipped, PublishSettles
<1>10. ASSUME NEW f \in Filler, Wire(f) PROVE TypeOK'
  <2>1. CASE ExecAcquire(f)
    <3>1. OriginType'
      BY <2>1 DEF ExecAcquire, NextCommand, Taken, Reply, OriginType, Version
    <3>2. LeaderType'
      BY <2>1 DEF ExecAcquire, NextCommand, Taken, Reply, LeaderType, Point, Waiting, Working, OriginType, Version
    <3>3. LeaseType'
      BY <2>1 DEF ExecAcquire, NextCommand, Taken, Reply, LeaseType, CallState, LeaseState
    <3>4. PipeType'
      BY <2>1, TailFacts DEF ExecAcquire, NextCommand, Taken, Reply, PipeType
    <3> QED
      BY <3>1, <3>2, <3>3, <3>4
  <2>2. CASE ExecRenew(f)
    <3>1. OriginType'
      BY <2>2 DEF ExecRenew, NextCommand, Taken, Reply, OriginType, Version
    <3>2. LeaderType'
      BY <2>2 DEF ExecRenew, NextCommand, Taken, Reply, LeaderType, Point, Waiting, Working, OriginType, Version
    <3>3. LeaseType'
      BY <2>2 DEF ExecRenew, NextCommand, Taken, Reply, LeaseType, CallState, LeaseState
    <3>4. PipeType'
      BY <2>2, TailFacts DEF ExecRenew, NextCommand, Taken, Reply, PipeType
    <3> QED
      BY <3>1, <3>2, <3>3, <3>4
  <2>3. CASE ExecPublish(f)
    <3>1. OriginType'
      BY <2>3, TailFacts DEF ExecPublish, NextCommand, OriginType, PipeType, Version, Command
    <3>2. LeaderType'
      BY <2>3 DEF ExecPublish, NextCommand, Taken, Reply, LeaderType, Point, Waiting, Working, OriginType, Version
    <3>3. LeaseType'
      BY <2>3 DEF ExecPublish, NextCommand, Taken, Reply, LeaseType, CallState, LeaseState
    <3>4. PipeType'
      BY <2>3, TailFacts DEF ExecPublish, NextCommand, Taken, Reply, PipeType
    <3> QED
      BY <3>1, <3>2, <3>3, <3>4
  <2>4. CASE ExecRelease(f)
    <3>1. OriginType'
      BY <2>4 DEF ExecRelease, NextCommand, Taken, OriginType, Version
    <3>2. LeaderType'
      BY <2>4 DEF ExecRelease, NextCommand, Taken, LeaderType, Point, Waiting, Working, OriginType, Version
    <3>3. LeaseType'
      BY <2>4 DEF ExecRelease, NextCommand, Taken, LeaseType, CallState, LeaseState
    <3>4. PipeType'
      BY <2>4, TailFacts DEF ExecRelease, NextCommand, Taken, PipeType
    <3> QED
      BY <3>1, <3>2, <3>3, <3>4
  <2>5. CASE Disconnect(f)
    <3>1. OriginType'
      BY <2>5 DEF Disconnect, Failed, OriginType, Version
    <3>2. LeaderType'
      BY <2>5 DEF Disconnect, Failed, LeaderType, Point, Waiting, Working, OriginType, Version
    <3>3. LeaseType'
      BY <2>5 DEF Disconnect, Failed, LeaseType, CallState, LeaseState
    <3>4. PipeType'
      BY <2>5 DEF Disconnect, Failed, PipeType
    <3> QED
      BY <3>1, <3>2, <3>3, <3>4
  <2> QED
    BY <1>10, <2>1, <2>2, <2>3, <2>4, <2>5 DEF Wire
<1>11. ASSUME NEW f \in Filler, LeaseTimer(f) PROVE TypeOK'
  <2>1. CASE StartRenewal(f)
    <3>1. OriginType'
      BY <2>1 DEF StartRenewal, Send, OriginType, Version
    <3>2. LeaderType'
      BY <2>1 DEF StartRenewal, Send, LeaderType, Point, Waiting, Working, OriginType, Version
    <3>3. LeaseType'
      BY <2>1 DEF StartRenewal, Send, LeaseType, CallState, LeaseState
    <3>4. PipeType'
      BY <2>1, SendType DEF StartRenewal, Op
    <3> QED
      BY <3>1, <3>2, <3>3, <3>4
  <2>2. CASE Renewed(f)
    <3>1. OriginType'
      BY <2>2 DEF Renewed, OriginType, Version
    <3>2. LeaderType'
      BY <2>2 DEF Renewed, LeaderType, Point, Waiting, Working, OriginType, Version
    <3>3. LeaseType'
      BY <2>2 DEF Renewed, LeaseType, CallState, LeaseState
    <3>4. PipeType'
      BY <2>2 DEF Renewed, PipeType
    <3> QED
      BY <3>1, <3>2, <3>3, <3>4
  <2>3. CASE LoseLease(f)
    <3>1. OriginType'
      BY <2>3 DEF LoseLease, OriginType, Version
    <3>2. LeaderType'
      BY <2>3 DEF LoseLease, LeaderType, Point, Waiting, Working, OriginType, Version
    <3>3. LeaseType'
      BY <2>3 DEF LoseLease, LeaseType, CallState, LeaseState
    <3>4. PipeType'
      BY <2>3, UnawaitedFacts DEF LoseLease, PipeType
    <3> QED
      BY <3>1, <3>2, <3>3, <3>4
  <2> QED
    BY <1>11, <2>1, <2>2, <2>3 DEF LeaseTimer
<1>12. ASSUME NEW f \in Filler, LocalMutation(f) PROVE TypeOK'
  <2>1. OriginType'
    BY <1>12 DEF LocalMutation, OriginType, Version
  <2>2. LeaderType'
    BY <1>12 DEF LocalMutation, LeaderType, Point, Waiting, Working, OriginType, Version
  <2>3. LeaseType'
    BY <1>12 DEF LocalMutation, LeaseType, CallState, LeaseState
  <2>4. PipeType'
    BY <1>12 DEF LocalMutation, PipeType
  <2> QED
    BY <2>1, <2>2, <2>3, <2>4
<1>13. ASSUME NEW f \in Filler, ProcessStops(f) PROVE TypeOK'
  <2>1. OriginType'
    BY <1>13 DEF ProcessStops, Ended, Goto, OriginType, Version
  <2>2. LeaderType'
    BY <1>13 DEF ProcessStops, Ended, Goto, LeaderType, Point, Waiting, Working, OriginType, Version
  <2>3. LeaseType'
    BY <1>13 DEF ProcessStops, Ended, Goto, LeaseType, CallState, LeaseState
  <2>4. PipeType'
    BY <1>13, UnawaitedFacts DEF ProcessStops, Ended, Goto, PipeType
  <2> QED
    BY <2>1, <2>2, <2>3, <2>4
<1>14. CASE UNCHANGED vars
  BY <1>14 DEF vars, OriginType, LeaderType, LeaseType, PipeType
<1> QED
  BY <1>1, <1>2, <1>3, <1>4, <1>5, <1>6, <1>7, <1>8, <1>9, <1>10, <1>11, <1>12, <1>13, <1>14 DEF Next

\* Every variable keeps its type, for any number of leaders and any bounds.
THEOREM TypeCorrect == Spec => []TypeOK
  BY TypeInit, TypeNext, PTL DEF Spec
-----------------------------------------------------------------------------
(* The entry.  Every step is a step of FencedEntry or leaves the entry alone. *)

\* SET_AND_FENCE_LUA and DELETE_AND_FENCE_LUA fence the abstract entry.
LEMMA FenceSimulation ==
  ASSUME TypeOK, EntryInv, NEW entry \in {Absent} \cup [val : 1..db, by : {"set"}],
         FenceWith(entry), db' = db
  PROVE  Entry!Fence
  BY DEF FenceWith, Entry!Fence, Entry!Absent, Absent

\* A publication that PUBLISH_IF_OWNER_LUA accepts is recent enough for the abstract entry.
LEMMA PublishSimulation ==
  ASSUME IndInv, NEW f \in Filler, ExecPublish(f), lock = f
  PROVE  Entry!Fill
<1>1. pipe[f] \in Seq(Command) /\ pipe[f] # <<>> /\ Head(pipe[f]).op = "publish"
  BY DEF IndInv, TypeOK, PipeType, ExecPublish, NextCommand
<1>2. Len(pipe[f]) > 0 /\ Len(pipe[f]) \in Nat /\ Head(pipe[f]) = pipe[f][1]
  BY <1>1, TailFacts
<1>3. Head(pipe[f]).val \in 1..db /\ Head(pipe[f]).val >= floor
  BY <1>1, <1>2 DEF IndInv, WireInv, CommandInv
<1>4. Head(pipe[f]).val \in floor..db
  BY <1>3 DEF IndInv, TypeOK, OriginType, Version
<1>5. data' = [val |-> Head(pipe[f]).val, by |-> "fill"] /\ db' = db /\ floor' = floor
  BY DEF ExecPublish, histVars
<1>6. data' \in [val : floor..db, by : {"fill"}]
  BY <1>4, <1>5
<1> QED
  BY <1>5, <1>6 DEF Entry!Fill

\* Every step of the lease protocol is a step of the abstract entry or leaves it alone.
LEMMA StepSimulation == IndInv /\ [Next]_vars => [Entry!EntryNext]_(Entry!entryVars)
<1> SUFFICES ASSUME IndInv, [Next]_vars
             PROVE  Entry!EntryNext \/ UNCHANGED <<db, floor, data>>
  BY DEF Entry!entryVars
<1> USE DEF lockVars, patternVars, originVars, histVars
<1>0. TypeOK /\ EntryInv
  BY DEF IndInv
<1>1. CASE DirectDelete
  BY <1>0, <1>1, FenceSimulation DEF DirectDelete, Entry!EntryNext
<1>2. CASE DirectSet
  <2>1. PICK v \in 1..db : FenceWith([val |-> v, by |-> "set"])
    BY <1>2 DEF DirectSet
  <2>2. [val |-> v, by |-> "set"] \in [val : 1..db, by : {"set"}]
    OBVIOUS
  <2> QED
    BY <1>0, <1>2, <2>1, <2>2, FenceSimulation DEF DirectSet, Entry!EntryNext
<1>3. CASE DataExpires
  BY <1>3 DEF DataExpires, Absent, Entry!Absent, Entry!Expire, Entry!EntryNext
<1>4. CASE PatternCalled
  BY <1>4 DEF PatternCalled
<1>5. CASE DeletePatternData
  BY <1>0, <1>5, FenceSimulation DEF DeletePatternData, Entry!EntryNext
<1>6. CASE FencePatternLeases
  BY <1>0, <1>6, FenceSimulation DEF FencePatternLeases, Entry!EntryNext
<1>7. CASE OriginWrite
  BY <1>7 DEF OriginWrite, Entry!Write, Entry!EntryNext
<1>8. CASE Tick
  BY <1>8 DEF Tick
<1>9. ASSUME NEW f \in Filler, Leader(f) PROVE UNCHANGED <<db, floor, data>>
  <2>1. ASSUME Finish(f) PROVE UNCHANGED <<db, floor, data>>
    BY <2>1 DEF Finish, Ended
  <2>2. ASSUME TryAcquire(f) PROVE UNCHANGED <<db, floor, data>>
    BY <2>2 DEF TryAcquire
  <2> QED
    BY <1>9, <2>1, <2>2
       DEF Leader, StartFill, Acquired, Contended, AcquireUnknown, PollHit, PollMiss, PollTimeout,
           RecheckHit, RecheckMiss, LoaderReads, LoaderSettles, LoaderUnpublished, FillFails,
           DispatchPublish, PublishSkipped, PublishSettles
<1>10. ASSUME NEW f \in Filler, Wire(f) PROVE Entry!EntryNext \/ UNCHANGED <<db, floor, data>>
  <2>1. CASE ExecPublish(f)
    BY <2>1, PublishSimulation DEF ExecPublish, Entry!EntryNext
  <2>2. CASE ExecAcquire(f) \/ ExecRenew(f) \/ ExecRelease(f) \/ Disconnect(f)
    BY <2>2 DEF ExecAcquire, ExecRenew, ExecRelease, Disconnect
  <2> QED
    BY <1>10, <2>1, <2>2 DEF Wire
<1>11. ASSUME NEW f \in Filler, LeaseTimer(f) PROVE UNCHANGED <<db, floor, data>>
  BY <1>11 DEF LeaseTimer, StartRenewal, Renewed, LoseLease
<1>12. ASSUME NEW f \in Filler, LocalMutation(f) \/ ProcessStops(f)
       PROVE  UNCHANGED <<db, floor, data>>
  BY <1>12 DEF LocalMutation, ProcessStops, Ended
<1>13. CASE UNCHANGED vars
  BY <1>13 DEF vars
<1> QED
  BY <1>1, <1>2, <1>3, <1>4, <1>5, <1>6, <1>7, <1>8, <1>9, <1>10, <1>11, <1>12, <1>13 DEF Next

\* FencedEntry keeps what EntryInv says, whatever implements it.
LEMMA EntryNextKeeps ==
  ASSUME TypeOK, TypeOK', EntryInv, [Entry!EntryNext]_(Entry!entryVars)
  PROVE  EntryInv'
<1> USE DEF TypeOK, OriginType, Version, EntryInv, NoStaleFill
<1>1. CASE Entry!Write
  BY <1>1 DEF Entry!Write
<1>2. CASE Entry!Fence
  <2>1. CASE data' = Absent
    BY <1>2, <2>1 DEF Entry!Fence, Absent
  <2>2. CASE data' \in [val : 1..db, by : {"set"}]
    BY <1>2, <2>2 DEF Entry!Fence
  <2> QED
    BY <1>2, <2>1, <2>2 DEF Entry!Fence, Entry!Absent, Absent
<1>3. CASE Entry!Fill
  BY <1>3 DEF Entry!Fill
<1>4. CASE Entry!Expire
  BY <1>4 DEF Entry!Expire, Entry!Absent
<1>5. CASE UNCHANGED <<db, floor, data>>
  BY <1>5
<1> QED
  BY <1>1, <1>2, <1>3, <1>4, <1>5 DEF Entry!EntryNext, Entry!entryVars
-----------------------------------------------------------------------------
(* A step that does not touch leader g, except through the entry and the lock. *)

Frame(g) ==
  /\ pc'[g] = pc[g] /\ loaded'[g] = loaded[g] /\ pipe'[g] = pipe[g]
  /\ lease'[g] = lease[g] /\ leaseLeft'[g] = leaseLeft[g]
  /\ renewal'[g] = renewal[g] /\ renewalLeft'[g] = renewalLeft[g]
  /\ call'[g] = call[g] /\ callLeft'[g] = callLeft[g]
  /\ db <= db'
  /\ lock' = g => lock = g /\ floor' = floor
  /\ g \in fenced => g \in fenced'
  /\ lock = g /\ pc[g] # "done" => g \in fenced' \/ (lock' = g /\ lockTtl' >= lockTtl)

\* What the three invariants of a leader say, together.
LeaderOK(f) == LeaderInv(f) /\ WireInv(f) /\ LeaseInv(f)

\* A command on the wire is well typed.
LEMMA CommandType ==
  ASSUME PipeType, NEW g \in Filler
  PROVE  /\ pipe[g] \in Seq(Command) /\ Len(pipe[g]) \in Nat
         /\ \A i \in 1..Len(pipe[g]) :
              pipe[g][i] \in Command /\ pipe[g][i].val \in 0..MaxVersion
<1>1. pipe[g] \in Seq(Command)
  BY DEF PipeType
<1>2. Len(pipe[g]) \in Nat /\ \A i \in 1..Len(pipe[g]) : pipe[g][i] \in Command
  BY <1>1
<1>3. ASSUME NEW c \in Command PROVE c.val \in 0..MaxVersion
  BY DEF Command
<1> QED
  BY <1>1, <1>2, <1>3

\* A step that gives a leader nothing and takes nothing but its lock keeps its invariant.
LEMMA FrameKeeps ==
  ASSUME TypeOK, TypeOK', NEW g \in Filler, LeaderOK(g), Frame(g)
  PROVE  LeaderOK(g)'
<1>1. LeaderInv(g)'
  BY DEF LeaderInv, Frame, LeaderOK, TypeOK, OriginType, LeaderType, Version
<1>2. WireInv(g)'
  <2> SUFFICES ASSUME NEW i \in 1..Len(pipe'[g]) PROVE CommandInv(g, i)'
    BY DEF WireInv
  <2>1. i \in 1..Len(pipe[g]) /\ CommandInv(g, i)
    BY DEF WireInv, Frame, LeaderOK
  <2>2. pipe[g][i].val \in 0..MaxVersion
    BY <2>1, CommandType DEF TypeOK
  <2>3. db \in Nat /\ db' \in Nat /\ db <= db'
    BY DEF TypeOK, OriginType, Version, Frame
  <2> QED
    BY <2>1, <2>2, <2>3 DEF CommandInv, Frame
<1>3. LeaseInv(g)'
  <2>1. ASSUME NEW left \in 0..LockTtl, Covered(g, left), pc[g] # "done"
        PROVE  Covered(g, left)'
    BY <2>1 DEF Covered, Frame, TypeOK, OriginType
  <2>2. lease[g] = "held" => pc[g] # "done"
    BY DEF LeaderOK, LeaderInv, Working
  <2>3. renewal[g] = "yes" => pc[g] # "done"
    BY <2>2 DEF LeaderOK, LeaderInv
  <2> QED
    BY <2>1, <2>2, <2>3 DEF LeaseInv, Frame, LeaderOK, TypeOK, LeaseType
<1> QED
  BY <1>1, <1>2, <1>3 DEF LeaderOK
-----------------------------------------------------------------------------
(* Steps of nobody in particular. *)

\* Direct sets and deletes, expiry, pattern deletes and origin writes are such steps.
LEMMA SharedFrame ==
  ASSUME TypeOK, NEW g \in Filler,
         \/ DirectDelete \/ DirectSet \/ DataExpires \/ PatternCalled
         \/ DeletePatternData \/ FencePatternLeases \/ OriginWrite
  PROVE  Frame(g)
<1> USE DEF lockVars, patternVars, originVars, leaderVars, leaseVars, wireVars, histVars
<1>1. db \in Nat /\ lockTtl \in Nat /\ g # None
  BY DEF TypeOK, OriginType, Version
<1>2. ASSUME NEW entry, FenceWith(entry), UNCHANGED <<db, leaderVars, leaseVars, wireVars>>
      PROVE  Frame(g)
  BY <1>1, <1>2 DEF FenceWith, Frame
<1>3. ASSUME UNCHANGED <<lock, lockTtl, leaderVars, leaseVars, wireVars, histVars>>, db <= db'
      PROVE  Frame(g)
  BY <1>1, <1>3 DEF Frame
<1>4. CASE DirectDelete
  BY <1>2, <1>4 DEF DirectDelete
<1>5. CASE DirectSet
  BY <1>2, <1>5 DEF DirectSet
<1>6. CASE DeletePatternData
  BY <1>1, <1>2, <1>3, <1>6 DEF DeletePatternData
<1>7. CASE FencePatternLeases
  BY <1>1, <1>2, <1>3, <1>7 DEF FencePatternLeases
<1>8. CASE DataExpires \/ PatternCalled \/ OriginWrite
  BY <1>1, <1>3, <1>8 DEF DataExpires, PatternCalled, OriginWrite
<1> QED
  BY <1>4, <1>5, <1>6, <1>7, <1>8

\* Time passes for Redis and for the leases alike.
LEMMA TickKeeps ==
  ASSUME TypeOK, TypeOK', NEW g \in Filler, LeaderOK(g), Tick
  PROVE  LeaderOK(g)'
<1> USE DEF lockVars, patternVars, histVars
<1>1. LeaderInv(g)'
  BY DEF LeaderOK, LeaderInv, Tick
<1>2. WireInv(g)'
  <2> SUFFICES ASSUME NEW i \in 1..Len(pipe'[g]) PROVE CommandInv(g, i)'
    BY DEF WireInv
  <2>1. i \in 1..Len(pipe[g]) /\ CommandInv(g, i)
    BY DEF WireInv, LeaderOK, Tick
  <2> QED
    BY <2>1 DEF CommandInv, Tick
<1>3. LeaseInv(g)'
  <2>1. ASSUME NEW left \in 0..LockTtl, Covered(g, left)
        PROVE  Covered(g, Less(left))'
    BY <2>1 DEF Covered, Less, Tick, TypeOK, OriginType
  <2>2. /\ leaseLeft[g] \in 0..LockTtl /\ leaseLeft'[g] = Less(leaseLeft[g])
        /\ renewalLeft[g] \in 0..LockTtl /\ renewalLeft'[g] = Less(renewalLeft[g])
        /\ callLeft[g] \in 0..LockTtl /\ callLeft'[g] = Less(callLeft[g])
        /\ UNCHANGED <<pc, lease, renewal, call>>
    BY DEF Tick, TypeOK, LeaseType
  <2> QED
    BY <2>1, <2>2 DEF LeaderOK, LeaseInv
<1> QED
  BY <1>1, <1>2, <1>3 DEF LeaderOK

-----------------------------------------------------------------------------
(* Steps of one leader: they leave the other leaders alone ... *)

\* So is whatever another leader, its connection or its lease does.
LEMMA OtherFrame ==
  ASSUME TypeOK, NEW f \in Filler, NEW g \in Filler, g # f,
         Leader(f) \/ Wire(f) \/ LeaseTimer(f) \/ LocalMutation(f) \/ ProcessStops(f)
  PROVE  Frame(g)
<1> USE DEF lockVars, patternVars, originVars, leaderVars, leaseVars, wireVars, histVars
<1>a. db \in Nat /\ lockTtl \in Nat /\ g # None
  BY DEF TypeOK, OriginType, Version
<1>b. /\ pc \in [Filler -> Point] /\ loaded \in [Filler -> 0..MaxVersion]
      /\ pipe \in [Filler -> Seq(Command)]
  BY DEF TypeOK, LeaderType, PipeType
<1>c. /\ lease \in [Filler -> LeaseState] /\ leaseLeft \in [Filler -> 0..LockTtl]
      /\ renewal \in [Filler -> CallState] /\ renewalLeft \in [Filler -> 0..LockTtl]
      /\ call \in [Filler -> CallState] /\ callLeft \in [Filler -> 0..LockTtl]
  BY DEF TypeOK, LeaseType
<1>1. ASSUME Ended(f), pipe'[g] = pipe[g] PROVE Frame(g)
  BY <1>a, <1>b, <1>c, <1>1 DEF Ended, Goto, Frame
<1>2. ASSUME Finish(f) PROVE Frame(g)
  <2>1. pipe'[g] = pipe[g]
    BY <1>a, <1>b, <1>c, <1>2 DEF Finish
  <2> QED
    BY <1>1, <1>2, <2>1 DEF Finish
<1>3. ASSUME TryAcquire(f) PROVE Frame(g)
  <2>1. UNCHANGED <<db, lock, lockTtl, floor, fenced, loaded, lease, leaseLeft, renewal, renewalLeft>>
    BY <1>3 DEF TryAcquire
  <2>2. pc'[g] = pc[g] /\ call'[g] = call[g]
    BY <1>a, <1>b, <1>c, <1>3 DEF TryAcquire, Goto
  <2>3. callLeft'[g] = callLeft[g] /\ pipe'[g] = pipe[g]
    <3>1. CASE Send(f, "acquire", 0) /\ callLeft' = [callLeft EXCEPT ![f] = LockTtl]
      BY <1>a, <1>b, <1>c, <3>1 DEF Send
    <3>2. CASE UNCHANGED <<pipe, callLeft>>
      BY <3>2
    <3> QED
      BY <1>3, <3>1, <3>2 DEF TryAcquire
  <2> QED
    BY <1>a, <1>b, <1>c, <2>1, <2>2, <2>3 DEF Frame
<1>4. CASE Leader(f)
  <2>1. CASE StartFill(f) \/ PollMiss(f)
    BY <1>3, <2>1 DEF StartFill, PollMiss
  <2>2. CASE Acquired(f) \/ Contended(f)
    BY <1>a, <1>b, <1>c, <2>2 DEF Acquired, Contended, LeaveLoop, Goto, Frame
  <2>3. CASE AcquireUnknown(f)
    BY <1>a, <1>b, <1>c, <2>3 DEF AcquireUnknown, LeaveLoop, Goto, Frame
  <2>4. CASE PollTimeout(f)
    BY <1>a, <1>b, <1>c, <1>2, <2>4 DEF PollTimeout, LeaveLoop, Goto, Frame
  <2>5. CASE RecheckMiss(f) \/ LoaderReads(f) \/ LoaderSettles(f)
    BY <1>a, <1>b, <1>c, <2>5 DEF RecheckMiss, LoaderReads, LoaderSettles, Goto, Frame
  <2>6. CASE DispatchPublish(f)
    BY <1>a, <1>b, <1>c, <2>6 DEF DispatchPublish, Goto, Send, Frame
  <2> QED
    BY <1>2, <1>4, <2>1, <2>2, <2>3, <2>4, <2>5, <2>6
       DEF Leader, PollHit, RecheckHit, LoaderUnpublished, FillFails, PublishSkipped, PublishSettles
<1>5. CASE Wire(f)
  <2>1. CASE ExecAcquire(f)
    BY <1>a, <1>b, <1>c, <2>1 DEF ExecAcquire, Taken, Reply, Frame
  <2>2. CASE ExecRenew(f)
    BY <1>a, <1>b, <1>c, <2>2 DEF ExecRenew, Taken, Reply, Frame, TypeOK, OriginType
  <2>3. CASE ExecPublish(f)
    BY <1>a, <1>b, <1>c, <2>3 DEF ExecPublish, Taken, Reply, Frame
  <2>4. CASE ExecRelease(f)
    BY <1>a, <1>b, <1>c, <2>4 DEF ExecRelease, Taken, Frame
  <2>5. CASE Disconnect(f)
    BY <1>a, <1>b, <1>c, <2>5 DEF Disconnect, Failed, Frame
  <2> QED
    BY <1>5, <2>1, <2>2, <2>3, <2>4, <2>5 DEF Wire
<1>6. CASE LeaseTimer(f)
  <2>1. CASE StartRenewal(f)
    BY <1>a, <1>b, <1>c, <2>1 DEF StartRenewal, Send, Frame
  <2>2. CASE Renewed(f)
    BY <1>a, <1>b, <1>c, <2>2 DEF Renewed, Frame
  <2>3. CASE LoseLease(f)
    BY <1>a, <1>b, <1>c, <2>3 DEF LoseLease, Frame
  <2> QED
    BY <1>6, <2>1, <2>2, <2>3 DEF LeaseTimer
<1>7. CASE LocalMutation(f)
  BY <1>a, <1>b, <1>c, <1>7 DEF LocalMutation, Frame
<1>8. CASE ProcessStops(f)
  <2>1. pipe'[g] = pipe[g]
    BY <1>a, <1>b, <1>c, <1>8 DEF ProcessStops
  <2> QED
    BY <1>1, <1>8, <2>1 DEF ProcessStops
<1> QED
  BY <1>4, <1>5, <1>6, <1>7, <1>8
-----------------------------------------------------------------------------
(* ... and keep their own invariants. *)

\* After a command is sent, it is the last one and the others are where they were.
LEMMA WireAfterSend ==
  ASSUME PipeType, NEW f \in Filler, NEW op \in Op, NEW val \in 0..MaxVersion, Send(f, op, val)
  PROVE  /\ Len(pipe'[f]) = Len(pipe[f]) + 1 /\ Len(pipe[f]) \in Nat
         /\ pipe'[f][Len(pipe[f]) + 1] = [op |-> op, val |-> val, to |-> "caller"]
         /\ \A i \in 1..Len(pipe[f]) : pipe'[f][i] = pipe[f][i]
<1>1. pipe'[f] = Append(pipe[f], [op |-> op, val |-> val, to |-> "caller"])
  BY DEF PipeType, Send
<1>2. [op |-> op, val |-> val, to |-> "caller"] \in Command
  BY DEF Command
<1> QED
  BY <1>1, <1>2, AppendFacts, CommandType

\* After a command is executed, the others have moved up by one.
LEMMA WireAfterTake ==
  ASSUME PipeType, NEW f \in Filler, pipe[f] # <<>>, Taken(f)
  PROVE  /\ Len(pipe[f]) \in Nat /\ Len(pipe[f]) > 0 /\ Head(pipe[f]) = pipe[f][1]
         /\ Len(pipe'[f]) = Len(pipe[f]) - 1
         /\ \A i \in 1..Len(pipe'[f]) : i + 1 \in 1..Len(pipe[f]) /\ pipe'[f][i] = pipe[f][i + 1]
<1>1. pipe[f] \in Seq(Command) /\ pipe'[f] = Tail(pipe[f])
  BY DEF PipeType, Taken
<1> QED
  BY <1>1, TailFacts

\* The call ends, normally or not.
LEMMA EndedKeeps ==
  ASSUME TypeOK, NEW f \in Filler, LeaderOK(f), Ended(f),
         NEW n \in Nat, Len(pipe'[f]) = n,
         \A i \in 1..n :
            \/ pipe'[f][i].op = "release"
            \/ /\ i \in 1..Len(pipe[f])
               /\ pipe'[f][i].op = pipe[f][i].op /\ pipe'[f][i].val = pipe[f][i].val
               /\ pipe'[f][i].to # "caller"
  PROVE  LeaderOK(f)'
<1>0. /\ pc'[f] = "done" /\ lease'[f] = "none" /\ renewal'[f] = "none" /\ call'[f] = "none"
      /\ loaded'[f] = 0 /\ UNCHANGED <<db, lock, floor>>
  BY DEF Ended, Goto, originVars, lockVars, TypeOK, LeaderType, LeaseType
<1>1. LeaderInv(f)'
  BY <1>0 DEF LeaderInv, TypeOK, OriginType, Version
<1>2. LeaseInv(f)'
  BY <1>0 DEF LeaseInv
<1>3. WireInv(f)'
  <2> SUFFICES ASSUME NEW i \in 1..n PROVE CommandInv(f, i)'
    BY DEF WireInv
  <2>1. CASE pipe'[f][i].op = "release"
    BY <1>0, <2>1 DEF CommandInv
  <2>2. CASE pipe'[f][i].op # "release"
    <3>1. i \in 1..Len(pipe[f]) /\ CommandInv(f, i)
      BY <2>2 DEF LeaderOK, WireInv
    <3>2. pipe[f][i].op = "acquire" => \A j \in 1..n : pipe'[f][j].op # "publish"
      BY <3>1 DEF CommandInv
    <3> QED
      BY <1>0, <2>2, <3>1, <3>2 DEF CommandInv
  <2> QED
    BY <2>1, <2>2
<1> QED
  BY <1>1, <1>2, <1>3 DEF LeaderOK

\* The end of a call keeps the invariant of its leader.
LEMMA FinishKeeps ==
  ASSUME TypeOK, NEW f \in Filler, LeaderOK(f), Finish(f)
  PROVE  LeaderOK(f)'
<1> DEFINE q == Unawaited(pipe[f], Op)
<1>1. pipe[f] \in Seq(Command) /\ Len(pipe[f]) \in Nat
      /\ \A i \in 1..Len(pipe[f]) : pipe[f][i] \in Command
  BY CommandType DEF TypeOK
<1>2. q \in Seq(Command) /\ Len(q) = Len(pipe[f])
      /\ \A i \in 1..Len(pipe[f]) :
           /\ q[i].op = pipe[f][i].op /\ q[i].val = pipe[f][i].val
           /\ q[i].to = "caller" => pipe[f][i].op \notin Op
  BY <1>1, UnawaitedFacts
<1>3. \A i \in 1..Len(pipe[f]) : q[i].to # "caller"
  BY <1>1, <1>2 DEF Command
<1> DEFINE r == [op |-> "release", val |-> 0, to |-> "nobody"]
<1>4. r \in Command /\ r.op = "release"
  BY DEF Command, Op
<1>5. CASE pipe'[f] = q
  <2> HIDE DEF q
  <2> QED
    BY <1>1, <1>2, <1>3, <1>5, EndedKeeps DEF Finish
<1>6. CASE pipe'[f] = Append(q, r)
  <2> HIDE DEF q, r
  <2>1. /\ Len(pipe'[f]) = Len(pipe[f]) + 1
        /\ pipe'[f][Len(pipe[f]) + 1] = r
        /\ \A i \in 1..Len(pipe[f]) : pipe'[f][i] = q[i]
    BY <1>2, <1>4, <1>6, AppendFacts
  <2>2. \A i \in 1..(Len(pipe[f]) + 1) : i = Len(pipe[f]) + 1 \/ i \in 1..Len(pipe[f])
    BY <1>1
  <2>3. \A i \in 1..(Len(pipe[f]) + 1) :
          \/ pipe'[f][i].op = "release"
          \/ /\ i \in 1..Len(pipe[f])
             /\ pipe'[f][i].op = pipe[f][i].op /\ pipe'[f][i].val = pipe[f][i].val
             /\ pipe'[f][i].to # "caller"
    BY <1>2, <1>3, <1>4, <2>1, <2>2
  <2>4. Len(pipe[f]) + 1 \in Nat
    BY <1>1
  <2> QED
    BY <2>1, <2>3, <2>4, EndedKeeps DEF Finish
<1>7. pipe'[f] = q \/ pipe'[f] = Append(q, r)
  BY DEF Finish, TypeOK, PipeType
<1> QED
  BY <1>5, <1>6, <1>7

\* So does the death of its process.
LEMMA StopKeeps ==
  ASSUME TypeOK, NEW f \in Filler, LeaderOK(f), ProcessStops(f)
  PROVE  LeaderOK(f)'
<1>1. PipeType /\ pipe'[f] = Unawaited(pipe[f], Op)
  BY DEF ProcessStops, TypeOK, PipeType
<1>2. Len(pipe'[f]) = Len(pipe[f]) /\ Len(pipe[f]) \in Nat
      /\ \A i \in 1..Len(pipe[f]) :
           /\ pipe'[f][i].op = pipe[f][i].op /\ pipe'[f][i].val = pipe[f][i].val
           /\ pipe'[f][i].to = "caller" => pipe[f][i].op \notin Op
  BY <1>1, CommandType, UnawaitedFacts
<1>3. \A i \in 1..Len(pipe[f]) : pipe[f][i].op \in Op
  <2>1. ASSUME NEW c \in Command PROVE c.op \in Op
    BY DEF Command
  <2> QED
    BY <1>1, <2>1, CommandType
<1> QED
  BY <1>2, <1>3, EndedKeeps DEF ProcessStops

\* What f sees of its own variables, typed.
LEMMA OwnTypes ==
  ASSUME TypeOK, NEW f \in Filler
  PROVE  /\ db \in Nat /\ floor \in Nat /\ db \in Version /\ lockTtl \in 0..LockTtl
         /\ pc \in [Filler -> Point] /\ loaded \in [Filler -> 0..MaxVersion]
         /\ lease \in [Filler -> LeaseState] /\ leaseLeft \in [Filler -> 0..LockTtl]
         /\ renewal \in [Filler -> CallState] /\ renewalLeft \in [Filler -> 0..LockTtl]
         /\ call \in [Filler -> CallState] /\ callLeft \in [Filler -> 0..LockTtl]
         /\ pipe \in [Filler -> Seq(Command)] /\ PipeType
<1>1. db \in Nat /\ floor \in Nat /\ db \in Version /\ lockTtl \in 0..LockTtl
  BY DEF TypeOK, OriginType, Version
<1>2. /\ pc \in [Filler -> Point] /\ loaded \in [Filler -> 0..MaxVersion]
      /\ pipe \in [Filler -> Seq(Command)] /\ PipeType
  BY DEF TypeOK, LeaderType, PipeType
<1>3. /\ lease \in [Filler -> LeaseState] /\ leaseLeft \in [Filler -> 0..LockTtl]
      /\ renewal \in [Filler -> CallState] /\ renewalLeft \in [Filler -> 0..LockTtl]
      /\ call \in [Filler -> CallState] /\ callLeft \in [Filler -> 0..LockTtl]
  BY DEF TypeOK, LeaseType
<1> QED
  BY <1>1, <1>2, <1>3

\* Steps that send nothing and execute nothing.
LEMMA QuietKeeps ==
  ASSUME TypeOK, floor <= db, NEW f \in Filler, LeaderOK(f),
         \/ Acquired(f) \/ Contended(f) \/ RecheckMiss(f) \/ LoaderReads(f) \/ LoaderSettles(f)
         \/ PollTimeout(f) /\ OnTimeout = "load"
         \/ Renewed(f) \/ LocalMutation(f)
  PROVE  LeaderOK(f)'
<1> USE DEF lockVars, patternVars, originVars, leaderVars, leaseVars, wireVars, histVars
<1>0. /\ pc \in [Filler -> Point] /\ loaded \in [Filler -> 0..MaxVersion]
      /\ lease \in [Filler -> LeaseState] /\ leaseLeft \in [Filler -> 0..LockTtl]
      /\ renewal \in [Filler -> CallState] /\ renewalLeft \in [Filler -> 0..LockTtl]
      /\ call \in [Filler -> CallState] /\ callLeft \in [Filler -> 0..LockTtl]
  BY OwnTypes
<1>1. LeaderInv(f) /\ LeaseInv(f) /\ \A i \in 1..Len(pipe[f]) : CommandInv(f, i)
  BY DEF LeaderOK, WireInv
<1>2. db \in Nat /\ db > 0 /\ floor \in Nat
  BY OwnTypes DEF Version
<1>3. ASSUME UNCHANGED <<db, lock, lockTtl, floor, fenced, pipe>>,
             LeaderInv(f)', LeaseInv(f)',
             \A i \in 1..Len(pipe[f]) : CommandInv(f, i)'
      PROVE  LeaderOK(f)'
  BY <1>3 DEF LeaderOK, WireInv
<1>4. CASE Acquired(f)
  <2>1. /\ UNCHANGED <<db, lock, lockTtl, floor, fenced, pipe, loaded, renewal, renewalLeft>>
        /\ pc[f] = "acquiring" /\ pc'[f] = "queued" /\ call[f] = "yes" /\ call'[f] = "none"
        /\ lease'[f] = "held" /\ leaseLeft'[f] = callLeft[f]
    BY <1>0, <1>4 DEF Acquired, LeaveLoop, Goto
  <2>2. LeaderInv(f)'
    BY <1>1, <2>1 DEF LeaderInv, Working
  <2>3. LeaseInv(f)'
    BY <1>1, <2>1 DEF LeaseInv, Covered
  <2>4. \A i \in 1..Len(pipe[f]) : CommandInv(f, i)'
    BY <1>1, <2>1 DEF CommandInv
  <2> QED
    BY <1>3, <2>1, <2>2, <2>3, <2>4
<1>5. CASE Contended(f)
  <2>1. /\ UNCHANGED <<db, lock, lockTtl, floor, fenced, pipe, loaded, lease, leaseLeft, renewal, renewalLeft>>
        /\ pc[f] = "acquiring" /\ pc'[f] = "poll" /\ call[f] = "no" /\ call'[f] = "none"
    BY <1>0, <1>5 DEF Contended, Goto
  <2>2. LeaderInv(f)'
    BY <1>1, <2>1 DEF LeaderInv, Working
  <2>3. LeaseInv(f)'
    BY <1>1, <2>1 DEF LeaseInv, Covered
  <2>4. \A i \in 1..Len(pipe[f]) : CommandInv(f, i)'
    BY <1>1, <2>1 DEF CommandInv
  <2> QED
    BY <1>3, <2>1, <2>2, <2>3, <2>4
<1>6. CASE RecheckMiss(f) \/ LoaderSettles(f) \/ (PollTimeout(f) /\ OnTimeout = "load")
  <2>1. /\ UNCHANGED <<db, lock, lockTtl, floor, fenced, pipe, loaded, lease, leaseLeft, renewal, renewalLeft, call>>
        /\ pc[f] \in {"poll", "queued", "admitted", "read"}
        /\ pc'[f] \in {"queued", "admitted", "loading", "publish"}
        /\ pc'[f] = "publish" <=> pc[f] = "read"
    BY <1>0, <1>6 DEF RecheckMiss, LoaderSettles, PollTimeout, LeaveLoop, Goto
  <2>2. LeaderInv(f)'
    BY <1>1, <2>1 DEF LeaderInv, Working
  <2>3. LeaseInv(f)'
    BY <1>1, <2>1 DEF LeaseInv, Covered
  <2>4. \A i \in 1..Len(pipe[f]) : CommandInv(f, i)'
    BY <1>1, <2>1 DEF CommandInv
  <2> QED
    BY <1>3, <2>1, <2>2, <2>3, <2>4
<1>7. CASE LoaderReads(f)
  <2>1. /\ UNCHANGED <<db, lock, lockTtl, floor, fenced, pipe, lease, leaseLeft, renewal, renewalLeft, call>>
        /\ pc[f] = "loading" /\ pc'[f] = "read" /\ loaded'[f] = db
    BY <1>0, <1>7 DEF LoaderReads, Goto
  <2>2. LeaderInv(f)'
    BY <1>1, <1>2, <2>1 DEF LeaderInv, Working
  <2>3. LeaseInv(f)'
    BY <1>1, <2>1 DEF LeaseInv, Covered
  <2>4. \A i \in 1..Len(pipe[f]) : CommandInv(f, i)'
    BY <1>1, <2>1 DEF CommandInv
  <2> QED
    BY <1>3, <2>1, <2>2, <2>3, <2>4
<1>8. CASE Renewed(f)
  <2>1. /\ UNCHANGED <<db, lock, lockTtl, floor, fenced, pipe, pc, loaded, lease, call, callLeft>>
        /\ lease[f] = "held" /\ renewal[f] = "yes" /\ renewal'[f] = "none"
        /\ leaseLeft'[f] = renewalLeft[f]
    BY <1>0, <1>8 DEF Renewed
  <2>2. LeaderInv(f)'
    BY <1>1, <2>1 DEF LeaderInv
  <2>3. LeaseInv(f)'
    BY <1>1, <2>1 DEF LeaseInv, Covered
  <2>4. \A i \in 1..Len(pipe[f]) : CommandInv(f, i)'
    BY <1>1, <2>1 DEF CommandInv
  <2> QED
    BY <1>3, <2>1, <2>2, <2>3, <2>4
<1>9. CASE LocalMutation(f)
  <2>1. UNCHANGED <<db, lock, lockTtl, floor, fenced, pipe, pc, loaded, leaseVars, wireVars>>
    BY <1>9 DEF LocalMutation
  <2>2. LeaderInv(f)' /\ LeaseInv(f)'
    BY <1>1, <2>1 DEF LeaderInv, LeaseInv, Covered
  <2>3. \A i \in 1..Len(pipe[f]) : CommandInv(f, i)'
    BY <1>1, <2>1 DEF CommandInv
  <2> QED
    BY <1>3, <2>1, <2>2, <2>3
<1> QED
  BY <1>4, <1>5, <1>6, <1>7, <1>8, <1>9
\* Steps that send a command.
LEMMA SendKeeps ==
  ASSUME TypeOK, NEW f \in Filler, LeaderOK(f),
         \/ StartFill(f) \/ PollMiss(f) \/ DispatchPublish(f) \/ StartRenewal(f)
  PROVE  LeaderOK(f)'
<1> USE DEF lockVars, patternVars, originVars, leaderVars, leaseVars, wireVars, histVars
<1> DEFINE n == Len(pipe[f])
<1>0. /\ pc \in [Filler -> Point]
      /\ renewal \in [Filler -> CallState] /\ renewalLeft \in [Filler -> 0..LockTtl]
      /\ call \in [Filler -> CallState] /\ PipeType /\ n \in Nat
      /\ db \in Nat /\ loaded[f] \in 0..MaxVersion
  BY OwnTypes, CommandType
<1>1. LeaderInv(f) /\ LeaseInv(f) /\ \A i \in 1..n : CommandInv(f, i)
  BY DEF LeaderOK, WireInv
<1> HIDE DEF n
<1>2. ASSUME NEW op \in Op, NEW val \in 0..MaxVersion, Send(f, op, val)
      PROVE  /\ Len(pipe'[f]) = n + 1
             /\ pipe'[f][n + 1].op = op /\ pipe'[f][n + 1].val = val
             /\ \A i \in 1..n : pipe'[f][i] = pipe[f][i]
             /\ \A i \in 1..(n + 1) : i = n + 1 \/ i \in 1..n
  <2>1. /\ Len(pipe'[f]) = n + 1
        /\ pipe'[f][n + 1] = [op |-> op, val |-> val, to |-> "caller"]
        /\ \A i \in 1..n : pipe'[f][i] = pipe[f][i]
    BY <1>0, <1>2, WireAfterSend DEF n
  <2> QED
    BY <1>0, <2>1
<1>3. CASE StartFill(f) \/ PollMiss(f)
  <2>1. /\ UNCHANGED <<db, lock, lockTtl, floor, fenced, loaded, lease, leaseLeft, renewal, renewalLeft>>
        /\ pc[f] \in {"idle", "poll"} /\ pc'[f] = "acquiring" /\ call'[f] \in {"sent", "error"}
    BY <1>0, <1>3 DEF StartFill, PollMiss, TryAcquire, Goto
  <2>2. LeaderInv(f)'
    BY <1>1, <2>1 DEF LeaderInv, Working
  <2>3. LeaseInv(f)'
    BY <1>1, <2>1 DEF LeaseInv, Covered, LeaderInv, Working
  <2>4. lease[f] = "none"
    BY <1>1, <2>1, OwnTypes DEF LeaderInv, Working
  <2>5. \A i \in 1..n : pipe[f][i].op # "publish" /\ pipe[f][i].op # "release"
    BY <1>1, <2>1 DEF CommandInv
  <2>6. \A i \in 1..n : pipe[f][i].op \in {"acquire", "renew"} => pipe[f][i].to # "caller"
    BY <1>1, <2>1, <2>4 DEF CommandInv
  <2>7. WireInv(f)'
    <3>1. CASE pipe' = pipe
      BY <2>1, <2>4, <2>5, <2>6, <3>1 DEF WireInv, CommandInv, n
    <3>2. CASE Send(f, "acquire", 0) /\ call'[f] = "sent"
      <4>1. /\ Len(pipe'[f]) = n + 1 /\ pipe'[f][n + 1].op = "acquire"
            /\ \A i \in 1..n : pipe'[f][i] = pipe[f][i]
            /\ \A i \in 1..(n + 1) : i = n + 1 \/ i \in 1..n
        BY <1>2, <3>2 DEF Op
      <4>2. \A i \in 1..(n + 1) : pipe'[f][i].op # "publish" /\ pipe'[f][i].op # "release"
        BY <2>5, <4>1
      <4>3. \A i \in 1..(n + 1) :
              pipe'[f][i].op \in {"acquire", "renew"} /\ pipe'[f][i].to = "caller"
                => i = n + 1 /\ pipe'[f][i].op = "acquire"
        BY <2>6, <4>1
      <4> QED
        BY <2>1, <2>4, <3>2, <4>1, <4>2, <4>3 DEF WireInv, CommandInv
    <3> QED
      BY <1>0, <1>3, <3>1, <3>2 DEF StartFill, PollMiss, TryAcquire
  <2> QED
    BY <2>2, <2>3, <2>7 DEF LeaderOK
<1>4. CASE DispatchPublish(f)
  <2>1. /\ UNCHANGED <<db, lock, lockTtl, floor, fenced, loaded, lease, leaseLeft, renewal, renewalLeft>>
        /\ pc[f] = "publish" /\ pc'[f] = "publishing" /\ call'[f] = "sent" /\ lease[f] = "held"
        /\ Send(f, "publish", loaded[f])
    BY <1>0, <1>4 DEF DispatchPublish, Goto
  <2>2. LeaderInv(f)'
    BY <1>1, <2>1 DEF LeaderInv, Working
  <2>3. LeaseInv(f)'
    BY <1>1, <2>1 DEF LeaseInv, Covered
  <2>4. /\ Len(pipe'[f]) = n + 1 /\ pipe'[f][n + 1].op = "publish" /\ pipe'[f][n + 1].val = loaded[f]
        /\ \A i \in 1..n : pipe'[f][i] = pipe[f][i]
        /\ \A i \in 1..(n + 1) : i = n + 1 \/ i \in 1..n
    BY <1>0, <1>2, <2>1 DEF Op
  <2>5. loaded[f] \in 1..db /\ (lock = f => loaded[f] >= floor)
    BY <1>0, <1>1, <2>1 DEF LeaderInv
  <2>6. \A i \in 1..n : pipe[f][i].op \notin {"acquire", "release", "publish"}
    BY <1>1, <2>1 DEF CommandInv
  <2>7. WireInv(f)'
    BY <2>1, <2>4, <2>5, <2>6 DEF WireInv, CommandInv
  <2> QED
    BY <2>2, <2>3, <2>7 DEF LeaderOK
<1>5. CASE StartRenewal(f)
  <2>1. /\ UNCHANGED <<db, lock, lockTtl, floor, fenced, pc, loaded, lease, leaseLeft, call, callLeft>>
        /\ lease[f] = "held" /\ renewal'[f] = "sent" /\ Send(f, "renew", 0)
    BY <1>0, <1>5 DEF StartRenewal
  <2>2. LeaderInv(f)'
    BY <1>1, <2>1 DEF LeaderInv, Working
  <2>3. LeaseInv(f)'
    BY <1>1, <2>1 DEF LeaseInv, Covered
  <2>4. /\ Len(pipe'[f]) = n + 1 /\ pipe'[f][n + 1].op = "renew"
        /\ \A i \in 1..n : pipe'[f][i] = pipe[f][i]
        /\ \A i \in 1..(n + 1) : i = n + 1 \/ i \in 1..n
    BY <1>2, <2>1 DEF Op
  <2>5. \A i \in 1..n : pipe[f][i].op # "acquire"
    BY <1>1, <2>1 DEF CommandInv
  <2>6. WireInv(f)'
    BY <1>1, <2>1, <2>4, <2>5 DEF WireInv, CommandInv
  <2> QED
    BY <2>2, <2>3, <2>6 DEF LeaderOK
<1> QED
  BY <1>3, <1>4, <1>5

\* Steps after which nobody awaits a command.
LEMMA UnawaitedKeeps ==
  ASSUME TypeOK, NEW f \in Filler, LeaderOK(f), AcquireUnknown(f) \/ LoseLease(f)
  PROVE  LeaderOK(f)'
<1> USE DEF lockVars, patternVars, originVars, leaderVars, leaseVars, wireVars, histVars
<1> DEFINE n == Len(pipe[f])
<1>0. /\ pc \in [Filler -> Point]
      /\ lease \in [Filler -> LeaseState] /\ leaseLeft \in [Filler -> 0..LockTtl]
      /\ renewal \in [Filler -> CallState] /\ renewalLeft \in [Filler -> 0..LockTtl]
      /\ call \in [Filler -> CallState] /\ PipeType /\ n \in Nat
  BY OwnTypes, CommandType
<1>1. LeaderInv(f) /\ LeaseInv(f) /\ \A i \in 1..n : CommandInv(f, i)
  BY DEF LeaderOK, WireInv
<1>2. ASSUME NEW ops, pipe'[f] = Unawaited(pipe[f], ops)
      PROVE  /\ Len(pipe'[f]) = n
             /\ \A i \in 1..n :
                  /\ pipe'[f][i].op = pipe[f][i].op /\ pipe'[f][i].val = pipe[f][i].val
                  /\ pipe'[f][i].to = "caller" => pipe[f][i].to = "caller" /\ pipe[f][i].op \notin ops
  BY <1>0, <1>2, CommandType, UnawaitedFacts
<1> HIDE DEF n
<1>3. CASE AcquireUnknown(f)
  <2>1. /\ UNCHANGED <<db, lock, lockTtl, floor, fenced, loaded, lease, leaseLeft, renewal, renewalLeft>>
        /\ pc[f] = "acquiring" /\ pc'[f] \in {"poll", "queued"} /\ call'[f] = "none"
    BY <1>0, <1>3 DEF AcquireUnknown, LeaveLoop, Goto
  <2>2. pipe'[f] = Unawaited(pipe[f], {"acquire"})
    BY <1>0, <1>3 DEF AcquireUnknown, PipeType
  <2>3. LeaderInv(f)'
    BY <1>1, <2>1 DEF LeaderInv, Working
  <2>4. LeaseInv(f)'
    BY <1>1, <2>1 DEF LeaseInv, Covered
  <2>5. /\ Len(pipe'[f]) = n
        /\ \A i \in 1..n :
             /\ pipe'[f][i].op = pipe[f][i].op /\ pipe'[f][i].val = pipe[f][i].val
             /\ pipe'[f][i].to = "caller" => pipe[f][i].to = "caller" /\ pipe[f][i].op # "acquire"
    BY <1>2, <2>2
  <2>6. WireInv(f)'
    BY <1>1, <2>1, <2>5 DEF WireInv, CommandInv, n
  <2> QED
    BY <2>3, <2>4, <2>6 DEF LeaderOK
<1>4. CASE LoseLease(f)
  <2>1. /\ UNCHANGED <<db, lock, lockTtl, floor, fenced, pc, loaded, call, callLeft>>
        /\ lease[f] = "held" /\ lease'[f] = "lost" /\ renewal'[f] = "none"
    BY <1>0, <1>4 DEF LoseLease
  <2>2. pipe'[f] = Unawaited(pipe[f], {"renew"})
    BY <1>0, <1>4 DEF LoseLease, PipeType
  <2>3. LeaderInv(f)'
    BY <1>1, <2>1 DEF LeaderInv
  <2>4. LeaseInv(f)'
    BY <1>1, <2>1 DEF LeaseInv, Covered
  <2>5. /\ Len(pipe'[f]) = n
        /\ \A i \in 1..n :
             /\ pipe'[f][i].op = pipe[f][i].op /\ pipe'[f][i].val = pipe[f][i].val
             /\ pipe'[f][i].to = "caller" => pipe[f][i].op # "renew"
    BY <1>2, <2>2
  <2>6. \A i \in 1..n : pipe[f][i].op # "acquire"
    BY <1>1, <2>1 DEF CommandInv
  <2>7. WireInv(f)'
    BY <1>1, <2>1, <2>5, <2>6 DEF WireInv, CommandInv
  <2> QED
    BY <2>3, <2>4, <2>7 DEF LeaderOK
<1> QED
  BY <1>3, <1>4

\* Steps in which Redis executes a command of f, or never will.
LEMMA ExecKeeps ==
  ASSUME TypeOK, NEW f \in Filler, LeaderOK(f), Wire(f)
  PROVE  LeaderOK(f)'
<1> USE DEF lockVars, patternVars, originVars, leaderVars, leaseVars, wireVars, histVars
<1> DEFINE n == Len(pipe[f])
           c == Head(pipe[f])
<1>0. /\ renewal \in [Filler -> CallState] /\ renewalLeft \in [Filler -> 0..LockTtl]
      /\ call \in [Filler -> CallState] /\ callLeft \in [Filler -> 0..LockTtl]
      /\ leaseLeft \in [Filler -> 0..LockTtl]
      /\ PipeType /\ n \in Nat /\ lockTtl \in 0..LockTtl
      /\ f # None
  BY OwnTypes, CommandType
<1>1. LeaderInv(f) /\ LeaseInv(f) /\ \A i \in 1..n : CommandInv(f, i)
  BY DEF LeaderOK, WireInv
<1>2. ASSUME pipe[f] # <<>>, Taken(f)
      PROVE  /\ 1 \in 1..n /\ c = pipe[f][1] /\ CommandInv(f, 1)
             /\ Len(pipe'[f]) = n - 1
             /\ \A i \in 1..(n - 1) : i + 1 \in 1..n /\ pipe'[f][i] = pipe[f][i + 1]
             /\ \A i \in 1..(n - 1) : CommandInv(f, i + 1)
  BY <1>0, <1>1, <1>2, WireAfterTake
<1> HIDE DEF n, c
<1>3. CASE ExecAcquire(f)
  <2>0. pipe[f] # <<>> /\ Taken(f) /\ c.op = "acquire"
    BY <1>3 DEF ExecAcquire, NextCommand, c
  <2>1. /\ UNCHANGED <<db, floor, pc, loaded, lease, leaseLeft, renewal, renewalLeft, callLeft>>
        /\ c.to # "caller" => call'[f] = call[f]
        /\ call'[f] = "yes" /\ c.to = "caller" => lock = None
        /\ lock = None => lock' = f /\ lockTtl' = LockTtl
    BY <1>0, <1>3 DEF ExecAcquire, Reply, c
  <2>2. /\ lease[f] = "none"
        /\ c.to = "caller" => n = 1
        /\ ~(pc[f] = "acquiring" /\ call[f] \in {"yes", "no"})
        /\ \A j \in 1..n : pipe[f][j].op # "publish"
    BY <1>2, <2>0 DEF CommandInv, n
  <2>3. LeaderInv(f)'
    BY <1>1, <2>1, <2>2 DEF LeaderInv
  <2>4. LeaseInv(f)'
    BY <1>0, <1>1, <2>1, <2>2 DEF LeaseInv, Covered, LeaderInv
  <2>5. WireInv(f)'
    <3> SUFFICES ASSUME NEW i \in 1..(n - 1) PROVE CommandInv(f, i)'
      BY <1>2, <2>0 DEF WireInv
    <3>1. /\ CommandInv(f, i + 1) /\ i + 1 \in 1..n /\ pipe'[f][i] = pipe[f][i + 1]
          /\ Len(pipe'[f]) = n - 1
      BY <1>2, <2>0
    <3>2. c.to # "caller"
      BY <1>0, <2>2
    <3>3. \A j \in 1..(n - 1) : pipe'[f][j].op # "publish"
      BY <1>2, <2>0, <2>2
    <3>4. (i + 1 = n) => (i = n - 1)
      BY <1>0
    <3> QED
      BY <2>1, <2>2, <3>1, <3>2, <3>3, <3>4 DEF CommandInv, n
  <2> QED
    BY <2>3, <2>4, <2>5 DEF LeaderOK
<1>4. CASE ExecRenew(f)
  <2>0. pipe[f] # <<>> /\ Taken(f) /\ c.op = "renew"
    BY <1>4 DEF ExecRenew, NextCommand, c
  <2>1. /\ UNCHANGED <<db, lock, floor, fenced, pc, loaded, lease, leaseLeft, renewalLeft, call, callLeft>>
        /\ c.to # "caller" => renewal'[f] = renewal[f]
        /\ c.to = "caller" => (renewal'[f] = "yes" => lock = f)
        /\ lockTtl' = IF lock = f THEN LockTtl ELSE lockTtl
    BY <1>0, <1>4 DEF ExecRenew, Reply, c
  <2>2. c.to = "caller" => lease[f] = "held"
    BY <1>2, <2>0 DEF CommandInv
  <2>3. LeaderInv(f)'
    BY <1>1, <2>1, <2>2 DEF LeaderInv
  <2>4. LeaseInv(f)'
    BY <1>0, <1>1, <2>1 DEF LeaseInv, Covered
  <2>5. WireInv(f)'
    <3> SUFFICES ASSUME NEW i \in 1..(n - 1) PROVE CommandInv(f, i)'
      BY <1>2, <2>0 DEF WireInv
    <3>1. /\ CommandInv(f, i + 1) /\ i + 1 \in 1..n /\ pipe'[f][i] = pipe[f][i + 1]
          /\ Len(pipe'[f]) = n - 1
          /\ \A j \in 1..(n - 1) : j + 1 \in 1..n /\ pipe'[f][j] = pipe[f][j + 1]
      BY <1>2, <2>0
    <3>2. (i + 1 = n) => (i = n - 1)
      BY <1>0
    <3> QED
      BY <2>1, <3>1, <3>2 DEF CommandInv, n
  <2> QED
    BY <2>3, <2>4, <2>5 DEF LeaderOK
<1>5. CASE ExecPublish(f)
  <2>0. pipe[f] # <<>> /\ Taken(f) /\ c.op = "publish"
    BY <1>5 DEF ExecPublish, NextCommand, c
  <2>1. UNCHANGED <<db, lock, lockTtl, floor, fenced, pc, loaded, lease, leaseLeft, renewal, renewalLeft>>
    BY <1>5 DEF ExecPublish
  <2>2. pc[f] \in {"publishing", "done"}
    BY <1>2, <2>0 DEF CommandInv
  <2>3. LeaderInv(f)'
    BY <1>1, <2>1 DEF LeaderInv
  <2>4. LeaseInv(f)'
    BY <1>1, <2>1, <2>2 DEF LeaseInv, Covered
  <2>5. \A j \in 1..n : pipe[f][j].op # "acquire"
    BY <1>1, <1>2, <2>0 DEF CommandInv, n
  <2>6. WireInv(f)'
    <3> SUFFICES ASSUME NEW i \in 1..(n - 1) PROVE CommandInv(f, i)'
      BY <1>2, <2>0 DEF WireInv
    <3>1. CommandInv(f, i + 1) /\ i + 1 \in 1..n /\ pipe'[f][i] = pipe[f][i + 1]
      BY <1>2, <2>0
    <3> QED
      BY <2>1, <2>5, <3>1 DEF CommandInv
  <2> QED
    BY <2>3, <2>4, <2>6 DEF LeaderOK
<1>6. CASE ExecRelease(f)
  <2>0. pipe[f] # <<>> /\ Taken(f) /\ c.op = "release"
    BY <1>6 DEF ExecRelease, NextCommand, c
  <2>1. /\ UNCHANGED <<db, floor, fenced, pc, loaded, lease, leaseLeft, renewal, renewalLeft, call, callLeft>>
        /\ lock' = f => lock = f
    BY <1>0, <1>6 DEF ExecRelease
  <2>2. pc[f] = "done" /\ lease[f] = "none" /\ renewal[f] = "none"
    BY <1>1, <1>2, <2>0, OwnTypes DEF CommandInv, LeaderInv, Working
  <2>3. LeaderInv(f)' /\ LeaseInv(f)'
    BY <1>1, <2>1, <2>2 DEF LeaderInv, LeaseInv
  <2>4. WireInv(f)'
    <3> SUFFICES ASSUME NEW i \in 1..(n - 1) PROVE CommandInv(f, i)'
      BY <1>2, <2>0 DEF WireInv
    <3>1. /\ CommandInv(f, i + 1) /\ i + 1 \in 1..n /\ pipe'[f][i] = pipe[f][i + 1]
          /\ \A j \in 1..(n - 1) : j + 1 \in 1..n /\ pipe'[f][j] = pipe[f][j + 1]
          /\ Len(pipe'[f]) = n - 1
      BY <1>2, <2>0
    <3> QED
      BY <2>1, <2>2, <3>1 DEF CommandInv, n
  <2> QED
    BY <2>3, <2>4 DEF LeaderOK
<1>7. CASE Disconnect(f)
  <2>1. /\ UNCHANGED <<db, lock, lockTtl, floor, fenced, pc, loaded, lease, leaseLeft, renewalLeft, callLeft>>
        /\ renewal[f] = "none" => renewal'[f] = "none"
        /\ renewal'[f] = "yes" => renewal[f] = "yes"
        /\ call'[f] = "yes" => call[f] = "yes"
    BY <1>0, <1>7 DEF Disconnect, Failed
  <2>2. Len(pipe'[f]) = 0
    BY <1>0, <1>7 DEF Disconnect, PipeType
  <2>3. LeaderInv(f)' /\ LeaseInv(f)'
    BY <1>1, <2>1 DEF LeaderInv, LeaseInv, Covered
  <2>4. WireInv(f)'
    BY <2>2 DEF WireInv
  <2> QED
    BY <2>3, <2>4 DEF LeaderOK
<1> QED
  BY <1>3, <1>4, <1>5, <1>6, <1>7 DEF Wire
-----------------------------------------------------------------------------
(* The inductive invariant, and what follows from it. *)

\* The initial states satisfy the inductive invariant.
LEMMA IndInit == Init => IndInv
<1> SUFFICES ASSUME Init PROVE IndInv
  OBVIOUS
<1>1. TypeOK
  BY TypeInit
<1>2. EntryInv
  BY DEF Init, EntryInv, NoStaleFill, Absent
<1>3. ASSUME NEW f \in Filler PROVE LeaderInv(f) /\ WireInv(f) /\ LeaseInv(f)
  <2>1. LeaderInv(f)
    BY DEF Init, LeaderInv
  <2>2. WireInv(f)
    BY DEF Init, WireInv
  <2>3. LeaseInv(f)
    BY DEF Init, LeaseInv
  <2> QED
    BY <2>1, <2>2, <2>3
<1> QED
  BY <1>1, <1>2, <1>3 DEF IndInv

\* Whatever leader f does keeps the invariant of f.
LEMMA OwnKeeps ==
  ASSUME TypeOK, floor <= db, NEW f \in Filler, LeaderOK(f),
         Leader(f) \/ Wire(f) \/ LeaseTimer(f) \/ LocalMutation(f) \/ ProcessStops(f)
  PROVE  LeaderOK(f)'
<1>1. CASE Finish(f)
  BY <1>1, FinishKeeps
<1>2. CASE \/ Acquired(f) \/ Contended(f) \/ RecheckMiss(f) \/ LoaderReads(f) \/ LoaderSettles(f)
           \/ PollTimeout(f) /\ OnTimeout = "load"
           \/ Renewed(f) \/ LocalMutation(f)
  BY <1>2, QuietKeeps
<1>3. CASE StartFill(f) \/ PollMiss(f) \/ DispatchPublish(f) \/ StartRenewal(f)
  BY <1>3, SendKeeps
<1>4. CASE AcquireUnknown(f) \/ LoseLease(f)
  BY <1>4, UnawaitedKeeps
<1>5. CASE Wire(f)
  BY <1>5, ExecKeeps
<1>6. CASE ProcessStops(f)
  BY <1>6, StopKeeps
<1>7. PollTimeout(f) => Finish(f) \/ OnTimeout = "load"
  BY DEF PollTimeout
<1>8. \/ PollHit(f) \/ RecheckHit(f) \/ LoaderUnpublished(f) \/ FillFails(f)
      \/ PublishSkipped(f) \/ PublishSettles(f)
      => Finish(f)
  BY DEF PollHit, RecheckHit, LoaderUnpublished, FillFails, PublishSkipped, PublishSettles
<1> QED
  BY <1>1, <1>2, <1>3, <1>4, <1>5, <1>6, <1>7, <1>8 DEF Leader, LeaseTimer

\* Every step preserves the inductive invariant.
LEMMA IndNext == IndInv /\ [Next]_vars => IndInv'
<1> SUFFICES ASSUME IndInv, [Next]_vars PROVE IndInv'
  OBVIOUS
<1>1. TypeOK /\ EntryInv /\ floor <= db /\ \A g \in Filler : LeaderOK(g)
  BY DEF IndInv, EntryInv, LeaderOK
<1>2. TypeOK'
  BY <1>1, TypeNext
<1>3. EntryInv'
  BY <1>1, <1>2, StepSimulation, EntryNextKeeps
<1>4. ASSUME NEW g \in Filler PROVE LeaderOK(g)'
  <2>1. LeaderOK(g)
    BY <1>1
  <2>2. CASE \/ DirectDelete \/ DirectSet \/ DataExpires \/ PatternCalled
             \/ DeletePatternData \/ FencePatternLeases \/ OriginWrite
    <3>1. Frame(g)
      BY <1>1, <2>2, SharedFrame
    <3> QED
      BY <1>1, <1>2, <2>1, <3>1, FrameKeeps
  <2>3. CASE Tick
    BY <1>1, <1>2, <2>1, <2>3, TickKeeps
  <2>4. ASSUME NEW f \in Filler,
               Leader(f) \/ Wire(f) \/ LeaseTimer(f) \/ LocalMutation(f) \/ ProcessStops(f)
        PROVE  LeaderOK(g)'
    <3>1. CASE g = f
      BY <1>1, <2>1, <2>4, <3>1, OwnKeeps
    <3>2. CASE g # f
      <4>1. Frame(g)
        BY <1>1, <2>4, <3>2, OtherFrame
      <4> QED
        BY <1>1, <1>2, <2>1, <4>1, FrameKeeps
    <3> QED
      BY <3>1, <3>2
  <2>5. CASE UNCHANGED vars
    <3>1. Frame(g)
      BY <1>1, <2>5 DEF Frame, vars, originVars, lockVars, leaderVars, leaseVars, wireVars, histVars,
                        TypeOK, OriginType, Version
    <3> QED
      BY <1>1, <1>2, <2>1, <3>1, FrameKeeps
  <2> QED
    BY <2>2, <2>3, <2>4, <2>5 DEF Next
<1> QED
  BY <1>2, <1>3, <1>4 DEF IndInv, LeaderOK

\* The inductive invariant holds in every reachable state.
THEOREM Inductive == Spec => []IndInv
  BY IndInit, IndNext, PTL DEF Spec

\* No fill undoes an invalidation: for any number of leaders, any lock TTL and any
\* interleaving of expiry, takeover, late commands and lost replies.
THEOREM FillsAreFresh == Spec => []NoStaleFill
<1>1. IndInv => NoStaleFill
  BY DEF IndInv, EntryInv
<1> QED
  BY <1>1, Inductive, PTL

\* A lease a process believes in is covered by its lock in Redis, or was fenced.
THEOREM LeasesAreSound == Spec => []LeaseSound
<1>1. IndInv => LeaseSound
  BY DEF IndInv, LeaseSound, LeaseInv, Covered
<1> QED
  BY <1>1, Inductive, PTL

\* The lease protocol implements the fenced entry.
THEOREM Refinement == Spec => ImplementsEntry
<1>1. Init => Entry!EntryInit
  BY DEF Init, Entry!EntryInit, Entry!Absent, Absent
<1> QED
  BY <1>1, Inductive, StepSimulation, PTL DEF Spec, ImplementsEntry, Entry!EntrySpec
=============================================================================
