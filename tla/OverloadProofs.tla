--------------------------- MODULE OverloadProofs ---------------------------
(***************************************************************************)
(* TLAPS proofs about Overload: for any set of calls, any sizes and limits,  *)
(* the gates' counters say what is really there, both gates implement        *)
(* AdmissionGate, and the L2 breaker is settled by its probe.                *)
(***************************************************************************)
EXTENDS Overload, Queues

-----------------------------------------------------------------------------
(* The gates in front of Redis *)

\* A call that waits is not running and its caller waits; a running call's caller waits or
\* was told that its time is over.
GateShape ==
  /\ Len(queue) <= MaxQueued /\ Distinct(queue)
  /\ \A c \in Members(queue) : caller[c] = "waiting" /\ c \notin running
  /\ \A c \in running : caller[c] \in {"waiting", "timedOut"}

GateInv == Gate!TypeOK /\ Gate!CountersExact /\ Gate!NoIdleSlot /\ GateShape

\* The operators the gate takes from FiniteSets, SequencesExt and Queues are those used here.
LEMMA GateCounts ==
  ASSUME NEW S
  PROVE  /\ Gate!IsFiniteSet(S) = IsFiniteSet(S)
         /\ Gate!Cardinality(S) = Cardinality(S)
         /\ Gate!Sum(S) = Total(Bytes, S)
<1>1. Gate!IsFiniteSet(S) = IsFiniteSet(S)
  BY DEF Gate!IsFiniteSet, IsFiniteSet
<1>2. ASSUME NEW T PROVE Gate!Cardinality(T) = Cardinality(T)
  BY DEF Gate!Cardinality, Cardinality
<1>3. Gate!Units(Bytes, S) = Units(Bytes, S)
  BY DEF Gate!Units, Units
<1>4. Gate!Sum(S) = Total(Bytes, S)
  BY <1>2, <1>3, Zenon DEF Gate!Sum, Gate!Total, Total
<1> QED
  BY <1>1, <1>2, <1>4

LEMMA GateMembers ==
  ASSUME NEW s \in Seq(Call)
  PROVE  Gate!ToSet(s) = Members(s)
BY DEF Gate!ToSet, Members

LEMMA GateConstants ==
  /\ IsFiniteSet(Call) /\ Bytes \in [Call -> Nat]
  /\ MaxConcurrent \in Nat \ {0} /\ MaxQueued \in Nat /\ MaxQueuedBytes \in Nat
BY OverloadAssumption, GateCounts DEF Gate!OperationGateAssumption

\* The calls that run, and the calls that wait, are finitely many and have sizes.
LEMMA GateFinite ==
  ASSUME Gate!TypeOK
  PROVE  /\ IsFiniteSet(running) /\ \A c \in running : Bytes[c] \in Nat
         /\ IsFiniteSet(Members(queue)) /\ \A c \in Members(queue) : Bytes[c] \in Nat
         /\ Members(queue) \subseteq Call
<1>1. running \subseteq Call /\ queue \in Seq(Call)
  BY DEF Gate!TypeOK
<1>2. IsFiniteSet(running)
  BY <1>1, GateConstants, FS_Subset
<1> QED
  BY <1>1, <1>2, GateConstants, MembersFinite

\* indexOf and splice take one call out of the queue.
LEMMA GateWithout ==
  ASSUME NEW s \in Seq(Call), Distinct(s), NEW c \in Members(s)
  PROVE  /\ Gate!Without(s, c) \in Seq(Call) /\ Len(Gate!Without(s, c)) = Len(s) - 1
         /\ Distinct(Gate!Without(s, c))
         /\ Members(Gate!Without(s, c)) = Members(s) \ {c}
         /\ LeftOf(Gate!Without(s, c), s, {c})
<1> DEFINE p == Gate!IndexOf(s, c)
<1>1. p \in 1..Len(s) /\ s[p] = c
  <2>1. \E i \in 1..Len(s) : s[i] = c
    BY DEF Members
  <2> QED  BY <2>1 DEF Gate!IndexOf
<1>2. Gate!Without(s, c) = Removed(s, p)
  BY DEF Gate!Without, Gate!RemoveAt, Removed
<1> HIDE DEF p
<1>3. /\ Removed(s, p) \in Seq(Call) /\ Len(Removed(s, p)) = Len(s) - 1
      /\ Distinct(Removed(s, p))
      /\ Members(Removed(s, p)) = Members(s) \ {s[p]}
      /\ LeftOf(Removed(s, p), s, {s[p]})
  BY <1>1, RemovedPlaces, RemovedLeaves
<1> QED
  BY <1>1, <1>2, <1>3, Zenon

LEMMA GateInit == Gate!Init => GateInv
<1> SUFFICES ASSUME Gate!Init PROVE GateInv
  OBVIOUS
<1>1. queue \in Seq(Call) /\ Members(queue) = {} /\ running = {}
  BY DEF Gate!Init, Members
<1>2. Gate!CountersExact
  BY <1>1, GateMembers, GateCounts, TotalOfNone, FS_EmptySet DEF Gate!Init, Gate!CountersExact
<1>3. GateShape
  BY <1>1, GateConstants DEF Gate!Init, GateShape, Distinct
<1>4. caller \in [Call -> {"new", "waiting"} \cup Gate!Settled]
  BY DEF Gate!Init
<1>5. Gate!TypeOK
  <2>1. deadlines \in BOOLEAN /\ closed \in BOOLEAN
    BY DEF Gate!Init
  <2>2. active \in 0..MaxConcurrent /\ activeBytes \in Nat /\ queuedBytes \in 0..MaxQueuedBytes
    BY GateConstants DEF Gate!Init
  <2>3. running \subseteq Call /\ late \subseteq Call
    BY DEF Gate!Init
  <2> QED  BY <1>1, <1>4, <2>1, <2>2, <2>3 DEF Gate!TypeOK
<1>6. Gate!NoIdleSlot
  BY DEF Gate!Init, Gate!NoIdleSlot
<1> QED
  BY <1>2, <1>3, <1>5, <1>6 DEF GateInv

\* run() that is refused, an answer that nobody waits for, a deadline that passes: queue
\* and counters stay as they are.
LEMMA GateIdle ==
  ASSUME GateInv,
         UNCHANGED <<deadlines, queue, active, activeBytes, queuedBytes, closed, running>>,
         caller' \in [Call -> {"new", "waiting"} \cup Gate!Settled], late' \subseteq Call,
         \A c \in Members(queue) : caller'[c] = caller[c],
         \A c \in running : caller'[c] \in {"waiting", "timedOut"}
  PROVE  GateInv'
<1>1. Gate!TypeOK'
  BY DEF GateInv, Gate!TypeOK
<1>2. Gate!CountersExact'
  BY DEF GateInv, Gate!CountersExact
<1>3. Gate!NoIdleSlot'
  BY DEF GateInv, Gate!NoIdleSlot
<1>4. GateShape'
  BY DEF GateInv, GateShape
<1> QED
  BY <1>1, <1>2, <1>3, <1>4 DEF GateInv

LEMMA GateRun ==
  ASSUME GateInv, UNCHANGED deadlines, NEW c \in Call, Gate!Run(c)
  PROVE  GateInv'
<1> USE DEF GateInv
<1>1. caller[c] = "new" /\ c \notin running /\ c \notin Members(queue)
  BY DEF Gate!Run, GateShape
<1>5. Bytes[c] \in Nat
  BY GateConstants
<1>2. CASE \E how \in {"closed", "refused"} : Gate!Refuse(c, how)
  <2>1. PICK how \in {"closed", "refused"} : Gate!Refuse(c, how)
    BY <1>2
  <2> QED  BY <1>1, <2>1, GateIdle DEF Gate!Refuse, Gate!Answer, Gate!TypeOK, Gate!Settled, Gate!Refused, GateShape
<1>3. CASE /\ active < MaxConcurrent /\ queue = <<>> /\ ~closed
           /\ Gate!Answer(c, "waiting")
           /\ running' = running \cup {c}
           /\ active' = active + 1
           /\ activeBytes' = activeBytes + Bytes[c]
           /\ UNCHANGED <<queue, queuedBytes, closed, late>>
  <2>1. Gate!TypeOK'
    BY <1>3, <1>5, GateConstants DEF Gate!TypeOK, Gate!Answer
  <2>2. Gate!CountersExact'
    <3>1. Cardinality(running \cup {c}) = Cardinality(running) + 1
      BY <1>1, GateFinite, FS_AddElement
    <3>2. Total(Bytes, running \cup {c}) = Total(Bytes, running) + Bytes[c]
      BY <1>1, GateFinite, GateConstants, TotalAdd
    <3> QED  BY <1>3, <3>1, <3>2, GateCounts DEF Gate!CountersExact
  <2>3. Gate!NoIdleSlot'
    BY <1>3 DEF Gate!NoIdleSlot
  <2>4. GateShape'
    BY <1>1, <1>3 DEF GateShape, Gate!Answer, Gate!TypeOK
  <2> QED  BY <2>1, <2>2, <2>3, <2>4
<1>4. CASE /\ ~(active < MaxConcurrent /\ queue = <<>>) /\ ~closed
           /\ ~(Len(queue) >= MaxQueued) /\ ~(queuedBytes + Bytes[c] > MaxQueuedBytes)
           /\ Gate!Answer(c, "waiting")
           /\ queue' = Append(queue, c)
           /\ queuedBytes' = queuedBytes + Bytes[c]
           /\ UNCHANGED <<active, activeBytes, closed, running, late>>
  <2>1. Gate!TypeOK'
    BY <1>4, <1>5, GateConstants, SMTT(60) DEF Gate!TypeOK, Gate!Answer
  <2>2. Members(queue') = Members(queue) \cup {c} /\ Distinct(queue') /\ Len(queue') = Len(queue) + 1
    BY <1>1, <1>4 DEF Members, Distinct, GateShape, Gate!TypeOK
  <2>3. Gate!CountersExact'
    <3>1. Total(Bytes, Members(queue) \cup {c}) = Total(Bytes, Members(queue)) + Bytes[c]
      BY <1>1, GateFinite, GateConstants, TotalAdd
    <3>2. Gate!ToSet(queue) = Members(queue) /\ Gate!ToSet(queue') = Members(queue')
      BY <2>1, GateMembers DEF Gate!TypeOK
    <3>3. Gate!ToSet(queue)' = Members(queue')
      BY <3>2
    <3> QED  BY <1>4, <2>2, <3>1, <3>2, GateCounts DEF Gate!CountersExact
  <2>4. Gate!NoIdleSlot'
    BY <1>4, GateConstants DEF Gate!NoIdleSlot, Gate!TypeOK
  <2>5. GateShape'
    BY <1>1, <1>4, <2>2, GateConstants DEF GateShape, Gate!Answer, Gate!TypeOK
  <2> QED  BY <2>1, <2>3, <2>4, <2>5
<1> QED
  BY <1>2, <1>3, <1>4 DEF Gate!Run

\* A call leaves the queue for its timer or its abort signal.
LEMMA GateLeave ==
  ASSUME GateInv, UNCHANGED deadlines, NEW c \in Call,
         NEW how \in {"expired", "cancelled"}, Gate!Leave(c, how)
  PROVE  GateInv'
<1> USE DEF GateInv
<1>1. queue \in Seq(Call) /\ Gate!ToSet(queue) = Members(queue)
  BY GateMembers DEF Gate!TypeOK
<1>2. c \in Members(queue) /\ c \notin running
  BY <1>1 DEF Gate!Leave, GateShape
<1>3. /\ queue' \in Seq(Call) /\ Len(queue') = Len(queue) - 1 /\ Distinct(queue')
      /\ Members(queue') = Members(queue) \ {c}
  BY <1>1, <1>2, GateWithout DEF Gate!Leave, GateShape
<1>4. /\ Total(Bytes, Members(queue) \ {c}) = Total(Bytes, Members(queue)) - Bytes[c]
      /\ Total(Bytes, Members(queue) \ {c}) \in Nat
  BY <1>2, GateFinite, TotalRemove
<1>5. queuedBytes = Total(Bytes, Members(queue))
  BY <1>1, GateCounts DEF Gate!CountersExact
<1>6. Bytes[c] \in Nat
  BY GateConstants
<1>7. Gate!TypeOK'
  <2>1. queuedBytes' \in 0..MaxQueuedBytes
    BY <1>4, <1>5, <1>6, GateConstants DEF Gate!Leave, Gate!TypeOK
  <2>2. caller' \in [Call -> {"new", "waiting"} \cup Gate!Settled]
    BY DEF Gate!Leave, Gate!Answer, Gate!TypeOK, Gate!Settled, Gate!Refused
  <2> QED  BY <1>3, <2>1, <2>2 DEF Gate!Leave, Gate!TypeOK
<1>8. Gate!CountersExact'
  <2>1. Gate!ToSet(queue') = Members(queue')
    BY <1>3, GateMembers
  <2> QED  BY <1>3, <1>4, <1>5, <2>1, GateCounts DEF Gate!Leave, Gate!CountersExact
<1>9. Gate!NoIdleSlot'
  <2>1. queue # <<>>
    BY <1>1, <1>2 DEF Members
  <2> QED  BY <2>1 DEF Gate!Leave, Gate!NoIdleSlot
<1>10. GateShape'
  BY <1>2, <1>3, GateConstants DEF Gate!Leave, Gate!Answer, Gate!TypeOK, GateShape
<1> QED
  BY <1>7, <1>8, <1>9, <1>10

LEMMA GateClose ==
  ASSUME GateInv, UNCHANGED deadlines, Gate!Close
  PROVE  GateInv'
<1> USE DEF GateInv
<1>1. queue \in Seq(Call) /\ Gate!ToSet(queue) = Members(queue)
  BY GateMembers DEF Gate!TypeOK
<1>2. queue' \in Seq(Call) /\ Members(queue') = {} /\ Distinct(queue') /\ Len(queue') = 0
  BY DEF Gate!Close, Members, Distinct
<1>3. Gate!TypeOK'
  <2>1. caller' \in [Call -> {"new", "waiting"} \cup Gate!Settled]
    BY DEF Gate!Close, Gate!TypeOK, Gate!Settled, Gate!Refused
  <2> QED  BY <1>2, <2>1, GateConstants DEF Gate!Close, Gate!TypeOK
<1>4. Gate!CountersExact'
  <2>1. Gate!ToSet(queue') = {}
    BY <1>2, GateMembers
  <2> QED  BY <2>1, GateCounts, TotalOfNone DEF Gate!Close, Gate!CountersExact
<1>5. Gate!NoIdleSlot'
  BY DEF Gate!Close, Gate!NoIdleSlot
<1>6. GateShape'
  BY <1>1, <1>2, GateConstants DEF Gate!Close, Gate!TypeOK, GateShape
<1> QED
  BY <1>3, <1>4, <1>5, <1>6

\* What pump() takes from the queue when one slot came back: calls whose deadline has passed,
\* and after them one that is started, unless the queue ends first.
LEMMA GateTaken ==
  ASSUME GateInv, NEW c \in running
  PROVE  LET n == Gate!Taken(MaxConcurrent - (active - 1)) IN
         /\ n \in 0..Len(queue)
         /\ \/ n = Len(queue) /\ \A i \in 1..n : deadlines /\ queue[i] \in late
            \/ /\ n >= 1 /\ ~(deadlines /\ queue[n] \in late)
               /\ \A i \in 1..(n - 1) : deadlines /\ queue[i] \in late
<1> DEFINE free == MaxConcurrent - (active - 1)
           n == Gate!Taken(free)
<1>1. queue \in Seq(Call) /\ active \in 0..MaxConcurrent /\ deadlines \in BOOLEAN
  BY DEF GateInv, Gate!TypeOK
<1>2. free \in Nat \ {0}
  BY <1>1, GateConstants
<1>3. CASE queue = <<>>
  <2>1. n = 0
    BY <1>2, <1>3 DEF Gate!Taken
  <2> QED  BY <1>3, <2>1
<1>4. CASE queue # <<>>
  <2>1. free = 1 /\ ~closed /\ Len(queue) >= 1
    BY <1>1, <1>4, GateConstants DEF GateInv, Gate!NoIdleSlot
  <2>2. CASE ~deadlines
    <3>1. n = 1
      BY <1>4, <2>1, <2>2 DEF Gate!Taken
    <3> QED  BY <1>1, <2>1, <2>2, <3>1
  <2>3. CASE deadlines
    <3> DEFINE live(k) == Gate!Cardinality({i \in 1..k : queue[i] \notin late})
               stops == {k \in 1..Len(queue) : live(k) = free}
    <3>1. n = IF stops = {} THEN Len(queue) ELSE CHOOSE k \in stops : \A m \in stops : k <= m
      <4>1. ~(closed \/ free = 0) /\ ~(~deadlines)
        BY <1>2, <2>1, <2>3
      <4> QED  BY <4>1, Zenon DEF Gate!Taken
    <3>2. ASSUME NEW k \in 1..Len(queue), queue[k] \notin late,
                 \A i \in 1..(k - 1) : queue[i] \in late
          PROVE  k \in stops
      <4>1. {i \in 1..k : queue[i] \notin late} = {k}
        BY <1>1, <3>2
      <4>2. Cardinality({k}) = 1
        BY FS_Singleton
      <4> QED  BY <2>1, <4>1, <4>2, GateCounts
    <3>3. ASSUME NEW k \in stops PROVE \E i \in 1..k : queue[i] \notin late
      <4>1. CASE {i \in 1..k : queue[i] \notin late} = {}
        <5>1. live(k) = 0
          BY <4>1, FS_EmptySet, GateCounts
        <5> QED  BY <2>1, <3>3, <5>1
      <4> QED  BY <4>1
    <3> HIDE DEF n, stops
    <3> DEFINE waiting == {i \in 1..Len(queue) : queue[i] \notin late}
    <3>4. CASE waiting = {}
      <4>1. stops = {}
        BY <3>3, <3>4 DEF stops
      <4>2. n = Len(queue)
        BY <3>1, <4>1
      <4> QED  BY <1>1, <2>3, <3>4, <4>2 DEF n
    <3>5. CASE waiting # {}
      <4>1. PICK k \in waiting : \A m \in waiting : k <= m
        <5>1. waiting \subseteq Nat
          BY <1>1
        <5> HIDE DEF waiting
        <5> QED  BY <3>5, <5>1, LeastMember
      <4>2. k \in 1..Len(queue) /\ queue[k] \notin late /\ \A i \in 1..(k - 1) : queue[i] \in late
        BY <1>1, <4>1
      <4>3. k \in stops
        BY <3>2, <4>2
      <4>4. ASSUME NEW m \in stops PROVE k <= m
        <5>1. PICK i \in 1..m : queue[i] \notin late
          BY <3>3
        <5>2. m \in 1..Len(queue)
          BY DEF stops
        <5> QED  BY <1>1, <4>1, <5>1, <5>2
      <4>5. n \in stops /\ \A m \in stops : n <= m
        BY <3>1, <4>3, <4>4
      <4>6. n = k
        BY <4>2, <4>3, <4>4, <4>5 DEF stops
      <4> QED  BY <1>1, <2>3, <4>2, <4>6 DEF n
    <3> QED  BY <3>4, <3>5
  <2> QED  BY <1>1, <2>2, <2>3
<1> QED
  BY <1>3, <1>4

\* The step of a promise that settles, without the loop: some calls that wait are dropped,
\* and the first of the others, if there is one, is started.
SettlesTo(c, n, dropped, started) ==
  /\ n \in 0..Len(queue) /\ dropped \cap started = {}
  /\ dropped \cup started = {queue[i] : i \in 1..n}
  /\ running' = (running \ {c}) \cup started
  /\ queue' = SubSeq(queue, n + 1, Len(queue))
  /\ queuedBytes' = queuedBytes - Total(Bytes, dropped \cup started)
  /\ active' = active - 1 + Cardinality(started)
  /\ activeBytes' = activeBytes - Bytes[c] + Total(Bytes, started)
  /\ caller' = [x \in Call |-> IF x \in dropped THEN "expired"
                               ELSE IF x = c /\ caller[c] = "waiting" THEN "done"
                               ELSE caller[x]]
  /\ \/ started = {} /\ n = Len(queue)
     \/ n >= 1 /\ started = {queue[n]} /\ dropped = {queue[i] : i \in 1..(n - 1)}
  /\ UNCHANGED <<closed, late>>

\* The first n elements of a sequence, and what is left without them.
FirstOf(s, n) == {s[i] : i \in 1..n}
RestOf(s, n) == SubSeq(s, n + 1, Len(s))

LEMMA RestLeaves ==
  ASSUME NEW S, NEW s \in Seq(S), Distinct(s), NEW n \in 0..Len(s)
  PROVE  /\ RestOf(s, n) \in Seq(S) /\ Len(RestOf(s, n)) = Len(s) - n /\ Distinct(RestOf(s, n))
         /\ \A i \in 1..Len(RestOf(s, n)) : RestOf(s, n)[i] = s[n + i]
         /\ Members(RestOf(s, n)) = Members(s) \ FirstOf(s, n)
<1> DEFINE t == SubSeq(s, n + 1, Len(s))
<1>1. /\ t \in Seq(S) /\ Len(t) = Len(s) - n /\ Distinct(t)
      /\ \A i \in 1..Len(t) : t[i] = s[n + i]
      /\ Members(t) = Members(s) \ {s[i] : i \in 1..n}
  BY SuffixLeaves, ZenonT(60)
<1>2. RestOf(s, n) = t /\ FirstOf(s, n) = {s[i] : i \in 1..n}
  BY Zenon DEF FirstOf, RestOf
<1> HIDE DEF t
<1> QED
  BY <1>1, <1>2

LEMMA GateSettles ==
  ASSUME GateInv, NEW c \in Call, Gate!Settles(c)
  PROVE  \E n \in 0..Len(queue) : \E dropped, started \in SUBSET Call : SettlesTo(c, n, dropped, started)
<1> DEFINE n == Gate!Taken(MaxConcurrent - (active - 1))
           taken == Gate!ToSet(SubSeq(queue, 1, n))
           dropped == IF deadlines THEN taken \cap late ELSE {}
           started == taken \ dropped
<1>1. c \in running /\ queue \in Seq(Call)
  BY DEF Gate!Settles, GateInv, Gate!TypeOK
<1>2. /\ n \in 0..Len(queue)
      /\ \/ n = Len(queue) /\ \A i \in 1..n : deadlines /\ queue[i] \in late
         \/ /\ n >= 1 /\ ~(deadlines /\ queue[n] \in late)
            /\ \A i \in 1..(n - 1) : deadlines /\ queue[i] \in late
  BY <1>1, GateTaken
<1>3. /\ running' = (running \ {c}) \cup started
      /\ queue' = SubSeq(queue, n + 1, Len(queue))
      /\ queuedBytes' = queuedBytes - Gate!Sum(taken)
      /\ active' = active - 1 + Gate!Cardinality(started)
      /\ activeBytes' = activeBytes - Bytes[c] + Gate!Sum(started)
      /\ caller' = [x \in Call |-> IF x \in dropped THEN "expired"
                                   ELSE IF x = c /\ caller[c] = "waiting" THEN "done"
                                   ELSE caller[x]]
      /\ UNCHANGED <<closed, late>>
  BY DEF Gate!Settles
<1> HIDE DEF n
<1>4. taken = {queue[i] : i \in 1..n}
  <2> DEFINE t == SubSeq(queue, 1, n)
  <2>1. t \in Seq(Call) /\ Len(t) = n /\ \A i \in 1..n : t[i] = queue[i]
    BY <1>1, <1>2
  <2> HIDE DEF t
  <2>2. Gate!ToSet(t) = Members(t)
    BY <2>1, GateMembers
  <2>3. Members(t) = {queue[i] : i \in 1..n}
    BY <2>1 DEF Members
  <2> QED  BY <2>2, <2>3 DEF t
<1> HIDE DEF taken
<1>5. deadlines \in BOOLEAN /\ Distinct(queue)
  BY DEF GateInv, Gate!TypeOK, GateShape
<1>6. \/ started = {} /\ n = Len(queue)
      \/ n >= 1 /\ started = {queue[n]} /\ dropped = {queue[i] : i \in 1..(n - 1)}
  <2>1. CASE n = Len(queue) /\ \A i \in 1..n : deadlines /\ queue[i] \in late
    <3>1. started = {}
      BY <1>4, <2>1
    <3> QED  BY <2>1, <3>1
  <2>2. CASE /\ n >= 1 /\ ~(deadlines /\ queue[n] \in late)
             /\ \A i \in 1..(n - 1) : deadlines /\ queue[i] \in late
    <3>1. n \in 1..n /\ \A i \in 1..n : i = n \/ i \in 1..(n - 1)
      BY <1>1, <1>2, <2>2
    <3>2. queue[n] \in taken /\ queue[n] \notin dropped
      BY <1>4, <2>2, <3>1
    <3>3. \A i \in 1..(n - 1) : i \in 1..n /\ queue[i] \in dropped
      BY <1>2, <1>4, <2>2
    <3>4. started = {queue[n]}
      BY <1>4, <3>1, <3>2, <3>3
    <3>5. dropped = {queue[i] : i \in 1..(n - 1)}
      BY <1>4, <3>1, <3>2, <3>3
    <3> QED  BY <2>2, <3>4, <3>5
  <2> QED  BY <1>2, <2>1, <2>2
<1>7. dropped \cap started = {} /\ dropped \cup started = taken
  OBVIOUS
<1>8. dropped \in SUBSET Call /\ started \in SUBSET Call
  BY <1>1, <1>2, <1>4
<1> HIDE DEF dropped, started
<1>9. SettlesTo(c, n, dropped, started)
  BY <1>2, <1>3, <1>4, <1>6, <1>7, GateCounts, Zenon DEF SettlesTo
<1> QED
  BY <1>2, <1>8, <1>9

LEMMA GateSettlesKeeps ==
  ASSUME GateInv, UNCHANGED deadlines, NEW c \in running,
         NEW n \in 0..Len(queue), NEW dropped \in SUBSET Call, NEW started \in SUBSET Call,
         SettlesTo(c, n, dropped, started)
  PROVE  GateInv'
<1> USE DEF GateInv
<1>1. queue \in Seq(Call) /\ Distinct(queue) /\ c \in Call /\ Bytes[c] \in Nat
  BY GateConstants DEF Gate!TypeOK, GateShape
<1>2. dropped \cup started \subseteq Members(queue)
  BY <1>1 DEF SettlesTo, Members
<1>3. /\ queue' \in Seq(Call) /\ Len(queue') = Len(queue) - n /\ Distinct(queue')
      /\ Members(queue') = Members(queue) \ (dropped \cup started)
  <2>1. queue' = RestOf(queue, n) /\ dropped \cup started = FirstOf(queue, n)
    BY Zenon DEF SettlesTo, FirstOf, RestOf
  <2>2. /\ queue' \in Seq(Call) /\ Len(queue') = Len(queue) - n /\ Distinct(queue')
        /\ \A i \in 1..Len(queue') : queue'[i] = queue[n + i]
        /\ Members(queue') = Members(queue) \ FirstOf(queue, n)
    BY <1>1, <2>1, RestLeaves
  <2> QED  BY <2>1, <2>2, Zenon
<1>4. /\ Total(Bytes, Members(queue) \ (dropped \cup started)) =
            Total(Bytes, Members(queue)) - Total(Bytes, dropped \cup started)
      /\ Total(Bytes, Members(queue) \ (dropped \cup started)) \in Nat
      /\ Total(Bytes, dropped \cup started) \in Nat
  BY <1>2, GateFinite, TotalLess
<1>5. started \cap running = {} /\ IsFiniteSet(started)
  BY <1>2, GateFinite, FS_Subset DEF GateShape
<1>6. IsFiniteSet(running) /\ IsFiniteSet(running \ {c}) /\ Cardinality(running \ {c}) = Cardinality(running) - 1
  BY GateFinite, FS_RemoveElement
<1>7. Cardinality((running \ {c}) \cup started) = Cardinality(running) - 1 + Cardinality(started)
  <2>1. (running \ {c}) \cap started = {}
    BY <1>5
  <2>2. Cardinality((running \ {c}) \cap started) = 0
    BY <2>1, FS_EmptySet
  <2>3. /\ Cardinality(running \ {c}) \in Nat /\ Cardinality(started) \in Nat
        /\ Cardinality(running) \in Nat
    BY <1>5, <1>6, FS_CardinalityType
  <2>4. Cardinality((running \ {c}) \cup started) =
          Cardinality(running \ {c}) + Cardinality(started) - Cardinality((running \ {c}) \cap started)
    BY <1>5, <1>6, FS_Union
  <2> QED  BY <1>6, <2>2, <2>3, <2>4
<1>8. /\ Total(Bytes, (running \ {c}) \cup started) = Total(Bytes, running) - Bytes[c] + Total(Bytes, started)
      /\ Total(Bytes, (running \ {c}) \cup started) \in Nat
  <2>1. Total(Bytes, running \ {c}) = Total(Bytes, running) - Bytes[c]
    BY GateFinite, TotalRemove
  <2>2. (running \ {c}) \cap started = {}
    BY <1>5
  <2>3. \A x \in (running \ {c}) \cup started : Bytes[x] \in Nat
    BY GateFinite, GateConstants
  <2>4. Total(Bytes, (running \ {c}) \cup started) = Total(Bytes, running \ {c}) + Total(Bytes, started)
    BY <1>5, <1>6, <2>2, <2>3, TotalOfUnion
  <2>5. IsFiniteSet((running \ {c}) \cup started)
    BY <1>5, <1>6, FS_Union
  <2>6. Total(Bytes, (running \ {c}) \cup started) \in Nat
    BY <2>3, <2>5, TotalType
  <2> QED  BY <2>1, <2>4, <2>6
<1>9. Cardinality(started) \in {0, 1} /\ (n < Len(queue) => Cardinality(started) = 1)
  <2>1. CASE started = {} /\ n = Len(queue)
    <3>1. Cardinality(started) = 0
      BY <2>1, FS_EmptySet
    <3> QED  BY <1>1, <2>1, <3>1
  <2>2. CASE started = {queue[n]}
    <3>1. Cardinality(started) = 1
      BY <2>2, FS_Singleton
    <3> QED  BY <3>1
  <2> QED  BY <2>1, <2>2 DEF SettlesTo
<1>10. active = Cardinality(running) /\ activeBytes = Total(Bytes, running)
       /\ queuedBytes = Total(Bytes, Members(queue))
  BY <1>1, GateCounts, GateMembers DEF Gate!CountersExact
<1>11. Gate!TypeOK'
  <2>1. active' \in 0..MaxConcurrent
    <3>1. Cardinality(running) >= 1
      BY <1>6, FS_CardinalityType
    <3>2. active' = active - 1 + Cardinality(started) /\ active \in 0..MaxConcurrent
      BY Zenon DEF SettlesTo, Gate!TypeOK
    <3> QED  BY <1>9, <1>10, <3>1, <3>2, GateConstants
  <2>2. activeBytes' \in Nat
    BY <1>8, <1>10 DEF SettlesTo
  <2>3. queuedBytes' \in 0..MaxQueuedBytes
    <3>1. /\ queuedBytes' = queuedBytes - Total(Bytes, dropped \cup started)
          /\ queuedBytes \in 0..MaxQueuedBytes
      BY Zenon DEF SettlesTo, Gate!TypeOK
    <3> QED  BY <1>4, <1>10, <3>1, GateConstants
  <2>4. caller' \in [Call -> {"new", "waiting"} \cup Gate!Settled]
    BY DEF SettlesTo, Gate!TypeOK, Gate!Settled, Gate!Refused
  <2>5. running' \subseteq Call /\ late' \subseteq Call /\ closed' \in BOOLEAN
    BY DEF SettlesTo, Gate!TypeOK
  <2> QED  BY <1>3, <2>1, <2>2, <2>3, <2>4, <2>5 DEF Gate!TypeOK
<1>12. Gate!CountersExact'
  <2>1. Gate!ToSet(queue') = Members(queue')
    BY <1>3, GateMembers
  <2>2. active' = Cardinality(running') /\ activeBytes' = Total(Bytes, running')
    BY <1>7, <1>8, <1>10 DEF SettlesTo
  <2>3. queuedBytes' = Total(Bytes, Members(queue'))
    BY <1>3, <1>4, <1>10 DEF SettlesTo
  <2> QED  BY <2>1, <2>2, <2>3, GateCounts DEF Gate!CountersExact
<1>13. Gate!NoIdleSlot'
  <2>1. SUFFICES ASSUME queue' # <<>> PROVE active' = MaxConcurrent /\ ~closed'
    BY DEF Gate!NoIdleSlot
  <2>2. n < Len(queue) /\ queue # <<>>
    BY <1>1, <1>3, <2>1
  <2> QED  BY <1>9, <2>2, GateConstants DEF SettlesTo, Gate!NoIdleSlot
<1>14. GateShape'
  <2>1. Len(queue') <= MaxQueued
    BY <1>1, <1>3, GateConstants DEF GateShape
  <2>2. ASSUME NEW x \in Members(queue') PROVE caller'[x] = "waiting" /\ x \notin running'
    BY <1>1, <1>3, <2>2, GateFinite DEF SettlesTo, GateShape
  <2>3. ASSUME NEW x \in running' PROVE caller'[x] \in {"waiting", "timedOut"}
    <3>1. CASE x \in started
      BY <1>2, <1>5, <3>1 DEF SettlesTo, GateShape
    <3>2. CASE x \in running /\ x # c
      <4>1. x \notin dropped
        BY <1>2, <3>2 DEF GateShape
      <4> QED  BY <3>2, <4>1 DEF SettlesTo, GateShape, Gate!TypeOK
    <3> QED  BY <2>3, <3>1, <3>2 DEF SettlesTo
  <2> QED  BY <1>3, <2>1, <2>2, <2>3 DEF GateShape
<1> QED
  BY <1>11, <1>12, <1>13, <1>14

LEMMA GateStep == GateInv /\ Gate!Next => GateInv'
<1> SUFFICES ASSUME GateInv, Gate!Next PROVE GateInv'
  OBVIOUS
<1>1. UNCHANGED deadlines
  BY DEF Gate!Next
<1>2. ASSUME NEW c \in Call, Gate!Run(c) PROVE GateInv'
  BY <1>1, <1>2, GateRun
<1>3. ASSUME NEW c \in Call, Gate!RunAborted(c) PROVE GateInv'
  <2>1. c \notin running /\ c \notin Members(queue)
    BY <1>3 DEF Gate!RunAborted, GateInv, GateShape
  <2> QED  BY <1>1, <1>3, <2>1, GateIdle
           DEF Gate!RunAborted, Gate!Refuse, Gate!Answer, GateInv, GateShape, Gate!TypeOK, Gate!Settled, Gate!Refused
<1>4. ASSUME NEW c \in Call, Gate!Expire(c) \/ Gate!Abort(c) PROVE GateInv'
  BY <1>1, <1>4, GateLeave DEF Gate!Expire, Gate!Abort
<1>5. ASSUME NEW c \in Call, Gate!CommandTimer(c) PROVE GateInv'
  <2>1. c \notin Members(queue)
    BY <1>5 DEF Gate!CommandTimer, GateInv, GateShape
  <2> QED  BY <1>1, <1>5, <2>1, GateIdle
           DEF Gate!CommandTimer, Gate!Answer, GateInv, GateShape, Gate!TypeOK, Gate!Settled
<1>6. ASSUME NEW c \in Call, Gate!Settles(c) PROVE GateInv'
  <2>1. c \in running
    BY <1>6 DEF Gate!Settles
  <2>2. PICK n \in 0..Len(queue), dropped \in SUBSET Call, started \in SUBSET Call :
               SettlesTo(c, n, dropped, started)
    BY <1>6, GateSettles
  <2> QED  BY <1>1, <2>1, <2>2, GateSettlesKeeps
<1>7. ASSUME NEW c \in Call, Gate!DeadlinePasses(c) PROVE GateInv'
  BY <1>1, <1>7, GateIdle DEF Gate!DeadlinePasses, GateInv, GateShape, Gate!TypeOK
<1>8. ASSUME Gate!Close PROVE GateInv'
  BY <1>1, <1>8, GateClose
<1> QED
  BY <1>2, <1>3, <1>4, <1>5, <1>6, <1>7, <1>8 DEF Gate!Next

-----------------------------------------------------------------------------
(* The gate in front of Redis implements AdmissionGate *)

\* The calls that were told their operation is unavailable.
GateAway == {c \in Call : caller[c] \in Gate!Refused}

\* The operators AdmissionGate is written with are those used here.
LEMMA GateAbstract ==
  /\ \A S : Gate!Gate!Cardinality(S) = Cardinality(S)
  /\ \A s \in Seq(Call) : Gate!Gate!ToSet(s) = Members(s)
  /\ \A s, t \in Seq(Call) : \A gone : LeftOf(t, s, gone) => Gate!Gate!Left(t, s, gone)
<1>1. ASSUME NEW S PROVE Gate!Gate!Cardinality(S) = Cardinality(S)
  BY DEF Gate!Gate!Cardinality, Cardinality
<1>2. ASSUME NEW s \in Seq(Call) PROVE Gate!Gate!ToSet(s) = Members(s)
  BY DEF Gate!Gate!ToSet, Members
<1>3. ASSUME NEW s \in Seq(Call), NEW t \in Seq(Call), NEW gone, LeftOf(t, s, gone)
      PROVE  Gate!Gate!Left(t, s, gone)
  BY <1>2, <1>3, Zenon DEF Gate!Gate!Left, LeftOf
<1> QED
  BY <1>1, <1>2, <1>3

LEMMA GateOutside ==
  ASSUME GateInv, NEW c \in Call, caller[c] = "new"
  PROVE  c \in Gate!Gate!Outside
<1>1. queue \in Seq(Call)
  BY DEF GateInv, Gate!TypeOK
<1>2. c \notin Members(queue) /\ c \notin running /\ c \notin GateAway
  BY DEF GateInv, GateShape, GateAway, Gate!Refused
<1> QED
  BY <1>1, <1>2, GateAbstract DEF Gate!Gate!Outside, GateAway

LEMMA GateRunRefines ==
  ASSUME GateInv, NEW c \in Call, Gate!Run(c)
  PROVE  Gate!Gate!Refuse(c) \/ Gate!Gate!Enter(c) \/ Gate!Gate!Queue(c)
<1> USE DEF GateInv
<1>1. caller[c] = "new" /\ c \in Gate!Gate!Outside
  BY GateOutside DEF Gate!Run
<1>2. active = Gate!Gate!Cardinality(running)
  BY GateCounts, GateAbstract DEF Gate!CountersExact
<1>3. ASSUME NEW how \in Gate!Refused, Gate!Refuse(c, how) PROVE Gate!Gate!Refuse(c)
  <2>1. GateAway' = GateAway \cup {c}
    BY <1>3 DEF GateAway, Gate!Refuse, Gate!Answer, Gate!TypeOK
  <2> QED  BY <1>1, <1>3, <2>1 DEF Gate!Gate!Refuse, Gate!Refuse, GateAway
<1>4. ASSUME Gate!Answer(c, "waiting") PROVE GateAway' = GateAway
  BY <1>1, <1>4 DEF GateAway, Gate!Answer, Gate!TypeOK, Gate!Refused
<1>5. CASE closed \/ c \in late
  BY <1>3, <1>5 DEF Gate!Run, Gate!Refused
<1>6. CASE ~closed /\ c \notin late /\ active < MaxConcurrent /\ queue = <<>>
  BY <1>1, <1>2, <1>4, <1>6 DEF Gate!Run, Gate!Gate!Enter, GateAway
<1>7. CASE ~closed /\ c \notin late /\ ~(active < MaxConcurrent /\ queue = <<>>)
  <2>1. CASE Len(queue) >= MaxQueued \/ queuedBytes + Bytes[c] > MaxQueuedBytes
    BY <1>3, <1>7, <2>1 DEF Gate!Run, Gate!Refused
  <2>2. CASE ~(Len(queue) >= MaxQueued \/ queuedBytes + Bytes[c] > MaxQueuedBytes)
    <3>1. Gate!Gate!Cardinality(running) = MaxConcurrent /\ Len(queue) < MaxQueued
      BY <1>2, <1>7, <2>2, GateConstants DEF Gate!NoIdleSlot, Gate!TypeOK
    <3> QED  BY <1>1, <1>4, <1>7, <2>2, <3>1 DEF Gate!Run, Gate!Gate!Queue, GateAway
  <2> QED  BY <2>1, <2>2
<1> QED
  BY <1>5, <1>6, <1>7

LEMMA GateLeaveRefines ==
  ASSUME GateInv, NEW c \in Call, NEW how \in {"expired", "cancelled"}, Gate!Leave(c, how)
  PROVE  c \in Gate!Gate!ToSet(queue) /\ Gate!Gate!GiveUp({c})
<1> USE DEF GateInv
<1>1. queue \in Seq(Call) /\ c \in Members(queue) /\ Distinct(queue)
  BY GateMembers DEF Gate!TypeOK, Gate!Leave, GateShape
<1>2. queue' \in Seq(Call) /\ LeftOf(queue', queue, {c})
  BY <1>1, GateWithout DEF Gate!Leave
<1>3. Gate!Gate!ToSet(queue) = Members(queue) /\ Gate!Gate!Left(queue', queue, {c})
  BY <1>1, <1>2, GateAbstract
<1>4. GateAway' = GateAway \cup {c}
  BY DEF GateAway, Gate!Leave, Gate!Answer, Gate!TypeOK, Gate!Refused
<1>5. UNCHANGED running
  BY DEF Gate!Leave
<1> QED
  BY <1>1, <1>3, <1>4, <1>5 DEF Gate!Gate!GiveUp, GateAway

LEMMA GateSettlesRefines ==
  ASSUME GateInv, NEW c \in running, NEW n \in 0..Len(queue),
         NEW dropped \in SUBSET Call, NEW started \in SUBSET Call,
         SettlesTo(c, n, dropped, started)
  PROVE  dropped \subseteq Gate!Gate!ToSet(queue) /\ Gate!Gate!HandOver(c, dropped)
<1> USE DEF GateInv
<1>1. queue \in Seq(Call) /\ Distinct(queue) /\ c \in Call
  BY DEF Gate!TypeOK, GateShape
<1>2. Gate!Gate!ToSet(queue) = Members(queue)
  BY <1>1, GateAbstract
<1>3. dropped \subseteq Members(queue) /\ dropped \cap started = {}
  BY <1>1 DEF SettlesTo, Members
<1>4. GateAway' = GateAway \cup dropped
  <2>1. ASSUME NEW x \in Call PROVE caller'[x] \in Gate!Refused <=> caller[x] \in Gate!Refused \/ x \in dropped
    BY DEF SettlesTo, Gate!Refused
  <2> QED  BY <2>1 DEF GateAway
<1>5. running' = (running \ {c}) \cup started
  BY DEF SettlesTo
<1>6. /\ queue' \in Seq(Call) /\ Len(queue') = Len(queue) - n
      /\ \A i \in 1..Len(queue') : queue'[i] = queue[n + i]
      /\ Members(queue') = Members(queue) \ (dropped \cup started)
  <2>1. queue' = RestOf(queue, n) /\ dropped \cup started = FirstOf(queue, n)
    BY Zenon DEF SettlesTo, FirstOf, RestOf
  <2>2. /\ queue' \in Seq(Call) /\ Len(queue') = Len(queue) - n /\ Distinct(queue')
        /\ \A i \in 1..Len(queue') : queue'[i] = queue[n + i]
        /\ Members(queue') = Members(queue) \ FirstOf(queue, n)
    BY <1>1, <2>1, RestLeaves
  <2> QED  BY <2>1, <2>2, Zenon
<1>7. CASE started = {} /\ n = Len(queue)
  <2>1. Members(queue) = dropped
    BY <1>7 DEF SettlesTo, Members
  <2>2. queue' = <<>>
    BY <1>1, <1>6, <1>7
  <2>3. running' = running \ {c}
    BY <1>5, <1>7
  <2> QED  BY <1>2, <1>3, <1>4, <2>1, <2>2, <2>3 DEF Gate!Gate!HandOver, GateAway
<1>8. CASE n >= 1 /\ started = {queue[n]} /\ dropped = {queue[i] : i \in 1..(n - 1)}
  <2> DEFINE first == queue[n]
             t == <<first>> \o queue'
  <2>1. n \in 1..Len(queue) /\ first \in Call /\ first \in Members(queue) \ dropped
    BY <1>1, <1>3, <1>8 DEF Members
  <2>2. /\ t \in Seq(Call) /\ Len(t) = Len(queue) - n + 1
        /\ \A i \in 1..Len(t) : t[i] = queue[n - 1 + i]
    <3>1. <<first>> \in Seq(Call) /\ Len(<<first>>) = 1 /\ <<first>>[1] = first
      BY <2>1
    <3>2. /\ t \in Seq(Call) /\ Len(t) = 1 + Len(queue')
          /\ \A i \in 1..(1 + Len(queue')) : t[i] = IF i <= 1 THEN <<first>>[i] ELSE queue'[i - 1]
      BY <1>6, <3>1, ConcatProperties
    <3> HIDE DEF t
    <3>3. ASSUME NEW i \in 1..Len(t) PROVE t[i] = queue[n - 1 + i]
      <4>1. CASE i = 1
        BY <1>1, <3>1, <3>2, <4>1
      <4>2. CASE i > 1
        <5>1. i - 1 \in 1..Len(queue') /\ n + (i - 1) = n - 1 + i /\ ~(i <= 1) /\ i \in 1..(1 + Len(queue'))
          BY <1>1, <1>6, <3>2, <4>2
        <5>2. t[i] = queue'[i - 1]
          BY <3>2, <5>1
        <5>3. queue'[i - 1] = queue[n + (i - 1)]
          BY <1>6, <5>1
        <5> QED  BY <5>1, <5>2, <5>3
      <4> QED  BY <3>2, <4>1, <4>2
    <3> QED  BY <1>1, <1>6, <3>2, <3>3
  <2> HIDE DEF t
  <2>3. Members(t) = Members(queue) \ dropped
    <3>1. ASSUME NEW x \in Members(t) PROVE x \in Members(queue) \ dropped
      <4>1. PICK i \in 1..Len(t) : x = t[i]
        BY <3>1 DEF Members
      <4>2. n - 1 + i \in n..Len(queue) /\ x = queue[n - 1 + i]
        BY <1>1, <2>1, <2>2, <4>1
      <4>3. n \in Nat /\ Len(queue) \in Nat /\ n >= 1
        BY <1>1, <1>8
      <4>4. n - 1 + i \in 1..Len(queue) /\ \A j \in 1..(n - 1) : j \in 1..Len(queue) /\ j # n - 1 + i
        BY <4>2, <4>3
      <4>5. x \notin dropped
        BY <1>1, <1>8, <4>2, <4>4 DEF Distinct
      <4> QED  BY <4>2, <4>4, <4>5 DEF Members
    <3>2. ASSUME NEW x \in Members(queue) \ dropped PROVE x \in Members(t)
      <4>1. PICK k \in 1..Len(queue) : x = queue[k] /\ k >= n
        BY <1>1, <1>8, <2>1, <3>2 DEF Members
      <4> HIDE DEF first
      <4>2. k - n + 1 \in 1..Len(t) /\ n - 1 + (k - n + 1) = k
        <5>1. n \in Nat /\ Len(queue) \in Nat /\ k \in Nat /\ k >= n /\ k <= Len(queue)
          BY <1>1, <4>1
        <5>2. Len(t) = Len(queue) - n + 1
          BY <2>2
        <5> QED  BY <5>1, <5>2
      <4>3. t[k - n + 1] = x
        BY <2>2, <4>1, <4>2
      <4> QED  BY <4>2, <4>3 DEF Members
    <3> QED  BY <3>1, <3>2
  <2>4. ASSUME NEW i \in 1..Len(t), NEW j \in 1..Len(t), i < j
        PROVE  \E k, l \in 1..Len(queue) : k < l /\ queue[k] = t[i] /\ queue[l] = t[j]
    <3>1. /\ n - 1 + i \in 1..Len(queue) /\ n - 1 + j \in 1..Len(queue)
          /\ n - 1 + i < n - 1 + j
      BY <1>1, <2>1, <2>2, <2>4
    <3>2. queue[n - 1 + i] = t[i] /\ queue[n - 1 + j] = t[j]
      BY <2>2
    <3> QED  BY <3>1, <3>2
  <2>5. LeftOf(t, queue, dropped)
    BY <2>3, <2>4 DEF LeftOf
  <2>6. Gate!Gate!Left(t, queue, dropped)
    BY <1>1, <2>2, <2>5, GateAbstract
  <2>7. running' = (running \ {c}) \cup {first}
    BY <1>5, <1>8
  <2> QED  BY <1>2, <1>3, <1>4, <2>1, <2>6, <2>7, Zenon DEF Gate!Gate!HandOver, GateAway, t
<1> QED
  BY <1>7, <1>8 DEF SettlesTo

LEMMA GateRefines == GateInv /\ Gate!Next => [Gate!Gate!Next]_(Gate!Gate!gateVars)
<1> SUFFICES ASSUME GateInv, Gate!Next PROVE Gate!Gate!Next \/ UNCHANGED <<queue, running, GateAway>>
  BY DEF Gate!Gate!gateVars, GateAway
<1>1. ASSUME NEW c \in Call, Gate!Run(c) PROVE Gate!Gate!Next
  BY <1>1, GateRunRefines DEF Gate!Gate!Next
<1>2. ASSUME NEW c \in Call, Gate!RunAborted(c) PROVE Gate!Gate!Next
  <2>1. c \in Gate!Gate!Outside
    BY <1>2, GateOutside DEF Gate!RunAborted
  <2>2. GateAway' = GateAway \cup {c}
    BY <1>2 DEF GateAway, GateInv, Gate!RunAborted, Gate!Refuse, Gate!Answer, Gate!TypeOK, Gate!Refused
  <2>3. Gate!Gate!Refuse(c)
    BY <1>2, <2>1, <2>2 DEF Gate!Gate!Refuse, Gate!RunAborted, Gate!Refuse, GateAway
  <2> QED  BY <2>3 DEF Gate!Gate!Next
<1>3. ASSUME NEW c \in Call, Gate!Expire(c) \/ Gate!Abort(c) PROVE Gate!Gate!Next
  <2>1. c \in Gate!Gate!ToSet(queue) /\ Gate!Gate!GiveUp({c})
    BY <1>3, GateLeaveRefines DEF Gate!Expire, Gate!Abort
  <2>2. {c} \in SUBSET Gate!Gate!ToSet(queue)
    BY <2>1
  <2> QED  BY <2>1, <2>2 DEF Gate!Gate!Next
<1>4. ASSUME NEW c \in Call, Gate!CommandTimer(c) PROVE UNCHANGED <<queue, running, GateAway>>
  BY <1>4 DEF Gate!CommandTimer, Gate!Answer, GateAway, GateInv, Gate!TypeOK, Gate!Refused
<1>5. ASSUME NEW c \in Call, Gate!Settles(c) PROVE Gate!Gate!Next
  <2>1. c \in running
    BY <1>5 DEF Gate!Settles
  <2>2. PICK n \in 0..Len(queue), dropped \in SUBSET Call, started \in SUBSET Call :
               SettlesTo(c, n, dropped, started)
    BY <1>5, GateSettles
  <2>3. dropped \subseteq Gate!Gate!ToSet(queue) /\ Gate!Gate!HandOver(c, dropped)
    BY <2>1, <2>2, GateSettlesRefines
  <2>4. dropped \in SUBSET Gate!Gate!ToSet(queue)
    BY <2>3
  <2> QED  BY <2>1, <2>3, <2>4 DEF Gate!Gate!Next
<1>6. ASSUME NEW c \in Call, Gate!DeadlinePasses(c) PROVE UNCHANGED <<queue, running, GateAway>>
  BY <1>6 DEF Gate!DeadlinePasses, GateAway
<1>7. ASSUME Gate!Close PROVE Gate!Gate!Next \/ UNCHANGED <<queue, running, GateAway>>
  <2>1. queue \in Seq(Call) /\ Gate!ToSet(queue) = Members(queue) /\ Gate!Gate!ToSet(queue) = Members(queue)
    BY GateMembers, GateAbstract DEF GateInv, Gate!TypeOK
  <2>2. queue' = <<>> /\ running' = running
    BY <1>7 DEF Gate!Close
  <2>3. GateAway' = GateAway \cup Members(queue)
    <3>1. Members(queue) \subseteq Call
      BY GateFinite DEF GateInv
    <3> QED  BY <1>7, <2>1, <3>1 DEF Gate!Close, GateAway, Gate!Refused
  <2>4. CASE Members(queue) = {}
    <3>1. queue = <<>>
      BY <2>1, <2>4, NoMembers
    <3> QED  BY <2>2, <2>3, <2>4, <3>1
  <2>5. CASE Members(queue) # {}
    <3>1. queue' \in Seq(Call) /\ LeftOf(queue', queue, Members(queue))
      BY <2>2 DEF LeftOf, Members
    <3>2. Gate!Gate!Left(queue', queue, Members(queue))
      BY <2>1, <3>1, GateAbstract
    <3>3. PICK gone \in SUBSET Gate!Gate!ToSet(queue) : gone = Members(queue)
      BY <2>1
    <3>4. Gate!Gate!GiveUp(gone)
      BY <2>1, <2>2, <2>3, <2>5, <3>2, <3>3 DEF Gate!Gate!GiveUp, Gate!Gate!Left, GateAway
    <3> QED  BY <3>4 DEF Gate!Gate!Next
  <2> QED  BY <2>4, <2>5
<1>8. \/ \E c \in Call : \/ Gate!Run(c) \/ Gate!RunAborted(c) \/ Gate!Expire(c) \/ Gate!Abort(c)
                         \/ Gate!CommandTimer(c) \/ Gate!Settles(c) \/ Gate!DeadlinePasses(c)
      \/ Gate!Close
  BY DEF Gate!Next
<1> QED
  BY <1>1, <1>2, <1>3, <1>4, <1>5, <1>6, <1>7, <1>8, Zenon

LEMMA GateRefinesInit == Gate!Init => Gate!Gate!Init
<1> SUFFICES ASSUME Gate!Init PROVE Gate!Gate!Init
  OBVIOUS
<1>1. GateAway = {}
  BY DEF Gate!Init, GateAway, Gate!Refused
<1> QED
  BY <1>1 DEF Gate!Init, Gate!Gate!Init, GateAway

\* A step leaves a caller that was told "unavailable" its answer, and does not run its call.
LEMMA GateRefusal ==
  ASSUME GateInv, Gate!Next, NEW x \in Call, caller[x] \in Gate!Refused
  PROVE  x \notin running' /\ caller'[x] = caller[x]
<1>1. queue \in Seq(Call) /\ Gate!ToSet(queue) = Members(queue)
  BY GateMembers DEF GateInv, Gate!TypeOK
<1>2. x \notin running /\ x \notin Members(queue) /\ caller[x] # "new" /\ caller[x] # "waiting"
  BY DEF GateInv, GateShape, Gate!Refused
<1>3. caller \in [Call -> {"new", "waiting"} \cup Gate!Settled]
  BY DEF GateInv, Gate!TypeOK
<1> DEFINE Goal == x \notin running' /\ caller'[x] = caller[x]
<1>4. ASSUME NEW c \in Call, Gate!Run(c) \/ Gate!RunAborted(c) PROVE Goal
  BY <1>2, <1>3, <1>4 DEF Gate!Run, Gate!RunAborted, Gate!Refuse, Gate!Answer
<1>5. ASSUME NEW c \in Call, Gate!Expire(c) \/ Gate!Abort(c) PROVE Goal
  BY <1>1, <1>2, <1>3, <1>5 DEF Gate!Expire, Gate!Abort, Gate!Leave, Gate!Answer
<1>6. ASSUME NEW c \in Call, Gate!CommandTimer(c) PROVE Goal
  BY <1>2, <1>3, <1>6 DEF Gate!CommandTimer, Gate!Answer
<1>7. ASSUME NEW c \in Call, Gate!Settles(c) PROVE Goal
  <2>1. PICK n \in 0..Len(queue), dropped \in SUBSET Call, started \in SUBSET Call :
               SettlesTo(c, n, dropped, started)
    BY <1>7, GateSettles
  <2>2. dropped \cup started \subseteq Members(queue)
    BY <1>1, <2>1 DEF SettlesTo, Members
  <2> QED  BY <1>2, <1>3, <2>1, <2>2 DEF SettlesTo
<1>8. ASSUME NEW c \in Call, Gate!DeadlinePasses(c) PROVE Goal
  BY <1>2, <1>8 DEF Gate!DeadlinePasses
<1>9. ASSUME Gate!Close PROVE Goal
  BY <1>1, <1>2, <1>9 DEF Gate!Close
<1> QED
  BY <1>4, <1>5, <1>6, <1>7, <1>8, <1>9 DEF Gate!Next

-----------------------------------------------------------------------------
(* The origin gate *)

\* The calls that wait are the queued ones, once each; what was released had been loading.
OriginShape ==
  /\ Distinct(queued)
  /\ \A c \in Load : c \in Members(queued) <=> call[c] = "queued"
  /\ \A c \in released : call[c] = "loading"

OriginInv == Origin!TypeOK /\ Origin!ReservationsExact /\ Origin!NoOvertaking /\ OriginShape

LEMMA OriginCounts ==
  ASSUME NEW S
  PROVE  /\ Origin!IsFiniteSet(S) = IsFiniteSet(S)
         /\ Origin!Cardinality(S) = Cardinality(S)
         /\ Origin!KeyBytes(S) = Total(LoadBytes, S)
<1>1. Origin!IsFiniteSet(S) = IsFiniteSet(S)
  BY DEF Origin!IsFiniteSet, IsFiniteSet
<1>2. ASSUME NEW T PROVE Origin!Cardinality(T) = Cardinality(T)
  BY DEF Origin!Cardinality, Cardinality
<1>3. Origin!Units(LoadBytes, S) = Units(LoadBytes, S)
  BY DEF Origin!Units, Units
<1>4. Origin!KeyBytes(S) = Total(LoadBytes, S)
  BY <1>2, <1>3, Zenon DEF Origin!KeyBytes, Origin!Total, Total
<1> QED
  BY <1>1, <1>2, <1>4

LEMMA OriginMembers ==
  ASSUME NEW s \in Seq(Load)
  PROVE  Origin!ToSet(s) = Members(s)
BY DEF Origin!ToSet, Members

LEMMA OriginConstants ==
  /\ IsFiniteSet(Load) /\ LoadBytes \in [Load -> Nat]
  /\ MaxLoads \in Nat \ {0} /\ MaxWaiting \in Nat /\ MaxWaitingBytes \in Nat
BY OverloadAssumption, OriginCounts DEF Origin!OriginGateAssumption

LEMMA OriginFinite ==
  ASSUME Origin!TypeOK
  PROVE  /\ IsFiniteSet(Origin!Holding) /\ Cardinality(Origin!Holding) \in Nat
         /\ IsFiniteSet(Members(queued)) /\ \A c \in Members(queued) : LoadBytes[c] \in Nat
         /\ Members(queued) \subseteq Load /\ queued \in Seq(Load)
<1>1. queued \in Seq(Load) /\ Origin!Holding \subseteq Load
  BY DEF Origin!TypeOK, Origin!Holding
<1>2. IsFiniteSet(Origin!Holding)
  BY <1>1, OriginConstants, FS_Subset
<1>3. Cardinality(Origin!Holding) \in Nat
  BY <1>2, FS_CardinalityType
<1> QED
  BY <1>1, <1>2, <1>3, OriginConstants, MembersFinite

LEMMA OriginWithout ==
  ASSUME NEW s \in Seq(Load), Distinct(s), NEW c \in Members(s)
  PROVE  /\ Origin!Without(s, c) \in Seq(Load) /\ Len(Origin!Without(s, c)) = Len(s) - 1
         /\ Distinct(Origin!Without(s, c))
         /\ Members(Origin!Without(s, c)) = Members(s) \ {c}
         /\ LeftOf(Origin!Without(s, c), s, {c})
<1> DEFINE p == CHOOSE i \in 1..Len(s) : s[i] = c
<1>1. p \in 1..Len(s) /\ s[p] = c
  BY DEF Members
<1>2. Origin!Without(s, c) = Removed(s, p)
  BY DEF Origin!Without, Origin!RemoveAt, Removed
<1> HIDE DEF p
<1>3. /\ Removed(s, p) \in Seq(Load) /\ Len(Removed(s, p)) = Len(s) - 1
      /\ Distinct(Removed(s, p))
      /\ Members(Removed(s, p)) = Members(s) \ {s[p]}
      /\ LeftOf(Removed(s, p), s, {s[p]})
  BY <1>1, RemovedPlaces, RemovedLeaves
<1> QED
  BY <1>1, <1>2, <1>3, Zenon

LEMMA OriginInit == Origin!Init => OriginInv
<1> SUFFICES ASSUME Origin!Init PROVE OriginInv
  OBVIOUS
<1>1. queued \in Seq(Load) /\ Len(queued) = 0 /\ Members(queued) = {} /\ Origin!Holding = {}
  BY DEF Origin!Init, Members, Origin!Holding
<1>2. Origin!ReservationsExact
  BY <1>1, OriginMembers, OriginCounts, TotalOfNone, FS_EmptySet DEF Origin!Init, Origin!ReservationsExact
<1>3. OriginShape
  BY <1>1 DEF Origin!Init, OriginShape, Distinct
<1>4. Origin!TypeOK
  <2>1. call \in [Load -> {"new", "queued", "loading"} \cup Origin!Rejected]
    BY DEF Origin!Init
  <2>2. loads \in 0..MaxLoads /\ keyBytes \in 0..MaxWaitingBytes /\ budget \in Nat
    BY OriginConstants DEF Origin!Init
  <2>3. Len(queued) <= MaxWaiting
    BY <1>1, OriginConstants
  <2>4. shut \in BOOLEAN /\ released \subseteq Load
    BY DEF Origin!Init
  <2> QED  BY <1>1, <2>1, <2>2, <2>3, <2>4 DEF Origin!TypeOK
<1>5. Origin!NoOvertaking
  BY DEF Origin!Init, Origin!NoOvertaking
<1> QED
  BY <1>2, <1>3, <1>4, <1>5 DEF OriginInv

\* A call that is turned away at once changes nothing else.
LEMMA OriginReject ==
  ASSUME OriginInv, NEW c \in Load, call[c] = "new",
         NEW why \in Origin!Rejected, Origin!Reject(c, why)
  PROVE  OriginInv' /\ Origin!Holding' = Origin!Holding
<1> USE DEF OriginInv, Origin!Reject
<1>1. /\ call' = [call EXCEPT ![c] = why] /\ call \in [Load -> {"new", "queued", "loading"} \cup Origin!Rejected]
      /\ UNCHANGED <<loads, queued, keyBytes, shut, budget, released>>
  BY DEF Origin!Move, Origin!TypeOK
<1>2. why # "queued" /\ why # "loading"
  BY DEF Origin!Rejected
<1>3. Origin!Holding' = Origin!Holding
  BY <1>1, <1>2 DEF Origin!Holding
<1>4. Origin!TypeOK'
  BY <1>1 DEF Origin!TypeOK
<1>5. Origin!ReservationsExact' /\ Origin!NoOvertaking'
  BY <1>1, <1>3 DEF Origin!ReservationsExact, Origin!NoOvertaking
<1>6. OriginShape'
  BY <1>1, <1>2 DEF OriginShape, Origin!TypeOK
<1> QED
  BY <1>3, <1>4, <1>5, <1>6

LEMMA OriginAcquire ==
  ASSUME OriginInv, NEW c \in Load, NEW fits \in BOOLEAN, Origin!Acquire(c, fits)
  PROVE  OriginInv'
<1> USE DEF OriginInv
<1>1. call[c] = "new" /\ c \notin Members(queued) /\ c \notin Origin!Holding /\ c \notin released
  BY DEF Origin!Acquire, OriginShape, Origin!Holding
<1>2. LoadBytes[c] \in Nat /\ call \in [Load -> {"new", "queued", "loading"} \cup Origin!Rejected]
  BY OriginConstants DEF Origin!TypeOK
<1>3. CASE \E why \in {"closed", "overloaded"} : Origin!Reject(c, why)
  BY <1>1, <1>3, OriginReject DEF Origin!Rejected
<1>4. CASE /\ ~shut /\ loads < MaxLoads /\ loads' = loads + 1
           /\ Origin!Move(c, "loading")
           /\ UNCHANGED <<queued, keyBytes, shut, budget, released>>
  <2>1. Origin!Holding' = Origin!Holding \cup {c}
    BY <1>1, <1>2, <1>4 DEF Origin!Holding, Origin!Move
  <2>2. Cardinality(Origin!Holding \cup {c}) = Cardinality(Origin!Holding) + 1
    BY <1>1, OriginFinite, FS_AddElement
  <2>3. Origin!ReservationsExact'
    BY <1>4, <2>1, <2>2, OriginCounts DEF Origin!ReservationsExact
  <2>4. Origin!TypeOK'
    BY <1>2, <1>4, OriginConstants DEF Origin!TypeOK, Origin!Move
  <2>5. Origin!NoOvertaking'
    BY <1>4 DEF Origin!NoOvertaking, Origin!TypeOK
  <2>6. OriginShape'
    BY <1>1, <1>2, <1>4 DEF OriginShape, Origin!Move
  <2> QED  BY <2>3, <2>4, <2>5, <2>6
<1>5. CASE /\ ~shut /\ ~(loads < MaxLoads)
           /\ ~(Len(queued) >= MaxWaiting) /\ ~(keyBytes + LoadBytes[c] > MaxWaitingBytes)
           /\ keyBytes' = keyBytes + LoadBytes[c]
           /\ budget' = budget + LoadBytes[c]
           /\ queued' = Append(queued, c)
           /\ Origin!Move(c, "queued")
           /\ UNCHANGED <<loads, shut, released>>
  <2>1. Origin!Holding' = Origin!Holding
    BY <1>1, <1>2, <1>5 DEF Origin!Holding, Origin!Move
  <2>2. /\ queued' \in Seq(Load) /\ Members(queued') = Members(queued) \cup {c}
        /\ Distinct(queued') /\ Len(queued') = Len(queued) + 1
    BY <1>1, <1>5 DEF Members, Distinct, OriginShape, Origin!TypeOK
  <2>3. Total(LoadBytes, Members(queued) \cup {c}) = Total(LoadBytes, Members(queued)) + LoadBytes[c]
    BY <1>1, OriginFinite, OriginConstants, TotalAdd
  <2>4. Origin!ToSet(queued) = Members(queued) /\ Origin!ToSet(queued') = Members(queued')
    BY <2>2, OriginFinite, OriginMembers
  <2>5. Origin!ReservationsExact'
    BY <1>5, <2>1, <2>2, <2>3, <2>4, OriginCounts DEF Origin!ReservationsExact
  <2>6. Origin!TypeOK'
    <3>1. call' \in [Load -> {"new", "queued", "loading"} \cup Origin!Rejected]
      BY <1>2, <1>5 DEF Origin!Move
    <3>2. keyBytes' \in 0..MaxWaitingBytes /\ budget' \in Nat /\ Len(queued') <= MaxWaiting
      BY <1>2, <1>5, <2>2, OriginConstants DEF Origin!TypeOK
    <3> QED  BY <1>5, <2>2, <3>1, <3>2 DEF Origin!TypeOK
  <2>7. Origin!NoOvertaking'
    BY <1>5, OriginConstants DEF Origin!NoOvertaking, Origin!TypeOK
  <2>8. OriginShape'
    BY <1>1, <1>2, <1>5, <2>2 DEF OriginShape, Origin!Move
  <2> QED  BY <2>5, <2>6, <2>7, <2>8
<1> QED
  BY <1>3, <1>4, <1>5 DEF Origin!Acquire

LEMMA OriginDrop ==
  ASSUME OriginInv, NEW c \in Load, NEW why \in Origin!Rejected, Origin!Drop(c, why)
  PROVE  OriginInv'
<1> USE DEF OriginInv
<1>1. queued \in Seq(Load) /\ Origin!ToSet(queued) = Members(queued) /\ Distinct(queued)
  BY OriginMembers DEF Origin!TypeOK, OriginShape
<1>2. c \in Members(queued) /\ call[c] = "queued" /\ c \notin released
  BY <1>1 DEF Origin!Drop, OriginShape
<1>3. /\ queued' \in Seq(Load) /\ Len(queued') = Len(queued) - 1 /\ Distinct(queued')
      /\ Members(queued') = Members(queued) \ {c}
  BY <1>1, <1>2, OriginWithout DEF Origin!Drop
<1>4. /\ Total(LoadBytes, Members(queued) \ {c}) = Total(LoadBytes, Members(queued)) - LoadBytes[c]
      /\ Total(LoadBytes, Members(queued) \ {c}) \in Nat
  BY <1>2, OriginFinite, TotalRemove
<1>5. keyBytes = Total(LoadBytes, Members(queued)) /\ budget = keyBytes
  BY <1>1, OriginCounts DEF Origin!ReservationsExact
<1>6. LoadBytes[c] \in Nat /\ Origin!KeyBytes({c}) = LoadBytes[c]
  BY OriginConstants, OriginCounts, TotalOfOne
<1>7. keyBytes' = keyBytes - LoadBytes[c] /\ budget' = budget - LoadBytes[c]
  BY <1>6 DEF Origin!Drop, Origin!Cleanup
<1>8. /\ call' = [call EXCEPT ![c] = why] /\ call \in [Load -> {"new", "queued", "loading"} \cup Origin!Rejected]
      /\ UNCHANGED <<loads, shut, released>> /\ why # "queued" /\ why # "loading"
  BY DEF Origin!Drop, Origin!Move, Origin!TypeOK, Origin!Rejected
<1>9. Origin!Holding' = Origin!Holding
  BY <1>2, <1>8 DEF Origin!Holding
<1>10. Origin!TypeOK'
  <2>1. keyBytes' \in 0..MaxWaitingBytes /\ budget' \in Nat
    BY <1>4, <1>5, <1>6, <1>7, OriginConstants DEF Origin!TypeOK
  <2>2. Len(queued') <= MaxWaiting
    BY <1>1, <1>3, OriginConstants DEF Origin!TypeOK
  <2> QED  BY <1>3, <1>8, <2>1, <2>2 DEF Origin!TypeOK
<1>11. Origin!ReservationsExact'
  <2>1. Origin!ToSet(queued') = Members(queued')
    BY <1>3, OriginMembers
  <2> QED  BY <1>3, <1>4, <1>5, <1>7, <1>8, <1>9, <2>1, OriginCounts DEF Origin!ReservationsExact
<1>12. Origin!NoOvertaking'
  <2>1. queued # <<>>
    BY <1>1, <1>2, NoMembers
  <2> QED  BY <1>8, <2>1 DEF Origin!NoOvertaking
<1>13. OriginShape'
  BY <1>2, <1>3, <1>8 DEF OriginShape
<1> QED
  BY <1>10, <1>11, <1>12, <1>13

\* The release function: nothing the second time; otherwise the slot comes back or goes to
\* the first that waits.
LEMMA OriginRelease ==
  ASSUME OriginInv, NEW c \in Load, Origin!Release(c)
  PROVE  OriginInv'
<1> USE DEF OriginInv
<1>1. queued \in Seq(Load) /\ Origin!ToSet(queued) = Members(queued) /\ Distinct(queued)
  BY OriginMembers DEF Origin!TypeOK, OriginShape
<1>2. call \in [Load -> {"new", "queued", "loading"} \cup Origin!Rejected] /\ call[c] = "loading"
  BY DEF Origin!Release, Origin!TypeOK
<1>3. CASE c \in released
  <2>1. UNCHANGED originVars
    BY <1>3 DEF Origin!Release, Origin!vars, originVars
  <2> QED  BY <2>1 DEF originVars, Origin!TypeOK, Origin!ReservationsExact, Origin!Holding,
                       Origin!NoOvertaking, OriginShape
<1>4. CASE c \notin released /\ queued = <<>>
  <2>1. /\ released' = released \cup {c} /\ loads' = loads - 1
        /\ UNCHANGED <<queued, keyBytes, budget, call, shut>>
    BY <1>4 DEF Origin!Release
  <2>2. c \in Origin!Holding /\ Origin!Holding' = Origin!Holding \ {c}
    BY <1>2, <1>4, <2>1 DEF Origin!Holding
  <2>3. Cardinality(Origin!Holding \ {c}) = Cardinality(Origin!Holding) - 1
        /\ Cardinality(Origin!Holding) \in Nat /\ Cardinality(Origin!Holding \ {c}) \in Nat
    BY <2>2, OriginFinite, FS_RemoveElement, FS_CardinalityType
  <2>4. Origin!ReservationsExact'
    BY <2>1, <2>2, <2>3, OriginCounts DEF Origin!ReservationsExact
  <2>5. loads' \in 0..MaxLoads
    BY <2>1, <2>3, OriginCounts, OriginConstants DEF Origin!ReservationsExact, Origin!TypeOK
  <2>6. Origin!TypeOK'
    BY <2>1, <2>5 DEF Origin!TypeOK
  <2>7. Origin!NoOvertaking'
    BY <1>4, <2>1 DEF Origin!NoOvertaking
  <2>8. OriginShape'
    BY <1>2, <2>1 DEF OriginShape
  <2> QED  BY <2>4, <2>6, <2>7, <2>8
<1>5. CASE c \notin released /\ queued # <<>>
  <2> DEFINE h == Head(queued)
  <2>1. /\ released' = released \cup {c} /\ queued' = Tail(queued)
        /\ keyBytes' = keyBytes - Origin!KeyBytes({h}) /\ budget' = budget - Origin!KeyBytes({h})
        /\ call' = [call EXCEPT ![h] = "loading"]
        /\ UNCHANGED <<loads, shut>>
    BY <1>5 DEF Origin!Release, Origin!Cleanup, Origin!Move
  <2>2. /\ h \in Members(queued) /\ queued' \in Seq(Load) /\ Len(queued') = Len(queued) - 1
        /\ Distinct(queued') /\ Members(queued') = Members(queued) \ {h}
    BY <1>1, <1>5, <2>1, TailLeaves
  <2> HIDE DEF h
  <2>3. h \in Load /\ call[h] = "queued" /\ h # c /\ h \notin released /\ LoadBytes[h] \in Nat
    BY <1>2, <2>2, OriginFinite DEF OriginShape
  <2>4. /\ c \in Origin!Holding /\ h \notin Origin!Holding
        /\ Origin!Holding' = (Origin!Holding \ {c}) \cup {h}
    BY <1>2, <1>5, <2>1, <2>3 DEF Origin!Holding
  <2>5. Cardinality((Origin!Holding \ {c}) \cup {h}) = Cardinality(Origin!Holding)
    <3>1. IsFiniteSet(Origin!Holding \ {c})
          /\ Cardinality(Origin!Holding \ {c}) = Cardinality(Origin!Holding) - 1
      BY <2>4, OriginFinite, FS_RemoveElement
    <3>2. Cardinality((Origin!Holding \ {c}) \cup {h}) = Cardinality(Origin!Holding \ {c}) + 1
      BY <2>4, <3>1, FS_AddElement
    <3> QED  BY <3>1, <3>2, OriginFinite
  <2>6. /\ Total(LoadBytes, Members(queued) \ {h}) = Total(LoadBytes, Members(queued)) - LoadBytes[h]
        /\ Total(LoadBytes, Members(queued) \ {h}) \in Nat
    BY <2>2, OriginFinite, TotalRemove
  <2>7. keyBytes' = keyBytes - LoadBytes[h] /\ budget' = budget - LoadBytes[h]
    BY <2>1, <2>3, OriginCounts, TotalOfOne
  <2>8. keyBytes = Total(LoadBytes, Members(queued)) /\ budget = keyBytes
    BY <1>1, OriginCounts DEF Origin!ReservationsExact
  <2>9. Origin!ReservationsExact'
    <3>1. Origin!ToSet(queued') = Members(queued')
      BY <2>2, OriginMembers
    <3> QED  BY <2>1, <2>2, <2>4, <2>5, <2>6, <2>7, <2>8, <3>1, OriginCounts DEF Origin!ReservationsExact
  <2>10. Origin!TypeOK'
    <3>1. keyBytes' \in 0..MaxWaitingBytes /\ budget' \in Nat
      BY <2>3, <2>6, <2>7, <2>8, OriginConstants DEF Origin!TypeOK
    <3>2. Len(queued') <= MaxWaiting
      BY <1>1, <2>2, OriginConstants DEF Origin!TypeOK
    <3>3. call' \in [Load -> {"new", "queued", "loading"} \cup Origin!Rejected]
      BY <1>2, <2>1
    <3> QED  BY <2>1, <2>2, <3>1, <3>2, <3>3 DEF Origin!TypeOK
  <2>11. Origin!NoOvertaking'
    BY <1>5, <2>1 DEF Origin!NoOvertaking
  <2>12. OriginShape'
    BY <1>2, <2>1, <2>2, <2>3 DEF OriginShape
  <2> QED  BY <2>9, <2>10, <2>11, <2>12
<1> QED
  BY <1>3, <1>4, <1>5

LEMMA OriginClose ==
  ASSUME OriginInv, Origin!Close
  PROVE  OriginInv'
<1> USE DEF OriginInv
<1>1. queued \in Seq(Load) /\ Origin!ToSet(queued) = Members(queued) /\ Members(queued) \subseteq Load
  BY OriginFinite, OriginMembers
<1>2. /\ queued' = <<>> /\ shut' = TRUE /\ UNCHANGED <<loads, released>>
      /\ call' = [c \in Load |-> IF c \in Members(queued) THEN "closed" ELSE call[c]]
  BY <1>1 DEF Origin!Close
<1>3. keyBytes = Total(LoadBytes, Members(queued)) /\ budget = keyBytes
  BY <1>1, OriginCounts DEF Origin!ReservationsExact
<1>4. keyBytes' = 0 /\ budget' = 0
  <2>1. keyBytes' = keyBytes - Total(LoadBytes, Members(queued))
        /\ budget' = budget - Total(LoadBytes, Members(queued))
    BY <1>1, OriginCounts DEF Origin!Close, Origin!Cleanup
  <2>2. keyBytes \in Nat /\ budget \in Nat
    BY DEF Origin!TypeOK
  <2> QED  BY <1>3, <2>1, <2>2
<1>5. queued' \in Seq(Load) /\ Members(queued') = {} /\ Distinct(queued') /\ Len(queued') = 0
  BY <1>2 DEF Members, Distinct
<1>6. Origin!Holding' = Origin!Holding
  BY <1>2 DEF Origin!Holding, OriginShape
<1>7. Origin!TypeOK'
  <2>1. call' \in [Load -> {"new", "queued", "loading"} \cup Origin!Rejected]
    BY <1>2 DEF Origin!TypeOK, Origin!Rejected
  <2>2. keyBytes' \in 0..MaxWaitingBytes /\ budget' \in Nat /\ Len(queued') <= MaxWaiting
    BY <1>4, <1>5, OriginConstants
  <2> QED  BY <1>2, <1>5, <2>1, <2>2 DEF Origin!TypeOK
<1>8. Origin!ReservationsExact'
  <2>1. Origin!ToSet(queued') = {}
    BY <1>5, OriginMembers
  <2> QED  BY <1>2, <1>4, <1>6, <2>1, OriginCounts, TotalOfNone DEF Origin!ReservationsExact
<1>9. Origin!NoOvertaking'
  BY <1>2 DEF Origin!NoOvertaking
<1>10. OriginShape'
  BY <1>1, <1>2, <1>5 DEF OriginShape, Origin!TypeOK
<1> QED
  BY <1>7, <1>8, <1>9, <1>10

LEMMA OriginStep == OriginInv /\ Origin!Next => OriginInv'
<1> SUFFICES ASSUME OriginInv, Origin!Next PROVE OriginInv'
  OBVIOUS
<1>1. ASSUME NEW c \in Load, NEW fits \in BOOLEAN, Origin!Acquire(c, fits) PROVE OriginInv'
  BY <1>1, OriginAcquire
<1>2. ASSUME NEW c \in Load, Origin!AcquireAborted(c) PROVE OriginInv'
  BY <1>2, OriginReject DEF Origin!AcquireAborted, Origin!Rejected
<1>3. ASSUME NEW c \in Load, Origin!QueueTimer(c) \/ Origin!AbortWaiter(c) PROVE OriginInv'
  BY <1>3, OriginDrop DEF Origin!QueueTimer, Origin!AbortWaiter, Origin!Rejected
<1>4. ASSUME NEW c \in Load, Origin!Release(c) PROVE OriginInv'
  BY <1>4, OriginRelease
<1>5. ASSUME Origin!Close PROVE OriginInv'
  BY <1>5, OriginClose
<1> QED
  BY <1>1, <1>2, <1>3, <1>4, <1>5 DEF Origin!Next

-----------------------------------------------------------------------------
(* The origin gate implements AdmissionGate *)

\* The loads that were refused, aborted or closed out.
OriginAway == {c \in Load : call[c] \in Origin!Rejected}

LEMMA OriginAbstract ==
  /\ \A S : Origin!Gate!Cardinality(S) = Cardinality(S)
  /\ \A s \in Seq(Load) : Origin!Gate!ToSet(s) = Members(s)
  /\ \A s, t \in Seq(Load) : \A gone : LeftOf(t, s, gone) => Origin!Gate!Left(t, s, gone)
<1>1. ASSUME NEW S PROVE Origin!Gate!Cardinality(S) = Cardinality(S)
  BY DEF Origin!Gate!Cardinality, Cardinality
<1>2. ASSUME NEW s \in Seq(Load) PROVE Origin!Gate!ToSet(s) = Members(s)
  BY DEF Origin!Gate!ToSet, Members
<1>3. ASSUME NEW s \in Seq(Load), NEW t \in Seq(Load), NEW gone, LeftOf(t, s, gone)
      PROVE  Origin!Gate!Left(t, s, gone)
  BY <1>2, <1>3, Zenon DEF Origin!Gate!Left, LeftOf
<1> QED
  BY <1>1, <1>2, <1>3

LEMMA OriginOutside ==
  ASSUME OriginInv, NEW c \in Load, call[c] = "new"
  PROVE  c \in Origin!Gate!Outside
<1>1. queued \in Seq(Load)
  BY DEF OriginInv, Origin!TypeOK
<1>2. c \notin Members(queued) /\ c \notin Origin!Holding /\ c \notin OriginAway
  BY DEF OriginInv, OriginShape, OriginAway, Origin!Rejected, Origin!Holding
<1> QED
  BY <1>1, <1>2, OriginAbstract DEF Origin!Gate!Outside, OriginAway

LEMMA OriginRejectRefines ==
  ASSUME OriginInv, NEW c \in Load, call[c] = "new",
         NEW why \in Origin!Rejected, Origin!Reject(c, why)
  PROVE  Origin!Gate!Refuse(c)
<1>1. c \in Origin!Gate!Outside
  BY OriginOutside
<1>2. OriginAway' = OriginAway \cup {c}
  BY DEF OriginAway, Origin!Reject, Origin!Move, OriginInv, Origin!TypeOK
<1>3. Origin!Holding' = Origin!Holding /\ queued' = queued
  BY OriginReject DEF Origin!Reject
<1> QED
  BY <1>1, <1>2, <1>3 DEF Origin!Gate!Refuse, OriginAway

LEMMA OriginAcquireRefines ==
  ASSUME OriginInv, NEW c \in Load, NEW fits \in BOOLEAN, Origin!Acquire(c, fits)
  PROVE  Origin!Gate!Refuse(c) \/ Origin!Gate!Enter(c) \/ Origin!Gate!Queue(c)
<1> USE DEF OriginInv
<1>1. call[c] = "new" /\ c \in Origin!Gate!Outside /\ c \notin released
  BY OriginOutside DEF Origin!Acquire, OriginShape
<1>2. loads = Origin!Gate!Cardinality(Origin!Holding)
  BY OriginCounts, OriginAbstract DEF Origin!ReservationsExact
<1>3. call \in [Load -> {"new", "queued", "loading"} \cup Origin!Rejected]
  BY DEF Origin!TypeOK
<1>4. CASE \E why \in {"closed", "overloaded"} : Origin!Reject(c, why)
  BY <1>1, <1>4, OriginRejectRefines DEF Origin!Rejected
<1>5. CASE /\ ~shut /\ loads < MaxLoads
           /\ Origin!Move(c, "loading") /\ UNCHANGED <<queued, released>>
  <2>1. Origin!Holding' = Origin!Holding \cup {c} /\ OriginAway' = OriginAway
    BY <1>1, <1>3, <1>5 DEF Origin!Holding, OriginAway, Origin!Move, Origin!Rejected
  <2>2. queued = <<>>
    BY <1>5, OriginConstants DEF Origin!NoOvertaking, Origin!TypeOK
  <2> QED  BY <1>1, <1>2, <1>5, <2>1, <2>2 DEF Origin!Gate!Enter, OriginAway
<1>6. CASE /\ ~shut /\ ~(loads < MaxLoads) /\ ~(Len(queued) >= MaxWaiting)
           /\ queued' = Append(queued, c)
           /\ Origin!Move(c, "queued") /\ UNCHANGED released
  <2>1. Origin!Holding' = Origin!Holding /\ OriginAway' = OriginAway
    BY <1>1, <1>3, <1>6 DEF Origin!Holding, OriginAway, Origin!Move, Origin!Rejected
  <2>2. Origin!Gate!Cardinality(Origin!Holding) = MaxLoads /\ Len(queued) < MaxWaiting
    BY <1>2, <1>6, OriginConstants DEF Origin!TypeOK
  <2> QED  BY <1>1, <1>6, <2>1, <2>2 DEF Origin!Gate!Queue, OriginAway
<1> QED
  BY <1>4, <1>5, <1>6 DEF Origin!Acquire

LEMMA OriginDropRefines ==
  ASSUME OriginInv, NEW c \in Load, NEW why \in Origin!Rejected, Origin!Drop(c, why)
  PROVE  c \in Origin!Gate!ToSet(queued) /\ Origin!Gate!GiveUp({c})
<1> USE DEF OriginInv
<1>1. queued \in Seq(Load) /\ c \in Members(queued) /\ Distinct(queued)
  BY OriginMembers DEF Origin!TypeOK, Origin!Drop, OriginShape
<1>2. queued' \in Seq(Load) /\ LeftOf(queued', queued, {c})
  BY <1>1, OriginWithout DEF Origin!Drop
<1>3. Origin!Gate!ToSet(queued) = Members(queued) /\ Origin!Gate!Left(queued', queued, {c})
  BY <1>1, <1>2, OriginAbstract
<1>4. OriginAway' = OriginAway \cup {c}
  BY DEF OriginAway, Origin!Drop, Origin!Move, Origin!TypeOK
<1>5. Origin!Holding' = Origin!Holding
  BY <1>1 DEF Origin!Holding, Origin!Drop, Origin!Move, Origin!TypeOK, Origin!Rejected, OriginShape
<1> QED
  BY <1>1, <1>3, <1>4, <1>5 DEF Origin!Gate!GiveUp, OriginAway

LEMMA OriginReleaseRefines ==
  ASSUME OriginInv, NEW c \in Load, Origin!Release(c), c \notin released
  PROVE  c \in Origin!Holding /\ Origin!Gate!HandOver(c, {})
<1> USE DEF OriginInv
<1>1. queued \in Seq(Load) /\ Origin!Gate!ToSet(queued) = Members(queued) /\ Distinct(queued)
  BY OriginAbstract DEF Origin!TypeOK, OriginShape
<1>2. /\ call \in [Load -> {"new", "queued", "loading"} \cup Origin!Rejected] /\ call[c] = "loading"
      /\ released' = released \cup {c}
  BY DEF Origin!Release, Origin!TypeOK
<1>3. c \in Origin!Holding
  BY <1>2 DEF Origin!Holding
<1>4. CASE queued = <<>>
  <2>1. UNCHANGED <<queued, call>>
    BY <1>4 DEF Origin!Release
  <2>2. Origin!Holding' = Origin!Holding \ {c} /\ OriginAway' = OriginAway
    BY <1>2, <2>1 DEF Origin!Holding, OriginAway
  <2>3. Members(queued) = {}
    BY <1>1, <1>4, NoMembers
  <2> QED  BY <1>1, <1>3, <1>4, <2>1, <2>2, <2>3 DEF Origin!Gate!HandOver, OriginAway
<1>5. CASE queued # <<>>
  <2>1. queued' = Tail(queued) /\ call' = [call EXCEPT ![Head(queued)] = "loading"]
    BY <1>5 DEF Origin!Release, Origin!Move
  <2>2. Head(queued) \in Members(queued) /\ <<Head(queued)>> \o queued' = queued
    BY <1>1, <1>5, <2>1, TailLeaves
  <2>3. PICK h \in Members(queued) : h = Head(queued)
    BY <2>2
  <2>4. h \in Load /\ call[h] = "queued" /\ h # c /\ h \notin released
    BY <1>2, <2>3, OriginFinite DEF OriginShape
  <2>5. Origin!Holding' = (Origin!Holding \ {c}) \cup {h} /\ OriginAway' = OriginAway
    BY <1>2, <2>1, <2>3, <2>4 DEF Origin!Holding, OriginAway, Origin!Rejected
  <2>6. Origin!Gate!Left(queued, queued, {})
    <3>1. LeftOf(queued, queued, {})
      BY DEF LeftOf
    <3> QED  BY <1>1, <3>1, OriginAbstract
  <2>7. Origin!Gate!Left(<<h>> \o queued', queued, {})
    BY <2>2, <2>3, <2>6
  <2> QED  BY <1>1, <1>3, <2>3, <2>5, <2>7 DEF Origin!Gate!HandOver, OriginAway
<1> QED
  BY <1>3, <1>4, <1>5

LEMMA OriginRefines == OriginInv /\ Origin!Next => [Origin!Gate!Next]_(Origin!Gate!gateVars)
<1> SUFFICES ASSUME OriginInv, Origin!Next
             PROVE  Origin!Gate!Next \/ UNCHANGED <<queued, Origin!Holding, OriginAway>>
  BY DEF Origin!Gate!gateVars, OriginAway
<1>1. ASSUME NEW c \in Load, NEW fits \in BOOLEAN, Origin!Acquire(c, fits) PROVE Origin!Gate!Next
  BY <1>1, OriginAcquireRefines DEF Origin!Gate!Next
<1>2. ASSUME NEW c \in Load, Origin!AcquireAborted(c) PROVE Origin!Gate!Next
  <2>1. Origin!Gate!Refuse(c)
    BY <1>2, OriginRejectRefines DEF Origin!AcquireAborted, Origin!Rejected
  <2> QED  BY <2>1 DEF Origin!Gate!Next
<1>3. ASSUME NEW c \in Load, Origin!QueueTimer(c) \/ Origin!AbortWaiter(c) PROVE Origin!Gate!Next
  <2>1. c \in Origin!Gate!ToSet(queued) /\ Origin!Gate!GiveUp({c})
    BY <1>3, OriginDropRefines DEF Origin!QueueTimer, Origin!AbortWaiter, Origin!Rejected
  <2>2. {c} \in SUBSET Origin!Gate!ToSet(queued)
    BY <2>1
  <2> QED  BY <2>1, <2>2 DEF Origin!Gate!Next
<1>4. ASSUME NEW c \in Load, Origin!Release(c), c \notin released PROVE Origin!Gate!Next
  <2>1. c \in Origin!Holding /\ Origin!Gate!HandOver(c, {})
    BY <1>4, OriginReleaseRefines
  <2>2. {} \in SUBSET Origin!Gate!ToSet(queued)
    OBVIOUS
  <2> QED  BY <2>1, <2>2 DEF Origin!Gate!Next
<1>5. ASSUME NEW c \in Load, Origin!Release(c), c \in released
      PROVE  UNCHANGED <<queued, Origin!Holding, OriginAway>>
  BY <1>5 DEF Origin!Release, Origin!vars, Origin!Holding, OriginAway
<1>6. ASSUME Origin!Close PROVE Origin!Gate!Next \/ UNCHANGED <<queued, Origin!Holding, OriginAway>>
  <2>1. /\ queued \in Seq(Load) /\ Origin!ToSet(queued) = Members(queued)
        /\ Origin!Gate!ToSet(queued) = Members(queued) /\ Members(queued) \subseteq Load
    BY OriginMembers, OriginAbstract, OriginFinite DEF OriginInv
  <2>2. /\ queued' = <<>> /\ released' = released
        /\ call' = [c \in Load |-> IF c \in Members(queued) THEN "closed" ELSE call[c]]
    BY <1>6, <2>1 DEF Origin!Close
  <2>3. Origin!Holding' = Origin!Holding
    BY <2>2 DEF Origin!Holding, OriginInv, OriginShape
  <2>4. OriginAway' = OriginAway \cup Members(queued)
    BY <2>1, <2>2 DEF OriginAway, Origin!Rejected
  <2>5. CASE Members(queued) = {}
    <3>1. queued = <<>>
      BY <2>1, <2>5, NoMembers
    <3> QED  BY <2>2, <2>3, <2>4, <2>5, <3>1
  <2>6. CASE Members(queued) # {}
    <3>1. queued' \in Seq(Load) /\ LeftOf(queued', queued, Members(queued))
      BY <2>2 DEF LeftOf, Members
    <3>2. Origin!Gate!Left(queued', queued, Members(queued))
      BY <2>1, <3>1, OriginAbstract
    <3>3. PICK gone \in SUBSET Origin!Gate!ToSet(queued) : gone = Members(queued)
      BY <2>1
    <3>4. Origin!Gate!GiveUp(gone)
      BY <2>1, <2>2, <2>3, <2>4, <2>6, <3>2, <3>3 DEF Origin!Gate!GiveUp, Origin!Gate!Left, OriginAway
    <3> QED  BY <3>4 DEF Origin!Gate!Next
  <2> QED  BY <2>5, <2>6
<1>7. \/ \E c \in Load : \/ \E fits \in BOOLEAN : Origin!Acquire(c, fits)
                         \/ Origin!AcquireAborted(c) \/ Origin!QueueTimer(c)
                         \/ Origin!AbortWaiter(c) \/ Origin!Release(c)
      \/ Origin!Close
  BY DEF Origin!Next
<1> QED
  BY <1>1, <1>2, <1>3, <1>4, <1>5, <1>6, <1>7, Zenon

LEMMA OriginRefinesInit == Origin!Init => Origin!Gate!Init
<1> SUFFICES ASSUME Origin!Init PROVE Origin!Gate!Init
  OBVIOUS
<1>1. OriginAway = {} /\ Origin!Holding = {}
  BY DEF Origin!Init, OriginAway, Origin!Rejected, Origin!Holding
<1> QED
  BY <1>1 DEF Origin!Init, Origin!Gate!Init, OriginAway

-----------------------------------------------------------------------------
(* The circuit breaker *)

\* Nobody was admitted in a later epoch.  While the breaker is half-open its probe is
\* remembered, and only one call under way was admitted since it opened; while it is open
\* there is none.
BreakerInv ==
  /\ Breaker!TypeOK
  /\ \A c \in User : admittedAt[c] <= epoch
  /\ state = "half-open" =>
       probeInFlight /\ \A c, d \in calling : admittedAt[c] = epoch /\ admittedAt[d] = epoch => c = d
  /\ state = "open" => \A c \in calling : admittedAt[c] < epoch

LEMMA BreakerConstants ==
  FailureThreshold \in Nat \ {0} /\ CooldownMs \in Nat /\ MaxEpoch \in Nat
BY OverloadAssumption DEF Breaker!BreakerAssumption

LEMMA BreakerInit == Breaker!Init => BreakerInv
<1> SUFFICES ASSUME Breaker!Init PROVE BreakerInv
  OBVIOUS
<1>1. withEpoch \in BOOLEAN /\ probeInFlight \in BOOLEAN
  BY DEF Breaker!Init
<1>2. Breaker!TypeOK
  BY <1>1, BreakerConstants DEF Breaker!Init, Breaker!TypeOK
<1> QED
  BY <1>2 DEF Breaker!Init, BreakerInv

\* A call that canCall() lets through.
LEMMA BreakerBegin ==
  ASSUME BreakerInv, UNCHANGED withEpoch, NEW c \in User, Breaker!Begin(c)
  PROVE  BreakerInv' /\ state' # "open" /\ (state = "open" => sinceOpened = CooldownMs /\ state' = "half-open")
                     /\ (state = "half-open" => state' = "half-open")
<1> USE DEF BreakerInv
<1>1. /\ epoch \in Nat /\ calling \subseteq User /\ admittedAt \in [User -> Nat]
      /\ \A d \in User : admittedAt[d] \in Nat /\ admittedAt[d] <= epoch
      /\ c \notin calling
  BY DEF Breaker!TypeOK, Breaker!Begin
<1>2. CASE /\ state = "closed" /\ Breaker!Admit(c, epoch)
           /\ UNCHANGED <<state, failures, epoch, probeInFlight, sinceOpened>>
  BY <1>1, <1>2 DEF Breaker!Admit, Breaker!TypeOK
<1>3. CASE /\ state = "open" /\ sinceOpened = CooldownMs /\ epoch < MaxEpoch
           /\ Breaker!HalfOpen(c, epoch + 1)
  <2>1. /\ calling' = calling \cup {c} /\ admittedAt' = [admittedAt EXCEPT ![c] = epoch + 1]
        /\ state' = "half-open" /\ epoch' = epoch + 1 /\ probeInFlight' = TRUE
        /\ UNCHANGED <<failures, sinceOpened>>
    BY <1>3 DEF Breaker!HalfOpen, Breaker!Admit
  <2>2. Breaker!TypeOK'
    BY <1>1, <2>1 DEF Breaker!TypeOK
  <2>3. ASSUME NEW d \in User PROVE admittedAt'[d] <= epoch' /\ (d # c => admittedAt'[d] < epoch')
    BY <1>1, <2>1
  <2> QED  BY <1>1, <1>3, <2>1, <2>2, <2>3
<1>4. CASE state = "half-open" /\ ~probeInFlight /\ Breaker!HalfOpen(c, epoch)
  BY <1>4
<1> QED
  BY <1>2, <1>3, <1>4 DEF Breaker!Begin

\* A call ends, with whatever result; what it does to the state is told apart by Counts.
LEMMA BreakerEnds ==
  ASSUME BreakerInv, UNCHANGED withEpoch, NEW c \in User, Breaker!Succeeds(c) \/ Breaker!Fails(c)
  PROVE  /\ BreakerInv'
         /\ state' # state => c \in calling /\ c \notin calling' /\ Breaker!Counts(c)
<1> USE DEF BreakerInv
<1>1. /\ c \in calling /\ calling' = calling \ {c} /\ admittedAt' = admittedAt
      /\ epoch \in Nat /\ calling \subseteq User /\ admittedAt \in [User -> Nat]
      /\ \A d \in User : admittedAt[d] \in Nat /\ admittedAt[d] <= epoch
  BY DEF Breaker!TypeOK, Breaker!Succeeds, Breaker!Fails, Breaker!Ends
<1>2. CASE UNCHANGED <<state, probeInFlight, failures, sinceOpened, epoch>>
  BY <1>1, <1>2 DEF Breaker!TypeOK
<1>3. CASE /\ Breaker!Counts(c)
           /\ state' = "closed" /\ probeInFlight' = FALSE /\ failures' = 0 /\ sinceOpened' = 0
           /\ UNCHANGED epoch
  <2>1. probeInFlight' \in BOOLEAN
    BY <1>3
  <2>2. Breaker!TypeOK'
    BY <1>1, <1>3, <2>1, BreakerConstants DEF Breaker!TypeOK
  <2> QED  BY <1>1, <1>3, <2>2
<1>4. CASE /\ Breaker!Counts(c)
           /\ Breaker!Open /\ failures' \in {failures, failures + 1}
  <2>1. /\ state' = "open" /\ sinceOpened' = 0 /\ probeInFlight' = FALSE /\ epoch' = epoch + 1
        /\ failures' \in Nat
    BY <1>4 DEF Breaker!Open, Breaker!TypeOK
  <2>2. probeInFlight' \in BOOLEAN
    BY <2>1
  <2>3. Breaker!TypeOK'
    BY <1>1, <2>1, <2>2, BreakerConstants DEF Breaker!TypeOK
  <2>4. ASSUME NEW d \in User PROVE admittedAt'[d] < epoch'
    BY <1>1, <2>1
  <2> QED  BY <1>1, <1>4, <2>1, <2>3, <2>4
<1>5. CASE /\ failures' = failures + 1 /\ UNCHANGED <<state, probeInFlight, sinceOpened, epoch>>
  BY <1>1, <1>5 DEF Breaker!TypeOK
<1> QED
  BY <1>2, <1>3, <1>4, <1>5 DEF Breaker!Succeeds, Breaker!Fails

LEMMA BreakerTick ==
  ASSUME BreakerInv, UNCHANGED withEpoch, Breaker!Tick
  PROVE  BreakerInv' /\ state' = state
BY BreakerConstants DEF BreakerInv, Breaker!Tick, Breaker!TypeOK

LEMMA BreakerStep == BreakerInv /\ Breaker!Next => BreakerInv'
<1> SUFFICES ASSUME BreakerInv, Breaker!Next PROVE BreakerInv'
  OBVIOUS
<1> QED
  BY BreakerBegin, BreakerEnds, BreakerTick DEF Breaker!Next

LEMMA BreakerProbe == BreakerInv => Breaker!OneProbe
<1> SUFFICES ASSUME BreakerInv, state = "half-open"
             PROVE  Breaker!Cardinality({c \in calling : admittedAt[c] = epoch}) <= 1
  BY DEF Breaker!OneProbe
<1> DEFINE probes == {c \in calling : admittedAt[c] = epoch}
<1>1. \A c, d \in probes : c = d
  BY DEF BreakerInv
<1>2. Cardinality(probes) <= 1
  <2>1. CASE probes = {}
    BY <2>1, FS_EmptySet
  <2>2. CASE probes # {}
    <3>1. PICK c \in probes : TRUE
      BY <2>2
    <3>2. probes = {c}
      BY <1>1, <3>1
    <3>3. Cardinality({c}) = 1
      BY FS_Singleton
    <3> QED  BY <3>2, <3>3
  <2> QED  BY <2>1, <2>2
<1>3. Breaker!Cardinality(probes) = Cardinality(probes)
  BY DEF Breaker!Cardinality, Cardinality
<1> QED
  BY <1>2, <1>3

\* The half-open breaker changes its state only with the result of its probe, the open one
\* only after the cooldown and only to half-open.
LEMMA BreakerSettles ==
  ASSUME BreakerInv, Breaker!Next, withEpoch
  PROVE  /\ state = "half-open" /\ state' # "half-open" =>
              \E c \in calling : c \notin calling' /\ admittedAt[c] = epoch
         /\ state = "open" /\ state' # "open" => sinceOpened = CooldownMs /\ state' = "half-open"
<1> DEFINE Goal ==
      /\ state = "half-open" /\ state' # "half-open" =>
           \E c \in calling : c \notin calling' /\ admittedAt[c] = epoch
      /\ state = "open" /\ state' # "open" => sinceOpened = CooldownMs /\ state' = "half-open"
<1>1. UNCHANGED withEpoch
  BY DEF Breaker!Next
<1>2. ASSUME Breaker!Tick PROVE Goal
  BY <1>1, <1>2, BreakerTick
<1>3. ASSUME NEW c \in User, Breaker!Begin(c) PROVE Goal
  BY <1>1, <1>3, BreakerBegin
<1>4. ASSUME NEW c \in User, Breaker!Succeeds(c) \/ Breaker!Fails(c) PROVE Goal
  <2>1. state' # state => c \in calling /\ c \notin calling' /\ admittedAt[c] = epoch
    BY <1>1, <1>4, BreakerEnds DEF Breaker!Counts
  <2>2. state = "open" => state' = state
    BY <2>1 DEF BreakerInv, Breaker!TypeOK
  <2> QED  BY <2>1, <2>2
<1> QED
  BY <1>2, <1>3, <1>4 DEF Breaker!Next

-----------------------------------------------------------------------------
(* All of them *)

OverloadInv == GateInv /\ OriginInv /\ BreakerInv

LEMMA OverloadInit == Init => OverloadInv
BY GateInit, OriginInit, BreakerInit DEF Init, OverloadInv

\* What takes no part stays as it is.
LEMMA GateFrame == GateInv /\ UNCHANGED gateVars => GateInv'
BY DEF GateInv, gateVars, Gate!TypeOK, Gate!CountersExact, Gate!NoIdleSlot, GateShape

LEMMA OriginFrame == OriginInv /\ UNCHANGED originVars => OriginInv'
BY DEF OriginInv, originVars, Origin!TypeOK, Origin!ReservationsExact, Origin!Holding,
       Origin!NoOvertaking, OriginShape

LEMMA BreakerFrame == BreakerInv /\ UNCHANGED breakerVars => BreakerInv'
BY DEF BreakerInv, breakerVars, Breaker!TypeOK

LEMMA OverloadStep == OverloadInv /\ [Next]_vars => OverloadInv'
<1> SUFFICES ASSUME OverloadInv, [Next]_vars PROVE OverloadInv'
  OBVIOUS
<1>1. Gate!Next \/ UNCHANGED gateVars
  BY DEF Next, vars
<1>2. Origin!Next \/ UNCHANGED originVars
  BY DEF Next, vars
<1>3. Breaker!Next \/ UNCHANGED breakerVars
  BY DEF Next, vars
<1> QED
  BY <1>1, <1>2, <1>3, GateStep, GateFrame, OriginStep, OriginFrame, BreakerStep, BreakerFrame
  DEF OverloadInv

LEMMA OverloadInvariant == Spec => []OverloadInv
BY OverloadInit, OverloadStep, PTL DEF Spec

(***************************************************************************)
(* For any number of calls, any sizes and any limits: the counters the gates *)
(* test their limits against (active, activeBytes, queuedBytes and the bytes *)
(* reserved of the memory budget) are what is really there, and no call      *)
(* waits beside a free slot or at a closed gate, through expiry, abort,      *)
(* timeout, late settlement, hand-over, second release and close.            *)
(***************************************************************************)
THEOREM SlotsAlwaysExact == Spec => []SlotsExact
<1>1. OverloadInv => SlotsExact
  BY DEF OverloadInv, GateInv, OriginInv, BreakerInv, SlotsExact, TypeOK, CountersExact, NoIdleSlot,
         ReservationsExact, NoOvertaking
<1> QED
  BY <1>1, OverloadInvariant, PTL

(***************************************************************************)
(* L2OperationGate, BoundedOperationGate and OriginLoadGate implement        *)
(* AdmissionGate: slots within the limit, given in the order of waiting and  *)
(* never to a call that was turned away; and a call reported as unavailable  *)
(* is not dispatched later.                                                  *)
(***************************************************************************)
THEOREM GatesImplementAdmission == Spec => AdmissionKept
<1>1. Init => Gate!Gate!Init /\ Origin!Gate!Init
  BY GateRefinesInit, OriginRefinesInit DEF Init
<1>2. OverloadInv /\ [Next]_vars => [Gate!Gate!Next]_(Gate!Gate!gateVars)
  <2> SUFFICES ASSUME OverloadInv, [Next]_vars PROVE [Gate!Gate!Next]_(Gate!Gate!gateVars)
    OBVIOUS
  <2>1. Gate!Next \/ UNCHANGED gateVars
    BY DEF Next, vars
  <2>2. UNCHANGED gateVars => UNCHANGED Gate!Gate!gateVars
    BY DEF gateVars, Gate!Gate!gateVars
  <2> QED  BY <2>1, <2>2, GateRefines DEF OverloadInv
<1>3. OverloadInv /\ [Next]_vars => [Origin!Gate!Next]_(Origin!Gate!gateVars)
  <2> SUFFICES ASSUME OverloadInv, [Next]_vars PROVE [Origin!Gate!Next]_(Origin!Gate!gateVars)
    OBVIOUS
  <2>1. Origin!Next \/ UNCHANGED originVars
    BY DEF Next, vars
  <2>2. UNCHANGED originVars => UNCHANGED Origin!Gate!gateVars
    BY DEF originVars, Origin!Gate!gateVars, Origin!Holding
  <2> QED  BY <2>1, <2>2, OriginRefines DEF OverloadInv
<1>4. OverloadInv /\ [Next]_vars =>
        [\A c \in Call : caller[c] \in Gate!Refused => c \notin running' /\ caller'[c] = caller[c]]_(Gate!vars)
  <2> SUFFICES ASSUME OverloadInv, [Next]_vars,
                      ~ UNCHANGED Gate!vars, NEW c \in Call, caller[c] \in Gate!Refused
               PROVE  c \notin running' /\ caller'[c] = caller[c]
    OBVIOUS
  <2>1. Gate!Next \/ UNCHANGED gateVars
    BY DEF Next, vars
  <2>2. ~ UNCHANGED gateVars
    BY DEF gateVars, Gate!vars, Gate!gateVars
  <2> QED  BY <2>1, <2>2, GateRefusal DEF OverloadInv
<1> QED
  BY <1>1, <1>2, <1>3, <1>4, OverloadInvariant, PTL
  DEF Spec, AdmissionKept, RefusedNeverRuns, Gate!RefusedNeverRuns, Gate!ImplementsGate, Origin!ImplementsGate,
      Gate!Gate!Spec, Origin!Gate!Spec

(***************************************************************************)
(* For any threshold, cooldown and number of users: a half-open breaker      *)
(* trusts at most one call admitted since it opened; the L2 breaker leaves   *)
(* half-open only on that call's own result, and leaves open only after the  *)
(* cooldown, for half-open.                                                  *)
(***************************************************************************)
THEOREM ProbeAlwaysDecides == Spec => ProbeDecides
<1>1. OverloadInv => OneProbe
  BY BreakerProbe DEF OverloadInv, OneProbe
<1>2. OverloadInv /\ [Next]_vars =>
        /\ [withEpoch /\ state = "half-open" /\ state' # "half-open" =>
              \E c \in calling : c \notin calling' /\ admittedAt[c] = epoch]_(Breaker!vars)
        /\ [withEpoch /\ state = "open" /\ state' # "open" =>
              sinceOpened = CooldownMs /\ state' = "half-open"]_(Breaker!vars)
  <2> SUFFICES ASSUME OverloadInv, [Next]_vars, ~ UNCHANGED Breaker!vars, withEpoch
               PROVE  /\ state = "half-open" /\ state' # "half-open" =>
                           \E c \in calling : c \notin calling' /\ admittedAt[c] = epoch
                      /\ state = "open" /\ state' # "open" =>
                           sinceOpened = CooldownMs /\ state' = "half-open"
    OBVIOUS
  <2>1. Breaker!Next \/ UNCHANGED breakerVars
    BY DEF Next, vars
  <2>2. ~ UNCHANGED breakerVars
    BY DEF breakerVars, Breaker!vars, Breaker!breakerVars
  <2> QED  BY <2>1, <2>2, BreakerSettles DEF OverloadInv
<1> QED
  BY <1>1, <1>2, OverloadInvariant, PTL
  DEF Spec, ProbeDecides, SettledByProbe, OpenUntilProbe, Breaker!ProbeDecides, Breaker!OpenUntilProbe
=============================================================================
