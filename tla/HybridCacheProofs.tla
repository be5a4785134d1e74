-------------------------- MODULE HybridCacheProofs --------------------------
(***************************************************************************)
(* TLAPS proofs about HybridCache, for any number of processes and calls:    *)
(* L1 of a connected process that trusts its bus is never behind a delete,   *)
(* and among the calls of one process a delete reaches L2.                   *)
(***************************************************************************)
EXTENDS HybridCache, Queues, TLAPS

-----------------------------------------------------------------------------
(* The inductive invariant *)

\* The tasks that bring an entry to L1.
Reads(t) == kind[t] \in {"get", "prime", "fill"}

\* No delete of the process is under way to L2.
NoDeleteIn(s) == \A i \in 1..Len(s) : kind[s[i]] # "delete"
NoDelete(p) == NoDeleteIn(gate[p]) /\ NoDeleteIn(wire[p])

\* A task is in the gate once and waits there; what is on the wire was begun.  The handler
\* only primes, deletes are slots' calls, only loaders load, and reads are never refused.
TasksInv ==
  /\ \A p \in Proc : Distinct(gate[p])
  /\ \A p \in Proc : \A i \in 1..Len(gate[p]) : Home(gate[p][i]) = p /\ pc[gate[p][i]] = "gate"
  /\ \A p \in Proc : \A i \in 1..Len(wire[p]) :
       Home(wire[p][i]) = p /\ (wire[p][i] # Handler(p) => pc[wire[p][i]] # "idle")
  /\ \A p \in Proc : kind[Handler(p)] \in {"none", "prime"}
  /\ \A t \in Task : pc[t] \in {"load", "loaded"} => kind[t] = "fill"
  /\ \A t \in Task : pc[t] = "refused" => kind[t] \notin {"get", "prime"}
  /\ \A t \in effective : pc[t] # "idle" /\ t # Handler(Home(t))

\* What the fence of L2 has seen bounds what anybody was told of deletes.
BoundsInv ==
  /\ floor <= db
  /\ data.by = "fill" => data.val >= floor
  /\ \A t \in Task : kind[t] = "set" => val[t].by = "set"
  /\ \A t \in Task : since[t] <= db
  /\ \A t \in effective : since[t] <= floor
  /\ \A p \in Proc : applied[p] <= floor /\ owed[p] <= floor
  /\ \A p \in Proc : \A e \in outbox[p] : e.bound <= floor
  /\ \A p \in Proc : \A i \in 1..Len(inbox[p]) : inbox[p][i].bound <= floor

\* Behind a task whose guard has the revision of the key there is no delete of its process:
\* the delete would have taken the revision from it.  When the task is back there is none.
OrderInv ==
  \A t \in sameKey : Reads(t) =>
    /\ pc[t] = "gate" =>
         \A i, j \in 1..Len(gate[Home(t)]) :
           i < j /\ gate[Home(t)][i] = t => kind[gate[Home(t)][j]] # "delete"
    /\ pc[t] = "wire" =>
         /\ NoDeleteIn(gate[Home(t)])
         /\ \A i, j \in 1..Len(wire[Home(t)]) :
              /\ wire[Home(t)][i] = t /\ i < j
              /\ \A k \in (i + 1)..Len(wire[Home(t)]) : wire[Home(t)][k] # t
              => kind[wire[Home(t)][j]] # "delete"
    /\ pc[t] = "back" => NoDelete(Home(t))

\* What such a task read is no older than a delete that reached its process, nor, if its
\* guard has the epoch as well and the process is connected, than one that it missed.
ReadInv ==
  \A t \in sameKey : Reads(t) /\ pc[t] = "back" /\ val[t].by = "fill" =>
    /\ val[t].val >= applied[Home(t)]
    /\ t \in sameEpoch /\ Home(t) \in link => val[t].val >= owed[Home(t)]

\* The same of L1, trusted or not.
L1Inv ==
  \A p \in Proc : l1[p].by = "fill" =>
    /\ NoDelete(p)
    /\ l1[p].val >= applied[p]
    /\ p \in link => l1[p].val >= owed[p]

HybridInv == TypeOK /\ TasksInv /\ BoundsInv /\ OrderInv /\ ReadInv /\ L1Inv

\* A set or delete that will reach L2: it waits with the revision of the key, or is sent.
Pending(m) ==
  /\ kind[m] \in {"set", "delete"}
  /\ \/ pc[m] = "gate" /\ m \in sameKey
     \/ pc[m] = "wire" /\ \E i \in 1..Len(wire[Home(m)]) : wire[Home(m)][i] = m

\* A delete that L2 has not seen: it returned, or is under way.
Unreached ==
  \/ returned > floor
  \/ \E d \in Task : kind[d] = "delete" /\ pc[d] \in {"gate", "wire", "back", "refused"} /\ since[d] > floor

\* One process, and nothing fails: nobody tells it anything, and a delete that L2 has not
\* seen waits for one that L2 will see.
AloneInv ==
  Alone =>
    /\ trusted = scenario.procs /\ link = scenario.procs
    /\ \A p \in Proc : inbox[p] = <<>>
    /\ sameKey \subseteq sameEpoch
    /\ Unreached => \E m \in Task : Pending(m)
    /\ returned <= db

-----------------------------------------------------------------------------
(* Tasks, entries and queues *)

LEMMA TaskFacts ==
  /\ \A t \in Task : Home(t) \in Proc
  /\ \A p \in Proc : Handler(p) \in Task /\ Home(Handler(p)) = p
  /\ \A p \in Proc : \A t : t \in TasksOf(p) <=> t \in Task /\ Home(t) = p
BY DEF Task, Home, Handler, TasksOf

LEMMA ScenarioFacts ==
  ASSUME TypeOK
  PROVE  /\ scenario \in Scenarios
         /\ scenario.procs \subseteq Proc /\ scenario.slots \subseteq Slot
         /\ scenario.l2Fails \in BOOLEAN /\ scenario.busFails \in BOOLEAN
BY HybridAssumption DEF TypeOK

LEMMA SlotFacts ==
  ASSUME TypeOK, NEW t \in scenario.procs \X scenario.slots
  PROVE  t \in Task /\ Home(t) \in Proc /\ t # Handler(Home(t)) /\ Home(t) \in scenario.procs
<1>1. PICK p \in scenario.procs, s \in scenario.slots : t = <<p, s>>
  OBVIOUS
<1>2. p \in Proc /\ s \in Slot /\ s # "handler"
  BY ScenarioFacts, HybridAssumption
<1> QED
  BY <1>1, <1>2 DEF Task, Home, Handler

LEMMA EntryFacts ==
  /\ Absent \in Entries /\ Absent.by = "none"
  /\ \A e \in Entries : e.val \in Nat
  /\ \A v \in 1..MaxVersion : \A w \in {"fill", "set"} :
       [val |-> v, by |-> w] \in Entries /\ [val |-> v, by |-> w].val = v /\ [val |-> v, by |-> w].by = w
BY HybridAssumption DEF Entries, Absent

LEMMA AtLeastFacts ==
  ASSUME NEW m \in 0..MaxVersion, NEW n \in 0..MaxVersion
  PROVE  /\ AtLeast(m, n) \in 0..MaxVersion /\ AtLeast(m, n) >= m /\ AtLeast(m, n) >= n
         /\ \A b \in Nat : m <= b /\ n <= b => AtLeast(m, n) <= b
BY HybridAssumption DEF AtLeast

\* The newest of a sequence of events is one of them, or there is none.
LEMMA NewestFacts ==
  ASSUME NEW s \in Seq(Events)
  PROVE  /\ Newest(s) \in 0..MaxVersion
         /\ Newest(s) = 0 \/ \E i \in 1..Len(s) : Newest(s) = s[i].bound
<1> DEFINE bounds == {s[i].bound : i \in 1..Len(s)} \cup {0}
           gaps == {MaxVersion - b : b \in bounds}
<1>1. /\ \A b \in bounds : b \in 0..MaxVersion
      /\ 0 \in bounds
  <2>1. ASSUME NEW i \in 1..Len(s) PROVE s[i].bound \in 0..MaxVersion
    <3>1. s[i] \in Events
      OBVIOUS
    <3> QED  BY <3>1 DEF Events
  <2>2. 0 \in 0..MaxVersion
    BY HybridAssumption
  <2> QED  BY <2>1, <2>2
<1> HIDE DEF bounds
<1>2. gaps \subseteq Nat /\ gaps # {}
  <2>1. ASSUME NEW b \in bounds PROVE MaxVersion - b \in Nat
    BY <1>1, HybridAssumption
  <2>2. MaxVersion - 0 \in gaps
    BY <1>1
  <2> QED  BY <2>1, <2>2
<1>3. PICK g \in gaps : \A h \in gaps : g <= h
  <2> HIDE DEF gaps
  <2> QED  BY <1>2, LeastMember
<1>4. PICK b \in bounds : g = MaxVersion - b
  OBVIOUS
<1>5. ASSUME NEW c \in bounds PROVE b >= c
  <2>1. MaxVersion - c \in gaps
    OBVIOUS
  <2>2. MaxVersion - b <= MaxVersion - c
    BY <1>3, <1>4, <2>1
  <2>3. b \in Nat /\ c \in Nat /\ MaxVersion \in Nat
    BY <1>1, HybridAssumption
  <2> QED  BY <2>2, <2>3
<1>6. Newest(s) \in bounds
  <2>1. \E x \in bounds : \A c \in bounds : x >= c
    BY <1>5
  <2>2. Newest(s) = CHOOSE x \in bounds : \A c \in bounds : x >= c
    BY DEF Newest, bounds
  <2> QED  BY <2>1, <2>2
<1> QED
  BY <1>1, <1>6 DEF bounds

\* Forget: what is left of a gate, and in which order.
LEMMA WithoutLeaves ==
  ASSUME NEW s \in Seq(Task), Distinct(s), NEW t
  PROVE  Without(s, t) \in Seq(Task) /\ Distinct(Without(s, t)) /\ LeftOf(Without(s, t), s, {t})
<1> DEFINE w == Without(s, t)
<1>1. CASE \E i \in 1..Len(s) : s[i] = t
  <2> DEFINE p == CHOOSE i \in 1..Len(s) : s[i] = t
  <2>1. p \in 1..Len(s) /\ s[p] = t
    BY <1>1
  <2>2. w = Removed(s, p)
    BY <1>1 DEF Without, RemoveAt, Removed
  <2> HIDE DEF p, w
  <2>3. Removed(s, p) \in Seq(Task) /\ Distinct(Removed(s, p)) /\ LeftOf(Removed(s, p), s, {s[p]})
    BY <2>1, RemovedPlaces, RemovedLeaves
  <2> QED  BY <2>1, <2>2, <2>3, Zenon DEF w
<1>2. CASE ~ \E i \in 1..Len(s) : s[i] = t
  <2>1. w = s
    BY <1>2 DEF Without
  <2>2. LeftOf(s, s, {t})
    BY <1>2 DEF LeftOf, Members
  <2> QED  BY <2>1, <2>2
<1> QED
  BY <1>1, <1>2

-----------------------------------------------------------------------------
(* Types *)

LEMMA EventType ==
  ASSUME TypeOK, NEW t \in Task
  PROVE  EventOf(t) \in Events
<1>1. gen[Home(t)] \in Nat /\ since[t] \in 0..MaxVersion /\ 0 \in 0..MaxVersion
  BY TaskFacts, HybridAssumption DEF TypeOK
<1> QED
  BY <1>1 DEF EventOf, Events

LEMMA QueueTypes ==
  ASSUME TypeOK, NEW p \in Proc
  PROVE  /\ gate[p] \in Seq(Task) /\ wire[p] \in Seq(Task) /\ inbox[p] \in Seq(Events)
         /\ \A t \in Task : Append(gate[p], t) \in Seq(Task) /\ Append(wire[p], t) \in Seq(Task)
         /\ gate[p] # <<>> => Head(gate[p]) \in Task /\ Tail(gate[p]) \in Seq(Task)
         /\ wire[p] # <<>> => Head(wire[p]) \in Task /\ Tail(wire[p]) \in Seq(Task)
         /\ inbox[p] # <<>> => Head(inbox[p]) \in Events /\ Tail(inbox[p]) \in Seq(Events)
         /\ <<>> \in Seq(Task) /\ <<>> \in Seq(Events)
BY DEF TypeOK

\* A call that asks for L2, whatever its kind.
LEMMA BeginType ==
  ASSUME TypeOK, NEW t \in Task, NEW k, Begin(t, k)
  PROVE  /\ t \in Task /\ Home(t) \in Proc /\ t # Handler(Home(t)) /\ Home(t) \in scenario.procs
         /\ pc[t] = "idle" /\ kind' = [kind EXCEPT ![t] = k]
         /\ kind' \in [Task -> {"none", "get", "set", "delete", "fill", "prime"}]
<1>1. k \in {"get", "set", "delete", "fill"}
  BY HybridAssumption DEF Begin
<1> QED
  BY <1>1, SlotFacts DEF Begin, TypeOK

LEMMA CallType ==
  ASSUME TypeOK, TasksInv, NEW t \in Task, Call(t), UNCHANGED scenario
  PROVE  TypeOK'
<1> USE DEF originVars, procVars, taskVars, guardVars, queueVars, busVars, histVars
<1>1. Home(t) \in Proc /\ gate[Home(t)] \in Seq(Task) /\ Append(gate[Home(t)], t) \in Seq(Task)
  BY TaskFacts, QueueTypes
<1>2. Without(gate[Home(t)], t) \in Seq(Task)
  BY <1>1, WithoutLeaves DEF TasksInv
<1>3. [val |-> db, by |-> "set"] \in Entries /\ [val |-> db, by |-> "fill"] \in Entries /\ Absent \in Entries
  BY EntryFacts DEF TypeOK
<1>4. db \in 0..MaxVersion /\ gen[Home(t)] + 1 \in Nat /\ AtLeast(returned, since[t]) \in 0..MaxVersion
  <2>1. db \in 0..MaxVersion /\ gen[Home(t)] + 1 \in Nat
    BY <1>1, HybridAssumption DEF TypeOK
  <2>2. returned \in 0..MaxVersion /\ since[t] \in 0..MaxVersion
    BY DEF TypeOK
  <2> QED  BY <2>1, <2>2, AtLeastFacts
<1>5. EventOf(t) \in Events
  BY EventType
<1>6. CASE Get(t)
  <2>1. kind' \in [Task -> {"none", "get", "set", "delete", "fill", "prime"}]
    BY <1>6, BeginType DEF Get
  <2> QED  BY <1>1, <1>6, <2>1 DEF Get, TypeOK, Observe, Request
<1>7. CASE GetSettles(t)
  <2>1. l1' \in [Proc -> Entries]
    BY <1>1, <1>7 DEF GetSettles, TypeOK
  <2> QED  BY <1>1, <1>2, <1>7, <2>1 DEF GetSettles, TypeOK, Forget, End, Release
<1>8. CASE Set(t)
  <2>1. kind' \in [Task -> {"none", "get", "set", "delete", "fill", "prime"}]
    BY <1>8, BeginType DEF Set
  <2> QED  BY <1>1, <1>3, <1>8, <2>1 DEF Set, TypeOK, Mutate, Request
<1>9. CASE SetSettles(t)
  BY <1>1, <1>2, <1>9 DEF SetSettles, TypeOK, Forget, End, Release
<1>10. CASE Delete(t)
  <2>1. kind' \in [Task -> {"none", "get", "set", "delete", "fill", "prime"}]
    BY <1>10, BeginType DEF Delete
  <2> QED  BY <1>1, <1>3, <1>4, <1>10, <2>1 DEF Delete, TypeOK, Mutate, Request
<1>11. CASE DeleteSettles(t)
  <2>1. returned' \in 0..MaxVersion
    BY <1>4, <1>11 DEF DeleteSettles, TypeOK
  <2>2. outbox' \in [Proc -> SUBSET Events]
    BY <1>1, <1>5, <1>11 DEF DeleteSettles, TypeOK, Broadcast
  <2> QED  BY <1>1, <1>2, <1>11, <2>1, <2>2 DEF DeleteSettles, TypeOK, Forget, End, Release
<1>12. CASE Fill(t)
  <2>1. kind' \in [Task -> {"none", "get", "set", "delete", "fill", "prime"}]
    BY <1>12, BeginType DEF Fill
  <2> QED  BY <1>1, <1>12, <2>1 DEF Fill, TypeOK, Observe
<1>13. CASE LoaderReads(t)
  BY <1>3, <1>13 DEF LoaderReads, TypeOK
<1>14. CASE FillPublishes(t)
  BY <1>1, <1>14 DEF FillPublishes, TypeOK, Request
<1>15. CASE FillKept(t)
  BY <1>15 DEF FillKept, TypeOK, End, Release
<1>16. CASE FillPublished(t)
  <2>1. outbox' \in [Proc -> SUBSET Events]
    <3>1. CASE Broadcast(t)
      BY <1>1, <1>5, <3>1 DEF TypeOK, Broadcast
    <3>2. CASE UNCHANGED outbox
      BY <3>2 DEF TypeOK
    <3> QED  BY <1>16, <3>1, <3>2 DEF FillPublished
  <2> QED  BY <1>1, <1>16, <2>1 DEF FillPublished, TypeOK, End, Release
<1>17. CASE FillSettles(t)
  BY <1>1, <1>2, <1>17 DEF FillSettles, TypeOK, Forget, End, Release
<1> QED
  BY <1>6, <1>7, <1>8, <1>9, <1>10, <1>11, <1>12, <1>13, <1>14, <1>15, <1>16, <1>17 DEF Call

LEMMA SharedType ==
  ASSUME TypeOK, TasksInv, NEW p \in scenario.procs, Shared(p), UNCHANGED scenario
  PROVE  TypeOK'
<1> USE DEF originVars, procVars, taskVars, guardVars, queueVars, busVars, histVars
<1> DEFINE h == Handler(p)
<1>1. p \in Proc /\ h \in Task /\ Home(h) = p
  BY ScenarioFacts, TaskFacts
<1>2. /\ gate[p] \in Seq(Task) /\ wire[p] \in Seq(Task) /\ inbox[p] \in Seq(Events)
      /\ \A t \in Task : Append(gate[p], t) \in Seq(Task) /\ Append(wire[p], t) \in Seq(Task)
      /\ gate[p] # <<>> => Head(gate[p]) \in Task /\ Tail(gate[p]) \in Seq(Task)
      /\ wire[p] # <<>> => Head(wire[p]) \in Task /\ Tail(wire[p]) \in Seq(Task)
      /\ inbox[p] # <<>> => Head(inbox[p]) \in Events /\ Tail(inbox[p]) \in Seq(Events)
      /\ <<>> \in Seq(Task) /\ <<>> \in Seq(Events)
  BY <1>1, QueueTypes
<1>3. Absent \in Entries
  BY EntryFacts
<1>4. \A e \in Events : e.gen \in Nat /\ e.bound \in 0..MaxVersion
  BY DEF Events
<1>5. \A q \in Proc : applied[q] \in 0..MaxVersion /\ owed[q] \in 0..MaxVersion /\ gen[q] \in Nat
  BY DEF TypeOK
<1>6. CASE Dispatch(p)
  <2>1. PICK t \in Task : t = Head(gate[p]) /\ gate[p] # <<>>
    BY <1>2, <1>6 DEF Dispatch
  <2>2. gate' \in [Proc -> Seq(Task)]
    BY <1>2, <1>6 DEF Dispatch, TypeOK
  <2>3. wire' \in [Proc -> Seq(Task)]
    BY <1>2, <1>6, <2>1, ZenonT(40) DEF Dispatch, TypeOK
  <2>4. pc' \in [Task -> {"idle", "load", "loaded", "gate", "wire", "back", "refused", "done"}]
    BY <1>6, <2>1 DEF Dispatch, TypeOK
  <2> QED  BY <1>6, <2>2, <2>3, <2>4 DEF Dispatch, TypeOK
<1>7. CASE Execute(p)
  <2>1. PICK t \in Task : t = Head(wire[p]) /\ wire[p] # <<>>
    BY <1>2, <1>7 DEF Execute
  <2>2. wire' \in [Proc -> Seq(Task)]
    BY <1>1, <1>2, <1>7 DEF Execute, TypeOK
  <2>3. pc' \in [Task -> {"idle", "load", "loaded", "gate", "wire", "back", "refused", "done"}]
    BY <1>7, <2>1 DEF Execute, TypeOK
  <2>4. val' \in [Task -> Entries] /\ data' \in Entries /\ floor' \in 1..MaxVersion
    <3>1. data' \in {data, val[t], Absent} /\ floor' \in {floor, db}
      BY <1>7, <2>1 DEF Execute
    <3>2. val' = val \/ val' = [val EXCEPT ![t] = data]
      <4>1. val = [val EXCEPT ![t] = @]
        BY DEF TypeOK
      <4> QED  BY <1>7, <2>1, <4>1 DEF Execute
    <3>3. data' \in Entries /\ floor' \in 1..MaxVersion
      BY <1>3, <3>1 DEF TypeOK
    <3> QED  BY <3>2, <3>3 DEF TypeOK
  <2>5. AtLeast(applied[p], since[t]) \in 0..MaxVersion
    <3>1. since[t] \in 0..MaxVersion
      BY DEF TypeOK
    <3> QED  BY <1>1, <1>5, <3>1, AtLeastFacts
  <2>6. applied' \in [Proc -> 0..MaxVersion] /\ effective' \subseteq Task
    <3>1. applied' = applied \/ applied' = [applied EXCEPT ![p] = AtLeast(@, since[t])]
      BY <1>7, <2>1 DEF Execute
    <3>2. effective' = effective \/ effective' = effective \cup {t}
      BY <1>7, <2>1 DEF Execute
    <3> QED  BY <2>5, <3>1, <3>2 DEF TypeOK
  <2>7. UNCHANGED <<db, l1, gen, trusted, restoring, link, kind, sameKey, sameEpoch, gate,
                    outbox, inbox, since, returned, owed>>
    BY <1>7 DEF Execute
  <2> QED  BY <2>2, <2>3, <2>4, <2>6, <2>7 DEF TypeOK
<1>8. CASE Publish(p)
  <2>1. PICK e \in outbox[p] :
          /\ inbox' = [q \in Proc |-> IF q \in link \ {p} THEN Append(inbox[q], e) ELSE inbox[q]]
          /\ owed' = [q \in Proc |-> IF q \notin scenario.procs \ (link \cup {p}) THEN owed[q] ELSE AtLeast(owed[q], e.bound)]
          /\ outbox' = [outbox EXCEPT ![p] = @ \ {e}]
    BY <1>8 DEF Publish
  <2>2. e \in Events
    BY <1>1, <2>1 DEF TypeOK
  <2>3. ASSUME NEW q \in Proc PROVE inbox'[q] \in Seq(Events) /\ owed'[q] \in 0..MaxVersion
    <3>1. AtLeast(owed[q], e.bound) \in 0..MaxVersion
      BY <1>4, <1>5, <2>2, AtLeastFacts
    <3>2. inbox[q] \in Seq(Events) /\ Append(inbox[q], e) \in Seq(Events)
      BY <2>2 DEF TypeOK
    <3> QED  BY <1>5, <2>1, <3>1, <3>2
  <2>4. inbox' \in [Proc -> Seq(Events)] /\ owed' \in [Proc -> 0..MaxVersion]
    BY <2>1, <2>3
  <2>5. outbox' \in [Proc -> SUBSET Events]
    BY <2>1 DEF TypeOK
  <2> QED  BY <1>8, <2>4, <2>5 DEF Publish, TypeOK
<1>9. CASE PublishFails(p)
  <2>1. outbox' \in [Proc -> SUBSET Events]
    BY <1>9, ZenonT(40) DEF TypeOK, PublishFails
  <2> QED  BY <1>9, <2>1 DEF PublishFails, TypeOK
<1>10. CASE ReceiveDelete(p)
  <2>1. PICK e \in Events : e = Head(inbox[p])
    BY <1>2, <1>10 DEF ReceiveDelete, Received
  <2>2. AtLeast(applied[p], e.bound) \in 0..MaxVersion /\ AtLeast(gen[p], e.gen) \in Nat
    <3>1. AtLeast(applied[p], e.bound) \in 0..MaxVersion
      BY <1>1, <1>4, <1>5, AtLeastFacts
    <3> QED  BY <1>1, <1>4, <1>5, <3>1 DEF AtLeast
  <2>3. applied' \in [Proc -> 0..MaxVersion] /\ gen' \in [Proc -> Nat]
    BY <1>10, <2>1, <2>2 DEF ReceiveDelete, TypeOK
  <2>4. inbox' \in [Proc -> Seq(Events)]
    BY <1>2, <1>10 DEF ReceiveDelete, Received, TypeOK
  <2> QED  BY <1>3, <1>10, <2>3, <2>4 DEF ReceiveDelete, TypeOK
<1>11. CASE IgnoreSet(p)
  <2>1. inbox' \in [Proc -> Seq(Events)]
    BY <1>2, <1>11 DEF IgnoreSet, Received, TypeOK
  <2> QED  BY <1>11, <2>1 DEF IgnoreSet, TypeOK
<1>12. CASE ReceiveSet(p)
  <2>1. inbox' \in [Proc -> Seq(Events)]
    BY <1>2, <1>12 DEF ReceiveSet, Received, TypeOK
  <2>2. gen' \in [Proc -> Nat]
    BY <1>2, <1>4, <1>12 DEF ReceiveSet, Received, TypeOK
  <2>3. gate' \in [Proc -> Seq(Task)] /\ sameKey' \subseteq Task /\ sameEpoch' \subseteq Task
    BY <1>1, <1>2, <1>12 DEF ReceiveSet, TypeOK, Mutate, Request
  <2> QED  BY <1>1, <1>12, <2>1, <2>2, <2>3 DEF ReceiveSet, TypeOK
<1>13. CASE PrimeSettles(p)
  <2>1. Without(gate[p], h) \in Seq(Task)
    BY <1>1, <1>2, WithoutLeaves DEF TasksInv
  <2>2. gate' \in [Proc -> Seq(Task)]
    BY <1>1, <1>13, <2>1 DEF PrimeSettles, TypeOK, Forget
  <2>3. l1' \in [Proc -> Entries] /\ val' \in [Task -> Entries]
    BY <1>1, <1>3, <1>13 DEF PrimeSettles, TypeOK
  <2> QED  BY <1>13, <2>2, <2>3 DEF PrimeSettles, TypeOK, Release
<1>14. CASE LinkDrops(p)
  BY <1>14 DEF LinkDrops, TypeOK
<1>15. AtLeast(owed[p], Newest(inbox[p])) \in 0..MaxVersion
  <2>1. Newest(inbox[p]) \in 0..MaxVersion
    BY <1>2, NewestFacts
  <2> QED  BY <1>1, <1>5, <2>1, AtLeastFacts
<1>16. CASE Disconnected(p)
  BY <1>2, <1>3, <1>15, <1>16 DEF Disconnected, Flush, TypeOK
<1>17. CASE Overflow(p)
  <2>1. PICK n \in Nat \ {0} : n = Len(inbox[p])
    BY <1>2, <1>17 DEF Overflow
  <2>2. SubSeq(inbox[p], 1, n - 1) \in Seq(Events) /\ inbox[p][n] \in Events
    BY <1>2, <2>1
  <2>3. AtLeast(owed[p], inbox[p][n].bound) \in 0..MaxVersion
    BY <1>1, <1>4, <1>5, <2>2, AtLeastFacts
  <2>4. inbox' \in [Proc -> Seq(Events)] /\ owed' \in [Proc -> 0..MaxVersion]
    BY <1>17, <2>1, <2>2, <2>3 DEF Overflow, TypeOK
  <2> QED  BY <1>3, <1>17, <2>4 DEF Overflow, Flush, TypeOK
<1>18. CASE Subscribed(p)
  BY <1>1, <1>3, <1>18 DEF Subscribed, Flush, TypeOK
<1>19. CASE TrustRestored(p)
  BY <1>1, <1>19 DEF TrustRestored, TypeOK
<1>20. CASE Restart(p)
  <2>1. inbox' \in [Proc -> Seq(Events)] /\ owed' \in [Proc -> 0..MaxVersion]
    BY <1>2, <1>15, <1>20 DEF Restart, TypeOK
  <2>2. gate' \in [Proc -> Seq(Task)] /\ outbox' \in [Proc -> SUBSET Events]
    BY <1>2, <1>20 DEF Restart, TypeOK
  <2>3. pc' \in [Task -> {"idle", "load", "loaded", "gate", "wire", "back", "refused", "done"}]
    BY <1>20 DEF Restart, TypeOK
  <2>4. l1' \in [Proc -> Entries] /\ gen' \in [Proc -> Nat]
    BY <1>3, <1>20 DEF Restart, TypeOK
  <2> QED  BY <1>20, <2>1, <2>2, <2>3, <2>4 DEF Restart, TypeOK
<1>21. CASE L1Evicts(p)
  BY <1>3, <1>21 DEF L1Evicts, TypeOK
<1> QED
  BY <1>6, <1>7, <1>8, <1>9, <1>10, <1>11, <1>12, <1>13, <1>14, <1>16, <1>17, <1>18, <1>19, <1>20, <1>21 DEF Shared

-----------------------------------------------------------------------------
(* Tasks, and the order of the queues *)

\* A task that is in neither queue of its process, or a handler about to prime, asks for
\* L2: it is the last in the gate.
LEMMA RequestKeeps ==
  ASSUME TypeOK, TypeOK', TasksInv, OrderInv,
         NEW t \in Task, NEW k \in {"get", "set", "delete", "fill", "prime"},
         pc[t] \in {"idle", "loaded"}, pc' = [pc EXCEPT ![t] = "gate"],
         kind' = [kind EXCEPT ![t] = k], pc[t] = "loaded" => k = kind[t],
         t = Handler(Home(t)) <=> k = "prime",
         Request(t), wire' = wire, effective' = effective,
         \A u \in sameKey' : u \in sameKey \/ u = t,
         k = "delete" => \A u \in sameKey' : Home(u) = Home(t) => u = t
  PROVE  /\ TasksInv' /\ OrderInv'
         /\ \A q \in Proc : NoDelete(q) /\ (q # Home(t) \/ k # "delete") => NoDelete(q)'
<1> DEFINE h == Home(t)
<1>1. h \in Proc /\ gate[h] \in Seq(Task) /\ \A q \in Proc : wire[q] \in Seq(Task) /\ gate[q] \in Seq(Task)
  BY TaskFacts DEF TypeOK
<1>2. gate' = [gate EXCEPT ![h] = Append(gate[h], t)]
  BY <1>1 DEF Request, TypeOK
<1> HIDE DEF h
<1>3. /\ Len(gate'[h]) = Len(gate[h]) + 1 /\ gate'[h][Len(gate[h]) + 1] = t
      /\ \A i \in 1..Len(gate[h]) : gate'[h][i] = gate[h][i]
      /\ \A i \in 1..Len(gate'[h]) : i \in 1..Len(gate[h]) \/ i = Len(gate[h]) + 1
      /\ \A q \in Proc : q # h => gate'[q] = gate[q]
  <2>1. gate'[h] = Append(gate[h], t) /\ \A q \in Proc : q # h => gate'[q] = gate[q]
    BY <1>1, <1>2 DEF TypeOK
  <2> QED  BY <1>1, <2>1, AppendPlaces
<1>4. \A u \in Task : u # t => pc'[u] = pc[u] /\ kind'[u] = kind[u]
  BY DEF TypeOK
<1>5. pc'[t] = "gate" /\ kind'[t] = k
  BY DEF TypeOK
<1>6. \A q \in Proc : \A i \in 1..Len(gate[q]) : gate[q][i] \in Task /\ gate[q][i] # t
  BY <1>1 DEF TasksInv
<1>7. ASSUME NEW q \in Proc, NEW i \in 1..Len(wire[q])
      PROVE  /\ wire[q][i] \in Task
             /\ kind'[wire[q][i]] = "delete" => kind[wire[q][i]] = "delete"
             /\ wire[q][i] # Handler(q) => pc'[wire[q][i]] # "idle"
  <2>1. wire[q][i] \in Task
    BY <1>1, <1>7
  <2>2. CASE wire[q][i] # t
    BY <1>4, <1>7, <2>1, <2>2 DEF TasksInv
  <2>3. CASE wire[q][i] = t
    <3>1. Home(t) = q /\ (t = Handler(q) \/ pc[t] # "idle")
      BY <1>7, <2>3 DEF TasksInv
    <3>2. k = "prime" \/ k = kind[t]
      BY <3>1
    <3> QED  BY <1>5, <2>1, <2>3, <3>2
  <2> QED  BY <2>2, <2>3
<1>8. \A q \in Proc : Distinct(gate'[q])
  <2>1. Distinct(gate'[h])
    BY <1>1, <1>3, <1>6, SMTT(20) DEF TasksInv, Distinct
  <2> QED  BY <1>3, <2>1 DEF TasksInv
<1>9. ASSUME NEW q \in Proc, NEW i \in 1..Len(gate'[q])
      PROVE  Home(gate'[q][i]) = q /\ pc'[gate'[q][i]] = "gate"
  <2>1. CASE q = h /\ i = Len(gate[h]) + 1
    BY <1>3, <1>5, <2>1 DEF h
  <2>2. CASE i \in 1..Len(gate[q]) /\ gate'[q][i] = gate[q][i]
    BY <1>4, <1>6, <2>2 DEF TasksInv
  <2> QED  BY <1>3, <1>9, <2>1, <2>2
<1>10. TasksInv'
  <2>1. ASSUME NEW q \in Proc PROVE kind'[Handler(q)] \in {"none", "prime"}
    <3>1. Handler(q) \in Task /\ Home(Handler(q)) = q
      BY TaskFacts
    <3> QED  BY <1>4, <1>5, <3>1 DEF TasksInv
  <2>2. ASSUME NEW u \in Task
        PROVE  /\ pc'[u] \in {"load", "loaded"} => kind'[u] = "fill"
               /\ pc'[u] = "refused" => kind'[u] \notin {"get", "prime"}
    BY <1>4, <1>5 DEF TasksInv
  <2>3. \A u \in effective' : pc'[u] # "idle" /\ u # Handler(Home(u))
    BY <1>4, <1>5 DEF TasksInv, TypeOK
  <2>4. \A q \in Proc : \A i \in 1..Len(wire'[q]) :
          Home(wire'[q][i]) = q /\ (wire'[q][i] # Handler(q) => pc'[wire'[q][i]] # "idle")
    BY <1>7 DEF TasksInv
  <2> QED  BY <1>8, <1>9, <2>1, <2>2, <2>3, <2>4 DEF TasksInv
<1>11. ASSUME NEW q \in Proc PROVE NoDeleteIn(wire[q]) => NoDeleteIn(wire[q])'
  BY <1>7 DEF NoDeleteIn
<1>12. ASSUME NEW q \in Proc, q # h \/ k # "delete" PROVE NoDeleteIn(gate[q]) => NoDeleteIn(gate[q])'
  <2>1. ASSUME NEW i \in 1..Len(gate'[q]), NoDeleteIn(gate[q]) PROVE kind'[gate'[q][i]] # "delete"
    <3>1. CASE q = h /\ i = Len(gate[h]) + 1
      BY <1>3, <1>5, <1>12, <3>1
    <3>2. CASE i \in 1..Len(gate[q]) /\ gate'[q][i] = gate[q][i]
      BY <1>4, <1>6, <2>1, <3>2 DEF NoDeleteIn
    <3> QED  BY <1>3, <3>1, <3>2
  <2> QED  BY <2>1 DEF NoDeleteIn
<1>13. ASSUME NEW u \in sameKey', Reads(u)', u # t
       PROVE  /\ u \in sameKey /\ u \in Task /\ Reads(u) /\ pc'[u] = pc[u] /\ Home(u) \in Proc
              /\ Home(u) # h \/ k # "delete"
  BY <1>4, <1>13, TaskFacts DEF TypeOK, Reads, h
<1>14. OrderInv'
  <2>1. ASSUME NEW u \in sameKey', Reads(u)', pc'[u] = "gate",
               NEW i \in 1..Len(gate'[Home(u)]), NEW j \in 1..Len(gate'[Home(u)]),
               i < j, gate'[Home(u)][i] = u
        PROVE  kind'[gate'[Home(u)][j]] # "delete"
    <3>1. CASE u = t
      <4>1. i \in 1..Len(gate[h]) /\ gate'[h][i] = gate[h][i]
        BY <1>1, <1>3, <2>1, <3>1 DEF h
      <4> QED  BY <1>1, <1>6, <2>1, <3>1, <4>1 DEF h
    <3>2. CASE u # t
      <4>1. u \in sameKey /\ Reads(u) /\ pc[u] = "gate" /\ Home(u) \in Proc /\ (Home(u) # h \/ k # "delete")
        BY <1>13, <2>1, <3>2
      <4>2. i \in 1..Len(gate[Home(u)]) /\ gate'[Home(u)][i] = gate[Home(u)][i]
        BY <1>3, <2>1, <3>2, <4>1
      <4>3. CASE Home(u) = h /\ j = Len(gate[h]) + 1
        BY <1>3, <1>5, <4>1, <4>3
      <4>4. CASE j \in 1..Len(gate[Home(u)]) /\ gate'[Home(u)][j] = gate[Home(u)][j]
        <5>1. kind[gate[Home(u)][j]] # "delete"
          BY <2>1, <4>1, <4>2, <4>4 DEF OrderInv
        <5> QED  BY <1>4, <1>6, <4>1, <4>4, <5>1
      <4> QED  BY <1>3, <2>1, <4>1, <4>3, <4>4
    <3> QED  BY <3>1, <3>2
  <2>2. ASSUME NEW u \in sameKey', Reads(u)', pc'[u] = "wire"
        PROVE  /\ NoDeleteIn(gate[Home(u)])'
               /\ \A i, j \in 1..Len(wire'[Home(u)]) :
                    /\ wire'[Home(u)][i] = u /\ i < j
                    /\ \A l \in (i + 1)..Len(wire'[Home(u)]) : wire'[Home(u)][l] # u
                    => kind'[wire'[Home(u)][j]] # "delete"
    <3>1. u \in sameKey /\ Reads(u) /\ pc[u] = "wire" /\ Home(u) \in Proc /\ (Home(u) # h \/ k # "delete")
      BY <1>5, <1>13, <2>2
    <3>2. NoDeleteIn(gate[Home(u)])
      BY <3>1 DEF OrderInv
    <3>3. NoDeleteIn(gate[Home(u)])'
      <4>1. PICK q \in Proc : q = Home(u)
        BY <3>1
      <4> QED  BY <1>12, <3>1, <3>2, <4>1
    <3>4. ASSUME NEW i \in 1..Len(wire[Home(u)]), NEW j \in 1..Len(wire[Home(u)]),
                 wire[Home(u)][i] = u, i < j, \A l \in (i + 1)..Len(wire[Home(u)]) : wire[Home(u)][l] # u
          PROVE  kind[wire[Home(u)][j]] # "delete"
      BY <3>1, <3>4 DEF OrderInv
    <3>5. \A j \in 1..Len(wire[Home(u)]) : kind'[wire[Home(u)][j]] = "delete" => kind[wire[Home(u)][j]] = "delete"
      BY <1>7, <3>1
    <3> QED  BY <3>3, <3>4, <3>5
  <2>3. ASSUME NEW u \in sameKey', Reads(u)', pc'[u] = "back" PROVE NoDelete(Home(u))'
    <3>1. u \in sameKey /\ Reads(u) /\ pc[u] = "back" /\ Home(u) \in Proc /\ (Home(u) # h \/ k # "delete")
      BY <1>5, <1>13, <2>3
    <3>2. NoDelete(Home(u))
      BY <3>1 DEF OrderInv
    <3>3. PICK q \in Proc : q = Home(u)
      BY <3>1
    <3> QED  BY <1>11, <1>12, <3>1, <3>2, <3>3 DEF NoDelete
  <2> QED  BY <2>1, <2>2, <2>3 DEF OrderInv
<1> QED
  BY <1>10, <1>11, <1>12, <1>14 DEF NoDelete, h

\* A task ends: it leaves the gate, and its command stays on the wire if it was sent.
LEMMA EndKeeps ==
  ASSUME TypeOK, TypeOK', TasksInv, OrderInv,
         NEW t \in Task, NEW x \in {"done", "idle"}, x = "idle" => t = Handler(Home(t)),
         Forget(t), pc' = [pc EXCEPT ![t] = x],
         kind' = kind, wire' = wire, effective' = effective,
         sameKey' \subseteq sameKey, t \notin sameKey'
  PROVE  /\ TasksInv' /\ OrderInv'
         /\ \A q \in Proc : NoDelete(q) => NoDelete(q)'
<1> DEFINE h == Home(t)
<1>1. h \in Proc /\ \A q \in Proc : wire[q] \in Seq(Task) /\ gate[q] \in Seq(Task)
  BY TaskFacts DEF TypeOK
<1>2. gate'[h] = Without(gate[h], t) /\ \A q \in Proc : q # h => gate'[q] = gate[q]
  BY <1>1 DEF Forget, TypeOK
<1> HIDE DEF h
<1>3. ASSUME NEW q \in Proc PROVE Distinct(gate'[q]) /\ LeftOf(gate'[q], gate[q], {t})
  <2>1. gate[q] \in Seq(Task) /\ Distinct(gate[q])
    BY <1>1 DEF TasksInv
  <2>2. CASE q = h
    BY <1>2, <2>1, <2>2, WithoutLeaves
  <2>3. CASE q # h
    <3>1. gate'[q] = gate[q]
      BY <1>2, <2>3
    <3>2. \A i \in 1..Len(gate[q]) : gate[q][i] # t
      BY <2>3 DEF TasksInv, h
    <3> QED  BY <2>1, <3>1, <3>2 DEF LeftOf, Members
  <2> QED  BY <2>2, <2>3
<1>4. ASSUME NEW q \in Proc, NEW i \in 1..Len(gate'[q])
      PROVE  gate'[q][i] # t /\ \E a \in 1..Len(gate[q]) : gate[q][a] = gate'[q][i]
  <2>1. gate'[q][i] \in Members(gate'[q])
    BY <1>4 DEF Members
  <2>2. gate'[q][i] \in Members(gate[q]) /\ gate'[q][i] # t
    BY <1>3, <2>1, ZenonT(40) DEF LeftOf
  <2> QED  BY <2>2 DEF Members
<1>5. ASSUME NEW q \in Proc, NEW i \in 1..Len(gate'[q]), NEW j \in 1..Len(gate'[q]), i < j
      PROVE  \E a, b \in 1..Len(gate[q]) : a < b /\ gate[q][a] = gate'[q][i] /\ gate[q][b] = gate'[q][j]
  BY <1>3, <1>5 DEF LeftOf
<1>6. \A u \in Task : u # t => pc'[u] = pc[u]
  BY DEF TypeOK
<1>7. pc'[t] = x
  BY DEF TypeOK
<1>8. TasksInv'
  <2>1. ASSUME NEW q \in Proc, NEW i \in 1..Len(gate'[q])
        PROVE  Home(gate'[q][i]) = q /\ pc'[gate'[q][i]] = "gate"
    <3>1. PICK a \in 1..Len(gate[q]) : gate[q][a] = gate'[q][i]
      BY <1>4
    <3>2. gate'[q][i] # t /\ gate'[q][i] \in Task
      BY <1>1, <1>4, <3>1
    <3> QED  BY <1>6, <3>1, <3>2 DEF TasksInv
  <2>2. \A q \in Proc : Distinct(gate'[q])
    BY <1>3 DEF TasksInv
  <2>3. ASSUME NEW q \in Proc, NEW i \in 1..Len(wire[q])
        PROVE  Home(wire[q][i]) = q /\ (wire[q][i] # Handler(q) => pc'[wire[q][i]] # "idle")
    <3>1. wire[q][i] \in Task /\ Home(wire[q][i]) = q
      BY <1>1 DEF TasksInv
    <3> QED  BY <1>6, <1>7, <3>1 DEF TasksInv
  <2>4. ASSUME NEW u \in Task
        PROVE  /\ pc'[u] \in {"load", "loaded"} => kind'[u] = "fill"
               /\ pc'[u] = "refused" => kind'[u] \notin {"get", "prime"}
    BY <1>6, <1>7 DEF TasksInv
  <2>5. \A u \in effective' : pc'[u] # "idle" /\ u # Handler(Home(u))
    BY <1>6, <1>7 DEF TasksInv, TypeOK
  <2> QED  BY <2>1, <2>2, <2>3, <2>4, <2>5 DEF TasksInv
<1>9. ASSUME NEW q \in Proc PROVE NoDeleteIn(gate[q]) => NoDeleteIn(gate[q])'
  <2>1. ASSUME NEW i \in 1..Len(gate'[q]), NoDeleteIn(gate[q]) PROVE kind[gate'[q][i]] # "delete"
    <3>1. PICK a \in 1..Len(gate[q]) : gate[q][a] = gate'[q][i]
      BY <1>4
    <3> QED  BY <2>1, <3>1 DEF NoDeleteIn
  <2> QED  BY <2>1 DEF NoDeleteIn
<1>10. ASSUME NEW q \in Proc PROVE NoDelete(q) => NoDelete(q)'
  BY <1>9 DEF NoDelete, NoDeleteIn
<1>11. OrderInv'
  <2>1. ASSUME NEW u \in sameKey', Reads(u)'
        PROVE  u \in sameKey /\ u \in Task /\ Reads(u) /\ pc'[u] = pc[u] /\ Home(u) \in Proc
    BY <1>6, <2>1, TaskFacts DEF TypeOK, Reads
  <2>2. ASSUME NEW u \in sameKey', Reads(u)', pc'[u] = "gate",
               NEW i \in 1..Len(gate'[Home(u)]), NEW j \in 1..Len(gate'[Home(u)]),
               i < j, gate'[Home(u)][i] = u
        PROVE  kind'[gate'[Home(u)][j]] # "delete"
    <3>1. PICK a, b \in 1..Len(gate[Home(u)]) :
            a < b /\ gate[Home(u)][a] = u /\ gate[Home(u)][b] = gate'[Home(u)][j]
      <4>1. PICK q \in Proc : q = Home(u)
        BY <2>1, <2>2
      <4>2. \E a, b \in 1..Len(gate[q]) : a < b /\ gate[q][a] = gate'[q][i] /\ gate[q][b] = gate'[q][j]
        BY <1>5, <2>2, <4>1, ZenonT(40)
      <4> QED  BY <2>2, <4>1, <4>2
    <3> QED  BY <2>1, <2>2, <3>1 DEF OrderInv
  <2>3. ASSUME NEW u \in sameKey', Reads(u)', pc'[u] = "wire" PROVE NoDeleteIn(gate[Home(u)])'
    <3>1. PICK q \in Proc : q = Home(u)
      BY <2>1, <2>3
    <3>2. NoDeleteIn(gate[q])
      BY <2>1, <2>3, <3>1 DEF OrderInv
    <3> QED  BY <1>9, <3>1, <3>2
  <2>4. ASSUME NEW u \in sameKey', Reads(u)', pc'[u] = "back" PROVE NoDelete(Home(u))'
    <3>1. PICK q \in Proc : q = Home(u)
      BY <2>1, <2>4
    <3>2. NoDelete(q)
      BY <2>1, <2>4, <3>1 DEF OrderInv
    <3> QED  BY <1>10, <3>1, <3>2
  <2>5. ASSUME NEW u \in sameKey', Reads(u)', pc'[u] = "wire",
               NEW i \in 1..Len(wire[Home(u)]), NEW j \in 1..Len(wire[Home(u)]),
               wire[Home(u)][i] = u, i < j, \A l \in (i + 1)..Len(wire[Home(u)]) : wire[Home(u)][l] # u
        PROVE  kind[wire[Home(u)][j]] # "delete"
    BY <2>1, <2>5 DEF OrderInv
  <2> QED  BY <2>2, <2>3, <2>4, <2>5 DEF OrderInv
<1> QED
  BY <1>8, <1>10, <1>11

\* A task that is in no gate has nothing to forget.
LEMMA NothingToForget ==
  ASSUME TypeOK, TasksInv, NEW t \in Task, pc[t] # "gate", gate' = gate
  PROVE  Forget(t)
<1>1. Home(t) \in Proc
  BY TaskFacts
<1>2. ~ \E i \in 1..Len(gate[Home(t)]) : gate[Home(t)][i] = t
  BY <1>1 DEF TasksInv
<1>3. Without(gate[Home(t)], t) = gate[Home(t)]
  BY <1>2 DEF Without
<1> QED
  BY <1>1, <1>3 DEF Forget, TypeOK

\* The queues stay, and guards only become obsolete.
LEMMA QuietKeeps ==
  ASSUME TasksInv, OrderInv,
         gate' = gate, wire' = wire, kind' = kind, pc' = pc, effective' = effective,
         sameKey' \subseteq sameKey
  PROVE  /\ TasksInv' /\ OrderInv'
         /\ \A q \in Proc : NoDelete(q) => NoDelete(q)'
<1>1. TasksInv'
  BY DEF TasksInv
<1>2. OrderInv'
  BY DEF OrderInv, Reads, NoDelete, NoDeleteIn
<1> QED
  BY <1>1, <1>2 DEF NoDelete, NoDeleteIn

\* A leader starts, and its loader reads.
LEMMA LoadKeeps ==
  ASSUME TypeOK, TypeOK', TasksInv, OrderInv,
         NEW t \in Task, t # Handler(Home(t)), NEW x \in {"load", "loaded"},
         pc[t] = "idle" \/ (pc[t] = "load" /\ kind[t] = "fill"),
         pc' = [pc EXCEPT ![t] = x], kind' = [kind EXCEPT ![t] = "fill"],
         gate' = gate, wire' = wire, effective' = effective,
         \A u \in sameKey' : u \in sameKey \/ u = t
  PROVE  /\ TasksInv' /\ OrderInv'
         /\ \A q \in Proc : NoDelete(q) => NoDelete(q)'
<1>1. \A q \in Proc : wire[q] \in Seq(Task) /\ gate[q] \in Seq(Task)
  BY DEF TypeOK
<1>2. \A u \in Task : u # t => pc'[u] = pc[u] /\ kind'[u] = kind[u]
  BY DEF TypeOK
<1>3. pc'[t] = x /\ kind'[t] = "fill"
  BY DEF TypeOK
<1>4. \A q \in Proc : \A i \in 1..Len(gate[q]) : gate[q][i] \in Task /\ gate[q][i] # t
  BY <1>1 DEF TasksInv
<1>5. ASSUME NEW q \in Proc, NEW i \in 1..Len(wire[q])
      PROVE  wire[q][i] \in Task /\ kind'[wire[q][i]] = kind[wire[q][i]]
  <2>1. wire[q][i] \in Task
    BY <1>1, <1>5
  <2>2. wire[q][i] = t => kind[t] = "fill"
    BY <1>5 DEF TasksInv
  <2> QED  BY <1>2, <1>3, <2>1, <2>2
<1>6. TasksInv'
  <2>1. ASSUME NEW q \in Proc PROVE kind'[Handler(q)] \in {"none", "prime"}
    <3>1. Handler(q) \in Task /\ Home(Handler(q)) = q
      BY TaskFacts
    <3> QED  BY <1>2, <3>1 DEF TasksInv
  <2>2. ASSUME NEW u \in Task
        PROVE  /\ pc'[u] \in {"load", "loaded"} => kind'[u] = "fill"
               /\ pc'[u] = "refused" => kind'[u] \notin {"get", "prime"}
    BY <1>2, <1>3 DEF TasksInv
  <2>3. \A u \in effective' : pc'[u] # "idle" /\ u # Handler(Home(u))
    BY <1>2, <1>3 DEF TasksInv, TypeOK
  <2>4. \A q \in Proc : \A i \in 1..Len(wire[q]) :
          Home(wire[q][i]) = q /\ (wire[q][i] # Handler(q) => pc'[wire[q][i]] # "idle")
    BY <1>2, <1>3, <1>5 DEF TasksInv
  <2>5. \A q \in Proc : \A i \in 1..Len(gate[q]) : Home(gate[q][i]) = q /\ pc'[gate[q][i]] = "gate"
    BY <1>2, <1>4 DEF TasksInv
  <2> QED  BY <2>1, <2>2, <2>3, <2>4, <2>5 DEF TasksInv
<1>7. ASSUME NEW q \in Proc
      PROVE  (NoDeleteIn(gate[q]) => NoDeleteIn(gate[q])') /\ (NoDeleteIn(wire[q]) => NoDeleteIn(wire[q])')
  BY <1>2, <1>4, <1>5 DEF NoDeleteIn
<1>8. OrderInv'
  <2>1. ASSUME NEW u \in sameKey', Reads(u)', pc'[u] \in {"gate", "wire", "back"}
        PROVE  u \in sameKey /\ u \in Task /\ Reads(u) /\ pc'[u] = pc[u] /\ Home(u) \in Proc
    BY <1>2, <1>3, <2>1, TaskFacts DEF TypeOK, Reads
  <2>2. ASSUME NEW u \in sameKey', Reads(u)', pc'[u] = "gate",
               NEW i \in 1..Len(gate[Home(u)]), NEW j \in 1..Len(gate[Home(u)]), i < j, gate[Home(u)][i] = u
        PROVE  kind'[gate[Home(u)][j]] # "delete"
    <3>1. kind[gate[Home(u)][j]] # "delete"
      BY <2>1, <2>2 DEF OrderInv
    <3> QED  BY <1>2, <1>4, <2>1, <2>2, <3>1
  <2>3. ASSUME NEW u \in sameKey', Reads(u)', pc'[u] = "wire" PROVE NoDeleteIn(gate[Home(u)])'
    <3>1. PICK q \in Proc : q = Home(u)
      BY <2>1, <2>3
    <3>2. NoDeleteIn(gate[q])
      BY <2>1, <2>3, <3>1 DEF OrderInv
    <3> QED  BY <1>7, <3>1, <3>2
  <2>4. ASSUME NEW u \in sameKey', Reads(u)', pc'[u] = "back" PROVE NoDelete(Home(u))'
    <3>1. PICK q \in Proc : q = Home(u)
      BY <2>1, <2>4
    <3>2. NoDelete(q)
      BY <2>1, <2>4, <3>1 DEF OrderInv
    <3> QED  BY <1>7, <3>1, <3>2 DEF NoDelete
  <2>5. ASSUME NEW u \in sameKey', Reads(u)', pc'[u] = "wire",
               NEW i \in 1..Len(wire[Home(u)]), NEW j \in 1..Len(wire[Home(u)]),
               wire[Home(u)][i] = u, i < j, \A l \in (i + 1)..Len(wire[Home(u)]) : wire[Home(u)][l] # u
        PROVE  kind'[wire[Home(u)][j]] # "delete"
    <3>1. kind[wire[Home(u)][j]] # "delete"
      BY <2>1, <2>5 DEF OrderInv
    <3> QED  BY <1>5, <2>1, <2>5, <3>1
  <2> QED  BY <2>2, <2>3, <2>4, <2>5 DEF OrderInv
<1> QED
  BY <1>6, <1>7, <1>8 DEF NoDelete

\* The gate sends its oldest request, or its closure refuses.
LEMMA DispatchKeeps ==
  ASSUME TypeOK, TypeOK', TasksInv, OrderInv, NEW p \in Proc, Dispatch(p)
  PROVE  /\ TasksInv' /\ OrderInv'
         /\ \A q \in Proc : NoDelete(q) => NoDelete(q)'
<1> DEFINE g == gate[p]
<1>1. g \in Seq(Task) /\ g # <<>> /\ \A q \in Proc : wire[q] \in Seq(Task) /\ gate[q] \in Seq(Task)
  BY DEF Dispatch, TypeOK
<1> HIDE DEF g
<1>2. /\ Tail(g) \in Seq(Task) /\ Len(Tail(g)) = Len(g) - 1 /\ Head(g) = g[1]
      /\ \A i \in 1..Len(Tail(g)) : Tail(g)[i] = g[i + 1]
      /\ \A i \in 1..Len(Tail(g)) : i + 1 \in 1..Len(g)
      /\ 1 \in 1..Len(g)
  BY <1>1, TailPlaces
<1>3. PICK t \in Task : t = Head(g) /\ t = g[1]
  BY <1>1, <1>2
<1>4. Home(t) = p /\ pc[t] = "gate"
  BY <1>2, <1>3 DEF TasksInv, g
<1>5. gate'[p] = Tail(g) /\ \A q \in Proc : q # p => gate'[q] = gate[q]
  BY DEF Dispatch, TypeOK, g
<1>6. PICK x \in {"wire", "refused"} :
        /\ pc' = [pc EXCEPT ![t] = x]
        /\ x = "wire" => wire' = [wire EXCEPT ![p] = Append(@, t)]
        /\ x = "refused" => wire' = wire /\ ~Proceeds(t)
  <2>1. CASE pc' = [pc EXCEPT ![t] = "wire"] /\ wire' = [wire EXCEPT ![p] = Append(@, t)]
    BY <2>1
  <2>2. CASE pc' = [pc EXCEPT ![t] = "refused"] /\ wire' = wire /\ ~Proceeds(t)
    BY <2>2
  <2> QED  BY <1>3, <2>1, <2>2 DEF Dispatch, g
<1>7. kind' = kind /\ sameKey' = sameKey /\ effective' = effective
  BY DEF Dispatch, taskVars, guardVars, histVars
<1>8. /\ \A u \in Task : u # t => pc'[u] = pc[u]
      /\ pc'[t] = x
  BY <1>6 DEF TypeOK
<1>9. x = "refused" => kind[t] \notin {"get", "prime"}
  BY <1>6 DEF Proceeds
<1>10. /\ \A q \in Proc : q # p \/ x = "refused" => wire'[q] = wire[q]
       /\ x = "wire" => wire'[p] = Append(wire[p], t)
  BY <1>6, ZenonT(40) DEF TypeOK
<1>11. x = "wire" => /\ Len(wire'[p]) = Len(wire[p]) + 1 /\ wire'[p][Len(wire[p]) + 1] = t
                     /\ \A i \in 1..Len(wire[p]) : wire'[p][i] = wire[p][i]
                     /\ \A i \in 1..Len(wire'[p]) : i \in 1..Len(wire[p]) \/ i = Len(wire[p]) + 1
  BY <1>1, <1>10, AppendPlaces
<1>12. ASSUME NEW q \in Proc, NEW i \in 1..Len(wire'[q])
       PROVE  \/ q = p /\ x = "wire" /\ i = Len(wire[p]) + 1 /\ wire'[q][i] = t
              \/ i \in 1..Len(wire[q]) /\ wire'[q][i] = wire[q][i]
  BY <1>10, <1>11, <1>12
<1>13. ASSUME NEW i \in 1..Len(gate'[p])
       PROVE  gate'[p][i] = g[i + 1] /\ i + 1 \in 1..Len(g) /\ g[i + 1] # t /\ g[i + 1] \in Task
  <2>1. gate'[p][i] = g[i + 1] /\ i + 1 \in 1..Len(g) /\ g[i + 1] \in Task
    BY <1>1, <1>2, <1>5
  <2>2. i \in Nat /\ i # 0
    BY <1>2, <1>5
  <2>3. Distinct(g)
    BY DEF TasksInv, g
  <2>4. g[i + 1] = g[1] => i + 1 = 1
    BY <1>2, <2>1, <2>3 DEF Distinct
  <2> QED  BY <1>3, <2>1, <2>2, <2>4
<1>14. TasksInv'
  <2>1. ASSUME NEW q \in Proc PROVE Distinct(gate'[q])
    <3>1. CASE q = p
      <4>1. Distinct(g)
        BY DEF TasksInv, g
      <4>2. ASSUME NEW i \in 1..Len(gate'[p]), NEW j \in 1..Len(gate'[p]), gate'[p][i] = gate'[p][j] PROVE i = j
        <5>1. i + 1 = j + 1
          BY <1>13, <4>1, <4>2 DEF Distinct
        <5>2. i \in Nat /\ j \in Nat
          BY <1>2, <1>5
        <5> QED  BY <5>1, <5>2
      <4> QED  BY <3>1, <4>2 DEF Distinct
    <3>2. CASE q # p
      BY <1>5, <3>2 DEF TasksInv
    <3> QED  BY <3>1, <3>2
  <2>2. ASSUME NEW q \in Proc, NEW i \in 1..Len(gate'[q])
        PROVE  Home(gate'[q][i]) = q /\ pc'[gate'[q][i]] = "gate"
    <3>1. CASE q = p
      <4>1. Home(g[i + 1]) = p /\ pc[g[i + 1]] = "gate"
        BY <1>13, <2>2, <3>1 DEF TasksInv, g
      <4> QED  BY <1>8, <1>13, <2>2, <3>1, <4>1
    <3>2. CASE q # p
      <4>1. gate'[q] = gate[q]
        BY <1>5, <3>2
      <4>2. gate[q][i] \in Task /\ Home(gate[q][i]) = q /\ pc[gate[q][i]] = "gate"
        BY <1>1, <2>2, <4>1 DEF TasksInv
      <4> QED  BY <1>4, <1>8, <3>2, <4>1, <4>2
    <3> QED  BY <3>1, <3>2
  <2>3. ASSUME NEW q \in Proc, NEW i \in 1..Len(wire'[q])
        PROVE  Home(wire'[q][i]) = q /\ (wire'[q][i] # Handler(q) => pc'[wire'[q][i]] # "idle")
    <3>1. CASE q = p /\ wire'[q][i] = t
      BY <1>4, <1>8, <3>1
    <3>2. CASE i \in 1..Len(wire[q]) /\ wire'[q][i] = wire[q][i]
      <4>1. wire[q][i] \in Task
        BY <1>1, <3>2
      <4> QED  BY <1>8, <3>2, <4>1 DEF TasksInv
    <3> QED  BY <1>12, <2>3, <3>1, <3>2
  <2>4. ASSUME NEW u \in Task
        PROVE  /\ pc'[u] \in {"load", "loaded"} => kind'[u] = "fill"
               /\ pc'[u] = "refused" => kind'[u] \notin {"get", "prime"}
    BY <1>7, <1>8, <1>9 DEF TasksInv
  <2>5. \A u \in effective' : pc'[u] # "idle" /\ u # Handler(Home(u))
    BY <1>7, <1>8 DEF TasksInv, TypeOK
  <2> QED  BY <1>7, <2>1, <2>2, <2>3, <2>4, <2>5 DEF TasksInv
<1>15. ASSUME NEW q \in Proc PROVE NoDeleteIn(gate[q]) => NoDeleteIn(gate[q])'
  <2>1. ASSUME NEW i \in 1..Len(gate'[q]), NoDeleteIn(gate[q]) PROVE kind[gate'[q][i]] # "delete"
    <3>1. CASE q = p
      BY <1>13, <2>1, <3>1 DEF NoDeleteIn, g
    <3>2. CASE q # p
      <4>1. gate'[q] = gate[q]
        BY <1>5, <3>2
      <4> QED  BY <2>1, <4>1 DEF NoDeleteIn
    <3> QED  BY <3>1, <3>2
  <2> QED  BY <1>7, <2>1 DEF NoDeleteIn
<1>16. NoDeleteIn(gate[p]) => kind[t] # "delete"
  BY <1>2, <1>3 DEF NoDeleteIn, g
<1>17. ASSUME NEW q \in Proc PROVE NoDelete(q) => NoDelete(q)'
  <2>1. ASSUME NEW i \in 1..Len(wire'[q]), NoDelete(q) PROVE kind[wire'[q][i]] # "delete"
    <3>1. CASE q = p /\ wire'[q][i] = t
      BY <1>16, <2>1, <3>1 DEF NoDelete
    <3>2. CASE i \in 1..Len(wire[q]) /\ wire'[q][i] = wire[q][i]
      BY <2>1, <3>2 DEF NoDelete, NoDeleteIn
    <3> QED  BY <1>12, <2>1, <3>1, <3>2
  <2>2. NoDelete(q) => NoDeleteIn(wire[q])'
    BY <1>7, <2>1 DEF NoDeleteIn
  <2> QED  BY <1>15, <2>2 DEF NoDelete
<1>18. OrderInv'
  <2>1. ASSUME NEW u \in sameKey', Reads(u)'
        PROVE  u \in sameKey /\ u \in Task /\ Reads(u) /\ Home(u) \in Proc
    BY <1>7, <2>1, TaskFacts DEF TypeOK, Reads
  <2>2. ASSUME NEW u \in sameKey', Reads(u)', pc'[u] = "gate",
               NEW i \in 1..Len(gate'[Home(u)]), NEW j \in 1..Len(gate'[Home(u)]),
               i < j, gate'[Home(u)][i] = u
        PROVE  kind'[gate'[Home(u)][j]] # "delete"
    <3>1. pc[u] = "gate"
      BY <1>8, <2>1, <2>2
    <3>2. CASE Home(u) = p
      <4>1. /\ i + 1 \in 1..Len(g) /\ j + 1 \in 1..Len(g) /\ g[i + 1] = u /\ gate'[p][j] = g[j + 1]
            /\ i + 1 < j + 1
        BY <1>2, <1>5, <1>13, <2>2, <3>2, SMTT(20)
      <4>2. kind[g[j + 1]] # "delete"
        BY <2>1, <2>2, <3>1, <3>2, <4>1 DEF OrderInv, g
      <4> QED  BY <1>7, <3>2, <4>1, <4>2
    <3>3. CASE Home(u) # p
      <4>1. gate'[Home(u)] = gate[Home(u)]
        BY <1>5, <2>1, <2>2, <3>3
      <4> QED  BY <1>7, <2>1, <2>2, <3>1, <4>1 DEF OrderInv
    <3> QED  BY <3>2, <3>3
  <2>3. ASSUME NEW u \in sameKey', Reads(u)', pc'[u] = "wire" PROVE NoDeleteIn(gate[Home(u)])'
    <3>1. CASE u = t
      <4>1. ASSUME NEW i \in 1..Len(gate'[p]) PROVE kind[gate'[p][i]] # "delete"
        <5>1. i + 1 \in 1..Len(g) /\ 1 < i + 1 /\ gate'[p][i] = g[i + 1]
          BY <1>2, <1>5, <1>13
        <5> QED  BY <1>2, <1>3, <1>4, <2>1, <2>3, <3>1, <5>1 DEF OrderInv, g
      <4> QED  BY <1>4, <1>7, <3>1, <4>1 DEF NoDeleteIn
    <3>2. CASE u # t
      <4>1. PICK q \in Proc : q = Home(u)
        BY <2>1, <2>3
      <4>2. NoDeleteIn(gate[q])
        BY <1>8, <2>1, <2>3, <3>2, <4>1 DEF OrderInv
      <4> QED  BY <1>15, <4>1, <4>2
    <3> QED  BY <3>1, <3>2
  <2>4. ASSUME NEW u \in sameKey', Reads(u)', pc'[u] = "wire",
               NEW i \in 1..Len(wire'[Home(u)]), NEW j \in 1..Len(wire'[Home(u)]),
               wire'[Home(u)][i] = u, i < j, \A l \in (i + 1)..Len(wire'[Home(u)]) : wire'[Home(u)][l] # u
        PROVE  kind'[wire'[Home(u)][j]] # "delete"
    <3>1. CASE u = t
      <4>1. Len(wire'[p]) = Len(wire[p]) + 1 /\ wire'[p][Len(wire[p]) + 1] = t
        BY <1>8, <1>11, <2>4, <3>1
      <4>2. i \in Nat /\ j \in Nat /\ j <= Len(wire[p]) + 1 /\ Len(wire[p]) \in Nat
        BY <1>1, <1>4, <2>4, <3>1, <4>1
      <4>3. Len(wire[p]) + 1 \in (i + 1)..Len(wire'[p])
        BY <2>4, <4>1, <4>2
      <4> QED  BY <1>4, <2>4, <3>1, <4>1, <4>3
    <3>2. CASE u # t
      <4>1. PICK q \in Proc : q = Home(u)
        BY <2>1, <2>4
      <4>2. pc[u] = "wire" /\ NoDeleteIn(gate[q])
        BY <1>8, <2>1, <2>4, <3>2, <4>1 DEF OrderInv
      <4>3. i \in 1..Len(wire[q]) /\ wire'[q][i] = wire[q][i]
        BY <1>12, <2>4, <3>2, <4>1
      <4>4. CASE q = p /\ wire'[q][j] = t
        BY <1>7, <1>16, <4>1, <4>2, <4>4
      <4>5. CASE j \in 1..Len(wire[q]) /\ wire'[q][j] = wire[q][j]
        <5>1. ASSUME NEW l \in (i + 1)..Len(wire[q]) PROVE wire[q][l] # u
          <6>1. CASE q = p /\ x = "wire"
            <7>1. l \in (i + 1)..Len(wire'[q]) /\ wire'[q][l] = wire[q][l]
              BY <1>1, <1>11, <6>1
            <7> QED  BY <2>4, <4>1, <7>1
          <6>2. CASE q # p \/ x = "refused"
            <7>1. wire'[q] = wire[q]
              BY <1>10, <6>2
            <7> QED  BY <2>4, <4>1, <7>1
          <6> QED  BY <6>1, <6>2
        <5>2. kind[wire[q][j]] # "delete"
          BY <2>1, <2>4, <4>1, <4>2, <4>3, <4>5, <5>1 DEF OrderInv
        <5> QED  BY <1>7, <4>1, <4>5, <5>2
      <4> QED  BY <1>12, <2>4, <4>1, <4>4, <4>5
    <3> QED  BY <3>1, <3>2
  <2>5. ASSUME NEW u \in sameKey', Reads(u)', pc'[u] = "back" PROVE NoDelete(Home(u))'
    <3>1. PICK q \in Proc : q = Home(u)
      BY <2>1, <2>5
    <3>2. NoDelete(q)
      BY <1>8, <2>1, <2>5, <3>1 DEF OrderInv
    <3> QED  BY <1>17, <3>1, <3>2
  <2> QED  BY <2>2, <2>3, <2>4, <2>5 DEF OrderInv
<1> QED
  BY <1>14, <1>17, <1>18

\* What an executed command does to its task, if that still waits for it.
LEMMA ExecuteCases ==
  ASSUME TypeOK, NEW p \in Proc, Execute(p)
  PROVE  \E t \in Task : \E x \in {"idle", "load", "loaded", "gate", "wire", "back", "refused", "done"} :
           /\ wire[p] # <<>> /\ t = Head(wire[p])
           /\ wire' = [wire EXCEPT ![p] = Tail(@)]
           /\ pc' = [pc EXCEPT ![t] = x]
           /\ x = pc[t] \/ (Awaited(p) /\ x \in {"back", "refused"})
           /\ x = "refused" /\ pc[t] # "refused" => kind[t] = "fill"
           /\ effective' = effective \/ (kind[t] = "delete" /\ effective' = effective \cup {t})
<1>1. PICK t \in Task : wire[p] # <<>> /\ t = Head(wire[p])
  BY QueueTypes DEF Execute
<1>2. pc[t] \in {"idle", "load", "loaded", "gate", "wire", "back", "refused", "done"}
  BY DEF TypeOK
<1>3. effective' = effective \/ (kind[t] = "delete" /\ effective' = effective \cup {t})
  BY <1>1 DEF Execute
<1>4. wire' = [wire EXCEPT ![p] = Tail(@)]
  BY DEF Execute
<1>5. CASE kind[t] = "fill" /\ pc' = [pc EXCEPT ![t] = IF Awaited(p) THEN "refused" ELSE @]
  <2>1. CASE Awaited(p)
    <3>1. pc' = [pc EXCEPT ![t] = "refused"]
      BY <1>5, <2>1
    <3> QED  BY <1>1, <1>3, <1>4, <1>5, <2>1, <3>1
  <2>2. CASE ~Awaited(p)
    <3>1. pc' = [pc EXCEPT ![t] = pc[t]]
      BY <1>5, <2>2
    <3> QED  BY <1>1, <1>2, <1>3, <1>4, <1>5, <3>1
  <2> QED  BY <2>1, <2>2
<1>6. CASE pc' = [pc EXCEPT ![t] = IF Awaited(p) THEN "back" ELSE @]
  <2>1. CASE Awaited(p)
    <3>1. pc' = [pc EXCEPT ![t] = "back"]
      BY <1>6, <2>1
    <3> QED  BY <1>1, <1>3, <1>4, <2>1, <3>1
  <2>2. CASE ~Awaited(p)
    <3>1. pc' = [pc EXCEPT ![t] = pc[t]]
      BY <1>6, <2>2
    <3> QED  BY <1>1, <1>2, <1>3, <1>4, <3>1
  <2> QED  BY <2>1, <2>2
<1>7. \/ pc' = [pc EXCEPT ![t] = IF Awaited(p) THEN "back" ELSE @]
      \/ kind[t] = "fill" /\ pc' = [pc EXCEPT ![t] = IF Awaited(p) THEN "refused" ELSE @]
  BY <1>1 DEF Execute
<1> QED
  BY <1>5, <1>6, <1>7

LEMMA ExecuteKeeps ==
  ASSUME TypeOK, TypeOK', TasksInv, OrderInv, NEW p \in Proc, Execute(p)
  PROVE  /\ TasksInv' /\ OrderInv'
         /\ \A q \in Proc : NoDelete(q) => NoDelete(q)'
<1>1. PICK t \in Task, x \in {"idle", "load", "loaded", "gate", "wire", "back", "refused", "done"} :
        /\ wire[p] # <<>> /\ t = Head(wire[p])
        /\ wire' = [wire EXCEPT ![p] = Tail(@)]
        /\ pc' = [pc EXCEPT ![t] = x]
        /\ x = pc[t] \/ (Awaited(p) /\ x \in {"back", "refused"})
        /\ x = "refused" /\ pc[t] # "refused" => kind[t] = "fill"
        /\ effective' = effective \/ (kind[t] = "delete" /\ effective' = effective \cup {t})
  BY ExecuteCases
<1> DEFINE w == wire[p]
<1>2. w \in Seq(Task) /\ w # <<>> /\ \A q \in Proc : wire[q] \in Seq(Task) /\ gate[q] \in Seq(Task)
  BY <1>1 DEF TypeOK
<1> HIDE DEF w
<1>3. /\ Tail(w) \in Seq(Task) /\ Len(Tail(w)) = Len(w) - 1 /\ Head(w) = w[1]
      /\ \A i \in 1..Len(Tail(w)) : Tail(w)[i] = w[i + 1]
      /\ \A i \in 1..Len(Tail(w)) : i + 1 \in 1..Len(w)
      /\ 1 \in 1..Len(w)
  BY <1>2, TailPlaces
<1>4. t = w[1] /\ Home(t) = p /\ (t # Handler(p) => pc[t] # "idle")
  BY <1>1, <1>3 DEF w, TasksInv
<1>5. wire'[p] = Tail(w) /\ \A q \in Proc : q # p => wire'[q] = wire[q]
  BY <1>1 DEF TypeOK, w
<1>6. kind' = kind /\ sameKey' = sameKey /\ gate' = gate
  BY DEF Execute, taskVars, guardVars, queueVars
<1>7. (\A u \in Task : u # t => pc'[u] = pc[u]) /\ pc'[t] = x
  BY <1>1 DEF TypeOK
<1>8. x # pc[t] => pc[t] = "wire" /\ x \in {"back", "refused"} /\ \A i \in 2..Len(w) : w[i] # t
  BY <1>1 DEF Awaited, w
<1>9. ASSUME NEW i \in 1..Len(wire'[p])
      PROVE  wire'[p][i] = w[i + 1] /\ i + 1 \in 1..Len(w) /\ w[i + 1] \in Task /\ i \in Nat /\ i # 0
  BY <1>2, <1>3, <1>5
<1>10. TasksInv'
  <2>1. ASSUME NEW q \in Proc, NEW i \in 1..Len(gate[q])
        PROVE  Home(gate[q][i]) = q /\ pc'[gate[q][i]] = "gate"
    <3>1. gate[q][i] \in Task /\ pc[gate[q][i]] = "gate" /\ Home(gate[q][i]) = q
      BY <1>2 DEF TasksInv
    <3> QED  BY <1>7, <1>8, <3>1
  <2>2. ASSUME NEW u \in Task, pc[u] # "idle" PROVE pc'[u] # "idle"
    BY <1>7, <1>8, <2>2
  <2>3. ASSUME NEW q \in Proc, NEW i \in 1..Len(wire'[q])
        PROVE  Home(wire'[q][i]) = q /\ (wire'[q][i] # Handler(q) => pc'[wire'[q][i]] # "idle")
    <3>1. PICK k \in 1..Len(wire[q]) : wire'[q][i] = wire[q][k]
      <4>1. CASE q = p
        BY <1>9, <2>3, <4>1 DEF w
      <4>2. CASE q # p
        <5>1. wire'[q] = wire[q]
          BY <1>5, <4>2
        <5> QED  BY <2>3, <5>1
      <4> QED  BY <4>1, <4>2
    <3>2. wire[q][k] \in Task
      BY <1>2
    <3> QED  BY <2>2, <3>1, <3>2 DEF TasksInv
  <2>4. ASSUME NEW u \in Task
        PROVE  /\ pc'[u] \in {"load", "loaded"} => kind[u] = "fill"
               /\ pc'[u] = "refused" => kind[u] \notin {"get", "prime"}
    <3>1. CASE u # t \/ x = pc[t]
      BY <1>7, <3>1 DEF TasksInv
    <3>2. CASE u = t /\ x # pc[t]
      BY <1>1, <1>7, <1>8, <3>2
    <3> QED  BY <3>1, <3>2
  <2>5. ASSUME NEW u \in effective' PROVE pc'[u] # "idle" /\ u # Handler(Home(u))
    <3>1. CASE u \in effective
      BY <2>2, <3>1 DEF TasksInv, TypeOK
    <3>2. CASE u = t /\ kind[t] = "delete"
      <4>1. t # Handler(Home(t))
        BY <1>4, <3>2 DEF TasksInv
      <4> QED  BY <1>4, <2>2, <3>2, <4>1
    <3> QED  BY <1>1, <2>5, <3>1, <3>2
  <2> QED  BY <1>6, <2>1, <2>3, <2>4, <2>5 DEF TasksInv
<1>11. ASSUME NEW q \in Proc PROVE NoDelete(q) => NoDelete(q)'
  <2>1. ASSUME NEW i \in 1..Len(wire'[q]), NoDeleteIn(wire[q]) PROVE kind[wire'[q][i]] # "delete"
    <3>1. CASE q = p
      BY <1>9, <2>1, <3>1 DEF NoDeleteIn, w
    <3>2. CASE q # p
      <4>1. wire'[q] = wire[q]
        BY <1>5, <3>2
      <4> QED  BY <2>1, <4>1 DEF NoDeleteIn
    <3> QED  BY <3>1, <3>2
  <2>2. NoDeleteIn(wire[q]) => NoDeleteIn(wire[q])'
    BY <1>6, <2>1 DEF NoDeleteIn
  <2>3. NoDeleteIn(gate[q]) => NoDeleteIn(gate[q])'
    BY <1>6 DEF NoDeleteIn
  <2> QED  BY <2>2, <2>3 DEF NoDelete
<1>12. OrderInv'
  <2>1. ASSUME NEW u \in sameKey', Reads(u)'
        PROVE  u \in sameKey /\ u \in Task /\ Reads(u) /\ Home(u) \in Proc
    BY <1>6, <2>1, TaskFacts DEF TypeOK, Reads
  <2>2. ASSUME NEW u \in sameKey', Reads(u)', pc'[u] \in {"gate", "wire"} PROVE pc[u] = pc'[u]
    BY <1>7, <1>8, <2>1, <2>2
  <2>3. ASSUME NEW u \in sameKey', Reads(u)', pc'[u] = "gate",
               NEW i \in 1..Len(gate[Home(u)]), NEW j \in 1..Len(gate[Home(u)]), i < j, gate[Home(u)][i] = u
        PROVE  kind[gate[Home(u)][j]] # "delete"
    BY <2>1, <2>2, <2>3 DEF OrderInv
  <2>4. ASSUME NEW u \in sameKey', Reads(u)', pc'[u] = "wire" PROVE NoDeleteIn(gate[Home(u)])'
    <3>1. NoDeleteIn(gate[Home(u)])
      BY <2>1, <2>2, <2>4 DEF OrderInv
    <3> QED  BY <1>6, <3>1 DEF NoDeleteIn
  <2>5. ASSUME NEW u \in sameKey', Reads(u)', pc'[u] = "wire",
               NEW i \in 1..Len(wire'[Home(u)]), NEW j \in 1..Len(wire'[Home(u)]),
               wire'[Home(u)][i] = u, i < j, \A l \in (i + 1)..Len(wire'[Home(u)]) : wire'[Home(u)][l] # u
        PROVE  kind[wire'[Home(u)][j]] # "delete"
    <3>1. CASE Home(u) = p
      <4>1. /\ i + 1 \in 1..Len(w) /\ j + 1 \in 1..Len(w) /\ i + 1 < j + 1
            /\ w[i + 1] = u /\ wire'[p][j] = w[j + 1]
        <5>1. i \in 1..Len(wire'[p]) /\ j \in 1..Len(wire'[p]) /\ wire'[p][i] = u /\ i < j
          BY <2>5, <3>1
        <5>2. /\ wire'[p][i] = w[i + 1] /\ i + 1 \in 1..Len(w) /\ i \in Nat
              /\ wire'[p][j] = w[j + 1] /\ j + 1 \in 1..Len(w) /\ j \in Nat
          BY <1>9, <5>1
        <5>3. i + 1 < j + 1
          BY <5>1, <5>2
        <5> QED  BY <5>1, <5>2, <5>3
      <4>2. ASSUME NEW l \in ((i + 1) + 1)..Len(w) PROVE w[l] # u
        <5>1. l - 1 \in (i + 1)..Len(wire'[p]) /\ l - 1 \in 1..Len(wire'[p]) /\ (l - 1) + 1 = l
          BY <1>2, <1>3, <1>5, <1>9, <2>5, <3>1
        <5>2. wire'[p][l - 1] = w[(l - 1) + 1]
          BY <1>9, <5>1
        <5>3. wire'[p][l - 1] # u
          BY <2>5, <3>1, <5>1
        <5> QED  BY <5>1, <5>2, <5>3
      <4>3. kind[w[j + 1]] # "delete"
        <5>1. u \in sameKey /\ Reads(u) /\ pc[u] = "wire"
          BY <2>1, <2>2, <2>5
        <5>2. \A k, l \in 1..Len(w) :
                w[k] = u /\ k < l /\ (\A m \in (k + 1)..Len(w) : w[m] # u) => kind[w[l]] # "delete"
          BY <3>1, <5>1 DEF OrderInv, w
        <5> QED  BY <4>1, <4>2, <5>2
      <4> QED  BY <3>1, <4>1, <4>3
    <3>2. CASE Home(u) # p
      <4>1. wire'[Home(u)] = wire[Home(u)]
        BY <1>5, <2>1, <2>5, <3>2
      <4> QED  BY <2>1, <2>2, <2>5, <4>1 DEF OrderInv
    <3> QED  BY <3>1, <3>2
  <2>6. ASSUME NEW u \in sameKey', Reads(u)', pc'[u] = "back" PROVE NoDelete(Home(u))'
    <3>1. CASE pc[u] = "back"
      <4>1. PICK q \in Proc : q = Home(u)
        BY <2>1, <2>6
      <4>2. NoDelete(q)
        BY <2>1, <2>6, <3>1, <4>1 DEF OrderInv
      <4> QED  BY <1>11, <4>1, <4>2
    <3>2. CASE pc[u] # "back"
      <4>1. u = t /\ x # pc[t]
        BY <1>7, <2>1, <2>6, <3>2
      <4>2. pc[t] = "wire" /\ \A i \in 2..Len(w) : w[i] # t
        BY <1>8, <4>1
      <4>3. ASSUME NEW i \in 1..Len(wire'[p]) PROVE kind[wire'[p][i]] # "delete"
        <5>1. i + 1 \in 1..Len(w) /\ 1 < i + 1 /\ wire'[p][i] = w[i + 1]
          BY <1>9
        <5>2. \A l \in (1 + 1)..Len(w) : w[l] # t
          BY <4>2
        <5>3. t \in sameKey /\ Reads(t) /\ Home(t) = p /\ pc[t] = "wire"
          BY <1>4, <2>1, <2>6, <4>1, <4>2
        <5>4. \A j, k \in 1..Len(w) :
                w[j] = t /\ j < k /\ (\A l \in (j + 1)..Len(w) : w[l] # t) => kind[w[k]] # "delete"
          BY <5>3 DEF OrderInv, w
        <5>5. 1 \in 1..Len(w) /\ w[1] = t
          BY <1>3, <1>4
        <5>6. kind[w[i + 1]] # "delete"
          BY <5>1, <5>2, <5>4, <5>5
        <5> QED  BY <5>1, <5>6
      <4>4. NoDeleteIn(gate[p])
        BY <1>4, <2>1, <2>6, <4>1, <4>2 DEF OrderInv
      <4>5. NoDelete(p)'
        BY <1>6, <4>3, <4>4 DEF NoDelete, NoDeleteIn
      <4> QED  BY <1>4, <4>1, <4>5
    <3> QED  BY <3>1, <3>2
  <2> QED  BY <1>6, <2>3, <2>4, <2>5, <2>6 DEF OrderInv
<1> QED
  BY <1>10, <1>11, <1>12

LEMMA RestartKeeps ==
  ASSUME TypeOK, TypeOK', TasksInv, OrderInv, NEW p \in Proc, Restart(p)
  PROVE  /\ TasksInv' /\ OrderInv'
         /\ \A q \in Proc : NoDelete(q) => NoDelete(q)'
<1>1. kind' = kind /\ wire' = wire /\ effective' = effective
  BY DEF Restart
<1>2. gate'[p] = <<>> /\ \A q \in Proc : q # p => gate'[q] = gate[q]
  BY DEF Restart, TypeOK
<1>3. \A q \in Proc : wire[q] \in Seq(Task) /\ gate[q] \in Seq(Task)
  BY DEF TypeOK
<1>4. \A u \in sameKey' : u \in sameKey /\ u \in Task /\ Home(u) # p /\ Home(u) \in Proc
  BY TaskFacts DEF Restart, TypeOK
<1>5. ASSUME NEW u \in Task
      PROVE  /\ Home(u) # p => pc'[u] = pc[u]
             /\ pc'[u] \in {pc[u], "idle", "done"}
             /\ pc[u] # "idle" /\ u # Handler(p) => pc'[u] # "idle"
  <2>1. pc'[u] = IF u = Handler(p) THEN "idle" ELSE IF Home(u) = p /\ pc[u] # "idle" THEN "done" ELSE pc[u]
    BY DEF Restart
  <2>2. Home(Handler(p)) = p
    BY TaskFacts
  <2> QED  BY <2>1, <2>2
<1>6. TasksInv'
  <2>1. ASSUME NEW q \in Proc
        PROVE  Distinct(gate'[q]) /\ \A i \in 1..Len(gate'[q]) : Home(gate'[q][i]) = q /\ pc'[gate'[q][i]] = "gate"
    <3>1. CASE q = p
      BY <1>2, <3>1 DEF Distinct
    <3>2. CASE q # p
      <4>1. gate'[q] = gate[q]
        BY <1>2, <3>2
      <4>2. ASSUME NEW i \in 1..Len(gate[q]) PROVE Home(gate[q][i]) = q /\ pc'[gate[q][i]] = "gate"
        <5>1. gate[q][i] \in Task /\ Home(gate[q][i]) = q /\ pc[gate[q][i]] = "gate"
          BY <1>3 DEF TasksInv
        <5> QED  BY <1>5, <3>2, <5>1
      <4> QED  BY <4>1, <4>2 DEF TasksInv
    <3> QED  BY <3>1, <3>2
  <2>2. ASSUME NEW q \in Proc, NEW i \in 1..Len(wire[q])
        PROVE  Home(wire[q][i]) = q /\ (wire[q][i] # Handler(q) => pc'[wire[q][i]] # "idle")
    <3>1. wire[q][i] \in Task /\ Home(wire[q][i]) = q /\ (wire[q][i] # Handler(q) => pc[wire[q][i]] # "idle")
      BY <1>3 DEF TasksInv
    <3>2. Home(Handler(p)) = p
      BY TaskFacts
    <3> QED  BY <1>5, <3>1, <3>2
  <2>3. ASSUME NEW u \in Task
        PROVE  /\ pc'[u] \in {"load", "loaded"} => kind[u] = "fill"
               /\ pc'[u] = "refused" => kind[u] \notin {"get", "prime"}
    BY <1>5 DEF TasksInv
  <2>4. ASSUME NEW u \in effective PROVE pc'[u] # "idle" /\ u # Handler(Home(u))
    <3>1. u \in Task /\ pc[u] # "idle" /\ u # Handler(Home(u))
      BY DEF TasksInv, TypeOK
    <3>2. Home(Handler(p)) = p
      BY TaskFacts
    <3> QED  BY <1>5, <3>1, <3>2
  <2> QED  BY <1>1, <2>1, <2>2, <2>3, <2>4 DEF TasksInv
<1>7. ASSUME NEW q \in Proc PROVE NoDelete(q) => NoDelete(q)'
  <2>1. CASE q = p
    BY <1>1, <1>2, <2>1 DEF NoDelete, NoDeleteIn
  <2>2. CASE q # p
    <3>1. gate'[q] = gate[q]
      BY <1>2, <2>2
    <3> QED  BY <1>1, <3>1 DEF NoDelete, NoDeleteIn
  <2> QED  BY <2>1, <2>2
<1>8. OrderInv'
  <2>1. ASSUME NEW u \in sameKey'
        PROVE  u \in sameKey /\ pc'[u] = pc[u] /\ gate'[Home(u)] = gate[Home(u)] /\ Home(u) \in Proc
    BY <1>2, <1>4, <1>5
  <2> QED  BY <1>1, <2>1 DEF OrderInv, Reads, NoDelete, NoDeleteIn
<1> QED
  BY <1>6, <1>7, <1>8

LEMMA CallQueues ==
  ASSUME TypeOK, TypeOK', TasksInv, OrderInv, NEW t \in Task, Call(t)
  PROVE  /\ TasksInv' /\ OrderInv'
         /\ \A q \in Proc : NoDelete(q) /\ ~(Delete(t) /\ q = Home(t)) => NoDelete(q)'
<1> USE DEF originVars, procVars, taskVars, guardVars, queueVars, busVars, histVars
<1>1. Home(t) \in Proc /\ Handler(Home(t)) \in Task
  BY TaskFacts
<1>2. t \in scenario.procs \X scenario.slots => t # Handler(Home(t))
  BY SlotFacts
<1>3. kind[t] = "fill" => t # Handler(Home(t))
  BY <1>1 DEF TasksInv
<1>4. CASE Get(t)
  <2>1. /\ pc[t] = "idle" /\ pc' = [pc EXCEPT ![t] = "gate"] /\ kind' = [kind EXCEPT ![t] = "get"]
        /\ t # Handler(Home(t)) /\ Request(t) /\ wire' = wire /\ effective' = effective
    BY <1>2, <1>4 DEF Get, Begin
  <2>2. \A u \in sameKey' : u \in sameKey \/ u = t
    BY <1>4 DEF Get, Observe
  <2> QED  BY <2>1, <2>2, RequestKeeps
<1>5. CASE Set(t)
  <2>1. /\ pc[t] = "idle" /\ pc' = [pc EXCEPT ![t] = "gate"] /\ kind' = [kind EXCEPT ![t] = "set"]
        /\ t # Handler(Home(t)) /\ Request(t) /\ wire' = wire /\ effective' = effective
    BY <1>2, <1>5 DEF Set, Begin
  <2>2. \A u \in sameKey' : u \in sameKey \/ u = t
    BY <1>5 DEF Set, Mutate
  <2> QED  BY <2>1, <2>2, RequestKeeps
<1>6. CASE Delete(t)
  <2>1. /\ pc[t] = "idle" /\ pc' = [pc EXCEPT ![t] = "gate"] /\ kind' = [kind EXCEPT ![t] = "delete"]
        /\ t # Handler(Home(t)) /\ Request(t) /\ wire' = wire /\ effective' = effective
    BY <1>2, <1>6 DEF Delete, Begin
  <2>2. \A u \in sameKey' : u \in sameKey \/ u = t
    BY <1>6 DEF Delete, Mutate
  <2>3. \A u \in sameKey' : Home(u) = Home(t) => u = t
    BY <1>1, <1>6, TaskFacts DEF Delete, Mutate, TypeOK
  <2> QED  BY <1>6, <2>1, <2>2, <2>3, RequestKeeps
<1>7. CASE Fill(t)
  <2>1. /\ pc[t] = "idle" /\ pc' = [pc EXCEPT ![t] = "load"] /\ kind' = [kind EXCEPT ![t] = "fill"]
        /\ t # Handler(Home(t)) /\ gate' = gate /\ wire' = wire /\ effective' = effective
    BY <1>2, <1>7 DEF Fill, Begin
  <2>2. \A u \in sameKey' : u \in sameKey \/ u = t
    BY <1>7 DEF Fill, Observe
  <2> QED  BY <2>1, <2>2, LoadKeeps
<1>8. CASE LoaderReads(t)
  <2>1. /\ pc[t] = "load" /\ kind[t] = "fill" /\ kind' = kind /\ pc' = [pc EXCEPT ![t] = "loaded"]
        /\ gate' = gate /\ wire' = wire /\ effective' = effective /\ sameKey' = sameKey
    BY <1>8 DEF LoaderReads, TasksInv
  <2>2. kind' = [kind EXCEPT ![t] = "fill"]
    BY <2>1 DEF TypeOK
  <2> QED  BY <1>3, <2>1, <2>2, LoadKeeps
<1>9. CASE FillPublishes(t)
  <2>1. /\ pc[t] = "loaded" /\ kind[t] = "fill" /\ kind' = kind /\ pc' = [pc EXCEPT ![t] = "gate"]
        /\ Request(t) /\ wire' = wire /\ effective' = effective /\ sameKey' = sameKey
    BY <1>9 DEF FillPublishes, TasksInv
  <2>2. kind' = [kind EXCEPT ![t] = "fill"]
    BY <2>1 DEF TypeOK
  <2> QED  BY <1>3, <2>1, <2>2, RequestKeeps
<1>10. CASE GetSettles(t) \/ SetSettles(t) \/ DeleteSettles(t) \/ FillSettles(t)
  <2>1. Forget(t) /\ End(t) /\ kind' = kind /\ wire' = wire /\ effective' = effective
    BY <1>10 DEF GetSettles, SetSettles, DeleteSettles, FillSettles
  <2>2. pc' = [pc EXCEPT ![t] = "done"] /\ sameKey' \subseteq sameKey /\ t \notin sameKey'
    BY <2>1 DEF End, Release
  <2> QED  BY <2>1, <2>2, EndKeeps
<1>11. CASE FillKept(t) \/ FillPublished(t)
  <2>1. pc[t] # "gate" /\ gate' = gate /\ End(t) /\ kind' = kind /\ wire' = wire /\ effective' = effective
    BY <1>11 DEF FillKept, FillPublished
  <2>2. pc' = [pc EXCEPT ![t] = "done"] /\ sameKey' \subseteq sameKey /\ t \notin sameKey'
    BY <2>1 DEF End, Release
  <2>3. Forget(t)
    BY <2>1, NothingToForget
  <2> QED  BY <2>1, <2>2, <2>3, EndKeeps
<1> QED
  BY <1>4, <1>5, <1>6, <1>7, <1>8, <1>9, <1>10, <1>11 DEF Call

LEMMA SharedQueues ==
  ASSUME TypeOK, TypeOK', TasksInv, OrderInv, NEW p \in Proc, Shared(p)
  PROVE  /\ TasksInv' /\ OrderInv'
         /\ \A q \in Proc : NoDelete(q) => NoDelete(q)'
<1> USE DEF originVars, procVars, taskVars, guardVars, queueVars, busVars, histVars
<1> DEFINE h == Handler(p)
<1>1. h \in Task /\ Home(h) = p
  BY TaskFacts
<1>2. CASE ReceiveSet(p)
  <2>1. /\ pc[h] = "idle" /\ pc' = [pc EXCEPT ![h] = "gate"] /\ kind' = [kind EXCEPT ![h] = "prime"]
        /\ Request(h) /\ wire' = wire /\ effective' = effective
    BY <1>2 DEF ReceiveSet, Received
  <2>2. \A u \in sameKey' : u \in sameKey \/ u = h
    BY <1>2 DEF ReceiveSet, Mutate
  <2> HIDE DEF h
  <2>3. h = Handler(Home(h))
    BY <1>1 DEF h
  <2> QED  BY <1>1, <2>1, <2>2, <2>3, RequestKeeps
<1>3. CASE PrimeSettles(p)
  <2>1. /\ Forget(h) /\ pc' = [pc EXCEPT ![h] = "idle"] /\ kind' = kind /\ wire' = wire /\ effective' = effective
        /\ sameKey' \subseteq sameKey /\ h \notin sameKey'
    BY <1>3 DEF PrimeSettles, Release
  <2> HIDE DEF h
  <2>2. h = Handler(Home(h))
    BY <1>1 DEF h
  <2> QED  BY <1>1, <2>1, <2>2, EndKeeps
<1>4. CASE \/ Publish(p) \/ PublishFails(p) \/ ReceiveDelete(p) \/ IgnoreSet(p) \/ LinkDrops(p) \/ Disconnected(p)
           \/ Overflow(p) \/ Subscribed(p) \/ TrustRestored(p) \/ L1Evicts(p)
  <2>1. /\ gate' = gate /\ wire' = wire /\ kind' = kind /\ pc' = pc /\ effective' = effective
        /\ sameKey' \subseteq sameKey
    BY <1>4 DEF Publish, PublishFails, ReceiveDelete, IgnoreSet, LinkDrops, Disconnected, Overflow, Subscribed,
                TrustRestored, L1Evicts
  <2> QED  BY <2>1, QuietKeeps
<1>5. CASE Dispatch(p)
  BY <1>5, DispatchKeeps
<1>6. CASE Execute(p)
  BY <1>6, ExecuteKeeps
<1>7. CASE Restart(p)
  BY <1>7, RestartKeeps
<1> QED
  BY <1>2, <1>3, <1>4, <1>5, <1>6, <1>7 DEF Shared

-----------------------------------------------------------------------------
(* What the fence of L2 has seen *)

LEMMA NumberTypes ==
  ASSUME TypeOK
  PROVE  /\ db \in Nat /\ floor \in Nat /\ data.val \in Nat /\ returned \in Nat
         /\ \A t \in Task : since[t] \in Nat /\ val[t].val \in Nat
         /\ \A p \in Proc : applied[p] \in Nat /\ owed[p] \in Nat /\ l1[p].val \in Nat
         /\ \A e \in Events : e.bound \in Nat
<1>1. db \in Nat /\ floor \in Nat /\ returned \in Nat /\ data \in Entries
  BY HybridAssumption DEF TypeOK
<1>2. \A t \in Task : since[t] \in 0..MaxVersion /\ val[t] \in Entries
  BY DEF TypeOK
<1>3. \A p \in Proc : applied[p] \in 0..MaxVersion /\ owed[p] \in 0..MaxVersion /\ l1[p] \in Entries
  BY DEF TypeOK
<1>4. \A e \in Events : e.bound \in Nat
  BY HybridAssumption DEF Events
<1> QED
  BY <1>1, <1>2, <1>3, <1>4, EntryFacts, HybridAssumption

LEMMA EventBound ==
  ASSUME TypeOK, BoundsInv, NEW t \in Task
  PROVE  EventOf(t).bound <= floor
<1>1. EventOf(t).bound = IF t \in effective THEN since[t] ELSE 0
  BY DEF EventOf
<1> QED
  BY <1>1, NumberTypes DEF BoundsInv

LEMMA CallBounds ==
  ASSUME TypeOK, TypeOK', TasksInv, BoundsInv, NEW t \in Task, Call(t)
  PROVE  BoundsInv'
<1> USE DEF originVars, procVars, taskVars, guardVars, queueVars, busVars, histVars
<1>1. db' = db /\ floor' = floor /\ data' = data /\ effective' = effective /\ applied' = applied /\ owed' = owed /\ inbox' = inbox
  BY DEF Call, Get, GetSettles, Set, SetSettles, Delete, DeleteSettles, Fill, LoaderReads, FillPublishes, FillKept,
         FillPublished, FillSettles
<1>2. since' = since \/ (Delete(t) /\ since' = [since EXCEPT ![t] = db])
  BY DEF Call, Get, GetSettles, Set, SetSettles, Delete, DeleteSettles, Fill, LoaderReads, FillPublishes, FillKept,
         FillPublished, FillSettles
<1>3. outbox' = outbox \/ Broadcast(t)
  BY DEF Call, Get, GetSettles, Set, SetSettles, Delete, DeleteSettles, Fill, LoaderReads, FillPublishes, FillKept,
         FillPublished, FillSettles
<1>4. (\A u \in Task : since'[u] <= db') /\ (\A u \in effective' : since'[u] <= floor')
  <2>1. CASE since' = since
    BY <1>1, <2>1 DEF BoundsInv
  <2>2. CASE Delete(t) /\ since' = [since EXCEPT ![t] = db]
    <3>1. pc[t] = "idle" /\ t \notin effective
      BY <2>2 DEF Delete, Begin, TasksInv
    <3>2. since'[t] = db /\ \A u \in Task : u # t => since'[u] = since[u]
      BY <2>2 DEF TypeOK
    <3>3. \A u \in effective : u \in Task /\ u # t
      BY <3>1 DEF TypeOK
    <3>4. ASSUME NEW u \in Task PROVE since'[u] <= db'
      BY <1>1, <3>2, NumberTypes DEF BoundsInv
    <3>5. ASSUME NEW u \in effective PROVE since'[u] <= floor'
      BY <1>1, <3>2, <3>3 DEF BoundsInv
    <3> QED  BY <1>1, <3>4, <3>5
  <2> QED  BY <1>2, <2>1, <2>2
<1>5. ASSUME NEW p \in Proc, NEW e \in outbox'[p] PROVE e.bound <= floor'
  <2>1. CASE outbox' = outbox
    BY <1>1, <1>5, <2>1 DEF BoundsInv
  <2>2. CASE Broadcast(t)
    <3>1. outbox'[p] = outbox[p] \/ outbox'[p] = outbox[p] \cup {EventOf(t)}
      BY <2>2, TaskFacts DEF Broadcast, TypeOK
    <3> QED  BY <1>1, <1>5, <3>1, EventBound DEF BoundsInv
  <2> QED  BY <1>3, <2>1, <2>2
<1>6. ASSUME NEW u \in Task, kind'[u] = "set" PROVE val'[u].by = "set"
  <2>1. CASE u # t \/ (kind' = kind /\ val' = val)
    <3>1. kind'[u] = kind[u] /\ val'[u] = val[u]
      <4>1. ASSUME u # t PROVE kind'[u] = kind[u]
        BY <4>1 DEF TypeOK, Call, Get, GetSettles, Set, SetSettles, Delete, DeleteSettles, Fill, LoaderReads, FillPublishes,
                    FillKept, FillPublished, FillSettles, Begin
      <4>2. ASSUME u # t PROVE val'[u] = val[u]
        BY <4>2 DEF TypeOK, Call, Get, GetSettles, Set, SetSettles, Delete, DeleteSettles, Fill, LoaderReads, FillPublishes,
                    FillKept, FillPublished, FillSettles
      <4> QED  BY <2>1, <4>1, <4>2
    <3> QED  BY <1>6, <3>1 DEF BoundsInv
  <2>2. CASE u = t /\ Set(t)
    BY <2>2, EntryFacts DEF Set, TypeOK
  <2>3. CASE u = t /\ (Get(t) \/ Delete(t) \/ Fill(t))
    BY <1>6, <2>3 DEF Get, Delete, Fill, Begin, TypeOK
  <2>4. CASE u = t /\ LoaderReads(t)
    BY <1>6, <2>4 DEF LoaderReads, TasksInv
  <2>5. \/ Set(t) \/ Get(t) \/ Delete(t) \/ Fill(t) \/ LoaderReads(t)
        \/ (kind' = kind /\ val' = val)
    BY DEF Call, GetSettles, SetSettles, DeleteSettles, FillPublishes, FillKept, FillPublished, FillSettles
  <2> QED  BY <2>1, <2>2, <2>3, <2>4, <2>5
<1> QED
  BY <1>1, <1>4, <1>5, <1>6 DEF BoundsInv

LEMMA ExecuteBounds ==
  ASSUME TypeOK, TypeOK', TasksInv, BoundsInv, NEW p \in Proc, Execute(p)
  PROVE  BoundsInv' /\ \A q \in Proc : applied'[q] = applied[q] \/ (q = p /\ ~NoDelete(p))
<1> USE DEF originVars, procVars, taskVars, guardVars, queueVars, busVars, histVars
<1>1. PICK t \in Task : wire[p] # <<>> /\ t = Head(wire[p])
  BY QueueTypes DEF Execute
<1>2. db' = db /\ since' = since /\ owed' = owed /\ outbox' = outbox /\ inbox' = inbox
  BY DEF Execute
<1>3. kind[t] = "delete" => ~NoDelete(p)
  <2>1. 1 \in 1..Len(wire[p]) /\ wire[p][1] = t
    BY <1>1 DEF TypeOK
  <2> QED  BY <2>1 DEF NoDelete, NoDeleteIn
<1>4. floor <= floor' /\ floor' <= db /\ (floor' = db \/ floor' = floor)
  BY <1>1, NumberTypes DEF Execute, BoundsInv
<1>5. data'.by = "fill" => data'.val >= floor'
  <2>1. CASE kind[t] = "set" \/ kind[t] = "delete"
    <3>1. data' = (IF kind[t] = "set" THEN val[t] ELSE Absent) /\ floor' = db
      BY <1>1, <2>1 DEF Execute
    <3>2. kind[t] = "set" => val[t].by = "set"
      BY DEF BoundsInv
    <3> QED  BY <3>1, <3>2, EntryFacts
  <2>2. CASE kind[t] # "set" /\ kind[t] # "delete"
    <3>1. floor' = floor /\ (data' = data \/ (data' = val[t] /\ val[t].val >= floor))
      BY <1>1, <2>2 DEF Execute
    <3> QED  BY <3>1 DEF BoundsInv
  <2> QED  BY <2>1, <2>2
<1>6. \/ effective' = effective /\ applied' = applied
      \/ /\ kind[t] = "delete" /\ floor' = db
         /\ effective' = effective \cup {t} /\ applied' = [applied EXCEPT ![p] = AtLeast(@, since[t])]
  BY <1>1 DEF Execute
<1>7. \A u \in effective' : since'[u] <= floor'
  BY <1>2, <1>4, <1>6, NumberTypes, SMTT(20) DEF BoundsInv, TypeOK
<1>8. ASSUME NEW q \in Proc PROVE applied'[q] <= floor'
  <2>1. CASE applied'[q] = applied[q]
    <3>1. applied[q] <= floor /\ applied[q] \in Nat
      BY NumberTypes DEF BoundsInv
    <3>2. floor \in Nat /\ floor' \in Nat /\ floor <= floor'
      BY <1>4, NumberTypes DEF BoundsInv
    <3> QED  BY <2>1, <3>1, <3>2
  <2>2. CASE applied'[q] # applied[q]
    <3>1. q = p /\ applied'[p] = AtLeast(applied[p], since[t]) /\ floor' = db
      BY <1>6, <2>2 DEF TypeOK
    <3>2. applied[p] \in 0..MaxVersion /\ since[t] \in 0..MaxVersion /\ applied[p] <= db /\ since[t] <= db
      <4>1. applied[p] <= floor /\ since[t] <= db /\ floor <= db
        BY DEF BoundsInv
      <4>2. applied[p] \in 0..MaxVersion /\ since[t] \in 0..MaxVersion
        BY DEF TypeOK
      <4> QED  BY <4>1, <4>2, NumberTypes
    <3>3. AtLeast(applied[p], since[t]) <= db
      BY <3>2, AtLeastFacts, NumberTypes
    <3> QED  BY <3>1, <3>3
  <2> QED  BY <2>1, <2>2
<1>9. ASSUME NEW b \in Nat, b <= floor PROVE b <= floor'
  BY <1>4, <1>9, NumberTypes
<1>10. \A q \in Proc : owed'[q] <= floor'
  BY <1>2, <1>9, NumberTypes DEF BoundsInv
<1>11. ASSUME NEW q \in Proc, NEW e \in outbox[q] PROVE e.bound <= floor'
  <2>1. e \in Events /\ e.bound <= floor
    BY <1>11 DEF BoundsInv, TypeOK
  <2> QED  BY <1>9, <2>1, NumberTypes
<1>12. ASSUME NEW q \in Proc, NEW i \in 1..Len(inbox[q]) PROVE inbox[q][i].bound <= floor'
  <2>1. inbox[q] \in Seq(Events)
    BY DEF TypeOK
  <2>2. inbox[q][i] \in Events /\ inbox[q][i].bound <= floor
    BY <2>1 DEF BoundsInv
  <2> QED  BY <1>9, <2>2, NumberTypes
<1>13. \A q \in Proc : applied'[q] = applied[q] \/ (q = p /\ ~NoDelete(p))
  BY <1>3, <1>6 DEF TypeOK
<1>14. ASSUME NEW u \in Task, kind'[u] = "set" PROVE val'[u].by = "set"
  <2>1. kind' = kind
    BY DEF Execute
  <2>2. val'[u] = val[u]
    BY <1>1, <1>14, <2>1 DEF Execute, TypeOK
  <2> QED  BY <1>14, <2>1, <2>2 DEF BoundsInv
<1>15. BoundsInv'
  BY <1>2, <1>4, <1>5, <1>7, <1>8, <1>10, <1>11, <1>12, <1>14 DEF BoundsInv
<1> QED
  BY <1>13, <1>15

LEMMA NewestBound ==
  ASSUME TypeOK, BoundsInv, NEW p \in Proc
  PROVE  AtLeast(owed[p], Newest(inbox[p])) <= floor /\ AtLeast(owed[p], Newest(inbox[p])) >= owed[p]
<1>1. inbox[p] \in Seq(Events) /\ owed[p] \in 0..MaxVersion /\ owed[p] <= floor /\ floor \in Nat
  BY NumberTypes DEF TypeOK, BoundsInv
<1>2. Newest(inbox[p]) \in 0..MaxVersion /\ (Newest(inbox[p]) = 0 \/ \E i \in 1..Len(inbox[p]) : Newest(inbox[p]) = inbox[p][i].bound)
  BY <1>1, NewestFacts
<1>3. Newest(inbox[p]) <= floor
  BY <1>1, <1>2 DEF BoundsInv
<1> QED
  BY <1>1, <1>2, <1>3, AtLeastFacts

LEMMA SharedBounds ==
  ASSUME TypeOK, TypeOK', TasksInv, BoundsInv, NEW p \in Proc, Shared(p)
  PROVE  BoundsInv'
<1> USE DEF originVars, procVars, taskVars, guardVars, queueVars, busVars, histVars
<1>1. CASE Execute(p)
  BY <1>1, ExecuteBounds
<1>2. CASE ~Execute(p)
  <2>1. db' = db /\ floor' = floor /\ data' = data /\ since' = since /\ effective' = effective
    BY <1>2 DEF Shared, Dispatch, Publish, PublishFails, ReceiveDelete, IgnoreSet, ReceiveSet, PrimeSettles, LinkDrops,
                Disconnected, Overflow, Subscribed, TrustRestored, Restart, L1Evicts
  <2>2. ASSUME NEW u \in Task, kind'[u] = "set" PROVE val'[u].by = "set"
    <3>1. CASE ReceiveSet(p) \/ PrimeSettles(p)
      <4>1. kind'[u] = kind[u] /\ u # Handler(p)
        BY <2>2, <3>1, ZenonT(40) DEF ReceiveSet, PrimeSettles, TasksInv, TypeOK
      <4>2. val'[u] = val[u]
        BY <3>1, <4>1 DEF ReceiveSet, PrimeSettles, TypeOK
      <4> QED  BY <2>2, <4>1, <4>2 DEF BoundsInv
    <3>2. CASE kind' = kind /\ val' = val
      BY <2>2, <3>2 DEF BoundsInv
    <3> QED  BY <1>2, <3>1, <3>2 DEF Shared, Dispatch, Publish, PublishFails, ReceiveDelete, IgnoreSet, LinkDrops,
                Disconnected, Overflow, Subscribed, TrustRestored, Restart, L1Evicts
  <2>3. ASSUME NEW q \in Proc, NEW e \in outbox'[q] PROVE e \in outbox[q]
    <3>1. CASE outbox' = outbox
      BY <2>3, <3>1
    <3>2. CASE Publish(p)
      BY <2>3, <3>2 DEF Publish, TypeOK
    <3>3. CASE PublishFails(p)
      BY <2>3, <3>3 DEF PublishFails, TypeOK
    <3>4. CASE Restart(p)
      BY <2>3, <3>4 DEF Restart, TypeOK
    <3> QED  BY <1>2, <3>1, <3>2, <3>3, <3>4 DEF Shared, Dispatch, ReceiveDelete, IgnoreSet, ReceiveSet, PrimeSettles,
                LinkDrops, Disconnected, Overflow, Subscribed, TrustRestored, L1Evicts
  <2>4. ASSUME NEW q \in Proc PROVE inbox[q] \in Seq(Events) /\ \A i \in 1..Len(inbox[q]) : inbox[q][i].bound <= floor
    BY DEF TypeOK, BoundsInv
  <2>5. ASSUME NEW q \in Proc, NEW i \in 1..Len(inbox'[q]) PROVE inbox'[q][i].bound <= floor
    <3>1. CASE inbox'[q] = inbox[q]
      BY <2>4, <2>5, <3>1
    <3>2. CASE Publish(p)
      <4>1. PICK e \in outbox[p] : inbox' = [r \in Proc |-> IF r \in link \ {p} THEN Append(inbox[r], e) ELSE inbox[r]]
        BY <3>2 DEF Publish
      <4>2. e \in Events /\ e.bound <= floor
        BY <4>1 DEF TypeOK, BoundsInv
      <4>3. CASE inbox'[q] = Append(inbox[q], e)
        <5>1. (i \in 1..Len(inbox[q]) /\ inbox'[q][i] = inbox[q][i]) \/ inbox'[q][i] = e
          BY <2>4, <2>5, <4>2, <4>3, AppendPlaces
        <5> QED  BY <2>4, <4>2, <5>1
      <4> QED  BY <3>1, <4>1, <4>3
    <3>3. CASE q = p /\ inbox[p] # <<>> /\ inbox'[p] = Tail(inbox[p])
      <4>1. i + 1 \in 1..Len(inbox[p]) /\ inbox'[p][i] = inbox[p][i + 1]
        BY <2>4, <2>5, <3>3, TailPlaces
      <4> QED  BY <2>4, <3>3, <4>1
    <3>4. CASE q = p /\ Overflow(p)
      <4>1. PICK n \in Nat \ {0} : n = Len(inbox[p])
        BY <2>4, <3>4 DEF Overflow
      <4>2. inbox'[p] = SubSeq(inbox[p], 1, n - 1)
        BY <3>4, <4>1 DEF Overflow, TypeOK
      <4>3. i \in 1..Len(inbox[p]) /\ inbox'[p][i] = inbox[p][i]
        BY <2>4, <2>5, <3>4, <4>1, <4>2
      <4> QED  BY <2>4, <3>4, <4>3
    <3>5. CASE q = p /\ inbox'[p] = <<>>
      BY <2>5, <3>5
    <3>6. \/ inbox'[q] = inbox[q]
          \/ Publish(p)
          \/ (q = p /\ inbox[p] # <<>> /\ inbox'[p] = Tail(inbox[p]))
          \/ (q = p /\ Overflow(p))
          \/ (q = p /\ inbox'[p] = <<>>)
      <4>1. CASE inbox' = inbox
        BY <4>1
      <4>2. CASE ReceiveDelete(p) \/ IgnoreSet(p) \/ ReceiveSet(p)
        <5>1. inbox[p] # <<>> /\ inbox' = [inbox EXCEPT ![p] = Tail(@)]
          BY <4>2, Zenon DEF ReceiveDelete, IgnoreSet, ReceiveSet, Received
        <5> QED  BY <5>1 DEF TypeOK
      <4>3. CASE Disconnected(p) \/ Restart(p)
        <5>1. inbox' = [inbox EXCEPT ![p] = <<>>]
          BY <4>3 DEF Disconnected, Restart
        <5> QED  BY <5>1 DEF TypeOK
      <4>4. CASE Overflow(p)
        BY <4>4 DEF Overflow, TypeOK
      <4> QED  BY <1>2, <4>1, <4>2, <4>3, <4>4 DEF Shared, Dispatch, PublishFails, PrimeSettles, LinkDrops, Subscribed,
                  TrustRestored, L1Evicts
    <3> QED  BY <3>1, <3>2, <3>3, <3>4, <3>5, <3>6
  <2>6. ASSUME NEW q \in Proc
        PROVE  /\ applied[q] \in 0..MaxVersion /\ owed[q] \in 0..MaxVersion /\ floor \in Nat
               /\ applied[q] <= floor /\ owed[q] <= floor
    BY NumberTypes DEF TypeOK, BoundsInv
  <2>7. ASSUME NEW q \in Proc PROVE applied'[q] <= floor
    <3>1. CASE applied'[q] = applied[q]
      BY <2>6, <3>1
    <3>2. CASE q = p /\ ReceiveDelete(p)
      <4>1. PICK e \in Events : e = Head(inbox[p]) /\ e.bound <= floor
        <5>1. inbox[p] # <<>>
          BY <3>2 DEF ReceiveDelete, Received
        <5>2. 1 \in 1..Len(inbox[p]) /\ Head(inbox[p]) = inbox[p][1] /\ inbox[p][1] \in Events
          BY <2>4, <5>1
        <5> QED  BY <2>4, <5>2
      <4>2. applied'[p] = AtLeast(applied[p], e.bound)
        BY <3>2, <4>1 DEF ReceiveDelete, TypeOK
      <4>3. e.bound \in 0..MaxVersion
        BY DEF Events
      <4>4. applied[p] \in 0..MaxVersion /\ applied[p] <= floor /\ floor \in Nat
        BY <2>6
      <4> QED  BY <3>2, <4>1, <4>2, <4>3, <4>4, AtLeastFacts
    <3>3. applied'[q] = applied[q] \/ (q = p /\ ReceiveDelete(p))
      <4>1. applied' = applied \/ ReceiveDelete(p)
        BY <1>2 DEF Shared, Dispatch, Publish, PublishFails, IgnoreSet, ReceiveSet, PrimeSettles, LinkDrops,
                    Disconnected, Overflow, Subscribed, TrustRestored, Restart, L1Evicts
      <4> QED  BY <4>1 DEF ReceiveDelete, TypeOK
    <3> QED  BY <3>1, <3>2, <3>3
  <2>8. ASSUME NEW q \in Proc PROVE owed'[q] <= floor
    <3>1. CASE owed'[q] = owed[q]
      BY <2>6, <3>1
    <3>2. CASE Publish(p)
      <4>1. PICK e \in outbox[p] : owed'[q] = owed[q] \/ owed'[q] = AtLeast(owed[q], e.bound)
        BY <3>2 DEF Publish
      <4>2. e \in Events /\ e.bound <= floor
        BY <4>1 DEF TypeOK, BoundsInv
      <4>3. e.bound \in 0..MaxVersion
        BY <4>2 DEF Events
      <4>4. AtLeast(owed[q], e.bound) <= floor
        BY <2>6, <4>2, <4>3, AtLeastFacts
      <4> QED  BY <2>6, <4>1, <4>4
    <3>3. CASE q = p /\ owed'[p] = AtLeast(owed[p], Newest(inbox[p]))
      BY <3>3, NewestBound
    <3>4. CASE q = p /\ Overflow(p)
      <4>1. PICK n \in Nat \ {0} : n = Len(inbox[p])
        BY <2>4, <3>4 DEF Overflow
      <4>2. owed'[p] = AtLeast(owed[p], inbox[p][n].bound)
        BY <3>4, <4>1 DEF Overflow, TypeOK
      <4>3. inbox[p][n] \in Events /\ inbox[p][n].bound <= floor
        BY <2>4, <4>1
      <4>4. inbox[p][n].bound \in 0..MaxVersion
        BY <4>3 DEF Events
      <4>5. owed[p] \in 0..MaxVersion /\ owed[p] <= floor /\ floor \in Nat
        BY <2>6
      <4> QED  BY <3>4, <4>2, <4>3, <4>4, <4>5, AtLeastFacts
    <3>5. \/ owed'[q] = owed[q]
          \/ Publish(p)
          \/ (q = p /\ owed'[p] = AtLeast(owed[p], Newest(inbox[p])))
          \/ (q = p /\ Overflow(p))
      <4>1. CASE owed' = owed
        BY <4>1
      <4>2. CASE Disconnected(p) \/ Restart(p)
        <5>1. owed' = [owed EXCEPT ![p] = AtLeast(@, Newest(inbox[p]))]
          BY <4>2 DEF Disconnected, Restart
        <5> QED  BY <5>1 DEF TypeOK
      <4>3. CASE Overflow(p)
        BY <4>3 DEF Overflow, TypeOK
      <4> QED  BY <1>2, <4>1, <4>2, <4>3 DEF Shared, Dispatch, PublishFails, PrimeSettles, LinkDrops, Subscribed,
                  TrustRestored, L1Evicts, ReceiveDelete, IgnoreSet, ReceiveSet
    <3> QED  BY <3>1, <3>2, <3>3, <3>4, <3>5
  <2> QED  BY <2>1, <2>2, <2>3, <2>5, <2>7, <2>8 DEF BoundsInv
<1> QED
  BY <1>1, <1>2

-----------------------------------------------------------------------------
(* What a task has read, and what is in L1 *)

\* A call only takes a guard, and leaves the tasks that are back alone.
LEMMA CallFrame ==
  ASSUME TypeOK, TypeOK', NEW t \in Task, Call(t)
  PROVE  /\ applied' = applied /\ owed' = owed /\ link' = link
         /\ \A u \in Task : pc'[u] = "back" =>
              u # t /\ pc[u] = "back" /\ val'[u] = val[u] /\ kind'[u] = kind[u]
         /\ \A u \in Task : u # t =>
              (u \in sameKey' => u \in sameKey) /\ (u \in sameEpoch' => u \in sameEpoch)
<1> USE DEF originVars, procVars, taskVars, guardVars, queueVars, busVars, histVars
<1>1. applied' = applied /\ owed' = owed /\ link' = link
  BY DEF Call, Get, GetSettles, Set, SetSettles, Delete, DeleteSettles, Fill, LoaderReads, FillPublishes, FillKept,
         FillPublished, FillSettles
<1>2. PICK x \in {"gate", "load", "loaded", "done"} : pc' = [pc EXCEPT ![t] = x]
  BY DEF Call, Get, GetSettles, Set, SetSettles, Delete, DeleteSettles, Fill, LoaderReads, FillPublishes, FillKept,
         FillPublished, FillSettles, End
<1>3. ASSUME NEW u \in Task, u # t PROVE pc'[u] = pc[u] /\ kind'[u] = kind[u] /\ val'[u] = val[u]
  <2>1. kind'[u] = kind[u]
    BY <1>3 DEF TypeOK, Call, Get, GetSettles, Set, SetSettles, Delete, DeleteSettles, Fill, LoaderReads, FillPublishes,
                FillKept, FillPublished, FillSettles, Begin
  <2>2. val'[u] = val[u]
    BY <1>3 DEF TypeOK, Call, Get, GetSettles, Set, SetSettles, Delete, DeleteSettles, Fill, LoaderReads, FillPublishes,
                FillKept, FillPublished, FillSettles
  <2> QED  BY <1>2, <1>3, <2>1, <2>2 DEF TypeOK
<1>4. pc'[t] # "back"
  BY <1>2 DEF TypeOK
<1>5. ASSUME NEW u \in Task, u # t PROVE (u \in sameKey' => u \in sameKey) /\ (u \in sameEpoch' => u \in sameEpoch)
  <2>1. Observe(t) \/ Mutate(t) \/ Release(t) \/ (sameKey' = sameKey /\ sameEpoch' = sameEpoch)
    BY DEF Call, Get, GetSettles, Set, SetSettles, Delete, DeleteSettles, Fill, LoaderReads, FillPublishes, FillKept,
           FillPublished, FillSettles, End
  <2> QED  BY <1>5, <2>1 DEF Observe, Mutate, Release
<1> QED
  BY <1>1, <1>3, <1>4, <1>5

LEMMA CallRead ==
  ASSUME TypeOK, TypeOK', ReadInv, NEW t \in Task, Call(t)
  PROVE  ReadInv'
<1>1. ASSUME NEW u \in sameKey', Reads(u)', pc'[u] = "back", val'[u].by = "fill"
      PROVE  /\ u \in sameKey /\ Reads(u) /\ pc[u] = "back" /\ val'[u] = val[u]
             /\ u \in sameEpoch' => u \in sameEpoch
  <2>1. u \in Task
    BY <1>1 DEF TypeOK
  <2> QED  BY <1>1, <2>1, CallFrame DEF Reads
<1> QED
  BY <1>1, CallFrame DEF ReadInv

LEMMA CallL1 ==
  ASSUME TypeOK, TypeOK', TasksInv, OrderInv, ReadInv, L1Inv, NEW t \in Task, Call(t)
  PROVE  L1Inv'
<1> USE DEF originVars, procVars, taskVars, guardVars, queueVars, busVars, histVars
<1>1. Home(t) \in Proc
  BY TaskFacts
<1>2. applied' = applied /\ owed' = owed /\ link' = link
  BY CallFrame
<1>3. \A q \in Proc : NoDelete(q) /\ ~(Delete(t) /\ q = Home(t)) => NoDelete(q)'
  BY CallQueues
<1>4. ASSUME NEW q \in Proc, l1'[q].by = "fill", l1'[q] = l1[q], ~Delete(t) \/ q # Home(t)
      PROVE  NoDelete(q)' /\ l1'[q].val >= applied'[q] /\ (q \in link' => l1'[q].val >= owed'[q])
  BY <1>2, <1>3, <1>4 DEF L1Inv
<1>5. CASE Delete(t)
  <2>1. l1'[Home(t)] = Absent /\ \A q \in Proc : q # Home(t) => l1'[q] = l1[q]
    BY <1>1, <1>5 DEF Delete, TypeOK
  <2> QED  BY <1>4, <2>1, EntryFacts DEF L1Inv
<1>6. CASE Set(t)
  <2>1. l1'[Home(t)].by = "set" /\ \A q \in Proc : q # Home(t) => l1'[q] = l1[q]
    BY <1>1, <1>6 DEF Set, TypeOK
  <2> QED  BY <1>4, <2>1 DEF L1Inv
<1>7. CASE l1' = l1 /\ ~Delete(t)
  BY <1>4, <1>7 DEF L1Inv
<1>8. CASE /\ kind[t] \in {"get", "fill"} /\ pc[t] = "back" /\ IsCurrent(t) /\ ~Delete(t)
           /\ l1' = [l1 EXCEPT ![Home(t)] = val[t]]
  <2>1. l1'[Home(t)] = val[t] /\ \A q \in Proc : q # Home(t) => l1'[q] = l1[q]
    BY <1>1, <1>8 DEF TypeOK
  <2>2. t \in sameKey /\ t \in sameEpoch /\ Reads(t)
    BY <1>8 DEF IsCurrent, Reads
  <2>3. NoDelete(Home(t))
    BY <1>8, <2>2 DEF OrderInv
  <2>4. NoDelete(Home(t))'
    <3>1. PICK q \in Proc : q = Home(t)
      BY <1>1
    <3> QED  BY <1>3, <1>8, <2>3, <3>1
  <2>5. val[t].by = "fill" =>
          val[t].val >= applied[Home(t)] /\ (Home(t) \in link => val[t].val >= owed[Home(t)])
    BY <1>8, <2>2 DEF ReadInv
  <2> QED  BY <1>2, <1>4, <1>8, <2>1, <2>4, <2>5 DEF L1Inv
<1>9. CASE GetSettles(t)
  <2>1. ~Delete(t)
    BY <1>9 DEF GetSettles, Delete, Begin, Answered, Failed
  <2>2. pc[t] # "refused"
    BY <1>9 DEF GetSettles, TasksInv
  <2> QED  BY <1>7, <1>8, <1>9, <2>1, <2>2 DEF GetSettles, Answered
<1>10. CASE FillPublished(t)
  <2>1. ~Delete(t)
    BY <1>10 DEF FillPublished, Delete, Begin
  <2> QED  BY <1>8, <1>10, <2>1 DEF FillPublished
<1>11. CASE ~Delete(t) /\ ~Set(t) /\ ~GetSettles(t) /\ ~FillPublished(t)
  BY <1>7, <1>11 DEF Call, Get, SetSettles, DeleteSettles, Fill, LoaderReads, FillPublishes, FillKept, FillSettles
<1> QED
  BY <1>5, <1>6, <1>9, <1>10, <1>11

LEMMA ExecuteRead ==
  ASSUME HybridInv, TypeOK', NEW p \in Proc, Execute(p)
  PROVE  ReadInv' /\ L1Inv'
<1> USE DEF originVars, procVars, taskVars, guardVars, queueVars, busVars, histVars, HybridInv
<1>1. PICK t \in Task, x \in {"idle", "load", "loaded", "gate", "wire", "back", "refused", "done"} :
        /\ wire[p] # <<>> /\ t = Head(wire[p])
        /\ pc' = [pc EXCEPT ![t] = x]
        /\ x = pc[t] \/ (Awaited(p) /\ x \in {"back", "refused"})
  BY ExecuteCases
<1>2. Home(t) = p
  <2>1. 1 \in 1..Len(wire[p]) /\ wire[p][1] = t
    BY <1>1 DEF TypeOK
  <2> QED  BY <2>1 DEF TasksInv
<1>3. /\ kind' = kind /\ sameKey' = sameKey /\ sameEpoch' = sameEpoch /\ link' = link /\ owed' = owed /\ l1' = l1
  BY DEF Execute
<1>4. \A q \in Proc : applied'[q] = applied[q] \/ (q = p /\ ~NoDelete(p))
  BY ExecuteBounds
<1>5. \A q \in Proc : NoDelete(q) => NoDelete(q)'
  BY ExecuteKeeps
<1>6. L1Inv'
  BY <1>3, <1>4, <1>5 DEF L1Inv
<1>7. ASSUME NEW u \in sameKey', Reads(u)', pc'[u] = "back", val'[u].by = "fill"
      PROVE  /\ val'[u].val >= applied'[Home(u)]
             /\ u \in sameEpoch' /\ Home(u) \in link' => val'[u].val >= owed'[Home(u)]
  <2>1. u \in sameKey /\ u \in Task /\ Reads(u) /\ Home(u) \in Proc
    BY <1>3, <1>7, TaskFacts DEF TypeOK, Reads
  <2>2. CASE pc[u] = "back"
    <3>1. NoDelete(Home(u))
      BY <2>1, <2>2 DEF OrderInv
    <3>2. applied'[Home(u)] = applied[Home(u)]
      BY <1>4, <2>1, <3>1
    <3>3. val'[u] = val[u]
      <4>1. CASE u = t
        <5>1. ~Awaited(p)
          BY <1>1, <2>2, <4>1 DEF Awaited
        <5>2. val' = val \/ val' = [val EXCEPT ![t] = @]
          BY <1>1, <5>1 DEF Execute
        <5> QED  BY <2>1, <4>1, <5>2 DEF TypeOK
      <4>2. CASE u # t
        <5>1. val' = val \/ val' = [val EXCEPT ![t] = IF Awaited(p) THEN data ELSE @]
          BY <1>1 DEF Execute
        <5> QED  BY <2>1, <4>2, <5>1 DEF TypeOK
      <4> QED  BY <4>1, <4>2
    <3> QED  BY <1>3, <1>7, <2>1, <2>2, <3>2, <3>3 DEF ReadInv
  <2>3. CASE pc[u] # "back"
    <3>1. u = t /\ x # pc[t] /\ x = "back" /\ Awaited(p)
      BY <1>1, <1>7, <2>1, <2>3 DEF TypeOK
    <3>2. kind[t] \in {"get", "prime", "fill"}
      BY <2>1, <3>1 DEF Reads
    <3>3. floor' = floor /\ applied' = applied
      BY <1>1, <3>2 DEF Execute
    <3>4. val'[t].by = "fill" => val'[t].val >= floor
      <4>1. CASE kind[t] \in {"get", "prime"}
        <5>1. val' = [val EXCEPT ![t] = data]
          BY <1>1, <3>1, <4>1 DEF Execute
        <5> QED  BY <5>1 DEF TypeOK, BoundsInv
      <4>2. CASE kind[t] = "fill"
        <5>1. pc' # [pc EXCEPT ![t] = IF Awaited(p) THEN "refused" ELSE @]
          BY <1>1, <3>1 DEF TypeOK
        <5>2. val' = val /\ val[t].val >= floor
          BY <1>1, <4>2, <5>1 DEF Execute
        <5> QED  BY <5>2
      <4> QED  BY <3>2, <4>1, <4>2
    <3>5. applied[p] <= floor /\ owed[p] <= floor
      BY DEF BoundsInv
    <3>6. val'[t].val \in Nat /\ floor \in Nat /\ applied[p] \in Nat /\ owed[p] \in Nat
      <4>1. val'[t] \in Entries
        BY DEF TypeOK
      <4> QED  BY <4>1, EntryFacts, NumberTypes
    <3> QED  BY <1>2, <1>3, <1>7, <3>1, <3>3, <3>4, <3>5, <3>6
  <2> QED  BY <2>2, <2>3
<1> QED
  BY <1>6, <1>7 DEF ReadInv

\* Tasks that were back stay so or end; the process whose `applied' or `owed' rises, or that
\* connects, has no such task with the guard, and nothing in L1.
LEMMA SharedRead ==
  ASSUME HybridInv, TypeOK', NEW p \in Proc, Shared(p)
  PROVE  ReadInv' /\ L1Inv'
<1> USE DEF originVars, procVars, taskVars, guardVars, queueVars, busVars, histVars, HybridInv
<1>1. \A q \in Proc : NoDelete(q) => NoDelete(q)'
  BY SharedQueues
<1>2. CASE Execute(p)
  BY <1>2, ExecuteRead
<1>3. CASE ~Execute(p)
  <2>1. ASSUME NEW u \in Task, pc'[u] = "back"
        PROVE  pc[u] = "back" /\ val'[u] = val[u] /\ kind'[u] = kind[u]
    <3>1. CASE Dispatch(p)
      <4>1. PICK t \in Task : t = Head(gate[p])
        BY <3>1, QueueTypes DEF Dispatch
      <4>2. PICK x \in {"wire", "refused"} : pc' = [pc EXCEPT ![t] = x]
        BY <3>1, <4>1 DEF Dispatch
      <4> QED  BY <2>1, <3>1, <4>2 DEF Dispatch, TypeOK
    <3>2. CASE ReceiveSet(p)
      BY <2>1, <3>2 DEF ReceiveSet, TypeOK
    <3>3. CASE PrimeSettles(p)
      BY <2>1, <3>3 DEF PrimeSettles, TypeOK
    <3>4. CASE Restart(p)
      BY <2>1, <3>4 DEF Restart, TypeOK
    <3>5. CASE pc' = pc /\ val' = val /\ kind' = kind
      BY <2>1, <3>5
    <3> QED  BY <1>3, <3>1, <3>2, <3>3, <3>4, <3>5 DEF Shared, Publish, PublishFails, ReceiveDelete, IgnoreSet, LinkDrops,
                Disconnected, Overflow, Subscribed, TrustRestored, L1Evicts
  <2>2. ASSUME NEW u \in Task, pc'[u] = "back"
        PROVE  (u \in sameKey' => u \in sameKey) /\ (u \in sameEpoch' => u \in sameEpoch)
    <3>1. CASE ReceiveSet(p)
      <4>1. u # Handler(p)
        BY <2>2, <3>1 DEF ReceiveSet, TypeOK
      <4> QED  BY <3>1, <4>1 DEF ReceiveSet, Mutate
    <3>2. CASE sameKey' \subseteq sameKey /\ sameEpoch' \subseteq sameEpoch
      BY <3>2
    <3>3. ReceiveSet(p) \/ (sameKey' \subseteq sameKey /\ sameEpoch' \subseteq sameEpoch)
      BY <1>3 DEF Shared, Dispatch, Publish, PublishFails, ReceiveDelete, IgnoreSet, PrimeSettles, LinkDrops,
                Disconnected, Overflow, Subscribed, TrustRestored, Restart, L1Evicts, Flush, Release
    <3> QED  BY <3>1, <3>2, <3>3
  <2>3. ASSUME NEW q \in Proc
        PROVE  \/ applied'[q] = applied[q]
               \/ l1'[q] = Absent /\ \A u \in sameKey' : Home(u) # q
    <3>1. CASE applied' = applied
      BY <3>1
    <3>2. CASE ReceiveDelete(p)
      <4>1. l1'[p] = Absent /\ \A r \in Proc : r # p => applied'[r] = applied[r]
        BY <3>2 DEF ReceiveDelete, TypeOK
      <4>2. \A u \in sameKey' : Home(u) # p
        BY <3>2, TaskFacts DEF ReceiveDelete, TypeOK
      <4> QED  BY <4>1, <4>2
    <3> QED  BY <1>3, <3>1, <3>2 DEF Shared, Dispatch, Publish, PublishFails, IgnoreSet, ReceiveSet, PrimeSettles, LinkDrops,
                Disconnected, Overflow, Subscribed, TrustRestored, Restart, L1Evicts
  <2>4. ASSUME NEW q \in Proc, q \in link'
        PROVE  \/ owed'[q] = owed[q] /\ q \in link
               \/ l1'[q] = Absent /\ \A u \in sameEpoch' : Home(u) # q
    <3>1. CASE owed' = owed /\ link' \subseteq link
      BY <2>4, <3>1
    <3>2. CASE Publish(p)
      BY <2>4, <3>2 DEF Publish
    <3>3. CASE Disconnected(p) \/ Overflow(p) \/ Subscribed(p) \/ Restart(p)
      <4>1. l1' = [l1 EXCEPT ![p] = Absent] /\ sameEpoch' = sameEpoch \ TasksOf(p)
        BY <3>3 DEF Disconnected, Overflow, Subscribed, Restart, Flush
      <4>2. l1'[p] = Absent /\ \A u \in sameEpoch' : Home(u) # p
        BY <4>1, TaskFacts DEF TypeOK
      <4>3. link' \subseteq link \cup {p}
        BY <3>3 DEF Disconnected, Overflow, Subscribed, Restart
      <4>4. \A r \in Proc : r # p => owed'[r] = owed[r]
        <5>1. CASE owed' = owed
          BY <5>1
        <5>2. CASE Overflow(p)
          BY <5>2 DEF Overflow, TypeOK
        <5>3. CASE owed' = [owed EXCEPT ![p] = AtLeast(@, Newest(inbox[p]))]
          BY <5>3 DEF TypeOK
        <5> QED  BY <3>3, <5>1, <5>2, <5>3 DEF Disconnected, Subscribed, Restart
      <4> QED  BY <2>4, <4>2, <4>3, <4>4
    <3> QED  BY <1>3, <3>1, <3>2, <3>3 DEF Shared, Dispatch, PublishFails, ReceiveDelete, IgnoreSet, ReceiveSet,
                PrimeSettles, LinkDrops, TrustRestored, L1Evicts
  <2>5. ReadInv'
    <3>1. ASSUME NEW u \in sameKey', Reads(u)', pc'[u] = "back", val'[u].by = "fill"
          PROVE  /\ val'[u].val >= applied'[Home(u)]
                 /\ u \in sameEpoch' /\ Home(u) \in link' => val'[u].val >= owed'[Home(u)]
      <4>1. u \in Task /\ Home(u) \in Proc
        BY <3>1, TaskFacts DEF TypeOK
      <4>2. /\ u \in sameKey /\ pc[u] = "back" /\ val'[u] = val[u] /\ Reads(u)
            /\ u \in sameEpoch' => u \in sameEpoch
        BY <2>1, <2>2, <3>1, <4>1 DEF Reads
      <4>3. applied'[Home(u)] = applied[Home(u)]
        BY <2>3, <3>1, <4>1
      <4>4. u \in sameEpoch' /\ Home(u) \in link' => owed'[Home(u)] = owed[Home(u)] /\ Home(u) \in link
        BY <2>4, <4>1
      <4> QED  BY <3>1, <4>2, <4>3, <4>4 DEF ReadInv
    <3> QED  BY <3>1 DEF ReadInv
  <2>6. ASSUME NEW q \in Proc, l1'[q].by = "fill"
        PROVE  NoDelete(q)' /\ l1'[q].val >= applied'[q] /\ (q \in link' => l1'[q].val >= owed'[q])
    <3>1. /\ applied'[q] = applied[q]
          /\ q \in link' => owed'[q] = owed[q] /\ q \in link
      BY <2>3, <2>4, <2>6, EntryFacts
    <3>2. CASE l1'[q] = l1[q]
      BY <1>1, <2>6, <3>1, <3>2 DEF L1Inv
    <3>3. CASE l1'[q] # l1[q]
      <4>1. PrimeSettles(p) /\ l1' = [l1 EXCEPT ![p] = val[Handler(p)]]
        <5>1. CASE PrimeSettles(p)
          <6>1. l1' # [l1 EXCEPT ![p] = Absent]
            BY <2>6, <3>3, EntryFacts, SMTT(20) DEF TypeOK
          <6> QED  BY <3>3, <5>1, <6>1 DEF PrimeSettles
        <5>2. CASE l1' = [l1 EXCEPT ![p] = Absent] \/ l1' = l1
          BY <2>6, <3>3, <5>2, EntryFacts, ZenonT(40) DEF TypeOK
        <5> QED  BY <1>3, <5>1, <5>2 DEF Shared, Dispatch, Publish, PublishFails, ReceiveDelete, IgnoreSet, ReceiveSet,
                    LinkDrops, Disconnected, Overflow, Subscribed, TrustRestored, Restart, L1Evicts, Flush
      <4>2. q = p /\ l1'[p] = val[Handler(p)]
        BY <3>3, <4>1 DEF TypeOK
      <4>3. PICK h \in Task : h = Handler(p) /\ Home(h) = p
        BY TaskFacts
      <4>4. h \in sameKey /\ h \in sameEpoch /\ kind[h] = "prime" /\ Answered(h)
        <5>1. val[Handler(p)] # Absent /\ l1' # l1
          BY <2>6, <3>3, <4>2, EntryFacts
        <5>2. l1' # [l1 EXCEPT ![p] = Absent]
          BY <4>2, <5>1 DEF TypeOK
        <5> QED  BY <4>1, <4>3, <5>1, <5>2 DEF PrimeSettles, IsCurrent
      <4>5. pc[h] = "back"
        BY <4>4 DEF Answered, TasksInv
      <4>6. NoDelete(p)
        BY <4>3, <4>4, <4>5 DEF OrderInv, Reads
      <4>7. val[h].val >= applied[p] /\ (p \in link => val[h].val >= owed[p])
        BY <2>6, <4>2, <4>3, <4>4, <4>5 DEF ReadInv, Reads
      <4> QED  BY <1>1, <3>1, <4>2, <4>3, <4>6, <4>7
    <3> QED  BY <3>2, <3>3
  <2> QED  BY <2>5, <2>6 DEF L1Inv
<1> QED
  BY <1>2, <1>3

-----------------------------------------------------------------------------
(* L1 is fresh *)

LEMMA HybridInit ==
  Init => HybridInv
<1> SUFFICES ASSUME Init PROVE HybridInv
  OBVIOUS
<1>1. MaxVersion \in Nat /\ 1 \in 1..MaxVersion /\ 0 \in 0..MaxVersion
  BY HybridAssumption
<1>2. Absent \in Entries /\ [val |-> 1, by |-> "fill"] \in Entries /\ [val |-> 1, by |-> "fill"].val = 1
  BY <1>1, EntryFacts
<1>3. TypeOK
  <2>1. data \in Entries
    BY <1>2 DEF Init
  <2>2. scenario \in Scenarios /\ scenario.procs \subseteq Proc
    BY HybridAssumption DEF Init
  <2>3. gate \in [Proc -> Seq(Task)] /\ wire \in [Proc -> Seq(Task)] /\ inbox \in [Proc -> Seq(Events)]
    BY DEF Init
  <2> QED  BY <1>1, <1>2, <2>1, <2>2, <2>3 DEF Init, TypeOK
<1>4. \A p \in Proc : gate[p] = <<>> /\ wire[p] = <<>> /\ inbox[p] = <<>> /\ outbox[p] = {}
  BY DEF Init
<1>5. TasksInv
  <2>1. \A p \in Proc : kind[Handler(p)] = "none"
    BY TaskFacts DEF Init
  <2> QED  BY <1>4, <2>1 DEF Init, TasksInv, Distinct
<1>6. BoundsInv
  <2>1. data.by = "fill" => data.val >= floor
    BY EntryFacts DEF Init, Absent
  <2> QED  BY <1>4, <2>1 DEF Init, BoundsInv
<1>7. OrderInv /\ ReadInv
  BY DEF Init, OrderInv, ReadInv
<1>8. L1Inv
  BY EntryFacts DEF Init, L1Inv
<1> QED
  BY <1>3, <1>5, <1>6, <1>7, <1>8 DEF HybridInv

LEMMA HybridStep ==
  HybridInv /\ [Next]_vars => HybridInv'
<1> SUFFICES ASSUME HybridInv, [Next]_vars PROVE HybridInv'
  OBVIOUS
<1> USE DEF originVars, procVars, taskVars, guardVars, queueVars, busVars, histVars
<1>1. CASE UNCHANGED vars
  <2>1. TypeOK' /\ BoundsInv'
    BY <1>1 DEF HybridInv, TypeOK, BoundsInv, vars, cacheVars
  <2>2. TasksInv' /\ OrderInv'
    BY <1>1, QuietKeeps DEF HybridInv, vars, cacheVars
  <2>3. ReadInv' /\ L1Inv'
    BY <1>1 DEF HybridInv, ReadInv, L1Inv, Reads, NoDelete, NoDeleteIn, vars, cacheVars
  <2> QED  BY <2>1, <2>2, <2>3 DEF HybridInv
<1>2. CASE OriginWrite /\ UNCHANGED scenario
  <2>1. db' = db + 1 /\ db' \in 1..MaxVersion /\ floor' = floor
    BY <1>2, HybridAssumption DEF HybridInv, OriginWrite, TypeOK
  <2>2. TypeOK'
    BY <1>2, <2>1 DEF HybridInv, TypeOK, OriginWrite
  <2>3. TasksInv' /\ OrderInv'
    BY <1>2, QuietKeeps DEF HybridInv, OriginWrite
  <2>4. \A t \in Task : since[t] <= db'
    BY <2>1, NumberTypes DEF HybridInv, BoundsInv
  <2>5. floor <= db'
    BY <2>1, NumberTypes DEF HybridInv, BoundsInv
  <2>6. BoundsInv'
    BY <1>2, <2>1, <2>4, <2>5 DEF HybridInv, BoundsInv, OriginWrite
  <2>7. ReadInv' /\ L1Inv'
    BY <1>2 DEF HybridInv, ReadInv, L1Inv, Reads, NoDelete, NoDeleteIn, OriginWrite
  <2> QED  BY <2>2, <2>3, <2>6, <2>7 DEF HybridInv
<1>3. CASE L2Expires /\ UNCHANGED scenario
  <2>1. TypeOK'
    BY <1>3, EntryFacts DEF HybridInv, TypeOK, L2Expires
  <2>2. TasksInv' /\ OrderInv'
    BY <1>3, QuietKeeps DEF HybridInv, L2Expires
  <2>3. BoundsInv'
    BY <1>3, EntryFacts DEF HybridInv, BoundsInv, L2Expires
  <2>4. ReadInv' /\ L1Inv'
    BY <1>3 DEF HybridInv, ReadInv, L1Inv, Reads, NoDelete, NoDeleteIn, L2Expires
  <2> QED  BY <2>1, <2>2, <2>3, <2>4 DEF HybridInv
<1>4. ASSUME NEW t \in Task, Call(t), UNCHANGED scenario PROVE HybridInv'
  <2>1. TypeOK'
    BY <1>4, CallType DEF HybridInv
  <2>2. TasksInv' /\ OrderInv'
    BY <1>4, <2>1, CallQueues DEF HybridInv
  <2>3. BoundsInv'
    BY <1>4, <2>1, CallBounds DEF HybridInv
  <2>4. ReadInv'
    BY <1>4, <2>1, CallRead DEF HybridInv
  <2>5. L1Inv'
    BY <1>4, <2>1, CallL1 DEF HybridInv
  <2> QED  BY <2>1, <2>2, <2>3, <2>4, <2>5 DEF HybridInv
<1>5. ASSUME NEW p \in scenario.procs, Shared(p), UNCHANGED scenario PROVE HybridInv'
  <2>1. TypeOK'
    BY <1>5, SharedType DEF HybridInv
  <2>2. p \in Proc
    BY <1>5, ScenarioFacts DEF HybridInv
  <2>3. TasksInv' /\ OrderInv'
    BY <1>5, <2>1, <2>2, SharedQueues DEF HybridInv
  <2>4. BoundsInv'
    BY <1>5, <2>1, <2>2, SharedBounds DEF HybridInv
  <2>5. ReadInv' /\ L1Inv'
    BY <1>5, <2>1, <2>2, SharedRead
  <2> QED  BY <2>1, <2>3, <2>4, <2>5 DEF HybridInv
<1> QED
  BY <1>1, <1>2, <1>3, <1>4, <1>5 DEF Next

\* For any number of processes and calls, whatever fails: a process that trusts its bus and is
\* connected to it serves from L1 no loader result older than a delete that reached it, or
\* whose event it missed (get(), delete(), applyRemoteDelete(), markInvalidationUntrusted()).
THEOREM L1AlwaysFresh == Spec => []L1Fresh
<1>1. HybridInv => L1Fresh
  <2> SUFFICES ASSUME HybridInv PROVE L1Fresh
    OBVIOUS
  <2>1. ASSUME NEW p \in trusted \cap link, l1[p].by = "fill"
        PROVE  l1[p].val >= applied[p] /\ l1[p].val >= owed[p]
    BY <2>1 DEF HybridInv, TypeOK, L1Inv
  <2> QED  BY <2>1 DEF HybridInv, L1Fresh
<1> QED
  BY <1>1, HybridInit, HybridStep, PTL DEF Spec

-----------------------------------------------------------------------------
(* Among the calls of one process a delete reaches L2 *)

LEMMA PendingKeeps ==
  ASSUME NEW m, Pending(m), kind'[m] = kind[m], pc'[m] = pc[m], m \in sameKey => m \in sameKey',
         wire' = wire
  PROVE  Pending(m)'
BY DEF Pending

\* A step that begins, sends and ends no set or delete, and the end of one that is answered.
LEMMA QuietPending ==
  ASSUME TypeOK, TypeOK', Unreached => \E m \in Task : Pending(m), NEW t \in Task,
         floor' = floor, since' = since, wire' = wire,
         returned' = returned \/ (kind[t] = "delete" /\ pc[t] \in {"back", "refused"} /\ returned' = AtLeast(returned, since[t])),
         \A u \in Task : u # t => pc'[u] = pc[u] /\ kind'[u] = kind[u] /\ (u \in sameKey => u \in sameKey'),
         \/ kind[t] \notin {"set", "delete"} /\ kind'[t] \notin {"set", "delete"}
         \/ pc[t] = "idle" /\ kind'[t] \notin {"set", "delete"}
         \/ pc[t] \in {"back", "refused"} /\ pc'[t] = "done"
  PROVE  Unreached' => \E m \in Task : Pending(m)'
<1> SUFFICES ASSUME Unreached' PROVE \E m \in Task : Pending(m)'
  OBVIOUS
<1>1. Unreached
  <2>1. CASE returned' > floor'
    <3>1. returned > floor \/ (kind[t] = "delete" /\ pc[t] \in {"back", "refused"} /\ since[t] > floor)
      BY <2>1 DEF AtLeast
    <3> QED  BY <3>1 DEF Unreached
  <2>2. ASSUME NEW d \in Task, kind'[d] = "delete", pc'[d] \in {"gate", "wire", "back", "refused"}, since'[d] > floor'
        PROVE  Unreached
    <3>1. d # t
      BY <2>2
    <3> QED  BY <2>2, <3>1 DEF Unreached
  <2> QED  BY <2>1, <2>2 DEF Unreached
<1>2. PICK m \in Task : Pending(m)
  BY <1>1
<1>3. m # t
  BY <1>2 DEF Pending
<1>4. Pending(m)'
  BY <1>2, <1>3, PendingKeeps
<1> QED
  BY <1>4

LEMMA CallAlone ==
  ASSUME HybridInv, TypeOK', AloneInv, NEW t \in Task, Call(t), UNCHANGED scenario
  PROVE  AloneInv'
<1> USE DEF originVars, procVars, taskVars, guardVars, queueVars, busVars, histVars
<1> SUFFICES ASSUME Alone'
             PROVE  /\ trusted' = (scenario.procs)' /\ link' = (scenario.procs)'
                    /\ \A p \in Proc : inbox'[p] = <<>>
                    /\ sameKey' \subseteq sameEpoch'
                    /\ Unreached' => \E m \in Task : Pending(m)'
                    /\ returned' <= db'
  BY DEF AloneInv
<1>1. /\ trusted = scenario.procs /\ link = scenario.procs
      /\ \A p \in Proc : inbox[p] = <<>>
      /\ sameKey \subseteq sameEpoch
      /\ Unreached => \E m \in Task : Pending(m)
      /\ returned <= db
      /\ ~scenario.l2Fails
  BY DEF Alone, AloneInv
<1>2. TypeOK /\ TasksInv
  BY DEF HybridInv
<1>3. trusted' = trusted /\ link' = link /\ inbox' = inbox /\ db' = db /\ floor' = floor /\ wire' = wire
  BY DEF Call, Get, GetSettles, Set, SetSettles, Delete, DeleteSettles, Fill, LoaderReads, FillPublishes, FillKept,
         FillPublished, FillSettles
<1>4. Observe(t) \/ Mutate(t) \/ Release(t) \/ (sameKey' = sameKey /\ sameEpoch' = sameEpoch)
  BY DEF Call, Get, GetSettles, Set, SetSettles, Delete, DeleteSettles, Fill, LoaderReads, FillPublishes, FillKept,
         FillPublished, FillSettles, End
<1>5. sameKey' \subseteq sameEpoch'
  BY <1>1, <1>4 DEF Observe, Mutate, Release
<1>6. returned' = returned \/ (DeleteSettles(t) /\ returned' = AtLeast(returned, since[t]))
  BY DEF Call, Get, GetSettles, Set, SetSettles, Delete, DeleteSettles, Fill, LoaderReads, FillPublishes, FillKept,
         FillPublished, FillSettles
<1>7. returned' <= db'
  <2>1. since[t] <= db
    BY DEF HybridInv, BoundsInv
  <2> QED  BY <1>1, <1>3, <1>6, <2>1 DEF AtLeast
<1>8. ASSUME NEW u \in Task, u # t PROVE pc'[u] = pc[u] /\ kind'[u] = kind[u]
  <2>1. kind'[u] = kind[u]
    BY <1>2, <1>8, ZenonT(40) DEF TypeOK, Call, Get, GetSettles, Set, SetSettles, Delete, DeleteSettles, Fill, LoaderReads, FillPublishes,
                FillKept, FillPublished, FillSettles, Begin
  <2>2. \E x : pc' = [pc EXCEPT ![t] = x]
    BY DEF Call, Get, GetSettles, Set, SetSettles, Delete, DeleteSettles, Fill, LoaderReads, FillPublishes, FillKept,
           FillPublished, FillSettles, End
  <2> QED  BY <1>2, <1>8, <2>1, <2>2 DEF TypeOK
<1>9. Unreached' => \E m \in Task : Pending(m)'
  <2>1. CASE Set(t) \/ Delete(t)
    <3>1. kind'[t] \in {"set", "delete"} /\ pc'[t] = "gate" /\ t \in sameKey'
      BY <1>2, <2>1 DEF Set, Delete, Begin, Mutate, TypeOK
    <3> QED  BY <3>1 DEF Pending
  <2>2. CASE ~Set(t) /\ ~Delete(t)
    <3>1. since' = since
      BY <2>2 DEF Call, Get, GetSettles, SetSettles, DeleteSettles, Fill, LoaderReads, FillPublishes, FillKept,
                  FillPublished, FillSettles
    <3>2. \A u \in Task : u # t /\ u \in sameKey => u \in sameKey'
      <4>1. ~Mutate(t) \/ Observe(t) \/ Release(t) \/ sameKey' = sameKey
        BY <2>2 DEF Call, Get, GetSettles, SetSettles, DeleteSettles, Fill, LoaderReads, FillPublishes, FillKept,
                    FillPublished, FillSettles, End
      <4> QED  BY <1>4, <4>1 DEF Observe, Release
    <3>3. CASE Get(t) \/ Fill(t)
      <4>1. pc[t] = "idle" /\ kind'[t] \notin {"set", "delete"} /\ returned' = returned
        BY <1>2, <3>3 DEF Get, Fill, Begin, TypeOK
      <4> QED  BY <1>1, <1>2, <1>3, <1>8, <3>1, <3>2, <4>1, QuietPending
    <3>4. CASE SetSettles(t) \/ DeleteSettles(t)
      <4>1. pc[t] \in {"back", "refused"}
        BY <1>1, <3>4 DEF SetSettles, DeleteSettles, Answered, Failed
      <4>2. pc'[t] = "done"
        BY <1>2, <3>4 DEF SetSettles, DeleteSettles, End, TypeOK
      <4>3. DeleteSettles(t) => kind[t] = "delete"
        BY DEF DeleteSettles
      <4> QED  BY <1>1, <1>2, <1>3, <1>6, <1>8, <3>1, <3>2, <4>1, <4>2, <4>3, QuietPending
    <3>5. CASE GetSettles(t) \/ LoaderReads(t) \/ FillPublishes(t) \/ FillKept(t) \/ FillPublished(t) \/ FillSettles(t)
      <4>1. kind[t] \notin {"set", "delete"} /\ kind' = kind
        BY <1>2, <3>5 DEF GetSettles, LoaderReads, FillPublishes, FillKept, FillPublished, FillSettles, TasksInv
      <4>2. returned' = returned
        BY <3>5 DEF GetSettles, LoaderReads, FillPublishes, FillKept, FillPublished, FillSettles
      <4> QED  BY <1>1, <1>2, <1>3, <1>8, <3>1, <3>2, <4>1, <4>2, QuietPending
    <3> QED  BY <2>2, <3>3, <3>4, <3>5 DEF Call
  <2> QED  BY <2>1, <2>2
<1> QED
  BY <1>1, <1>3, <1>5, <1>7, <1>9

LEMMA DispatchPending ==
  ASSUME TypeOK, TypeOK', TasksInv, sameKey \subseteq sameEpoch, Unreached => \E m \in Task : Pending(m),
         NEW p \in Proc, Dispatch(p)
  PROVE  Unreached' => \E m \in Task : Pending(m)'
<1> USE DEF originVars, procVars, taskVars, guardVars, queueVars, busVars, histVars
<1> SUFFICES ASSUME Unreached' PROVE \E m \in Task : Pending(m)'
  OBVIOUS
<1>1. PICK t \in Task : t = Head(gate[p]) /\ gate[p] # <<>>
  BY QueueTypes DEF Dispatch
<1>2. Home(t) = p /\ pc[t] = "gate"
  <2>1. 1 \in 1..Len(gate[p]) /\ gate[p][1] = t
    BY <1>1 DEF TypeOK
  <2> QED  BY <2>1 DEF TasksInv
<1>3. floor' = floor /\ since' = since /\ returned' = returned /\ kind' = kind /\ sameKey' = sameKey
  BY DEF Dispatch
<1>4. \/ Proceeds(t) /\ pc' = [pc EXCEPT ![t] = "wire"] /\ wire' = [wire EXCEPT ![p] = Append(@, t)]
      \/ ~Proceeds(t) /\ pc' = [pc EXCEPT ![t] = "refused"] /\ wire' = wire
  BY <1>1 DEF Dispatch
<1>5. \A u \in Task : u # t => pc'[u] = pc[u]
  BY <1>4 DEF TypeOK
<1>6. Unreached
  BY <1>2, <1>3, <1>5 DEF Unreached
<1>7. PICK m \in Task : Pending(m)
  BY <1>6
<1>8. wire[p] \in Seq(Task)
  BY DEF TypeOK
<1>9. CASE m = t
  <2>1. kind[t] \in {"set", "delete"} /\ t \in sameKey /\ t \in sameEpoch
    BY <1>2, <1>7, <1>9 DEF Pending
  <2>2. Proceeds(t)
    BY <2>1 DEF Proceeds, IsCurrent
  <2>3. pc'[t] = "wire" /\ wire'[p] = Append(wire[p], t)
    BY <1>4, <2>2 DEF TypeOK
  <2>4. wire'[p][Len(wire[p]) + 1] = t /\ Len(wire[p]) + 1 \in 1..Len(wire'[p])
    BY <1>8, <2>3, AppendPlaces
  <2> QED  BY <1>2, <1>3, <2>1, <2>3, <2>4 DEF Pending
<1>10. CASE m # t
  <2>1. ASSUME NEW i \in 1..Len(wire[Home(m)]), wire[Home(m)][i] = m
        PROVE  \E j \in 1..Len(wire'[Home(m)]) : wire'[Home(m)][j] = m
    <3>1. CASE wire'[Home(m)] = wire[Home(m)]
      BY <2>1, <3>1
    <3>2. CASE Home(m) = p /\ wire'[p] = Append(wire[p], t)
      <4>1. i \in 1..Len(wire'[p]) /\ wire'[p][i] = m
        BY <1>8, <2>1, <3>2, AppendPlaces
      <4> QED  BY <3>2, <4>1
    <3>3. Home(m) \in Proc
      BY TaskFacts
    <3>4. wire' = wire \/ wire' = [wire EXCEPT ![p] = Append(@, t)]
      BY <1>4
    <3> QED  BY <3>1, <3>2, <3>3, <3>4 DEF TypeOK
  <2>2. kind[m] \in {"set", "delete"} /\ pc'[m] = pc[m]
    BY <1>5, <1>7, <1>10 DEF Pending
  <2>3. Pending(m)'
    BY <1>3, <1>7, <2>1, <2>2 DEF Pending
  <2> QED  BY <2>3
<1> QED
  BY <1>9, <1>10

LEMMA ExecutePending ==
  ASSUME HybridInv, TypeOK', returned <= db, Unreached => \E m \in Task : Pending(m),
         NEW p \in Proc, Execute(p)
  PROVE  Unreached' => \E m \in Task : Pending(m)'
<1> USE DEF originVars, procVars, taskVars, guardVars, queueVars, busVars, histVars
<1> SUFFICES ASSUME Unreached' PROVE \E m \in Task : Pending(m)'
  OBVIOUS
<1>1. TypeOK /\ TasksInv
  BY DEF HybridInv
<1>2. PICK t \in Task, x \in {"idle", "load", "loaded", "gate", "wire", "back", "refused", "done"} :
        /\ wire[p] # <<>> /\ t = Head(wire[p])
        /\ wire' = [wire EXCEPT ![p] = Tail(@)]
        /\ pc' = [pc EXCEPT ![t] = x]
  BY <1>1, ExecuteCases
<1>3. since' = since /\ returned' = returned /\ kind' = kind /\ sameKey' = sameKey
  BY DEF Execute
<1>4. \A u \in Task : u # t => pc'[u] = pc[u]
  BY <1>1, <1>2 DEF TypeOK
<1>5. CASE kind[t] \in {"set", "delete"}
  <2>1. floor' = db
    BY <1>2, <1>5 DEF Execute
  <2>2. \A d \in Task : since[d] <= db
    BY DEF HybridInv, BoundsInv
  <2>3. db \in Nat /\ returned \in Nat /\ \A d \in Task : since[d] \in Nat
    BY <1>1, NumberTypes
  <2>4. ~(returned > db) /\ \A d \in Task : ~(since[d] > db)
    BY <2>2, <2>3
  <2> QED  BY <1>3, <2>1, <2>4 DEF Unreached
<1>6. CASE kind[t] \notin {"set", "delete"}
  <2>1. floor' = floor
    BY <1>2, <1>6 DEF Execute
  <2>2. Unreached
    BY <1>3, <1>4, <1>6, <2>1 DEF Unreached
  <2>3. PICK m \in Task : Pending(m)
    BY <2>2
  <2>4. m # t
    BY <1>6, <2>3 DEF Pending
  <2>5. ASSUME NEW i \in 1..Len(wire[Home(m)]), wire[Home(m)][i] = m
        PROVE  \E j \in 1..Len(wire'[Home(m)]) : wire'[Home(m)][j] = m
    <3>1. CASE Home(m) # p
      <4>1. wire'[Home(m)] = wire[Home(m)]
        BY <1>1, <1>2, <3>1, TaskFacts DEF TypeOK
      <4> QED  BY <2>5, <4>1
    <3>2. CASE Home(m) = p
      <4>1. wire[p] \in Seq(Task) /\ wire'[p] = Tail(wire[p])
        BY <1>1, <1>2 DEF TypeOK
      <4>2. wire[p][1] = t /\ i # 1 /\ i \in Nat
        BY <1>2, <2>4, <2>5, <3>2, <4>1
      <4>3. i - 1 \in 1..Len(wire'[p]) /\ (i - 1) + 1 = i
        BY <1>2, <2>5, <3>2, <4>1, <4>2, TailPlaces
      <4>4. wire'[p][i - 1] = wire[p][(i - 1) + 1]
        BY <1>2, <4>1, <4>3, TailPlaces
      <4> QED  BY <2>5, <3>2, <4>3, <4>4
    <3> QED  BY <3>1, <3>2
  <2>6. pc'[m] = pc[m]
    BY <1>4, <2>4
  <2>7. Pending(m)'
    BY <1>3, <2>3, <2>5, <2>6 DEF Pending
  <2> QED  BY <2>7
<1> QED
  BY <1>5, <1>6

LEMMA SharedAlone ==
  ASSUME HybridInv, TypeOK', AloneInv, NEW p \in scenario.procs, Shared(p), UNCHANGED scenario
  PROVE  AloneInv'
<1> USE DEF originVars, procVars, taskVars, guardVars, queueVars, busVars, histVars
<1> SUFFICES ASSUME Alone'
             PROVE  /\ trusted' = (scenario.procs)' /\ link' = (scenario.procs)'
                    /\ \A q \in Proc : inbox'[q] = <<>>
                    /\ sameKey' \subseteq sameEpoch'
                    /\ Unreached' => \E m \in Task : Pending(m)'
                    /\ returned' <= db'
  BY DEF AloneInv
<1>1. /\ trusted = scenario.procs /\ link = scenario.procs
      /\ \A q \in Proc : inbox[q] = <<>>
      /\ sameKey \subseteq sameEpoch
      /\ Unreached => \E m \in Task : Pending(m)
      /\ returned <= db
      /\ ~scenario.l2Fails /\ ~scenario.busFails
      /\ \A q \in scenario.procs : q = p
  BY DEF Alone, AloneInv
<1>2. TypeOK /\ TasksInv /\ p \in Proc
  BY ScenarioFacts DEF HybridInv
<1>3. \/ Dispatch(p) \/ Execute(p) \/ Publish(p) \/ PrimeSettles(p) \/ TrustRestored(p) \/ L1Evicts(p)
  BY <1>1, <1>2 DEF Shared, PublishFails, ReceiveDelete, IgnoreSet, ReceiveSet, Received, LinkDrops, Disconnected,
                    Overflow, Subscribed, Restart
<1>4. db' = db /\ returned' = returned /\ link' = link
  BY <1>3 DEF Dispatch, Execute, Publish, PrimeSettles, TrustRestored, L1Evicts
<1>5. trusted' = trusted
  BY <1>1, <1>3 DEF Dispatch, Execute, Publish, PrimeSettles, TrustRestored, L1Evicts
<1>6. sameKey' \subseteq sameEpoch'
  BY <1>1, <1>3 DEF Dispatch, Execute, Publish, PrimeSettles, TrustRestored, L1Evicts, Release
<1>7. ASSUME NEW q \in Proc PROVE inbox'[q] = <<>>
  <2>1. CASE Publish(p)
    <3>1. inbox'[q] = inbox[q]
      BY <1>1, <2>1 DEF Publish
    <3> QED  BY <1>1, <3>1
  <2>2. CASE inbox' = inbox
    BY <1>1, <2>2
  <2> QED  BY <1>3, <2>1, <2>2 DEF Dispatch, Execute, PrimeSettles, TrustRestored, L1Evicts
<1>8. Unreached' => \E m \in Task : Pending(m)'
  <2>1. CASE Dispatch(p)
    BY <1>1, <1>2, <2>1, DispatchPending
  <2>2. CASE Execute(p)
    BY <1>1, <1>2, <2>2, ExecutePending
  <2>3. PICK h \in Task : h = Handler(p)
    BY <1>2, TaskFacts
  <2>4. kind[h] \notin {"set", "delete"}
    BY <1>2, <2>3 DEF TasksInv
  <2>5. CASE PrimeSettles(p)
    <3>1. floor' = floor /\ since' = since /\ wire' = wire /\ kind' = kind
      BY <2>5 DEF PrimeSettles
    <3>2. \A u \in Task : u # h => pc'[u] = pc[u] /\ (u \in sameKey => u \in sameKey')
      BY <1>2, <2>3, <2>5 DEF PrimeSettles, Release, TypeOK
    <3> QED  BY <1>1, <1>2, <1>4, <2>4, <3>1, <3>2, QuietPending
  <2>6. CASE Publish(p) \/ TrustRestored(p) \/ L1Evicts(p)
    <3>1. floor' = floor /\ since' = since /\ wire' = wire /\ kind' = kind /\ pc' = pc /\ sameKey' = sameKey
      BY <2>6 DEF Publish, TrustRestored, L1Evicts
    <3> QED  BY <1>1, <1>2, <1>4, <2>4, <3>1, QuietPending
  <2> QED  BY <1>3, <2>1, <2>2, <2>5, <2>6
<1> QED
  BY <1>1, <1>4, <1>5, <1>6, <1>7, <1>8

LEMMA AloneStep ==
  HybridInv /\ AloneInv /\ [Next]_vars => AloneInv'
<1> SUFFICES ASSUME HybridInv, AloneInv, [Next]_vars PROVE AloneInv'
  OBVIOUS
<1> USE DEF originVars, procVars, taskVars, guardVars, queueVars, busVars, histVars
<1>1. TypeOK'
  BY HybridStep DEF HybridInv
<1>2. ASSUME db' >= db, floor' = floor, scenario' = scenario, trusted' = trusted, link' = link, inbox' = inbox,
             sameKey' = sameKey, sameEpoch' = sameEpoch, returned' = returned, since' = since, kind' = kind, pc' = pc,
             wire' = wire
      PROVE  AloneInv'
  <2>1. Alone' => Alone
    BY <1>2 DEF Alone
  <2>2. Unreached' => Unreached
    BY <1>2 DEF Unreached
  <2>3. \A m : Pending(m) => Pending(m)'
    BY <1>2 DEF Pending
  <2>4. Alone => returned' <= db'
    BY <1>1, <1>2, NumberTypes DEF AloneInv, HybridInv, TypeOK
  <2> QED  BY <1>2, <2>1, <2>2, <2>3, <2>4 DEF AloneInv
<1>3. CASE UNCHANGED vars
  <2>1. db' >= db
    BY <1>3, NumberTypes DEF vars, cacheVars, HybridInv
  <2> QED  BY <1>2, <1>3, <2>1 DEF vars, cacheVars
<1>4. CASE (OriginWrite \/ L2Expires) /\ UNCHANGED scenario
  <2>1. db' >= db
    BY <1>4, NumberTypes DEF OriginWrite, L2Expires, HybridInv
  <2> QED  BY <1>2, <1>4, <2>1 DEF OriginWrite, L2Expires
<1>5. ASSUME NEW t \in Task, Call(t), UNCHANGED scenario PROVE AloneInv'
  BY <1>1, <1>5, CallAlone
<1>6. ASSUME NEW p \in scenario.procs, Shared(p), UNCHANGED scenario PROVE AloneInv'
  BY <1>1, <1>6, SharedAlone
<1> QED
  BY <1>3, <1>4, <1>5, <1>6 DEF Next

\* For any number of overlapping calls of one process, nothing failing: when they are over, L2
\* holds no loader result older than a delete that returned (delete() and its runL2 closure,
\* which asks for the revision of the key and for nothing else).
THEOREM LocalDeleteAlwaysReachesL2 == Spec => []LocalDeleteReachesL2
<1>1. Init => AloneInv
  <2> SUFFICES ASSUME Init PROVE AloneInv
    OBVIOUS
  <2>1. ~Unreached
    BY DEF Init, Unreached
  <2> QED  BY <2>1 DEF Init, AloneInv
<1>2. HybridInv /\ AloneInv => LocalDeleteReachesL2
  <2> SUFFICES ASSUME HybridInv, AloneInv, Alone,
                      \A t \in Task : pc[t] \in {"idle", "done"}, data.by = "fill"
               PROVE  data.val >= returned
    BY DEF LocalDeleteReachesL2, DeleteReachesL2
  <2>1. ~ \E m \in Task : Pending(m)
    BY DEF Pending
  <2>2. ~(returned > floor)
    BY <2>1 DEF AloneInv, Unreached
  <2>3. data.val >= floor
    BY DEF HybridInv, BoundsInv
  <2> QED  BY <2>2, <2>3, NumberTypes DEF HybridInv
<1> QED
  BY <1>1, <1>2, HybridInit, HybridStep, AloneStep, PTL DEF Spec
=============================================================================
