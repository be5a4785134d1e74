----------------------------- MODULE MemoryStore -----------------------------
(***************************************************************************)
(* The L1 stores of a process and the MemoryBudget they share.              *)
(*                                                                         *)
(* A MemoryStore is an LRU of encoded entries whose dispose callback gives   *)
(* the bytes of every entry that leaves back to the budget, whoever removed  *)
(* it: a delete, an expiry noticed by a read, the LRU's own limit, a write   *)
(* making room, or the budget's sampler.  The budget is a ledger by category *)
(* with a target that moves with the memory pressure of the host.            *)
(*                                                                         *)
(* Keys, sizes and the sampled signals are small sets; the access history    *)
(* that decides whether a new key is worth an eviction is a choice.          *)
(***************************************************************************)
EXTENDS Integers, Sequences, FiniteSets, Totals

CONSTANTS
  Store, Key,
  Bytes,               \* sizes of an encoded entry
  OtherBytes,          \* sizes other users of the budget reserve
  HardCap, MinMemory,
  MaxEntries, MaxEntryBytes,
  HistoryBytes,        \* HISTORY_BYTES
  MaxEvictionsPerWrite, EvictionsPerSample,
  PressureWindow, RecoveryWindow,
  CursorPeriod         \* a multiple of every number of clients: the cursor counts on

MemoryAssumption ==
  /\ IsFiniteSet(Store) /\ IsFiniteSet(Key)
  /\ Bytes \subseteq Nat \ {0} /\ OtherBytes \subseteq Nat \ {0}
  /\ HardCap \in Nat \ {0} /\ MinMemory \in 1..HardCap
  /\ MaxEntries \in Nat \ {0} /\ MaxEntryBytes \in Nat \ {0}
  /\ HistoryBytes \in Nat \ {0}
  /\ MaxEvictionsPerWrite \in Nat /\ EvictionsPerSample \in Nat \ {0}
  /\ PressureWindow \in Nat /\ RecoveryWindow \in Nat
  /\ CursorPeriod \in Nat \ {0} /\ \A n \in 1..Cardinality(Store) : CursorPeriod % n = 0

VARIABLES
  \* MemoryBudget
  used, categories, target, state,
  pressureFor, recoveryFor,   \* time since pressureAt, recoveryAt; -1 when undefined
  clients, cursor,
  \* MemoryStore
  lru,         \* entries, least recently used first
  bytes,       \* what the store believes it retains
  open,        \* stores that are constructed and not closed
  closed,      \* stores that were closed
  history      \* stores that got room for their access history
budgetVars == <<used, categories, target, state, pressureFor, recoveryFor, clients, cursor>>
storeVars  == <<lru, bytes, open, closed, history>>
vars == <<budgetVars, storeVars>>

Category == {"fresh", "metadata", "other"}

\* old is history: a set or a delete of the key came after the entry.
Entry == [key : Key, bytes : Bytes, expired : BOOLEAN, old : BOOLEAN]

TypeOK ==
  /\ used \in 0..HardCap
  /\ categories \in [Category -> Nat]
  /\ target \in MinMemory..HardCap
  /\ state \in {"normal", "pressure", "critical"}
  /\ pressureFor \in -1..PressureWindow /\ recoveryFor \in -1..RecoveryWindow
  /\ clients \in Seq(Store) /\ cursor \in 0..CursorPeriod
  /\ lru \in [Store -> Seq(Entry)] /\ bytes \in [Store -> Nat]
  /\ \A s \in Store : Len(lru[s]) <= MaxEntries
  /\ open \subseteq Store /\ closed \subseteq Store /\ history \subseteq open

Init ==
  /\ used = 0 /\ categories = [c \in Category |-> 0]
  /\ target = HardCap /\ state = "normal"
  /\ pressureFor = -1 /\ recoveryFor = -1
  /\ clients = <<>> /\ cursor = 0
  /\ lru = [s \in Store |-> <<>>] /\ bytes = [s \in Store |-> 0]
  /\ open = {} /\ closed = {} /\ history = {}

-----------------------------------------------------------------------------
(***************************************************************************)
(* MemoryBudget: the ledger.                                                *)
(***************************************************************************)

Lower(m, n)  == IF m <= n THEN m ELSE n
Higher(m, n) == IF m >= n THEN m ELSE n

Fits(n) == used + n <= target

Reserve(n, c) ==
  /\ used' = used + n
  /\ categories' = [categories EXCEPT ![c] = @ + n]

\* release(): never more than the category, or the ledger, holds.
Released(n, c) == Lower(n, Lower(categories[c], used))

Release(n, c) ==
  /\ used' = used - Released(n, c)
  /\ categories' = [categories EXCEPT ![c] = @ - Released(n, c)]

SumBytes(q) == Total([i \in DOMAIN q |-> q[i].bytes], DOMAIN q)

At(q, k)     == {i \in DOMAIN q : q[i].key = k}
Others(q, k) == Picked(q, DOMAIN q \ At(q, k))
Held(q, k)   == Picked(q, At(q, k))

\* What peek and get see of a key: an expired entry is not there.
Visible(q, k) == Picked(q, {i \in At(q, k) : ~q[i].expired})

\* A newer write or delete makes what is still held under the key obsolete.
Supersede(q, k) == [i \in DOMAIN q |-> IF q[i].key = k THEN [q[i] EXCEPT !.old = TRUE] ELSE q[i]]

\* The store keeps q of its entries and disposes of `gone` bytes.
Keeps(s, q, gone) ==
  /\ lru' = [lru EXCEPT ![s] = q]
  /\ bytes' = [bytes EXCEPT ![s] = @ - gone]
  /\ Release(gone, "fresh")
  /\ UNCHANGED <<target, state, pressureFor, recoveryFor, clients, cursor, open, closed, history>>

-----------------------------------------------------------------------------
(***************************************************************************)
(* MemoryStore: one action per operation.                                   *)
(***************************************************************************)

\* The constructor: room for the access history if there is some, and register().
Construct(s) ==
  /\ s \notin open \cup closed
  /\ open' = open \cup {s}
  /\ clients' = Append(clients, s)
  /\ IF Fits(HistoryBytes)
     THEN history' = history \cup {s} /\ Reserve(HistoryBytes, "metadata")
     ELSE UNCHANGED <<history, used, categories>>
  /\ UNCHANGED <<target, state, pressureFor, recoveryFor, cursor, lru, bytes, closed>>

\* worthAdmitting(), with admission enabled as it is by default: compares the frequency of the key with that of up to eight
\* victims; an expired victim is always worth it.
Worth(s) ==
  IF s \notin history THEN {FALSE}
  ELSE IF lru[s] = <<>> \/ (lru[s] # <<>> /\ Head(lru[s]).expired) THEN {TRUE}
  ELSE BOOLEAN

\* mutant: a refused replacement leaves the old value in place.
SetRefusedKeeps(s, k, n) ==
  /\ s \in open
  /\ n > MaxEntryBytes \/ n > target \/ state # "normal"
  /\ Keeps(s, Supersede(lru[s], k), 0)

\* setEncoded(): refused for its size or under pressure.  The old value goes too.
SetRefused(s, k, n) ==
  /\ s \in open
  /\ n > MaxEntryBytes \/ n > target \/ state # "normal"
  /\ Keeps(s, Others(lru[s], k), SumBytes(Held(lru[s], k)))

NeedsSpace(s, k, n) ==
  LET prior == Visible(lru[s], k)
  IN \/ used + n - SumBytes(prior) > target
     \/ prior = <<>> /\ Len(lru[s]) >= MaxEntries

\* setEncoded(): a new key that is not worth an eviction.
SetUnworthy(s, k, n) ==
  /\ s \in open
  /\ n <= MaxEntryBytes /\ n <= target /\ state = "normal"
  /\ Visible(lru[s], k) = <<>> /\ NeedsSpace(s, k, n) /\ FALSE \in Worth(s)
  /\ Keeps(s, Supersede(lru[s], k), 0)

\* setEncoded(): the old entry goes, then the least recently used ones, until
\* the budget has room or the write may evict no more; then the LRU's own limit.
SetAdmitted(s, k, n) ==
  LET q      == Others(lru[s], k)
      freed(i) == SumBytes(Held(lru[s], k)) + SumBytes(SubSeq(q, 1, i))
      limit  == Lower(MaxEvictionsPerWrite, Len(q))
      enough == {i \in 0..limit : used - freed(i) + n <= target}
      pops   == IF enough = {} THEN limit ELSE CHOOSE i \in enough : \A j \in enough : i <= j
      full   == Higher(0, Len(q) - pops - (MaxEntries - 1))
      kept   == SubSeq(q, pops + full + 1, Len(q))
      gone   == freed(pops + full)
      new    == [key |-> k, bytes |-> n, expired |-> FALSE, old |-> FALSE]
  IN /\ s \in open
     /\ n <= MaxEntryBytes /\ n <= target /\ state = "normal"
     /\ ~(Visible(lru[s], k) = <<>> /\ NeedsSpace(s, k, n)) \/ TRUE \in Worth(s)
     /\ IF enough = {} THEN Keeps(s, SubSeq(q, pops + 1, Len(q)), freed(pops))
        ELSE
          /\ lru' = [lru EXCEPT ![s] = Append(kept, new)]
          /\ bytes' = [bytes EXCEPT ![s] = @ - gone + n]
          /\ used' = used - gone + n
          /\ categories' = [categories EXCEPT !["fresh"] = @ - gone + n]
          /\ UNCHANGED <<target, state, pressureFor, recoveryFor, clients, cursor,
                         open, closed, history>>

\* get(), getEncoded(): a hit becomes the most recently used; an expired entry, or
\* one that does not decode, is deleted.  has() deletes an expired one likewise.
Get(s, k, decodes) ==
  LET hit == Visible(lru[s], k)
  IN /\ s \in open /\ Held(lru[s], k) # <<>>
     /\ IF hit # <<>> /\ decodes
        THEN Keeps(s, Others(lru[s], k) \o hit, 0)
        ELSE Keeps(s, Others(lru[s], k), SumBytes(Held(lru[s], k)))

\* delete(), and a set() of undefined or of a value that cannot be encoded.
Delete(s, k) ==
  /\ s \in open /\ Held(lru[s], k) # <<>>
  /\ Keeps(s, Others(lru[s], k), SumBytes(Held(lru[s], k)))

\* deleteByPattern(): keys() does not list what has expired.
DeleteByPattern(s, K) ==
  LET hits == {i \in DOMAIN lru[s] : lru[s][i].key \in K /\ ~lru[s][i].expired}
      left == Picked(lru[s], DOMAIN lru[s] \ hits)
  IN /\ s \in open
     /\ Keeps(s, [i \in DOMAIN left |-> [left[i] EXCEPT !.old = @ \/ left[i].key \in K]],
              SumBytes(Picked(lru[s], hits)))

Clear(s) == s \in open /\ Keeps(s, <<>>, SumBytes(lru[s]))

\* size(), stats(): what has expired is disposed of.
Purge(s) ==
  LET expired == {i \in DOMAIN lru[s] : lru[s][i].expired}
  IN /\ s \in open
     /\ Keeps(s, Picked(lru[s], DOMAIN lru[s] \ expired), SumBytes(Picked(lru[s], expired)))

\* mutant: the access history of a closed store stays reserved.
CloseKeepsHistory(s) ==
  /\ s \in open
  /\ open' = open \ {s} /\ closed' = closed \cup {s} /\ history' = history \ {s}
  /\ lru' = [lru EXCEPT ![s] = <<>>] /\ bytes' = [bytes EXCEPT ![s] = 0]
  /\ used' = used - SumBytes(lru[s])
  /\ categories' = [categories EXCEPT !["fresh"] = @ - SumBytes(lru[s])]
  /\ clients' = Picked(clients, {i \in DOMAIN clients : clients[i] # s})
  /\ UNCHANGED <<target, state, pressureFor, recoveryFor, cursor>>

Expired(q, k) == [i \in DOMAIN q |-> IF q[i].key = k THEN [q[i] EXCEPT !.expired = TRUE] ELSE q[i]]

\* The ttl of an entry passes.
Expire(s, k) ==
  /\ Visible(lru[s], k) # <<>>
  /\ lru' = [lru EXCEPT ![s] = Expired(@, k)]
  /\ UNCHANGED <<budgetVars, bytes, open, closed, history>>

\* close(): every entry and the history go back, and the store is no client any more.
Close(s) ==
  LET meta == IF s \in history THEN HistoryBytes ELSE 0
  IN /\ s \in open
     /\ open' = open \ {s} /\ closed' = closed \cup {s} /\ history' = history \ {s}
     /\ lru' = [lru EXCEPT ![s] = <<>>] /\ bytes' = [bytes EXCEPT ![s] = 0]
     /\ used' = used - SumBytes(lru[s]) - meta
     /\ categories' = [categories EXCEPT !["fresh"] = @ - SumBytes(lru[s]), !["metadata"] = @ - meta]
     /\ clients' = Picked(clients, {i \in DOMAIN clients : clients[i] # s})
     /\ UNCHANGED <<target, state, pressureFor, recoveryFor, cursor>>

-----------------------------------------------------------------------------
(***************************************************************************)
(* MemoryBudget: other users, and the sampler.                              *)
(***************************************************************************)

\* HybridCache's queues and metadata, the origin gate's keys.
OtherReserves(n) ==
  /\ Fits(n) /\ Reserve(n, "other")
  /\ UNCHANGED <<target, state, pressureFor, recoveryFor, clients, cursor, storeVars>>

OtherReleases(n) ==
  /\ categories["other"] >= n /\ Release(n, "other")
  /\ UNCHANGED <<target, state, pressureFor, recoveryFor, clients, cursor, storeVars>>

\* What the signals, and the ledger itself, say of the pressure.
Critical(signal)  == used > HardCap \/ signal = "critical"
Pressured(signal) == ~Critical(signal) /\ (used > target \/ signal = "pressure")

SinceNow(d) == IF d = -1 THEN 0 ELSE d

\* The state and the target after a sample.
Adjusted(signal) ==
  LET p == SinceNow(pressureFor)
      r == SinceNow(recoveryFor)
  IN IF Critical(signal) THEN
       [state |-> "critical", target |-> Higher(MinMemory, (target * 7) \div 10), p |-> 0, r |-> -1]
     ELSE IF Pressured(signal) THEN
       IF p >= PressureWindow
       THEN [state |-> "pressure", target |-> Higher(MinMemory, (HardCap * 7) \div 10), p |-> p, r |-> -1]
       ELSE [state |-> state, target |-> target, p |-> p, r |-> -1]
     ELSE IF r >= RecoveryWindow
     THEN [state |-> "normal", target |-> Lower(HardCap, target + Higher(1, (HardCap * 5) \div 100)),
           p |-> -1, r |-> r]
     ELSE [state |-> state, target |-> target, p |-> -1, r |-> r]

\* mutant: every sample begins with the first client.
EvictOneOfFirst(b, goal) ==
  LET s == clients[1]
  IN IF clients = <<>> \/ b.used <= goal \/ b.lru[s] = <<>> THEN b
     ELSE [lru |-> [b.lru EXCEPT ![s] = Tail(@)], used |-> b.used - Head(b.lru[s]).bytes, cursor |-> cursor]

\* evictOne() of the next client, if the ledger is still above its target.
EvictOne(b, goal) ==
  LET s == clients[1 + (b.cursor % Len(clients))]
  IN IF clients = <<>> \/ b.used <= goal THEN b
     ELSE IF b.lru[s] = <<>> THEN [lru |-> b.lru, used |-> b.used, cursor |-> b.cursor + 1]
     ELSE [lru    |-> [b.lru EXCEPT ![s] = Tail(@)],
           used   |-> b.used - Head(b.lru[s]).bytes,
           cursor |-> b.cursor + 1]

\* evictBounded(): round robin over the clients, one entry each, until the
\* ledger is under the target or the sample has done its share.
Evicted(goal) ==
  LET f[n \in 0..EvictionsPerSample] ==
        IF n = 0 THEN [lru |-> lru, used |-> used, cursor |-> cursor] ELSE EvictOne(f[n - 1], goal)
  IN f[EvictionsPerSample]

Sample(signal) ==
  LET a == Adjusted(signal)
      b == Evicted(a.target)
  IN /\ state' = a.state /\ target' = a.target
     /\ pressureFor' = a.p /\ recoveryFor' = a.r
     /\ lru' = b.lru /\ used' = b.used
     /\ cursor' = b.cursor % CursorPeriod
     /\ bytes' = [s \in Store |-> bytes[s] - (SumBytes(lru[s]) - SumBytes(b.lru[s]))]
     /\ categories' = [categories EXCEPT !["fresh"] = @ - (used - b.used)]
     /\ UNCHANGED <<clients, open, closed, history>>

\* Time passes; only the two windows look at it.
Tick ==
  /\ \/ pressureFor \in 0..PressureWindow - 1 \/ recoveryFor \in 0..RecoveryWindow - 1
  /\ pressureFor' = IF pressureFor = -1 THEN -1 ELSE Lower(PressureWindow, pressureFor + 1)
  /\ recoveryFor' = IF recoveryFor = -1 THEN -1 ELSE Lower(RecoveryWindow, recoveryFor + 1)
  /\ UNCHANGED <<used, categories, target, state, clients, cursor, storeVars>>

\* MemoryBudget.close(): no more sampling; the stores stay.
CloseBudget ==
  /\ clients # <<>>
  /\ clients' = <<>>
  /\ UNCHANGED <<used, categories, target, state, pressureFor, recoveryFor, cursor, storeVars>>

Signals == {"calm", "pressure", "critical"}

Next ==
  \/ \E s \in Store, k \in Key :
       \/ \E n \in Bytes : SetRefused(s, k, n) \/ SetUnworthy(s, k, n) \/ SetAdmitted(s, k, n)
       \/ \E decodes \in BOOLEAN : Get(s, k, decodes)
       \/ Delete(s, k) \/ Expire(s, k)
  \/ \E s \in Store : Construct(s) \/ Clear(s) \/ Purge(s) \/ Close(s)
  \/ \E s \in Store, K \in SUBSET Key : DeleteByPattern(s, K)
  \/ \E n \in OtherBytes : OtherReserves(n) \/ OtherReleases(n)
  \/ \E signal \in Signals : Sample(signal)
  \/ Tick \/ CloseBudget

\* The sampler's interval timer runs while there are clients.
Fairness == WF_vars(clients # <<>> /\ \E signal \in Signals : Sample(signal))
Spec == Init /\ [][Next]_vars /\ Fairness

-----------------------------------------------------------------------------

(***************************************************************************)
(* The ledger is exact: it is the sum of its categories, 'fresh' is what the *)
(* open stores really hold and believe they hold, 'metadata' their access    *)
(* histories.  Every path on which an entry leaves gives its bytes back once. *)
(***************************************************************************)
LedgerExact ==
  /\ used = categories["fresh"] + categories["metadata"] + categories["other"]
  /\ categories["fresh"] = Total([s \in Store |-> SumBytes(lru[s])], Store)
  /\ \A s \in Store : bytes[s] = SumBytes(lru[s])
  /\ categories["metadata"] = HistoryBytes * Cardinality(history)

(***************************************************************************)
(* "A failed replacement cannot keep an obsolete value": whatever becomes of *)
(* a set or a delete, no earlier value of the key is served afterwards.      *)
(***************************************************************************)
NoObsoleteValue ==
  \A s \in Store : \A i \in DOMAIN lru[s] : lru[s][i].old => lru[s][i].expired

(***************************************************************************)
(* Sampling brings the ledger under its target, however the entries are      *)
(* spread over the stores and though one sample evicts a bounded number,     *)
(* unless the clients have nothing left to give or the target moves again.   *)
(***************************************************************************)
PressureRelieved ==
  []<>(used <= target \/ \A i \in DOMAIN clients : lru[clients[i]] = <<>>)
=============================================================================
