----------------------------- MODULE LocalProofs -----------------------------
(***************************************************************************)
(* Proofs about the parts of Local.  Each part has an inductive invariant of *)
(* its own; a step of another part leaves its variables alone.              *)
(***************************************************************************)
EXTENDS Local, Queues, TLAPS

-----------------------------------------------------------------------------
(* setupCache() and close() *)

\* Before the first check nothing is open; until the catch or close(), setup's own client is
\* not closed; after them the cache and the bus are, and a dial still under way is one that
\* the application's own bus does not take back.
SetupClients ==
  /\ pc = "start" => ownedRedis = "none" /\ subscriber = "none" /\ transport = "none"
  /\ pc \in {"start", "checking", "ready", "cleaning", "returned"} => ownedRedis # "closed"
  /\ pc \in {"closing", "quitting", "closed", "failed"} =>
       cache # "open" /\ subscriber # "open" /\ transport \notin {"open", "dialing"}
  /\ pc \in {"closed", "failed"} => ownedRedis # "open"
  /\ subscriber = "open" => Setup!GeneratedBus
  /\ pc = "start" => cache = "none"
  /\ transport \in {"adrift", "stray"} => opts.lateDial

\* The check of the cache is the last one.
SetupPlan ==
  pc = "checking" =>
    /\ Len(todo) > 0 /\ todo[Len(todo)] = "cache"
    /\ \A i \in 1..(Len(todo) - 1) : todo[i] # "cache"

\* Under requireHealthy what is needed was answered well or is still to be checked.
SetupHeard ==
  opts.requireHealthy =>
    /\ pc = "checking" =>
         \A c \in Setup!Check : Setup!Needed(c) => c \in heard \/ \E i \in 1..Len(todo) : todo[i] = c
    /\ pc \in {"ready", "returned"} => \A c \in Setup!Check : Setup!Needed(c) => c \in heard
    /\ pc = "returned" => "ready" \in heard

\* No server was refused, unless the catch has been entered.
SetupAccepted ==
  pc \in {"start", "checking", "ready", "returned"} =>
    seen \cap {"acl", "unknown-command", "malformed", "old"} = {}

SetupInv ==
  /\ Setup!TypeOK /\ SetupClients /\ SetupPlan /\ SetupHeard /\ SetupAccepted
  /\ Setup!CallerKeepsClient

\* The plan is a sequence of checks that ends with the cache's and has every needed one.
LEMMA PlanHolds ==
  ASSUME opts \in Setup!Options
  PROVE  /\ Setup!Plan \in Seq(Setup!Check) /\ Len(Setup!Plan) > 0
         /\ Setup!Plan[Len(Setup!Plan)] = "cache"
         /\ \A i \in 1..(Len(Setup!Plan) - 1) : Setup!Plan[i] # "cache"
         /\ \A c \in Setup!Check : Setup!Needed(c) => \E i \in 1..Len(Setup!Plan) : Setup!Plan[i] = c
<1> DEFINE kv == Setup!Only("kv")
           core == Setup!Only("core")
           ping == Setup!Only("ping")
           bus == Setup!Only("bus")
<1> DEFINE Part(s, c) == /\ s \in Seq(Setup!Check \ {"cache"})
                         /\ Setup!Needed(c) => \E i \in 1..Len(s) : s[i] = c
<1>1. Part(kv, "kv") /\ Part(core, "core") /\ Part(ping, "ping") /\ Part(bus, "bus")
  <2>1. ASSUME NEW c \in Setup!Check \ {"cache"} PROVE Part(Setup!Only(c), c)
    <3>1. CASE Setup!Needed(c)
      BY <3>1 DEF Setup!Only
    <3>2. CASE ~Setup!Needed(c)
      BY <3>2 DEF Setup!Only
    <3> QED  BY <3>1, <3>2
  <2> HIDE DEF Part
  <2> QED  BY <2>1 DEF Setup!Check
<1>2. Setup!Only("cache") = <<"cache">>
  BY DEF Setup!Only, Setup!Needed
<1>3. Setup!Plan = (((kv \o core) \o ping) \o bus) \o <<"cache">>
  BY <1>2, Zenon DEF Setup!Plan
<1> DEFINE some == ((kv \o core) \o ping) \o bus
<1>4. /\ some \in Seq(Setup!Check \ {"cache"})
      /\ \A c \in Setup!Check \ {"cache"} : Setup!Needed(c) => \E i \in 1..Len(some) : some[i] = c
  <2> HIDE DEF kv, core, ping, bus
  <2> DEFINE C == Setup!Check \ {"cache"}
             Has(s, c) == Setup!Needed(c) => \E i \in 1..Len(s) : s[i] = c
  <2>1. ASSUME NEW s \in Seq(C), NEW t \in Seq(C), NEW c
        PROVE  s \o t \in Seq(C) /\ (Has(s, c) \/ Has(t, c) => Has(s \o t, c))
    <3>1. /\ s \o t \in Seq(C) /\ Len(s \o t) = Len(s) + Len(t)
          /\ \A i \in 1..(Len(s) + Len(t)) :
               (s \o t)[i] = IF i <= Len(s) THEN s[i] ELSE t[i - Len(s)]
      BY ConcatProperties
    <3>2. ASSUME NEW i \in 1..Len(s) PROVE i \in 1..Len(s \o t) /\ (s \o t)[i] = s[i]
      BY <3>1
    <3>3. ASSUME NEW i \in 1..Len(t)
          PROVE  i + Len(s) \in 1..Len(s \o t) /\ (s \o t)[i + Len(s)] = t[i]
      BY <3>1
    <3> QED  BY <3>1, <3>2, <3>3
  <2>2. /\ kv \in Seq(C) /\ core \in Seq(C) /\ ping \in Seq(C) /\ bus \in Seq(C)
        /\ Has(kv, "kv") /\ Has(core, "core") /\ Has(ping, "ping") /\ Has(bus, "bus")
    BY <1>1
  <2> HIDE DEF C, Has
  <2>3. kv \o core \in Seq(C) /\ Has(kv \o core, "kv") /\ Has(kv \o core, "core")
    BY <2>1, <2>2, Zenon
  <2>4. /\ (kv \o core) \o ping \in Seq(C) /\ Has((kv \o core) \o ping, "kv")
        /\ Has((kv \o core) \o ping, "core") /\ Has((kv \o core) \o ping, "ping")
    BY <2>1, <2>2, <2>3, Zenon
  <2>5. /\ some \in Seq(C) /\ Has(some, "kv") /\ Has(some, "core") /\ Has(some, "ping")
        /\ Has(some, "bus")
    BY <2>1, <2>2, <2>4, Zenon
  <2> HIDE DEF some
  <2> QED  BY <2>5 DEF C, Has, Setup!Check
<1> HIDE DEF some
<1>5. Setup!Plan = Append(some, "cache")
  BY <1>3, <1>4, AppendIsConcat DEF some
<1> HIDE DEF kv, core, ping, bus
<1>6. /\ Setup!Plan \in Seq(Setup!Check) /\ Len(Setup!Plan) = Len(some) + 1
      /\ \A i \in 1..Len(some) : Setup!Plan[i] = some[i] /\ some[i] \in Setup!Check \ {"cache"}
      /\ Setup!Plan[Len(some) + 1] = "cache" /\ Len(some) \in Nat
  <2>1. some \in Seq(Setup!Check) /\ "cache" \in Setup!Check
    BY <1>4 DEF Setup!Check
  <2>2. \A i \in 1..Len(some) : some[i] \in Setup!Check \ {"cache"}
    BY <1>4, ElementOfSeq
  <2> QED  BY <1>5, <2>1, <2>2, AppendPlaces
<1> QED
  BY <1>4, <1>6 DEF Setup!Check


LEMMA SetupInitially == ASSUME Setup!Init PROVE SetupInv
<1> USE DEF Setup!Init
<1>1. opts \in Setup!Options /\ opts.redis \in {"none", "client", "url", "missing"}
  BY DEF Setup!Options
<1>2. Setup!TypeOK
  BY <1>1 DEF Setup!TypeOK
<1> QED
  BY <1>1, <1>2 DEF SetupInv, SetupClients, SetupPlan, SetupHeard, SetupAccepted, Setup!CallerKeepsClient

LEMMA SetupStart ==
  ASSUME SetupInv, Setup!Start
  PROVE  SetupInv'
<1>0. /\ Setup!TypeOK /\ SetupClients /\ SetupAccepted /\ Setup!CallerKeepsClient
      /\ opts \in Setup!Options /\ pc = "start" /\ UNCHANGED <<opts, callerRedis, cache, heard, seen>>
  BY DEF SetupInv, Setup!TypeOK, Setup!Start, Setup!connections
<1>1. CASE opts.redis = "missing"
  <2>1. pc' = "failed" /\ UNCHANGED <<todo, ownedRedis, subscriber, transport>>
    BY <1>1 DEF Setup!Start, Setup!connections
  <2>2. cache # "open"
    BY <1>0 DEF SetupClients
  <2>3. Setup!TypeOK' /\ Setup!CallerKeepsClient'
    BY <1>0, <2>1 DEF Setup!TypeOK, Setup!CallerKeepsClient
  <2>4. SetupClients'
    BY <1>0, <2>1, <2>2 DEF SetupClients
  <2> QED  BY <2>1, <2>3, <2>4 DEF SetupInv, SetupPlan, SetupHeard, SetupAccepted
<1>2. CASE opts.redis # "missing"
  <2>1. /\ pc' = "checking" /\ todo' = Setup!Plan
        /\ ownedRedis' \in {"open", "none"}
        /\ subscriber' = IF Setup!GeneratedBus THEN "open" ELSE "none"
        /\ transport' \in {"dialing", "none"}
    BY <1>0, <1>2 DEF Setup!Start, Setup!Dials, SetupClients
  <2>2. SetupPlan' /\ todo' \in Seq(Setup!Check)
    BY <1>0, <2>1, PlanHolds DEF SetupPlan
  <2>3. SetupHeard'
    BY <1>0, <2>1, PlanHolds, Zenon
       DEF SetupHeard, Setup!Needed, Setup!HasBus, Setup!GeneratedBus, Setup!HasRedis
  <2>4. Setup!TypeOK' /\ Setup!CallerKeepsClient'
    BY <1>0, <2>1, <2>2 DEF Setup!TypeOK, Setup!CallerKeepsClient
  <2>5. SetupClients'
    BY <1>0, <2>1 DEF SetupClients, Setup!GeneratedBus, Setup!HasRedis
  <2>6. SetupAccepted'
    BY <1>0, <2>1 DEF SetupAccepted
  <2> QED  BY <2>2, <2>3, <2>4, <2>5, <2>6 DEF SetupInv
<1> QED
  BY <1>1, <1>2

LEMMA SetupStartThrows ==
  ASSUME SetupInv, Setup!StartThrows
  PROVE  SetupInv'
<1> USE DEF Setup!StartThrows, Setup!HasRedis
<1>0. Setup!TypeOK
  BY DEF SetupInv
<1>1. Setup!TypeOK'
  BY <1>0 DEF SetupInv, SetupClients, Setup!TypeOK, Setup!Outcome, Setup!Check
<1>2. SetupClients'
  BY <1>0 DEF SetupInv, SetupClients, Setup!TypeOK, Setup!GeneratedBus, Setup!HasRedis
<1>3. SetupPlan'
  BY <1>0 DEF SetupInv, SetupPlan, Setup!TypeOK
<1>4. SetupHeard'
  BY <1>0 DEF SetupInv, SetupHeard, SetupPlan, Setup!TypeOK, Setup!Needed, Setup!HasBus, Setup!GeneratedBus, Setup!HasRedis
<1>5. SetupAccepted'
  BY <1>0 DEF SetupInv, SetupAccepted, Setup!TypeOK
<1>6. Setup!CallerKeepsClient'
  BY <1>0 DEF SetupInv, Setup!CallerKeepsClient
<1> QED
  BY <1>1, <1>2, <1>3, <1>4, <1>5, <1>6 DEF SetupInv

LEMMA SetupCheckEnds ==
  ASSUME SetupInv, NEW out \in Setup!Outcome, Setup!CheckEnds(out)
  PROVE  SetupInv'
<1> DEFINE c == Head(todo)
<1>0. Setup!TypeOK /\ todo \in Seq(Setup!Check) /\ pc = "checking" /\ todo # <<>>
  BY DEF SetupInv, SetupPlan, Setup!TypeOK, Setup!CheckEnds
<1>a. /\ Tail(todo) \in Seq(Setup!Check) /\ Len(Tail(todo)) = Len(todo) - 1 /\ c = todo[1]
      /\ \A i \in 1..Len(Tail(todo)) : Tail(todo)[i] = todo[i + 1] /\ i + 1 \in 1..Len(todo)
      /\ 1 \in 1..Len(todo) /\ Len(todo) \in Nat
  BY <1>0, TailPlaces
<1>b. c \in Setup!Check /\ (c = "cache" <=> Len(todo) = 1)
  <2>1. c \in Setup!Check
    BY <1>0
  <2>2. Len(todo) > 0 /\ todo[Len(todo)] = "cache" /\ \A i \in 1..(Len(todo) - 1) : todo[i] # "cache"
    BY <1>0 DEF SetupInv, SetupPlan
  <2>3. Len(todo) # 1 => 1 \in 1..(Len(todo) - 1)
    BY <1>a
  <2> QED  BY <1>a, <2>1, <2>2, <2>3
<1>c. /\ out \in Setup!Outcomes(c)
      /\ heard' = IF out = "ok" THEN heard \cup {c} ELSE heard
      /\ seen' = IF out = "ok" THEN seen ELSE seen \cup {out}
      /\ cache' = IF c = "cache" /\ out = "ok" THEN "open" ELSE cache
      /\ todo' = Tail(todo)
      /\ pc' = IF Setup!Fatal(c, out) THEN "cleaning"
               ELSE IF c # "cache" THEN "checking"
               ELSE IF opts.requireHealthy THEN "ready" ELSE "returned"
      /\ UNCHANGED <<opts, ownedRedis, callerRedis, subscriber>>
  BY DEF Setup!CheckEnds
<1>d. transport' \in {"none", "dialing", "open"} \/ transport' = transport
  BY <1>0 DEF Setup!CheckEnds, Setup!Dials, Setup!TypeOK
<1> HIDE DEF c
<1>e. /\ pc' \in {"cleaning", "checking", "ready", "returned"}
      /\ pc' = "checking" => c # "cache"
      /\ pc' \in {"ready", "returned"} => c = "cache"
      /\ pc' = "returned" => ~opts.requireHealthy
      /\ pc' # "cleaning" => ~Setup!Fatal(c, out)
  BY <1>c
<1>f. /\ pc' # "cleaning" => out \notin {"acl", "unknown-command", "malformed", "old"}
      /\ pc' # "cleaning" /\ opts.requireHealthy => out = "ok"
      /\ c = "cache" /\ pc' # "cleaning" => out = "ok"
  BY <1>b, <1>c, <1>e DEF Setup!Outcomes, Setup!Fatal, Setup!Issue, Setup!Check
<1>1. Setup!TypeOK'
  BY <1>0, <1>a, <1>b, <1>c, <1>d, <1>e, Zenon DEF SetupInv, SetupClients, Setup!TypeOK, Setup!Check
<1>2. SetupClients'
  BY <1>0, <1>c, <1>d, <1>e DEF SetupInv, SetupClients, Setup!GeneratedBus, Setup!HasRedis
<1>3. SetupPlan'
  <2> SUFFICES ASSUME pc' = "checking"
               PROVE  /\ Len(Tail(todo)) > 0 /\ Tail(todo)[Len(Tail(todo))] = "cache"
                      /\ \A i \in 1..(Len(Tail(todo)) - 1) : Tail(todo)[i] # "cache"
    BY <1>c DEF SetupPlan
  <2>1. /\ todo[Len(todo)] = "cache" /\ \A i \in 1..(Len(todo) - 1) : todo[i] # "cache"
        /\ Len(todo) > 1
    BY <1>0, <1>a, <1>b, <1>e DEF SetupInv, SetupPlan
  <2>2. Len(Tail(todo)) \in 1..Len(Tail(todo)) /\ Len(Tail(todo)) + 1 = Len(todo)
    BY <1>a, <2>1
  <2>3. ASSUME NEW i \in 1..(Len(Tail(todo)) - 1) PROVE Tail(todo)[i] # "cache"
    <3>1. i \in 1..Len(Tail(todo)) /\ i + 1 \in 1..(Len(todo) - 1)
      BY <1>a
    <3> QED  BY <1>a, <2>1, <3>1
  <2> QED  BY <1>a, <2>1, <2>2, <2>3
<1>4. SetupHeard'
  <2> SUFFICES ASSUME opts.requireHealthy, pc' # "cleaning", NEW x \in Setup!Check, Setup!Needed(x)
               PROVE  /\ pc' = "checking" => x \in heard' \/ \E i \in 1..Len(Tail(todo)) : Tail(todo)[i] = x
                      /\ pc' = "ready" => x \in heard'
    BY <1>c, <1>e, Zenon DEF SetupHeard, Setup!Needed, Setup!HasBus, Setup!GeneratedBus, Setup!HasRedis
  <2>1. out = "ok" /\ heard' = heard \cup {c}
    BY <1>c, <1>f
  <2>2. x \in heard \/ \E i \in 1..Len(todo) : todo[i] = x
    BY <1>0 DEF SetupInv, SetupHeard
  <2>3. CASE x \in heard
    BY <2>1, <2>3
  <2>4. ASSUME NEW i \in 1..Len(todo), todo[i] = x
        PROVE  x = c \/ \E j \in 1..Len(Tail(todo)) : Tail(todo)[j] = x
    <3>1. CASE i = 1
      BY <1>a, <2>4, <3>1
    <3>2. CASE i # 1
      <4>1. i - 1 \in 1..Len(Tail(todo)) /\ (i - 1) + 1 = i
        BY <1>a, <3>2
      <4> QED  BY <1>a, <2>4, <4>1, Zenon
    <3> QED  BY <3>1, <3>2
  <2>5. pc' = "ready" => Len(Tail(todo)) = 0
    BY <1>a, <1>b, <1>e
  <2> QED  BY <2>1, <2>2, <2>3, <2>4, <2>5
<1>5. SetupAccepted'
  BY <1>0, <1>c, <1>e, <1>f DEF SetupInv, SetupAccepted
<1>6. Setup!CallerKeepsClient'
  BY <1>c DEF SetupInv, Setup!CallerKeepsClient
<1> QED
  BY <1>1, <1>2, <1>3, <1>4, <1>5, <1>6 DEF SetupInv

LEMMA SetupReadyEnds ==
  ASSUME SetupInv, NEW out \in Setup!Outcome, Setup!ReadyEnds(out)
  PROVE  SetupInv'
<1> USE DEF Setup!ReadyEnds, Setup!connections
<1>0. Setup!TypeOK
  BY DEF SetupInv
<1>1. Setup!TypeOK'
  BY <1>0 DEF SetupInv, SetupClients, Setup!TypeOK, Setup!Outcome, Setup!Check
<1>2. SetupClients'
  BY <1>0 DEF SetupInv, SetupClients, Setup!TypeOK, Setup!GeneratedBus, Setup!HasRedis
<1>3. SetupPlan'
  BY <1>0 DEF SetupInv, SetupPlan, Setup!TypeOK
<1>4. SetupHeard'
  BY <1>0, Zenon DEF SetupInv, SetupHeard, SetupPlan, Setup!TypeOK, Setup!Needed, Setup!HasBus, Setup!GeneratedBus, Setup!HasRedis
<1>5. SetupAccepted'
  BY <1>0 DEF SetupInv, SetupAccepted, Setup!TypeOK
<1>6. Setup!CallerKeepsClient'
  BY <1>0 DEF SetupInv, Setup!CallerKeepsClient
<1> QED
  BY <1>1, <1>2, <1>3, <1>4, <1>5, <1>6 DEF SetupInv

LEMMA SetupLateDial ==
  ASSUME SetupInv, NEW out \in {"ok", "error"}, Setup!LateDial(out)
  PROVE  SetupInv'
<1> USE DEF Setup!LateDial
<1>0. Setup!TypeOK
  BY DEF SetupInv
<1>1. Setup!TypeOK'
  BY <1>0 DEF SetupInv, SetupClients, Setup!TypeOK, Setup!Outcome, Setup!Check
<1>2. SetupClients'
  BY <1>0 DEF SetupInv, SetupClients, Setup!TypeOK, Setup!GeneratedBus, Setup!HasRedis
<1>3. SetupPlan'
  BY <1>0 DEF SetupInv, SetupPlan, Setup!TypeOK
<1>4. SetupHeard'
  BY <1>0, Zenon DEF SetupInv, SetupHeard, SetupPlan, Setup!TypeOK, Setup!Needed, Setup!HasBus, Setup!GeneratedBus, Setup!HasRedis
<1>5. SetupAccepted'
  BY <1>0 DEF SetupInv, SetupAccepted, Setup!TypeOK
<1>6. Setup!CallerKeepsClient'
  BY <1>0 DEF SetupInv, Setup!CallerKeepsClient
<1> QED
  BY <1>1, <1>2, <1>3, <1>4, <1>5, <1>6 DEF SetupInv

LEMMA SetupCleanup ==
  ASSUME SetupInv, Setup!Cleanup
  PROVE  SetupInv'
<1> USE DEF Setup!Cleanup, Setup!BusDisconnected, Setup!Disconnected, Setup!RedisClosed
<1>0. Setup!TypeOK
  BY DEF SetupInv
<1>1. Setup!TypeOK'
  BY <1>0 DEF SetupInv, SetupClients, Setup!TypeOK, Setup!Outcome, Setup!Check
<1>2. SetupClients'
  BY <1>0 DEF SetupInv, SetupClients, Setup!TypeOK, Setup!GeneratedBus, Setup!HasRedis
<1>3. SetupPlan'
  BY <1>0 DEF SetupInv, SetupPlan, Setup!TypeOK
<1>4. SetupHeard'
  BY <1>0 DEF SetupInv, SetupHeard, SetupPlan, Setup!TypeOK, Setup!Needed, Setup!HasBus, Setup!GeneratedBus, Setup!HasRedis
<1>5. SetupAccepted'
  BY <1>0 DEF SetupInv, SetupAccepted, Setup!TypeOK
<1>6. Setup!CallerKeepsClient'
  BY <1>0 DEF SetupInv, Setup!CallerKeepsClient
<1> QED
  BY <1>1, <1>2, <1>3, <1>4, <1>5, <1>6 DEF SetupInv

LEMMA SetupClose ==
  ASSUME SetupInv, Setup!Close
  PROVE  SetupInv'
<1> USE DEF Setup!Close, Setup!BusDisconnected, Setup!Disconnected
<1>0. Setup!TypeOK
  BY DEF SetupInv
<1>1. Setup!TypeOK'
  BY <1>0 DEF SetupInv, SetupClients, Setup!TypeOK, Setup!Outcome, Setup!Check
<1>2. SetupClients'
  BY <1>0 DEF SetupInv, SetupClients, Setup!TypeOK, Setup!GeneratedBus, Setup!HasRedis
<1>3. SetupPlan'
  BY <1>0 DEF SetupInv, SetupPlan, Setup!TypeOK
<1>4. SetupHeard'
  BY <1>0 DEF SetupInv, SetupHeard, SetupPlan, Setup!TypeOK, Setup!Needed, Setup!HasBus, Setup!GeneratedBus, Setup!HasRedis
<1>5. SetupAccepted'
  BY <1>0 DEF SetupInv, SetupAccepted, Setup!TypeOK
<1>6. Setup!CallerKeepsClient'
  BY <1>0 DEF SetupInv, Setup!CallerKeepsClient
<1> QED
  BY <1>1, <1>2, <1>3, <1>4, <1>5, <1>6 DEF SetupInv

LEMMA SetupCacheClosed ==
  ASSUME SetupInv, NEW ok \in BOOLEAN, Setup!CacheClosed(ok)
  PROVE  SetupInv'
<1> USE DEF Setup!CacheClosed, Setup!connections
<1>0. Setup!TypeOK
  BY DEF SetupInv
<1>1. Setup!TypeOK'
  BY <1>0 DEF SetupInv, SetupClients, Setup!TypeOK, Setup!Outcome, Setup!Check
<1>2. SetupClients'
  BY <1>0 DEF SetupInv, SetupClients, Setup!TypeOK, Setup!GeneratedBus, Setup!HasRedis
<1>3. SetupPlan'
  BY <1>0 DEF SetupInv, SetupPlan, Setup!TypeOK
<1>4. SetupHeard'
  BY <1>0 DEF SetupInv, SetupHeard, SetupPlan, Setup!TypeOK, Setup!Needed, Setup!HasBus, Setup!GeneratedBus, Setup!HasRedis
<1>5. SetupAccepted'
  BY <1>0 DEF SetupInv, SetupAccepted, Setup!TypeOK
<1>6. Setup!CallerKeepsClient'
  BY <1>0 DEF SetupInv, Setup!CallerKeepsClient
<1> QED
  BY <1>1, <1>2, <1>3, <1>4, <1>5, <1>6 DEF SetupInv

LEMMA SetupQuit ==
  ASSUME SetupInv, Setup!Quit
  PROVE  SetupInv'
<1> USE DEF Setup!Quit, Setup!RedisClosed
<1>0. Setup!TypeOK
  BY DEF SetupInv
<1>1. Setup!TypeOK'
  BY <1>0 DEF SetupInv, SetupClients, Setup!TypeOK, Setup!Outcome, Setup!Check
<1>2. SetupClients'
  BY <1>0 DEF SetupInv, SetupClients, Setup!TypeOK, Setup!GeneratedBus, Setup!HasRedis
<1>3. SetupPlan'
  BY <1>0 DEF SetupInv, SetupPlan, Setup!TypeOK
<1>4. SetupHeard'
  BY <1>0 DEF SetupInv, SetupHeard, SetupPlan, Setup!TypeOK, Setup!Needed, Setup!HasBus, Setup!GeneratedBus, Setup!HasRedis
<1>5. SetupAccepted'
  BY <1>0 DEF SetupInv, SetupAccepted, Setup!TypeOK
<1>6. Setup!CallerKeepsClient'
  BY <1>0 DEF SetupInv, Setup!CallerKeepsClient
<1> QED
  BY <1>1, <1>2, <1>3, <1>4, <1>5, <1>6 DEF SetupInv

\* A step of another part leaves this one as it is.
LEMMA SetupUnchanged == ASSUME SetupInv, UNCHANGED setupVars PROVE SetupInv'
<1> USE DEF setupVars
<1>1. Setup!TypeOK' /\ Setup!CallerKeepsClient'
  BY DEF SetupInv, Setup!TypeOK, Setup!CallerKeepsClient
<1>2. SetupClients' /\ SetupPlan' /\ SetupAccepted'
  BY DEF SetupInv, SetupClients, SetupPlan, SetupAccepted, Setup!GeneratedBus, Setup!HasRedis
<1>3. SetupHeard'
  BY Zenon DEF SetupInv, SetupHeard, Setup!Needed, Setup!HasBus, Setup!GeneratedBus, Setup!HasRedis
<1> QED
  BY <1>1, <1>2, <1>3 DEF SetupInv

LEMMA SetupStep == ASSUME SetupInv, [Next]_vars PROVE SetupInv'
<1>1. Setup!Next \/ UNCHANGED setupVars
  BY DEF Next, vars
<1>2. CASE Setup!Next
  BY <1>2, SetupStart, SetupStartThrows, SetupCleanup, SetupClose, SetupQuit, SetupCheckEnds,
     SetupReadyEnds, SetupLateDial, SetupCacheClosed DEF Setup!Next
<1> QED
  BY <1>1, <1>2, SetupUnchanged

LEMMA SetupSafe == ASSUME SetupInv PROVE SetupExact
<1>1. NothingLeaks
  BY DEF SetupInv, SetupClients, Setup!TypeOK, Setup!Options, NothingLeaks, Setup!NothingLeaks
<1>2. CallerKeepsClient
  BY DEF SetupInv, CallerKeepsClient
<1>3. StrictStartup
  BY DEF SetupInv, SetupHeard, StrictStartup, Setup!StrictStartup
<1>4. NeverDowngrades
  BY DEF SetupInv, SetupAccepted, NeverDowngrades, Setup!NeverDowngrades
<1> QED
  BY <1>1, <1>2, <1>3, <1>4 DEF SetupExact

(***************************************************************************)
(* setupCache() never accepts a server that a check refused, never returns   *)
(* under requireHealthy before every configured part answered, leaves nothing *)
(* it made open after a failure or close(), and never closes the             *)
(* application's own client.  Left out: the connection of the application's  *)
(* own RabbitMQ or NATS bus while its dial is under way, which disconnect()  *)
(* does not take back, and a constructor that throws before the first check. *)
(***************************************************************************)
THEOREM SetupIsExact == Spec => []SetupExact
<1>1. Init => SetupInv
  BY SetupInitially DEF Init
<1>2. SetupInv /\ [Next]_vars => SetupInv'
  BY SetupStep
<1>3. SetupInv => SetupExact
  BY SetupSafe
<1> QED
  BY <1>1, <1>2, <1>3, PTL DEF Spec

-----------------------------------------------------------------------------
(* Purges of a KV namespace *)

ScanRecord ==
  [op : {"none", "purge", "size", "literal"}, store : {"none", "worker", "node"},
   pc : {"done", "listing", "deleting"}, cursor : Nat, scanned : Nat, left : SUBSET Matching,
   last : BOOLEAN, moved : BOOLEAN, out : {"none", "ok", "range", "stuck", "error"},
   old : SUBSET Matching, found : Nat, deleted : SUBSET Matching, alone : BOOLEAN]

KVTypes ==
  /\ trailing \in BOOLEAN /\ present \subseteq Name /\ listed \subseteq Name
  /\ puts \in 0..MaxPuts /\ scan \in ScanRecord

\* What is left of the names that were listed still is, and is found or still to be scanned.
KVReach ==
  scan.op = "purge" =>
    \A n \in scan.old \cap present :
      /\ scan.pc # "done" => n \in listed
      /\ scan.pc = "listing" => n \in scan.left \/ n > scan.cursor
      /\ scan.pc = "deleting" => n \in scan.left \/ (~scan.last /\ (scan.moved => n > scan.cursor))
      /\ scan.out # "ok"

\* The Worker deletes only after its last page, within its limit; a size deletes nothing.
KVOrder ==
  /\ scan.pc # "done" => scan.out = "none"
  /\ scan.op = "purge" /\ scan.store = "worker" =>
       /\ scan.pc = "listing" => scan.deleted = {}
       /\ scan.pc = "deleting" => scan.last /\ scan.scanned <= MaxScan
  /\ scan.out = "range" => scan.deleted = {}
  /\ scan.op = "size" => scan.left = {} /\ scan.pc # "deleting"
  /\ scan.op = "literal" => scan.pc # "listing" /\ (scan.pc = "deleting" => scan.last)
  /\ scan.op = "none" => scan.pc = "done"
  /\ scan.store = "none" => scan.op \notin {"purge", "size"}

Listed(cursor_) == {n \in listed \cap Listing!Prefixed(scan.op) : n <= cursor_}

\* While the listings do not change, what was counted is what lies up to the cursor.
KVCount ==
  scan.alone =>
    /\ scan.pc = "listing" /\ (scan.op = "size" \/ scan.store = "worker") =>
         /\ scan.scanned = Cardinality(Listed(scan.cursor))
         /\ scan.found = Cardinality(listed \cap Listing!Prefixed(scan.op))
    /\ scan.op = "size" /\ scan.out = "ok" => scan.scanned = scan.found
    /\ scan.out = "range" => IF trailing THEN scan.found >= MaxScan ELSE scan.found > MaxScan

KVInv == KVTypes /\ KVReach /\ KVOrder /\ KVCount

\* The operators the part takes from FiniteSets are those used here.
LEMMA KVCounts ==
  ASSUME NEW S
  PROVE  Listing!IsFiniteSet(S) = IsFiniteSet(S) /\ Listing!Cardinality(S) = Cardinality(S)
<1>1. Listing!IsFiniteSet(S) = IsFiniteSet(S)
  BY DEF Listing!IsFiniteSet, IsFiniteSet
<1>2. Listing!Cardinality(S) = Cardinality(S)
  BY DEF Listing!Cardinality, Cardinality
<1> QED
  BY <1>1, <1>2

\* The namespace is finite, and the names of a kind are among those of the next.
LEMMA KVConstants ==
  /\ Name \subseteq Nat \ {0} /\ Matching \subseteq Under /\ Under \subseteq Ours /\ Ours \subseteq Name
  /\ Late \subseteq Name /\ IsFiniteSet(Name) /\ MaxScan \in Nat \ {0} /\ MaxPuts \in Nat
  /\ \A op : Listing!Prefixed(op) \subseteq Name
BY LocalAssumption, KVCounts DEF Listing!KVAssumption, Listing!Prefixed

LEMMA IdleScan ==
  /\ Listing!Idle \in ScanRecord
  /\ Listing!Idle.op = "none" /\ Listing!Idle.store = "none" /\ Listing!Idle.pc = "done"
  /\ Listing!Idle.out = "none" /\ Listing!Idle.left = {} /\ Listing!Idle.old = {}
  /\ Listing!Idle.deleted = {} /\ Listing!Idle.scanned = 0 /\ Listing!Idle.found = 0
  /\ Listing!Idle.cursor = 0 /\ Listing!Idle.alone /\ ~Listing!Idle.last
BY DEF Listing!Idle, ScanRecord

LEMMA KVInitially == ASSUME Listing!Init PROVE KVInv
<1> USE DEF Listing!Init
<1>1. KVTypes
  <2>1. present \subseteq Name /\ listed \subseteq Name
    BY KVConstants
  <2>2. trailing \in BOOLEAN /\ scan \in ScanRecord
    BY IdleScan
  <2>3. puts \in 0..MaxPuts
    BY KVConstants
  <2> QED  BY <2>1, <2>2, <2>3 DEF KVTypes
<1>2. KVReach /\ KVOrder /\ KVCount
  BY IdleScan DEF KVReach, KVOrder, KVCount
<1> QED
  BY <1>1, <1>2 DEF KVInv

LEMMA KVBegin ==
  ASSUME KVInv, NEW op \in {"purge", "size"}, NEW store \in {"worker", "node"},
         Listing!Begin(op, store), UNCHANGED trailing
  PROVE  KVInv'
<1> USE DEF Listing!Begin
<1> DEFINE P == listed \cap Listing!Prefixed(op)
<1>1. /\ IsFiniteSet(P) /\ Cardinality(P) \in Nat /\ {n \in P : n <= 0} = {} /\ listed \subseteq Name
  <2>1. P \subseteq Name /\ listed \subseteq Name
    BY KVConstants DEF KVInv, KVTypes
  <2> QED  BY <2>1, KVConstants, FS_Subset, FS_CardinalityType
<1>2. /\ scan' \in ScanRecord /\ scan'.op = op /\ scan'.store = store /\ scan'.pc = "listing"
      /\ scan'.old = listed \cap Matching /\ scan'.found = Cardinality(P) /\ scan'.out = "none"
      /\ scan'.left = {} /\ scan'.deleted = {} /\ scan'.scanned = 0 /\ scan'.cursor = 0
      /\ present' = present /\ listed' = listed
  <2> HIDE DEF P
  <2>1. scan' = [Listing!Idle EXCEPT !.op = op, !.store = store, !.pc = "listing",
                          !.old = listed \cap Matching, !.found = Cardinality(P)]
    BY KVCounts, Zenon DEF P
  <2>2. Cardinality(P) \in Nat /\ listed \cap Matching \in SUBSET Matching
    BY <1>1
  <2>3. present' = present /\ listed' = listed
    OBVIOUS
  <2>4. scan' \in ScanRecord
    BY <2>1, <2>2, IdleScan, ZenonT(60) DEF ScanRecord
  <2>5. /\ scan'.op = op /\ scan'.store = store /\ scan'.pc = "listing"
        /\ scan'.old = listed \cap Matching /\ scan'.found = Cardinality(P)
    BY <2>1, IdleScan, Zenon DEF ScanRecord
  <2>6. /\ scan'.out = "none" /\ scan'.left = {} /\ scan'.deleted = {} /\ scan'.scanned = 0
        /\ scan'.cursor = 0
    BY <2>1, IdleScan DEF ScanRecord
  <2> QED  BY <2>3, <2>4, <2>5, <2>6
<1>3. KVTypes'
  BY <1>1, <1>2 DEF KVInv, KVTypes
<1>4. KVReach'
  BY <1>1, <1>2, KVConstants DEF KVReach
<1>5. KVOrder'
  BY <1>2 DEF KVOrder
<1>6. KVCount'
  <2>1. Listed(scan.cursor)' = {}
    BY <1>1, <1>2 DEF Listed, Listing!Prefixed
  <2>2. Cardinality({}) = 0
    BY FS_EmptySet
  <2> QED  BY <1>2, <2>1, <2>2 DEF KVCount, Listing!Prefixed
<1> QED
  BY <1>3, <1>4, <1>5, <1>6 DEF KVInv

LEMMA KVDeleteLiteral ==
  ASSUME KVInv, NEW n \in Name, Listing!DeleteLiteral(n), UNCHANGED trailing
  PROVE  KVInv'
<1>1. /\ scan' \in ScanRecord /\ scan'.op = "literal" /\ scan'.pc = "deleting" /\ scan'.out = "none"
      /\ present' = present /\ listed' = listed /\ puts' = puts /\ scan'.deleted = {}
      /\ scan'.store = "none"
      /\ scan'.last
  BY IdleScan, Zenon DEF Listing!DeleteLiteral, ScanRecord
<1>2. KVTypes'
  BY <1>1 DEF KVInv, KVTypes
<1>3. KVReach' /\ KVOrder' /\ KVCount'
  BY <1>1 DEF KVReach, KVOrder, KVCount
<1> QED
  BY <1>2, <1>3 DEF KVInv

\* What is deleted next, what is listed next, or how the call ends.
LEMMA OnwardSettles ==
  ASSUME NEW s \in ScanRecord
  PROVE  LET t == Listing!Onward(s) IN
         /\ t \in ScanRecord
         /\ t.op = s.op /\ t.store = s.store /\ t.cursor = s.cursor /\ t.scanned = s.scanned
         /\ t.left = s.left /\ t.last = s.last /\ t.moved = s.moved /\ t.old = s.old
         /\ t.found = s.found /\ t.deleted = s.deleted /\ t.alone = s.alone
         /\ \/ s.left # {} /\ t.pc = "deleting" /\ t.out = s.out
            \/ s.left = {} /\ s.last /\ t.pc = "done" /\ t.out = "ok"
            \/ s.left = {} /\ ~s.last /\ ~s.moved /\ t.pc = "done" /\ t.out = "stuck"
            \/ s.left = {} /\ ~s.last /\ s.moved /\ t.pc = "listing" /\ t.out = s.out
BY ZenonT(60) DEF Listing!Onward, ScanRecord

\* A listing shows names of the namespace, and does not lose one that is still there.
LEMMA ShownListed ==
  ASSUME KVTypes, NEW some \in SUBSET Name
  PROVE  /\ Listing!Shown(some) \subseteq Name
         /\ \A n \in some : n \in listed => n \in Listing!Shown(some)
BY DEF Listing!Shown, KVTypes

LEMMA KVDeleteOne ==
  ASSUME KVInv, NEW n \in scan.left, Listing!DeleteOne(n), UNCHANGED trailing
  PROVE  KVInv'
<1> DEFINE s == [scan EXCEPT !.left = @ \ {n}, !.deleted = @ \union {n}]
<1>1. scan \in ScanRecord /\ n \in Matching /\ scan.pc = "deleting" /\ scan.out = "none"
  BY DEF KVInv, KVTypes, KVOrder, ScanRecord, Listing!DeleteOne
<1>2. /\ s \in ScanRecord /\ s.left = scan.left \ {n} /\ s.deleted = scan.deleted \cup {n}
      /\ s.op = scan.op /\ s.store = scan.store /\ s.cursor = scan.cursor /\ s.out = scan.out
      /\ s.scanned = scan.scanned /\ s.last = scan.last /\ s.moved = scan.moved
      /\ s.old = scan.old /\ s.found = scan.found /\ s.alone = scan.alone
  BY <1>1, Zenon DEF ScanRecord
<1>3. /\ scan' = Listing!Onward(s) /\ present' = present \ {n} /\ puts' = puts
      /\ listed' = Listing!Shown(present \ {n}) /\ KVTypes /\ present \ {n} \subseteq Name
  BY DEF Listing!DeleteOne, KVInv, KVTypes
<1>l. listed' \subseteq Name /\ \A m \in present' : m \in listed => m \in listed'
  BY <1>3, ShownListed
<1> HIDE DEF s
<1>4. /\ scan' \in ScanRecord
      /\ scan'.op = scan.op /\ scan'.store = scan.store /\ scan'.cursor = scan.cursor
      /\ scan'.scanned = scan.scanned /\ scan'.left = scan.left \ {n} /\ scan'.last = scan.last
      /\ scan'.moved = scan.moved /\ scan'.old = scan.old /\ scan'.found = scan.found
      /\ scan'.deleted = scan.deleted \cup {n} /\ scan'.alone = scan.alone
      /\ \/ scan'.left # {} /\ scan'.pc = "deleting" /\ scan'.out = "none"
         \/ scan'.left = {} /\ scan.last /\ scan'.pc = "done" /\ scan'.out = "ok"
         \/ scan'.left = {} /\ ~scan.last /\ ~scan.moved /\ scan'.pc = "done" /\ scan'.out = "stuck"
         \/ scan'.left = {} /\ ~scan.last /\ scan.moved /\ scan'.pc = "listing" /\ scan'.out = "none"
  BY <1>1, <1>2, <1>3, OnwardSettles
<1>5. scan.last \in BOOLEAN /\ scan.moved \in BOOLEAN /\ scan.op # "size"
  BY <1>1 DEF ScanRecord, KVInv, KVOrder
<1>6. KVTypes'
  BY <1>3, <1>4, <1>l DEF KVInv, KVTypes
<1>7. KVReach'
  BY <1>1, <1>3, <1>4, <1>5, <1>l DEF KVInv, KVReach
<1>8. KVOrder'
  BY <1>1, <1>4, <1>5 DEF KVInv, KVOrder
<1>9. KVCount'
  <2>1. scan'.out # "range" /\ scan'.op # "size" /\ ~(scan'.store = "worker" /\ scan'.pc = "listing")
    BY <1>1, <1>4, <1>5 DEF KVInv, KVOrder, ScanRecord
  <2> QED  BY <2>1 DEF KVCount
<1> QED
  BY <1>6, <1>7, <1>8, <1>9 DEF KVInv

LEMMA KVCallFails ==
  ASSUME KVInv, NEW executed \in BOOLEAN, Listing!CallFails(executed), UNCHANGED trailing
  PROVE  KVInv'
<1>1. scan \in ScanRecord
  BY DEF KVInv, KVTypes
<1>2. /\ scan' \in ScanRecord /\ scan'.pc = "done" /\ scan'.out = "error" /\ scan'.left = {}
      /\ present' \subseteq present /\ puts' = puts
      /\ scan'.op = scan.op /\ scan'.store = scan.store
  BY <1>1, Zenon DEF Listing!CallFails, Listing!Ends, ScanRecord
<1>l. listed' \subseteq Name /\ \A m \in present' : m \in listed => m \in listed'
  <2>1. listed' = listed \/ listed' = Listing!Shown(present')
    BY DEF Listing!CallFails
  <2>2. present' \in SUBSET Name /\ KVTypes
    BY <1>2 DEF KVInv, KVTypes
  <2> QED  BY <2>1, <2>2, ShownListed DEF KVTypes
<1>3. KVTypes'
  BY <1>2, <1>l DEF KVInv, KVTypes
<1>4. KVReach'
  BY <1>2, <1>l DEF KVInv, KVReach
<1>5. KVOrder' /\ KVCount'
  BY <1>2 DEF KVInv, KVOrder, KVCount
<1> QED
  BY <1>3, <1>4, <1>5 DEF KVInv

LEMMA KVOthers ==
  ASSUME KVInv, NEW n \in Name, NEW put \in BOOLEAN, Listing!Others(n, put), UNCHANGED trailing
  PROVE  KVInv'
<1>1. scan \in ScanRecord
  BY DEF KVInv, KVTypes
<1>2. /\ scan' \in ScanRecord /\ ~scan'.alone
      /\ scan'.op = scan.op /\ scan'.store = scan.store /\ scan'.cursor = scan.cursor
      /\ scan'.scanned = scan.scanned /\ scan'.left = scan.left /\ scan'.last = scan.last
      /\ scan'.moved = scan.moved /\ scan'.deleted = scan.deleted /\ scan'.pc = scan.pc
      /\ scan'.out = scan.out /\ scan'.old = IF put THEN scan.old \ {n} ELSE scan.old
      /\ present' = IF put THEN present \cup {n} ELSE present \ {n}
  BY <1>1, Zenon DEF Listing!Others, ScanRecord
<1>l. present' \subseteq Name /\ listed' \subseteq Name /\ \A m \in present' : m \in listed => m \in listed'
  <2>1. listed' = Listing!Shown(present')
    BY DEF Listing!Others
  <2>2. present' \in SUBSET Name /\ KVTypes
    BY <1>2 DEF KVInv, KVTypes
  <2> QED  BY <2>1, <2>2, ShownListed
<1>3. KVTypes'
  <2>1. puts' \in 0..MaxPuts
    BY KVConstants DEF KVInv, KVTypes, Listing!Others
  <2> QED  BY <1>2, <1>l, <2>1 DEF KVInv, KVTypes
<1>4. KVReach'
  <2>1. scan'.old \cap present' \subseteq scan.old \cap present
    BY <1>2
  <2> QED  BY <1>2, <1>l, <2>1 DEF KVInv, KVReach
<1>5. KVOrder'
  BY <1>2 DEF KVInv, KVOrder
<1>6. KVCount'
  BY <1>2 DEF KVCount
<1> QED
  BY <1>3, <1>4, <1>5, <1>6 DEF KVInv

\* A listing catches up: it drops only a name that is not there.
LEMMA KVPropagates ==
  ASSUME KVInv, NEW n \in Name, Listing!Propagates(n), UNCHANGED trailing
  PROVE  KVInv'
<1>1. scan \in ScanRecord
  BY DEF KVInv, KVTypes
<1>2. /\ scan' \in ScanRecord /\ ~scan'.alone
      /\ scan'.op = scan.op /\ scan'.store = scan.store /\ scan'.cursor = scan.cursor
      /\ scan'.scanned = scan.scanned /\ scan'.left = scan.left /\ scan'.last = scan.last
      /\ scan'.moved = scan.moved /\ scan'.deleted = scan.deleted /\ scan'.pc = scan.pc
      /\ scan'.out = scan.out /\ scan'.old = scan.old /\ present' = present /\ puts' = puts
      /\ listed' = IF n \in present THEN listed \cup {n} ELSE listed \ {n}
  BY <1>1, Zenon DEF Listing!Propagates, ScanRecord
<1>3. KVTypes'
  BY <1>2 DEF KVInv, KVTypes
<1>4. KVReach'
  BY <1>2 DEF KVInv, KVReach
<1>5. KVOrder' /\ KVCount'
  BY <1>2 DEF KVInv, KVOrder, KVCount
<1> QED
  BY <1>3, <1>4, <1>5 DEF KVInv

\* A page counts the names that lie between the two cursors.
LEMMA PageCounts ==
  ASSUME KVTypes, NEW page \in SUBSET Listing!Remaining,
         NEW last \in BOOLEAN, Listing!IsPage(page, last),
         NEW next, next = IF page # {} THEN Listing!Max(page) ELSE scan.cursor
  PROVE  LET P == listed \cap Listing!Prefixed(scan.op) IN
         /\ IsFiniteSet(page) /\ Cardinality(page) \in Nat /\ Cardinality(Listed(scan.cursor)) \in Nat
         /\ IsFiniteSet(P) /\ Cardinality(P) \in Nat
         /\ next \in Nat /\ Listed(next) = Listed(scan.cursor) \cup page
         /\ Cardinality(Listed(next)) = Cardinality(Listed(scan.cursor)) + Cardinality(page)
         /\ Cardinality(Listed(next)) <= Cardinality(P)
         /\ last => Listed(next) = P
         /\ ~last /\ ~trailing => Cardinality(Listed(next)) < Cardinality(P)
<1> DEFINE P == listed \cap Listing!Prefixed(scan.op)
<1>1. /\ P \subseteq Name /\ P \subseteq Nat /\ IsFiniteSet(P) /\ Cardinality(P) \in Nat
      /\ scan.cursor \in Nat /\ trailing \in BOOLEAN
  <2>1. P \subseteq Name /\ scan.cursor \in Nat /\ trailing \in BOOLEAN
    BY KVConstants DEF KVTypes, ScanRecord
  <2> QED  BY <2>1, KVConstants, FS_Subset, FS_CardinalityType, Zenon
<1>2. page \subseteq P /\ (\A n \in page : n > scan.cursor) /\ IsFiniteSet(page) /\ Cardinality(page) \in Nat
  BY <1>1, FS_Subset, FS_CardinalityType DEF Listing!Remaining
<1>3. \A n \in P : n > scan.cursor <=> n \in Listing!Remaining
  BY DEF Listing!Remaining
<1>4. next \in Nat /\ \A n \in P : n <= next <=> n <= scan.cursor \/ n \in page
  <2>1. CASE page = {}
    BY <1>1, <2>1
  <2>2. CASE page # {}
    <3>1. \E m \in page : \A k \in page : k <= m
      BY <1>1, <1>2, <2>2, GreatestMember
    <3>2. next \in page /\ \A k \in page : next >= k
      BY <1>1, <1>2, <2>2, <3>1 DEF Listing!Max
    <3>3. \A n \in Listing!Remaining : n < next => n \in page
      BY <3>2 DEF Listing!IsPage
    <3>4. next \in Nat /\ next > scan.cursor
      BY <1>1, <1>2, <3>2
    <3> QED  BY <1>1, <1>2, <1>3, <3>2, <3>3, <3>4
  <2> QED  BY <2>1, <2>2
<1>5. Listed(next) = Listed(scan.cursor) \cup page /\ Listed(scan.cursor) \cap page = {}
  BY <1>1, <1>2, <1>4 DEF Listed
<1>6. /\ Listed(scan.cursor) \subseteq P /\ IsFiniteSet(Listed(scan.cursor))
      /\ Cardinality(Listed(scan.cursor)) \in Nat
  BY <1>1, FS_Subset, FS_CardinalityType DEF Listed
<1>7. Cardinality(Listed(next)) = Cardinality(Listed(scan.cursor)) + Cardinality(page)
  <2>1. Cardinality(Listed(scan.cursor) \cap page) = 0
    BY <1>5, FS_EmptySet
  <2>2. Cardinality(Listed(scan.cursor) \cup page)
          = Cardinality(Listed(scan.cursor)) + Cardinality(page) - Cardinality(Listed(scan.cursor) \cap page)
    BY <1>2, <1>6, FS_Union
  <2>3. ASSUME NEW a \in Nat, NEW b \in Nat, NEW c, NEW z, z = 0, c = a + b - z PROVE c = a + b
    BY <2>3
  <2>4. Cardinality(Listed(scan.cursor) \cup page) = Cardinality(Listed(scan.cursor)) + Cardinality(page)
    BY <1>2, <1>6, <2>1, <2>2, <2>3
  <2> QED  BY <1>5, <2>4
<1>8. Cardinality(Listed(next)) <= Cardinality(P)
  BY <1>1, <1>2, <1>5, <1>6, FS_Subset
<1>9. last => Listed(next) = P
  <2> SUFFICES ASSUME last PROVE Listed(next) = P
    OBVIOUS
  <2>1. page = Listing!Remaining
    BY DEF Listing!IsPage
  <2> QED  BY <1>1, <1>3, <1>5, <2>1 DEF Listed
<1>10. ~last /\ ~trailing => Cardinality(Listed(next)) < Cardinality(P)
  <2> SUFFICES ASSUME ~last, ~trailing PROVE Cardinality(Listed(next)) < Cardinality(P)
    OBVIOUS
  <2>1. page # Listing!Remaining
    BY DEF Listing!IsPage
  <2>2. PICK n \in Listing!Remaining : n \notin page
    BY <2>1
  <2>3. n \in P /\ n \notin Listed(next)
    BY <1>1, <1>3, <1>4, <2>2 DEF Listed, Listing!Remaining
  <2>4. Listed(next) \subseteq P /\ Listed(next) # P
    BY <1>2, <1>5, <1>6, <2>3
  <2>5. Cardinality(Listed(next)) # Cardinality(P)
    BY <1>1, <2>4, FS_Subset
  <2>6. IsFiniteSet(Listed(next))
    BY <1>1, <2>4, FS_Subset
  <2>7. Cardinality(Listed(next)) \in Nat
    BY <2>6, FS_CardinalityType
  <2> HIDE DEF P
  <2> QED  BY <1>1, <1>8, <2>5, <2>7
<1> QED
  BY <1>1, <1>2, <1>4, <1>5, <1>6, <1>7, <1>8, <1>9, <1>10

LEMMA KVList ==
  ASSUME KVInv, NEW page \in SUBSET Listing!Remaining, NEW last \in BOOLEAN, NEW moved \in BOOLEAN,
         Listing!List(page, last, moved), UNCHANGED trailing
  PROVE  KVInv'
<1> DEFINE hits == IF scan.op = "size" THEN {} ELSE page \cap Matching
           next == IF page # {} THEN Listing!Max(page) ELSE scan.cursor
           P == listed \cap Listing!Prefixed(scan.op)
           s == [scan EXCEPT !.scanned = @ + Listing!Cardinality(page), !.last = last, !.moved = moved,
                             !.cursor = IF moved /\ page # {} THEN Listing!Max(page) ELSE @]
           refused == scan.op = "purge" /\ scan.store = "worker" /\ Listing!Refused(s.scanned, last)
<1>1. /\ KVTypes /\ scan \in ScanRecord /\ scan.pc = "listing" /\ Listing!IsPage(page, last)
      /\ scan.out = "none" /\ present' = present /\ listed' = listed /\ puts' = puts
      /\ listed \subseteq Name
      /\ scan.store \in {"worker", "node"} /\ scan.op \in {"purge", "size"}
      /\ scan.cursor \in Nat /\ scan.scanned \in Nat /\ MaxScan \in Nat /\ scan.found \in Nat
  <2>1. KVTypes /\ scan \in ScanRecord /\ listed \subseteq Name
    BY DEF KVInv, KVTypes
  <2>2. scan.pc = "listing" /\ Listing!IsPage(page, last) /\ present' = present /\ listed' = listed
        /\ puts' = puts
    BY DEF Listing!List
  <2>3. scan.out = "none" /\ scan.store # "none" /\ scan.op \notin {"none", "literal"}
    BY <2>1, <2>2 DEF KVInv, KVOrder, ScanRecord
  <2> QED  BY <2>1, <2>2, <2>3, KVConstants DEF ScanRecord
<1>2. /\ IsFiniteSet(page) /\ Cardinality(page) \in Nat /\ Cardinality(Listed(scan.cursor)) \in Nat
      /\ IsFiniteSet(P) /\ Cardinality(P) \in Nat
      /\ next \in Nat /\ Listed(next) = Listed(scan.cursor) \cup page
      /\ Cardinality(Listed(next)) = Cardinality(Listed(scan.cursor)) + Cardinality(page)
      /\ Cardinality(Listed(next)) <= Cardinality(P)
      /\ last => Listed(next) = P
      /\ ~last /\ ~trailing => Cardinality(Listed(next)) < Cardinality(P)
  BY <1>1, PageCounts, ZenonT(60)
<1>3. scan' = IF refused THEN [s EXCEPT !.pc = "done", !.out = "range", !.left = {}]
              ELSE Listing!AfterPage(s, hits)
  <2>1. s.op = scan.op /\ s.store = scan.store
    BY <1>1 DEF ScanRecord
  <2> QED  BY <2>1 DEF Listing!List
<1>4. /\ s \in ScanRecord /\ s.scanned = scan.scanned + Cardinality(page)
      /\ s.last = last /\ s.moved = moved /\ s.cursor = (IF moved THEN next ELSE scan.cursor)
      /\ s.op = scan.op /\ s.store = scan.store /\ s.pc = "listing" /\ s.out = "none"
      /\ s.left = scan.left /\ s.old = scan.old /\ s.found = scan.found
      /\ s.deleted = scan.deleted /\ s.alone = scan.alone
  <2>1. s = [scan EXCEPT !.scanned = scan.scanned + Cardinality(page), !.last = last, !.moved = moved,
                         !.cursor = IF moved THEN next ELSE scan.cursor]
    BY <1>1, KVCounts, Zenon DEF ScanRecord
  <2>2. scan.scanned + Cardinality(page) \in Nat /\ (IF moved THEN next ELSE scan.cursor) \in Nat
    BY <1>1, <1>2
  <2> HIDE DEF next, s
  <2> QED  BY <1>1, <2>1, <2>2, Zenon DEF ScanRecord
<1>5. refused => s.scanned > MaxScan \/ (~last /\ s.scanned >= MaxScan)
  BY DEF Listing!Refused
<1>6. scan.op = "purge" /\ scan.store = "worker" /\ ~refused => s.scanned <= MaxScan
  <2>1. s.scanned \in Nat
    BY <1>4, Zenon DEF ScanRecord
  <2> HIDE DEF s
  <2> QED  BY <1>1, <2>1 DEF Listing!Refused
<1>7. hits \subseteq Matching /\ (scan.op = "size" => hits = {}) /\ (scan.op = "purge" => hits = page \cap Matching)
  OBVIOUS
<1>8. scan.op = "purge" => \A n \in scan.old \cap present : n \in P /\ n \in Matching
  BY <1>1, KVConstants DEF KVInv, KVReach, Listing!Prefixed, ScanRecord
\* what is left of the names that were there, after the page
<1>9. ASSUME scan.op = "purge", NEW n \in scan.old \cap present
      PROVE  /\ n \in scan.left \cup hits \/ (~last /\ (moved => n > next))
             /\ n \in scan.left \cup hits \/ n > scan.cursor
  <2>1. n \in P /\ n \in Matching /\ n \in Nat
    BY <1>8, <1>9, <1>1, KVConstants, Zenon
  <2>2. n \in scan.left \/ n > scan.cursor
    BY <1>1, <1>9 DEF KVInv, KVReach
  <2>3. n \in page \/ ~(n \in Listed(next)) \/ n \in Listed(scan.cursor)
    BY <1>2
  <2>4. n \in Listed(scan.cursor) => ~(n > scan.cursor)
    BY <1>1, <2>1 DEF Listed
  <2>5. ~(n \in Listed(next)) => ~last /\ n > next
    BY <1>2, <2>1 DEF Listed
  <2>6. n \in page => n \in hits
    BY <1>9, <2>1
  <2> QED  BY <2>2, <2>3, <2>4, <2>5, <2>6
<1>10. scan.alone /\ (scan.op = "size" \/ scan.store = "worker") =>
         s.scanned = Cardinality(Listed(next)) /\ scan.found = Cardinality(P)
  BY <1>1, <1>2, <1>4 DEF KVInv, KVCount
<1>11. /\ scan.op = "size" => scan.left = {}
       /\ scan.op = "purge" /\ scan.store = "worker" => scan.deleted = {}
  BY <1>1 DEF KVInv, KVOrder
<1>s. ASSUME NEW x PROVE Listed(x)' = IF scan'.op = scan.op THEN Listed(x) ELSE Listed(x)'
  BY <1>1 DEF Listed, Listing!Prefixed
<1> HIDE DEF s, refused, hits, next
<1>12. CASE refused
  <2>1. /\ scan' \in ScanRecord /\ scan'.pc = "done" /\ scan'.out = "range" /\ scan'.left = {}
        /\ scan'.op = scan.op /\ scan'.store = scan.store /\ scan'.deleted = scan.deleted
        /\ scan'.alone = scan.alone /\ scan'.found = scan.found /\ scan'.old = scan.old
    BY <1>3, <1>4, <1>12, Zenon DEF ScanRecord
  <2>2. scan.op = "purge" /\ scan.store = "worker" /\ scan.deleted = {}
    BY <1>11, <1>12 DEF refused
  <2>3. KVTypes'
    BY <1>1, <2>1 DEF KVTypes
  <2>4. KVReach' /\ KVOrder'
    BY <2>1, <2>2 DEF KVReach, KVOrder
  <2>5. KVCount'
    <3> SUFFICES ASSUME scan.alone
                 PROVE  IF trailing THEN scan.found >= MaxScan ELSE scan.found > MaxScan
      BY <2>1, <2>2 DEF KVCount
    <3>1. s.scanned = Cardinality(Listed(next)) /\ scan.found = Cardinality(P)
      BY <1>10, <2>2
    <3> QED  BY <1>1, <1>2, <1>5, <1>12, <3>1
  <2> QED  BY <2>3, <2>4, <2>5 DEF KVInv
<1>13. CASE ~refused
  <2>0. scan' = Listing!AfterPage(s, hits)
    BY <1>3, <1>13
  <2>1. CASE scan.store = "node" \/ last
    <3> DEFINE t == [s EXCEPT !.left = @ \cup hits]
    <3>1. /\ t \in ScanRecord /\ t.scanned = s.scanned /\ t.last = last /\ t.moved = moved
          /\ t.cursor = s.cursor /\ t.op = scan.op /\ t.store = scan.store /\ t.pc = "listing"
          /\ t.out = "none" /\ t.left = scan.left \cup hits /\ t.old = scan.old
          /\ t.found = scan.found /\ t.deleted = scan.deleted /\ t.alone = scan.alone
      BY <1>4, <1>7 DEF ScanRecord
    <3>2. scan' = Listing!Onward(t)
      BY <1>4, <2>0, <2>1 DEF Listing!AfterPage
    <3> HIDE DEF t
    <3>3. /\ scan' \in ScanRecord
          /\ scan'.op = scan.op /\ scan'.store = scan.store /\ scan'.cursor = s.cursor
          /\ scan'.scanned = s.scanned /\ scan'.left = scan.left \cup hits /\ scan'.last = last
          /\ scan'.moved = moved /\ scan'.old = scan.old /\ scan'.found = scan.found
          /\ scan'.deleted = scan.deleted /\ scan'.alone = scan.alone
          /\ \/ scan'.left # {} /\ scan'.pc = "deleting" /\ scan'.out = "none"
             \/ scan'.left = {} /\ last /\ scan'.pc = "done" /\ scan'.out = "ok"
             \/ scan'.left = {} /\ ~last /\ ~moved /\ scan'.pc = "done" /\ scan'.out = "stuck"
             \/ scan'.left = {} /\ ~last /\ moved /\ scan'.pc = "listing" /\ scan'.out = "none"
      BY <3>1, <3>2, OnwardSettles
    <3>4. KVTypes'
      BY <1>1, <3>3 DEF KVTypes
    <3>5. KVReach'
      <4> SUFFICES ASSUME scan.op = "purge", NEW n \in scan.old \cap present
                   PROVE  /\ scan'.pc # "done" => n \in listed
                          /\ scan'.pc = "listing" => n \in scan'.left \/ n > scan'.cursor
                          /\ scan'.pc = "deleting" => n \in scan'.left \/ (~scan'.last /\ (scan'.moved => n > scan'.cursor))
                          /\ scan'.out # "ok"
        BY <1>1, <3>3 DEF KVReach
      <4> QED  BY <1>4, <1>8, <1>9, <3>3
    <3>6. KVOrder'
      BY <1>1, <1>6, <1>7, <1>11, <1>13, <2>1, <3>3 DEF KVOrder
    <3>7. KVCount'
      <4>1. ASSUME scan.alone, scan'.pc = "listing", scan.op = "size" \/ scan.store = "worker"
            PROVE  /\ s.scanned = Cardinality(Listed(scan.cursor)')
                   /\ scan.found = Cardinality(P)
        BY <1>4, <1>10, <1>s, <3>3, <4>1
      <4>2. ASSUME scan.alone, scan.op = "size", scan'.out = "ok" PROVE s.scanned = scan.found
        BY <1>2, <1>10, <3>3, <4>2, Zenon
      <4>3. scan'.out # "range" /\ P = (listed \cap Listing!Prefixed(scan.op))'
        BY <1>1, <3>3 DEF Listing!Prefixed
      <4> HIDE DEF P
      <4> QED  BY <3>3, <4>1, <4>2, <4>3 DEF KVCount
    <3> QED  BY <3>4, <3>5, <3>6, <3>7 DEF KVInv
  <2>2. CASE scan.store = "worker" /\ ~last /\ ~moved
    <3> DEFINE t == [s EXCEPT !.left = {}]
    <3>1. /\ t \in ScanRecord /\ t.last = last /\ t.moved = moved /\ t.op = scan.op
          /\ t.store = scan.store /\ t.left = {} /\ t.old = scan.old /\ t.deleted = scan.deleted
      BY <1>4 DEF ScanRecord
    <3>2. scan' = Listing!Onward(t)
      BY <1>4, <2>0, <2>2 DEF Listing!AfterPage
    <3> HIDE DEF t
    <3>3. /\ scan' \in ScanRecord /\ scan'.pc = "done" /\ scan'.out = "stuck" /\ scan'.left = {}
          /\ scan'.op = scan.op /\ scan'.store = scan.store
      BY <2>2, <3>1, <3>2, OnwardSettles
    <3>4. KVTypes'
      BY <1>1, <3>3 DEF KVTypes
    <3>5. KVReach' /\ KVOrder' /\ KVCount'
      BY <3>3 DEF KVInv, KVReach, KVOrder, KVCount
    <3> QED  BY <3>4, <3>5 DEF KVInv
  <2>3. CASE scan.store = "worker" /\ ~last /\ moved
    <3>1. scan' = [s EXCEPT !.left = @ \cup hits]
      BY <1>4, <2>0, <2>3 DEF Listing!AfterPage
    <3>2. /\ scan' \in ScanRecord /\ scan'.scanned = s.scanned /\ scan'.last = last
          /\ scan'.cursor = next /\ scan'.op = scan.op /\ scan'.store = scan.store
          /\ scan'.pc = "listing" /\ scan'.out = "none" /\ scan'.left = scan.left \cup hits
          /\ scan'.old = scan.old /\ scan'.found = scan.found /\ scan'.deleted = scan.deleted
          /\ scan'.alone = scan.alone
      BY <1>4, <1>7, <2>3, <3>1 DEF ScanRecord
    <3>3. KVTypes'
      BY <1>1, <3>2 DEF KVTypes
    <3>4. KVReach'
      BY <1>1, <1>8, <1>9, <2>3, <3>2 DEF KVReach
    <3>5. KVOrder'
      BY <1>1, <1>7, <1>11, <2>3, <3>2 DEF KVOrder
    <3>6. KVCount'
      <4>1. P = (listed \cap Listing!Prefixed(scan.op))'
        BY <1>1, <3>2 DEF Listing!Prefixed
      <4>2. Listed(scan.cursor)' = Listed(next)
        BY <1>s, <3>2
      <4> HIDE DEF P
      <4> QED  BY <1>10, <3>2, <4>1, <4>2 DEF KVCount
    <3> QED  BY <3>3, <3>4, <3>5, <3>6 DEF KVInv
  <2> QED  BY <1>1, <2>1, <2>2, <2>3
<1> QED
  BY <1>12, <1>13

LEMMA KVUnchanged == ASSUME KVInv, UNCHANGED kvVars PROVE KVInv'
BY DEF kvVars, KVInv, KVTypes, KVReach, KVOrder, KVCount, Listed, Listing!Prefixed

LEMMA KVStep == ASSUME KVInv, [Next]_vars PROVE KVInv'
<1>1. Listing!Next \/ UNCHANGED kvVars
  BY DEF Next, vars
<1>2. CASE Listing!Next
  BY <1>2, KVBegin, KVDeleteLiteral, KVList, KVDeleteOne, KVCallFails, KVOthers,
     KVPropagates
     DEF Listing!Next, Listing!Progress
<1> QED
  BY <1>1, <1>2, KVUnchanged

LEMMA KVSafe == ASSUME KVInv PROVE PurgeExact
<1> USE DEF KVInv
<1>1. PurgeReaches
  BY DEF KVReach, PurgeReaches, Listing!PurgeReaches
<1>2. RefusedWhole
  BY DEF KVOrder, RefusedWhole, Listing!RefusedWhole
<1>3. RefusedRightly
  BY DEF KVCount, RefusedRightly, Listing!RefusedRightly
<1>4. ScanBounded
  BY DEF KVOrder, ScanBounded, Listing!ScanBounded
<1>5. SizeExact
  BY DEF KVCount, SizeExact, Listing!SizeExact
<1> QED
  BY <1>1, <1>2, <1>3, <1>4, <1>5 DEF PurgeExact

(***************************************************************************)
(* A purge of a KV namespace that succeeds has deleted every matching name   *)
(* that was listed when it began and nobody wrote again; one that the Worker *)
(* refuses has deleted nothing and was refused rightly; size() counts what   *)
(* is listed.  Pages of any size, empty ones and cursors that do not advance *)
(* included, other clients' writes between any two calls, and listings that  *)
(* lag behind the namespace for any names and as long as they like: a name   *)
(* not listed yet survives a purge.                                          *)
(***************************************************************************)
THEOREM PurgeIsExact == Spec => []PurgeExact
<1>1. Init => KVInv
  BY KVInitially DEF Init
<1>2. KVInv /\ [Next]_vars => KVInv'
  BY KVStep
<1>3. KVInv => PurgeExact
  BY KVSafe
<1> QED
  BY <1>1, <1>2, <1>3, PTL DEF Spec

-----------------------------------------------------------------------------
-----------------------------------------------------------------------------
(* Capability discovery *)

Reasons ==
  {"not-queried", "acl-denied", "unknown-command", "transport", "command-error", "timeout",
   "client-method-unavailable", "response-too-large", "advertised", "malformed-response",
   "unsupported-version"}
Verdict == [status : {"supported", "unavailable", "unknown"}, reason : Reasons]
Healths == {"none", "ok", "acl", "unknown-command", "transport", "command", "unsupported-version",
            "malformed-info"}

Manifest ==
  [phase : {"none", "info", "command", "done"}, info : Verdict, commandInfo : Verdict,
   capabilities : [Commands -> Verdict], since : Nat, turn : Nat, answered : SUBSET Servers, health : Healths]

CapTypes ==
  /\ names \in Seq(Commands) /\ Len(names) <= MaxNames
  /\ minMajor \in Nat /\ server \in Servers /\ connection \in 0..MaxReconnects
  /\ manifest \in [Capabilities!Discoveries -> Manifest]
  /\ started \in 0..MaxDiscoveries /\ slot \in 0..started /\ detached \in BOOLEAN
  /\ dropped \in 0..(MaxInvalidations + 1) /\ (~detached => dropped <= MaxInvalidations)

\* Until it ends a discovery has no verdict, and it has not met a server too old, unless the option
\* sets the minimum below the health check's.
Undecided(m, min) ==
  /\ min >= Capabilities!MINIMUM_REDIS_MAJOR_VERSION => m.health # "unsupported-version"
  /\ \A c \in Commands : m.capabilities[c].status = "unknown"

\* What is said of a command is true of a server that answered.
Real(m, min) ==
  \A c \in Commands :
    /\ m.capabilities[c].status = "supported" => \E s \in m.answered : c \in s.has
    /\ m.capabilities[c].status = "unavailable" =>
         \E s \in m.answered : c \notin s.has \/ s.major < min
    /\ min >= Capabilities!MINIMUM_REDIS_MAJOR_VERSION /\ m.health = "unsupported-version" =>
         m.capabilities[c].status # "supported"

Sound(m, min) == IF m.phase = "done" THEN Real(m, min) ELSE Undecided(m, min)

CapVerdicts == \A d \in Capabilities!Discoveries : Sound(manifest[d], minMajor)

\* The shared discovery is the one of the current turn, and while the listener is attached of
\* the current connection; the others are of an earlier turn or connection, each of its own.
CapShared ==
  /\ slot # 0 => manifest[slot].turn = dropped
  /\ Capabilities!Attached /\ slot # 0 => manifest[slot].since = connection
  /\ \A d \in 1..started : manifest[d].since <= connection /\ manifest[d].turn <= dropped
  /\ \A d \in 1..started :
       d # slot => manifest[d].since < connection \/ manifest[d].turn < dropped
  /\ \A d, e \in 1..started :
       manifest[d].since = manifest[e].since /\ manifest[d].turn = manifest[e].turn => d = e

CapInv == CapTypes /\ CapVerdicts /\ CapShared

LEMMA CapConstants ==
  /\ Commands \subseteq STRING /\ "null" \notin Commands
  /\ \A c \in Clients : c.minMajor \in Nat /\ c.commandNames \in Seq(STRING)
  /\ Servers \subseteq [major : Nat, has : SUBSET STRING]
  /\ MaxDiscoveries \in Nat /\ Capabilities!Discoveries = 1..MaxDiscoveries
  /\ MaxNames \in Nat /\ MaxReconnects \in Nat /\ MaxInvalidations \in Nat
BY LocalAssumption DEF Capabilities!CapabilitiesAssumption, Capabilities!Discoveries

\* The names asked about are commands of the list, and no more than the limit.
Askable(q) == q \in Seq(Commands) /\ Len(q) <= MaxNames

LEMMA NamesAreCommands ==
  ASSUME NEW requested \in Seq(STRING)
  PROVE  Askable(Capabilities!normalizeCommandNames(requested))
<1> DEFINE L == Len(requested)
           Step(acc, n) ==
             IF /\ requested[n] \in Commands /\ ~Capabilities!Contains(acc, requested[n])
                /\ Len(acc) < MaxNames
             THEN Append(acc, requested[n]) ELSE acc
           IsUpTo(f, m) == f = [n \in 0..m |-> IF n = 0 THEN <<>> ELSE Step(f[n - 1], n)]
           Unbuilt == {m \in 0..L : ~\E f : IsUpTo(f, m)}
<1>0. L \in Nat
  OBVIOUS
<1>1. Unbuilt = {}
  <2> SUFFICES ASSUME Unbuilt # {} PROVE FALSE
    OBVIOUS
  <2>1. Unbuilt \subseteq Nat
    BY <1>0
  <2>2. PICK m \in Unbuilt : \A k \in Unbuilt : m <= k
    <3> HIDE DEF Unbuilt
    <3> QED  BY <2>1, LeastMember, Zenon
  <2>3. m \in 0..L /\ ~\E f : IsUpTo(f, m)
    OBVIOUS
  <2>4. CASE m = 0
    <3>1. IsUpTo([n \in 0..0 |-> <<>>], 0)
      BY DEF IsUpTo
    <3> QED  BY <2>3, <2>4, <3>1, Zenon
  <2>5. CASE m # 0
    <3>1. m - 1 \in 0..L /\ ~(m <= m - 1)
      BY <1>0, <2>3, <2>5
    <3>2. m - 1 \notin Unbuilt
      <4> HIDE DEF Unbuilt
      <4> QED  BY <2>2, <3>1
    <3>3. PICK f : IsUpTo(f, m - 1)
      BY <3>1, <3>2, Zenon
    <3> DEFINE g == [n \in 0..m |-> IF n = m THEN Step(f[m - 1], m) ELSE f[n]]
    <3> HIDE DEF Step
    <3>4. ASSUME NEW n \in 0..m PROVE g[n] = IF n = 0 THEN <<>> ELSE Step(g[n - 1], n)
      <4>1. CASE n = m
        <5>1. g[m - 1] = f[m - 1]
          BY <2>3, <2>5
        <5> QED  BY <2>3, <2>5, <4>1, <5>1
      <4>2. CASE n # m
        <5>1. n \in 0..(m - 1) /\ g[n] = f[n]
          BY <2>3, <2>5, <4>2
        <5>2. f[n] = IF n = 0 THEN <<>> ELSE Step(f[n - 1], n)
          BY <3>3, <5>1
        <5>3. n # 0 => g[n - 1] = f[n - 1]
          BY <2>3, <2>5, <4>2
        <5> QED  BY <5>1, <5>2, <5>3
      <4> QED  BY <4>1, <4>2
    <3>5. IsUpTo(g, m)
      BY <3>4
    <3> QED  BY <2>3, <3>5, Zenon
  <2> QED  BY <2>4, <2>5
<1>2. PICK h : h = Capabilities!normalizeCommandNames(requested) /\ \E f : IsUpTo(f, L) /\ h = f[L]
  <2>1. \E f : IsUpTo(f, L)
    <3>1. L \in 0..L
      BY <1>0
    <3>2. Unbuilt = {} => \A m \in 0..L : \E f : IsUpTo(f, m)
      <4> HIDE DEF IsUpTo, L
      <4> QED  OBVIOUS
    <3> HIDE DEF IsUpTo, L, Unbuilt
    <3> QED  BY <1>1, <3>1, <3>2
  <2> DEFINE u == CHOOSE f : IsUpTo(f, L)
  <2>2. IsUpTo(u, L)
    <3> HIDE DEF IsUpTo, L
    <3> QED  BY <2>1, Zenon
  <2>3. Capabilities!normalizeCommandNames(requested) = u[L]
    BY DEF Capabilities!normalizeCommandNames
  <2> HIDE DEF IsUpTo, L, u
  <2> QED  BY <2>2, <2>3, Zenon
<1>3. PICK f : IsUpTo(f, L) /\ h = f[L]
  BY <1>2, Zenon
<1> DEFINE Foreign == {m \in 0..L : ~Askable(f[m])}
<1>4. Foreign = {}
  <2> SUFFICES ASSUME Foreign # {} PROVE FALSE
    OBVIOUS
  <2>1. Foreign \subseteq Nat
    BY <1>0
  <2>2. PICK m \in Foreign : \A k \in Foreign : m <= k
    <3> HIDE DEF Foreign
    <3> QED  BY <2>1, LeastMember, Zenon
  <2>3. m \in 0..L /\ ~Askable(f[m])
    OBVIOUS
  <2>4. f[m] = IF m = 0 THEN <<>> ELSE Step(f[m - 1], m)
    BY <1>3, <2>3, Zenon
  <2>5. m # 0
    <3>1. Askable(<<>>)
      BY CapConstants DEF Askable
    <3> QED  BY <2>3, <2>4, <3>1
  <2>6. m - 1 \in 0..L /\ ~(m <= m - 1)
    BY <1>0, <2>3, <2>5
  <2>7. Askable(f[m - 1])
    <3>1. m - 1 \notin Foreign
      <4> HIDE DEF Foreign
      <4> QED  BY <2>2, <2>6
    <3> QED  BY <2>6, <3>1
  <2>8. Askable(Step(f[m - 1], m))
    <3> DEFINE acc == f[m - 1]
    <3>1. CASE Step(acc, m) = acc
      BY <2>7, <3>1
    <3>2. CASE Step(acc, m) = Append(acc, requested[m]) /\ requested[m] \in Commands /\ Len(acc) < MaxNames
      <4>1. acc \in Seq(Commands) /\ Len(acc) \in Nat
        BY <2>7 DEF Askable
      <4> HIDE DEF acc, Step
      <4>2. Append(acc, requested[m]) \in Seq(Commands) /\ Len(Append(acc, requested[m])) = Len(acc) + 1
        BY <3>2, <4>1
      <4>3. Len(acc) + 1 <= MaxNames
        BY <3>2, <4>1, CapConstants
      <4> QED  BY <3>2, <4>2, <4>3 DEF Askable, acc
    <3>3. \/ Step(acc, m) = acc
          \/ Step(acc, m) = Append(acc, requested[m]) /\ requested[m] \in Commands /\ Len(acc) < MaxNames
      BY DEF Step
    <3> HIDE DEF acc, Step
    <3> QED  BY <3>1, <3>2, <3>3 DEF acc
  <2> QED  BY <2>3, <2>4, <2>5, <2>8
<1>5. Askable(f[L])
  BY <1>0, <1>4
<1> HIDE DEF IsUpTo, L
<1> QED
  BY <1>2, <1>3, <1>5, Zenon

\* However a request fails, the question stays open or the command is refused.
LEMMA FailureVerdict ==
  /\ \A error : Capabilities!failureState(error) \in Verdict
  /\ \A error : Capabilities!classifyRedisError(error) \in {"acl", "unknown-command", "transport", "command"}
<1>1. ASSUME NEW error
      PROVE  Capabilities!classifyRedisError(error) \in {"acl", "unknown-command", "transport", "command"}
  BY DEF Capabilities!classifyRedisError
<1>2. ASSUME NEW error PROVE Capabilities!failureState(error) \in Verdict
  BY DEF Capabilities!failureState, Capabilities!stateForIssue, Capabilities!State, Verdict, Reasons
<1> QED
  BY <1>1, <1>2

\* An INFO answer ends the discovery only when it shows a server too old.
LEMMA InfoApplied ==
  ASSUME NEW m \in Manifest, Undecided(m, minMajor), NEW answer, minMajor \in Nat,
         answer.kind = "text" => answer.major \in Nat
  PROVE  LET t == Capabilities!applyInfo(m, answer) IN
         /\ t \in Manifest /\ t.since = m.since /\ t.turn = m.turn /\ t.answered = m.answered
         /\ \/ t.phase = "command" /\ Undecided(t, minMajor)
            \/ /\ t.phase = "done" /\ answer.kind = "text" /\ answer.major < minMajor
               /\ \A c \in Commands : t.capabilities[c].status = "unavailable"
<1> DEFINE health == Capabilities!getRedisCoreHealth(answer)
           info == Capabilities!infoState(answer)
           base == [m EXCEPT !.info = info, !.phase = "command", !.health = health]
           old == answer.kind = "text" /\ answer.major < minMajor
           ended == [base EXCEPT !.phase = "done",
                          !.commandInfo = Capabilities!State("unavailable", "unsupported-version"),
                          !.capabilities = Capabilities!All("unavailable", "unsupported-version")]
           t == Capabilities!applyInfo(m, answer)
<1>1. info \in Verdict
  BY FailureVerdict DEF Capabilities!infoState, Capabilities!State, Verdict, Reasons
<1>2. /\ health \in Healths
      /\ health = "unsupported-version" /\ minMajor >= Capabilities!MINIMUM_REDIS_MAJOR_VERSION => old
  <2>1. Capabilities!classifyRedisError(answer.error) \in {"acl", "unknown-command", "transport", "command"}
    BY FailureVerdict
  <2>2. Capabilities!MINIMUM_REDIS_MAJOR_VERSION = 6
    BY DEF Capabilities!MINIMUM_REDIS_MAJOR_VERSION
  <2>3. CASE answer.kind = "error"
    BY <2>1, <2>3 DEF Capabilities!getRedisCoreHealth, Healths
  <2>4. CASE answer.kind = "text"
    BY <2>2, <2>4 DEF Capabilities!getRedisCoreHealth, Healths
  <2>5. CASE answer.kind \notin {"text", "error"}
    BY <2>5 DEF Capabilities!getRedisCoreHealth, Healths
  <2> QED  BY <2>3, <2>4, <2>5
<1>3. t = IF old THEN ended ELSE base
  BY DEF Capabilities!applyInfo
<1> HIDE DEF health, info, t
<1>4. /\ base \in Manifest /\ base.since = m.since /\ base.turn = m.turn /\ base.answered = m.answered
      /\ base.phase = "command" /\ base.health = health /\ base.capabilities = m.capabilities
  BY <1>1, <1>2, Zenon DEF Manifest
<1>5. /\ Capabilities!State("unavailable", "unsupported-version") \in Verdict
      /\ Capabilities!All("unavailable", "unsupported-version") \in [Commands -> Verdict]
      /\ \A c \in Commands :
           Capabilities!All("unavailable", "unsupported-version")[c].status = "unavailable"
  BY DEF Capabilities!State, Capabilities!All, Verdict, Reasons
<1> HIDE DEF base
<1>6. /\ ended \in Manifest /\ ended.since = base.since /\ ended.turn = base.turn /\ ended.answered = base.answered
      /\ ended.phase = "done"
      /\ ended.capabilities = Capabilities!All("unavailable", "unsupported-version")
  BY <1>4, <1>5, Zenon DEF Manifest
<1> HIDE DEF ended
<1>7. CASE old
  BY <1>3, <1>4, <1>5, <1>6, <1>7 DEF t
<1>8. CASE ~old
  <2>1. /\ t = base
        /\ minMajor >= Capabilities!MINIMUM_REDIS_MAJOR_VERSION => health # "unsupported-version"
    BY <1>2, <1>3, <1>8
  <2>2. Undecided(t, minMajor)
    BY <1>4, <2>1 DEF Undecided
  <2> QED  BY <1>4, <2>1, <2>2 DEF t
<1> QED
  BY <1>7, <1>8

\* What cannot be asked, or is not answered, stays unknown.
LEMMA MarkedUnknown ==
  ASSUME NEW m \in Manifest, Undecided(m, minMajor), NEW st \in Verdict
  PROVE  LET t == Capabilities!markUnknown(m, st) IN
         /\ t \in Manifest /\ t.since = m.since /\ t.turn = m.turn /\ t.answered = m.answered
         /\ t.phase = "done" /\ Undecided(t, minMajor)
<1>1. /\ Capabilities!All("unknown", st.reason) \in [Commands -> Verdict]
      /\ \A c \in Commands : Capabilities!All("unknown", st.reason)[c].status = "unknown"
  BY DEF Capabilities!State, Capabilities!All, Verdict, Reasons
<1> DEFINE all == Capabilities!All("unknown", st.reason)
           t == Capabilities!markUnknown(m, st)
<1>2. t = [m EXCEPT !.phase = "done", !.commandInfo = st, !.capabilities = all]
  BY DEF Capabilities!markUnknown
<1> HIDE DEF all, t
<1>3. /\ t \in Manifest /\ t.since = m.since /\ t.turn = m.turn /\ t.answered = m.answered /\ t.phase = "done"
      /\ t.health = m.health /\ t.capabilities = all
  BY <1>1, <1>2, Zenon DEF Manifest, all
<1>4. Undecided(t, minMajor)
  BY <1>1, <1>3 DEF Undecided, all
<1> QED
  BY <1>3, <1>4 DEF t

\* A manifest without a verdict is real.
LEMMA UndecidedIsReal == ASSUME NEW m, Undecided(m, minMajor) PROVE Real(m, minMajor)
BY DEF Undecided, Real

\* A reply that is accepted says of every name whether the server has it.
LEMMA ReplyIsTrue ==
  ASSUME NEW srv \in Servers, NEW asked \in Seq(Commands), asked # <<>>,
         NEW reply \in Capabilities!CommandReplies(srv, asked),
         Capabilities!parseCommandInfoReply(reply, asked).valid
  PROVE  LET yes == Capabilities!parseCommandInfoReply(reply, asked).supported IN
         \A i \in 1..Len(asked) : asked[i] \in yes <=> asked[i] \in srv.has
<1> DEFINE N == Len(asked)
           honest == [i \in 1..N |-> IF asked[i] \in srv.has THEN Capabilities!Entry(asked[i])
                                     ELSE Capabilities!Null]
           Fits(e, i) == e = Capabilities!Null \/ Capabilities!isCommandInfoEntry(e, asked[i])
           yes == Capabilities!parseCommandInfoReply(reply, asked).supported
<1>1. N \in Nat /\ N >= 1 /\ \A i \in 1..N : asked[i] \in Commands /\ asked[i] # "null"
  BY CapConstants
<1>2. ASSUME NEW i \in 1..N
      PROVE  /\ honest[i] # Capabilities!Null <=> asked[i] \in srv.has
             /\ honest[i] \in [name : Commands \cup {"null"}, typed : {TRUE}]
             /\ honest[i] # Capabilities!Null => honest[i].name = asked[i]
  BY <1>1 DEF Capabilities!Entry, Capabilities!Null
<1>3. honest \in Seq([name : Commands \cup {"null"}, typed : {TRUE}]) /\ Len(honest) = N
  <2>1. honest = [i \in 1..N |-> honest[i]]
    OBVIOUS
  <2> HIDE DEF honest, N
  <2>2. honest \in [1..N -> [name : Commands \cup {"null"}, typed : {TRUE}]]
    BY <1>2, <2>1, Zenon
  <2> QED  BY <1>1, <2>2, FunctionIsSeq, Zenon
<1>4. PICK entries : /\ reply.shape # "scalar" /\ Len(entries) = N
                     /\ \A i \in 1..N : Fits(entries[i], i)
                     /\ yes = {asked[i] : i \in {j \in 1..N : entries[j] # Capabilities!Null}}
                     /\ entries \in {reply.entries, <<>>}
  BY DEF Capabilities!parseCommandInfoReply
<1>5. entries = reply.entries
  BY <1>1, <1>4
<1>6. \/ reply.entries = honest \/ reply.entries = Capabilities!Backwards(honest)
      \/ reply.entries = Tail(honest) \/ reply.shape = "scalar"
      \/ reply.entries = [i \in DOMAIN honest |-> [honest[i] EXCEPT !.typed = FALSE]]
  <2> DEFINE Reply(shape, entries_, big) == [shape |-> shape, entries |-> entries_, big |-> big]
             ill == [i \in DOMAIN honest |-> [honest[i] EXCEPT !.typed = FALSE]]
  <2>1. reply \in {Reply(s, honest, FALSE) : s \in {"array", "record"}}
        \/ reply \in {Reply("entry", e, FALSE) :
                      e \in {honest} \cap [{1} -> {Capabilities!Entry(c) : c \in Commands}]}
        \/ reply \in {Reply("array", Capabilities!Backwards(honest), FALSE),
                      Reply("array", Tail(honest), FALSE), Reply("array", ill, FALSE),
                      Reply("scalar", <<>>, FALSE), Reply("array", honest, TRUE)}
    BY DEF Capabilities!CommandReplies
  <2> HIDE DEF honest, ill
  <2>2. \/ reply.entries = honest \/ reply.entries = Capabilities!Backwards(honest)
        \/ reply.entries = Tail(honest) \/ reply.shape = "scalar" \/ reply.entries = ill
    BY <2>1
  <2> QED  BY <2>2 DEF ill
<1> HIDE DEF honest, N, yes
<1>7. CASE reply.entries = honest
  BY <1>2, <1>4, <1>5, <1>7, ZenonT(60) DEF N, yes
<1>8. CASE reply.entries = Capabilities!Backwards(honest)
  <2>1. ASSUME NEW i \in 1..N PROVE (N - i) + 1 \in 1..N /\ entries[i] = honest[(N - i) + 1]
    BY <1>1, <1>3, <1>5, <1>8 DEF Capabilities!Backwards
  <2>2. ASSUME NEW i \in 1..N, entries[i] # Capabilities!Null
        PROVE  asked[i] = asked[(N - i) + 1] /\ asked[i] \in srv.has
    <3>1. (N - i) + 1 \in 1..N /\ entries[i] = honest[(N - i) + 1]
      BY <2>1
    <3>2. entries[i].name = asked[i]
      BY <1>4, <2>2 DEF Capabilities!isCommandInfoEntry
    <3>3. honest[(N - i) + 1] # Capabilities!Null
      BY <2>2, <3>1, Zenon
    <3>4. honest[(N - i) + 1].name = asked[(N - i) + 1] /\ asked[(N - i) + 1] \in srv.has
      BY <1>2, <3>1, <3>3, Zenon
    <3> QED  BY <3>1, <3>2, <3>4, Zenon
  <2>3. ASSUME NEW i \in 1..N, asked[i] \in srv.has PROVE asked[i] \in yes
    <3>1. (N - i) + 1 \in 1..N /\ (N - ((N - i) + 1)) + 1 = i
      BY <1>1
    <3>2. entries[(N - i) + 1] = honest[i]
      BY <2>1, <3>1
    <3>3. entries[(N - i) + 1] # Capabilities!Null
      BY <1>2, <2>3, <3>2, Zenon
    <3>4. asked[(N - i) + 1] = asked[i]
      BY <2>2, <3>1, <3>3
    <3> QED  BY <1>4, <3>1, <3>3, <3>4, Zenon
  <2>4. ASSUME NEW i \in 1..N, asked[i] \in yes PROVE asked[i] \in srv.has
    BY <1>4, <2>2, <2>4
  <2> QED  BY <2>3, <2>4 DEF N, yes
<1>9. CASE reply.entries = Tail(honest)
  <2>1. honest # <<>> /\ Len(Tail(honest)) = N - 1
    BY <1>1, <1>3
  <2> QED  BY <1>1, <1>4, <1>5, <1>9, <2>1
<1>10. CASE reply.entries = [i \in DOMAIN honest |-> [honest[i] EXCEPT !.typed = FALSE]]
  <2>1. DOMAIN honest = 1..N /\ 1 \in 1..N
    BY <1>1 DEF honest
  <2>2. entries[1] = [honest[1] EXCEPT !.typed = FALSE]
    BY <1>5, <1>10, <2>1
  <2>3. entries[1].typed = FALSE
    BY <1>2, <2>1, <2>2
  <2>4. entries[1] # Capabilities!Null /\ ~Capabilities!isCommandInfoEntry(entries[1], asked[1])
    BY <2>3 DEF Capabilities!Null, Capabilities!isCommandInfoEntry
  <2> QED  BY <1>4, <2>1, <2>4
<1> QED
  BY <1>4, <1>6, <1>7, <1>8, <1>9, <1>10

\* What COMMAND INFO is answered with becomes real verdicts, or none.
LEMMA CommandsApplied ==
  ASSUME NEW m \in Manifest, Undecided(m, minMajor), NEW srv \in Servers,
         NEW asked \in Seq(Commands), asked # <<>>,
         NEW reply \in Capabilities!CommandReplies(srv, asked)
  PROVE  LET t == Capabilities!applyCommands(m, reply, asked) IN
         /\ t \in Manifest /\ t.since = m.since /\ t.turn = m.turn /\ t.answered = m.answered
         /\ t.phase = "done" /\ t.health = m.health
         /\ \A c \in Commands :
              /\ t.capabilities[c].status = "supported" => c \in srv.has
              /\ t.capabilities[c].status = "unavailable" => c \notin srv.has
<1> DEFINE parsed == Capabilities!parseCommandInfoReply(reply, asked)
           t == Capabilities!applyCommands(m, reply, asked)
           said == [c \in Commands |->
                      IF ~Capabilities!Contains(asked, c) THEN m.capabilities[c]
                      ELSE IF c \in parsed.supported THEN Capabilities!State("supported", "advertised")
                      ELSE Capabilities!State("unavailable", "unknown-command")]
<1>1. ASSUME NEW reason \in {"response-too-large", "malformed-response"},
             t = Capabilities!markUnknown(m, Capabilities!State("unavailable", reason))
      PROVE  /\ t \in Manifest /\ t.since = m.since /\ t.turn = m.turn /\ t.answered = m.answered
             /\ t.phase = "done" /\ t.health = m.health
             /\ \A c \in Commands :
                  /\ t.capabilities[c].status = "supported" => c \in srv.has
                  /\ t.capabilities[c].status = "unavailable" => c \notin srv.has
  <2> DEFINE st == Capabilities!State("unavailable", reason)
  <2>1. st \in Verdict
    BY DEF Capabilities!State, Verdict, Reasons
  <2>2. t.health = m.health
    BY <1>1 DEF Capabilities!markUnknown, Manifest
  <2> HIDE DEF st, t
  <2>3. t \in Manifest /\ t.since = m.since /\ t.turn = m.turn /\ t.answered = m.answered /\ t.phase = "done" /\ Undecided(t, minMajor)
    BY <1>1, <2>1, MarkedUnknown DEF st
  <2> QED  BY <2>2, <2>3 DEF Undecided
<1>2. CASE reply.big
  BY <1>1, <1>2 DEF Capabilities!applyCommands
<1>3. CASE ~reply.big /\ ~parsed.valid
  BY <1>1, <1>3 DEF Capabilities!applyCommands
<1>4. CASE ~reply.big /\ parsed.valid
  <2>1. t = [m EXCEPT !.phase = "done", !.commandInfo = Capabilities!State("supported", "advertised"),
                      !.capabilities = said]
    BY <1>4 DEF Capabilities!applyCommands
  <2>2. \A i \in 1..Len(asked) : asked[i] \in parsed.supported <=> asked[i] \in srv.has
    BY <1>4, ReplyIsTrue
  <2> HIDE DEF parsed, t
  <2>3. m.capabilities \in [Commands -> Verdict]
    BY DEF Manifest
  <2>4. said \in [Commands -> Verdict] /\ Capabilities!State("supported", "advertised") \in Verdict
    BY <2>3 DEF Capabilities!State, Verdict, Reasons
  <2>5. ASSUME NEW c \in Commands
        PROVE  /\ said[c].status = "supported" => c \in srv.has
               /\ said[c].status = "unavailable" => c \notin srv.has
    <3>1. CASE ~Capabilities!Contains(asked, c)
      BY <3>1 DEF Undecided
    <3>2. CASE Capabilities!Contains(asked, c)
      <4>1. c \in parsed.supported <=> c \in srv.has
        BY <2>2, <3>2 DEF Capabilities!Contains
      <4> QED  BY <3>2, <4>1 DEF Capabilities!State
    <3> QED  BY <3>1, <3>2
  <2> HIDE DEF said
  <2>6. /\ t \in Manifest /\ t.since = m.since /\ t.turn = m.turn /\ t.answered = m.answered
        /\ t.phase = "done" /\ t.health = m.health /\ t.capabilities = said
    BY <2>1, <2>4, Zenon DEF Manifest
  <2> QED  BY <2>5, <2>6 DEF t
<1> QED
  BY <1>2, <1>3, <1>4

LEMMA NothingYet ==
  /\ Capabilities!Nothing \in Manifest /\ Undecided(Capabilities!Nothing, minMajor)
  /\ Capabilities!Nothing.phase = "none"
<1>1. /\ Capabilities!State("unknown", "not-queried") \in Verdict
      /\ Capabilities!All("unknown", "not-queried") \in [Commands -> Verdict]
      /\ \A c \in Commands : Capabilities!All("unknown", "not-queried")[c].status = "unknown"
  BY DEF Capabilities!State, Capabilities!All, Verdict, Reasons
<1> QED
  BY <1>1 DEF Capabilities!Nothing, Manifest, Undecided, Healths

LEMMA CapInitially == ASSUME Capabilities!Init PROVE CapInv
<1> USE DEF Capabilities!Init, Capabilities!Given
<1>1. names \in Seq(Commands) /\ Len(names) <= MaxNames
  BY CapConstants, NamesAreCommands DEF Askable
<1>2. CapTypes
  <2>1. manifest \in [Capabilities!Discoveries -> Manifest] /\ MaxDiscoveries \in Nat
    BY CapConstants, NothingYet
  <2>2. /\ server \in Servers /\ connection = 0 /\ started = 0 /\ slot = 0 /\ dropped = 0
        /\ detached = FALSE /\ minMajor \in Nat
    BY CapConstants
  <2>3. /\ connection \in 0..MaxReconnects /\ started \in 0..MaxDiscoveries /\ slot \in 0..started
        /\ dropped \in 0..(MaxInvalidations + 1)
    BY <2>1, <2>2, CapConstants
  <2>4. detached \in BOOLEAN
    BY <2>2, Zenon
  <2>5. dropped <= MaxInvalidations
    BY <2>2, CapConstants
  <2> QED  BY <1>1, <2>1, <2>2, <2>3, <2>4, <2>5, Zenon DEF CapTypes
<1>3. CapVerdicts /\ CapShared
  BY NothingYet DEF CapVerdicts, Sound, CapShared
<1> QED
  BY <1>2, <1>3 DEF CapInv

\* A discovery that learns something keeps the connection it began with.
LEMMA CapLearns ==
  ASSUME CapInv, NEW d \in Capabilities!Discoveries, NEW m \in Manifest,
         manifest' = [manifest EXCEPT ![d] = m], m.since = manifest[d].since, m.turn = manifest[d].turn,
         Sound(m, minMajor),
         UNCHANGED <<methods, minMajor, names, server, connection, started, slot, dropped, detached>>
  PROVE  CapInv'
<1>1. manifest \in [Capabilities!Discoveries -> Manifest] /\ Capabilities!Discoveries = 1..MaxDiscoveries
  BY CapConstants DEF CapInv, CapTypes
<1>2. manifest' \in [Capabilities!Discoveries -> Manifest]
      /\ \A e \in Capabilities!Discoveries : manifest'[e] = IF e = d THEN m ELSE manifest[e]
  BY <1>1
<1>3. \A e \in Capabilities!Discoveries : manifest'[e].since = manifest[e].since /\ manifest'[e].turn = manifest[e].turn
  BY <1>2
<1>4. CapTypes'
  BY <1>2 DEF CapInv, CapTypes, Capabilities!Discoveries
<1>5. CapVerdicts'
  BY <1>2 DEF CapInv, CapVerdicts, Capabilities!Discoveries
<1>6. CapShared'
  <2>1. 1..started \subseteq Capabilities!Discoveries /\ slot \in 0..started
    BY <1>1, CapConstants DEF CapInv, CapTypes
  <2>2. slot # 0 => slot \in Capabilities!Discoveries
    BY <2>1, <1>1, CapConstants
  <2> QED  BY <1>3, <2>1, <2>2 DEF CapInv, CapShared, Capabilities!Attached
<1> QED
  BY <1>4, <1>5, <1>6 DEF CapInv

LEMMA CapSettle ==
  ASSUME CapInv, NEW d \in Capabilities!Discoveries, NEW answer, Capabilities!Settle(d, answer),
         answer.kind = "text" => answer.major = server.major
  PROVE  CapInv'
<1> DEFINE t == Capabilities!applyInfo(manifest[d], answer)
           m == [t EXCEPT !.answered = IF answer.kind = "text" THEN t.answered \cup {server} ELSE t.answered]
<1>1. manifest[d] \in Manifest /\ minMajor \in Nat /\ server \in Servers /\ Undecided(manifest[d], minMajor)
  <2>1. manifest[d].phase = "info"
    BY DEF Capabilities!Settle
  <2> QED  BY <2>1 DEF CapInv, CapTypes, CapVerdicts, Sound
<1>2. server.major \in Nat
  BY <1>1, CapConstants
<1>3. /\ t \in Manifest /\ t.since = manifest[d].since /\ t.turn = manifest[d].turn /\ t.answered = manifest[d].answered
      /\ \/ t.phase = "command" /\ Undecided(t, minMajor)
         \/ /\ t.phase = "done" /\ answer.kind = "text" /\ answer.major < minMajor
            /\ \A c \in Commands : t.capabilities[c].status = "unavailable"
  BY <1>1, <1>2, InfoApplied
<1>4. manifest' = [manifest EXCEPT ![d] = m]
  BY DEF Capabilities!Settle
<1> HIDE DEF t
<1>5. /\ m \in Manifest /\ m.since = t.since /\ m.turn = t.turn /\ m.answered = (IF answer.kind = "text" THEN t.answered \cup {server} ELSE t.answered)
      /\ m.phase = t.phase /\ m.capabilities = t.capabilities /\ m.health = t.health
  BY <1>1, <1>3 DEF Manifest
<1> HIDE DEF m
<1>6. Sound(m, minMajor)
  <2>1. CASE t.phase = "command" /\ Undecided(t, minMajor)
    BY <1>5, <2>1 DEF Sound, Undecided
  <2>2. CASE /\ t.phase = "done" /\ answer.kind = "text" /\ answer.major < minMajor
             /\ \A c \in Commands : t.capabilities[c].status = "unavailable"
    <3>1. server \in m.answered /\ server.major < minMajor
      BY <1>5, <2>2
    <3> QED  BY <1>5, <2>2, <3>1 DEF Sound, Real
  <2> QED  BY <1>3, <2>1, <2>2
<1> QED
  BY <1>3, <1>4, <1>5, <1>6, CapLearns, Zenon DEF Capabilities!Settle, Capabilities!options

LEMMA CapConclude ==
  ASSUME CapInv, NEW d \in Capabilities!Discoveries, NEW m, Capabilities!Conclude(d, m),
         m \in Manifest, m.since = manifest[d].since /\ m.turn = manifest[d].turn, Sound(m, minMajor)
  PROVE  CapInv'
BY CapLearns, Zenon DEF Capabilities!Conclude, Capabilities!options

LEMMA CapUnanswered ==
  ASSUME CapInv, NEW d \in Capabilities!Discoveries, NEW st \in Verdict,
         Capabilities!Conclude(d, Capabilities!markUnknown(manifest[d], st))
  PROVE  CapInv'
<1> DEFINE t == Capabilities!markUnknown(manifest[d], st)
<1>1. manifest[d] \in Manifest /\ Undecided(manifest[d], minMajor)
  <2>1. manifest[d].phase = "command"
    BY DEF Capabilities!Conclude
  <2> QED  BY <2>1 DEF CapInv, CapTypes, CapVerdicts, Sound
<1>2. t \in Manifest /\ t.since = manifest[d].since /\ t.turn = manifest[d].turn /\ t.phase = "done" /\ Undecided(t, minMajor)
  BY <1>1, MarkedUnknown
<1> HIDE DEF t
<1>3. Sound(t, minMajor)
  BY <1>2, UndecidedIsReal DEF Sound
<1> QED
  BY <1>2, <1>3, CapConclude DEF t

LEMMA CapSkipped ==
  ASSUME CapInv, NEW d \in Capabilities!Discoveries, Capabilities!CommandsSkipped(d)
  PROVE  CapInv'
<1>1. CASE Capabilities!Conclude(d, Capabilities!markUnknown(manifest[d],
                                 Capabilities!State("unknown", "client-method-unavailable")))
  <2>1. Capabilities!State("unknown", "client-method-unavailable") \in Verdict
    BY DEF Capabilities!State, Verdict, Reasons
  <2> QED  BY <1>1, <2>1, CapUnanswered
<1>2. CASE Capabilities!Conclude(d, [manifest[d] EXCEPT !.phase = "done"])
  <2> DEFINE t == [manifest[d] EXCEPT !.phase = "done"]
  <2>1. manifest[d] \in Manifest /\ Undecided(manifest[d], minMajor)
    <3>1. manifest[d].phase = "command"
      BY <1>2 DEF Capabilities!Conclude
    <3> QED  BY <3>1 DEF CapInv, CapTypes, CapVerdicts, Sound
  <2>2. /\ t \in Manifest /\ t.since = manifest[d].since /\ t.turn = manifest[d].turn /\ t.phase = "done"
        /\ t.health = manifest[d].health /\ t.capabilities = manifest[d].capabilities
    BY <2>1 DEF Manifest
  <2>3. Sound(t, minMajor)
    <3> HIDE DEF t
    <3>1. Undecided(t, minMajor)
      BY <2>1, <2>2 DEF Undecided
    <3> QED  BY <2>2, <3>1, UndecidedIsReal DEF Sound
  <2> QED  BY <1>2, <2>2, <2>3, CapConclude, Zenon
<1> QED
  BY <1>1, <1>2 DEF Capabilities!CommandsSkipped

LEMMA CapAnswered ==
  ASSUME CapInv, NEW d \in Capabilities!Discoveries, Capabilities!CommandsAnswered(d)
  PROVE  CapInv'
<1>1. PICK reply \in Capabilities!CommandReplies(server, names) :
        Capabilities!Conclude(d, [Capabilities!applyCommands(manifest[d], reply, names)
                                    EXCEPT !.answered = @ \cup {server}])
  BY Zenon DEF Capabilities!CommandsAnswered
<1> DEFINE t == Capabilities!applyCommands(manifest[d], reply, names)
           m == [t EXCEPT !.answered = @ \cup {server}]
<1>2. manifest[d] \in Manifest /\ Undecided(manifest[d], minMajor)
  <2>1. manifest[d].phase = "command"
    BY <1>1 DEF Capabilities!Conclude
  <2> QED  BY <2>1 DEF CapInv, CapTypes, CapVerdicts, Sound
<1>3. names \in Seq(Commands) /\ names # <<>> /\ server \in Servers
  BY DEF CapInv, CapTypes, Capabilities!CommandsAnswered, Capabilities!Asked
<1>4. /\ t \in Manifest /\ t.since = manifest[d].since /\ t.turn = manifest[d].turn /\ t.phase = "done"
      /\ t.health = manifest[d].health
      /\ \A c \in Commands :
           /\ t.capabilities[c].status = "supported" => c \in server.has
           /\ t.capabilities[c].status = "unavailable" => c \notin server.has
  BY <1>2, <1>3, CommandsApplied
<1> HIDE DEF t
<1>5. /\ m \in Manifest /\ m.since = t.since /\ m.turn = t.turn /\ m.answered = t.answered \cup {server}
      /\ m.phase = t.phase /\ m.capabilities = t.capabilities /\ m.health = t.health
  BY <1>3, <1>4 DEF Manifest
<1>6. Capabilities!Conclude(d, m)
  BY <1>1 DEF t
<1> HIDE DEF m
<1>7. minMajor >= Capabilities!MINIMUM_REDIS_MAJOR_VERSION => m.health # "unsupported-version"
  BY <1>2, <1>4, <1>5 DEF Undecided
<1>8. Sound(m, minMajor)
  BY <1>4, <1>5, <1>7 DEF Sound, Real
<1> QED
  BY <1>4, <1>5, <1>6, <1>8, CapConclude

LEMMA CapGet == ASSUME CapInv, Capabilities!Get PROVE CapInv'
<1> DEFINE m == [Capabilities!Nothing EXCEPT !.phase = "info", !.since = connection, !.turn = dropped]
           d == started + 1
<1>1. /\ connection \in Nat /\ dropped \in Nat /\ started \in Nat /\ slot = 0 /\ started < MaxDiscoveries
      /\ d \in Capabilities!Discoveries /\ MaxDiscoveries \in Nat
      /\ manifest \in [Capabilities!Discoveries -> Manifest]
      /\ 1..started \subseteq Capabilities!Discoveries /\ d \notin 1..started /\ slot \notin 1..started
  BY CapConstants DEF CapInv, CapTypes, Capabilities!Get, Capabilities!Discover
<1>2. /\ m \in Manifest /\ m.since = connection /\ m.turn = dropped /\ m.phase = "info"
      /\ m.health = Capabilities!Nothing.health
      /\ m.capabilities = Capabilities!Nothing.capabilities
  BY <1>1, NothingYet, Zenon DEF Manifest
<1>3. manifest' = [manifest EXCEPT ![d] = m] /\ started' = d /\ slot' = d
      /\ UNCHANGED <<methods, minMajor, names, server, connection, dropped, detached>>
  BY DEF Capabilities!Get, Capabilities!Discover, Capabilities!options
<1> HIDE DEF m
<1>4. Sound(m, minMajor)
  BY <1>2, NothingYet DEF Sound, Undecided
<1>5. /\ manifest' \in [Capabilities!Discoveries -> Manifest]
      /\ \A e \in Capabilities!Discoveries : manifest'[e] = IF e = d THEN m ELSE manifest[e]
  BY <1>1, <1>2, <1>3
<1>6. CapTypes'
  BY <1>1, <1>3, <1>5 DEF CapInv, CapTypes, Capabilities!Discoveries
<1>7. CapVerdicts'
  BY <1>3, <1>4, <1>5 DEF CapInv, CapVerdicts, Capabilities!Discoveries
<1>8. CapShared'
  <2>1. /\ \A e \in 1..started :
             /\ manifest[e].since \in Nat /\ manifest[e].turn \in Nat
             /\ manifest[e].since <= connection /\ manifest[e].turn <= dropped
             /\ manifest[e].since < connection \/ manifest[e].turn < dropped
        /\ \A e, g \in 1..started :
             manifest[e].since = manifest[g].since /\ manifest[e].turn = manifest[g].turn => e = g
    BY <1>1 DEF CapInv, CapShared, Manifest
  <2>2. \A e \in 1..started' : e = d \/ e \in 1..started
    BY <1>1, <1>3
  <2>3. /\ manifest'[d].since = connection /\ manifest'[d].turn = dropped
        /\ \A e \in 1..started : manifest'[e] = manifest[e]
    BY <1>1, <1>2, <1>5
  <2>4. ASSUME NEW e \in 1..started', NEW g \in 1..started',
               manifest'[e].since = manifest'[g].since, manifest'[e].turn = manifest'[g].turn
        PROVE  e = g
    <3> HIDE DEF d
    <3> QED  BY <1>1, <2>1, <2>2, <2>3, <2>4
  <2>5. ASSUME NEW e \in 1..started'
        PROVE  /\ manifest'[e].since <= connection /\ manifest'[e].turn <= dropped
               /\ e # slot' => manifest'[e].since < connection \/ manifest'[e].turn < dropped
    <3> HIDE DEF d
    <3>1. CASE e = d
      <4>1. manifest'[e].since = connection /\ manifest'[e].turn = dropped /\ e = slot'
        BY <1>3, <2>3, <3>1, Zenon
      <4>2. connection \in Nat /\ dropped \in Nat
        BY <1>1
      <4> QED  BY <4>1, <4>2
    <3>2. CASE e \in 1..started
      <4>1. manifest'[e] = manifest[e]
        BY <2>3, <3>2
      <4>2. /\ manifest[e].since <= connection /\ manifest[e].turn <= dropped
            /\ manifest[e].since < connection \/ manifest[e].turn < dropped
        BY <2>1, <3>2
      <4> QED  BY <4>1, <4>2, Zenon
    <3> QED  BY <2>2, <3>1, <3>2
  <2> QED  BY <1>3, <2>3, <2>4, <2>5 DEF CapShared
<1> QED
  BY <1>6, <1>7, <1>8 DEF CapInv

LEMMA CapReconnect == ASSUME CapInv, Capabilities!Reconnect PROVE CapInv'
<1>1. /\ connection \in Nat /\ dropped \in Nat /\ connection' = connection + 1 /\ server' \in Servers
      /\ connection' \in 0..MaxReconnects
      /\ slot' = (IF Capabilities!Attached THEN 0 ELSE slot)
      /\ UNCHANGED <<methods, minMajor, names, manifest, started, dropped, detached>>
      /\ 1..started \subseteq Capabilities!Discoveries
      /\ manifest \in [Capabilities!Discoveries -> Manifest] /\ slot \in 0..started /\ started \in Nat
  BY CapConstants DEF CapInv, CapTypes, Capabilities!Reconnect, Capabilities!options
<1>2. CapTypes'
  BY <1>1 DEF CapInv, CapTypes, Capabilities!Discoveries
<1>3. CapVerdicts'
  BY <1>1 DEF CapInv, CapVerdicts, Capabilities!Discoveries
<1>4. CapShared'
  <2>1. \A e \in 1..started : manifest[e].since \in Nat /\ manifest[e].turn \in Nat
    BY <1>1 DEF Manifest
  <2>2. \A e \in 1..started : manifest[e].since < connection' /\ manifest[e].turn <= dropped
    BY <1>1, <2>1 DEF CapInv, CapShared
  <2>3. (slot' # 0 => slot' = slot /\ ~Capabilities!Attached) /\ Capabilities!Attached' = Capabilities!Attached
    BY <1>1 DEF Capabilities!Attached
  <2> QED  BY <1>1, <2>1, <2>2, <2>3 DEF CapInv, CapShared
<1> QED
  BY <1>2, <1>3, <1>4 DEF CapInv

\* invalidate() and close() begin a new turn, with no discovery.
LEMMA CapDropped ==
  ASSUME CapInv, slot' = 0, dropped' = dropped + 1, dropped' \in 0..(MaxInvalidations + 1),
         detached' \in BOOLEAN, ~detached' => dropped' <= MaxInvalidations,
         UNCHANGED <<methods, minMajor, names, server, connection, manifest, started>>
  PROVE  CapInv'
<1>1. CapTypes'
  BY CapConstants DEF CapInv, CapTypes, Capabilities!Discoveries
<1>2. CapVerdicts'
  BY DEF CapInv, CapVerdicts, Capabilities!Discoveries
<1>3. CapShared'
  <2>1. \A e \in 1..started : manifest[e].since \in Nat /\ manifest[e].turn \in Nat
    BY CapConstants DEF CapInv, CapTypes, Manifest
  <2>2. dropped \in Nat /\ connection \in Nat
    BY CapConstants DEF CapInv, CapTypes
  <2> QED  BY <2>1, <2>2 DEF CapInv, CapShared
<1> QED
  BY <1>1, <1>2, <1>3 DEF CapInv

LEMMA CapInvalidate == ASSUME CapInv, Capabilities!Invalidate PROVE CapInv'
<1>1. /\ dropped' \in 0..(MaxInvalidations + 1) /\ detached' \in BOOLEAN
      /\ ~detached' => dropped' <= MaxInvalidations
  BY CapConstants DEF CapInv, CapTypes, Capabilities!Invalidate
<1> QED
  BY <1>1, CapDropped DEF Capabilities!Invalidate, Capabilities!options

LEMMA CapClose == ASSUME CapInv, Capabilities!Close PROVE CapInv'
<1>1. dropped' \in 0..(MaxInvalidations + 1) /\ detached' = TRUE
  BY CapConstants DEF CapInv, CapTypes, Capabilities!Close
<1> QED
  BY <1>1, CapDropped DEF Capabilities!Close, Capabilities!options

\* A step of another part leaves this one as it is.
LEMMA CapUnchanged == ASSUME CapInv, UNCHANGED capabilityVars PROVE CapInv'
<1> USE DEF capabilityVars
<1>1. CapTypes'
  BY DEF CapInv, CapTypes, Capabilities!Discoveries
<1>2. CapVerdicts' /\ CapShared'
  BY DEF CapInv, CapVerdicts, CapShared, Capabilities!Discoveries, Capabilities!Attached
<1> QED
  BY <1>1, <1>2 DEF CapInv

LEMMA CapStep == ASSUME CapInv, [Next]_vars PROVE CapInv'
<1>1. Capabilities!Next \/ UNCHANGED capabilityVars
  BY DEF Next, vars
<1>2. CASE Capabilities!Next
  <2>1. ASSUME NEW d \in Capabilities!Discoveries, Capabilities!InfoAnswered(d) PROVE CapInv'
    <3>1. PICK answer \in Capabilities!InfoAnswers(server) : Capabilities!Settle(d, answer)
      BY <2>1 DEF Capabilities!InfoAnswered
    <3>2. answer.kind = "text" => answer.major = server.major
      BY DEF Capabilities!InfoAnswers
    <3> QED  BY <3>1, <3>2, CapSettle
  <2>2. ASSUME NEW d \in Capabilities!Discoveries, Capabilities!InfoMissing(d) PROVE CapInv'
    <3> DEFINE answer == [kind |-> "absent"]
    <3>1. answer.kind = "absent" /\ Capabilities!Settle(d, answer)
      BY <2>2 DEF Capabilities!InfoMissing
    <3> HIDE DEF answer
    <3> QED  BY <3>1, CapSettle
  <2>3. ASSUME NEW d \in Capabilities!Discoveries, Capabilities!InfoTimeout(d) PROVE CapInv'
    <3> DEFINE answer == [kind |-> "error", error |-> Capabilities!TimedOut]
    <3>1. answer.kind = "error" /\ Capabilities!Settle(d, answer)
      BY <2>3 DEF Capabilities!InfoTimeout
    <3> HIDE DEF answer
    <3> QED  BY <3>1, CapSettle
  <2>4. ASSUME NEW d \in Capabilities!Discoveries,
               Capabilities!CommandsFailed(d) \/ Capabilities!CommandsTimeout(d)
        PROVE  CapInv'
    <3>1. PICK e : Capabilities!Conclude(d, Capabilities!markUnknown(manifest[d], Capabilities!failureState(e)))
      BY <2>4 DEF Capabilities!CommandsFailed, Capabilities!CommandsTimeout
    <3> QED  BY <3>1, FailureVerdict, CapUnanswered
  <2> QED
    BY <1>2, <2>1, <2>2, <2>3, <2>4, CapGet, CapReconnect, CapInvalidate, CapClose, CapSkipped, CapAnswered
       DEF Capabilities!Next
<1> QED
  BY <1>1, <1>2, CapUnchanged

LEMMA CapSafe == ASSUME CapInv PROVE VerdictsCurrent /\ OneDiscoveryPerConnection
<1>1. VerdictsAreReal /\ RefusedServerAdvertisesNothing
  BY DEF CapInv, CapVerdicts, Sound, Real, VerdictsAreReal, RefusedServerAdvertisesNothing,
         Capabilities!VerdictsAreReal, Capabilities!RefusedServerAdvertisesNothing,
         Capabilities!Done, Capabilities!hasRedisCapability
<1>2. CachedIsCurrent /\ OneDiscoveryPerConnection
  BY DEF CapInv, CapTypes, CapShared, CachedIsCurrent, OneDiscoveryPerConnection,
         Capabilities!CachedIsCurrent, Capabilities!OneDiscoveryPerConnection
<1> QED
  BY <1>1, <1>2 DEF VerdictsCurrent

(***************************************************************************)
(* A manifest says of a command only what is true of a server that answered  *)
(* this discovery, whatever shape, order or types the reply has; it          *)
(* advertises nothing of a server that the health check refuses, unless the  *)
(* option minimumRedisMajorVersion is below the 6 of the health check; and   *)
(* get() hands out a manifest of the current connection while the registry   *)
(* has its 'ready' listener, which a client without on() never gets.         *)
(***************************************************************************)
THEOREM VerdictsAreCurrent == Spec => []VerdictsCurrent
<1>1. Init => CapInv
  BY CapInitially DEF Init
<1>2. CapInv /\ [Next]_vars => CapInv'
  BY CapStep
<1>3. CapInv => VerdictsCurrent
  BY CapSafe
<1> QED
  BY <1>1, <1>2, <1>3, PTL DEF Spec

-----------------------------------------------------------------------------
(* getOrSet() *)

Answer == [what : {"pending", "value", "none", "error"}, version : Nat]
CallRecord ==
  [pc : Reads!Points, got : Nat, lead : BOOLEAN, read : BOOLEAN, loaded : Nat,
   follows : Caller \cup {Nobody}, since : Nat, answer : Answer]
Copy == [version : Nat, expired : BOOLEAN]
Flight == [by : Caller \cup {Nobody}, expired : BOOLEAN]
AuxRecord == [flight : Flight, stale : Copy, negative : Copy, followers : Int, reserved : Int]

ReadTypes ==
  /\ setting \in Reads!Setting /\ db \in Nat /\ l1 \in Nat /\ aux \in AuxRecord
  /\ call \in [Caller -> CallRecord]
  /\ write \in [pc : {"idle", "writing"}, version : Nat, current : BOOLEAN]
  /\ trust \in {"trusted", "away", "restoring"} /\ closed \in BOOLEAN
  /\ floor \in Nat /\ missed \in Nat /\ kept \in Nat
  /\ floor <= db /\ missed <= db /\ kept <= db

\* A version that no delete overtook: while the stream is away those it misses do not count.
Current(v) == v >= floor /\ (trust # "away" => v >= missed)

\* Whatever the load r has read or answered is at least version v.
Serves(r, v) ==
  /\ r.got = 0 \/ r.got >= v
  /\ r.loaded = 0 \/ r.loaded >= v
  /\ r.answer.what \in {"value", "none"} => r.answer.version >= v

\* A call does not see what is older than it; what its guards still vouch for is current.
CallOK(r) ==
  /\ r.since <= floor \/ r.since <= missed
  /\ Serves(r, r.since)
  /\ r.read /\ r.got # 0 => Current(r.got)
  /\ r.lead /\ r.loaded # 0 =>
       Current(r.loaded) /\ r.loaded >= kept /\ (write.current => r.loaded >= write.version)
  /\ r.loaded # 0 => r.pc \in {"loading", "stored", "done"}
  /\ r.pc = "stored" => r.loaded # 0
  /\ r.pc = "idle" => r.got = 0
  /\ r.pc # "done" => r.answer.what = "pending"

CallsOK == \A c \in Caller : CallOK(call[c])

CopiesOK ==
  /\ l1 = 0 \/ Current(l1)
  /\ aux.stale.version = 0 \/ Current(aux.stale.version)
  /\ aux.negative.version = 0 \/ (Current(aux.negative.version) /\ aux.negative.version >= kept)

WriteOK == write.version <= db /\ (write.current => Current(write.version))

\* A follower's load serves it.
FollowsOK ==
  \A c \in Caller : call[c].pc = "following" =>
    /\ call[c].follows \in Caller
    /\ call[call[c].follows].pc \in Reads!Leading \cup {"done"}
    /\ Serves(call[call[c].follows], call[c].since)

\* The load that calls may join serves those that are made now and those that read.
FlightOK ==
  aux.flight.by # Nobody =>
    /\ call[aux.flight.by].pc \in Reads!Leading
    /\ Serves(call[aux.flight.by], floor)
    /\ trust # "away" => Serves(call[aux.flight.by], missed)
    /\ \A c \in Caller : call[c].pc = "reading" => Serves(call[aux.flight.by], call[c].since)

JoinedOK == joined \subseteq {aux.flight.by} \ {Nobody}

ReadInv ==
  ReadTypes /\ CallsOK /\ CopiesOK /\ WriteOK /\ FollowsOK /\ FlightOK /\ JoinedOK

LEMMA ReadConstants ==
  /\ Nobody \notin Caller /\ Settings \subseteq Reads!Setting /\ IsFiniteSet(Caller)
<1>1. Reads!IsFiniteSet(Caller) = IsFiniteSet(Caller)
  BY DEF Reads!IsFiniteSet, IsFiniteSet
<1> QED
  BY <1>1, LocalAssumption DEF Reads!ReadThroughAssumption

\* What the removals and reservations leave of the three maps.
LEMMA Removals ==
  ASSUME NEW a \in AuxRecord
  PROVE  /\ Reads!RemoveInflight(a) \in AuxRecord
         /\ Reads!RemoveInflight(a).flight.by = Nobody /\ Reads!RemoveInflight(a).stale = a.stale
         /\ Reads!RemoveInflight(a).negative = a.negative
         /\ Reads!RemoveStale(a) \in AuxRecord
         /\ Reads!RemoveStale(a).stale.version = 0 /\ Reads!RemoveStale(a).flight = a.flight
         /\ Reads!RemoveStale(a).negative = a.negative
         /\ Reads!RemoveNegative(a) \in AuxRecord
         /\ Reads!RemoveNegative(a).negative.version = 0 /\ Reads!RemoveNegative(a).flight = a.flight
         /\ Reads!RemoveNegative(a).stale = a.stale
<1>1. Reads!NoFlight \in Flight /\ Reads!NoEntry \in Copy /\ Reads!NoFlight.by = Nobody /\ Reads!NoEntry.version = 0
  BY DEF Reads!NoFlight, Reads!NoEntry, Flight, Copy
<1>2. /\ Reads!RemoveInflight(a) \in AuxRecord
      /\ Reads!RemoveInflight(a).flight = Reads!NoFlight /\ Reads!RemoveInflight(a).stale = a.stale
      /\ Reads!RemoveInflight(a).negative = a.negative
  <2> DEFINE n == a.reserved - 1
             r == [a EXCEPT !.flight = Reads!NoFlight, !.reserved = n]
  <2>1. n \in Int
    BY DEF AuxRecord
  <2>2. Reads!RemoveInflight(a) = IF a.flight = Reads!NoFlight THEN a ELSE r
    BY DEF Reads!RemoveInflight
  <2> HIDE DEF n
  <2>3. r \in AuxRecord
    BY <1>1, <2>1, Zenon DEF AuxRecord
  <2>4. r.flight = Reads!NoFlight /\ r.stale = a.stale /\ r.negative = a.negative
    BY DEF AuxRecord
  <2> HIDE DEF r
  <2> QED  BY <2>2, <2>3, <2>4
<1>3. /\ Reads!RemoveStale(a) \in AuxRecord
      /\ Reads!RemoveStale(a).stale = Reads!NoEntry /\ Reads!RemoveStale(a).flight = a.flight
      /\ Reads!RemoveStale(a).negative = a.negative
  <2> DEFINE n == a.reserved - 1
             r == [a EXCEPT !.stale = Reads!NoEntry, !.reserved = n]
  <2>1. n \in Int
    BY DEF AuxRecord
  <2>2. Reads!RemoveStale(a) = IF a.stale = Reads!NoEntry THEN a ELSE r
    BY DEF Reads!RemoveStale
  <2> HIDE DEF n
  <2>3. r \in AuxRecord
    BY <1>1, <2>1, Zenon DEF AuxRecord
  <2>4. r.stale = Reads!NoEntry /\ r.flight = a.flight /\ r.negative = a.negative
    BY DEF AuxRecord
  <2> HIDE DEF r
  <2> QED  BY <2>2, <2>3, <2>4
<1>4. /\ Reads!RemoveNegative(a) \in AuxRecord
      /\ Reads!RemoveNegative(a).negative = Reads!NoEntry /\ Reads!RemoveNegative(a).flight = a.flight
      /\ Reads!RemoveNegative(a).stale = a.stale
  <2> DEFINE n == a.reserved - 1
             r == [a EXCEPT !.negative = Reads!NoEntry, !.reserved = n]
  <2>1. n \in Int
    BY DEF AuxRecord
  <2>2. Reads!RemoveNegative(a) = IF a.negative = Reads!NoEntry THEN a ELSE r
    BY DEF Reads!RemoveNegative
  <2> HIDE DEF n
  <2>3. r \in AuxRecord
    BY <1>1, <2>1, Zenon DEF AuxRecord
  <2>4. r.negative = Reads!NoEntry /\ r.flight = a.flight /\ r.stale = a.stale
    BY DEF AuxRecord
  <2> HIDE DEF r
  <2> QED  BY <2>2, <2>3, <2>4
<1> QED
  BY <1>1, <1>2, <1>3, <1>4

LEMMA Pruning ==
  ASSUME NEW a \in AuxRecord
  PROVE  /\ Reads!PruneInflight(a) \in AuxRecord
         /\ Reads!PruneInflight(a).flight.by = (IF a.flight.expired THEN Nobody ELSE a.flight.by)
         /\ Reads!PruneInflight(a).stale = a.stale /\ Reads!PruneInflight(a).negative = a.negative
         /\ Reads!PruneStale(a) \in AuxRecord /\ Reads!PruneStale(a).flight = a.flight
         /\ Reads!PruneStale(a).stale.version \in {0, a.stale.version}
         /\ Reads!PruneStale(a).negative = a.negative
         /\ Reads!PruneNegative(a) \in AuxRecord /\ Reads!PruneNegative(a).flight = a.flight
         /\ Reads!PruneNegative(a).stale = a.stale
         /\ Reads!PruneNegative(a).negative.version \in {0, a.negative.version}
BY Removals DEF Reads!PruneInflight, Reads!PruneStale, Reads!PruneNegative

LEMMA Keeping ==
  ASSUME NEW a \in AuxRecord, NEW v \in Nat, NEW ok
  PROVE  /\ Reads!RememberStale(a, v, ok) \in AuxRecord
         /\ Reads!RememberStale(a, v, ok).flight = a.flight
         /\ Reads!RememberStale(a, v, ok).stale.version \in {0, v, a.stale.version}
         /\ Reads!RememberStale(a, v, ok).negative = a.negative
         /\ Reads!SetNegative(a, v, ok) \in AuxRecord
         /\ Reads!SetNegative(a, v, ok).flight = a.flight
         /\ Reads!SetNegative(a, v, ok).stale = a.stale
         /\ Reads!SetNegative(a, v, ok).negative.version \in {0, v, a.negative.version}
<1>1. Reads!Entry(v) \in Copy /\ Reads!Entry(v).version = v
  BY DEF Copy, Reads!Entry
<1>2. ASSUME NEW b \in AuxRecord
      PROVE  /\ Reads!WithStale(b, v, ok) \in AuxRecord /\ Reads!WithStale(b, v, ok).flight = b.flight
             /\ Reads!WithStale(b, v, ok).stale \in {Reads!Entry(v), b.stale}
             /\ Reads!WithStale(b, v, ok).negative = b.negative
  <2> DEFINE n == b.reserved + 1
             r == [b EXCEPT !.stale = Reads!Entry(v), !.reserved = n]
  <2>1. n \in Int
    BY DEF AuxRecord
  <2>2. Reads!WithStale(b, v, ok) = IF ok THEN r ELSE b
    BY DEF Reads!WithStale
  <2> HIDE DEF n
  <2>3. r \in AuxRecord
    BY <1>1, <2>1, Zenon DEF AuxRecord
  <2>4. r.stale = Reads!Entry(v) /\ r.flight = b.flight /\ r.negative = b.negative
    BY DEF AuxRecord
  <2> HIDE DEF r
  <2> QED  BY <2>2, <2>3, <2>4
<1>3. ASSUME NEW b \in AuxRecord
      PROVE  /\ Reads!WithNegative(b, v, ok) \in AuxRecord /\ Reads!WithNegative(b, v, ok).flight = b.flight
             /\ Reads!WithNegative(b, v, ok).stale = b.stale
             /\ Reads!WithNegative(b, v, ok).negative \in {Reads!Entry(v), b.negative}
  <2> DEFINE n == b.reserved + 1
             r == [b EXCEPT !.negative = Reads!Entry(v), !.reserved = n]
  <2>1. n \in Int
    BY DEF AuxRecord
  <2>2. Reads!WithNegative(b, v, ok) = IF ok THEN r ELSE b
    BY DEF Reads!WithNegative
  <2> HIDE DEF n
  <2>3. r \in AuxRecord
    BY <1>1, <2>1, Zenon DEF AuxRecord
  <2>4. r.negative = Reads!Entry(v) /\ r.flight = b.flight /\ r.stale = b.stale
    BY DEF AuxRecord
  <2> HIDE DEF r
  <2> QED  BY <2>2, <2>3, <2>4
<1>4. /\ Reads!RememberStale(a, v, ok) \in AuxRecord
      /\ Reads!RememberStale(a, v, ok).flight = a.flight
      /\ Reads!RememberStale(a, v, ok).stale.version \in {0, v, a.stale.version}
      /\ Reads!RememberStale(a, v, ok).negative = a.negative
  BY <1>1, <1>2, Removals DEF Reads!RememberStale
<1>5. /\ Reads!SetNegative(a, v, ok) \in AuxRecord
      /\ Reads!SetNegative(a, v, ok).flight = a.flight
      /\ Reads!SetNegative(a, v, ok).stale = a.stale
      /\ Reads!SetNegative(a, v, ok).negative.version \in {0, v, a.negative.version}
  BY <1>1, <1>3, Removals DEF Reads!SetNegative
<1> QED
  BY <1>4, <1>5

LEMMA Clearing ==
  ASSUME NEW a \in AuxRecord
  PROVE  /\ Reads!Clear(a) \in AuxRecord /\ Reads!Clear(a).flight.by = Nobody
         /\ Reads!Clear(a).stale.version = 0 /\ Reads!Clear(a).negative.version = 0
<1> DEFINE b == Reads!RemoveStale(a)
           c == Reads!RemoveNegative(b)
<1>1. b \in AuxRecord /\ b.stale.version = 0
  BY Removals
<1> HIDE DEF b
<1>2. c \in AuxRecord /\ c.stale.version = 0 /\ c.negative.version = 0
  BY <1>1, Removals
<1>3. Reads!Clear(a) = Reads!RemoveInflight(c)
  BY DEF Reads!Clear, b
<1> HIDE DEF c
<1> QED
  BY <1>2, <1>3, Removals

\* A bar is a version that a call may have to reach: a delete known, or missed, so far.
Bar(v) == v \in Nat /\ (v <= floor \/ v <= missed)

\* A load that goes on serves whom it served.
GoesOn(old, new) == \A v : Bar(v) /\ Serves(old, v) => Serves(new, v)

\* One call moves: what it leaves behind and what it has seen are current.
LEMMA ReadMove ==
  ASSUME ReadInv, NEW c \in Caller, NEW r \in CallRecord, call' = [call EXCEPT ![c] = r],
         UNCHANGED <<setting, db, write, trust, closed, floor, missed, kept>>,
         l1' \in Nat, aux' \in AuxRecord, CopiesOK', CallOK(r),
         call[c].pc # "done",
         call[c].pc \in Reads!Leading => r.pc \in Reads!Leading \cup {"done"} /\ GoesOn(call[c], r),
         r.pc = "following" =>
           /\ r.follows \in Caller \ {c} /\ call[r.follows].pc \in Reads!Leading \cup {"done"}
           /\ Serves(call[r.follows], r.since),
         \/ aux'.flight.by \in {Nobody, aux.flight.by}
         \/ aux'.flight.by = c /\ r.got = 0 /\ r.loaded = 0,
         aux'.flight.by = c => r.pc \in Reads!Leading,
         r.pc = "reading" => aux'.flight.by = Nobody,
         joined' \subseteq {aux'.flight.by} \ {Nobody}
  PROVE  ReadInv'
<1>0. /\ call \in [Caller -> CallRecord] /\ Nobody \notin Caller /\ floor \in Nat /\ missed \in Nat
      /\ aux.flight.by \in Caller \cup {Nobody} /\ aux'.flight.by \in Caller \cup {Nobody}
  BY ReadConstants DEF ReadInv, ReadTypes, AuxRecord, Flight
<1>1. call' \in [Caller -> CallRecord] /\ \A x \in Caller : call'[x] = IF x = c THEN r ELSE call[x]
  BY <1>0
<1>2. ReadTypes'
  BY <1>1 DEF ReadInv, ReadTypes
<1>3. ASSUME NEW x \in Caller PROVE Bar(call[x].since)
  <2>1. CallOK(call[x]) /\ call[x].since \in Nat
    BY <1>0 DEF ReadInv, CallsOK, CallRecord
  <2> QED  BY <2>1 DEF CallOK, Bar
<1>4. Bar(floor) /\ Bar(missed)
  BY <1>0 DEF Bar
<1>5. CallsOK'
  <2>1. ASSUME NEW x \in Caller PROVE CallOK(call'[x])
    BY <1>1 DEF ReadInv, CallsOK
  <2>2. \A x \in Caller : CallOK(call'[x]) => CallOK(call[x])'
    BY DEF CallOK, Current, Serves
  <2> QED  BY <2>1, <2>2 DEF CallsOK
<1>6. WriteOK'
  BY DEF ReadInv, WriteOK, Current
<1>7. FollowsOK'
  <2> SUFFICES ASSUME NEW x \in Caller, call'[x].pc = "following"
               PROVE  /\ call'[x].follows \in Caller
                      /\ call'[call'[x].follows].pc \in Reads!Leading \cup {"done"}
                      /\ Serves(call'[call'[x].follows], call'[x].since)
    BY DEF FollowsOK, Serves
  <2>1. CASE x = c
    BY <1>1, <2>1
  <2>2. CASE x # c
    <3>1. /\ call'[x] = call[x] /\ call[x].follows \in Caller
          /\ call[call[x].follows].pc \in Reads!Leading \cup {"done"}
          /\ Serves(call[call[x].follows], call[x].since)
      BY <1>1, <2>2 DEF ReadInv, FollowsOK
    <3>2. CASE call[x].follows # c
      BY <1>1, <3>1, <3>2
    <3>3. CASE call[x].follows = c
      <4>1. call[c].pc \in Reads!Leading
        BY <3>1, <3>3
      <4>2. Serves(r, call[x].since)
        BY <1>3, <3>1, <3>3, <4>1 DEF GoesOn
      <4> QED  BY <1>1, <3>1, <3>3, <4>1, <4>2
    <3> QED  BY <3>2, <3>3
  <2> QED  BY <2>1, <2>2
<1>8. FlightOK'
  <2> DEFINE L == aux'.flight.by
  <2> SUFFICES ASSUME L # Nobody
               PROVE  /\ call'[L].pc \in Reads!Leading /\ Serves(call'[L], floor)
                      /\ trust # "away" => Serves(call'[L], missed)
                      /\ \A x \in Caller : call'[x].pc = "reading" => Serves(call'[L], call'[x].since)
    BY DEF FlightOK, Serves
  <2>1. L \in Caller /\ \A x \in Caller : call'[x].pc = "reading" => x # c /\ call'[x] = call[x]
    BY <1>0, <1>1
  <2> HIDE DEF L
  <2>2. CASE L = c /\ r.got = 0 /\ r.loaded = 0
    <3>1. r.pc \in Reads!Leading
      BY <2>2 DEF L
    <3>2. r.answer.what = "pending"
      BY <3>1 DEF CallOK, Reads!Leading
    <3>3. \A v : Serves(r, v)
      BY <2>2, <3>2 DEF Serves
    <3> QED  BY <1>1, <2>2, <3>1, <3>3
  <2>3. CASE L = aux.flight.by
    <3>1. /\ call[L].pc \in Reads!Leading /\ Serves(call[L], floor)
          /\ trust # "away" => Serves(call[L], missed)
          /\ \A x \in Caller : call[x].pc = "reading" => Serves(call[L], call[x].since)
      BY <2>3 DEF ReadInv, FlightOK
    <3>2. CASE L # c
      BY <1>1, <2>1, <3>1, <3>2
    <3>3. CASE L = c
      <4>1. r.pc \in Reads!Leading /\ GoesOn(call[c], r)
        BY <3>1, <3>3 DEF L
      <4> QED  BY <1>1, <1>3, <1>4, <2>1, <3>1, <3>3, <4>1 DEF GoesOn
    <3> QED  BY <3>2, <3>3
  <2> QED  BY <2>2, <2>3, SMTT(60) DEF L
<1>9. JoinedOK'
  BY DEF JoinedOK
<1> QED
  BY <1>2, <1>5, <1>6, <1>7, <1>8, <1>9 DEF ReadInv

\* Guards that a mutation outdated vouch for nothing.
LEMMA OutdatedCalls ==
  ASSUME call \in [Caller -> CallRecord]
  PROVE  /\ Reads!Outdated \in [Caller -> CallRecord]
         /\ \A c \in Caller :
              LET r == Reads!Outdated[c] IN
              /\ ~r.lead /\ ~r.read /\ r.pc = call[c].pc /\ r.got = call[c].got
              /\ r.loaded = call[c].loaded /\ r.follows = call[c].follows
              /\ r.since = call[c].since /\ r.answer = call[c].answer
<1> DEFINE R(c) == [call[c] EXCEPT !.lead = FALSE, !.read = FALSE]
<1>2. Reads!Outdated = [c \in Caller |-> R(c)]
  BY DEF Reads!Outdated
<1>3. ASSUME NEW c \in Caller
      PROVE  /\ R(c) \in CallRecord
             /\ ~R(c).lead /\ ~R(c).read /\ R(c).pc = call[c].pc /\ R(c).got = call[c].got
             /\ R(c).loaded = call[c].loaded /\ R(c).follows = call[c].follows
             /\ R(c).since = call[c].since /\ R(c).answer = call[c].answer
  BY Zenon DEF CallRecord
<1> HIDE DEF R
<1> QED
  BY <1>2, <1>3

\* A step that is of no call: it outdates every guard, or what they vouch for stays current.
Steady ==
  /\ floor' = floor /\ (trust' # "away" => trust # "away" /\ missed' = missed)

LEMMA ReadOutside ==
  ASSUME ReadInv, UNCHANGED setting, db' \in Nat, db' >= db, l1' \in Nat, aux' \in AuxRecord,
         write' \in [pc : {"idle", "writing"}, version : Nat, current : BOOLEAN],
         trust' \in {"trusted", "away", "restoring"}, closed' \in BOOLEAN,
         floor' \in Nat, missed' \in Nat, kept' \in Nat, floor' <= db', missed' <= db', kept' <= db',
         floor' >= floor, missed' >= missed, CopiesOK', WriteOK',
         \/ call' = Reads!Outdated
         \/ /\ call' = call /\ Steady
            /\ kept' = kept \/ (write.current /\ kept' = write.version)
            /\ write'.current => write.current /\ write'.version = write.version,
         aux'.flight.by \in {Nobody, aux.flight.by}, aux'.flight.by # Nobody => Steady,
         joined' \subseteq {aux'.flight.by} \ {Nobody}
  PROVE  ReadInv'
<1>0. /\ call \in [Caller -> CallRecord] /\ Nobody \notin Caller /\ floor \in Nat /\ missed \in Nat
      /\ kept \in Nat /\ write \in [pc : {"idle", "writing"}, version : Nat, current : BOOLEAN]
      /\ aux.flight.by \in Caller \cup {Nobody}
  BY ReadConstants DEF ReadInv, ReadTypes, AuxRecord, Flight
<1>1. /\ call' \in [Caller -> CallRecord]
      /\ \A c \in Caller :
           /\ call'[c].pc = call[c].pc /\ call'[c].got = call[c].got
           /\ call'[c].loaded = call[c].loaded /\ call'[c].follows = call[c].follows
           /\ call'[c].since = call[c].since /\ call'[c].answer = call[c].answer
  BY <1>0, OutdatedCalls
<1>2. ReadTypes'
  BY <1>1 DEF ReadInv, ReadTypes
<1>3. \A c \in Caller : \A v : Serves(call'[c], v) <=> Serves(call[c], v)
  BY <1>1 DEF Serves
<1>4. CallsOK'
  <2> SUFFICES ASSUME NEW c \in Caller PROVE CallOK(call[c])'
    BY DEF CallsOK
  <2>1. /\ CallOK(call[c]) /\ call[c].since \in Nat /\ call[c].got \in Nat /\ call[c].loaded \in Nat
    BY <1>0 DEF ReadInv, CallsOK, CallRecord
  <2>2. call'[c].since <= floor' \/ call'[c].since <= missed'
    BY <1>0, <1>1, <2>1 DEF CallOK
  <2>3. Serves(call'[c], call'[c].since)
    BY <1>1, <1>3, <2>1 DEF CallOK
  <2>4. /\ call'[c].loaded # 0 => call'[c].pc \in {"loading", "stored", "done"}
        /\ call'[c].pc = "stored" => call'[c].loaded # 0
        /\ call'[c].pc = "idle" => call'[c].got = 0
        /\ call'[c].pc # "done" => call'[c].answer.what = "pending"
    BY <1>1, <2>1 DEF CallOK
  <2>5. CASE call' = Reads!Outdated
    <3>1. ~call'[c].lead /\ ~call'[c].read
      BY <1>0, <2>5, OutdatedCalls
    <3> QED  BY <2>2, <2>3, <2>4, <3>1 DEF CallOK, Serves
  <2>6. CASE /\ call' = call /\ Steady
             /\ kept' = kept \/ (write.current /\ kept' = write.version)
             /\ write'.current => write.current /\ write'.version = write.version
    <3>1. \A v : Current(v) => v >= floor' /\ (trust' # "away" => v >= missed')
      BY <2>6 DEF Current, Steady
    <3>2. call[c].read /\ call[c].got # 0 => Current(call[c].got)
      BY <2>1 DEF CallOK
    <3>3. call[c].lead /\ call[c].loaded # 0 =>
            /\ Current(call[c].loaded) /\ call[c].loaded >= kept
            /\ write.current => call[c].loaded >= write.version
      BY <2>1 DEF CallOK
    <3>4. call'[c] = call[c]
      BY <2>6
    <3>5. call[c].lead /\ call[c].loaded # 0 =>
            call[c].loaded >= kept' /\ (write'.current => call[c].loaded >= write'.version)
      BY <2>6, <3>3
    <3> HIDE DEF Steady
    <3> QED  BY <2>2, <2>3, <2>4, <3>1, <3>2, <3>3, <3>4, <3>5 DEF CallOK, Current, Serves
  <2> QED  BY <2>5, <2>6
<1>5. FollowsOK'
  <2> SUFFICES ASSUME NEW x \in Caller, call'[x].pc = "following"
               PROVE  /\ call'[x].follows \in Caller
                      /\ call'[call'[x].follows].pc \in Reads!Leading \cup {"done"}
                      /\ Serves(call'[call'[x].follows], call'[x].since)
    BY DEF FollowsOK, Serves
  <2>1. /\ call[x].follows \in Caller
        /\ call[call[x].follows].pc \in Reads!Leading \cup {"done"}
        /\ Serves(call[call[x].follows], call[x].since)
    BY <1>1 DEF ReadInv, FollowsOK
  <2> QED  BY <1>1, <1>3, <2>1
<1>6. FlightOK'
  <2> DEFINE L == aux'.flight.by
  <2> SUFFICES ASSUME L # Nobody
               PROVE  /\ call'[L].pc \in Reads!Leading /\ Serves(call'[L], floor')
                      /\ trust' # "away" => Serves(call'[L], missed')
                      /\ \A x \in Caller : call'[x].pc = "reading" => Serves(call'[L], call'[x].since)
    BY DEF FlightOK, Serves
  <2>1. L = aux.flight.by /\ L \in Caller /\ Steady
    BY <1>0
  <2> HIDE DEF L
  <2>2. /\ call[L].pc \in Reads!Leading /\ Serves(call[L], floor)
        /\ trust # "away" => Serves(call[L], missed)
        /\ \A x \in Caller : call[x].pc = "reading" => Serves(call[L], call[x].since)
    BY <2>1 DEF ReadInv, FlightOK
  <2> QED  BY <1>1, <1>3, <2>1, <2>2, SMTT(60) DEF Steady
<1>7. JoinedOK'
  BY DEF JoinedOK
<1> QED
  BY <1>2, <1>4, <1>5, <1>6, <1>7 DEF ReadInv

LEMMA ReadInitially == ASSUME Reads!Init PROVE ReadInv
<1> USE DEF Reads!Init
<1>1. /\ Reads!NewCall \in CallRecord /\ Reads!NewCall.pc = "idle" /\ Reads!NewCall.got = 0
      /\ Reads!NewCall.loaded = 0 /\ ~Reads!NewCall.lead /\ ~Reads!NewCall.read
      /\ Reads!NewCall.since = 0 /\ Reads!NewCall.answer.what = "pending"
  BY DEF Reads!NewCall, Reads!Pending, Reads!Points, Reads!Leading, CallRecord, Answer
<1>2. /\ Reads!Empty \in AuxRecord /\ Reads!Empty.flight.by = Nobody
      /\ Reads!Empty.stale.version = 0 /\ Reads!Empty.negative.version = 0
  BY DEF Reads!Empty, Reads!NoFlight, Reads!NoEntry, AuxRecord, Flight, Copy
<1>3. ReadTypes
  <2>1. setting \in Reads!Setting /\ call \in [Caller -> CallRecord] /\ aux \in AuxRecord
    BY <1>1, <1>2, ReadConstants
  <2>2. write \in [pc : {"idle", "writing"}, version : Nat, current : BOOLEAN]
    OBVIOUS
  <2>3. /\ db \in Nat /\ l1 \in Nat /\ floor \in Nat /\ missed \in Nat /\ kept \in Nat
        /\ floor <= db /\ missed <= db /\ kept <= db
    OBVIOUS
  <2>4. trust \in {"trusted", "away", "restoring"} /\ closed \in BOOLEAN
    BY Zenon
  <2> QED  BY <2>1, <2>2, <2>3, <2>4, Zenon DEF ReadTypes
<1>4. CallsOK
  <2> SUFFICES ASSUME NEW c \in Caller PROVE CallOK(call[c])
    BY DEF CallsOK
  <2>1. call[c] = Reads!NewCall /\ floor = 0
    OBVIOUS
  <2> QED  BY <1>1, <2>1 DEF CallOK, Serves
<1>5. CopiesOK /\ FlightOK /\ JoinedOK
  BY <1>2 DEF CopiesOK, FlightOK, JoinedOK
<1>6. FollowsOK
  BY <1>1 DEF FollowsOK
<1>7. WriteOK
  BY DEF WriteOK
<1> QED
  BY <1>3, <1>4, <1>5, <1>6, <1>7 DEF ReadInv

\* The types of the fields a step reads.
LEMMA ReadFacts ==
  ASSUME ReadInv
  PROVE  /\ db \in Nat /\ l1 \in Nat /\ aux \in AuxRecord /\ call \in [Caller -> CallRecord]
         /\ write \in [pc : {"idle", "writing"}, version : Nat, current : BOOLEAN]
         /\ write.version \in Nat /\ write.current \in BOOLEAN
         /\ trust \in {"trusted", "away", "restoring"} /\ closed \in BOOLEAN
         /\ floor \in Nat /\ missed \in Nat /\ kept \in Nat
         /\ floor <= db /\ missed <= db /\ kept <= db
         /\ aux.stale.version \in Nat /\ aux.negative.version \in Nat
         /\ aux.flight.by \in Caller \cup {Nobody} /\ Nobody \notin Caller
         /\ joined \subseteq {aux.flight.by} \ {Nobody}
         /\ [write EXCEPT !.current = FALSE] \in [pc : {"idle", "writing"}, version : Nat, current : BOOLEAN]
         /\ [write EXCEPT !.current = FALSE].version = write.version
         /\ ~[write EXCEPT !.current = FALSE].current
<1>1. write \in [pc : {"idle", "writing"}, version : Nat, current : BOOLEAN]
  BY DEF ReadInv, ReadTypes
<1>2. /\ [write EXCEPT !.current = FALSE] \in [pc : {"idle", "writing"}, version : Nat, current : BOOLEAN]
      /\ [write EXCEPT !.current = FALSE].version = write.version
      /\ ~[write EXCEPT !.current = FALSE].current
  BY <1>1, Zenon
<1>3. /\ aux.stale.version \in Nat /\ aux.negative.version \in Nat
      /\ aux.flight.by \in Caller \cup {Nobody}
  BY DEF ReadInv, ReadTypes, AuxRecord, Flight, Copy
<1> QED
  BY <1>1, <1>2, <1>3, ReadConstants DEF ReadInv, ReadTypes, JoinedOK

LEMMA ReadFlushed ==
  ASSUME ReadInv, UNCHANGED <<setting, db, kept>>, floor' \in {floor, db}, missed' = missed,
         trust' \in {"trusted", "away", "restoring"}, closed' \in BOOLEAN, Reads!Flush
  PROVE  ReadInv'
<1> USE DEF Reads!Flush
<1>1. /\ aux' \in AuxRecord /\ aux'.flight.by = Nobody /\ aux'.stale.version = 0
      /\ aux'.negative.version = 0 /\ l1' = 0 /\ joined' = {} /\ call' = Reads!Outdated
  BY ReadFacts, Clearing
<1>2. write' \in [pc : {"idle", "writing"}, version : Nat, current : BOOLEAN]
      /\ write'.version = write.version /\ ~write'.current
  BY ReadFacts
<1>3. CopiesOK'
  BY <1>1 DEF CopiesOK
<1>4. WriteOK'
  BY <1>2 DEF ReadInv, WriteOK
<1>5. db' \in Nat /\ db' >= db /\ floor' \in Nat /\ floor' <= db' /\ floor' >= floor /\ kept' \in Nat
      /\ missed' \in Nat /\ missed' >= missed /\ missed' <= db' /\ kept' <= db'
  BY ReadFacts
<1> HIDE DEF Reads!Flush
<1> QED
  BY <1>1, <1>2, <1>3, <1>4, <1>5, ReadOutside

LEMMA ReadDelete == ASSUME ReadInv, Reads!Delete, UNCHANGED setting PROVE ReadInv'
<1>1. Reads!Flush /\ UNCHANGED <<db, trust, closed, missed, kept>> /\ floor' = db
  BY DEF Reads!Delete, Reads!Flush
<1> QED
  BY <1>1, ReadFlushed, ReadFacts

LEMMA ReadStream ==
  ASSUME ReadInv, UNCHANGED setting, Reads!StreamLost \/ Reads!StreamBack \/ Reads!Close
  PROVE  ReadInv'
<1>1. Reads!Flush /\ UNCHANGED <<db, floor, missed, kept>>
      /\ trust' \in {"away", "restoring", trust} /\ closed' \in {TRUE, closed}
  BY Zenon DEF Reads!StreamLost, Reads!StreamBack, Reads!Close
<1> QED
  BY <1>1, ReadFlushed, ReadFacts, Zenon

LEMMA ReadOtherPattern == ASSUME ReadInv, Reads!OtherPattern, UNCHANGED setting PROVE ReadInv'
<1> USE DEF Reads!OtherPattern
<1>1. write' \in [pc : {"idle", "writing"}, version : Nat, current : BOOLEAN]
      /\ write'.version = write.version /\ ~write'.current
  BY ReadFacts
<1>2. CopiesOK'
  BY DEF ReadInv, CopiesOK, Current
<1>3. WriteOK'
  BY <1>1 DEF ReadInv, WriteOK
<1>4. UNCHANGED <<db, l1, aux, trust, closed, floor, missed, kept, joined>> /\ call' = Reads!Outdated
  OBVIOUS
<1> HIDE DEF Reads!OtherPattern
<1>5. db' >= db /\ floor' >= floor /\ missed' >= missed
  BY <1>4, ReadFacts
<1> QED
  BY <1>1, <1>2, <1>3, <1>4, <1>5, ReadFacts, ReadOutside DEF Steady

LEMMA ReadSet == ASSUME ReadInv, Reads!Set, UNCHANGED setting PROVE ReadInv'
<1>1. /\ UNCHANGED <<db, aux, trust, closed, floor, missed, kept, joined>> /\ call' = Reads!Outdated
      /\ l1' = db /\ write' = [pc |-> "writing", version |-> db, current |-> TRUE]
  BY DEF Reads!Set
<1>2. write' \in [pc : {"idle", "writing"}, version : Nat, current : BOOLEAN] /\ write'.version = db
  BY <1>1, ReadFacts
<1>3. db >= floor' /\ db >= missed' /\ db' >= db /\ floor' >= floor /\ missed' >= missed /\ l1' \in Nat
  BY <1>1, ReadFacts
<1>4. CopiesOK'
  BY <1>1, <1>3 DEF ReadInv, CopiesOK, Current
<1>5. WriteOK'
  BY <1>1, <1>2, <1>3 DEF WriteOK, Current
<1> QED
  BY <1>1, <1>2, <1>3, <1>4, <1>5, ReadFacts, ReadOutside DEF Steady

LEMMA ReadSetSettles == ASSUME ReadInv, Reads!SetSettles, UNCHANGED setting PROVE ReadInv'
<1>1. PICK ok \in setting.room :
        /\ aux' = IF write.current THEN Reads!RemoveNegative(Reads!RememberStale(aux, write.version, ok)) ELSE aux
        /\ kept' = IF write.current THEN write.version ELSE kept
        /\ write' = [write EXCEPT !.pc = "idle", !.current = FALSE]
        /\ UNCHANGED <<db, l1, call, trust, closed, floor, missed, joined>>
  BY DEF Reads!SetSettles
<1>2. /\ write' \in [pc : {"idle", "writing"}, version : Nat, current : BOOLEAN]
      /\ write'.version = write.version /\ ~write'.current
  BY <1>1, ReadFacts, Zenon
<1> DEFINE a == Reads!RememberStale(aux, write.version, ok)
<1>3. a \in AuxRecord /\ a.flight = aux.flight /\ a.stale.version \in {0, write.version, aux.stale.version}
  BY ReadFacts, Keeping
<1> HIDE DEF a
<1>4. /\ Reads!RemoveNegative(a) \in AuxRecord /\ Reads!RemoveNegative(a).negative.version = 0
      /\ Reads!RemoveNegative(a).flight = a.flight /\ Reads!RemoveNegative(a).stale = a.stale
  BY <1>3, Removals
<1>5. aux' = IF write.current THEN Reads!RemoveNegative(a) ELSE aux
  BY <1>1 DEF a
<1>6. aux' \in AuxRecord /\ aux'.flight.by = aux.flight.by
  BY <1>3, <1>4, <1>5, ReadFacts
<1>7. CopiesOK'
  <2>1. CASE write.current
    <3>1. Current(write.version)
      BY <2>1 DEF ReadInv, WriteOK
    <3>2. /\ aux'.stale.version \in {0, write.version, aux.stale.version}
          /\ aux'.negative.version = 0
      BY <1>3, <1>4, <1>5, <2>1
    <3> QED  BY <1>1, <3>1, <3>2 DEF ReadInv, CopiesOK, Current
  <2>2. CASE ~write.current
    BY <1>1, <1>5, <2>2 DEF ReadInv, CopiesOK, Current
  <2> QED  BY <2>1, <2>2
<1>8. WriteOK'
  BY <1>1, <1>2 DEF ReadInv, WriteOK
<1>9. kept' \in Nat /\ kept' <= db' /\ db' >= db /\ floor' >= floor /\ missed' >= missed
  BY <1>1, ReadFacts DEF ReadInv, WriteOK
<1>10. kept' = kept \/ (write.current /\ kept' = write.version)
  BY <1>1
<1>11. Steady
  BY <1>1 DEF Steady
<1> QED
  BY <1>1, <1>2, <1>6, <1>7, <1>8, <1>9, <1>10, <1>11, ReadFacts, ReadOutside

\* Trust returns, a delete is missed, the origin moves on.
LEMMA ReadElsewhere ==
  ASSUME ReadInv, UNCHANGED setting,
         Reads!TrustRestored \/ Reads!DeleteMissed \/ Reads!OriginWrite
  PROVE  ReadInv'
<1>1. /\ UNCHANGED <<l1, aux, call, write, closed, floor, kept, joined>>
      /\ \/ trust = "restoring" /\ trust' = "trusted" /\ UNCHANGED <<db, missed>>
         \/ trust = "away" /\ trust' = trust /\ missed' = db /\ UNCHANGED db
         \/ db' = db + 1 /\ UNCHANGED <<trust, missed>>
  BY DEF Reads!TrustRestored, Reads!DeleteMissed, Reads!OriginWrite
<1>2. /\ db' \in Nat /\ db' >= db /\ floor' <= db' /\ missed' \in Nat /\ missed' >= missed
      /\ missed' <= db' /\ kept' <= db' /\ floor' >= floor
  BY <1>1, ReadFacts
<1>3. Steady /\ trust' \in {"trusted", "away", "restoring"}
  BY <1>1, ReadFacts DEF Steady
<1>4. \A v : Current(v) => v >= floor' /\ (trust' # "away" => v >= missed')
  BY <1>3 DEF Current, Steady
<1>5. CopiesOK'
  BY <1>1, <1>4 DEF ReadInv, CopiesOK, Current
<1>6. WriteOK'
  BY <1>1, <1>2, <1>4, ReadFacts DEF ReadInv, WriteOK, Current
<1> QED
  BY <1>1, <1>2, <1>3, <1>5, <1>6, ReadFacts, ReadOutside

\* L1 and the budget evict, copies and loads expire.
LEMMA ReadLapses ==
  ASSUME ReadInv, UNCHANGED setting, Reads!Evicted \/ Reads!Expires
  PROVE  ReadInv'
<1>1. UNCHANGED <<db, write, trust, closed, floor, missed, kept, call, joined>>
  BY DEF Reads!Evicted, Reads!Expires, Reads!apart
<1>2. /\ l1' \in {0, l1} /\ aux' \in AuxRecord /\ aux'.flight.by = aux.flight.by
      /\ aux'.stale.version \in {0, aux.stale.version}
      /\ aux'.negative.version = aux.negative.version
  <2>0. aux \in AuxRecord
    BY ReadFacts
  <2>1. CASE Reads!Evicted
    BY <2>0, <2>1, Removals DEF Reads!Evicted
  <2>2. CASE Reads!Expires
    <3>1. /\ aux.flight \in Flight /\ aux.stale \in Copy /\ aux.negative \in Copy
      BY <2>0 DEF AuxRecord
    <3>2. CASE aux' = [aux EXCEPT !.flight.expired = TRUE]
      <4>1. LET e == [aux.flight EXCEPT !.expired = TRUE] IN e \in Flight /\ e.by = aux.flight.by
        BY <3>1, Zenon DEF Flight
      <4>2. aux' = [aux EXCEPT !.flight = [aux.flight EXCEPT !.expired = TRUE]]
        BY <3>2
      <4> DEFINE e == [aux.flight EXCEPT !.expired = TRUE]
      <4>3. e \in Flight /\ e.by = aux.flight.by /\ aux' = [aux EXCEPT !.flight = e]
        BY <4>1, <4>2
      <4> HIDE DEF e
      <4>4. aux' \in AuxRecord /\ aux'.flight = e /\ aux'.stale = aux.stale /\ aux'.negative = aux.negative
        BY <2>0, <4>3 DEF AuxRecord
      <4> QED  BY <2>2, <4>3, <4>4 DEF Reads!Expires
    <3>3. CASE aux' = [aux EXCEPT !.stale.expired = TRUE]
      <4> DEFINE e == [aux.stale EXCEPT !.expired = TRUE]
      <4>3. e \in Copy /\ e.version = aux.stale.version /\ aux' = [aux EXCEPT !.stale = e]
        BY <3>1, <3>3, Zenon DEF Copy
      <4> HIDE DEF e
      <4>4. aux' \in AuxRecord /\ aux'.stale = e /\ aux'.flight = aux.flight /\ aux'.negative = aux.negative
        BY <2>0, <4>3 DEF AuxRecord
      <4> QED  BY <2>2, <4>3, <4>4 DEF Reads!Expires
    <3>4. CASE aux' = [aux EXCEPT !.negative.expired = TRUE]
      <4> DEFINE e == [aux.negative EXCEPT !.expired = TRUE]
      <4>3. e \in Copy /\ e.version = aux.negative.version /\ aux' = [aux EXCEPT !.negative = e]
        BY <3>1, <3>4, Zenon DEF Copy
      <4> HIDE DEF e
      <4>4. aux' \in AuxRecord /\ aux'.negative = e /\ aux'.flight = aux.flight /\ aux'.stale = aux.stale
        BY <2>0, <4>3 DEF AuxRecord
      <4> QED  BY <2>2, <4>3, <4>4 DEF Reads!Expires
    <3> QED  BY <2>2, <3>2, <3>3, <3>4 DEF Reads!Expires
  <2> QED  BY <2>1, <2>2
<1>3. CopiesOK'
  BY <1>1, <1>2 DEF ReadInv, CopiesOK, Current
<1>4. WriteOK'
  BY <1>1 DEF ReadInv, WriteOK, Current
<1>5. Steady /\ l1' \in Nat /\ db' >= db /\ floor' >= floor /\ missed' >= missed
  BY <1>1, <1>2, ReadFacts DEF Steady
<1> QED
  BY <1>1, <1>2, <1>3, <1>4, <1>5, ReadFacts, ReadOutside

\* What a copy tells while the stream is trusted reaches every bar.
LEMMA TrustedReaches ==
  ASSUME ReadInv, Reads!Trusted, NEW x \in Nat, Current(x)
  PROVE  \A v : Bar(v) => x >= v
BY ReadFacts DEF Reads!Trusted, Current, Bar

\* The copies a load leaves behind, when each is an earlier one or current.
LEMMA CopiesKept ==
  ASSUME ReadInv, UNCHANGED <<trust, floor, missed, kept>>,
         l1' \in {0, l1} \/ Current(l1'),
         aux'.stale.version \in {0, aux.stale.version} \/ Current(aux'.stale.version),
         \/ aux'.negative.version \in {0, aux.negative.version}
         \/ Current(aux'.negative.version) /\ aux'.negative.version >= kept
  PROVE  CopiesOK'
BY DEF ReadInv, CopiesOK, Current

\* A load ends with an answer that reaches every bar the load served.
LEMMA ReadEnd ==
  ASSUME ReadInv, NEW c \in Caller, call[c].pc \in Reads!Leading \cup {"reading"},
         NEW a \in AuxRecord, a.flight = aux.flight,
         a.stale.version \in {0, aux.stale.version} \/ Current(a.stale.version),
         \/ a.negative.version \in {0, aux.negative.version}
         \/ Current(a.negative.version) /\ a.negative.version >= kept,
         NEW what \in {"value", "none", "error"}, NEW version \in Nat,
         what = "error" \/ \A v : Bar(v) /\ Serves(call[c], v) => version >= v,
         Reads!End(c, a, what, version),
         UNCHANGED <<setting, db, write, trust, closed, floor, missed, kept>>, UNCHANGED l1
  PROVE  ReadInv'
<1> DEFINE r == Reads!Answered(c, what, version)
<1>1. call[c] \in CallRecord /\ CallOK(call[c]) /\ Bar(call[c].since)
  BY ReadFacts DEF ReadInv, CallsOK, CallOK, CallRecord, Bar
<1>2. /\ r \in CallRecord /\ r.pc = "done" /\ r.answer.what = what /\ r.answer.version = version
      /\ r.got = call[c].got /\ r.loaded = call[c].loaded /\ r.lead = call[c].lead
      /\ r.read = call[c].read /\ r.since = call[c].since
  BY <1>1, Zenon DEF Reads!Answered, CallRecord, Answer, Reads!Points
<1>3. call' = [call EXCEPT ![c] = r] /\ joined' = joined \ {c}
      /\ aux' = IF a.flight.by = c THEN Reads!RemoveInflight(a) ELSE a
  BY DEF Reads!End, Reads!Becomes
<1> HIDE DEF r
<1>4. ASSUME NEW v, Bar(v), Serves(call[c], v) PROVE Serves(r, v)
  BY <1>2, <1>4 DEF Serves
<1>5. CallOK(r)
  BY <1>1, <1>2, <1>4 DEF CallOK
<1>6. /\ aux' \in AuxRecord /\ aux'.stale = a.stale /\ aux'.negative = a.negative
      /\ aux'.flight.by = (IF aux.flight.by = c THEN Nobody ELSE aux.flight.by)
  BY <1>3, Removals
<1>7. CopiesOK'
  BY <1>6, CopiesKept
<1>8. joined' \subseteq {aux'.flight.by} \ {Nobody} /\ aux'.flight.by # c
  BY <1>3, <1>6, ReadFacts
<1>9. call[c].pc # "done" /\ l1' \in Nat
  BY ReadFacts DEF Reads!Leading
<1>10. GoesOn(call[c], r)
  BY <1>4 DEF GoesOn
<1> QED
  BY <1>2, <1>3, <1>5, <1>6, <1>7, <1>8, <1>9, <1>10, ReadMove, Zenon

\* A failed load: the stale copy answers, if the stream is trusted.
LEMMA ReadFail ==
  ASSUME ReadInv, NEW c \in Caller, call[c].pc \in Reads!Leading, Reads!Fail(c),
         UNCHANGED <<setting, db, write, trust, closed, floor, missed, kept>>, UNCHANGED l1
  PROVE  ReadInv'
<1> DEFINE a == Reads!PruneStale(aux)
<1>1. /\ a \in AuxRecord /\ a.flight = aux.flight /\ a.negative = aux.negative
      /\ a.stale.version \in {0, aux.stale.version}
  BY ReadFacts, Pruning
<1>2. IF Reads!HasStale(a) THEN Reads!End(c, a, "value", a.stale.version)
                           ELSE Reads!End(c, a, "error", 0)
  BY DEF Reads!Fail
<1> HIDE DEF a
<1>3. CASE Reads!HasStale(a)
  <2>1. Reads!Trusted /\ a.stale.version = aux.stale.version /\ a.stale.version # 0
    BY <1>1, <1>3 DEF Reads!HasStale
  <2>2. Current(aux.stale.version) /\ aux.stale.version \in Nat
    BY <2>1, ReadFacts DEF ReadInv, CopiesOK
  <2>3. \A v : Bar(v) => aux.stale.version >= v
    BY <2>1, <2>2, TrustedReaches
  <2>4. a.stale.version \in Nat /\ \A v : Bar(v) => a.stale.version >= v
    BY <2>1, <2>2, <2>3
  <2>5. Reads!End(c, a, "value", a.stale.version)
    BY <1>2, <1>3
  <2> DEFINE sv == a.stale.version
  <2>6. sv \in Nat /\ (\A v : Bar(v) => sv >= v) /\ Reads!End(c, a, "value", sv)
    BY <2>4, <2>5
  <2> HIDE DEF sv
  <2> QED  BY <1>1, <2>6, ReadEnd
<1>4. CASE ~Reads!HasStale(a)
  <2>1. Reads!End(c, a, "error", 0) /\ 0 \in Nat
    BY <1>2, <1>4
  <2> QED  BY <1>1, <2>1, ReadEnd
<1> QED
  BY <1>3, <1>4

\* The read of a load found a value.
LEMMA ReadFound ==
  ASSUME ReadInv, NEW c \in Caller, call[c].pc \in Reads!Leading \cup {"reading"}, call[c].got # 0,
         Reads!EndWithRead(c),
         UNCHANGED <<setting, db, write, trust, closed, floor, missed, kept>>, UNCHANGED l1
  PROVE  ReadInv'
<1>1. call[c] \in CallRecord /\ CallOK(call[c]) /\ call[c].got \in Nat
  BY ReadFacts DEF ReadInv, CallsOK, CallRecord
<1>2. PICK ok \in setting.room :
        Reads!End(c, IF call[c].read /\ Reads!Trusted THEN Reads!RememberStale(aux, call[c].got, ok) ELSE aux,
                  "value", call[c].got)
  BY DEF Reads!EndWithRead
<1> DEFINE b == Reads!RememberStale(aux, call[c].got, ok)
           a == IF call[c].read /\ Reads!Trusted THEN b ELSE aux
<1>3. /\ b \in AuxRecord /\ b.flight = aux.flight /\ b.negative = aux.negative
      /\ b.stale.version \in {0, call[c].got, aux.stale.version}
  BY <1>1, ReadFacts, Keeping
<1>4. Reads!End(c, a, "value", call[c].got)
  BY <1>2
<1> HIDE DEF b
<1>5. call[c].read => Current(call[c].got)
  BY <1>1 DEF CallOK
<1>6. /\ a \in AuxRecord /\ a.flight = aux.flight /\ a.negative = aux.negative
      /\ a.stale.version \in {0, aux.stale.version} \/ Current(a.stale.version)
  BY <1>3, <1>5, ReadFacts
<1> HIDE DEF a
<1>7. \A v : Bar(v) /\ Serves(call[c], v) => call[c].got >= v
  BY DEF Serves
<1> DEFINE gv == call[c].got
<1>8. gv \in Nat /\ (\A v : Bar(v) /\ Serves(call[c], v) => gv >= v) /\ Reads!End(c, a, "value", gv)
  BY <1>1, <1>4, <1>7
<1> HIDE DEF gv
<1> QED
  BY <1>6, <1>8, ReadEnd

\* The key is known to be missing.
LEMMA ReadNegative ==
  ASSUME ReadInv, Reads!HasNegative(aux)
  PROVE  /\ aux.negative.version \in Nat
         /\ \A v : Bar(v) => aux.negative.version >= v
<1>1. Reads!Trusted /\ aux.negative.version # 0
  BY DEF Reads!HasNegative
<1>2. Current(aux.negative.version) /\ aux.negative.version \in Nat
  BY <1>1, ReadFacts DEF ReadInv, CopiesOK
<1> QED
  BY <1>1, <1>2, TrustedReaches

\* A read takes from L1 only what reaches every bar.
LEMMA ReadL1 ==
  ASSUME ReadInv
  PROVE  /\ Reads!L1Read \in Nat
         /\ Reads!L1Read # 0 => Current(Reads!L1Read) /\ \A v : Bar(v) => Reads!L1Read >= v
<1>1. CASE Reads!L1Read # 0
  <2>1. Reads!Trusted /\ Reads!L1Read = l1 /\ l1 # 0
    BY <1>1 DEF Reads!L1Read
  <2>2. Current(l1) /\ l1 \in Nat
    BY <2>1, ReadFacts DEF ReadInv, CopiesOK
  <2> QED  BY <2>1, <2>2, TrustedReaches
<1>2. CASE Reads!L1Read = 0
  BY <1>2
<1> QED
  BY <1>1, <1>2

\* A load goes on to another point, with a new read or without.
LEMMA ReadLeads ==
  ASSUME ReadInv, NEW c \in Caller, call[c].pc \in Reads!Leading,
         NEW r \in CallRecord, r.pc \in Reads!Leading, call' = [call EXCEPT ![c] = r],
         UNCHANGED <<setting, db, write, trust, closed, floor, missed, kept>>, UNCHANGED l1,
         UNCHANGED joined, aux' \in {aux, Reads!PruneNegative(aux)},
         r.answer = call[c].answer, r.since = call[c].since, CallOK(r),
         r.got = call[c].got \/ r.got = 0 \/ (\A v : Bar(v) => r.got >= v),
         r.loaded = call[c].loaded \/ r.loaded = 0 \/ (\A v : Bar(v) => r.loaded >= v)
  PROVE  ReadInv'
<1>1. /\ aux' \in AuxRecord /\ aux'.flight = aux.flight /\ aux'.stale = aux.stale
      /\ aux'.negative.version \in {0, aux.negative.version}
  BY ReadFacts, Pruning
<1>2. CopiesOK'
  BY <1>1, CopiesKept
<1>3. GoesOn(call[c], r)
  BY DEF GoesOn, Serves
<1>4. call[c].pc # "done" /\ l1' \in Nat /\ r.pc \notin {"following", "reading"}
  BY ReadFacts DEF Reads!Leading
<1>5. joined' \subseteq {aux'.flight.by} \ {Nobody}
  BY <1>1, ReadFacts
<1> QED
  BY <1>1, <1>2, <1>3, <1>4, <1>5, ReadMove, Zenon

\* A call joins the load that is registered, or is refused.
LEMMA ReadJoins ==
  ASSUME ReadInv, NEW c \in Caller, call[c].pc \in {"idle", "reading"},
         NEW a \in AuxRecord, a.flight.by = aux.flight.by, aux.flight.by # Nobody,
         a.stale = aux.stale, a.negative.version \in {0, aux.negative.version},
         NEW r \in CallRecord, r.pc = call[c].pc, r.got = 0, r.loaded = 0, CallOK(r),
         Serves(call[aux.flight.by], r.since), Reads!Join(c, a, r),
         UNCHANGED <<setting, db, write, trust, closed, floor, missed, kept>>, UNCHANGED l1,
         joined' \subseteq joined
  PROVE  ReadInv'
<1> DEFINE L == aux.flight.by
<1>1. L \in Caller /\ call[L].pc \in Reads!Leading /\ L # c
  BY ReadFacts DEF ReadInv, FlightOK, Reads!Leading
<1>2. r.answer.what = "pending" /\ r.answer \in Answer
  BY DEF CallOK, CallRecord
<1>3. PICK ok \in setting.room :
        IF ok /\ a.followers < setting.maxWaiters
        THEN /\ aux' = [a EXCEPT !.followers = @ + 1, !.reserved = @ + 1]
             /\ call' = [call EXCEPT ![c] = [r EXCEPT !.pc = "following", !.follows = a.flight.by]]
        ELSE /\ aux' = a
             /\ call' = [call EXCEPT ![c] = [r EXCEPT !.pc = "done", !.answer.what = "error"]]
  BY DEF Reads!Join, Reads!Becomes
<1>4. /\ aux' \in AuxRecord /\ aux'.flight = a.flight /\ aux'.stale = a.stale
      /\ aux'.negative = a.negative
  <2> DEFINE b == [a EXCEPT !.followers = a.followers + 1, !.reserved = a.reserved + 1]
  <2>1. a.followers + 1 \in Int /\ a.reserved + 1 \in Int
    BY DEF AuxRecord
  <2>2. b \in AuxRecord
    BY <2>1, Zenon DEF AuxRecord
  <2>3. b.flight = a.flight /\ b.stale = a.stale /\ b.negative = a.negative
    BY DEF AuxRecord
  <2>4. aux' \in {a, b}
    BY <1>3
  <2> HIDE DEF b
  <2> QED  BY <2>2, <2>3, <2>4
<1>5. CopiesOK'
  BY <1>4, CopiesKept
<1>6. joined' \subseteq {aux'.flight.by} \ {Nobody} /\ aux'.flight.by = L /\ l1' \in Nat
  BY <1>4, ReadFacts
<1>7. call[c].pc # "done" /\ call[c].pc \notin Reads!Leading
  BY DEF Reads!Leading
<1>8. CASE call' = [call EXCEPT ![c] = [r EXCEPT !.pc = "following", !.follows = a.flight.by]]
  <2> DEFINE t == [r EXCEPT !.pc = "following", !.follows = a.flight.by]
  <2>1. /\ t \in CallRecord /\ t.pc = "following" /\ t.follows = L /\ t.got = 0 /\ t.loaded = 0
        /\ t.since = r.since /\ t.answer = r.answer
    BY <1>1, Zenon DEF CallRecord, Reads!Points
  <2> HIDE DEF t
  <2>2. CallOK(t)
    BY <1>2, <2>1 DEF CallOK, Serves
  <2>3. call' = [call EXCEPT ![c] = t]
    BY <1>8 DEF t
  <2> HIDE DEF L
  <2>4. /\ t.pc = "following" => /\ t.follows \in Caller \ {c}
                                 /\ call[t.follows].pc \in Reads!Leading \cup {"done"}
                                 /\ Serves(call[t.follows], t.since)
    BY <1>1, <2>1 DEF L
  <2>5. aux'.flight.by # c /\ aux'.flight.by \in {Nobody, aux.flight.by} /\ t.pc # "reading"
    BY <1>1, <1>6, <2>1 DEF L
  <2> QED  BY <1>4, <1>5, <1>6, <1>7, <2>1, <2>2, <2>3, <2>4, <2>5, ReadMove, Zenon
<1>9. CASE call' = [call EXCEPT ![c] = [r EXCEPT !.pc = "done", !.answer.what = "error"]]
  <2> DEFINE e == [r.answer EXCEPT !.what = "error"]
             t == [r EXCEPT !.pc = "done", !.answer = e]
  <2>0. e \in Answer /\ e.what = "error"
    BY <1>2 DEF Answer
  <2>3. call' = [call EXCEPT ![c] = t]
    BY <1>9
  <2> HIDE DEF e
  <2>1. /\ t \in CallRecord /\ t.pc = "done" /\ t.got = 0 /\ t.loaded = 0
        /\ t.since = r.since /\ t.answer = e
    BY <2>0, Zenon DEF CallRecord, Reads!Points
  <2> HIDE DEF t
  <2>2. CallOK(t)
    BY <2>0, <2>1 DEF CallOK, Serves
  <2>5. aux'.flight.by # c /\ aux'.flight.by \in {Nobody, aux.flight.by} /\ t.pc \notin {"reading", "following"}
    BY <1>1, <1>6, <2>1
  <2> QED  BY <1>4, <1>5, <1>6, <1>7, <2>1, <2>2, <2>3, <2>5, ReadMove, Zenon
<1> QED
  BY <1>3, <1>8, <1>9

\* The record of a call that reads L1.
LEMMA ReadsAgain ==
  ASSUME ReadInv, NEW c \in Caller, NEW pc_ \in Reads!Points
  PROVE  LET r == Reads!Reading(c, pc_) IN
         /\ r \in CallRecord /\ r.pc = pc_ /\ r.got = Reads!L1Read /\ r.read /\ r.lead = call[c].lead
         /\ r.loaded = call[c].loaded /\ r.follows = call[c].follows
         /\ r.since = call[c].since /\ r.answer = call[c].answer
<1>1. call[c] \in CallRecord /\ Reads!L1Read \in Nat
  BY ReadFacts, ReadL1
<1> DEFINE n == Reads!L1Read
<1>2. n \in Nat /\ Reads!Reading(c, pc_) = [call[c] EXCEPT !.pc = pc_, !.got = n, !.read = TRUE]
  BY <1>1 DEF Reads!Reading
<1> HIDE DEF n
<1> DEFINE r == [call[c] EXCEPT !.pc = pc_, !.got = n, !.read = TRUE]
<1>3. r \in CallRecord
  BY <1>1, <1>2, Zenon DEF CallRecord
<1>4. /\ r.pc = pc_ /\ r.got = n /\ r.read /\ r.lead = call[c].lead
      /\ r.loaded = call[c].loaded /\ r.follows = call[c].follows
      /\ r.since = call[c].since /\ r.answer = call[c].answer
  BY <1>1 DEF CallRecord
<1> HIDE DEF r
<1> QED
  BY <1>2, <1>3, <1>4 DEF r, n

LEMMA ReadHitStep ==
  ASSUME ReadInv, NEW c \in Caller, UNCHANGED setting, Reads!ReadHit(c)
  PROVE  ReadInv'
BY ReadFound DEF Reads!ReadHit, Reads!aside, Reads!apart

\* A call that only reads has no entry of its own, so that its end leaves the maps alone.
LEMMA ReadEndsStep ==
  ASSUME ReadInv, NEW c \in Caller, UNCHANGED setting, Reads!ReadEnds(c)
  PROVE  ReadInv'
<1>1. /\ call[c].pc = "reading" /\ UNCHANGED <<db, write, trust, closed, floor, missed, kept>> /\ UNCHANGED l1
      /\ aux' = aux /\ joined' = joined
  BY DEF Reads!ReadEnds, Reads!aside, Reads!apart
<1>2. aux.flight.by # c /\ joined \ {c} = joined
  BY <1>1, ReadFacts DEF ReadInv, FlightOK, Reads!Leading
<1>3. CASE closed
  <2>1. Reads!End(c, aux, "error", 0)
    BY <1>1, <1>2, <1>3 DEF Reads!ReadEnds, Reads!End
  <2> QED  BY <1>1, <2>1, ReadFacts, ReadEnd
<1>4. CASE ~closed
  <2> DEFINE nv == aux.negative.version
  <2>1. Reads!End(c, aux, "none", nv) /\ Reads!HasNegative(aux)
    BY <1>1, <1>2, <1>4 DEF Reads!ReadEnds, Reads!End
  <2>2. nv \in Nat /\ \A v : Bar(v) => nv >= v
    BY <2>1, ReadNegative
  <2> HIDE DEF nv
  <2> QED  BY <1>1, <2>1, <2>2, ReadFacts, ReadEnd
<1> QED
  BY <1>3, <1>4

LEMMA ReadStart ==
  ASSUME ReadInv, NEW c \in Caller, UNCHANGED setting, Reads!Start(c)
  PROVE  ReadInv'
<1>1. call[c].pc = "starting" /\ UNCHANGED <<db, write, trust, closed, floor, missed, kept>> /\ UNCHANGED l1
  BY DEF Reads!Start, Reads!aside, Reads!apart
<1>2. call[c].pc \in Reads!Leading /\ CallOK(call[c])
  BY <1>1 DEF Reads!Leading, ReadInv, CallsOK
<1>3. CASE Reads!End(c, aux, "error", 0)
  BY <1>1, <1>2, <1>3, ReadFacts, ReadEnd
<1>4. CASE Reads!Fail(c)
  BY <1>1, <1>2, <1>4, ReadFail
<1>5. CASE /\ aux' = Reads!PruneNegative(aux) /\ UNCHANGED joined
           /\ call' = [call EXCEPT ![c] = [Reads!Reading(c, "rechecking") EXCEPT !.lead = TRUE]]
  <2> DEFINE q == Reads!Reading(c, "rechecking")
             r == [q EXCEPT !.lead = TRUE]
  <2>1. "rechecking" \in Reads!Points /\ "rechecking" \in Reads!Leading
    BY DEF Reads!Points, Reads!Leading
  <2>2. /\ q \in CallRecord /\ q.pc = "rechecking" /\ q.got = Reads!L1Read /\ q.read
        /\ q.loaded = call[c].loaded /\ q.since = call[c].since /\ q.answer = call[c].answer
    BY <2>1, ReadsAgain
  <2>3. call' = [call EXCEPT ![c] = r]
    BY <1>5
  <2> HIDE DEF q
  <2>4. /\ r \in CallRecord /\ r.pc = q.pc /\ r.got = q.got /\ r.loaded = q.loaded
        /\ r.since = q.since /\ r.answer = q.answer
    BY <2>2, Zenon DEF CallRecord
  <2> HIDE DEF r
  <2>5. call[c].loaded = 0 /\ Bar(call[c].since) /\ call[c].answer.what = "pending"
    BY <1>1, <1>2, ReadFacts DEF CallOK, Bar, CallRecord
  <2>6. CallOK(r)
    BY <1>2, <2>2, <2>4, <2>5, ReadL1 DEF CallOK, Serves
  <2>7. r.got = 0 \/ (\A v : Bar(v) => r.got >= v)
    BY <2>2, <2>4, ReadL1
  <2>8. /\ r \in CallRecord /\ r.pc \in Reads!Leading /\ r.loaded = call[c].loaded
        /\ r.since = call[c].since /\ r.answer = call[c].answer
    BY <2>1, <2>2, <2>4
  <2>9. aux' \in {aux, Reads!PruneNegative(aux)} /\ UNCHANGED joined
    BY <1>5
  <2> QED  BY <1>1, <1>2, <2>3, <2>6, <2>7, <2>8, <2>9, ReadLeads, Zenon
<1> QED
  BY <1>3, <1>4, <1>5 DEF Reads!Start, Reads!Becomes

LEMMA ReadRecheckEnds ==
  ASSUME ReadInv, NEW c \in Caller, UNCHANGED setting, Reads!RecheckEnds(c)
  PROVE  ReadInv'
<1>1. /\ call[c].pc \in Reads!Leading /\ UNCHANGED <<db, write, trust, closed, floor, missed, kept>>
      /\ UNCHANGED l1
  BY DEF Reads!RecheckEnds, Reads!aside, Reads!apart, Reads!Leading
<1>2. CASE call[c].got # 0
  BY <1>1, <1>2, ReadFound DEF Reads!RecheckEnds
<1>3. CASE call[c].got = 0
  <2> DEFINE nv == aux.negative.version
  <2>1. Reads!End(c, aux, "none", nv) /\ Reads!HasNegative(aux)
    BY <1>3 DEF Reads!RecheckEnds
  <2>2. nv \in Nat /\ \A v : Bar(v) => nv >= v
    BY <2>1, ReadNegative
  <2> HIDE DEF nv
  <2> QED  BY <1>1, <2>1, <2>2, ReadFacts, ReadEnd
<1> QED
  BY <1>2, <1>3

\* Steps that only move the load on.
LEMMA ReadGoesOn ==
  ASSUME ReadInv, NEW c \in Caller, UNCHANGED setting,
         Reads!RecheckMiss(c) \/ Reads!Admitted(c) \/ Reads!LoaderStarts(c)
  PROVE  ReadInv'
<1>1. /\ call[c].pc \in {"rechecking", "queued", "admitted"}
      /\ UNCHANGED <<db, write, trust, closed, floor, missed, kept>> /\ UNCHANGED l1 /\ UNCHANGED joined
      /\ aux' = Reads!PruneNegative(aux)
  BY DEF Reads!RecheckMiss, Reads!Admitted, Reads!LoaderStarts, Reads!aside, Reads!apart
<1>2. call[c].pc \in Reads!Leading /\ CallOK(call[c]) /\ call[c] \in CallRecord
  BY <1>1, ReadFacts DEF Reads!Leading, ReadInv, CallsOK
<1>3. call[c].loaded = 0 /\ Bar(call[c].since)
  BY <1>1, <1>2 DEF CallOK, Bar, CallRecord
<1>4. CASE Reads!Admitted(c)
  <2> DEFINE r == Reads!Reading(c, "admitted")
  <2>1. "admitted" \in Reads!Points /\ "admitted" \in Reads!Leading
    BY DEF Reads!Points, Reads!Leading
  <2>2. /\ r \in CallRecord /\ r.pc = "admitted" /\ r.got = Reads!L1Read /\ r.read
        /\ r.loaded = call[c].loaded /\ r.since = call[c].since /\ r.answer = call[c].answer
    BY <2>1, ReadsAgain
  <2>3. call' = [call EXCEPT ![c] = r]
    BY <1>4 DEF Reads!Admitted, Reads!Becomes
  <2> HIDE DEF r
  <2>4. CallOK(r)
    BY <1>1, <1>2, <1>3, <2>2, ReadL1 DEF CallOK, Serves
  <2>5. r.got = 0 \/ (\A v : Bar(v) => r.got >= v)
    BY <2>2, ReadL1
  <2> QED  BY <1>1, <1>2, <2>1, <2>2, <2>3, <2>4, <2>5, ReadLeads, Zenon
<1>5. ASSUME NEW p \in {"queued", "loading"}, call' = [call EXCEPT ![c] = [call[c] EXCEPT !.pc = p]]
      PROVE  ReadInv'
  <2> DEFINE r == [call[c] EXCEPT !.pc = p]
  <2>1. p \in Reads!Points /\ p \in Reads!Leading
    BY DEF Reads!Points, Reads!Leading
  <2>2. /\ r \in CallRecord /\ r.pc = p /\ r.got = call[c].got /\ r.read = call[c].read /\ r.lead = call[c].lead
        /\ r.loaded = call[c].loaded /\ r.since = call[c].since /\ r.answer = call[c].answer
    BY <1>2, <2>1 DEF CallRecord
  <2>3. call' = [call EXCEPT ![c] = r]
    BY <1>5
  <2> HIDE DEF r
  <2>4. CallOK(r)
    BY <1>1, <1>2, <1>3, <2>2 DEF CallOK, Serves
  <2> QED  BY <1>1, <1>2, <2>1, <2>2, <2>3, <2>4, ReadLeads, Zenon
<1> QED
  BY <1>4, <1>5 DEF Reads!RecheckMiss, Reads!LoaderStarts, Reads!Becomes

LEMMA ReadRefused ==
  ASSUME ReadInv, NEW c \in Caller, UNCHANGED setting, Reads!Refused(c) \/ Reads!LoaderFails(c)
  PROVE  ReadInv'
<1>1. call[c].pc \in Reads!Leading
  BY DEF Reads!Refused, Reads!LoaderFails, Reads!Leading
<1> QED
  BY <1>1, ReadFail DEF Reads!Refused, Reads!LoaderFails, Reads!aside, Reads!apart

\* The loader sees the present version, which reaches every bar.
LEMMA ReadLoads ==
  ASSUME ReadInv, NEW c \in Caller, UNCHANGED setting, Reads!LoaderReads(c)
  PROVE  ReadInv'
<1>1. /\ call[c].pc = "loading" /\ call[c].loaded = 0 /\ aux' = aux
      /\ UNCHANGED <<db, write, trust, closed, floor, missed, kept>> /\ UNCHANGED l1 /\ UNCHANGED joined
      /\ call' = [call EXCEPT ![c] = [call[c] EXCEPT !.loaded = db]]
  BY DEF Reads!LoaderReads, Reads!aside, Reads!apart, Reads!Becomes
<1>2. call[c].pc \in Reads!Leading /\ CallOK(call[c]) /\ call[c] \in CallRecord
  BY <1>1, ReadFacts DEF Reads!Leading, ReadInv, CallsOK
<1>3. Bar(call[c].since) /\ call[c].answer.what = "pending"
  BY <1>1, <1>2 DEF CallOK, Bar, CallRecord
<1> DEFINE r == [call[c] EXCEPT !.loaded = db]
<1>4. /\ r \in CallRecord /\ r.pc = call[c].pc /\ r.got = call[c].got /\ r.read = call[c].read
      /\ r.loaded = db /\ r.since = call[c].since /\ r.answer = call[c].answer
  BY <1>2, ReadFacts DEF CallRecord
<1>5. call' = [call EXCEPT ![c] = r]
  BY <1>1
<1> HIDE DEF r
<1>6. \A v : Bar(v) => db >= v
  BY ReadFacts DEF Bar
<1>7. Current(db) /\ db >= kept /\ db >= write.version
  BY ReadFacts DEF Current, ReadInv, WriteOK
<1>8. CallOK(r)
  BY <1>1, <1>2, <1>3, <1>4, <1>6, <1>7 DEF CallOK, Serves
<1>9. r.loaded = call[c].loaded \/ r.loaded = 0 \/ (\A v : Bar(v) => r.loaded >= v)
  BY <1>4, <1>6
<1> QED
  BY <1>1, <1>2, <1>4, <1>5, <1>8, <1>9, ReadLeads, Zenon

\* No value: a load that still counts says so, and the stale copy may answer.
LEMMA ReadFindsNone ==
  ASSUME ReadInv, NEW c \in Caller, UNCHANGED setting, Reads!LoaderFindsNone(c)
  PROVE  ReadInv'
<1> DEFINE lv == call[c].loaded
<1>1. /\ call[c].pc \in Reads!Leading /\ UNCHANGED <<db, write, trust, closed, floor, missed, kept>>
      /\ UNCHANGED l1 /\ lv \in setting.gone
  BY DEF Reads!LoaderFindsNone, Reads!aside, Reads!apart, Reads!Leading
<1>2. lv \in Nat /\ lv # 0 /\ CallOK(call[c])
  <2>1. setting.gone \subseteq Nat \ {0}
    BY DEF ReadInv, ReadTypes, Reads!Setting
  <2> QED  BY <1>1, <2>1 DEF ReadInv, CallsOK
<1>3. \A v : Bar(v) /\ Serves(call[c], v) => lv >= v
  BY <1>2 DEF Serves
<1>4. CASE ~call[c].lead
  <2>1. Reads!End(c, aux, "none", lv)
    BY <1>4 DEF Reads!LoaderFindsNone
  <2> HIDE DEF lv
  <2> QED  BY <1>1, <1>2, <1>3, <2>1, ReadFacts, ReadEnd
<1>5. CASE call[c].lead
  <2>1. PICK ok \in setting.room :
          LET a == Reads!PruneStale(Reads!SetNegative(aux, lv, ok)) IN
          IF Reads!HasStale(a) THEN Reads!End(c, a, "value", a.stale.version)
                               ELSE Reads!End(c, a, "none", lv)
    BY <1>5 DEF Reads!LoaderFindsNone
  <2>2. Current(lv) /\ lv >= kept
    BY <1>2, <1>5 DEF CallOK
  <2> HIDE DEF lv
  <2> DEFINE b == Reads!SetNegative(aux, lv, ok)
             a == Reads!PruneStale(b)
  <2>3. /\ b \in AuxRecord /\ b.flight = aux.flight /\ b.stale = aux.stale
        /\ b.negative.version \in {0, lv, aux.negative.version}
    BY <1>2, ReadFacts, Keeping
  <2>4. IF Reads!HasStale(a) THEN Reads!End(c, a, "value", a.stale.version)
                             ELSE Reads!End(c, a, "none", lv)
    BY <2>1
  <2> HIDE DEF b
  <2>5. /\ a \in AuxRecord /\ a.flight = b.flight /\ a.negative = b.negative
        /\ a.stale.version \in {0, b.stale.version}
    BY <2>3, Pruning
  <2> HIDE DEF a
  <2>6. /\ a.flight = aux.flight /\ a.stale.version \in {0, aux.stale.version}
        /\ \/ a.negative.version \in {0, aux.negative.version}
           \/ Current(a.negative.version) /\ a.negative.version >= kept
    BY <2>2, <2>3, <2>5
  <2>7. CASE Reads!HasStale(a)
    <3> DEFINE sv == a.stale.version
    <3>1. Reads!Trusted /\ sv = aux.stale.version /\ sv # 0
      BY <2>6, <2>7 DEF Reads!HasStale
    <3>2. Current(sv) /\ sv \in Nat
      BY <3>1, ReadFacts DEF ReadInv, CopiesOK
    <3>3. Reads!End(c, a, "value", sv)
      BY <2>4, <2>7
    <3> HIDE DEF sv
    <3>4. \A v : Bar(v) => sv >= v
      BY <3>1, <3>2, TrustedReaches
    <3> QED  BY <1>1, <2>5, <2>6, <3>2, <3>3, <3>4, ReadEnd
  <2>8. CASE ~Reads!HasStale(a)
    <3>1. Reads!End(c, a, "none", lv)
      BY <2>4, <2>8
    <3> QED  BY <1>1, <1>2, <1>3, <2>5, <2>6, <3>1, ReadEnd DEF lv
  <2> QED  BY <2>7, <2>8
<1> QED
  BY <1>4, <1>5

\* A value goes to L1 only while the load's guards are current.
LEMMA ReadFinds ==
  ASSUME ReadInv, NEW c \in Caller, UNCHANGED setting, Reads!LoaderFinds(c)
  PROVE  ReadInv'
<1> DEFINE lv == call[c].loaded
<1>1. /\ call[c].pc = "loading" /\ UNCHANGED <<db, write, trust, closed, floor, missed, kept>>
  BY DEF Reads!LoaderFinds, Reads!aside, Reads!apart
<1>2. call[c].pc \in Reads!Leading /\ CallOK(call[c]) /\ call[c] \in CallRecord
  BY <1>1, ReadFacts DEF Reads!Leading, ReadInv, CallsOK
<1>3. lv \in Nat /\ lv # 0
  <2>1. lv \in 1..setting.maxVersion /\ setting.maxVersion \in Nat
    BY DEF Reads!LoaderFinds, ReadInv, ReadTypes, Reads!Setting
  <2> QED  BY <2>1
<1>4. \A v : Bar(v) /\ Serves(call[c], v) => lv >= v
  BY <1>3 DEF Serves
<1>5. CASE ~call[c].lead
  <2>1. Reads!End(c, aux, "value", lv) /\ UNCHANGED l1
    BY <1>5 DEF Reads!LoaderFinds
  <2> HIDE DEF lv
  <2> QED  BY <1>1, <1>2, <1>3, <1>4, <2>1, ReadFacts, ReadEnd
<1>6. CASE call[c].lead
  <2> DEFINE r == [call[c] EXCEPT !.pc = "stored"]
  <2>1. /\ l1' = lv /\ aux' = aux /\ joined' = joined /\ call' = [call EXCEPT ![c] = r]
    BY <1>6 DEF Reads!LoaderFinds, Reads!Becomes
  <2>2. Current(lv)
    BY <1>2, <1>3, <1>6 DEF CallOK
  <2>3. "stored" \in Reads!Points /\ "stored" \in Reads!Leading
    BY DEF Reads!Points, Reads!Leading
  <2>4. /\ r \in CallRecord /\ r.pc = "stored" /\ r.got = call[c].got /\ r.read = call[c].read
        /\ r.lead = call[c].lead /\ r.loaded = lv /\ r.since = call[c].since /\ r.answer = call[c].answer
    BY <1>2, <2>3 DEF CallRecord
  <2> HIDE DEF r
  <2>5. CallOK(r)
    BY <1>1, <1>2, <1>3, <2>4 DEF CallOK, Serves
  <2>6. GoesOn(call[c], r)
    BY <2>4 DEF GoesOn, Serves
  <2>7. CopiesOK'
    BY <1>1, <2>1, <2>2, CopiesKept
  <2>8. joined' \subseteq {aux'.flight.by} \ {Nobody} /\ aux' \in AuxRecord /\ l1' \in Nat
    BY <1>3, <2>1, ReadFacts
  <2>9. aux'.flight.by \in {Nobody, aux.flight.by} /\ call[c].pc # "done" /\ r.pc \in Reads!Leading
        /\ r.pc \notin {"following", "reading"}
    BY <1>1, <2>1, <2>3, <2>4
  <2> HIDE DEF lv
  <2> QED  BY <1>1, <2>1, <2>4, <2>5, <2>6, <2>7, <2>8, <2>9, ReadMove, Zenon
<1> QED
  BY <1>5, <1>6

LEMMA ReadStored ==
  ASSUME ReadInv, NEW c \in Caller, UNCHANGED setting, Reads!Stored(c)
  PROVE  ReadInv'
<1> DEFINE lv == call[c].loaded
<1>1. /\ call[c].pc = "stored" /\ UNCHANGED <<db, write, trust, closed, floor, missed, kept>>
      /\ UNCHANGED l1
  BY DEF Reads!Stored, Reads!aside, Reads!apart
<1>2. call[c].pc \in Reads!Leading /\ CallOK(call[c]) /\ call[c] \in CallRecord
  BY <1>1, ReadFacts DEF Reads!Leading, ReadInv, CallsOK
<1>3. lv \in Nat /\ lv # 0
  BY <1>1, <1>2 DEF CallOK, CallRecord
<1>4. \A v : Bar(v) /\ Serves(call[c], v) => lv >= v
  BY <1>3 DEF Serves
<1>5. call[c].lead => Current(lv)
  BY <1>2, <1>3 DEF CallOK
<1>6. PICK ok \in setting.room :
        Reads!End(c, IF call[c].lead THEN Reads!RemoveNegative(Reads!RememberStale(aux, lv, ok)) ELSE aux,
                  "value", lv)
  BY DEF Reads!Stored
<1> HIDE DEF lv
<1> DEFINE b == Reads!RememberStale(aux, lv, ok)
           d == Reads!RemoveNegative(b)
           a == IF call[c].lead THEN d ELSE aux
<1>7. /\ b \in AuxRecord /\ b.flight = aux.flight /\ b.stale.version \in {0, lv, aux.stale.version}
  BY <1>3, ReadFacts, Keeping
<1>8. Reads!End(c, a, "value", lv)
  BY <1>6
<1> HIDE DEF b
<1>9. d \in AuxRecord /\ d.flight = b.flight /\ d.stale = b.stale /\ d.negative.version = 0
  BY <1>7, Removals
<1> HIDE DEF d
<1>10. /\ a \in AuxRecord /\ a.flight = aux.flight /\ a.negative.version \in {0, aux.negative.version}
       /\ a.stale.version \in {0, aux.stale.version} \/ Current(a.stale.version)
  BY <1>5, <1>7, <1>9, ReadFacts
<1> HIDE DEF a
<1> QED
  BY <1>1, <1>2, <1>3, <1>4, <1>8, <1>10, ReadEnd

\* A follower has the answer of the load it joined.
LEMMA ReadResumes ==
  ASSUME ReadInv, NEW c \in Caller, UNCHANGED setting, Reads!FollowerResumes(c)
  PROVE  ReadInv'
<1> DEFINE L == call[c].follows
           ans == call[L].answer
           r == [call[c] EXCEPT !.pc = "done", !.answer = ans]
           b == [aux EXCEPT !.followers = aux.followers - 1, !.reserved = aux.reserved - 1]
<1>1. /\ call[c].pc = "following" /\ call[L].pc = "done" /\ aux' = b /\ call' = [call EXCEPT ![c] = r]
      /\ UNCHANGED <<db, write, trust, closed, floor, missed, kept>> /\ UNCHANGED l1 /\ joined' = joined
  BY DEF Reads!FollowerResumes, Reads!aside, Reads!apart, Reads!Becomes
<1>2. L \in Caller /\ Serves(call[L], call[c].since) /\ CallOK(call[c]) /\ call[c] \in CallRecord
  BY <1>1, ReadFacts DEF ReadInv, FollowsOK, CallsOK
<1> HIDE DEF L
<1>3. ans \in Answer /\ (ans.what \in {"value", "none"} => ans.version >= call[c].since)
  BY <1>2, ReadFacts DEF CallRecord, Serves
<1> HIDE DEF ans
<1>4. /\ r \in CallRecord /\ r.pc = "done" /\ r.answer = ans /\ r.got = call[c].got
      /\ r.loaded = call[c].loaded /\ r.lead = call[c].lead /\ r.read = call[c].read
      /\ r.since = call[c].since
  BY <1>2, <1>3, Zenon DEF CallRecord, Reads!Points
<1> HIDE DEF r
<1>5. CallOK(r)
  BY <1>2, <1>3, <1>4 DEF CallOK, Serves
<1>6. b \in AuxRecord
  <2>1. aux.followers - 1 \in Int /\ aux.reserved - 1 \in Int /\ aux \in AuxRecord
    BY ReadFacts DEF AuxRecord
  <2> QED  BY <2>1, Zenon DEF AuxRecord
<1>7. b.flight = aux.flight /\ b.stale = aux.stale /\ b.negative = aux.negative
  BY ReadFacts DEF AuxRecord
<1> HIDE DEF b
<1>8. CopiesOK'
  BY <1>1, <1>7, CopiesKept
<1>9. aux.flight.by # c
  BY <1>1, ReadFacts DEF ReadInv, FlightOK, Reads!Leading
<1>10. /\ aux'.flight.by \in {Nobody, aux.flight.by} /\ aux'.flight.by # c /\ aux' \in AuxRecord
       /\ l1' \in Nat /\ joined' \subseteq {aux'.flight.by} \ {Nobody}
  BY <1>1, <1>6, <1>7, <1>9, ReadFacts
<1>11. call[c].pc # "done" /\ call[c].pc \notin Reads!Leading /\ r.pc \notin {"following", "reading"}
  BY <1>1, <1>4 DEF Reads!Leading
<1> QED
  BY <1>1, <1>4, <1>5, <1>8, <1>10, <1>11, ReadMove, Zenon

\* The loads that are still joined once an expired entry is gone.
LEMMA PrunedLoads ==
  ASSUME ReadInv
  PROVE  /\ Reads!Pruned \subseteq joined
         /\ aux.flight.expired \/ aux.flight.by = Nobody => Reads!Pruned = {}
BY ReadFacts DEF Reads!Pruned

LEMMA ReadCalls ==
  ASSUME ReadInv, NEW c \in Caller, UNCHANGED setting, Reads!GetOrSet(c)
  PROVE  ReadInv'
<1> DEFINE a == Reads!PruneInflight(aux)
           since == IF Reads!Trusted /\ missed > floor THEN missed ELSE floor
<1>1. /\ call[c].pc = "idle" /\ UNCHANGED <<db, write, trust, closed, floor, missed, kept>> /\ UNCHANGED l1
      /\ joined' = Reads!Pruned
  BY DEF Reads!GetOrSet, Reads!aside, Reads!apart
<1>2. IF a.flight.by # Nobody
      THEN Reads!Join(c, a, [call[c] EXCEPT !.since = since])
      ELSE /\ aux' = Reads!PruneNegative(a)
           /\ call' = [call EXCEPT ![c] = [Reads!Reading(c, "reading") EXCEPT !.since = since]]
  BY DEF Reads!GetOrSet, Reads!Becomes
<1>3. call[c] \in CallRecord /\ CallOK(call[c])
  BY ReadFacts DEF ReadInv, CallsOK
<1>4. call[c].got = 0 /\ call[c].loaded = 0 /\ call[c].answer.what = "pending"
  BY <1>1, <1>3 DEF CallOK
<1>5. since \in Nat /\ Bar(since) /\ (since = floor \/ (since = missed /\ trust # "away"))
  BY ReadFacts DEF Bar, Reads!Trusted
<1>6. /\ a \in AuxRecord /\ a.flight.by = (IF aux.flight.expired THEN Nobody ELSE aux.flight.by)
      /\ a.stale = aux.stale /\ a.negative = aux.negative
  BY ReadFacts, Pruning
<1> HIDE DEF a, since
<1>7. CASE a.flight.by # Nobody
  <2> DEFINE r == [call[c] EXCEPT !.since = since]
  <2>1. /\ r \in CallRecord /\ r.pc = call[c].pc /\ r.got = 0 /\ r.loaded = 0 /\ r.since = since
        /\ r.answer = call[c].answer
    BY <1>3, <1>4, <1>5 DEF CallRecord
  <2>2. Reads!Join(c, a, r)
    BY <1>2, <1>7
  <2> HIDE DEF r
  <2>3. CallOK(r)
    BY <1>1, <1>4, <1>5, <2>1 DEF CallOK, Serves, Bar
  <2>4. a.flight.by = aux.flight.by /\ aux.flight.by # Nobody
    BY <1>6, <1>7
  <2>5. Serves(call[aux.flight.by], r.since)
    BY <1>5, <2>1, <2>4 DEF ReadInv, FlightOK
  <2>6. joined' \subseteq joined
    BY <1>1, PrunedLoads
  <2> QED  BY <1>1, <1>6, <2>1, <2>2, <2>3, <2>4, <2>5, <2>6, ReadJoins
<1>8. CASE a.flight.by = Nobody
  <2> DEFINE q == Reads!Reading(c, "reading")
             r == [q EXCEPT !.since = since]
             b == Reads!PruneNegative(a)
  <2>1. "reading" \in Reads!Points /\ call[c].pc \notin Reads!Leading
    BY <1>1 DEF Reads!Points, Reads!Leading
  <2>2. /\ q \in CallRecord /\ q.pc = "reading" /\ q.got = Reads!L1Read /\ q.read
        /\ q.loaded = call[c].loaded /\ q.answer = call[c].answer
    BY <2>1, ReadsAgain
  <2>3. call' = [call EXCEPT ![c] = r] /\ aux' = b
    BY <1>2, <1>8
  <2> HIDE DEF q
  <2>4. /\ r \in CallRecord /\ r.pc = q.pc /\ r.got = q.got /\ r.loaded = q.loaded
        /\ r.since = since /\ r.answer = q.answer
    BY <1>5, <2>2 DEF CallRecord
  <2> HIDE DEF r
  <2>5. CallOK(r)
    BY <1>4, <1>5, <2>2, <2>4, ReadL1 DEF CallOK, Serves, Bar
  <2>6. /\ b \in AuxRecord /\ b.flight = a.flight /\ b.stale = a.stale
        /\ b.negative.version \in {0, a.negative.version}
    BY <1>6, Pruning
  <2> HIDE DEF b
  <2>7. CopiesOK'
    <3>1. /\ aux'.stale.version \in {0, aux.stale.version} /\ l1' \in {0, l1}
          /\ aux'.negative.version \in {0, aux.negative.version}
      BY <1>1, <1>6, <2>3, <2>6
    <3> QED  BY <1>1, <3>1, CopiesKept
  <2>8. joined' \subseteq {aux'.flight.by} \ {Nobody}
    BY <1>1, <1>6, <1>8, PrunedLoads
  <2>9. /\ aux' \in AuxRecord /\ l1' \in Nat /\ call[c].pc # "done" /\ r.pc = "reading"
        /\ aux'.flight.by = Nobody /\ aux'.flight.by # c
    BY <1>1, <1>8, <2>2, <2>3, <2>4, <2>6, ReadFacts
  <2> QED  BY <1>1, <2>1, <2>3, <2>4, <2>5, <2>7, <2>8, <2>9, ReadMove, Zenon
<1> QED
  BY <1>7, <1>8

LEMMA ReadMisses ==
  ASSUME ReadInv, NEW c \in Caller, UNCHANGED setting, Reads!ReadMiss(c)
  PROVE  ReadInv'
<1> DEFINE n == Reads!PruneNegative(aux)
           a == Reads!PruneInflight(n)
           r == [call[c] EXCEPT !.pc = "starting"]
<1>1. /\ call[c].pc = "reading" /\ call[c].got = 0
      /\ UNCHANGED <<db, write, trust, closed, floor, missed, kept>> /\ UNCHANGED l1
  BY DEF Reads!ReadMiss, Reads!aside, Reads!apart
<1>2. IF a.flight.by # Nobody THEN Reads!Join(c, a, call[c]) /\ joined' = Reads!Pruned
      ELSE \E ok \in setting.room :
             /\ aux' = IF ok THEN Reads!Registered(a, c) ELSE a
             /\ joined' = IF ok THEN Reads!Pruned \cup {c} ELSE Reads!Pruned
             /\ call' = [call EXCEPT ![c] = r]
  BY DEF Reads!ReadMiss, Reads!Becomes
<1>3. call[c] \in CallRecord /\ CallOK(call[c])
  BY ReadFacts DEF ReadInv, CallsOK
<1>4. call[c].loaded = 0 /\ call[c].answer.what = "pending"
  BY <1>1, <1>3 DEF CallOK
<1>5. n \in AuxRecord /\ n.flight = aux.flight /\ n.stale = aux.stale
      /\ n.negative.version \in {0, aux.negative.version}
  BY ReadFacts, Pruning
<1> HIDE DEF n
<1>6. /\ a \in AuxRecord /\ a.flight.by = (IF aux.flight.expired THEN Nobody ELSE aux.flight.by)
      /\ a.stale = aux.stale /\ a.negative.version \in {0, aux.negative.version}
  BY <1>5, Pruning
<1> HIDE DEF a
<1>7. CASE a.flight.by # Nobody
  <2>1. a.flight.by = aux.flight.by /\ aux.flight.by # Nobody
    BY <1>6, <1>7
  <2>2. Serves(call[aux.flight.by], call[c].since)
    BY <1>1, <2>1 DEF ReadInv, FlightOK
  <2>3. Reads!Join(c, a, call[c]) /\ joined' \subseteq joined
    BY <1>2, <1>7, PrunedLoads
  <2> QED  BY <1>1, <1>3, <1>4, <1>6, <2>1, <2>2, <2>3, ReadJoins
<1>8. CASE a.flight.by = Nobody
  <2> DEFINE f == [a.flight EXCEPT !.by = c]
             b == [a EXCEPT !.flight = f, !.reserved = a.reserved + 1]
  <2>1. PICK ok \in setting.room :
             /\ aux' = IF ok THEN Reads!Registered(a, c) ELSE a
             /\ joined' = IF ok THEN Reads!Pruned \cup {c} ELSE Reads!Pruned
             /\ call' = [call EXCEPT ![c] = r]
    BY <1>2, <1>8
  <2>2. Reads!Registered(a, c) = b
    BY <1>6 DEF Reads!Registered, AuxRecord
  <2>3. f \in Flight /\ f.by = c
    <3>1. a.flight \in Flight
      BY <1>6 DEF AuxRecord
    <3> QED  BY <3>1 DEF Flight
  <2> HIDE DEF f
  <2>4. b \in AuxRecord
    <3>1. a.reserved + 1 \in Int
      BY <1>6 DEF AuxRecord
    <3> QED  BY <1>6, <2>3, <3>1, Zenon DEF AuxRecord
  <2>5. b.flight = f /\ b.stale = a.stale /\ b.negative = a.negative
    BY <1>6 DEF AuxRecord
  <2> HIDE DEF b
  <2>6. "starting" \in Reads!Points /\ "starting" \in Reads!Leading /\ call[c].pc \notin Reads!Leading
    BY <1>1 DEF Reads!Points, Reads!Leading
  <2>7. /\ r \in CallRecord /\ r.pc = "starting" /\ r.got = 0 /\ r.loaded = 0
        /\ r.since = call[c].since /\ r.answer = call[c].answer
    BY <1>1, <1>3, <1>4, <2>6 DEF CallRecord
  <2> HIDE DEF r
  <2>8. CallOK(r)
    BY <1>3, <1>4, <2>7 DEF CallOK, Serves
  <2>9. /\ aux' \in AuxRecord /\ aux'.stale = a.stale /\ aux'.negative = a.negative
        /\ aux'.flight.by = (IF ok THEN c ELSE Nobody)
    BY <1>6, <1>8, <2>1, <2>2, <2>3, <2>4, <2>5
  <2>10. CopiesOK'
    <3>1. /\ aux'.stale.version \in {0, aux.stale.version} /\ l1' \in {0, l1}
          /\ aux'.negative.version \in {0, aux.negative.version}
      BY <1>1, <1>6, <2>9
    <3> QED  BY <1>1, <3>1, CopiesKept
  <2>11. joined' \subseteq {aux'.flight.by} \ {Nobody}
    BY <1>6, <1>8, <2>1, <2>9, PrunedLoads, ReadFacts
  <2>12. /\ l1' \in Nat /\ call[c].pc # "done" /\ r.pc \in Reads!Leading /\ r.pc \notin {"reading", "following"}
         /\ \/ aux'.flight.by \in {Nobody, aux.flight.by}
            \/ aux'.flight.by = c /\ r.got = 0 /\ r.loaded = 0
    BY <1>1, <2>6, <2>7, <2>9, ReadFacts
  <2> QED  BY <1>1, <2>1, <2>6, <2>7, <2>8, <2>9, <2>10, <2>11, <2>12, ReadMove, Zenon
<1> QED
  BY <1>7, <1>8

LEMMA ReadUnchanged == ASSUME ReadInv, UNCHANGED readVars PROVE ReadInv'
<1> USE DEF readVars
<1>1. ReadTypes' /\ WriteOK' /\ CopiesOK'
  BY DEF ReadInv, ReadTypes, WriteOK, CopiesOK, Current
<1>2. CallsOK'
  BY SMTT(60) DEF ReadInv, CallsOK, CallOK, Current, Serves
<1>3. FollowsOK' /\ FlightOK' /\ JoinedOK'
  BY DEF ReadInv, FollowsOK, FlightOK, JoinedOK, Serves
<1> QED
  BY <1>1, <1>2, <1>3 DEF ReadInv

LEMMA ReadStep == ASSUME ReadInv, [Next]_vars PROVE ReadInv'
<1>1. CASE UNCHANGED readVars
  BY <1>1, ReadUnchanged
<1>2. CASE Reads!Next
  <2>1. UNCHANGED setting
    BY <1>2 DEF Reads!Next
  <2>2. setting.callers \subseteq Caller
    BY DEF ReadInv, ReadTypes, Reads!Setting
  <2>3. ASSUME NEW c \in setting.callers,
               \/ Reads!GetOrSet(c) \/ Reads!Progress(c) \/ Reads!Admitted(c)
               \/ Reads!LoaderReads(c) \/ Reads!LoaderFindsNone(c) \/ Reads!LoaderFinds(c)
        PROVE  ReadInv'
    <3>1. c \in Caller
      BY <2>2
    <3> QED
      BY <2>1, <2>3, <3>1, ReadCalls, ReadHitStep, ReadEndsStep, ReadMisses, ReadResumes, ReadStart,
         ReadRecheckEnds, ReadGoesOn, ReadRefused, ReadLoads, ReadFindsNone, ReadFinds, ReadStored
      DEF Reads!Progress
  <2>4. CASE Reads!Delete \/ Reads!OtherPattern \/ Reads!Set \/ Reads!SetSettles
    BY <2>1, <2>4, ReadDelete, ReadOtherPattern, ReadSet, ReadSetSettles
  <2>5. CASE Reads!StreamLost \/ Reads!StreamBack \/ Reads!Close
    BY <2>1, <2>5, ReadStream
  <2>6. CASE Reads!TrustRestored \/ Reads!DeleteMissed \/ Reads!OriginWrite
    BY <2>1, <2>6, ReadElsewhere
  <2>7. CASE Reads!Evicted \/ Reads!Expires
    BY <2>1, <2>7, ReadLapses
  <2> QED
    BY <1>2, <2>3, <2>4, <2>5, <2>6, <2>7 DEF Reads!Next
<1> QED
  BY <1>1, <1>2 DEF Next, vars

LEMMA ReadSafe == ASSUME ReadInv PROVE AnswersFresh /\ CopiesFresh /\ SetNotHidden /\ OneLoad
<1>1. AnswersFresh
  BY DEF ReadInv, CallsOK, CallOK, Serves, AnswersFresh, Reads!AnswersFresh, Reads!AnswerFresh
<1>2. CopiesFresh
  BY ReadFacts DEF ReadInv, CopiesOK, Current, CopiesFresh, Reads!NothingOlder, Reads!Trusted
<1>3. SetNotHidden
  BY DEF ReadInv, CopiesOK, SetNotHidden, Reads!SetNotHidden
<1>4. OneLoad
  <2>1. joined = {} \/ joined = {aux.flight.by}
    BY ReadFacts
  <2>2. Cardinality(joined) <= 1
    <3>1. Cardinality({}) = 0 /\ Cardinality({aux.flight.by}) = 1
      BY FS_EmptySet, FS_Singleton, Zenon
    <3> QED  BY <2>1, <3>1
  <2>3. Reads!Cardinality(joined) = Cardinality(joined)
    BY DEF Reads!Cardinality, Cardinality, Reads!IsFiniteSet, IsFiniteSet
  <2> QED  BY <2>2, <2>3 DEF OneLoad, Reads!OneFlight
<1> QED
  BY <1>1, <1>2, <1>3, <1>4

\* Calls that overlap share one load of a key and one discovery of a connection, however many
\* calls, mutations, outages and expiries there are: joinInflight and the registry's pending
\* promise.  Left out, because the code lets go of the flight on purpose: a load that an expiry,
\* an invalidation or a refusal of room detached, and a discovery begun before the application
\* called invalidate() or close().
THEOREM OneFlightAtATime == Spec => []OneFlight
<1>1. Init => ReadInv /\ CapInv
  BY ReadInitially, CapInitially DEF Init
<1>2. ReadInv /\ CapInv /\ [Next]_vars => ReadInv' /\ CapInv'
  BY ReadStep, CapStep
<1>3. ReadInv /\ CapInv => OneFlight
  BY ReadSafe, CapSafe DEF OneFlight
<1> QED
  BY <1>1, <1>2, <1>3, PTL DEF Spec

-----------------------------------------------------------------------------
(* The L1 stores: an entry that a set or a delete made obsolete is expired, so no read sees it. *)

FreshEntry == {e \in Memory!Entry : e.old => e.expired}
MemInv == lru \in [Store -> Seq(FreshEntry)]

LEMMA MemConstants == MaxEntries \in Nat \ {0} /\ MaxEvictionsPerWrite \in Nat /\ EvictionsPerSample \in Nat
BY LocalAssumption DEF Memory!MemoryAssumption

LEMMA MemPicked ==
  ASSUME NEW S, NEW q \in Seq(S), NEW P, P \subseteq DOMAIN q
  PROVE  /\ Memory!Picked(q, P) \in Seq(S) /\ (Memory!Picked(q, P) = <<>> => P = {})
         /\ \A i \in DOMAIN Memory!Picked(q, P) : \E p \in P : Memory!Picked(q, P)[i] = q[p]
<1>1. Memory!Picked(q, P) = Picked(q, P)
  BY DEF Memory!Picked, Picked, Memory!Nth, Nth, Memory!Cardinality, Cardinality, Memory!IsFiniteSet, IsFiniteSet
<1> QED
  BY <1>1, PickedPlaces

\* The entries a key has, and those the others have, are entries of the store.
LEMMA MemParts ==
  ASSUME NEW q \in Seq(FreshEntry), NEW k
  PROVE  /\ Memory!Others(q, k) \in Seq(FreshEntry) /\ Memory!Visible(q, k) \in Seq(FreshEntry)
         /\ Memory!Visible(q, k) = <<>> => \A i \in DOMAIN q : q[i].key = k => q[i].expired
<1>1. /\ DOMAIN q \ Memory!At(q, k) \subseteq DOMAIN q
      /\ {i \in Memory!At(q, k) : ~q[i].expired} \subseteq DOMAIN q
  BY DEF Memory!At
<1>2. Memory!Others(q, k) \in Seq(FreshEntry)
  BY <1>1, MemPicked DEF Memory!Others
<1>3. /\ Memory!Visible(q, k) \in Seq(FreshEntry)
      /\ Memory!Visible(q, k) = <<>> => {i \in Memory!At(q, k) : ~q[i].expired} = {}
  BY <1>1, MemPicked DEF Memory!Visible
<1>4. Memory!Visible(q, k) = <<>> => \A i \in DOMAIN q : q[i].key = k => q[i].expired
  BY <1>3 DEF Memory!At
<1> QED
  BY <1>2, <1>3, <1>4

\* Marking entries of q as old, or as expired, leaves fresh ones where the old are expired.
LEMMA MemMarked ==
  ASSUME NEW q \in Seq(FreshEntry), NEW t, DOMAIN t = DOMAIN q, t = [i \in DOMAIN q |-> t[i]],
         \A i \in DOMAIN q : t[i] \in FreshEntry
  PROVE  t \in Seq(FreshEntry)
<1>1. DOMAIN q = 1..Len(q) /\ Len(q) \in Nat
  OBVIOUS
<1>2. t \in [1..Len(q) -> FreshEntry]
  BY <1>1
<1> QED
  BY <1>1, <1>2, FunctionIsSeq

LEMMA MemSuperseded ==
  ASSUME NEW q \in Seq(FreshEntry), NEW k, \A i \in DOMAIN q : q[i].key = k => q[i].expired
  PROVE  Memory!Supersede(q, k) \in Seq(FreshEntry)
<1> DEFINE t == Memory!Supersede(q, k)
<1>1. t = [i \in DOMAIN q |-> IF q[i].key = k THEN [q[i] EXCEPT !.old = TRUE] ELSE q[i]]
  BY DEF Memory!Supersede
<1>2. ASSUME NEW i \in DOMAIN q PROVE t[i] \in FreshEntry
  <2>1. q[i] \in FreshEntry /\ t[i] = IF q[i].key = k THEN [q[i] EXCEPT !.old = TRUE] ELSE q[i]
    BY <1>1
  <2> DEFINE e == q[i]
             o == [e EXCEPT !.old = TRUE]
  <2>2. e \in Memory!Entry
    BY <2>1 DEF FreshEntry
  <2>3. o \in Memory!Entry /\ o.expired = e.expired
    BY <2>2, Zenon DEF Memory!Entry
  <2> HIDE DEF e, o
  <2>4. e.expired => o \in FreshEntry
    BY <2>3, Zenon DEF FreshEntry
  <2> QED  BY <2>1, <2>4 DEF e, o
<1> QED
  BY <1>1, <1>2, MemMarked

LEMMA MemExpired ==
  ASSUME NEW q \in Seq(FreshEntry), NEW k
  PROVE  Memory!Expired(q, k) \in Seq(FreshEntry)
<1> DEFINE t == Memory!Expired(q, k)
<1>1. t = [i \in DOMAIN q |-> IF q[i].key = k THEN [q[i] EXCEPT !.expired = TRUE] ELSE q[i]]
  BY DEF Memory!Expired
<1>2. ASSUME NEW i \in DOMAIN q PROVE t[i] \in FreshEntry
  <2>1. q[i] \in FreshEntry /\ t[i] = IF q[i].key = k THEN [q[i] EXCEPT !.expired = TRUE] ELSE q[i]
    BY <1>1
  <2> DEFINE e == q[i]
             o == [e EXCEPT !.expired = TRUE]
  <2>2. e \in Memory!Entry
    BY <2>1 DEF FreshEntry
  <2>3. o \in Memory!Entry /\ o.expired
    BY <2>2, Zenon DEF Memory!Entry
  <2> HIDE DEF e, o
  <2>4. o \in FreshEntry
    BY <2>3 DEF FreshEntry
  <2> QED  BY <2>1, <2>4 DEF e, o
<1> QED
  BY <1>1, <1>2, MemMarked

LEMMA MemChanged ==
  ASSUME MemInv, NEW s \in Store, NEW q \in Seq(FreshEntry), lru' = [lru EXCEPT ![s] = q]
  PROVE  MemInv'
BY DEF MemInv

\* A set that is refused, or not worth an eviction.
LEMMA MemSetRefused ==
  ASSUME MemInv, NEW s \in Store, NEW k \in Key, NEW n \in Bytes,
         Memory!SetRefused(s, k, n) \/ Memory!SetUnworthy(s, k, n)
  PROVE  MemInv'
<1>1. lru[s] \in Seq(FreshEntry)
  BY DEF MemInv
<1>2. CASE Memory!SetRefused(s, k, n)
  <2>1. lru' = [lru EXCEPT ![s] = Memory!Others(lru[s], k)]
    BY <1>2 DEF Memory!SetRefused, Memory!Keeps
  <2>2. Memory!Others(lru[s], k) \in Seq(FreshEntry)
    BY <1>1, MemParts
  <2> QED  BY <2>1, <2>2, MemChanged, Zenon
<1>3. CASE Memory!SetUnworthy(s, k, n)
  <2>1. lru' = [lru EXCEPT ![s] = Memory!Supersede(lru[s], k)] /\ Memory!Visible(lru[s], k) = <<>>
    BY <1>3 DEF Memory!SetUnworthy, Memory!Keeps
  <2>2. \A i \in DOMAIN lru[s] : lru[s][i].key = k => lru[s][i].expired
    BY <1>1, <2>1, MemParts
  <2>3. Memory!Supersede(lru[s], k) \in Seq(FreshEntry)
    BY <1>1, <2>2, MemSuperseded
  <2> QED  BY <2>1, <2>3, MemChanged, Zenon
<1> QED
  BY <1>2, <1>3

LEMMA MemSuffix ==
  ASSUME NEW q \in Seq(FreshEntry), NEW m \in Nat, m <= Len(q)
  PROVE  SubSeq(q, m + 1, Len(q)) \in Seq(FreshEntry)
<1>1. m + 1 \in 1..(Len(q) + 1) /\ Len(q) \in m..Len(q)
  OBVIOUS
<1> QED
  BY <1>1, SubSeqProperties

LEMMA MemSetAdmitted ==
  ASSUME MemInv, NEW s \in Store, NEW k \in Key, NEW n \in Bytes, Memory!SetAdmitted(s, k, n)
  PROVE  MemInv'
<1> DEFINE q == Memory!Others(lru[s], k)
           freed(i) == Memory!SumBytes(Memory!Held(lru[s], k)) + Memory!SumBytes(SubSeq(q, 1, i))
           limit == Memory!Lower(MaxEvictionsPerWrite, Len(q))
           enough == {i \in 0..limit : used - freed(i) + n <= target}
           pops == IF enough = {} THEN limit ELSE CHOOSE i \in enough : \A j \in enough : i <= j
           full == Memory!Higher(0, Len(q) - pops - (MaxEntries - 1))
           new == [key |-> k, bytes |-> n, expired |-> FALSE, old |-> FALSE]
<1>1. \/ lru' = [lru EXCEPT ![s] = SubSeq(q, pops + 1, Len(q))]
      \/ lru' = [lru EXCEPT ![s] = Append(SubSeq(q, pops + full + 1, Len(q)), new)]
  BY Zenon DEF Memory!SetAdmitted, Memory!Keeps
<1>2. q \in Seq(FreshEntry)
  <2>1. lru[s] \in Seq(FreshEntry)
    BY DEF MemInv
  <2> QED  BY <2>1, MemParts
<1> HIDE DEF q
<1>3. Len(q) \in Nat
  BY <1>2
<1>4. limit \in Nat /\ limit <= Len(q)
  BY <1>3, MemConstants DEF Memory!Lower
<1>5. pops \in 0..limit
  <2>1. enough \subseteq 0..limit /\ (enough # {} => \E i \in enough : \A j \in enough : i <= j)
    <3>1. enough \subseteq 0..limit
      OBVIOUS
    <3>2. enough \subseteq Nat
      BY <1>4
    <3> HIDE DEF enough
    <3> QED  BY <3>1, <3>2, LeastMember, Zenon
  <2> DEFINE first == CHOOSE i \in enough : \A j \in enough : i <= j
  <2> HIDE DEF enough, limit
  <2>2. enough # {} => first \in enough
    BY <2>1, Zenon
  <2> HIDE DEF first
  <2>3. pops \in 0..limit
    <3>1. CASE enough = {}
      BY <1>4, <3>1
    <3>2. CASE enough # {}
      BY <2>1, <2>2, <3>2, Zenon DEF first
    <3> QED  BY <3>1, <3>2
  <2> QED  BY <2>3
<1> HIDE DEF pops, limit
<1>6. pops \in Nat /\ pops <= Len(q)
  BY <1>3, <1>4, <1>5
<1>7. full \in Nat /\ pops + full \in Nat /\ pops + full <= Len(q)
  BY <1>3, <1>6, MemConstants DEF Memory!Higher
<1> HIDE DEF full
<1>8. SubSeq(q, pops + 1, Len(q)) \in Seq(FreshEntry) /\ SubSeq(q, pops + full + 1, Len(q)) \in Seq(FreshEntry)
  BY <1>2, <1>6, <1>7, MemSuffix
<1>9. new \in FreshEntry
  BY DEF FreshEntry, Memory!Entry
<1> HIDE DEF new
<1>10. Append(SubSeq(q, pops + full + 1, Len(q)), new) \in Seq(FreshEntry)
  BY <1>8, <1>9, AppendPlaces
<1> QED
  BY <1>1, <1>8, <1>10, MemChanged, Zenon

LEMMA MemGet ==
  ASSUME MemInv, NEW s \in Store, NEW k \in Key, NEW decodes \in BOOLEAN,
         Memory!Get(s, k, decodes) \/ Memory!Delete(s, k)
  PROVE  MemInv'
<1>1. lru[s] \in Seq(FreshEntry)
  BY DEF MemInv
<1> DEFINE q == Memory!Others(lru[s], k)
           hit == Memory!Visible(lru[s], k)
<1>2. q \in Seq(FreshEntry) /\ hit \in Seq(FreshEntry)
  BY <1>1, MemParts
<1>3. lru' = [lru EXCEPT ![s] = q] \/ lru' = [lru EXCEPT ![s] = q \o hit]
  BY DEF Memory!Get, Memory!Delete, Memory!Keeps
<1> HIDE DEF q, hit
<1>4. q \o hit \in Seq(FreshEntry)
  BY <1>2
<1> QED
  BY <1>2, <1>3, <1>4, MemChanged, Zenon

\* A pattern leaves, of the keys it matches, only what has expired.
LEMMA MemDeleteByPattern ==
  ASSUME MemInv, NEW s \in Store, NEW K \in SUBSET Key, Memory!DeleteByPattern(s, K)
  PROVE  MemInv'
<1> DEFINE hits == {i \in DOMAIN lru[s] : lru[s][i].key \in K /\ ~lru[s][i].expired}
           P == DOMAIN lru[s] \ hits
           left == Memory!Picked(lru[s], P)
           t == [i \in DOMAIN left |-> [left[i] EXCEPT !.old = left[i].old \/ left[i].key \in K]]
<1>1. lru[s] \in Seq(FreshEntry)
  BY DEF MemInv
<1>2. left \in Seq(FreshEntry) /\ \A i \in DOMAIN left : \E p \in P : left[i] = lru[s][p]
  <2>1. P \subseteq DOMAIN lru[s]
    OBVIOUS
  <2> HIDE DEF P
  <2> QED  BY <1>1, <2>1, MemPicked
<1>3. \A p \in P : lru[s][p].key \in K => lru[s][p].expired
  OBVIOUS
<1>4. lru' = [lru EXCEPT ![s] = t]
  BY DEF Memory!DeleteByPattern, Memory!Keeps
<1> HIDE DEF P, left
<1>5. ASSUME NEW i \in DOMAIN left PROVE t[i] \in FreshEntry
  <2> DEFINE e == left[i]
             b == e.old \/ e.key \in K
             o == [e EXCEPT !.old = b]
  <2>1. e \in Memory!Entry /\ (e.old => e.expired) /\ (e.key \in K => e.expired)
    BY <1>2, <1>3 DEF FreshEntry
  <2>2. t[i] = o
    OBVIOUS
  <2>3. b \in BOOLEAN /\ (b => e.expired)
    BY <2>1 DEF Memory!Entry
  <2> HIDE DEF b, e
  <2>4. o \in Memory!Entry /\ o.expired = e.expired /\ o.old = b
    BY <2>1, <2>3 DEF Memory!Entry
  <2> HIDE DEF o
  <2> QED  BY <2>2, <2>3, <2>4 DEF FreshEntry
<1>6. t \in Seq(FreshEntry)
  <2>1. DOMAIN t = DOMAIN left /\ t = [i \in DOMAIN left |-> t[i]]
    OBVIOUS
  <2> HIDE DEF t
  <2> QED  BY <1>2, <1>5, <2>1, MemMarked
<1> HIDE DEF t
<1> QED
  BY <1>4, <1>6, MemChanged, Zenon

LEMMA MemLeaves ==
  ASSUME MemInv, NEW s \in Store, Memory!Clear(s) \/ Memory!Purge(s) \/ Memory!Close(s)
  PROVE  MemInv'
<1> DEFINE P == DOMAIN lru[s] \ {i \in DOMAIN lru[s] : lru[s][i].expired}
           q == Memory!Picked(lru[s], P)
<1>1. lru[s] \in Seq(FreshEntry) /\ P \subseteq DOMAIN lru[s]
  BY DEF MemInv
<1>2. lru' = [lru EXCEPT ![s] = <<>>] \/ lru' = [lru EXCEPT ![s] = q]
  BY DEF Memory!Clear, Memory!Purge, Memory!Close, Memory!Keeps
<1> HIDE DEF P
<1>3. q \in Seq(FreshEntry) /\ <<>> \in Seq(FreshEntry)
  BY <1>1, MemPicked
<1> HIDE DEF q
<1> QED
  BY <1>2, <1>3, MemChanged, Zenon

LEMMA MemExpire ==
  ASSUME MemInv, NEW s \in Store, NEW k \in Key, Memory!Expire(s, k)
  PROVE  MemInv'
<1>1. lru[s] \in Seq(FreshEntry)
  BY DEF MemInv
<1>2. lru' = [lru EXCEPT ![s] = Memory!Expired(lru[s], k)]
  BY DEF Memory!Expire
<1>3. Memory!Expired(lru[s], k) \in Seq(FreshEntry)
  BY <1>1, MemExpired
<1> QED
  BY <1>2, <1>3, MemChanged, Zenon

\* One turn of the sampler takes at most the oldest entry of one store.
LEMMA MemEvictOne ==
  ASSUME NEW b, NEW goal, b.lru \in [Store -> Seq(FreshEntry)]
  PROVE  Memory!EvictOne(b, goal).lru \in [Store -> Seq(FreshEntry)]
<1> DEFINE s == clients[1 + (b.cursor % Len(clients))]
           e == [b.lru EXCEPT ![s] = Tail(b.lru[s])]
<1>1. \/ Memory!EvictOne(b, goal).lru = b.lru
      \/ b.lru[s] # <<>> /\ Memory!EvictOne(b, goal).lru = e
  BY DEF Memory!EvictOne
<1> HIDE DEF s
<1>2. ASSUME b.lru[s] # <<>> PROVE e \in [Store -> Seq(FreshEntry)]
  <2>1. ASSUME s \in Store PROVE Tail(b.lru[s]) \in Seq(FreshEntry)
    BY <1>2, <2>1, TailPlaces
  <2> QED  BY <2>1, Zenon
<1> HIDE DEF e
<1> QED
  BY <1>1, <1>2

\* The turns of a sample: f[n] is what n of them leave.
Turns(f, goal) ==
  f = [n \in 0..EvictionsPerSample |->
         IF n = 0 THEN [lru |-> lru, used |-> used, cursor |-> cursor] ELSE Memory!EvictOne(f[n - 1], goal)]

LEMMA EvictedInTurns ==
  ASSUME NEW goal
  PROVE  \E f : Turns(f, goal) /\ Memory!Evicted(goal) = f[EvictionsPerSample]
<1> DEFINE L == EvictionsPerSample
           first == [lru |-> lru, used |-> used, cursor |-> cursor]
           IsUpTo(f, m) == f = [n \in 0..m |-> IF n = 0 THEN first ELSE Memory!EvictOne(f[n - 1], goal)]
           Unbuilt == {m \in 0..L : ~\E f : IsUpTo(f, m)}
<1>0. L \in Nat
  BY MemConstants
<1>1. Unbuilt = {}
  <2> SUFFICES ASSUME Unbuilt # {} PROVE FALSE
    OBVIOUS
  <2>1. Unbuilt \subseteq Nat
    BY <1>0
  <2>2. PICK m \in Unbuilt : \A k \in Unbuilt : m <= k
    <3> HIDE DEF Unbuilt
    <3> QED  BY <2>1, LeastMember, Zenon
  <2>3. m \in 0..L /\ ~\E f : IsUpTo(f, m)
    OBVIOUS
  <2> HIDE DEF first
  <2>4. CASE m = 0
    <3>1. IsUpTo([n \in 0..0 |-> first], 0)
      BY DEF IsUpTo
    <3> QED  BY <2>3, <2>4, <3>1, Zenon
  <2>5. CASE m # 0
    <3>1. m - 1 \in 0..L /\ ~(m <= m - 1)
      BY <1>0, <2>3, <2>5
    <3>2. m - 1 \notin Unbuilt
      <4> HIDE DEF Unbuilt
      <4> QED  BY <2>2, <3>1
    <3>3. PICK f : IsUpTo(f, m - 1)
      BY <3>1, <3>2
    <3> DEFINE g == [n \in 0..m |-> IF n = m THEN Memory!EvictOne(f[m - 1], goal) ELSE f[n]]
    <3>4. ASSUME NEW n \in 0..m PROVE g[n] = IF n = 0 THEN first ELSE Memory!EvictOne(g[n - 1], goal)
      <4>1. CASE n = m
        <5>1. g[m - 1] = f[m - 1]
          BY <2>3, <2>5
        <5> QED  BY <2>3, <2>5, <4>1, <5>1
      <4>2. CASE n # m
        <5>1. n \in 0..(m - 1) /\ g[n] = f[n]
          BY <2>3, <2>5, <4>2
        <5>2. f[n] = IF n = 0 THEN first ELSE Memory!EvictOne(f[n - 1], goal)
          BY <3>3, <5>1
        <5>3. n # 0 => g[n - 1] = f[n - 1]
          BY <2>3, <2>5, <4>2
        <5> QED  BY <5>1, <5>2, <5>3
      <4> QED  BY <4>1, <4>2
    <3>5. IsUpTo(g, m)
      BY <3>4
    <3> QED  BY <2>3, <3>5, Zenon
  <2> QED  BY <2>4, <2>5
<1>2. \E f : IsUpTo(f, L) /\ Memory!Evicted(goal) = f[L]
  <2>1. \E f : IsUpTo(f, L)
    <3>1. L \in 0..L
      BY <1>0
    <3>2. Unbuilt = {} => \A m \in 0..L : \E f : IsUpTo(f, m)
      <4> HIDE DEF IsUpTo, L
      <4> QED  OBVIOUS
    <3> HIDE DEF IsUpTo, L, Unbuilt
    <3> QED  BY <1>1, <3>1, <3>2
  <2> DEFINE u == CHOOSE f : IsUpTo(f, L)
  <2>2. IsUpTo(u, L)
    <3> HIDE DEF IsUpTo, L
    <3> QED  BY <2>1, Zenon
  <2>3. Memory!Evicted(goal) = u[L]
    BY DEF Memory!Evicted
  <2> HIDE DEF IsUpTo, L, u
  <2> QED  BY <2>2, <2>3, Zenon
<1>3. \A f : IsUpTo(f, L) => Turns(f, goal)
  BY Zenon DEF Turns
<1> HIDE DEF IsUpTo, L
<1>4. \E f : Turns(f, goal) /\ Memory!Evicted(goal) = f[L]
  BY <1>2, <1>3, Zenon
<1> QED
  BY <1>4 DEF L

LEMMA MemEvicted ==
  ASSUME MemInv, NEW goal
  PROVE  Memory!Evicted(goal).lru \in [Store -> Seq(FreshEntry)]
<1> DEFINE L == EvictionsPerSample
           first == [lru |-> lru, used |-> used, cursor |-> cursor]
<1>0. L \in Nat
  BY MemConstants
<1>3. PICK f : Turns(f, goal) /\ Memory!Evicted(goal) = f[L]
  BY EvictedInTurns
<1> DEFINE Wrong == {m \in 0..L : f[m].lru \notin [Store -> Seq(FreshEntry)]}
<1>4. Wrong = {}
  <2> SUFFICES ASSUME Wrong # {} PROVE FALSE
    OBVIOUS
  <2>1. Wrong \subseteq Nat
    BY <1>0
  <2>2. PICK m \in Wrong : \A k \in Wrong : m <= k
    <3> HIDE DEF Wrong
    <3> QED  BY <2>1, LeastMember, Zenon
  <2>3. m \in 0..L /\ f[m].lru \notin [Store -> Seq(FreshEntry)]
    OBVIOUS
  <2>4. f[m] = IF m = 0 THEN first ELSE Memory!EvictOne(f[m - 1], goal)
    BY <1>3, <2>3, Zenon DEF Turns
  <2>5. first.lru \in [Store -> Seq(FreshEntry)]
    BY DEF MemInv
  <2> HIDE DEF first
  <2>6. m # 0
    BY <2>3, <2>4, <2>5
  <2>7. m - 1 \in 0..L /\ ~(m <= m - 1)
    BY <1>0, <2>3, <2>6
  <2>8. f[m - 1].lru \in [Store -> Seq(FreshEntry)]
    <3>1. m - 1 \notin Wrong
      <4> HIDE DEF Wrong
      <4> QED  BY <2>2, <2>7
    <3> QED  BY <2>7, <3>1, Zenon
  <2> QED  BY <2>3, <2>4, <2>6, <2>8, MemEvictOne, Zenon
<1>5. f[L].lru \in [Store -> Seq(FreshEntry)]
  BY <1>0, <1>4
<1> HIDE DEF L
<1> QED
  BY <1>3, <1>5, Zenon

LEMMA MemInitially == ASSUME Memory!Init PROVE MemInv
BY DEF Memory!Init, MemInv

LEMMA MemStep == ASSUME MemInv, [Next]_vars PROVE MemInv'
<1>1. CASE UNCHANGED lru
  BY <1>1 DEF MemInv
<1>2. CASE Memory!Next
  <2>1. ASSUME NEW s \in Store, NEW k \in Key,
               \/ \E n \in Bytes : \/ Memory!SetRefused(s, k, n) \/ Memory!SetUnworthy(s, k, n)
                                   \/ Memory!SetAdmitted(s, k, n)
               \/ \E decodes \in BOOLEAN : Memory!Get(s, k, decodes)
               \/ Memory!Delete(s, k) \/ Memory!Expire(s, k)
        PROVE  MemInv'
    <3>1. ASSUME Memory!Delete(s, k) PROVE MemInv'
      <4>1. TRUE \in BOOLEAN
        OBVIOUS
      <4> QED  BY <3>1, <4>1, MemGet, Zenon
    <3> QED  BY <2>1, <3>1, MemSetRefused, MemSetAdmitted, MemGet, MemExpire
  <2>2. ASSUME NEW s \in Store, Memory!Clear(s) \/ Memory!Purge(s) \/ Memory!Close(s)
        PROVE  MemInv'
    BY <2>2, MemLeaves
  <2>3. ASSUME NEW s \in Store, NEW K \in SUBSET Key, Memory!DeleteByPattern(s, K)
        PROVE  MemInv'
    BY <2>3, MemDeleteByPattern
  <2>4. ASSUME NEW signal \in Memory!Signals, Memory!Sample(signal) PROVE MemInv'
    <3>1. lru' = Memory!Evicted(Memory!Adjusted(signal).target).lru
      BY <2>4 DEF Memory!Sample
    <3> QED  BY <3>1, MemEvicted DEF MemInv
  <2>5. ASSUME \/ \E s \in Store : Memory!Construct(s)
               \/ \E n \in OtherBytes : Memory!OtherReserves(n) \/ Memory!OtherReleases(n)
               \/ Memory!Tick \/ Memory!CloseBudget
        PROVE  UNCHANGED lru
    BY <2>5 DEF Memory!Construct, Memory!OtherReserves, Memory!OtherReleases, Memory!Tick,
                Memory!CloseBudget, Memory!storeVars
  <2> QED
    BY <1>1, <1>2, <2>1, <2>2, <2>3, <2>4, <2>5 DEF Memory!Next
<1> QED
  BY <1>1, <1>2 DEF Next, vars, memoryVars

LEMMA MemSafe == ASSUME MemInv PROVE NoObsoleteValue
<1>1. ASSUME NEW s \in Store, NEW i \in DOMAIN lru[s] PROVE lru[s][i] \in FreshEntry
  <2>1. lru[s] \in Seq(FreshEntry)
    BY DEF MemInv
  <2> QED  BY <2>1
<1>2. \A s \in Store : \A i \in DOMAIN lru[s] : lru[s][i].old => lru[s][i].expired
  BY <1>1 DEF FreshEntry
<1> QED
  BY <1>2 DEF NoObsoleteValue, Memory!NoObsoleteValue

\* Nothing older than a set or a delete is kept or answered after it, in any number of calls,
\* stores and keys: the L1 stores drop or hide what a refused write replaced, and a load that a
\* delete, a set or a lost stream made obsolete leaves nothing behind and answers no later call.
THEOREM NothingOlderIsServed == Spec => []NothingOlder
<1>1. Init => ReadInv /\ MemInv
  BY ReadInitially, MemInitially DEF Init
<1>2. ReadInv /\ MemInv /\ [Next]_vars => ReadInv' /\ MemInv'
  BY ReadStep, MemStep
<1>3. ReadInv /\ MemInv => NothingOlder
  BY ReadSafe, MemSafe DEF NothingOlder
<1> QED
  BY <1>1, <1>2, <1>3, PTL DEF Spec

-----------------------------------------------------------------------------
(* The ledger of the memory budget *)

Keyed(q) == \A i, j \in DOMAIN q : q[i].key = q[j].key => i = j
LedgerInv == Memory!TypeOK /\ LedgerExact /\ \A s \in Store : Keyed(lru[s])

Weights(q) == [i \in DOMAIN q |-> q[i].bytes]

\* The bytes of a store's entries, and of some of them, are a sum of positive numbers.
LEMMA SumType ==
  ASSUME NEW q \in Seq(Memory!Entry)
  PROVE  /\ Memory!SumBytes(q) = Total(Weights(q), DOMAIN q) /\ Memory!SumBytes(q) \in Nat
         /\ DOMAIN q = 1..Len(q) /\ Len(q) \in Nat /\ IsFiniteSet(DOMAIN q)
         /\ \A i \in DOMAIN q : Weights(q)[i] = q[i].bytes /\ q[i].bytes \in Nat
<1>1. \A f, S : Memory!Total(f, S) = Total(f, S)
  BY DEF Memory!Total, Total, Memory!Units, Units, Memory!Cardinality, Cardinality,
         Memory!IsFiniteSet, IsFiniteSet
<1>2. DOMAIN q = 1..Len(q) /\ Len(q) \in Nat
  OBVIOUS
<1>3. IsFiniteSet(DOMAIN q)
  BY <1>2, FS_Interval
<1>4. ASSUME NEW i \in DOMAIN q PROVE Weights(q)[i] = q[i].bytes /\ q[i].bytes \in Nat
  <2>1. q[i] \in Memory!Entry
    OBVIOUS
  <2>2. q[i].bytes \in Bytes
    BY <2>1 DEF Memory!Entry
  <2> QED  BY <2>2, LocalAssumption, Zenon DEF Weights, Memory!MemoryAssumption
<1>5. Memory!SumBytes(q) = Total(Weights(q), DOMAIN q)
  BY <1>1 DEF Memory!SumBytes, Weights
<1>6. Total(Weights(q), DOMAIN q) \in Nat
  BY <1>3, <1>4, TotalType
<1> QED
  BY <1>2, <1>3, <1>4, <1>5, <1>6

\* A sequence made of the entries at the places P, in any order, weighs what they weigh.
LEMMA SumMapped ==
  ASSUME NEW q \in Seq(Memory!Entry), NEW t \in Seq(Memory!Entry), NEW P, P \subseteq DOMAIN q,
         NEW h, OneToOne(h, DOMAIN t, P),
         \A i \in DOMAIN t : t[i].bytes = q[h[i]].bytes
  PROVE  Memory!SumBytes(t) = Total(Weights(q), P)
<1> DEFINE f == Weights(t)
           g == Weights(q)
           D == DOMAIN t
<1>1. \A i \in D : f[i] = t[i].bytes /\ f[i] \in Nat
  BY SumType
<1>2. \A p \in P : g[p] = q[p].bytes
  BY SumType
<1>3. IsFiniteSet(D) /\ Memory!SumBytes(t) = Total(f, D)
  BY SumType
<1>4. \A i \in D : f[i] = g[h[i]] /\ f[i] \in Nat
  BY <1>1, <1>2 DEF OneToOne
<1>5. OneToOne(h, D, P)
  OBVIOUS
<1> HIDE DEF f, g, D
<1>6. Total(f, D) = Total(g, P)
  BY <1>3, <1>4, <1>5, TotalReindex
<1> QED
  BY <1>3, <1>6 DEF g

\* The entries picked, and those left, share the bytes of the store between them.
LEMMA SumPicked ==
  ASSUME NEW q \in Seq(Memory!Entry), NEW P, P \subseteq DOMAIN q
  PROVE  /\ Memory!Picked(q, P) \in Seq(Memory!Entry)
         /\ Memory!SumBytes(Memory!Picked(q, P)) = Total(Weights(q), P)
         /\ Len(Memory!Picked(q, P)) = Cardinality(P) /\ Cardinality(P) <= Len(q) /\ Cardinality(P) \in Nat
         /\ Keyed(q) => Keyed(Memory!Picked(q, P))
         /\ \A i \in DOMAIN Memory!Picked(q, P) : \E p \in P : Memory!Picked(q, P)[i] = q[p]
<1> DEFINE t == Memory!Picked(q, P)
           n == Cardinality(P)
           h == [i \in 1..n |-> Nth(P, i)]
<1>1. t = Picked(q, P)
  BY DEF Memory!Picked, Picked, Memory!Nth, Nth, Memory!Cardinality, Cardinality, Memory!IsFiniteSet, IsFiniteSet
<1>2. t = [i \in 1..n |-> q[Nth(P, i)]]
  BY <1>1 DEF Picked
<1>3. DOMAIN q = 1..Len(q) /\ Len(q) \in Nat /\ IsFiniteSet(DOMAIN q)
  BY SumType
<1>4. /\ n \in Nat /\ (\A i \in 1..n : Nth(P, i) \in P)
      /\ (\A i, j \in 1..n : Nth(P, i) = Nth(P, j) => i = j)
      /\ (\A p \in P : \E i \in 1..n : Nth(P, i) = p)
  BY <1>3, NthMeetsAll
<1>5. n <= Cardinality(DOMAIN q) /\ Cardinality(DOMAIN q) = Len(q)
  <2>1. P \in SUBSET DOMAIN q
    OBVIOUS
  <2>2. Cardinality(P) <= Cardinality(DOMAIN q)
    BY <1>3, <2>1, FS_Subset
  <2> DEFINE l == Len(q)
  <2>0. l \in Nat
    BY <1>3
  <2> HIDE DEF l
  <2>3. Cardinality(1..l) = l
    BY <2>0, FS_Interval
  <2> QED  BY <1>3, <2>2, <2>3 DEF l
<1>6. t \in Seq(Memory!Entry)
  BY MemPicked
<1> HIDE DEF t, n
<1>7. DOMAIN t = 1..n /\ \A i \in 1..n : t[i] = q[h[i]] /\ h[i] = Nth(P, i)
  BY <1>2
<1>8. Len(t) = n
  BY <1>4, <1>6, <1>7
<1>9. OneToOne(h, DOMAIN t, P)
  BY <1>4, <1>7, Zenon DEF OneToOne
<1> HIDE DEF h
<1>10. Memory!SumBytes(t) = Total(Weights(q), P)
  <2>1. \A i \in DOMAIN t : t[i].bytes = q[h[i]].bytes
    BY <1>7
  <2> QED  BY <1>6, <1>9, <2>1, SumMapped
<1>11. ASSUME Keyed(q) PROVE Keyed(t)
  BY <1>7, <1>9, <1>11 DEF Keyed, OneToOne
<1>12. \A i \in DOMAIN t : \E p \in P : t[i] = q[p]
  BY <1>7, <1>9 DEF OneToOne
<1> QED
  BY <1>4, <1>5, <1>6, <1>8, <1>10, <1>11, <1>12 DEF t, n

LEMMA SumParts ==
  ASSUME NEW q \in Seq(Memory!Entry), NEW P, P \subseteq DOMAIN q
  PROVE  LET out == Memory!SumBytes(Memory!Picked(q, P))
             left == Memory!SumBytes(Memory!Picked(q, DOMAIN q \ P))
         IN  out \in Nat /\ left \in Nat /\ left + out = Memory!SumBytes(q)
<1>1. /\ IsFiniteSet(DOMAIN q) /\ Memory!SumBytes(q) = Total(Weights(q), DOMAIN q)
      /\ \A i \in DOMAIN q : Weights(q)[i] \in Nat
  BY SumType
<1>2. /\ Memory!SumBytes(Memory!Picked(q, P)) = Total(Weights(q), P)
      /\ Memory!SumBytes(Memory!Picked(q, DOMAIN q \ P)) = Total(Weights(q), DOMAIN q \ P)
  BY SumPicked
<1> DEFINE W == Weights(q)
           D == DOMAIN q
<1>3. /\ Total(W, D \ P) = Total(W, D) - Total(W, P)
      /\ Total(W, P) \in Nat /\ Total(W, D \ P) \in Nat
  <2> HIDE DEF W, D
  <2> QED  BY <1>1, TotalLess, Zenon DEF W, D
<1>4. Memory!SumBytes(q) \in Nat
  BY SumType
<1> QED
  BY <1>1, <1>2, <1>3, <1>4

\* The first m entries and the rest.
LEMMA SumSplit ==
  ASSUME NEW q \in Seq(Memory!Entry), NEW m \in Nat, m <= Len(q)
  PROVE  LET first == SubSeq(q, 1, m)
             rest == SubSeq(q, m + 1, Len(q))
         IN  /\ first \in Seq(Memory!Entry) /\ rest \in Seq(Memory!Entry) /\ Len(rest) = Len(q) - m
             /\ Memory!SumBytes(first) = Total(Weights(q), 1..m) /\ Memory!SumBytes(first) \in Nat
             /\ Memory!SumBytes(rest) \in Nat
             /\ Memory!SumBytes(first) + Memory!SumBytes(rest) = Memory!SumBytes(q)
             /\ Keyed(q) => Keyed(rest)
             /\ \A i \in DOMAIN rest : \E j \in DOMAIN q : rest[i] = q[j]
<1> DEFINE first == SubSeq(q, 1, m)
           rest == SubSeq(q, m + 1, Len(q))
           n == Len(q)
           F == 1..m
           R == (m + 1)..n
           D == DOMAIN q
           W == Weights(q)
<1>1. /\ D = 1..n /\ n \in Nat /\ IsFiniteSet(D) /\ Memory!SumBytes(q) = Total(W, D)
      /\ Memory!SumBytes(q) \in Nat /\ \A i \in D : W[i] \in Nat
  BY SumType
<1>2. F \subseteq D /\ R = D \ F /\ R \subseteq D
  BY <1>1
<1>3. first \in Seq(Memory!Entry) /\ Len(first) = m /\ \A i \in 1..m : first[i] = q[i]
  <2>1. \A i \in 1..m : q[i] \in Memory!Entry
    OBVIOUS
  <2> QED  BY <1>1, <2>1, SubSeqProperties
<1>4. /\ rest \in Seq(Memory!Entry) /\ Len(rest) = n - m
      /\ \A i \in 1..(n - m) : rest[i] = q[i + m]
  <2>1. \A i \in (m + 1)..n : q[i] \in Memory!Entry
    OBVIOUS
  <2> QED  BY <1>1, <2>1, SubSeqProperties
<1> HIDE DEF first, rest, n, F, R, D, W
<1>5. Memory!SumBytes(first) = Total(W, F)
  <2> DEFINE h == [i \in 1..m |-> i]
  <2>1. DOMAIN first = 1..m
    BY <1>3
  <2>2. /\ OneToOne(h, DOMAIN first, F)
        /\ \A i \in DOMAIN first : first[i].bytes = q[h[i]].bytes
    BY <1>3, <2>1 DEF F, OneToOne
  <2> HIDE DEF h
  <2> QED  BY <1>2, <1>3, <2>2, SumMapped DEF D, W
<1>6. DOMAIN rest = 1..(n - m)
  BY <1>1, <1>4 DEF n
<1> DEFINE h == [i \in 1..(n - m) |-> i + m]
<1>7. /\ h \in [DOMAIN rest -> R] /\ (\A i, j \in DOMAIN rest : h[i] = h[j] => i = j)
      /\ \A i \in DOMAIN rest : rest[i] = q[h[i]]
  BY <1>1, <1>4, <1>6 DEF R
<1>8. \A p \in R : \E i \in DOMAIN rest : h[i] = p
  <2>1. ASSUME NEW p \in R PROVE p - m \in DOMAIN rest /\ h[p - m] = p
    BY <1>1, <1>6 DEF R
  <2> QED  BY <2>1, Zenon
<1> HIDE DEF h
<1>9. Memory!SumBytes(rest) = Total(W, R)
  <2>0. OneToOne(h, DOMAIN rest, R)
    BY <1>7, <1>8 DEF OneToOne
  <2>1. \A i \in DOMAIN rest : rest[i].bytes = q[h[i]].bytes
    BY <1>7
  <2>2. R \subseteq DOMAIN q /\ rest \in Seq(Memory!Entry)
    BY <1>2, <1>4 DEF D
  <2> QED  BY <2>0, <2>1, <2>2, SumMapped DEF W
<1>10. Total(W, D \ F) = Total(W, D) - Total(W, F) /\ Total(W, F) \in Nat /\ Total(W, D \ F) \in Nat
  BY <1>1, <1>2, TotalLess, Zenon
<1>11. ASSUME Keyed(q) PROVE Keyed(rest)
  BY <1>2, <1>7, <1>11 DEF Keyed, D
<1>12. \A i \in DOMAIN rest : \E j \in DOMAIN q : rest[i] = q[j]
  BY <1>2, <1>7 DEF D
<1> QED
  BY <1>1, <1>2, <1>3, <1>4, <1>5, <1>9, <1>10, <1>11, <1>12 DEF first, rest, n, F, W

\* Taking more of the first entries frees no less.
LEMMA SumGrows ==
  ASSUME NEW q \in Seq(Memory!Entry), NEW m \in Nat, NEW n \in Nat, m <= n, n <= Len(q)
  PROVE  Memory!SumBytes(SubSeq(q, 1, m)) <= Memory!SumBytes(SubSeq(q, 1, n))
<1> DEFINE M == 1..m
           N == 1..n
           W == Weights(q)
<1>1. Memory!SumBytes(SubSeq(q, 1, m)) = Total(W, M) /\ Memory!SumBytes(SubSeq(q, 1, n)) = Total(W, N)
  BY SumSplit
<1>2. M \subseteq N /\ N \subseteq DOMAIN q /\ IsFiniteSet(N)
  BY FS_Interval
<1>3. \A i \in N : W[i] \in Nat
  BY <1>2, SumType, Zenon
<1> HIDE DEF M, N, W
<1>4. Total(W, N \ M) = Total(W, N) - Total(W, M) /\ Total(W, M) \in Nat /\ Total(W, N \ M) \in Nat
  BY <1>2, <1>3, TotalLess, Zenon
<1>5. Total(W, N) \in Nat
  BY <1>2, <1>3, TotalType
<1> QED
  BY <1>1, <1>4, <1>5

\* Two sequences in a row.
LEMMA SumConcat ==
  ASSUME NEW q \in Seq(Memory!Entry), NEW t \in Seq(Memory!Entry)
  PROVE  /\ q \o t \in Seq(Memory!Entry) /\ Len(q \o t) = Len(q) + Len(t)
         /\ Memory!SumBytes(q \o t) = Memory!SumBytes(q) + Memory!SumBytes(t)
         /\ \A i \in DOMAIN (q \o t) : (q \o t)[i] = IF i <= Len(q) THEN q[i] ELSE t[i - Len(q)]
<1> DEFINE u == q \o t
           n == Len(q)
           m == Len(t)
<1>0. n \in Nat /\ m \in Nat
  OBVIOUS
<1>1. /\ u \in Seq(Memory!Entry) /\ Len(u) = n + m
      /\ \A i \in 1..(n + m) : u[i] = IF i <= n THEN q[i] ELSE t[i - n]
  BY ConcatProperties
<1>2. \A i \in DOMAIN u : u[i] = IF i <= n THEN q[i] ELSE t[i - n]
  BY <1>1
<1> HIDE DEF u
<1>3. SubSeq(u, 1, n) = q
  <2>1. \A i \in 1..n : u[i] = q[i]
    BY <1>0, <1>1
  <2>2. \A i \in 1..n : u[i] \in Memory!Entry
    BY <2>1
  <2>3. SubSeq(u, 1, n) \in Seq(Memory!Entry) /\ Len(SubSeq(u, 1, n)) = n
        /\ \A i \in 1..n : SubSeq(u, 1, n)[i] = u[i]
    BY <1>0, <2>2, SubSeqProperties
  <2> QED  BY <2>1, <2>3
<1>4. SubSeq(u, n + 1, Len(u)) = t
  <2>1. ASSUME NEW i \in 1..m PROVE u[i + n] = t[i]
    <3>1. i + n \in 1..(n + m) /\ ~(i + n <= n) /\ i + n - n = i
      BY <1>0
    <3> HIDE DEF n, m
    <3> QED  BY <1>0, <1>1, <3>1
  <2>2. \A i \in (n + 1)..(n + m) : u[i] \in Memory!Entry
    BY <1>0, <1>1
  <2>3. /\ SubSeq(u, n + 1, n + m) \in Seq(Memory!Entry) /\ Len(SubSeq(u, n + 1, n + m)) = m
        /\ \A i \in 1..m : SubSeq(u, n + 1, n + m)[i] = u[i + n]
    BY <1>0, <2>2, SubSeqProperties
  <2> QED  BY <1>1, <2>1, <2>3
<1>5. n <= Len(u)
  BY <1>0, <1>1
<1>6. Memory!SumBytes(SubSeq(u, 1, n)) + Memory!SumBytes(SubSeq(u, n + 1, Len(u))) = Memory!SumBytes(u)
  BY <1>0, <1>1, <1>5, SumSplit, Zenon
<1> QED
  BY <1>1, <1>2, <1>3, <1>4, <1>6, Zenon DEF u

LEMMA SumAppend ==
  ASSUME NEW q \in Seq(Memory!Entry), NEW e \in Memory!Entry
  PROVE  /\ Memory!SumBytes(Append(q, e)) = Memory!SumBytes(q) + e.bytes
         /\ Append(q, e) \in Seq(Memory!Entry) /\ Len(Append(q, e)) = Len(q) + 1
<1>1. Append(q, e) = q \o <<e>> /\ <<e>> \in Seq(Memory!Entry) /\ Len(<<e>>) = 1
  OBVIOUS
<1>2. Memory!SumBytes(<<e>>) = e.bytes
  <2>1. DOMAIN <<e>> = {1} /\ <<e>>[1] = e
    BY <1>1
  <2>2. /\ Memory!SumBytes(<<e>>) = Total(Weights(<<e>>), {1})
        /\ Weights(<<e>>)[1] = e.bytes /\ Weights(<<e>>)[1] \in Nat
    BY <1>1, <2>1, SumType, Zenon
  <2> QED  BY <2>2, TotalOfOne, Zenon
<1>3. Append(q, e) \in Seq(Memory!Entry) /\ Len(Append(q, e)) = Len(q) + 1
  OBVIOUS
<1>4. Memory!SumBytes(q \o <<e>>) = Memory!SumBytes(q) + Memory!SumBytes(<<e>>)
  BY <1>1, SumConcat, Zenon
<1> QED
  BY <1>1, <1>2, <1>3, <1>4

LEMMA SumTail ==
  ASSUME NEW q \in Seq(Memory!Entry), q # <<>>
  PROVE  /\ Memory!SumBytes(Tail(q)) = Memory!SumBytes(q) - Head(q).bytes
         /\ Tail(q) \in Seq(Memory!Entry) /\ Len(Tail(q)) = Len(q) - 1 /\ Head(q).bytes \in Nat
         /\ Keyed(q) => Keyed(Tail(q))
         /\ Memory!SumBytes(Tail(q)) \in Nat
<1>1. Len(q) \in Nat /\ 1 <= Len(q) /\ Tail(q) = SubSeq(q, 2, Len(q)) /\ Head(q) = q[1]
  OBVIOUS
<1>3. /\ SubSeq(q, 2, Len(q)) \in Seq(Memory!Entry) /\ Len(SubSeq(q, 2, Len(q))) = Len(q) - 1
      /\ Memory!SumBytes(SubSeq(q, 2, Len(q))) \in Nat
      /\ Memory!SumBytes(SubSeq(q, 1, 1)) + Memory!SumBytes(SubSeq(q, 2, Len(q))) = Memory!SumBytes(q)
      /\ Keyed(q) => Keyed(SubSeq(q, 2, Len(q)))
  <2>1. 1 \in Nat /\ 1 + 1 = 2
    OBVIOUS
  <2> QED  BY <1>1, <2>1, SumSplit, Zenon
<1>4. Memory!SumBytes(SubSeq(q, 1, 1)) = q[1].bytes
  <2>1. Weights(q)[1] = q[1].bytes /\ Weights(q)[1] \in Nat
    BY <1>1, SumType
  <2>2. 1 \in Nat /\ 1..1 = {1}
    OBVIOUS
  <2>3. Memory!SumBytes(SubSeq(q, 1, 1)) = Total(Weights(q), 1..1)
    BY <1>1, <2>2, SumSplit, Zenon
  <2> QED  BY <2>1, <2>2, <2>3, TotalOfOne, Zenon
<1>5. q[1].bytes \in Nat /\ Memory!SumBytes(q) \in Nat
  BY <1>1, SumType
<1> DEFINE t == SubSeq(q, 2, Len(q))
<1>6. Tail(q) = t /\ Memory!SumBytes(t) = Memory!SumBytes(q) - Head(q).bytes
      /\ t \in Seq(Memory!Entry) /\ Len(t) = Len(q) - 1 /\ Head(q).bytes \in Nat
      /\ (Keyed(q) => Keyed(t)) /\ Memory!SumBytes(t) \in Nat
  BY <1>1, <1>3, <1>4, <1>5
<1> HIDE DEF t
<1> QED
  BY <1>6, Zenon

\* Marking entries changes neither their keys nor their bytes.
LEMMA SumMarked ==
  ASSUME NEW q \in Seq(Memory!Entry), NEW t \in Seq(Memory!Entry), DOMAIN t = DOMAIN q,
         \A i \in DOMAIN q : t[i].bytes = q[i].bytes /\ t[i].key = q[i].key
  PROVE  /\ Memory!SumBytes(t) = Memory!SumBytes(q) /\ Len(t) = Len(q)
         /\ Keyed(q) => Keyed(t)
<1>1. Len(t) = Len(q)
  OBVIOUS
<1>2. Keyed(q) => Keyed(t)
  BY DEF Keyed
<1>3. /\ Memory!SumBytes(q) = Total(Weights(q), DOMAIN q) /\ Memory!SumBytes(t) = Total(Weights(t), DOMAIN q)
      /\ \A i \in DOMAIN q : Weights(q)[i] = q[i].bytes
      /\ \A i \in DOMAIN q : Weights(t)[i] = t[i].bytes
  <2>1. \A i \in DOMAIN t : Weights(t)[i] = t[i].bytes
    BY SumType
  <2> QED  BY <2>1, SumType
<1>4. Total(Weights(t), DOMAIN q) = Total(Weights(q), DOMAIN q)
  BY <1>3, TotalSame
<1> QED
  BY <1>1, <1>2, <1>3, <1>4

Sums == [s \in Store |-> Memory!SumBytes(lru[s])]

LEMMA LedgerConstants ==
  /\ IsFiniteSet(Store) /\ Bytes \subseteq Nat \ {0} /\ OtherBytes \subseteq Nat \ {0}
  /\ HardCap \in Nat \ {0} /\ MinMemory \in 1..HardCap /\ MaxEntries \in Nat \ {0}
  /\ HistoryBytes \in Nat \ {0} /\ PressureWindow \in Nat /\ RecoveryWindow \in Nat
  /\ CursorPeriod \in Nat \ {0} /\ EvictionsPerSample \in Nat
<1>1. Memory!IsFiniteSet(Store) = IsFiniteSet(Store)
  BY DEF Memory!IsFiniteSet, IsFiniteSet
<1> QED
  BY <1>1, LocalAssumption DEF Memory!MemoryAssumption

\* The bytes of all the stores when those of one of them change.
LEMMA StoresTotal ==
  \A f \in [Store -> Nat], s \in Store, n \in Nat :
    /\ Total([f EXCEPT ![s] = n], Store) = Total(f, Store) - f[s] + n
    /\ f[s] <= Total(f, Store) /\ Total(f, Store) \in Nat
BY LedgerConstants, TotalChanged, Zenon

\* The ledger said with the operators used here.
LEMMA LedgerForm ==
  /\ LedgerExact <=>
       /\ used = categories["fresh"] + categories["metadata"] + categories["other"]
       /\ categories["fresh"] = Total(Sums, Store)
       /\ \A s \in Store : bytes[s] = Memory!SumBytes(lru[s])
       /\ categories["metadata"] = HistoryBytes * Cardinality(history)
  /\ LedgerExact' <=>
       /\ used' = categories'["fresh"] + categories'["metadata"] + categories'["other"]
       /\ categories'["fresh"] = Total(Sums', Store)
       /\ \A s \in Store : bytes'[s] = Memory!SumBytes(lru'[s])
       /\ categories'["metadata"] = HistoryBytes * Cardinality(history')
<1>1. \A f, S : Memory!Total(f, S) = Total(f, S)
  BY DEF Memory!Total, Total, Memory!Units, Units, Memory!Cardinality, Cardinality,
         Memory!IsFiniteSet, IsFiniteSet
<1>2. \A S : Memory!Cardinality(S) = Cardinality(S)
  BY DEF Memory!Cardinality, Cardinality, Memory!IsFiniteSet, IsFiniteSet
<1> QED
  BY <1>1, <1>2 DEF LedgerExact, Memory!LedgerExact, Sums

\* What a store holds is a part of 'fresh', and that of the ledger.
LEMMA LedgerFacts ==
  ASSUME LedgerInv
  PROVE  /\ used \in Nat /\ used <= HardCap /\ target \in MinMemory..HardCap
         /\ categories \in [Memory!Category -> Nat] /\ bytes \in [Store -> Nat]
         /\ categories["fresh"] \in Nat /\ categories["metadata"] \in Nat /\ categories["other"] \in Nat
         /\ used = categories["fresh"] + categories["metadata"] + categories["other"]
         /\ Sums \in [Store -> Nat] /\ categories["fresh"] = Total(Sums, Store)
         /\ categories["metadata"] = HistoryBytes * Cardinality(history)
         /\ lru \in [Store -> Seq(Memory!Entry)]
         /\ \A s \in Store :
              /\ lru[s] \in Seq(Memory!Entry) /\ Len(lru[s]) <= MaxEntries /\ Keyed(lru[s])
              /\ Sums[s] = Memory!SumBytes(lru[s]) /\ bytes[s] = Memory!SumBytes(lru[s])
              /\ Memory!SumBytes(lru[s]) \in Nat /\ Memory!SumBytes(lru[s]) <= categories["fresh"]
         /\ open \subseteq Store /\ closedStores \subseteq Store /\ history \subseteq open
         /\ IsFiniteSet(history) /\ Cardinality(history) \in Nat
         /\ clients \in Seq(Store) /\ cursor \in 0..CursorPeriod
<1>1. /\ used \in Nat /\ used <= HardCap /\ target \in MinMemory..HardCap
      /\ categories \in [Memory!Category -> Nat] /\ bytes \in [Store -> Nat]
      /\ lru \in [Store -> Seq(Memory!Entry)] /\ open \subseteq Store /\ closedStores \subseteq Store
      /\ history \subseteq open
      /\ clients \in Seq(Store) /\ cursor \in 0..CursorPeriod
      /\ \A s \in Store : Len(lru[s]) <= MaxEntries /\ Keyed(lru[s])
  BY LedgerConstants DEF LedgerInv, Memory!TypeOK
<1>2. /\ used = categories["fresh"] + categories["metadata"] + categories["other"]
      /\ categories["fresh"] = Total(Sums, Store)
      /\ \A s \in Store : bytes[s] = Memory!SumBytes(lru[s])
      /\ categories["metadata"] = HistoryBytes * Cardinality(history)
  BY LedgerForm DEF LedgerInv
<1>3. categories["fresh"] \in Nat /\ categories["metadata"] \in Nat /\ categories["other"] \in Nat
  BY <1>1 DEF Memory!Category
<1>4. ASSUME NEW s \in Store PROVE Memory!SumBytes(lru[s]) \in Nat /\ Sums[s] = Memory!SumBytes(lru[s])
  <2>1. lru[s] \in Seq(Memory!Entry)
    BY <1>1
  <2> QED  BY <2>1, SumType DEF Sums
<1>5. Sums \in [Store -> Nat]
  BY <1>4 DEF Sums
<1>6. ASSUME NEW s \in Store PROVE Memory!SumBytes(lru[s]) <= categories["fresh"]
  <2>1. 0 \in Nat
    OBVIOUS
  <2>2. Sums[s] <= Total(Sums, Store)
    BY <1>5, <2>1, LedgerConstants, TotalChanged
  <2> QED  BY <1>2, <1>4, <2>2
<1>7. IsFiniteSet(history) /\ Cardinality(history) \in Nat
  <2>1. history \in SUBSET Store
    BY <1>1
  <2> QED  BY <2>1, LedgerConstants, FS_Subset, FS_CardinalityType
<1> QED
  BY <1>1, <1>2, <1>3, <1>4, <1>5, <1>6, <1>7, Zenon

\* One store changes, from had to has bytes, and the ledger with it.
Changes(s, q, had, has) ==
  /\ lru' = [lru EXCEPT ![s] = q] /\ Keyed(q) /\ Len(q) <= MaxEntries
  /\ had = Memory!SumBytes(lru[s]) /\ has = Memory!SumBytes(q)
  /\ bytes' = [bytes EXCEPT ![s] = has]
  /\ categories' = [categories EXCEPT !["fresh"] = categories["fresh"] - had + has]
  /\ used' = used - had + has /\ used' <= HardCap
  /\ UNCHANGED <<target, pressure, pressureFor, recoveryFor, clients, cursor, open, closedStores, history>>

LEMMA LedgerChange ==
  ASSUME LedgerInv, MemInv', NEW s \in Store, NEW q, NEW had, NEW has, Changes(s, q, had, has)
  PROVE  LedgerInv'
<1>0. /\ lru' = [lru EXCEPT ![s] = q] /\ Keyed(q) /\ Len(q) <= MaxEntries
      /\ had = Memory!SumBytes(lru[s]) /\ has = Memory!SumBytes(q)
      /\ bytes' = [bytes EXCEPT ![s] = has]
      /\ categories' = [categories EXCEPT !["fresh"] = categories["fresh"] - had + has]
      /\ used' = used - had + has /\ used' <= HardCap
      /\ UNCHANGED <<target, pressure, pressureFor, recoveryFor, clients, cursor, open, closedStores, history>>
  BY DEF Changes
<1>1. /\ q \in Seq(Memory!Entry) /\ lru' \in [Store -> Seq(Memory!Entry)]
      /\ \A x \in Store : lru'[x] = IF x = s THEN q ELSE lru[x]
  <2>1. FreshEntry \subseteq Memory!Entry
    BY DEF FreshEntry
  <2>2. lru \in [Store -> Seq(Memory!Entry)]
    BY LedgerFacts
  <2>3. lru'[s] \in Seq(FreshEntry) /\ lru'[s] = q
    BY <1>0, <2>2 DEF MemInv
  <2>4. q \in Seq(Memory!Entry)
    BY <2>1, <2>3
  <2> QED  BY <1>0, <2>2, <2>4
<1>2. has \in Nat /\ had \in Nat /\ had <= categories["fresh"] /\ categories["fresh"] \in Nat
  BY <1>0, <1>1, SumType, LedgerFacts, Zenon
<1>3. Sums' = [Sums EXCEPT ![s] = has]
  <2>1. \A x \in Store : Sums'[x] = Memory!SumBytes(lru'[x])
    BY DEF Sums
  <2>2. Sums' \in [Store -> Nat]
    <3>1. ASSUME NEW x \in Store PROVE Memory!SumBytes(lru'[x]) \in Nat
      <4>1. lru'[x] \in Seq(Memory!Entry)
        BY <1>1
      <4> QED  BY <4>1, SumType
    <3> QED  BY <3>1 DEF Sums
  <2>3. Sums \in [Store -> Nat] /\ \A x \in Store : Sums[x] = Memory!SumBytes(lru[x])
    BY LedgerFacts, Zenon
  <2>4. \A x \in Store : Sums'[x] = IF x = s THEN has ELSE Sums[x]
    BY <1>0, <1>1, <2>1, <2>3
  <2> HIDE DEF Sums
  <2> QED  BY <2>2, <2>3, <2>4
<1>4. Total(Sums', Store) = categories["fresh"] - had + has
  <2>1. Sums \in [Store -> Nat] /\ Sums[s] = had /\ categories["fresh"] = Total(Sums, Store)
    BY <1>0, LedgerFacts
  <2> HIDE DEF Sums
  <2>2. Total([Sums EXCEPT ![s] = has], Store) = Total(Sums, Store) - Sums[s] + has
    BY <1>2, <2>1, StoresTotal, ZenonT(60)
  <2> QED  BY <1>3, <2>1, <2>2
<1>5. /\ categories'["fresh"] = categories["fresh"] - had + has
      /\ categories'["metadata"] = categories["metadata"] /\ categories'["other"] = categories["other"]
      /\ categories' \in [Memory!Category -> Nat]
  <2>1. categories["fresh"] - had + has \in Nat
    BY <1>2
  <2>2. categories \in [Memory!Category -> Nat]
    BY LedgerFacts
  <2> DEFINE v == categories["fresh"] - had + has
  <2>3. v \in Nat /\ categories' = [categories EXCEPT !["fresh"] = v]
    BY <1>0, <2>1
  <2> HIDE DEF v
  <2>4. categories'["fresh"] = v /\ categories'["metadata"] = categories["metadata"]
        /\ categories'["other"] = categories["other"] /\ categories' \in [Memory!Category -> Nat]
    BY <2>2, <2>3 DEF Memory!Category
  <2> QED  BY <2>4 DEF v
<1>6. \A x \in Store : bytes'[x] = Memory!SumBytes(lru'[x]) /\ bytes' \in [Store -> Nat]
  BY <1>0, <1>1, <1>2, LedgerFacts, Zenon
<1>7. used' \in 0..HardCap /\ used' = categories'["fresh"] + categories'["metadata"] + categories'["other"]
  <2> DEFINE f == categories["fresh"]
             m == categories["metadata"]
             o == categories["other"]
  <2>1. f \in Nat /\ m \in Nat /\ o \in Nat /\ used \in Nat /\ used = f + m + o
    BY LedgerFacts
  <2>2. had \in Nat /\ has \in Nat /\ had <= f /\ used' = used - had + has /\ HardCap \in Nat /\ used' <= HardCap
    BY <1>0, <1>2, LedgerConstants
  <2>3. categories'["fresh"] = f - had + has /\ categories'["metadata"] = m /\ categories'["other"] = o
    BY <1>5
  <2> HIDE DEF f, m, o
  <2>4. used' \in 0..HardCap /\ used' = (f - had + has) + m + o
    BY <2>1, <2>2
  <2> QED  BY <2>3, <2>4
<1>8. LedgerExact'
  BY <1>0, <1>4, <1>5, <1>6, <1>7, LedgerForm, LedgerFacts
<1>9. \A x \in Store : Keyed(lru'[x]) /\ Len(lru'[x]) <= MaxEntries
  BY <1>0, <1>1, LedgerFacts, Zenon
<1>10. \A x \in Store : Keyed(lru[x])'
  BY <1>9 DEF Keyed
<1>11. Memory!TypeOK'
  <2>1. Store # {}
    OBVIOUS
  <2>2. bytes' \in [Store -> Nat]
    BY <1>6
  <2> QED  BY <1>0, <1>1, <1>5, <1>7, <1>9, <2>2, Zenon DEF LedgerInv, Memory!TypeOK
<1> QED
  BY <1>8, <1>10, <1>11 DEF LedgerInv

\* The store keeps q and gives the rest back: release() takes all of it.
LEMMA LedgerKeeps ==
  ASSUME LedgerInv, MemInv', NEW s \in Store, NEW q, NEW gone, Memory!Keeps(s, q, gone),
         Keyed(q), Len(q) <= MaxEntries, q \in Seq(Memory!Entry), gone \in Nat,
         Memory!SumBytes(q) + gone = Memory!SumBytes(lru[s])
  PROVE  LedgerInv'
<1> DEFINE had == Memory!SumBytes(lru[s])
           has == Memory!SumBytes(q)
<1>1. had \in Nat /\ has \in Nat /\ had <= categories["fresh"] /\ categories["fresh"] <= used
      /\ bytes[s] = had /\ used \in Nat /\ categories["fresh"] \in Nat /\ used <= HardCap
  <2>1. has \in Nat
    BY SumType
  <2>2. had \in Nat /\ had <= categories["fresh"] /\ bytes[s] = had /\ used \in Nat /\ used <= HardCap
    BY LedgerFacts
  <2> DEFINE f == categories["fresh"]
             m == categories["metadata"]
             o == categories["other"]
  <2>3. f \in Nat /\ m \in Nat /\ o \in Nat /\ used = f + m + o
    BY LedgerFacts
  <2>4. f <= used
    <3> HIDE DEF f, m, o
    <3> QED  BY <2>2, <2>3
  <2> QED  BY <2>1, <2>2, <2>3, <2>4
<1>2. has + gone = had
  OBVIOUS
<1>3. lru' = [lru EXCEPT ![s] = q] /\ bytes' = [bytes EXCEPT ![s] = bytes[s] - gone]
      /\ used' = used - Memory!Released(gone, "fresh")
      /\ categories' = [categories EXCEPT !["fresh"] = categories["fresh"] - Memory!Released(gone, "fresh")]
      /\ UNCHANGED <<target, pressure, pressureFor, recoveryFor, clients, cursor, open, closedStores, history>>
  BY DEF Memory!Keeps, Memory!Release
<1> HIDE DEF had, has
<1>4. Memory!Released(gone, "fresh") = gone
  BY <1>1, <1>2 DEF Memory!Released, Memory!Lower
<1>5. bytes[s] - gone = has /\ used - gone = used - had + has
      /\ categories["fresh"] - gone = categories["fresh"] - had + has /\ used - gone <= HardCap
  <2> DEFINE f == categories["fresh"]
             b == bytes[s]
  <2>1. f \in Nat /\ used \in Nat /\ b = had /\ used <= HardCap /\ HardCap \in Nat
    BY <1>1, LedgerConstants
  <2> HIDE DEF f, b
  <2>2. b - gone = has /\ used - gone = used - had + has /\ f - gone = f - had + has /\ used - gone <= HardCap
    BY <1>1, <1>2, <2>1
  <2> QED  BY <2>2 DEF f, b
<1>6. /\ bytes' = [bytes EXCEPT ![s] = has]
      /\ categories' = [categories EXCEPT !["fresh"] = categories["fresh"] - had + has]
      /\ used' = used - had + has /\ used' <= HardCap
  BY <1>3, <1>4, <1>5, Zenon
<1>7. had = Memory!SumBytes(lru[s]) /\ has = Memory!SumBytes(q)
  BY DEF had, has
<1>8. Changes(s, q, had, has)
  BY <1>3, <1>6, <1>7, Zenon DEF Changes
<1> QED
  BY <1>8, LedgerChange

\* What a key has, and what the others have.
LEMMA KeyParts ==
  ASSUME NEW q \in Seq(Memory!Entry), NEW k, Keyed(q)
  PROVE  /\ Memory!Others(q, k) \in Seq(Memory!Entry) /\ Keyed(Memory!Others(q, k))
         /\ Len(Memory!Others(q, k)) \in Nat /\ Len(Memory!Others(q, k)) <= Len(q)
         /\ Memory!SumBytes(Memory!Held(q, k)) \in Nat
         /\ Memory!SumBytes(Memory!Others(q, k)) + Memory!SumBytes(Memory!Held(q, k)) = Memory!SumBytes(q)
         /\ \A i \in DOMAIN Memory!Others(q, k) : Memory!Others(q, k)[i].key # k
         /\ Memory!Held(q, k) \in Seq(Memory!Entry) /\ Keyed(Memory!Held(q, k))
         /\ Len(Memory!Others(q, k)) + Len(Memory!Held(q, k)) = Len(q)
         /\ \A i \in DOMAIN Memory!Held(q, k) : Memory!Held(q, k)[i].key = k
         /\ Memory!Visible(q, k) = <<>> \/ Memory!Visible(q, k) = Memory!Held(q, k)
<1> DEFINE A == Memory!At(q, k)
           D == DOMAIN q
<1>1. A \subseteq D /\ \A p \in D : p \in A <=> q[p].key = k
  BY DEF Memory!At
<1>2. D = 1..Len(q) /\ Len(q) \in Nat /\ IsFiniteSet(D) /\ Cardinality(D) = Len(q)
  <2>1. D = 1..Len(q) /\ Len(q) \in Nat /\ IsFiniteSet(D)
    BY SumType
  <2> DEFINE l == Len(q)
  <2>2. l \in Nat
    BY <2>1
  <2> HIDE DEF l
  <2>3. Cardinality(1..l) = l
    BY <2>2, FS_Interval
  <2> QED  BY <2>1, <2>3 DEF l
<1>3. Memory!Others(q, k) = Memory!Picked(q, D \ A) /\ Memory!Held(q, k) = Memory!Picked(q, A)
  BY DEF Memory!Others, Memory!Held
<1>4. /\ Memory!Picked(q, A) \in Seq(Memory!Entry) /\ Len(Memory!Picked(q, A)) = Cardinality(A)
      /\ Cardinality(A) \in Nat /\ Keyed(Memory!Picked(q, A))
      /\ \A i \in DOMAIN Memory!Picked(q, A) : \E p \in A : Memory!Picked(q, A)[i] = q[p]
  BY <1>1, SumPicked
<1>5. /\ Memory!Picked(q, D \ A) \in Seq(Memory!Entry) /\ Len(Memory!Picked(q, D \ A)) = Cardinality(D \ A)
      /\ Cardinality(D \ A) \in Nat /\ Cardinality(D \ A) <= Len(q) /\ Keyed(Memory!Picked(q, D \ A))
      /\ \A i \in DOMAIN Memory!Picked(q, D \ A) : \E p \in D \ A : Memory!Picked(q, D \ A)[i] = q[p]
  <2> DEFINE C == D \ A
  <2>1. C \subseteq DOMAIN q
    OBVIOUS
  <2> HIDE DEF C
  <2>2. /\ Memory!Picked(q, C) \in Seq(Memory!Entry) /\ Len(Memory!Picked(q, C)) = Cardinality(C)
        /\ Cardinality(C) \in Nat /\ Cardinality(C) <= Len(q) /\ Keyed(Memory!Picked(q, C))
        /\ \A i \in DOMAIN Memory!Picked(q, C) : \E p \in C : Memory!Picked(q, C)[i] = q[p]
    BY <2>1, SumPicked
  <2> QED  BY <2>2, Zenon DEF C
<1>6. /\ Memory!SumBytes(Memory!Picked(q, A)) \in Nat
      /\ Memory!SumBytes(Memory!Picked(q, D \ A)) + Memory!SumBytes(Memory!Picked(q, A)) = Memory!SumBytes(q)
  BY <1>1, SumParts, Zenon
<1>7. Cardinality(D \ A) + Cardinality(A) = Len(q)
  <2>1. Cardinality(D \ A) = Cardinality(D) - Cardinality(D \cap A) /\ D \cap A = A
    <3> HIDE DEF D, A
    <3> QED  BY <1>1, <1>2, FS_Difference, Zenon
  <2> DEFINE a == Cardinality(A)
             b == Cardinality(D \ A)
  <2>2. a \in Nat /\ b \in Nat /\ b = Len(q) - a
    BY <1>2, <1>4, <1>5, <2>1, Zenon
  <2> HIDE DEF a, b
  <2>3. b + a = Len(q)
    BY <1>2, <2>2
  <2> QED  BY <2>3 DEF a, b
<1>8. Memory!Visible(q, k) = <<>> \/ Memory!Visible(q, k) = Memory!Picked(q, A)
  <2> DEFINE V == {i \in A : ~q[i].expired}
  <2>1. Memory!Visible(q, k) = Memory!Picked(q, V)
    BY DEF Memory!Visible
  <2>2. V = {} \/ V = A
    BY <1>1 DEF Keyed
  <2>3. V = {} => Memory!Picked(q, V) = <<>>
    <3>1. Memory!Picked(q, {}) \in Seq(Memory!Entry) /\ Len(Memory!Picked(q, {})) = Cardinality({})
      <4>1. {} \subseteq DOMAIN q
        OBVIOUS
      <4> QED  BY <4>1, SumPicked
    <3>2. Cardinality({}) = 0
      BY FS_EmptySet
    <3>3. Memory!Picked(q, {}) = <<>>
      BY <3>1, <3>2
    <3> HIDE DEF V
    <3> QED  BY <3>3
  <2> HIDE DEF V
  <2> QED  BY <2>1, <2>2, <2>3
<1> HIDE DEF A, D
<1>9. /\ \A i \in DOMAIN Memory!Picked(q, D \ A) : Memory!Picked(q, D \ A)[i].key # k
      /\ \A i \in DOMAIN Memory!Picked(q, A) : Memory!Picked(q, A)[i].key = k
  <2> DEFINE o == Memory!Picked(q, D \ A)
             h == Memory!Picked(q, A)
  <2>1. (\A i \in DOMAIN o : \E p \in D \ A : o[i] = q[p]) /\ (\A i \in DOMAIN h : \E p \in A : h[i] = q[p])
    BY <1>4, <1>5, Zenon
  <2> HIDE DEF o, h
  <2>2. (\A i \in DOMAIN o : o[i].key # k) /\ (\A i \in DOMAIN h : h[i].key = k)
    BY <1>1, <2>1
  <2> QED  BY <2>2, Zenon DEF o, h
<1> QED
  BY <1>3, <1>4, <1>5, <1>6, <1>7, <1>8, <1>9, Zenon

\* The key's entry goes: a refused set, a delete, a read that finds it expired or cannot decode it.
LEMMA LedgerDrops ==
  ASSUME LedgerInv, MemInv', NEW s \in Store, NEW k,
         Memory!Keeps(s, Memory!Others(lru[s], k), Memory!SumBytes(Memory!Held(lru[s], k)))
  PROVE  LedgerInv'
<1> DEFINE q == lru[s]
           left == Memory!Others(q, k)
           gone == Memory!SumBytes(Memory!Held(q, k))
<1>1. q \in Seq(Memory!Entry) /\ Keyed(q) /\ Len(q) <= MaxEntries /\ Len(q) \in Nat
  BY LedgerFacts
<1>2. /\ left \in Seq(Memory!Entry) /\ Keyed(left) /\ gone \in Nat /\ Len(left) <= Len(q) /\ Len(left) \in Nat
      /\ Memory!SumBytes(left) + gone = Memory!SumBytes(q)
  BY <1>1, KeyParts
<1>3. Memory!Keeps(s, left, gone) /\ q = lru[s]
  OBVIOUS
<1> HIDE DEF q, left, gone
<1>4. Len(left) <= MaxEntries
  BY <1>1, <1>2, LedgerConstants
<1> QED
  BY <1>2, <1>3, <1>4, LedgerKeeps

\* Nothing leaves: the entries are marked, or change places.
LEMMA LedgerMarks ==
  ASSUME LedgerInv, MemInv', NEW s \in Store, NEW q \in Seq(Memory!Entry), Memory!Keeps(s, q, 0),
         Keyed(q), Len(q) = Len(lru[s]), Memory!SumBytes(q) = Memory!SumBytes(lru[s])
  PROVE  LedgerInv'
<1>1. Len(lru[s]) <= MaxEntries /\ Memory!SumBytes(lru[s]) \in Nat
  BY LedgerFacts
<1>2. Memory!SumBytes(q) + 0 = Memory!SumBytes(lru[s]) /\ 0 \in Nat /\ Len(q) <= MaxEntries
  BY <1>1
<1> QED
  BY <1>2, LedgerKeeps

\* Old or expired, an entry keeps its key and its size.
LEMMA MarkKeeps ==
  ASSUME NEW q \in Seq(Memory!Entry), NEW k, NEW t, t = Memory!Supersede(q, k) \/ t = Memory!Expired(q, k)
  PROVE  /\ t \in Seq(Memory!Entry) /\ Len(t) = Len(q) /\ Memory!SumBytes(t) = Memory!SumBytes(q)
         /\ Keyed(q) => Keyed(t)
<1>1. DOMAIN q = 1..Len(q) /\ Len(q) \in Nat
  OBVIOUS
<1>2. /\ DOMAIN t = DOMAIN q /\ t = [i \in DOMAIN q |-> t[i]]
      /\ \A i \in DOMAIN q : \/ t[i] = q[i] \/ t[i] = [q[i] EXCEPT !.old = TRUE]
                             \/ t[i] = [q[i] EXCEPT !.expired = TRUE]
  <2>1. ASSUME t = Memory!Supersede(q, k)
        PROVE  /\ DOMAIN t = DOMAIN q /\ t = [i \in DOMAIN q |-> t[i]]
               /\ \A i \in DOMAIN q : t[i] = q[i] \/ t[i] = [q[i] EXCEPT !.old = TRUE]
    BY <2>1 DEF Memory!Supersede
  <2>2. ASSUME t = Memory!Expired(q, k)
        PROVE  /\ DOMAIN t = DOMAIN q /\ t = [i \in DOMAIN q |-> t[i]]
               /\ \A i \in DOMAIN q : t[i] = q[i] \/ t[i] = [q[i] EXCEPT !.expired = TRUE]
    BY <2>2 DEF Memory!Expired
  <2> QED  BY <2>1, <2>2
<1>3. ASSUME NEW i \in DOMAIN q
      PROVE  t[i] \in Memory!Entry /\ t[i].bytes = q[i].bytes /\ t[i].key = q[i].key
  <2> DEFINE e == q[i]
             o == [e EXCEPT !.old = TRUE]
             x == [e EXCEPT !.expired = TRUE]
  <2>1. e \in Memory!Entry
    OBVIOUS
  <2> HIDE DEF e
  <2>2. o \in Memory!Entry /\ o.bytes = e.bytes /\ o.key = e.key
    BY <2>1, Zenon DEF Memory!Entry
  <2>3. x \in Memory!Entry /\ x.bytes = e.bytes /\ x.key = e.key
    BY <2>1, Zenon DEF Memory!Entry
  <2>4. t[i] = e \/ t[i] = o \/ t[i] = x
    BY <1>2 DEF e
  <2> HIDE DEF o, x
  <2>5. t[i] \in Memory!Entry /\ t[i].bytes = e.bytes /\ t[i].key = e.key
    BY <2>1, <2>2, <2>3, <2>4
  <2> QED  BY <2>5 DEF e
<1>4. t \in Seq(Memory!Entry)
  <2>1. t \in [1..Len(q) -> Memory!Entry]
    BY <1>1, <1>2, <1>3
  <2> QED  BY <1>1, <2>1, FunctionIsSeq
<1> QED
  BY <1>2, <1>3, <1>4, SumMarked

LEMMA LedgerSets ==
  ASSUME LedgerInv, MemInv', NEW s \in Store, NEW k, NEW n,
         Memory!SetRefused(s, k, n) \/ Memory!SetUnworthy(s, k, n) \/ Memory!Delete(s, k)
  PROVE  LedgerInv'
<1>1. CASE Memory!SetRefused(s, k, n) \/ Memory!Delete(s, k)
  BY <1>1, LedgerDrops DEF Memory!SetRefused, Memory!Delete
<1>2. CASE Memory!SetUnworthy(s, k, n)
  <2> DEFINE t == Memory!Supersede(lru[s], k)
  <2>1. lru[s] \in Seq(Memory!Entry) /\ Keyed(lru[s])
    BY LedgerFacts
  <2>2. /\ t \in Seq(Memory!Entry) /\ Len(t) = Len(lru[s])
        /\ Memory!SumBytes(t) = Memory!SumBytes(lru[s]) /\ Keyed(t)
    BY <2>1, MarkKeeps
  <2>3. Memory!Keeps(s, t, 0)
    BY <1>2 DEF Memory!SetUnworthy
  <2> HIDE DEF t
  <2> QED  BY <2>2, <2>3, LedgerMarks
<1> QED
  BY <1>1, <1>2

LEMMA LedgerExpire ==
  ASSUME LedgerInv, MemInv', NEW s \in Store, NEW k, Memory!Expire(s, k)
  PROVE  LedgerInv'
<1> DEFINE t == Memory!Expired(lru[s], k)
           had == Memory!SumBytes(lru[s])
<1>1. /\ lru[s] \in Seq(Memory!Entry) /\ Keyed(lru[s]) /\ had \in Nat /\ used \in Nat /\ used <= HardCap
      /\ bytes \in [Store -> Nat] /\ bytes[s] = had /\ categories \in [Memory!Category -> Nat]
      /\ categories["fresh"] \in Nat /\ Len(lru[s]) <= MaxEntries
  BY LedgerFacts, Zenon
<1>2. /\ t \in Seq(Memory!Entry) /\ Len(t) = Len(lru[s]) /\ Memory!SumBytes(t) = had /\ Keyed(t)
  BY <1>1, MarkKeeps, Zenon
<1>3. /\ lru' = [lru EXCEPT ![s] = t] /\ bytes' = bytes /\ categories' = categories /\ used' = used
      /\ UNCHANGED <<target, pressure, pressureFor, recoveryFor, clients, cursor, open, closedStores, history>>
  BY DEF Memory!Expire, Memory!budgetVars
<1>4. used - had + had = used /\ categories["fresh"] - had + had = categories["fresh"]
  <2> DEFINE f == categories["fresh"]
  <2>1. f \in Nat /\ had \in Nat /\ used \in Nat
    BY <1>1
  <2> HIDE DEF f, had
  <2>2. used - had + had = used /\ f - had + had = f
    BY <2>1
  <2> QED  BY <2>2 DEF f
<1> HIDE DEF t, had
<1>5. bytes' = [bytes EXCEPT ![s] = had] /\ categories' = [categories EXCEPT !["fresh"] = categories["fresh"] - had + had]
  BY <1>1, <1>3, <1>4
<1>6. had = Memory!SumBytes(lru[s])
  BY DEF had
<1>7. Changes(s, t, had, had)
  BY <1>1, <1>2, <1>3, <1>4, <1>5, <1>6, Zenon DEF Changes
<1> QED
  BY <1>7, LedgerChange

\* Distinct keys in front of one that is not among them.
LEMMA KeyedConcat ==
  ASSUME NEW q \in Seq(Memory!Entry), NEW t \in Seq(Memory!Entry), NEW k, Keyed(q), Keyed(t),
         \A i \in DOMAIN q : q[i].key # k, \A i \in DOMAIN t : t[i].key = k
  PROVE  Keyed(q \o t)
<1> DEFINE u == q \o t
           n == Len(q)
           m == Len(t)
<1>1. n \in Nat /\ m \in Nat /\ DOMAIN q = 1..n /\ DOMAIN t = 1..m
  OBVIOUS
<1>2. DOMAIN u = 1..(n + m) /\ \A i \in DOMAIN u : u[i] = IF i <= n THEN q[i] ELSE t[i - n]
  <2>1. u \in Seq(Memory!Entry) /\ Len(u) = n + m /\ \A i \in DOMAIN u : u[i] = IF i <= n THEN q[i] ELSE t[i - n]
    BY SumConcat
  <2> HIDE DEF u, n, m
  <2>2. DOMAIN u = 1..Len(u)
    BY <2>1
  <2> QED  BY <2>1, <2>2
<1> HIDE DEF u, n, m
<1>3. ASSUME NEW i \in DOMAIN u
      PROVE  /\ i <= n => i \in DOMAIN q /\ u[i] = q[i]
             /\ ~(i <= n) => i - n \in DOMAIN t /\ u[i] = t[i - n]
             /\ i \in Nat
  BY <1>1, <1>2
<1>4. ASSUME NEW i \in DOMAIN u, NEW j \in DOMAIN u, u[i].key = u[j].key PROVE i = j
  <2>1. CASE i <= n /\ j <= n
    BY <1>3, <1>4, <2>1 DEF Keyed
  <2>2. CASE ~(i <= n) /\ ~(j <= n)
    <3>1. i - n = j - n
      BY <1>3, <1>4, <2>2 DEF Keyed
    <3> QED  BY <1>1, <1>3, <3>1
  <2>3. CASE i <= n /\ ~(j <= n)
    BY <1>3, <1>4, <2>3
  <2>4. CASE ~(i <= n) /\ j <= n
    BY <1>3, <1>4, <2>4
  <2> QED  BY <2>1, <2>2, <2>3, <2>4
<1>5. Keyed(u)
  BY <1>4 DEF Keyed
<1> QED
  BY <1>5 DEF u

LEMMA LedgerGet ==
  ASSUME LedgerInv, MemInv', NEW s \in Store, NEW k, NEW decodes, Memory!Get(s, k, decodes)
  PROVE  LedgerInv'
<1> DEFINE q == lru[s]
           others == Memory!Others(q, k)
           held == Memory!Held(q, k)
           hit == Memory!Visible(q, k)
<1>1. \/ Memory!Keeps(s, others, Memory!SumBytes(held))
      \/ hit # <<>> /\ Memory!Keeps(s, others \o hit, 0)
  BY DEF Memory!Get
<1>2. ASSUME hit # <<>>, Memory!Keeps(s, others \o hit, 0) PROVE LedgerInv'
  <2>1. q \in Seq(Memory!Entry) /\ Keyed(q)
    BY LedgerFacts
  <2> HIDE DEF q
  <2>2. /\ others \in Seq(Memory!Entry) /\ Keyed(others) /\ (\A i \in DOMAIN others : others[i].key # k)
        /\ held \in Seq(Memory!Entry) /\ Keyed(held) /\ (\A i \in DOMAIN held : held[i].key = k)
        /\ Memory!SumBytes(others) + Memory!SumBytes(held) = Memory!SumBytes(q)
        /\ Len(others) + Len(held) = Len(q) /\ (hit = <<>> \/ hit = held)
    BY <2>1, KeyParts
  <2> HIDE DEF others, held, hit
  <2>3. hit = held
    BY <1>2, <2>2
  <2>4. Keyed(others \o held)
    BY <2>2, KeyedConcat, Zenon
  <2>5. /\ others \o held \in Seq(Memory!Entry) /\ Len(others \o held) = Len(q)
        /\ Memory!SumBytes(others \o held) = Memory!SumBytes(q)
    BY <2>2, SumConcat
  <2> DEFINE t == others \o held
  <2>6. t \in Seq(Memory!Entry) /\ Len(t) = Len(lru[s]) /\ Memory!SumBytes(t) = Memory!SumBytes(lru[s])
        /\ Keyed(t) /\ Memory!Keeps(s, t, 0)
    BY <1>2, <2>3, <2>4, <2>5 DEF q
  <2> HIDE DEF t
  <2> QED  BY <2>6, LedgerMarks
<1> QED
  BY <1>1, <1>2, LedgerDrops

\* Some of the entries go, whatever their number.
LEMMA LedgerPicked ==
  ASSUME LedgerInv, MemInv', NEW s \in Store, NEW P, P \subseteq DOMAIN lru[s], NEW t \in Seq(Memory!Entry),
         LET left == Memory!Picked(lru[s], DOMAIN lru[s] \ P)
         IN  DOMAIN t = DOMAIN left /\ \A i \in DOMAIN left : t[i].bytes = left[i].bytes /\ t[i].key = left[i].key,
         Memory!Keeps(s, t, Memory!SumBytes(Memory!Picked(lru[s], P)))
  PROVE  LedgerInv'
<1> DEFINE q == lru[s]
           Q == DOMAIN q \ P
           left == Memory!Picked(q, Q)
           gone == Memory!SumBytes(Memory!Picked(q, P))
<1>1. q \in Seq(Memory!Entry) /\ Keyed(q) /\ Len(q) <= MaxEntries /\ Len(q) \in Nat
  BY LedgerFacts
<1>2. gone \in Nat /\ Memory!SumBytes(left) + gone = Memory!SumBytes(q)
  BY <1>1, SumParts
<1>3. DOMAIN t = DOMAIN left /\ \A i \in DOMAIN left : t[i].bytes = left[i].bytes /\ t[i].key = left[i].key
  BY Zenon
<1>4. Memory!Keeps(s, t, gone) /\ Q \subseteq DOMAIN q /\ q = lru[s]
  OBVIOUS
<1> HIDE DEF Q, q, gone
<1>5. left \in Seq(Memory!Entry) /\ Keyed(left) /\ Len(left) = Cardinality(Q) /\ Cardinality(Q) <= Len(q) /\ Cardinality(Q) \in Nat
  BY <1>1, <1>4, SumPicked
<1> HIDE DEF left
<1>6. Memory!SumBytes(t) = Memory!SumBytes(left) /\ Len(t) = Len(left) /\ Keyed(t)
  BY <1>3, <1>5, SumMarked, Zenon
<1>7. Len(t) <= MaxEntries
  BY <1>1, <1>5, <1>6, LedgerConstants
<1>8. Memory!SumBytes(t) + gone = Memory!SumBytes(lru[s])
  BY <1>2, <1>4, <1>6
<1> QED
  BY <1>2, <1>4, <1>6, <1>7, <1>8, LedgerKeeps

LEMMA LedgerPattern ==
  ASSUME LedgerInv, MemInv', NEW s \in Store, NEW K, Memory!DeleteByPattern(s, K)
  PROVE  LedgerInv'
<1> DEFINE P == {i \in DOMAIN lru[s] : lru[s][i].key \in K /\ ~lru[s][i].expired}
           left == Memory!Picked(lru[s], DOMAIN lru[s] \ P)
           t == [i \in DOMAIN left |-> [left[i] EXCEPT !.old = left[i].old \/ left[i].key \in K]]
<1>1. Memory!Keeps(s, t, Memory!SumBytes(Memory!Picked(lru[s], P))) /\ P \subseteq DOMAIN lru[s]
  BY DEF Memory!DeleteByPattern
<1>2. left \in Seq(Memory!Entry)
  <2>1. lru[s] \in Seq(Memory!Entry)
    BY LedgerFacts
  <2> DEFINE Q == DOMAIN lru[s] \ P
  <2>2. Q \subseteq DOMAIN lru[s]
    OBVIOUS
  <2> HIDE DEF Q
  <2>3. Memory!Picked(lru[s], Q) \in Seq(Memory!Entry)
    BY <2>1, <2>2, SumPicked
  <2> QED  BY <2>3 DEF Q
<1> DEFINE l == left
<1>3. l \in Seq(Memory!Entry) /\ l = Memory!Picked(lru[s], DOMAIN lru[s] \ P)
  BY <1>2
<1>4. t = [i \in DOMAIN l |-> [l[i] EXCEPT !.old = l[i].old \/ l[i].key \in K]]
  OBVIOUS
<1> HIDE DEF left, l, P, t
<1>5. ASSUME NEW i \in DOMAIN l PROVE t[i] \in Memory!Entry /\ t[i].bytes = l[i].bytes /\ t[i].key = l[i].key
  <2> DEFINE e == l[i]
             b == e.old \/ e.key \in K
             o == [e EXCEPT !.old = b]
  <2>1. e \in Memory!Entry /\ t[i] = o
    BY <1>3, <1>4
  <2>2. b \in BOOLEAN
    BY <2>1 DEF Memory!Entry
  <2> HIDE DEF b, e
  <2>3. o \in Memory!Entry /\ o.bytes = e.bytes /\ o.key = e.key
    BY <2>1, <2>2 DEF Memory!Entry
  <2> HIDE DEF o
  <2>4. t[i] \in Memory!Entry /\ t[i].bytes = e.bytes /\ t[i].key = e.key
    BY <2>1, <2>3
  <2> QED  BY <2>4 DEF e
<1>6. DOMAIN t = DOMAIN l /\ t = [i \in DOMAIN l |-> t[i]]
  BY <1>4
<1>7. t \in Seq(Memory!Entry)
  <2>1. DOMAIN l = 1..Len(l) /\ Len(l) \in Nat
    BY <1>3
  <2>2. t \in [1..Len(l) -> Memory!Entry]
    BY <1>5, <1>6, <2>1
  <2> QED  BY <2>1, <2>2, FunctionIsSeq
<1> QED
  BY <1>1, <1>3, <1>5, <1>6, <1>7, LedgerPicked, Zenon

LEMMA LedgerPurge ==
  ASSUME LedgerInv, MemInv', NEW s \in Store, Memory!Purge(s) \/ Memory!Clear(s)
  PROVE  LedgerInv'
<1>0. lru[s] \in Seq(Memory!Entry)
  BY LedgerFacts
<1>1. CASE Memory!Purge(s)
  <2> DEFINE P == {i \in DOMAIN lru[s] : lru[s][i].expired}
             Q == DOMAIN lru[s] \ P
             t == Memory!Picked(lru[s], Q)
  <2>1. Memory!Keeps(s, t, Memory!SumBytes(Memory!Picked(lru[s], P))) /\ P \subseteq DOMAIN lru[s] /\ Q \subseteq DOMAIN lru[s]
    BY <1>1 DEF Memory!Purge
  <2>2. t = Memory!Picked(lru[s], DOMAIN lru[s] \ P)
    OBVIOUS
  <2> HIDE DEF P, Q
  <2>3. t \in Seq(Memory!Entry)
    BY <1>0, <2>1, SumPicked
  <2> HIDE DEF t
  <2> QED  BY <2>1, <2>2, <2>3, LedgerPicked, Zenon
<1>2. CASE Memory!Clear(s)
  <2> DEFINE none == <<>>
             had == Memory!SumBytes(lru[s])
  <2>1. Memory!Keeps(s, none, had) /\ had \in Nat
    BY <1>0, <1>2, SumType DEF Memory!Clear
  <2>2. none \in Seq(Memory!Entry) /\ Len(none) <= MaxEntries /\ DOMAIN none = {}
    BY LedgerConstants
  <2> HIDE DEF none
  <2>3. Memory!SumBytes(none) = 0
    <3>1. Memory!SumBytes(none) = Total(Weights(none), {})
      BY <2>2, SumType, Zenon
    <3> QED  BY <3>1, TotalOfNone
  <2>4. Keyed(none)
    BY <2>2 DEF Keyed
  <2>5. Memory!SumBytes(none) + had = Memory!SumBytes(lru[s])
    BY <2>1, <2>3
  <2> HIDE DEF had
  <2> QED  BY <2>1, <2>2, <2>4, <2>5, LedgerKeeps, Zenon
<1> QED
  BY <1>1, <1>2

\* A write that finds room leaves the ledger within the target, and so within the cap.
LEMMA LedgerAdmits ==
  ASSUME LedgerInv, MemInv', NEW s \in Store, NEW k \in Key, NEW n \in Bytes,
         Memory!SetAdmitted(s, k, n)
  PROVE  LedgerInv'
<1> DEFINE whole == lru[s]
           q == Memory!Others(whole, k)
           held == Memory!SumBytes(Memory!Held(whole, k))
           freed(i) == held + Memory!SumBytes(SubSeq(q, 1, i))
           limit == Memory!Lower(MaxEvictionsPerWrite, Len(q))
           enough == {i \in 0..limit : used - freed(i) + n <= target}
           pops == IF enough = {} THEN limit ELSE CHOOSE i \in enough : \A j \in enough : i <= j
           full == Memory!Higher(0, Len(q) - pops - (MaxEntries - 1))
           stays == SubSeq(q, pops + full + 1, Len(q))
           gone == freed(pops + full)
           new == [key |-> k, bytes |-> n, expired |-> FALSE, old |-> FALSE]
<1>1. \/ enough = {} /\ Memory!Keeps(s, SubSeq(q, pops + 1, Len(q)), freed(pops))
      \/ /\ enough # {}
         /\ lru' = [lru EXCEPT ![s] = Append(stays, new)]
         /\ bytes' = [bytes EXCEPT ![s] = bytes[s] - gone + n]
         /\ used' = used - gone + n
         /\ categories' = [categories EXCEPT !["fresh"] = categories["fresh"] - gone + n]
         /\ UNCHANGED <<target, pressure, pressureFor, recoveryFor, clients, cursor,
                        open, closedStores, history>>
  BY Zenon DEF Memory!SetAdmitted
<1>2. /\ whole \in Seq(Memory!Entry) /\ Keyed(whole) /\ Len(whole) <= MaxEntries /\ Len(whole) \in Nat
      /\ Memory!SumBytes(whole) \in Nat
  BY LedgerFacts
<1>3. /\ q \in Seq(Memory!Entry) /\ Keyed(q) /\ Len(q) \in Nat /\ Len(q) <= Len(whole)
      /\ held \in Nat /\ Memory!SumBytes(q) + held = Memory!SumBytes(whole)
      /\ \A i \in DOMAIN q : q[i].key # k
  BY <1>2, KeyParts
<1> HIDE DEF q, held, whole
<1>4. limit \in Nat /\ limit <= Len(q)
  BY <1>3, MemConstants DEF Memory!Lower
<1>5. pops \in 0..limit /\ (enough # {} => used - freed(pops) + n <= target)
  <2>1. enough \subseteq 0..limit /\ (enough # {} => \E i \in enough : \A j \in enough : i <= j)
    <3>1. enough \subseteq 0..limit
      OBVIOUS
    <3>2. enough \subseteq Nat
      BY <1>4
    <3> HIDE DEF enough
    <3> QED  BY <3>1, <3>2, LeastMember, Zenon
  <2> DEFINE first == CHOOSE i \in enough : \A j \in enough : i <= j
  <2>2. \A i \in enough : used - freed(i) + n <= target
    OBVIOUS
  <2> HIDE DEF enough, limit, freed
  <2>3. enough # {} => first \in enough
    BY <2>1, Zenon
  <2> HIDE DEF first
  <2>4. CASE enough = {}
    BY <1>4, <2>4
  <2>5. CASE enough # {}
    BY <2>1, <2>2, <2>3, <2>5, Zenon DEF first
  <2> QED  BY <2>4, <2>5
<1> HIDE DEF pops, limit, enough
<1>6. pops \in Nat /\ pops <= Len(q)
  BY <1>3, <1>4, <1>5
<1>7. full \in Nat /\ pops + full \in Nat /\ pops + full <= Len(q) /\ Len(q) - (pops + full) <= MaxEntries - 1
  BY <1>3, <1>6, MemConstants DEF Memory!Higher
<1> HIDE DEF full
<1> DEFINE sum == Memory!SumBytes(q)
           a == Memory!SumBytes(SubSeq(q, 1, pops))
           b == Memory!SumBytes(SubSeq(q, 1, pops + full))
           early == SubSeq(q, pops + 1, Len(q))
<1>8. /\ early \in Seq(Memory!Entry) /\ Len(early) = Len(q) - pops /\ a \in Nat /\ Keyed(early)
      /\ a + Memory!SumBytes(early) = sum /\ Memory!SumBytes(early) \in Nat
  BY <1>3, <1>6, SumSplit, Zenon
<1>9. /\ stays \in Seq(Memory!Entry) /\ Len(stays) = Len(q) - (pops + full) /\ b \in Nat /\ Keyed(stays)
      /\ b + Memory!SumBytes(stays) = sum /\ Memory!SumBytes(stays) \in Nat
      /\ \A i \in DOMAIN stays : \E j \in DOMAIN q : stays[i] = q[j]
  <2> DEFINE m == pops + full
  <2>1. m \in Nat /\ m <= Len(q)
    BY <1>7
  <2> HIDE DEF m
  <2>2. LET first == SubSeq(q, 1, m)
            rest == SubSeq(q, m + 1, Len(q))
        IN  /\ rest \in Seq(Memory!Entry) /\ Len(rest) = Len(q) - m /\ Memory!SumBytes(first) \in Nat /\ Keyed(rest)
            /\ Memory!SumBytes(first) + Memory!SumBytes(rest) = Memory!SumBytes(q) /\ Memory!SumBytes(rest) \in Nat
            /\ \A i \in DOMAIN rest : \E j \in DOMAIN q : rest[i] = q[j]
    BY <1>3, <2>1, SumSplit, Zenon
  <2> QED  BY <2>2, Zenon DEF m
<1>10. a <= b
  <2>1. pops <= pops + full
    BY <1>6, <1>7
  <2> QED  BY <1>3, <1>6, <1>7, <2>1, SumGrows
<1>11. freed(pops) = held + a /\ gone = held + b
  OBVIOUS
<1> HIDE DEF stays, early, a, b, gone, freed
<1>12. sum \in Nat /\ sum + held = Memory!SumBytes(lru[s])
  BY <1>3, SumType DEF whole
<1>13. CASE enough = {} /\ Memory!Keeps(s, early, freed(pops))
  <2>1. freed(pops) \in Nat /\ Memory!SumBytes(early) + freed(pops) = Memory!SumBytes(lru[s])
    <3> DEFINE e == Memory!SumBytes(early)
               l == Memory!SumBytes(lru[s])
    <3>1. e \in Nat /\ a \in Nat /\ held \in Nat /\ sum \in Nat /\ a + e = sum /\ sum + held = l
      BY <1>3, <1>8, <1>12
    <3> HIDE DEF e, l, sum
    <3>2. held + a \in Nat /\ e + (held + a) = l
      BY <3>1
    <3> QED  BY <1>11, <3>2 DEF e, l
  <2>2. Len(early) <= MaxEntries
    BY <1>2, <1>3, <1>6, <1>8, LedgerConstants
  <2> QED  BY <1>8, <1>13, <2>1, <2>2, LedgerKeeps
<1>14. CASE /\ enough # {}
            /\ lru' = [lru EXCEPT ![s] = Append(stays, new)]
            /\ bytes' = [bytes EXCEPT ![s] = bytes[s] - gone + n]
            /\ used' = used - gone + n
            /\ categories' = [categories EXCEPT !["fresh"] = categories["fresh"] - gone + n]
            /\ UNCHANGED <<target, pressure, pressureFor, recoveryFor, clients, cursor,
                           open, closedStores, history>>
  <2> DEFINE t == Append(stays, new)
             had == Memory!SumBytes(lru[s])
             has == Memory!SumBytes(t)
             f == categories["fresh"]
  <2>1. new \in Memory!Entry /\ new.bytes = n /\ new.key = k
    BY DEF Memory!Entry
  <2> HIDE DEF new
  <2>2. t \in Seq(Memory!Entry) /\ Len(t) = Len(stays) + 1 /\ has = Memory!SumBytes(stays) + n
    BY <1>9, <2>1, SumAppend
  <2>3. Keyed(t)
    <3>1. t = stays \o <<new>> /\ <<new>> \in Seq(Memory!Entry) /\ DOMAIN <<new>> = {1} /\ <<new>>[1] = new
      BY <1>9, <2>1
    <3>2. Keyed(<<new>>) /\ \A i \in DOMAIN <<new>> : <<new>>[i].key = k
      BY <2>1, <3>1 DEF Keyed
    <3>3. \A i \in DOMAIN stays : stays[i].key # k
      BY <1>3, <1>9
    <3>4. Keyed(stays \o <<new>>)
      BY <1>9, <3>1, <3>2, <3>3, KeyedConcat, Zenon
    <3> QED  BY <3>1, <3>4
  <2>4. Len(t) <= MaxEntries
    BY <1>3, <1>7, <1>9, <2>2, LedgerConstants
  <2>5. /\ bytes[s] = had /\ had \in Nat /\ f \in Nat /\ used \in Nat /\ target <= HardCap /\ target \in Nat
        /\ n \in Nat /\ HardCap \in Nat
    BY LedgerFacts, LedgerConstants
  <2> DEFINE c == Memory!SumBytes(stays)
             h == bytes[s]
  <2>6. c \in Nat /\ b + c = sum /\ sum + held = had /\ has = c + n /\ gone = held + b /\ h = had
    BY <1>9, <1>11, <1>12, <2>2, <2>5
  <2>7. used - (held + a) + n <= target
    BY <1>5, <1>11, <1>14
  <2> HIDE DEF t, had, has, f, c, sum, h
  <2>8. h - gone + n = has /\ used - gone + n = used - had + has /\ f - gone + n = f - had + has
    BY <1>3, <1>9, <1>12, <2>5, <2>6
  <2>9. used - gone + n <= HardCap
    BY <1>3, <1>8, <1>9, <1>10, <2>5, <2>6, <2>7
  <2>10. had = Memory!SumBytes(lru[s]) /\ has = Memory!SumBytes(t)
    BY DEF had, has
  <2>11. /\ lru' = [lru EXCEPT ![s] = t] /\ bytes' = [bytes EXCEPT ![s] = has]
         /\ used' = used - had + has /\ used' <= HardCap
         /\ categories' = [categories EXCEPT !["fresh"] = categories["fresh"] - had + has]
    BY <1>14, <2>8, <2>9, Zenon DEF f, h, t
  <2>12. Changes(s, t, had, has)
    BY <1>14, <2>3, <2>4, <2>10, <2>11, Zenon DEF Changes
  <2> QED  BY <2>12, LedgerChange
<1> QED
  BY <1>1, <1>13, <1>14 DEF early

\* The other users, and room for an access history: the ledger grows by n or gives n back.
LEMMA LedgerOthers ==
  ASSUME LedgerInv, NEW n \in OtherBytes, Memory!OtherReserves(n) \/ Memory!OtherReleases(n)
  PROVE  LedgerInv'
<1> DEFINE f == categories["fresh"]
           m == categories["metadata"]
           o == categories["other"]
           v == categories'["other"]
<1>1. /\ f \in Nat /\ m \in Nat /\ o \in Nat /\ used \in Nat /\ used = f + m + o /\ used <= HardCap
      /\ target \in MinMemory..HardCap /\ n \in Nat /\ HardCap \in Nat /\ MinMemory \in Nat
      /\ categories \in [Memory!Category -> Nat]
  BY LedgerFacts, LedgerConstants
<1>2. UNCHANGED <<target, pressure, pressureFor, recoveryFor, clients, cursor, lru, bytes, open, closedStores, history>>
  BY DEF Memory!OtherReserves, Memory!OtherReleases, Memory!storeVars
<1>3. \E w : /\ w \in Nat /\ categories' = [categories EXCEPT !["other"] = w]
             /\ used' = f + m + w /\ used' \in 0..HardCap
  <2>1. CASE Memory!OtherReserves(n)
    <3>1. used' = used + n /\ categories' = [categories EXCEPT !["other"] = o + n] /\ used + n <= target
      BY <2>1 DEF Memory!OtherReserves, Memory!Reserve, Memory!Fits
    <3> HIDE DEF f, m, o
    <3>2. o + n \in Nat /\ used + n = f + m + (o + n) /\ used + n \in 0..HardCap
      BY <1>1, <3>1
    <3> QED  BY <3>1, <3>2, Zenon
  <2>2. CASE Memory!OtherReleases(n)
    <3> DEFINE r == Memory!Released(n, "other")
    <3>1. used' = used - r /\ categories' = [categories EXCEPT !["other"] = o - r] /\ o >= n
      BY <2>2 DEF Memory!OtherReleases, Memory!Release
    <3>2. r = Memory!Lower(n, Memory!Lower(o, used))
      BY DEF Memory!Released
    <3> HIDE DEF f, m, o, r
    <3>3. r = n
      BY <1>1, <3>1, <3>2 DEF Memory!Lower
    <3>4. o - r \in Nat /\ used - r = f + m + (o - r) /\ used - r \in 0..HardCap
      BY <1>1, <3>1, <3>3
    <3> QED  BY <3>1, <3>4, Zenon
  <2> QED  BY <2>1, <2>2
<1>4. PICK w : /\ w \in Nat /\ categories' = [categories EXCEPT !["other"] = w]
               /\ used' = f + m + w /\ used' \in 0..HardCap
  BY <1>3, Zenon
<1>5. categories' \in [Memory!Category -> Nat] /\ categories'["fresh"] = f /\ categories'["metadata"] = m
      /\ categories'["other"] = w
  BY <1>1, <1>4 DEF Memory!Category
<1>6. Sums' = Sums
  BY <1>2 DEF Sums
<1>7. LedgerExact'
  BY <1>2, <1>4, <1>5, <1>6, LedgerForm, LedgerFacts
<1>8. Memory!TypeOK'
  BY <1>2, <1>4, <1>5, Zenon DEF LedgerInv, Memory!TypeOK
<1>9. \A x \in Store : Keyed(lru[x])'
  BY <1>2 DEF LedgerInv, Keyed
<1> QED
  BY <1>7, <1>8, <1>9 DEF LedgerInv

LEMMA LedgerConstruct ==
  ASSUME LedgerInv, NEW s \in Store, Memory!Construct(s)
  PROVE  LedgerInv'
<1> DEFINE f == categories["fresh"]
           m == categories["metadata"]
           o == categories["other"]
           c == Cardinality(history)
           H == HistoryBytes
<1>1. /\ f \in Nat /\ m \in Nat /\ o \in Nat /\ used \in Nat /\ used = f + m + o /\ used <= HardCap
      /\ target \in MinMemory..HardCap /\ H \in Nat /\ HardCap \in Nat /\ MinMemory \in Nat
      /\ categories \in [Memory!Category -> Nat] /\ c \in Nat /\ m = H * c /\ IsFiniteSet(history)
      /\ history \subseteq open /\ open \subseteq Store /\ clients \in Seq(Store)
  <2>1. H \in Nat /\ HardCap \in Nat /\ MinMemory \in Nat
    BY LedgerConstants
  <2>2. c \in Nat /\ m = H * c /\ IsFiniteSet(history) /\ history \subseteq open
    BY LedgerFacts
  <2> HIDE DEF c, H
  <2> QED  BY <2>1, <2>2, LedgerFacts, Zenon
<1>2. /\ open' = open \cup {s} /\ clients' = Append(clients, s) /\ s \notin open
      /\ UNCHANGED <<target, pressure, pressureFor, recoveryFor, cursor, lru, bytes, closedStores>>
  BY DEF Memory!Construct
<1>3. clients' \in Seq(Store) /\ open' \subseteq Store
  BY <1>1, <1>2
<1>4. \E h : /\ h \in Nat /\ categories' = [categories EXCEPT !["metadata"] = h]
             /\ used' = f + h + o /\ used' \in 0..HardCap
             /\ history' \subseteq open' /\ h = H * Cardinality(history')
  <2>1. CASE Memory!Fits(HistoryBytes)
    <3>1. /\ history' = history \cup {s} /\ used' = used + H /\ used + H <= target
          /\ categories' = [categories EXCEPT !["metadata"] = m + H]
      BY <2>1 DEF Memory!Construct, Memory!Reserve, Memory!Fits
    <3>2. Cardinality(history') = c + 1
      BY <1>1, <1>2, <3>1, FS_AddElement, Zenon
    <3> HIDE DEF f, m, o, c, H
    <3>3. H * (c + 1) = H * c + H
      BY <1>1
    <3>4. m + H \in Nat /\ used + H = f + (m + H) + o /\ used + H \in 0..HardCap /\ m + H = H * (c + 1)
      BY <1>1, <3>1, <3>3
    <3>5. history' \subseteq open'
      BY <1>1, <1>2, <3>1
    <3> QED  BY <3>1, <3>2, <3>4, <3>5, Zenon
  <2>2. CASE ~Memory!Fits(HistoryBytes)
    <3>1. UNCHANGED <<history, used, categories>>
      BY <2>2 DEF Memory!Construct
    <3>2. categories' = [categories EXCEPT !["metadata"] = m]
      BY <1>1, <3>1
    <3> HIDE DEF f, m, o, c, H
    <3>3. used' = f + m + o /\ used' \in 0..HardCap
      BY <1>1, <3>1
    <3>4. history' \subseteq open' /\ m = H * Cardinality(history')
      BY <1>1, <1>2, <3>1 DEF c
    <3> QED  BY <1>1, <3>2, <3>3, <3>4, Zenon
  <2> QED  BY <2>1, <2>2
<1>5. PICK h : /\ h \in Nat /\ categories' = [categories EXCEPT !["metadata"] = h]
               /\ used' = f + h + o /\ used' \in 0..HardCap
               /\ history' \subseteq open' /\ h = H * Cardinality(history')
  BY <1>4, Zenon
<1>6. categories' \in [Memory!Category -> Nat] /\ categories'["fresh"] = f /\ categories'["metadata"] = h
      /\ categories'["other"] = o
  BY <1>1, <1>5, Zenon DEF Memory!Category
<1>7. Sums' = Sums
  BY <1>2 DEF Sums
<1>8. LedgerExact'
  BY <1>2, <1>5, <1>6, <1>7, LedgerForm, LedgerFacts
<1>9. Memory!TypeOK'
  BY <1>2, <1>3, <1>5, <1>6, Zenon DEF LedgerInv, Memory!TypeOK
<1>10. \A x \in Store : Keyed(lru[x])'
  BY <1>2 DEF LedgerInv, Keyed
<1> QED
  BY <1>8, <1>9, <1>10 DEF LedgerInv

LEMMA LedgerQuiet ==
  ASSUME LedgerInv, Memory!Tick \/ Memory!CloseBudget \/ UNCHANGED memoryVars
  PROVE  LedgerInv'
<1>1. UNCHANGED <<used, categories, target, pressure, cursor, lru, bytes, open, closedStores, history>>
  BY DEF Memory!Tick, Memory!CloseBudget, Memory!storeVars, memoryVars
<1>2. clients' \in Seq(Store)
  <2>1. clients \in Seq(Store) /\ <<>> \in Seq(Store)
    BY LedgerFacts
  <2> QED  BY <2>1, Zenon DEF Memory!Tick, Memory!CloseBudget, memoryVars
<1>3. pressureFor' \in -1..PressureWindow /\ recoveryFor' \in -1..RecoveryWindow
  <2>1. pressureFor \in -1..PressureWindow /\ recoveryFor \in -1..RecoveryWindow
    BY DEF LedgerInv, Memory!TypeOK
  <2>2. CASE Memory!Tick
    BY <2>1, <2>2, LedgerConstants DEF Memory!Tick, Memory!Lower
  <2>3. CASE Memory!CloseBudget \/ UNCHANGED memoryVars
    BY <2>1, <2>3 DEF Memory!CloseBudget, memoryVars
  <2> QED  BY <2>2, <2>3
<1>4. Sums' = Sums
  BY <1>1 DEF Sums
<1>5. LedgerExact'
  BY <1>1, <1>4, LedgerForm, LedgerFacts
<1>6. Memory!TypeOK'
  BY <1>1, <1>2, <1>3, Zenon DEF LedgerInv, Memory!TypeOK
<1>7. \A x \in Store : Keyed(lru[x])'
  BY <1>1 DEF LedgerInv, Keyed
<1> QED
  BY <1>5, <1>6, <1>7 DEF LedgerInv

LEMMA LedgerClose ==
  ASSUME LedgerInv, NEW s \in Store, Memory!Close(s)
  PROVE  LedgerInv'
<1> DEFINE none == <<>>
           had == Memory!SumBytes(lru[s])
           meta == IF s \in history THEN HistoryBytes ELSE 0
           f == categories["fresh"]
           m == categories["metadata"]
           o == categories["other"]
           c == Cardinality(history)
           H == HistoryBytes
<1>1. /\ f \in Nat /\ m \in Nat /\ o \in Nat /\ used \in Nat /\ used = f + m + o /\ used <= HardCap
      /\ H \in Nat /\ HardCap \in Nat /\ f = Total(Sums, Store) /\ Sums \in [Store -> Nat] /\ Sums[s] = had
      /\ categories \in [Memory!Category -> Nat] /\ c \in Nat /\ m = H * c /\ IsFiniteSet(history)
      /\ history \subseteq open /\ open \subseteq Store /\ closedStores \subseteq Store /\ clients \in Seq(Store)
      /\ had \in Nat /\ had <= f /\ bytes \in [Store -> Nat] /\ lru \in [Store -> Seq(Memory!Entry)]
      /\ \A x \in Store : bytes[x] = Memory!SumBytes(lru[x]) /\ Len(lru[x]) <= MaxEntries /\ Keyed(lru[x])
  BY LedgerFacts, LedgerConstants, Zenon
<1>2. /\ open' = open \ {s} /\ closedStores' = closedStores \cup {s} /\ history' = history \ {s}
      /\ lru' = [lru EXCEPT ![s] = none] /\ bytes' = [bytes EXCEPT ![s] = 0]
      /\ used' = used - had - meta
      /\ categories' = [categories EXCEPT !["fresh"] = f - had, !["metadata"] = m - meta]
      /\ clients' = Memory!Picked(clients, {i \in DOMAIN clients : clients[i] # s})
      /\ UNCHANGED <<target, pressure, pressureFor, recoveryFor, cursor>>
  BY DEF Memory!Close
<1>3. clients' \in Seq(Store)
  <2> DEFINE P == {i \in DOMAIN clients : clients[i] # s}
  <2>1. P \subseteq DOMAIN clients
    OBVIOUS
  <2> HIDE DEF P
  <2>2. Memory!Picked(clients, P) \in Seq(Store)
    BY <1>1, <2>1, MemPicked
  <2> QED  BY <1>2, <2>2 DEF P
<1>4. meta \in Nat /\ meta <= m /\ m - meta = H * Cardinality(history')
  <2>1. CASE s \in history
    <3>1. Cardinality(history') = c - 1 /\ c >= 1
      <4>1. Cardinality(history \ {s}) = c - 1 /\ Cardinality(history \ {s}) \in Nat
        <5>1. IsFiniteSet(history \ {s}) /\ Cardinality(history \ {s}) = Cardinality(history) - 1
          BY <1>1, <2>1, FS_RemoveElement, Zenon
        <5> QED  BY <5>1, FS_CardinalityType
      <4> QED  BY <1>1, <1>2, <4>1
    <3>2. meta = H
      BY <2>1
    <3> HIDE DEF c, m, H, meta
    <3>3. H * (c - 1) = H * c - H /\ c - 1 \in Nat
      BY <1>1, <3>1
    <3>4. H * (c - 1) \in Nat
      BY <1>1, <3>3
    <3> QED  BY <1>1, <3>1, <3>2, <3>3, <3>4
  <2>2. CASE s \notin history
    <3>1. meta = 0 /\ history' = history
      BY <1>2, <2>2
    <3>2. m - 0 = m
      BY <1>1
    <3> QED  BY <1>1, <3>1, <3>2
  <2> QED  BY <2>1, <2>2
<1>5. none \in Seq(Memory!Entry) /\ Len(none) <= MaxEntries /\ DOMAIN none = {}
  BY LedgerConstants
<1> HIDE DEF none
<1>6. Memory!SumBytes(none) = 0 /\ Keyed(none)
  <2>1. Memory!SumBytes(none) = Total(Weights(none), {})
    BY <1>5, SumType, Zenon
  <2> QED  BY <1>5, <2>1, TotalOfNone DEF Keyed
<1>7. /\ lru' \in [Store -> Seq(Memory!Entry)] /\ \A x \in Store : lru'[x] = IF x = s THEN none ELSE lru[x]
  BY <1>1, <1>2, <1>5
<1>8. Sums' = [Sums EXCEPT ![s] = 0]
  <2>1. \A x \in Store : Sums'[x] = Memory!SumBytes(lru'[x]) /\ Sums[x] = Memory!SumBytes(lru[x])
    BY DEF Sums
  <2>2. Sums' = [x \in Store |-> Memory!SumBytes(lru'[x])]
    BY DEF Sums
  <2>3. \A x \in Store : Sums'[x] = IF x = s THEN 0 ELSE Sums[x]
    BY <1>6, <1>7, <2>1
  <2> QED  BY <1>1, <2>2, <2>3, Zenon
<1>9. Total(Sums', Store) = f - had
  <2>3. Sums \in [Store -> Nat] /\ IsFiniteSet(Store)
    BY <1>1, LedgerConstants
  <2> HIDE DEF Sums, f, had
  <2> DEFINE z == 0
  <2>0. z \in Nat
    OBVIOUS
  <2> HIDE DEF z
  <2>1. Total([Sums EXCEPT ![s] = z], Store) = Total(Sums, Store) - Sums[s] + z
    BY <2>0, <2>3, StoresTotal, Zenon
  <2>2. Total([Sums EXCEPT ![s] = 0], Store) = Total(Sums, Store) - Sums[s] + 0
    BY <2>1 DEF z
  <2>4. f - had + 0 = f - had
    BY <1>1
  <2> QED  BY <1>1, <1>8, <2>2, <2>4
<1> DEFINE F == f - had
           M == m - meta
<1>10. F \in Nat /\ M \in Nat /\ used - had - meta = F + M + o /\ used - had - meta \in 0..HardCap
  <2>1. /\ f \in Nat /\ m \in Nat /\ o \in Nat /\ used \in Nat /\ used = f + m + o /\ used <= HardCap
        /\ HardCap \in Nat /\ had \in Nat /\ had <= f /\ meta \in Nat /\ meta <= m
    BY <1>1, <1>4
  <2> HIDE DEF f, m, o, had, meta
  <2> QED  BY <2>1
<1>11. /\ categories' \in [Memory!Category -> Nat]
       /\ categories'["fresh"] = F /\ categories'["metadata"] = M /\ categories'["other"] = o
  <2>1. categories' = [categories EXCEPT !["fresh"] = F, !["metadata"] = M]
    BY <1>2
  <2> HIDE DEF F, M
  <2> QED  BY <1>1, <1>10, <2>1, Zenon DEF Memory!Category
<1>12. bytes' \in [Store -> Nat] /\ \A x \in Store : bytes'[x] = Memory!SumBytes(lru'[x])
  BY <1>1, <1>2, <1>6, <1>7, Zenon
<1> HIDE DEF F, had, meta, f, m, o, c, H
<1>13. LedgerExact'
  <2>1. M = HistoryBytes * Cardinality(history')
    BY <1>4 DEF M, H
  <2> QED  BY <1>2, <1>9, <1>10, <1>11, <1>12, <2>1, LedgerForm DEF F
<1>14. \A x \in Store : Keyed(lru'[x]) /\ Len(lru'[x]) <= MaxEntries
  BY <1>1, <1>5, <1>6, <1>7, Zenon
<1>15. \A x \in Store : Keyed(lru[x])'
  BY <1>14 DEF Keyed
<1>16. Memory!TypeOK'
  <2>1. used' \in 0..HardCap /\ open' \subseteq Store /\ closedStores' \subseteq Store /\ history' \subseteq open'
    BY <1>1, <1>2, <1>10, Zenon
  <2> QED  BY <1>2, <1>3, <1>7, <1>11, <1>12, <1>14, <2>1, Zenon DEF LedgerInv, Memory!TypeOK
<1> QED
  BY <1>13, <1>15, <1>16 DEF LedgerInv

\* A sample moves the target within its bounds and the windows within theirs.
LEMMA AdjustedTypes ==
  ASSUME LedgerInv, NEW signal
  PROVE  LET a == Memory!Adjusted(signal)
         IN  /\ a.target \in MinMemory..HardCap /\ a.state \in {"normal", "pressure", "critical"}
             /\ a.p \in -1..PressureWindow /\ a.r \in -1..RecoveryWindow
<1>1. /\ target \in MinMemory..HardCap /\ pressure \in {"normal", "pressure", "critical"}
      /\ pressureFor \in -1..PressureWindow /\ recoveryFor \in -1..RecoveryWindow
  BY DEF LedgerInv, Memory!TypeOK
<1>2. /\ HardCap \in Nat /\ MinMemory \in Nat /\ MinMemory <= HardCap
      /\ PressureWindow \in Nat /\ RecoveryWindow \in Nat
  BY LedgerConstants
<1> DEFINE p == Memory!SinceNow(pressureFor)
           r == Memory!SinceNow(recoveryFor)
           lowest == Memory!Higher(MinMemory, (target * 7) \div 10)
           low == Memory!Higher(MinMemory, (HardCap * 7) \div 10)
           more == Memory!Lower(HardCap, target + Memory!Higher(1, (HardCap * 5) \div 100))
           a == Memory!Adjusted(signal)
<1>3. p \in 0..PressureWindow /\ r \in 0..RecoveryWindow
  BY <1>1, <1>2 DEF Memory!SinceNow
<1>4. lowest \in MinMemory..HardCap
  BY <1>1, <1>2 DEF Memory!Higher
<1>5. low \in MinMemory..HardCap
  BY <1>1, <1>2 DEF Memory!Higher
<1>6. more \in MinMemory..HardCap
  BY <1>1, <1>2 DEF Memory!Higher, Memory!Lower
<1>7. \/ a = [state |-> "critical", target |-> lowest, p |-> 0, r |-> -1]
      \/ a = [state |-> "pressure", target |-> low, p |-> p, r |-> -1]
      \/ a = [state |-> pressure, target |-> target, p |-> p, r |-> -1]
      \/ a = [state |-> "normal", target |-> more, p |-> -1, r |-> r]
      \/ a = [state |-> pressure, target |-> target, p |-> -1, r |-> r]
  BY DEF Memory!Adjusted
<1>8. 0 \in -1..PressureWindow /\ -1 \in -1..RecoveryWindow /\ -1 \in -1..PressureWindow
      /\ p \in -1..PressureWindow /\ r \in -1..RecoveryWindow
  BY <1>2, <1>3
<1> HIDE DEF p, r, lowest, low, more, a
<1>9. /\ a.target \in MinMemory..HardCap /\ a.state \in {"normal", "pressure", "critical"}
      /\ a.p \in -1..PressureWindow /\ a.r \in -1..RecoveryWindow
  BY <1>1, <1>4, <1>5, <1>6, <1>7, <1>8
<1> QED
  BY <1>9 DEF a

\* What the sampler has left after some of its turns: the ledger and the stores still agree.
SumsOf(l) == [s \in Store |-> Memory!SumBytes(l[s])]
Left(b) ==
  /\ b.lru \in [Store -> Seq(Memory!Entry)] /\ b.cursor \in Nat
  /\ \A s \in Store : Keyed(b.lru[s]) /\ Len(b.lru[s]) <= MaxEntries
  /\ b.used \in Nat /\ b.used <= used
  /\ b.used = Total(SumsOf(b.lru), Store) + categories["metadata"] + categories["other"]

LEMMA LeftAfterOne ==
  ASSUME LedgerInv, NEW b, Left(b), NEW goal
  PROVE  Left(Memory!EvictOne(b, goal))
<1> DEFINE i == 1 + (b.cursor % Len(clients))
           s == clients[i]
           c == b.cursor + 1
           q == b.lru[s]
           t == Tail(q)
           l == [b.lru EXCEPT ![s] = t]
           u == b.used - Head(q).bytes
           e == Memory!EvictOne(b, goal)
<1>1. \/ e = b
      \/ clients # <<>> /\ q = <<>> /\ e = [lru |-> b.lru, used |-> b.used, cursor |-> c]
      \/ clients # <<>> /\ q # <<>> /\ e = [lru |-> l, used |-> u, cursor |-> c]
  BY DEF Memory!EvictOne
<1>2. clients \in Seq(Store) /\ used \in Nat /\ categories["metadata"] \in Nat /\ categories["other"] \in Nat
      /\ IsFiniteSet(Store)
  BY LedgerFacts, LedgerConstants
<1>3. /\ b.lru \in [Store -> Seq(Memory!Entry)] /\ b.cursor \in Nat /\ c \in Nat
      /\ \A x \in Store : Keyed(b.lru[x]) /\ Len(b.lru[x]) <= MaxEntries
      /\ b.used \in Nat /\ b.used <= used
      /\ b.used = Total(SumsOf(b.lru), Store) + categories["metadata"] + categories["other"]
  BY DEF Left
<1>4. ASSUME e = [lru |-> b.lru, used |-> b.used, cursor |-> c] PROVE Left(e)
  <2> HIDE DEF c, e
  <2>1. e.lru = b.lru /\ e.used = b.used /\ e.cursor = c
    BY <1>4
  <2> QED  BY <1>3, <2>1 DEF Left
<1>5. ASSUME clients # <<>>, q # <<>>, e = [lru |-> l, used |-> u, cursor |-> c] PROVE Left(e)
  <2>1. s \in Store
    <3>1. Len(clients) \in Nat /\ Len(clients) > 0 /\ DOMAIN clients = 1..Len(clients)
      BY <1>2, <1>5
    <3>2. b.cursor % Len(clients) \in 0..(Len(clients) - 1)
      <4> DEFINE n == Len(clients)
                 k == b.cursor
      <4>1. n \in Nat /\ n > 0 /\ k \in Nat
        BY <1>3, <3>1
      <4> HIDE DEF n, k
      <4>2. k % n \in 0..(n - 1)
        BY <4>1
      <4> QED  BY <4>2 DEF n, k
    <3>3. i \in DOMAIN clients
      BY <3>1, <3>2
    <3> HIDE DEF i
    <3> QED  BY <1>2, <3>3
  <2> HIDE DEF i, s
  <2>2. q \in Seq(Memory!Entry) /\ Keyed(q) /\ Len(q) <= MaxEntries
    BY <1>3, <2>1
  <2> DEFINE w == Head(q).bytes
             had == Memory!SumBytes(q)
             has == Memory!SumBytes(t)
             S == SumsOf(b.lru)
  <2>3. t \in Seq(Memory!Entry) /\ Len(t) = Len(q) - 1 /\ has = had - w /\ has \in Nat /\ w \in Nat /\ Keyed(t)
    BY <1>5, <2>2, SumTail
  <2>4. had \in Nat /\ Len(q) \in Nat
    BY <2>2, SumType
  <2> HIDE DEF t, q
  <2>5. /\ l \in [Store -> Seq(Memory!Entry)] /\ \A x \in Store : l[x] = IF x = s THEN t ELSE b.lru[x]
    BY <1>3, <2>1, <2>3
  <2>6. \A x \in Store : Keyed(l[x]) /\ Len(l[x]) <= MaxEntries
    BY <1>3, <2>2, <2>3, <2>4, <2>5, LedgerConstants
  <2>7. S \in [Store -> Nat] /\ S[s] = had
    <3>1. ASSUME NEW x \in Store PROVE Memory!SumBytes(b.lru[x]) \in Nat
      <4>1. b.lru[x] \in Seq(Memory!Entry)
        BY <1>3
      <4> QED  BY <4>1, SumType
    <3> QED  BY <2>1, <3>1 DEF SumsOf, q
  <2>8. SumsOf(l) = [S EXCEPT ![s] = has]
    <3>1. \A x \in Store : SumsOf(l)[x] = IF x = s THEN has ELSE S[x]
      BY <2>5 DEF SumsOf
    <3>2. SumsOf(l) = [x \in Store |-> Memory!SumBytes(l[x])] /\ DOMAIN S = Store
      BY <2>7 DEF SumsOf
    <3> QED  BY <2>7, <3>1, <3>2
  <2> HIDE DEF S, has, had, w, l
  <2>9. Total([S EXCEPT ![s] = has], Store) = Total(S, Store) - S[s] + has /\ S[s] <= Total(S, Store)
        /\ Total(S, Store) \in Nat
    BY <2>1, <2>3, <2>7, StoresTotal, Zenon
  <2>10. /\ u \in Nat /\ u <= used
         /\ u = Total(SumsOf(l), Store) + categories["metadata"] + categories["other"]
    <3> DEFINE T == Total(S, Store)
               N == Total(SumsOf(l), Store)
               m == categories["metadata"]
               o == categories["other"]
               v == b.used
    <3>1. /\ T \in Nat /\ N = T - had + has /\ had <= T /\ m \in Nat /\ o \in Nat /\ v \in Nat /\ v <= used
          /\ v = T + m + o /\ has = had - w /\ has \in Nat /\ had \in Nat /\ w \in Nat /\ used \in Nat
      BY <1>2, <1>3, <2>3, <2>4, <2>7, <2>8, <2>9 DEF S
    <3>2. u = v - w
      BY DEF w
    <3> HIDE DEF T, N, m, o, v, u
    <3>3. u \in Nat /\ u <= used /\ u = N + m + o
      BY <3>1, <3>2
    <3> QED  BY <3>3 DEF N, m, o
  <2> HIDE DEF u, c, e
  <2>11. e.lru = l /\ e.used = u /\ e.cursor = c
    BY <1>5
  <2> QED  BY <1>3, <2>5, <2>6, <2>10, <2>11 DEF Left
<1> QED
  BY <1>1, <1>4, <1>5

LEMMA LeftAfterAll ==
  ASSUME LedgerInv, NEW goal
  PROVE  Left(Memory!Evicted(goal))
<1> DEFINE L == EvictionsPerSample
           first == [lru |-> lru, used |-> used, cursor |-> cursor]
<1>0. L \in Nat
  BY MemConstants
<1>1. PICK f : Turns(f, goal) /\ Memory!Evicted(goal) = f[L]
  BY EvictedInTurns
<1>2. Left(first)
  <2>1. SumsOf(lru) = Sums
    BY DEF SumsOf, Sums
  <2>2. /\ lru \in [Store -> Seq(Memory!Entry)] /\ cursor \in Nat /\ used \in Nat /\ used <= used
        /\ \A s \in Store : Keyed(lru[s]) /\ Len(lru[s]) <= MaxEntries
    BY LedgerFacts, LedgerConstants
  <2>3. used = Total(SumsOf(lru), Store) + categories["metadata"] + categories["other"]
    BY <2>1, LedgerFacts
  <2>4. first.lru = lru /\ first.used = used /\ first.cursor = cursor
    OBVIOUS
  <2> HIDE DEF first
  <2> QED  BY <2>2, <2>3, <2>4 DEF Left
<1> DEFINE Wrong == {m \in 0..L : ~Left(f[m])}
<1>3. Wrong = {}
  <2> SUFFICES ASSUME Wrong # {} PROVE FALSE
    OBVIOUS
  <2>1. Wrong \subseteq Nat
    BY <1>0
  <2>2. PICK m \in Wrong : \A k \in Wrong : m <= k
    <3> HIDE DEF Wrong
    <3> QED  BY <2>1, LeastMember, Zenon
  <2>3. m \in 0..L /\ ~Left(f[m])
    OBVIOUS
  <2>4. f[m] = IF m = 0 THEN first ELSE Memory!EvictOne(f[m - 1], goal)
    BY <1>1, <2>3, Zenon DEF Turns
  <2> HIDE DEF first
  <2>5. m # 0
    BY <1>2, <2>3, <2>4
  <2>6. m - 1 \in 0..L /\ ~(m <= m - 1)
    BY <1>0, <2>3, <2>5
  <2>7. Left(f[m - 1])
    <3>1. m - 1 \notin Wrong
      <4> HIDE DEF Wrong
      <4> QED  BY <2>2, <2>6
    <3> QED  BY <2>6, <3>1
  <2> QED  BY <2>3, <2>4, <2>5, <2>7, LeftAfterOne
<1>4. Left(f[L])
  BY <1>0, <1>3
<1> HIDE DEF L
<1> QED
  BY <1>1, <1>4, Zenon

LEMMA LedgerSample ==
  ASSUME LedgerInv, NEW signal, Memory!Sample(signal)
  PROVE  LedgerInv'
<1> DEFINE a == Memory!Adjusted(signal)
           b == Memory!Evicted(a.target)
           m == categories["metadata"]
           o == categories["other"]
           f == categories["fresh"]
           T == Total(SumsOf(b.lru), Store)
           v == f - (used - b.used)
<1>1. /\ pressure' = a.state /\ target' = a.target /\ pressureFor' = a.p /\ recoveryFor' = a.r
      /\ lru' = b.lru /\ used' = b.used /\ cursor' = b.cursor % CursorPeriod
      /\ bytes' = [s \in Store |-> bytes[s] - (Memory!SumBytes(lru[s]) - Memory!SumBytes(b.lru[s]))]
      /\ categories' = [categories EXCEPT !["fresh"] = v]
      /\ UNCHANGED <<clients, open, closedStores, history>>
  BY DEF Memory!Sample
<1>2. /\ a.target \in MinMemory..HardCap /\ a.state \in {"normal", "pressure", "critical"}
      /\ a.p \in -1..PressureWindow /\ a.r \in -1..RecoveryWindow
  BY AdjustedTypes
<1>3. Left(b)
  <2> DEFINE g == a.target
  <2>1. Left(Memory!Evicted(g))
    <3> HIDE DEF g
    <3> QED  BY LeftAfterAll
  <2> QED  BY <2>1
<1> HIDE DEF a, b
<1>4. /\ b.lru \in [Store -> Seq(Memory!Entry)] /\ b.cursor \in Nat /\ b.used \in Nat /\ b.used <= used
      /\ \A s \in Store : Keyed(b.lru[s]) /\ Len(b.lru[s]) <= MaxEntries
      /\ b.used = T + m + o
  BY <1>3 DEF Left
<1>5. /\ f \in Nat /\ m \in Nat /\ o \in Nat /\ used \in Nat /\ used = f + m + o /\ used <= HardCap
      /\ categories \in [Memory!Category -> Nat] /\ HardCap \in Nat
      /\ \A s \in Store : bytes[s] = Memory!SumBytes(lru[s]) /\ Memory!SumBytes(lru[s]) \in Nat
  BY LedgerFacts, LedgerConstants, Zenon
<1>6. \A s \in Store : Memory!SumBytes(b.lru[s]) \in Nat
  <2> SUFFICES ASSUME NEW s \in Store PROVE Memory!SumBytes(b.lru[s]) \in Nat
    OBVIOUS
  <2>1. b.lru[s] \in Seq(Memory!Entry)
    BY <1>4
  <2> QED  BY <2>1, SumType
<1>7. T \in Nat
  <2>1. SumsOf(b.lru) \in [Store -> Nat]
    BY <1>6 DEF SumsOf
  <2>2. \A s \in Store : SumsOf(b.lru)[s] \in Nat
    BY <2>1
  <2> QED  BY <2>2, LedgerConstants, TotalType
<1>8. v = T /\ b.used \in 0..HardCap
  <2> DEFINE w == b.used
  <2>1. w \in Nat /\ w <= used /\ w = T + m + o
    BY <1>4
  <2> HIDE DEF w, T, m, o, f
  <2>2. f - (used - w) = T /\ w \in 0..HardCap
    BY <1>5, <1>7, <2>1
  <2> QED  BY <2>2 DEF w
<1>9. /\ categories' \in [Memory!Category -> Nat]
      /\ categories'["fresh"] = T /\ categories'["metadata"] = m /\ categories'["other"] = o
  <2>1. categories' = [categories EXCEPT !["fresh"] = T]
    BY <1>1, <1>8, Zenon
  <2> HIDE DEF T, v
  <2> QED  BY <1>5, <1>7, <2>1 DEF Memory!Category
<1>10. bytes' \in [Store -> Nat] /\ \A s \in Store : bytes'[s] = Memory!SumBytes(lru'[s])
  <2>1. ASSUME NEW s \in Store PROVE bytes'[s] = Memory!SumBytes(b.lru[s])
    <3> DEFINE x == bytes[s]
               y == Memory!SumBytes(b.lru[s])
    <3>1. bytes'[s] = x - (Memory!SumBytes(lru[s]) - y) /\ x = Memory!SumBytes(lru[s]) /\ x \in Nat /\ y \in Nat
      BY <1>1, <1>5, <1>6
    <3> HIDE DEF x, y
    <3>2. x - (x - y) = y
      BY <3>1
    <3> QED  BY <3>1, <3>2 DEF y
  <2>2. DOMAIN bytes' = Store /\ bytes' = [s \in Store |-> bytes'[s]]
    BY <1>1
  <2>3. bytes' \in [Store -> Nat]
    BY <1>6, <2>1, <2>2
  <2> QED  BY <1>1, <2>1, <2>3
<1>11. cursor' \in 0..CursorPeriod
  <2> DEFINE k == b.cursor
             P == CursorPeriod
  <2>1. k \in Nat /\ P \in Nat /\ P > 0
    BY <1>4, LedgerConstants
  <2> HIDE DEF k, P
  <2>2. k % P \in 0..P
    BY <2>1
  <2> QED  BY <1>1, <2>2 DEF k, P
<1>12. Sums' = SumsOf(b.lru)
  BY <1>1 DEF Sums, SumsOf
<1>13. LedgerExact'
  <2>1. categories'["metadata"] = HistoryBytes * Cardinality(history')
    BY <1>1, <1>9, LedgerFacts
  <2>2. used' = T + m + o /\ categories'["fresh"] = Total(Sums', Store)
    BY <1>1, <1>4, <1>9, <1>12
  <2> HIDE DEF T, m, o, f, v
  <2> QED  BY <1>9, <1>10, <2>1, <2>2, LedgerForm, Zenon
<1> HIDE DEF T, m, o, f, v
<1>14. \A s \in Store : Keyed(lru'[s]) /\ Len(lru'[s]) <= MaxEntries
  BY <1>1, <1>4
<1>15. \A s \in Store : Keyed(lru[s])'
  BY <1>14 DEF Keyed
<1>16. Memory!TypeOK'
  <2>1. lru' \in [Store -> Seq(Memory!Entry)] /\ used' \in 0..HardCap
    BY <1>1, <1>4, <1>8
  <2> QED  BY <1>1, <1>2, <1>9, <1>10, <1>11, <1>14, <2>1, Zenon DEF LedgerInv, Memory!TypeOK
<1> QED
  BY <1>13, <1>15, <1>16 DEF LedgerInv

LEMMA LedgerInitially == ASSUME Memory!Init PROVE LedgerInv
<1>1. /\ used = 0 /\ categories = [c \in Memory!Category |-> 0] /\ target = HardCap /\ pressure = "normal"
      /\ pressureFor = -1 /\ recoveryFor = -1 /\ clients = <<>> /\ cursor = 0
      /\ lru = [s \in Store |-> <<>>] /\ bytes = [s \in Store |-> 0]
      /\ open = {} /\ closedStores = {} /\ history = {}
  BY DEF Memory!Init
<1>2. categories["fresh"] = 0 /\ categories["metadata"] = 0 /\ categories["other"] = 0
  BY <1>1 DEF Memory!Category
<1> DEFINE none == <<>>
<1>3. none \in Seq(Memory!Entry) /\ DOMAIN none = {} /\ Len(none) <= MaxEntries
  BY LedgerConstants
<1> HIDE DEF none
<1>4. Memory!SumBytes(none) = 0 /\ Keyed(none)
  <2>1. Memory!SumBytes(none) = Total(Weights(none), {})
    BY <1>3, SumType, Zenon
  <2> QED  BY <1>3, <2>1, TotalOfNone DEF Keyed
<1>5. lru \in [Store -> Seq(Memory!Entry)] /\ \A s \in Store : lru[s] = none
  BY <1>1, <1>3 DEF none
<1>6. \A s \in Store : Keyed(lru[s]) /\ Len(lru[s]) <= MaxEntries /\ Memory!SumBytes(lru[s]) = 0 /\ Sums[s] = 0
  BY <1>3, <1>4, <1>5 DEF Sums
<1>7. Total(Sums, Store) = 0
  <2>1. Units(Sums, Store) = {}
    BY <1>6 DEF Units
  <2> QED  BY <2>1, FS_EmptySet DEF Total
<1>8. LedgerExact
  <2>1. Cardinality(history) = 0 /\ HistoryBytes * 0 = 0
    BY <1>1, FS_EmptySet, LedgerConstants
  <2>2. \A s \in Store : bytes[s] = Memory!SumBytes(lru[s])
    BY <1>1, <1>6
  <2>3. used = categories["fresh"] + categories["metadata"] + categories["other"]
    BY <1>1, <1>2
  <2> QED  BY <1>2, <1>7, <2>1, <2>2, <2>3, LedgerForm
<1>9. Memory!TypeOK
  <2>1. used \in 0..HardCap /\ target \in MinMemory..HardCap /\ cursor \in 0..CursorPeriod
        /\ pressureFor \in -1..PressureWindow /\ recoveryFor \in -1..RecoveryWindow
    BY <1>1, LedgerConstants
  <2>2. categories \in [Memory!Category -> Nat] /\ bytes \in [Store -> Nat] /\ clients \in Seq(Store)
    BY <1>1
  <2> QED  BY <1>1, <1>5, <1>6, <2>1, <2>2 DEF Memory!TypeOK
<1> QED
  BY <1>6, <1>8, <1>9 DEF LedgerInv

LEMMA LedgerStep == ASSUME MemInv, LedgerInv, [Next]_vars PROVE LedgerInv'
<1>0. MemInv'
  BY MemStep
<1>1. CASE UNCHANGED memoryVars
  BY <1>1, LedgerQuiet
<1>2. CASE Memory!Next
  <2>1. ASSUME NEW s \in Store, NEW k \in Key,
               \/ \E n \in Bytes : \/ Memory!SetRefused(s, k, n) \/ Memory!SetUnworthy(s, k, n)
                                   \/ Memory!SetAdmitted(s, k, n)
               \/ \E decodes \in BOOLEAN : Memory!Get(s, k, decodes)
               \/ Memory!Delete(s, k) \/ Memory!Expire(s, k)
        PROVE  LedgerInv'
    BY <1>0, <2>1, LedgerSets, LedgerAdmits, LedgerGet, LedgerExpire
  <2>2. ASSUME NEW s \in Store,
               Memory!Construct(s) \/ Memory!Clear(s) \/ Memory!Purge(s) \/ Memory!Close(s)
        PROVE  LedgerInv'
    BY <1>0, <2>2, LedgerConstruct, LedgerPurge, LedgerClose
  <2>3. ASSUME NEW s \in Store, NEW K \in SUBSET Key, Memory!DeleteByPattern(s, K)
        PROVE  LedgerInv'
    BY <1>0, <2>3, LedgerPattern
  <2>4. ASSUME NEW signal \in Memory!Signals, Memory!Sample(signal) PROVE LedgerInv'
    BY <2>4, LedgerSample
  <2>5. ASSUME \/ \E n \in OtherBytes : Memory!OtherReserves(n) \/ Memory!OtherReleases(n)
               \/ Memory!Tick \/ Memory!CloseBudget
        PROVE  LedgerInv'
    BY <2>5, LedgerOthers, LedgerQuiet
  <2> QED
    BY <1>2, <2>1, <2>2, <2>3, <2>4, <2>5 DEF Memory!Next
<1> QED
  BY <1>1, <1>2 DEF Next, vars

-----------------------------------------------------------------------------
(* The room of getOrSet() in the memory budget *)

One(b) == IF b THEN 1 ELSE 0
Bare(a) == a.flight = Reads!NoFlight /\ a.stale = Reads!NoEntry /\ a.negative = Reads!NoEntry

\* What is reserved is what is there, of the versions up to n; nothing is there after close().
Room(a, n) ==
  /\ a \in AuxRecord
  /\ a.flight = Reads!NoFlight \/ a.flight.by \in Caller
  /\ a.stale = Reads!NoEntry \/ a.stale.version \in 1..n
  /\ a.negative = Reads!NoEntry \/ a.negative.version \in 1..n
  /\ a.reserved = a.followers + One(a.flight # Reads!NoFlight) + One(a.stale # Reads!NoEntry)
                    + One(a.negative # Reads!NoEntry)
  /\ closed => Bare(a)

\* b is a with less in the maps, or more, and the same followers.
RoomKept(a, b, n) == Room(b, n) /\ b.followers = a.followers

LEMMA NoneIs ==
  /\ Reads!NoFlight \in Flight /\ Reads!NoEntry \in Copy /\ Reads!NoFlight.by = Nobody
  /\ Reads!NoEntry.version = 0 /\ Reads!NoEntry.expired = FALSE /\ Reads!NoFlight.expired = FALSE
BY DEF Reads!NoFlight, Reads!NoEntry, Flight, Copy

LEMMA RoomRemovals ==
  ASSUME NEW a, NEW n, Room(a, n)
  PROVE  /\ RoomKept(a, Reads!RemoveInflight(a), n) /\ Reads!RemoveInflight(a).flight = Reads!NoFlight
         /\ Reads!RemoveInflight(a).stale = a.stale /\ Reads!RemoveInflight(a).negative = a.negative
         /\ RoomKept(a, Reads!RemoveStale(a), n) /\ Reads!RemoveStale(a).stale = Reads!NoEntry
         /\ Reads!RemoveStale(a).flight = a.flight /\ Reads!RemoveStale(a).negative = a.negative
         /\ RoomKept(a, Reads!RemoveNegative(a), n) /\ Reads!RemoveNegative(a).negative = Reads!NoEntry
         /\ Reads!RemoveNegative(a).flight = a.flight /\ Reads!RemoveNegative(a).stale = a.stale
<1>1. a \in AuxRecord /\ a.reserved \in Int /\ a.followers \in Int /\ RoomKept(a, a, n)
  BY DEF Room, AuxRecord, RoomKept
<1> DEFINE m == a.reserved - 1
<1>2. m \in Int
  BY <1>1
<1>3. ASSUME a.flight # Reads!NoFlight
      PROVE  LET r == [a EXCEPT !.flight = Reads!NoFlight, !.reserved = m]
             IN  RoomKept(a, r, n) /\ r.flight = Reads!NoFlight /\ r.stale = a.stale /\ r.negative = a.negative
  <2> DEFINE r == [a EXCEPT !.flight = Reads!NoFlight, !.reserved = m]
  <2>1. r \in AuxRecord
    <3> HIDE DEF m
    <3> QED  BY <1>1, <1>2, NoneIs, Zenon DEF AuxRecord
  <2>2. /\ r.flight = Reads!NoFlight /\ r.stale = a.stale /\ r.negative = a.negative
        /\ r.followers = a.followers /\ r.reserved = m
    <3> HIDE DEF m
    <3> QED  BY <1>1 DEF AuxRecord
  <2> HIDE DEF r
  <2>3. r.reserved = r.followers + One(r.flight # Reads!NoFlight) + One(r.stale # Reads!NoEntry)
                       + One(r.negative # Reads!NoEntry)
    BY <1>1, <1>3, <2>2 DEF Room, One
  <2>4. RoomKept(a, r, n)
    BY <1>3, <2>1, <2>2, <2>3 DEF Room, Bare, RoomKept
  <2> QED  BY <2>2, <2>4 DEF r
<1>4. ASSUME a.stale # Reads!NoEntry
      PROVE  LET r == [a EXCEPT !.stale = Reads!NoEntry, !.reserved = m]
             IN  RoomKept(a, r, n) /\ r.flight = a.flight /\ r.stale = Reads!NoEntry /\ r.negative = a.negative
  <2> DEFINE r == [a EXCEPT !.stale = Reads!NoEntry, !.reserved = m]
  <2>1. r \in AuxRecord
    <3> HIDE DEF m
    <3> QED  BY <1>1, <1>2, NoneIs, Zenon DEF AuxRecord
  <2>2. /\ r.flight = a.flight /\ r.stale = Reads!NoEntry /\ r.negative = a.negative
        /\ r.followers = a.followers /\ r.reserved = m
    <3> HIDE DEF m
    <3> QED  BY <1>1 DEF AuxRecord
  <2> HIDE DEF r
  <2>3. r.reserved = r.followers + One(r.flight # Reads!NoFlight) + One(r.stale # Reads!NoEntry)
                       + One(r.negative # Reads!NoEntry)
    BY <1>1, <1>4, <2>2 DEF Room, One
  <2>4. RoomKept(a, r, n)
    BY <1>4, <2>1, <2>2, <2>3 DEF Room, Bare, RoomKept
  <2> QED  BY <2>2, <2>4 DEF r
<1>5. ASSUME a.negative # Reads!NoEntry
      PROVE  LET r == [a EXCEPT !.negative = Reads!NoEntry, !.reserved = m]
             IN  RoomKept(a, r, n) /\ r.flight = a.flight /\ r.stale = a.stale /\ r.negative = Reads!NoEntry
  <2> DEFINE r == [a EXCEPT !.negative = Reads!NoEntry, !.reserved = m]
  <2>1. r \in AuxRecord
    <3> HIDE DEF m
    <3> QED  BY <1>1, <1>2, NoneIs, Zenon DEF AuxRecord
  <2>2. /\ r.flight = a.flight /\ r.stale = a.stale /\ r.negative = Reads!NoEntry
        /\ r.followers = a.followers /\ r.reserved = m
    <3> HIDE DEF m
    <3> QED  BY <1>1 DEF AuxRecord
  <2> HIDE DEF r
  <2>3. r.reserved = r.followers + One(r.flight # Reads!NoFlight) + One(r.stale # Reads!NoEntry)
                       + One(r.negative # Reads!NoEntry)
    BY <1>1, <1>5, <2>2 DEF Room, One
  <2>4. RoomKept(a, r, n)
    BY <1>5, <2>1, <2>2, <2>3 DEF Room, Bare, RoomKept
  <2> QED  BY <2>2, <2>4 DEF r
<1> DEFINE f == [a EXCEPT !.flight = Reads!NoFlight, !.reserved = m]
           s == [a EXCEPT !.stale = Reads!NoEntry, !.reserved = m]
           g == [a EXCEPT !.negative = Reads!NoEntry, !.reserved = m]
<1>6. /\ Reads!RemoveInflight(a) = IF a.flight = Reads!NoFlight THEN a ELSE f
      /\ Reads!RemoveStale(a) = IF a.stale = Reads!NoEntry THEN a ELSE s
      /\ Reads!RemoveNegative(a) = IF a.negative = Reads!NoEntry THEN a ELSE g
  BY DEF Reads!RemoveInflight, Reads!RemoveStale, Reads!RemoveNegative
<1>7. /\ a.flight # Reads!NoFlight => RoomKept(a, f, n) /\ f.flight = Reads!NoFlight /\ f.stale = a.stale /\ f.negative = a.negative
      /\ a.stale # Reads!NoEntry => RoomKept(a, s, n) /\ s.flight = a.flight /\ s.stale = Reads!NoEntry /\ s.negative = a.negative
      /\ a.negative # Reads!NoEntry => RoomKept(a, g, n) /\ g.flight = a.flight /\ g.stale = a.stale /\ g.negative = Reads!NoEntry
  BY <1>3, <1>4, <1>5
<1> HIDE DEF f, s, g
<1> QED
  BY <1>1, <1>6, <1>7

LEMMA RoomPruning ==
  ASSUME NEW a, NEW n, Room(a, n)
  PROVE  /\ RoomKept(a, Reads!PruneInflight(a), n) /\ RoomKept(a, Reads!PruneNegative(a), n)
         /\ RoomKept(a, Reads!PruneStale(a), n)
         /\ Reads!PruneInflight(a).flight \in {Reads!NoFlight, a.flight}
         /\ Reads!PruneNegative(a).flight = a.flight
<1>1. RoomKept(a, a, n)
  BY DEF RoomKept
<1> QED
  BY <1>1, RoomRemovals DEF Reads!PruneInflight, Reads!PruneStale, Reads!PruneNegative

\* Of a version of the origin there is a copy, if tryReserve() says so.
LEMMA RoomKeeping ==
  ASSUME NEW a, NEW n \in Nat, Room(a, n), NEW v \in 1..n, NEW ok
  PROVE  /\ RoomKept(a, Reads!RememberStale(a, v, ok), n) /\ RoomKept(a, Reads!SetNegative(a, v, ok), n)
         /\ Reads!RememberStale(a, v, ok).negative = a.negative
<1>0. RoomKept(a, a, n)
  BY DEF RoomKept
<1> DEFINE e == Reads!Entry(v)
<1>1. e \in Copy /\ e.version = v /\ e # Reads!NoEntry
  <2>1. e \in Copy /\ e.version = v
    BY DEF Copy, Reads!Entry
  <2> QED  BY <2>1, NoneIs
<1> HIDE DEF e
<1>2. ASSUME NEW b, Room(b, n), b.stale = Reads!NoEntry, ~closed
      PROVE  RoomKept(b, Reads!WithStale(b, v, ok), n) /\ Reads!WithStale(b, v, ok).negative = b.negative
  <2> DEFINE m == b.reserved + 1
             r == [b EXCEPT !.stale = e, !.reserved = m]
  <2>1. b \in AuxRecord /\ b.reserved \in Int /\ b.followers \in Int /\ m \in Int
    BY <1>2 DEF Room, AuxRecord
  <2>2. r \in AuxRecord
    <3> HIDE DEF m
    <3> QED  BY <1>1, <2>1, Zenon DEF AuxRecord
  <2>3. /\ r.flight = b.flight /\ r.stale = e /\ r.negative = b.negative
        /\ r.followers = b.followers /\ r.reserved = m
    <3> HIDE DEF m
    <3> QED  BY <2>1 DEF AuxRecord
  <2>4. Reads!WithStale(b, v, ok) = IF ok THEN r ELSE b
    BY DEF Reads!WithStale, e
  <2> HIDE DEF r
  <2>5. r.reserved = r.followers + One(r.flight # Reads!NoFlight) + One(r.stale # Reads!NoEntry)
                       + One(r.negative # Reads!NoEntry)
    BY <1>1, <1>2, <2>1, <2>3 DEF Room, One
  <2>6. RoomKept(b, r, n) /\ RoomKept(b, b, n)
    BY <1>1, <1>2, <2>2, <2>3, <2>5 DEF Room, RoomKept
  <2> QED  BY <2>3, <2>4, <2>6
<1>3. ASSUME NEW b, Room(b, n), b.negative = Reads!NoEntry, ~closed
      PROVE  RoomKept(b, Reads!WithNegative(b, v, ok), n)
  <2> DEFINE m == b.reserved + 1
             r == [b EXCEPT !.negative = e, !.reserved = m]
  <2>1. b \in AuxRecord /\ b.reserved \in Int /\ b.followers \in Int /\ m \in Int
    BY <1>3 DEF Room, AuxRecord
  <2>2. r \in AuxRecord
    <3> HIDE DEF m
    <3> QED  BY <1>1, <2>1, Zenon DEF AuxRecord
  <2>3. /\ r.flight = b.flight /\ r.stale = b.stale /\ r.negative = e
        /\ r.followers = b.followers /\ r.reserved = m
    <3> HIDE DEF m
    <3> QED  BY <2>1 DEF AuxRecord
  <2>4. Reads!WithNegative(b, v, ok) = IF ok THEN r ELSE b
    BY DEF Reads!WithNegative, e
  <2> HIDE DEF r
  <2>5. r.reserved = r.followers + One(r.flight # Reads!NoFlight) + One(r.stale # Reads!NoEntry)
                       + One(r.negative # Reads!NoEntry)
    BY <1>1, <1>3, <2>1, <2>3 DEF Room, One
  <2>6. RoomKept(b, r, n) /\ RoomKept(b, b, n)
    BY <1>1, <1>3, <2>2, <2>3, <2>5 DEF Room, RoomKept
  <2> QED  BY <2>4, <2>6
<1>4. RoomKept(a, Reads!RememberStale(a, v, ok), n) /\ Reads!RememberStale(a, v, ok).negative = a.negative
  <2>1. CASE closed
    BY <1>0, <2>1 DEF Reads!RememberStale
  <2>2. CASE ~closed
    <3> DEFINE b == Reads!RemoveStale(a)
    <3>1. Room(b, n) /\ b.followers = a.followers /\ b.stale = Reads!NoEntry /\ b.negative = a.negative
      BY RoomRemovals DEF RoomKept
    <3>2. Reads!RememberStale(a, v, ok) = Reads!WithStale(b, v, ok)
      BY <2>2 DEF Reads!RememberStale
    <3> HIDE DEF b
    <3>3. RoomKept(b, Reads!WithStale(b, v, ok), n) /\ Reads!WithStale(b, v, ok).negative = b.negative
      BY <1>2, <2>2, <3>1
    <3> QED  BY <3>1, <3>2, <3>3 DEF RoomKept
  <2> QED  BY <2>1, <2>2
<1>5. RoomKept(a, Reads!SetNegative(a, v, ok), n)
  <2>1. CASE ~Reads!Trusted
    BY <1>0, <2>1 DEF Reads!SetNegative
  <2>2. CASE Reads!Trusted
    <3> DEFINE b == Reads!RemoveNegative(a)
    <3>1. Room(b, n) /\ b.followers = a.followers /\ b.negative = Reads!NoEntry
      BY RoomRemovals DEF RoomKept
    <3>2. Reads!SetNegative(a, v, ok) = Reads!WithNegative(b, v, ok) /\ ~closed
      BY <2>2 DEF Reads!SetNegative, Reads!Trusted
    <3> HIDE DEF b
    <3>3. RoomKept(b, Reads!WithNegative(b, v, ok), n)
      BY <1>3, <3>1, <3>2
    <3> QED  BY <3>1, <3>2, <3>3 DEF RoomKept
  <2> QED  BY <2>1, <2>2
<1> QED
  BY <1>4, <1>5

LEMMA RoomClearing ==
  ASSUME NEW a, NEW n, Room(a, n)
  PROVE  RoomKept(a, Reads!Clear(a), n) /\ Bare(Reads!Clear(a))
<1> DEFINE b == Reads!RemoveStale(a)
           c == Reads!RemoveNegative(b)
           d == Reads!RemoveInflight(c)
<1>1. Room(b, n) /\ b.followers = a.followers /\ b.stale = Reads!NoEntry
  BY RoomRemovals DEF RoomKept
<1> HIDE DEF b
<1>2. Room(c, n) /\ c.followers = a.followers /\ c.stale = Reads!NoEntry /\ c.negative = Reads!NoEntry
  BY <1>1, RoomRemovals DEF RoomKept
<1>3. Reads!Clear(a) = d
  BY DEF Reads!Clear, b
<1> HIDE DEF c
<1>4. Room(d, n) /\ d.followers = a.followers /\ Bare(d)
  BY <1>2, RoomRemovals DEF RoomKept, Bare
<1> QED
  BY <1>3, <1>4 DEF RoomKept

\* What a call has seen or answered are versions of the origin.
Within(r, n) == r.got <= n /\ r.loaded <= n /\ r.answer.version <= n
Followers == {c \in Caller : call[c].pc = "following"}

RoomInv ==
  /\ setting \in Settings /\ db \in 1..setting.maxVersion /\ l1 <= db
  /\ Room(aux, db) /\ aux.followers = Cardinality(Followers)
  /\ \A c \in Caller : Within(call[c], db)
  /\ write.current => write.version # 0
  /\ mutations \in 0..setting.maxMutations /\ outages \in 0..setting.maxOutages
  /\ lapses \in 0..setting.maxLapses
  /\ closed => l1 = 0 /\ ~write.current /\ \A c \in Caller : ~call[c].lead

LEMMA RoomTypes ==
  ASSUME ReadInv
  PROVE  /\ db \in Nat /\ l1 \in Nat /\ aux \in AuxRecord /\ call \in [Caller -> CallRecord]
         /\ closed \in BOOLEAN /\ write \in [pc : {"idle", "writing"}, version : Nat, current : BOOLEAN]
         /\ write.version \in Nat /\ write.version <= db
         /\ \A c \in Caller : /\ call[c] \in CallRecord /\ call[c].got \in Nat /\ call[c].loaded \in Nat
                              /\ call[c].answer \in Answer /\ call[c].answer.version \in Nat
         /\ IsFiniteSet(Followers) /\ Cardinality(Followers) \in Nat /\ Nobody \notin Caller
<1>1. /\ db \in Nat /\ l1 \in Nat /\ aux \in AuxRecord /\ call \in [Caller -> CallRecord]
      /\ closed \in BOOLEAN /\ write \in [pc : {"idle", "writing"}, version : Nat, current : BOOLEAN]
      /\ write.version <= db
  BY DEF ReadInv, ReadTypes, WriteOK
<1>2. ASSUME NEW c \in Caller
      PROVE  /\ call[c] \in CallRecord /\ call[c].got \in Nat /\ call[c].loaded \in Nat
             /\ call[c].answer \in Answer /\ call[c].answer.version \in Nat
  BY <1>1 DEF CallRecord, Answer
<1>3. IsFiniteSet(Followers) /\ Cardinality(Followers) \in Nat
  <2>1. Followers \in SUBSET Caller
    BY DEF Followers
  <2> QED  BY <2>1, ReadConstants, FS_Subset, FS_CardinalityType
<1> QED
  BY <1>1, <1>2, <1>3, ReadConstants

\* One call moves.
Moves(c, r) ==
  /\ call' = [call EXCEPT ![c] = r] /\ UNCHANGED <<setting, Reads!aside>>
  /\ Room(aux', db) /\ Within(r, db)
  /\ aux'.followers = aux.followers + One(r.pc = "following") - One(call[c].pc = "following")
  /\ l1' <= db /\ (closed => l1' = 0 /\ ~r.lead)

LEMMA RoomMove ==
  ASSUME ReadInv, RoomInv, NEW c \in Caller, NEW r, Moves(c, r)
  PROVE  RoomInv'
<1>1. /\ call' = [call EXCEPT ![c] = r]
      /\ UNCHANGED <<setting, db, write, trust, closed, mutations, outages, floor, missed, kept, lapses>>
      /\ Room(aux', db) /\ Within(r, db)
      /\ aux'.followers = aux.followers + One(r.pc = "following") - One(call[c].pc = "following")
      /\ l1' <= db /\ (closed => l1' = 0 /\ ~r.lead)
  BY DEF Moves, Reads!aside, Reads!apart
<1>2. call \in [Caller -> CallRecord] /\ \A x \in Caller : call'[x] = IF x = c THEN r ELSE call[x]
  BY <1>1, RoomTypes
<1>3. aux'.followers = Cardinality(Followers')
  <2> DEFINE F == Followers
             n == Cardinality(F)
  <2>1. IsFiniteSet(F) /\ n \in Nat /\ aux.followers = n
    BY RoomTypes DEF RoomInv
  <2>2. \A x \in Caller : (x \in F <=> call[x].pc = "following") /\ (x \in Followers' <=> call'[x].pc = "following")
    BY DEF Followers
  <2>3. F \subseteq Caller /\ Followers' \subseteq Caller
    BY DEF Followers
  <2>4. \A x \in Caller : x # c => (x \in Followers' <=> x \in F)
    BY <1>2, <2>2
  <2>5. (c \in F <=> call[c].pc = "following") /\ (c \in Followers' <=> r.pc = "following")
    BY <1>2, <2>2
  <2> HIDE DEF F
  <2>6. CASE c \in F /\ r.pc # "following"
    <3>1. Followers' = F \ {c}
      BY <2>3, <2>4, <2>5, <2>6
    <3>2. Cardinality(F \ {c}) = n - 1
      BY <2>1, <2>6, FS_RemoveElement, Zenon
    <3>3. aux'.followers = n - 1
      BY <1>1, <2>1, <2>5, <2>6 DEF One
    <3> QED  BY <3>1, <3>2, <3>3
  <2>7. CASE c \notin F /\ r.pc = "following"
    <3>1. Followers' = F \cup {c}
      BY <2>3, <2>4, <2>5, <2>7
    <3>2. Cardinality(F \cup {c}) = n + 1
      BY <2>1, <2>7, FS_AddElement, Zenon
    <3>3. aux'.followers = n + 1
      BY <1>1, <2>1, <2>5, <2>7 DEF One
    <3> QED  BY <3>1, <3>2, <3>3
  <2>8. CASE c \in F <=> r.pc = "following"
    <3>1. Followers' = F
      BY <2>3, <2>4, <2>5, <2>8
    <3>2. aux'.followers = n
      BY <1>1, <2>1, <2>5, <2>8 DEF One
    <3> QED  BY <3>1, <3>2
  <2> QED  BY <2>6, <2>7, <2>8
<1>4. Room(aux, db)'
  BY <1>1 DEF Room, Bare
<1>5. \A x \in Caller : Within(call[x], db)'
  <2>1. \A x \in Caller : Within(call'[x], db)
    BY <1>1, <1>2 DEF RoomInv
  <2> QED  BY <1>1, <2>1 DEF Within
<1>6. closed' => \A x \in Caller : ~call'[x].lead
  BY <1>1, <1>2 DEF RoomInv
<1> QED
  BY <1>1, <1>3, <1>4, <1>5, <1>6 DEF RoomInv

\* A load ends with an answer; what its last read or its loader left are copies.
LEMMA RoomEnd ==
  ASSUME ReadInv, RoomInv, NEW c \in Caller, NEW a, RoomKept(aux, a, db), NEW what, NEW version \in Nat,
         version <= db, Reads!End(c, a, what, version), call[c].pc # "following",
         UNCHANGED <<setting, Reads!aside, l1>>
  PROVE  RoomInv'
<1> DEFINE r == [call[c] EXCEPT !.pc = "done", !.answer = [what |-> what, version |-> version]]
<1>1. /\ call' = [call EXCEPT ![c] = r] /\ aux' = IF a.flight.by = c THEN Reads!RemoveInflight(a) ELSE a
  BY DEF Reads!End, Reads!Becomes, Reads!Answered
<1>2. RoomKept(aux, aux', db)
  BY <1>1, RoomRemovals DEF RoomKept
<1>3. r.pc = "done" /\ r.got = call[c].got /\ r.loaded = call[c].loaded /\ r.lead = call[c].lead /\ r.answer.version = version
  <2>1. call[c] \in CallRecord
    BY RoomTypes
  <2> QED  BY <2>1 DEF CallRecord
<1> HIDE DEF r
<1>4. Within(r, db) /\ (closed => ~r.lead)
  BY <1>3 DEF RoomInv, Within
<1>5. aux'.followers = aux.followers + One(r.pc = "following") - One(call[c].pc = "following")
  <2>1. aux'.followers = aux.followers /\ aux.followers \in Int
    BY <1>2, RoomTypes DEF RoomKept, AuxRecord
  <2> QED  BY <1>3, <2>1 DEF One
<1>6. l1' <= db /\ (closed => l1' = 0)
  BY DEF RoomInv
<1>7. Moves(c, r)
  BY <1>1, <1>2, <1>4, <1>5, <1>6 DEF Moves, RoomKept
<1> QED
  BY <1>7, RoomMove

LEMMA RoomNow == ASSUME RoomInv PROVE Room(aux, db) /\ RoomKept(aux, aux, db)
BY DEF RoomInv, RoomKept

LEMMA RoomFail ==
  ASSUME ReadInv, RoomInv, NEW c \in Caller, Reads!Fail(c), call[c].pc # "following",
         UNCHANGED <<setting, Reads!aside, l1>>
  PROVE  RoomInv'
<1> DEFINE a == Reads!PruneStale(aux)
           v == a.stale.version
<1>1. RoomKept(aux, a, db)
  BY RoomNow, RoomPruning
<1>2. db \in Nat
  BY RoomTypes
<1>3. \/ Reads!End(c, a, "value", v) \/ Reads!End(c, a, "error", 0)
  BY DEF Reads!Fail
<1> HIDE DEF a
<1>4. v \in Nat /\ v <= db
  <2>1. a.stale = Reads!NoEntry \/ a.stale.version \in 1..db
    BY <1>1 DEF RoomKept, Room
  <2> QED  BY <1>2, <2>1, NoneIs
<1>5. 0 \in Nat /\ 0 <= db
  BY <1>2
<1> HIDE DEF v
<1> QED
  BY <1>1, <1>3, <1>4, <1>5, RoomEnd

LEMMA RoomEndWithRead ==
  ASSUME ReadInv, RoomInv, NEW c \in Caller, Reads!EndWithRead(c), call[c].pc # "following",
         call[c].got # 0, UNCHANGED <<setting, Reads!aside, l1>>
  PROVE  RoomInv'
<1> DEFINE v == call[c].got
<1>1. v \in Nat /\ v <= db /\ v # 0 /\ db \in Nat
  BY RoomTypes DEF RoomInv, Within
<1>2. PICK ok : Reads!End(c, IF call[c].read /\ Reads!Trusted THEN Reads!RememberStale(aux, v, ok) ELSE aux, "value", v)
  BY DEF Reads!EndWithRead
<1> DEFINE a == IF call[c].read /\ Reads!Trusted THEN Reads!RememberStale(aux, v, ok) ELSE aux
<1>3. Reads!End(c, a, "value", v)
  BY <1>2
<1> HIDE DEF v
<1>4. v \in 1..db
  BY <1>1
<1>5. RoomKept(aux, a, db)
  BY <1>1, <1>4, RoomNow, RoomKeeping
<1> HIDE DEF a
<1> QED
  BY <1>1, <1>3, <1>5, RoomEnd

\* A call waits for the load under way, or is refused.
LEMMA RoomJoin ==
  ASSUME ReadInv, RoomInv, NEW c \in Caller, NEW a, RoomKept(aux, a, db), a.flight.by # Nobody,
         NEW caller \in CallRecord, Within(caller, db), closed => ~caller.lead,
         Reads!Join(c, a, caller), call[c].pc # "following",
         UNCHANGED <<setting, Reads!aside, l1>>
  PROVE  RoomInv'
<1>1. a \in AuxRecord /\ a.followers \in Int /\ a.reserved \in Int /\ a.followers = aux.followers /\ Room(a, db)
  BY DEF RoomKept, Room, AuxRecord
<1> DEFINE m == a.followers + 1
           k == a.reserved + 1
           b == [a EXCEPT !.followers = m, !.reserved = k]
           r == [caller EXCEPT !.pc = "following", !.follows = a.flight.by]
           z == [caller EXCEPT !.pc = "done", !.answer.what = "error"]
<1>2. \/ aux' = b /\ call' = [call EXCEPT ![c] = r]
      \/ aux' = a /\ call' = [call EXCEPT ![c] = z]
  BY DEF Reads!Join, Reads!Becomes
<1>3. l1' <= db /\ (closed => l1' = 0)
  BY DEF RoomInv
<1>4. CASE aux' = b /\ call' = [call EXCEPT ![c] = r]
  <2>1. m \in Int /\ k \in Int
    BY <1>1
  <2>2. b \in AuxRecord
    <3> HIDE DEF m, k
    <3> QED  BY <1>1, <2>1, Zenon DEF AuxRecord
  <2>3. b.flight = a.flight /\ b.stale = a.stale /\ b.negative = a.negative /\ b.followers = m /\ b.reserved = k
    <3> HIDE DEF m, k
    <3> QED  BY <1>1 DEF AuxRecord
  <2>4. /\ r.pc = "following" /\ r.got = caller.got /\ r.loaded = caller.loaded /\ r.answer = caller.answer
        /\ r.lead = caller.lead
    BY DEF CallRecord
  <2> HIDE DEF b, r
  <2>5. b.reserved = b.followers + One(b.flight # Reads!NoFlight) + One(b.stale # Reads!NoEntry)
                       + One(b.negative # Reads!NoEntry)
    BY <1>1, <2>3 DEF Room, One
  <2>6. Room(b, db)
    BY <1>1, <2>2, <2>3, <2>5 DEF Room, Bare
  <2>7. b.followers = aux.followers + One(r.pc = "following") - One(call[c].pc = "following")
    BY <1>1, <2>3, <2>4 DEF One
  <2>8. Within(r, db) /\ (closed => ~r.lead)
    BY <2>4 DEF Within
  <2>9. Moves(c, r)
    BY <1>3, <1>4, <2>6, <2>7, <2>8 DEF Moves
  <2> QED  BY <2>9, RoomMove
<1>5. CASE aux' = a /\ call' = [call EXCEPT ![c] = z]
  <2>1. z.pc = "done" /\ z.got = caller.got /\ z.loaded = caller.loaded /\ z.answer.version = caller.answer.version
        /\ z.lead = caller.lead
    <3> DEFINE w == [caller.answer EXCEPT !.what = "error"]
    <3>1. caller.answer \in Answer
      BY DEF CallRecord
    <3>2. w.version = caller.answer.version
      BY <3>1 DEF Answer
    <3>3. z = [caller EXCEPT !.pc = "done", !.answer = w]
      BY DEF CallRecord
    <3> HIDE DEF z, w
    <3>4. z.answer = w /\ z.pc = "done" /\ z.got = caller.got /\ z.loaded = caller.loaded /\ z.lead = caller.lead
      BY <3>3 DEF CallRecord
    <3> QED  BY <3>2, <3>4
  <2> HIDE DEF z
  <2>2. Within(z, db) /\ (closed => ~z.lead)
    BY <2>1 DEF Within
  <2>3. aux'.followers = aux.followers + One(z.pc = "following") - One(call[c].pc = "following")
    BY <1>1, <1>5, <2>1 DEF One
  <2>4. Moves(c, z)
    BY <1>1, <1>3, <1>5, <2>2, <2>3 DEF Moves
  <2> QED  BY <2>4, RoomMove
<1> QED
  BY <1>2, <1>4, <1>5

\* A call goes on, and its step leaves the followers alone.
LEMMA RoomGoesOn ==
  ASSUME ReadInv, RoomInv, NEW c \in Caller, NEW r, call' = [call EXCEPT ![c] = r],
         RoomKept(aux, aux', db), Within(r, db), closed => ~r.lead,
         call[c].pc # "following", r.pc # "following", UNCHANGED <<setting, Reads!aside, l1>>
  PROVE  RoomInv'
<1>1. aux'.followers = aux.followers + One(r.pc = "following") - One(call[c].pc = "following")
  <2>1. aux'.followers = aux.followers /\ aux.followers \in Int
    BY RoomTypes DEF RoomKept, AuxRecord
  <2> QED  BY <2>1 DEF One
<1>2. l1' <= db /\ (closed => l1' = 0)
  BY DEF RoomInv
<1>3. Moves(c, r)
  BY <1>1, <1>2 DEF Moves, RoomKept
<1> QED
  BY <1>3, RoomMove

LEMMA RoomCall ==
  ASSUME ReadInv, RoomInv, NEW c \in Caller
  PROVE  /\ call[c] \in CallRecord /\ Within(call[c], db) /\ (closed => ~call[c].lead)
         /\ call[c].got \in Nat /\ call[c].loaded \in Nat /\ call[c].got <= db /\ call[c].loaded <= db /\ db \in Nat
         /\ aux.negative.version \in Nat /\ aux.negative.version <= db
<1>1. aux.negative = Reads!NoEntry \/ aux.negative.version \in 1..db
  BY DEF RoomInv, Room
<1>2. db \in Nat
  BY RoomTypes
<1>3. aux.negative.version \in Nat /\ aux.negative.version <= db
  BY <1>1, <1>2, NoneIs
<1> QED
  BY <1>2, <1>3, RoomTypes DEF RoomInv, Within

\* What a read of the call finds in L1.
LEMMA RoomReading ==
  ASSUME ReadInv, RoomInv, NEW c \in Caller, NEW point
  PROVE  LET r == Reads!Reading(c, point)
         IN  /\ r.pc = point /\ r.lead = call[c].lead /\ Within(r, db)
             /\ DOMAIN r = DOMAIN call[c] /\ r.loaded = call[c].loaded /\ r.answer = call[c].answer
             /\ r = [call[c] EXCEPT !.pc = point, !.got = Reads!L1Read, !.read = TRUE]
             /\ Reads!L1Read \in Nat /\ Reads!L1Read <= db
<1> DEFINE v == Reads!L1Read
           r == [call[c] EXCEPT !.pc = point, !.got = v, !.read = TRUE]
<1>1. v \in Nat /\ v <= db
  <2>1. l1 \in Nat /\ l1 <= db /\ db \in Nat
    BY RoomTypes DEF RoomInv
  <2> QED  BY <2>1 DEF Reads!L1Read
<1> HIDE DEF v
<1>2. call[c] \in CallRecord /\ Within(call[c], db)
  BY RoomCall
<1>3. r.pc = point /\ r.lead = call[c].lead /\ r.got = v /\ r.loaded = call[c].loaded /\ r.answer = call[c].answer
      /\ DOMAIN r = DOMAIN call[c]
  BY <1>2 DEF CallRecord
<1>4. Reads!Reading(c, point) = r
  BY DEF Reads!Reading, v
<1> HIDE DEF r
<1>5. Within(r, db)
  BY <1>1, <1>2, <1>3 DEF Within
<1> QED
  BY <1>1, <1>3, <1>4, <1>5 DEF r, v

LEMMA RoomGetOrSet ==
  ASSUME ReadInv, RoomInv, NEW c \in Caller, Reads!GetOrSet(c), UNCHANGED setting
  PROVE  RoomInv'
<1> DEFINE a == Reads!PruneInflight(aux)
           since == IF Reads!Trusted /\ missed > floor THEN missed ELSE floor
           caller == [call[c] EXCEPT !.since = since]
           v == Reads!L1Read
           s == Reads!Reading(c, "reading")
           r == [s EXCEPT !.since = since]
<1>1. /\ call[c].pc = "idle" /\ ~closed /\ UNCHANGED <<setting, Reads!aside, l1>>
      /\ IF a.flight.by # Nobody THEN Reads!Join(c, a, caller)
         ELSE aux' = Reads!PruneNegative(a) /\ call' = [call EXCEPT ![c] = r]
  BY DEF Reads!GetOrSet, Reads!Becomes
<1>2. RoomKept(aux, a, db) /\ Room(a, db)
  BY RoomNow, RoomPruning DEF RoomKept
<1>3. since \in Nat
  BY DEF ReadInv, ReadTypes
<1>4. call[c] \in CallRecord /\ Within(call[c], db)
  BY RoomCall
<1> HIDE DEF a, since
<1>5. CASE a.flight.by # Nobody
  <2>1. caller \in CallRecord
    BY <1>3, <1>4 DEF CallRecord
  <2>2. caller.got = call[c].got /\ caller.loaded = call[c].loaded /\ caller.answer = call[c].answer
    BY <1>4 DEF CallRecord
  <2>3. Reads!Join(c, a, caller) /\ ~closed /\ call[c].pc # "following"
    BY <1>1, <1>5
  <2> HIDE DEF caller
  <2>4. Within(caller, db)
    BY <1>4, <2>2 DEF Within
  <2> QED  BY <1>1, <1>2, <1>5, <2>1, <2>3, <2>4, RoomJoin
<1>6. CASE a.flight.by = Nobody
  <2>1. RoomKept(aux, aux', db)
    <3>1. RoomKept(a, Reads!PruneNegative(a), db)
      BY <1>2, RoomPruning
    <3> QED  BY <1>1, <1>2, <1>6, <3>1 DEF RoomKept
  <2>2. s.pc = "reading" /\ Within(s, db) /\ s.lead = call[c].lead
        /\ s = [call[c] EXCEPT !.pc = "reading", !.got = v, !.read = TRUE]
    BY RoomReading, Zenon
  <2>3. r.pc = s.pc /\ r.got = s.got /\ r.loaded = s.loaded /\ r.answer = s.answer
    <3> HIDE DEF s, v
    <3> QED  BY <1>4, <2>2 DEF CallRecord
  <2> HIDE DEF r, s
  <2>4. Within(r, db) /\ r.pc # "following"
    BY <2>2, <2>3 DEF Within
  <2>5. call' = [call EXCEPT ![c] = r] /\ call[c].pc # "following" /\ ~closed
    BY <1>1, <1>6
  <2> QED  BY <1>1, <2>1, <2>4, <2>5, RoomGoesOn, Zenon
<1> QED
  BY <1>5, <1>6

\* The load of a call gets an entry that others may join.
LEMMA RoomRegistered ==
  ASSUME NEW a, NEW n, Room(a, n), a.flight = Reads!NoFlight, NEW c \in Caller, ~closed
  PROVE  RoomKept(a, Reads!Registered(a, c), n)
<1> DEFINE f == [a.flight EXCEPT !.by = c]
           k == a.reserved + 1
           r == [a EXCEPT !.flight = f, !.reserved = k]
<1>1. a \in AuxRecord /\ a.followers \in Int /\ a.reserved \in Int /\ k \in Int /\ a.flight \in Flight
  BY DEF Room, AuxRecord
<1>2. Reads!Registered(a, c) = r
  <2>1. Reads!Registered(a, c) = [a EXCEPT !.flight.by = c, !.reserved = k]
    BY DEF Reads!Registered
  <2> HIDE DEF k
  <2> QED  BY <1>1, <2>1 DEF AuxRecord
<1>3. f \in Flight /\ f.by = c /\ f # Reads!NoFlight
  <2>1. f \in Flight /\ f.by = c
    BY <1>1 DEF Flight
  <2> QED  BY <2>1, NoneIs, ReadConstants, Zenon
<1> HIDE DEF f
<1>4. r \in AuxRecord
  <2> HIDE DEF k
  <2> QED  BY <1>1, <1>3, Zenon DEF AuxRecord
<1>5. r.flight = f /\ r.stale = a.stale /\ r.negative = a.negative /\ r.followers = a.followers /\ r.reserved = k
  <2> HIDE DEF k
  <2> QED  BY <1>1 DEF AuxRecord
<1> HIDE DEF r
<1>6. r.reserved = r.followers + One(r.flight # Reads!NoFlight) + One(r.stale # Reads!NoEntry)
                     + One(r.negative # Reads!NoEntry)
  BY <1>1, <1>3, <1>5 DEF Room, One
<1>7. RoomKept(a, r, n)
  BY <1>3, <1>4, <1>5, <1>6 DEF Room, RoomKept
<1> QED
  BY <1>2, <1>7

LEMMA RoomReadMiss ==
  ASSUME ReadInv, RoomInv, NEW c \in Caller, Reads!ReadMiss(c), UNCHANGED setting
  PROVE  RoomInv'
<1> DEFINE b == Reads!PruneNegative(aux)
           a == Reads!PruneInflight(b)
           r == [call[c] EXCEPT !.pc = "starting"]
<1>1. /\ call[c].pc = "reading" /\ ~closed /\ UNCHANGED <<setting, Reads!aside, l1>>
      /\ \/ a.flight.by # Nobody /\ Reads!Join(c, a, call[c])
         \/ /\ a.flight.by = Nobody /\ call' = [call EXCEPT ![c] = r]
            /\ aux' = Reads!Registered(a, c) \/ aux' = a
  BY DEF Reads!ReadMiss, Reads!Becomes
<1>2. RoomKept(aux, b, db) /\ Room(b, db)
  BY RoomNow, RoomPruning DEF RoomKept
<1> HIDE DEF b
<1>3. RoomKept(aux, a, db) /\ Room(a, db)
  BY <1>2, RoomPruning DEF RoomKept
<1> HIDE DEF a
<1>4. call[c] \in CallRecord /\ Within(call[c], db) /\ (closed => ~call[c].lead)
  BY RoomCall
<1>5. CASE a.flight.by # Nobody /\ Reads!Join(c, a, call[c])
  <2>1. call[c].pc # "following"
    BY <1>1
  <2> QED  BY <1>1, <1>3, <1>4, <1>5, <2>1, RoomJoin
<1>6. CASE /\ a.flight.by = Nobody /\ call' = [call EXCEPT ![c] = r]
           /\ aux' = Reads!Registered(a, c) \/ aux' = a
  <2>1. a.flight = Reads!NoFlight
    BY <1>3, <1>6, ReadConstants DEF Room
  <2>2. RoomKept(a, Reads!Registered(a, c), db)
    BY <1>1, <1>3, <2>1, RoomRegistered
  <2>3. RoomKept(aux, aux', db)
    BY <1>3, <1>6, <2>2 DEF RoomKept
  <2>4. r.pc = "starting" /\ r.got = call[c].got /\ r.loaded = call[c].loaded /\ r.answer = call[c].answer
    BY <1>4 DEF CallRecord
  <2> HIDE DEF r
  <2>5. Within(r, db) /\ r.pc # "following" /\ call[c].pc # "following"
    BY <1>1, <1>4, <2>4 DEF Within
  <2> QED  BY <1>1, <1>6, <2>3, <2>5, RoomGoesOn, Zenon
<1> QED
  BY <1>1, <1>5, <1>6

LEMMA RoomResumes ==
  ASSUME ReadInv, RoomInv, NEW c \in Caller, Reads!FollowerResumes(c), UNCHANGED setting
  PROVE  RoomInv'
<1> DEFINE w == call[call[c].follows].answer
           r == [call[c] EXCEPT !.pc = "done", !.answer = w]
           m == aux.followers - 1
           k == aux.reserved - 1
           b == [aux EXCEPT !.followers = m, !.reserved = k]
<1>1. /\ call[c].pc = "following" /\ UNCHANGED <<setting, Reads!aside, l1>>
      /\ aux' = b /\ call' = [call EXCEPT ![c] = r]
  BY DEF Reads!FollowerResumes, Reads!Becomes
<1>2. /\ aux \in AuxRecord /\ aux.followers \in Int /\ aux.reserved \in Int /\ m \in Int /\ k \in Int /\ Room(aux, db)
  BY RoomTypes, RoomNow DEF AuxRecord
<1>3. call[c] \in CallRecord /\ Within(call[c], db) /\ (closed => ~call[c].lead)
  BY RoomCall
<1>4. w \in Answer /\ w.version <= db
  <2>1. call[c].follows \in Caller
    BY <1>1 DEF ReadInv, FollowsOK
  <2> QED  BY <2>1, RoomTypes DEF RoomInv, Within
<1> HIDE DEF w
<1>5. r.pc = "done" /\ r.got = call[c].got /\ r.loaded = call[c].loaded /\ r.answer = w /\ r.lead = call[c].lead
  BY <1>3 DEF CallRecord
<1>6. b \in AuxRecord /\ b.flight = aux.flight /\ b.stale = aux.stale /\ b.negative = aux.negative
      /\ b.followers = m /\ b.reserved = k
  <2>1. b \in AuxRecord
    <3> HIDE DEF m, k
    <3> QED  BY <1>2, Zenon DEF AuxRecord
  <2>2. b.flight = aux.flight /\ b.stale = aux.stale /\ b.negative = aux.negative
        /\ b.followers = m /\ b.reserved = k
    <3> HIDE DEF m, k
    <3> QED  BY <1>2 DEF AuxRecord
  <2> QED  BY <2>1, <2>2
<1> HIDE DEF b, r
<1>7. b.reserved = b.followers + One(b.flight # Reads!NoFlight) + One(b.stale # Reads!NoEntry)
                     + One(b.negative # Reads!NoEntry)
  BY <1>2, <1>6 DEF Room, One
<1>8. Room(b, db)
  BY <1>2, <1>6, <1>7 DEF Room, Bare
<1>9. b.followers = aux.followers + One(r.pc = "following") - One(call[c].pc = "following")
  BY <1>1, <1>2, <1>5, <1>6 DEF One
<1>10. Within(r, db) /\ (closed => ~r.lead)
  BY <1>3, <1>4, <1>5 DEF Within
<1>11. l1' <= db /\ (closed => l1' = 0)
  BY <1>1 DEF RoomInv
<1>12. Moves(c, r)
  BY <1>1, <1>8, <1>9, <1>10, <1>11 DEF Moves
<1> QED
  BY <1>12, RoomMove

LEMMA RoomReadEnds ==
  ASSUME ReadInv, RoomInv, NEW c \in Caller, Reads!ReadHit(c) \/ Reads!ReadEnds(c), UNCHANGED setting
  PROVE  RoomInv'
<1>1. CASE Reads!ReadHit(c)
  <2>1. call[c].pc = "reading" /\ call[c].got # 0 /\ Reads!EndWithRead(c) /\ UNCHANGED <<Reads!aside, l1>>
    BY <1>1 DEF Reads!ReadHit
  <2>2. call[c].pc # "following" /\ UNCHANGED <<setting, Reads!aside, l1>>
    BY <2>1
  <2> QED  BY <2>1, <2>2, RoomEndWithRead
<1>2. CASE Reads!ReadEnds(c)
  <2> DEFINE what == IF closed THEN "error" ELSE "none"
             v == IF closed THEN 0 ELSE aux.negative.version
             r == [call[c] EXCEPT !.pc = "done", !.answer = [what |-> what, version |-> v]]
  <2>1. call[c].pc = "reading" /\ UNCHANGED <<setting, Reads!aside, l1, aux>> /\ call' = [call EXCEPT ![c] = r]
    BY <1>2, Zenon DEF Reads!ReadEnds, Reads!Becomes, Reads!Answered
  <2>2. /\ call[c] \in CallRecord /\ Within(call[c], db) /\ (closed => ~call[c].lead)
        /\ v \in Nat /\ v <= db
    BY RoomCall
  <2> HIDE DEF v, what
  <2>3. r.pc = "done" /\ r.got = call[c].got /\ r.loaded = call[c].loaded /\ r.answer.version = v /\ r.lead = call[c].lead
    BY <2>2 DEF CallRecord
  <2> HIDE DEF r
  <2>4. Within(r, db) /\ (closed => ~r.lead) /\ r.pc # "following" /\ call[c].pc # "following"
    BY <2>1, <2>2, <2>3 DEF Within
  <2>5. RoomKept(aux, aux', db) /\ UNCHANGED <<setting, Reads!aside, l1>>
    BY <2>1, RoomNow DEF RoomKept
  <2> QED  BY <2>1, <2>4, <2>5, RoomGoesOn, Zenon
<1> QED
  BY <1>1, <1>2

LEMMA RoomStart ==
  ASSUME ReadInv, RoomInv, NEW c \in Caller, Reads!Start(c), UNCHANGED setting
  PROVE  RoomInv'
<1> DEFINE s == Reads!Reading(c, "rechecking")
           r == [s EXCEPT !.lead = TRUE]
           v == Reads!L1Read
<1>1. /\ call[c].pc = "starting" /\ UNCHANGED <<setting, Reads!aside, l1>>
      /\ \/ Reads!End(c, aux, "error", 0) \/ Reads!Fail(c)
         \/ ~closed /\ aux' = Reads!PruneNegative(aux) /\ call' = [call EXCEPT ![c] = r]
  BY DEF Reads!Start, Reads!Becomes
<1>2. /\ call[c] \in CallRecord /\ Within(call[c], db) /\ db \in Nat
  BY RoomCall
<1>3. CASE Reads!End(c, aux, "error", 0)
  <2>1. 0 \in Nat /\ 0 <= db /\ call[c].pc # "following"
    BY <1>1, <1>2
  <2> QED  BY <1>1, <1>3, <2>1, RoomNow, RoomEnd
<1>4. CASE Reads!Fail(c)
  <2>1. call[c].pc # "following"
    BY <1>1
  <2> QED  BY <1>1, <1>4, <2>1, RoomFail
<1>5. CASE ~closed /\ aux' = Reads!PruneNegative(aux) /\ call' = [call EXCEPT ![c] = r]
  <2>1. RoomKept(aux, aux', db)
    BY <1>5, RoomNow, RoomPruning
  <2>2. s.pc = "rechecking" /\ Within(s, db)
        /\ s = [call[c] EXCEPT !.pc = "rechecking", !.got = v, !.read = TRUE]
    BY RoomReading, Zenon
  <2>3. r.pc = s.pc /\ r.got = s.got /\ r.loaded = s.loaded /\ r.answer = s.answer
    <3> HIDE DEF s, v
    <3> QED  BY <1>2, <2>2 DEF CallRecord
  <2> HIDE DEF r, s
  <2>4. Within(r, db) /\ r.pc # "following" /\ call[c].pc # "following"
    BY <1>1, <2>2, <2>3 DEF Within
  <2> QED  BY <1>1, <1>5, <2>1, <2>4, RoomGoesOn, Zenon
<1> QED
  BY <1>1, <1>3, <1>4, <1>5

LEMMA RoomRecheckEnds ==
  ASSUME ReadInv, RoomInv, NEW c \in Caller, Reads!RecheckEnds(c), UNCHANGED setting
  PROVE  RoomInv'
<1>1. /\ call[c].pc \in {"rechecking", "admitted"} /\ UNCHANGED <<setting, Reads!aside, l1>>
      /\ \/ call[c].got # 0 /\ Reads!EndWithRead(c)
         \/ Reads!End(c, aux, "none", aux.negative.version)
  BY DEF Reads!RecheckEnds
<1>2. call[c].pc # "following"
  BY <1>1
<1> DEFINE v == aux.negative.version
<1>3. v \in Nat /\ v <= db
  BY RoomCall
<1>4. CASE Reads!End(c, aux, "none", v)
  <2> HIDE DEF v
  <2> QED  BY <1>1, <1>2, <1>3, <1>4, RoomNow, RoomEnd
<1>5. CASE call[c].got # 0 /\ Reads!EndWithRead(c)
  BY <1>1, <1>2, <1>5, RoomEndWithRead
<1> QED
  BY <1>1, <1>4, <1>5

\* The load asks the origin gate, is admitted, starts its loader or reads.
LEMMA RoomLoads ==
  ASSUME ReadInv, RoomInv, NEW c \in Caller, UNCHANGED setting,
         Reads!RecheckMiss(c) \/ Reads!Admitted(c) \/ Reads!LoaderStarts(c) \/ Reads!LoaderReads(c)
  PROVE  RoomInv'
<1> DEFINE v == Reads!L1Read
<1>1. /\ call[c] \in CallRecord /\ Within(call[c], db) /\ (closed => ~call[c].lead) /\ db \in Nat
  BY RoomCall
<1>2. PICK r : /\ call' = [call EXCEPT ![c] = r]
               /\ \/ r = [call[c] EXCEPT !.pc = "queued"] \/ r = [call[c] EXCEPT !.pc = "loading"]
                  \/ r = Reads!Reading(c, "admitted")
                  \/ call[c].pc = "loading" /\ r = [call[c] EXCEPT !.loaded = db]
  BY DEF Reads!RecheckMiss, Reads!Admitted, Reads!LoaderStarts, Reads!LoaderReads, Reads!Becomes
<1>3. /\ UNCHANGED <<setting, Reads!aside, l1>> /\ (aux' = Reads!PruneNegative(aux) \/ aux' = aux)
      /\ call[c].pc # "following"
  BY DEF Reads!RecheckMiss, Reads!Admitted, Reads!LoaderStarts, Reads!LoaderReads
<1>4. RoomKept(aux, aux', db)
  BY <1>3, RoomNow, RoomPruning DEF RoomKept
<1>5. r.pc # "following" /\ r.lead = call[c].lead /\ Within(r, db)
  <2>1. CASE r = [call[c] EXCEPT !.pc = "queued"]
    <3>1. r.pc = "queued" /\ r.lead = call[c].lead /\ r.got = call[c].got /\ r.loaded = call[c].loaded
          /\ r.answer = call[c].answer
      BY <1>1, <2>1 DEF CallRecord
    <3> QED  BY <1>1, <3>1 DEF Within
  <2>2. CASE r = [call[c] EXCEPT !.pc = "loading"]
    <3>1. r.pc = "loading" /\ r.lead = call[c].lead /\ r.got = call[c].got /\ r.loaded = call[c].loaded
          /\ r.answer = call[c].answer
      BY <1>1, <2>2 DEF CallRecord
    <3> QED  BY <1>1, <3>1 DEF Within
  <2>3. CASE r = Reads!Reading(c, "admitted")
    BY <2>3, RoomReading, Zenon
  <2>4. CASE call[c].pc = "loading" /\ r = [call[c] EXCEPT !.loaded = db]
    <3>1. r.pc = "loading" /\ r.lead = call[c].lead /\ r.got = call[c].got /\ r.loaded = db
          /\ r.answer = call[c].answer
      BY <1>1, <2>4 DEF CallRecord
    <3> QED  BY <1>1, <3>1 DEF Within
  <2> QED  BY <1>2, <2>1, <2>2, <2>3, <2>4
<1>6. closed => ~r.lead
  BY <1>1, <1>5
<1> QED
  BY <1>2, <1>3, <1>4, <1>5, <1>6, RoomGoesOn, Zenon

LEMMA RoomRefused ==
  ASSUME ReadInv, RoomInv, NEW c \in Caller, UNCHANGED setting, Reads!Refused(c) \/ Reads!LoaderFails(c)
  PROVE  RoomInv'
<1>1. Reads!Fail(c) /\ UNCHANGED <<setting, Reads!aside, l1>> /\ call[c].pc # "following"
  BY DEF Reads!Refused, Reads!LoaderFails
<1> QED
  BY <1>1, RoomFail

LEMMA RoomFindsNone ==
  ASSUME ReadInv, RoomInv, NEW c \in Caller, UNCHANGED setting, Reads!LoaderFindsNone(c)
  PROVE  RoomInv'
<1> DEFINE v == call[c].loaded
           a(ok) == Reads!PruneStale(Reads!SetNegative(aux, v, ok))
<1>1. /\ call[c].pc = "loading" /\ v \in setting.gone /\ UNCHANGED <<setting, Reads!aside, l1>>
      /\ \/ Reads!End(c, aux, "none", v)
         \/ \E ok : \/ Reads!End(c, a(ok), "value", a(ok).stale.version) \/ Reads!End(c, a(ok), "none", v)
  BY DEF Reads!LoaderFindsNone
<1>2. v \in Nat /\ v <= db /\ db \in Nat /\ call[c].pc # "following"
  BY <1>1, RoomCall
<1>3. v \in 1..db
  <2>1. setting \in Reads!Setting
    BY DEF ReadInv, ReadTypes
  <2>2. v # 0
    BY <1>1, <2>1 DEF Reads!Setting
  <2> QED  BY <1>2, <2>2
<1> HIDE DEF v
<1>4. ASSUME NEW ok PROVE RoomKept(aux, a(ok), db) /\ a(ok).stale.version \in Nat /\ a(ok).stale.version <= db
  <2> DEFINE b == Reads!SetNegative(aux, v, ok)
             p == Reads!PruneStale(b)
  <2>1. RoomKept(aux, b, db) /\ Room(b, db)
    BY <1>2, <1>3, RoomNow, RoomKeeping DEF RoomKept
  <2> HIDE DEF b
  <2>2. RoomKept(aux, p, db) /\ Room(p, db)
    BY <2>1, RoomPruning DEF RoomKept
  <2> HIDE DEF p
  <2>3. p.stale.version \in Nat /\ p.stale.version <= db
    BY <1>2, <2>2, NoneIs DEF Room
  <2> QED  BY <2>2, <2>3 DEF p, b
<1>5. CASE Reads!End(c, aux, "none", v)
  BY <1>1, <1>2, <1>5, RoomNow, RoomEnd
<1>6. ASSUME NEW ok, Reads!End(c, a(ok), "value", a(ok).stale.version) \/ Reads!End(c, a(ok), "none", v)
      PROVE  RoomInv'
  <2> DEFINE p == a(ok)
             w == p.stale.version
  <2>1. RoomKept(aux, p, db) /\ w \in Nat /\ w <= db
    BY <1>4
  <2>2. Reads!End(c, p, "value", w) \/ Reads!End(c, p, "none", v)
    BY <1>6
  <2> HIDE DEF p, w
  <2> QED  BY <1>1, <1>2, <2>1, <2>2, RoomEnd
<1> HIDE DEF a
<1> QED
  BY <1>1, <1>5, <1>6

LEMMA RoomFinds ==
  ASSUME ReadInv, RoomInv, NEW c \in Caller, UNCHANGED setting, Reads!LoaderFinds(c)
  PROVE  RoomInv'
<1> DEFINE v == call[c].loaded
           r == [call[c] EXCEPT !.pc = "stored"]
<1>1. call[c] \in CallRecord /\ Within(call[c], db) /\ (closed => ~call[c].lead) /\ v \in Nat /\ v <= db
  BY RoomCall
<1>2. /\ call[c].pc = "loading" /\ UNCHANGED <<setting, Reads!aside>>
      /\ \/ call[c].lead /\ l1' = v /\ call' = [call EXCEPT ![c] = r] /\ aux' = aux
         \/ Reads!End(c, aux, "value", v) /\ UNCHANGED l1
  BY DEF Reads!LoaderFinds, Reads!Becomes
<1>3. CASE call[c].lead /\ l1' = v /\ call' = [call EXCEPT ![c] = r] /\ aux' = aux
  <2>1. r.pc = "stored" /\ r.lead = call[c].lead /\ r.got = call[c].got /\ r.loaded = v /\ r.answer = call[c].answer
    BY <1>1 DEF CallRecord
  <2> HIDE DEF r, v
  <2>2. Within(r, db) /\ ~closed /\ l1' <= db
    BY <1>1, <1>3, <2>1 DEF Within, v
  <2>3. aux'.followers = aux.followers + One(r.pc = "following") - One(call[c].pc = "following")
    <3>1. aux.followers \in Int
      BY RoomTypes DEF AuxRecord
    <3> QED  BY <1>2, <1>3, <2>1, <3>1 DEF One
  <2>4. Room(aux', db)
    BY <1>3, RoomNow
  <2>5. Moves(c, r)
    BY <1>2, <1>3, <2>2, <2>3, <2>4 DEF Moves
  <2> QED  BY <2>5, RoomMove
<1>4. CASE Reads!End(c, aux, "value", v) /\ UNCHANGED l1
  <2>1. call[c].pc # "following" /\ UNCHANGED <<setting, Reads!aside, l1>>
    BY <1>2, <1>4
  <2> HIDE DEF v
  <2> QED  BY <1>1, <1>4, <2>1, RoomNow, RoomEnd
<1> QED
  BY <1>2, <1>3, <1>4

LEMMA RoomStored ==
  ASSUME ReadInv, RoomInv, NEW c \in Caller, UNCHANGED setting, Reads!Stored(c)
  PROVE  RoomInv'
<1> DEFINE v == call[c].loaded
           a(ok) == IF call[c].lead THEN Reads!RemoveNegative(Reads!RememberStale(aux, v, ok)) ELSE aux
<1>1. v \in Nat /\ v <= db /\ db \in Nat
  BY RoomCall
<1>2. /\ call[c].pc = "stored" /\ UNCHANGED <<setting, Reads!aside, l1>>
      /\ \E ok : Reads!End(c, a(ok), "value", v)
  BY DEF Reads!Stored
<1>3. v \in 1..db
  <2>1. v # 0
    BY <1>2 DEF ReadInv, CallsOK, CallOK
  <2> QED  BY <1>1, <2>1
<1>4. PICK ok : Reads!End(c, a(ok), "value", v)
  BY <1>2
<1> DEFINE b == Reads!RememberStale(aux, v, ok)
           p == a(ok)
<1> HIDE DEF v
<1>5. RoomKept(aux, b, db) /\ Room(b, db)
  BY <1>1, <1>3, RoomNow, RoomKeeping DEF RoomKept
<1>6. p = IF call[c].lead THEN Reads!RemoveNegative(b) ELSE aux
  OBVIOUS
<1>7. Reads!End(c, p, "value", v) /\ call[c].pc # "following"
  BY <1>2, <1>4
<1> HIDE DEF b, p
<1>8. RoomKept(b, Reads!RemoveNegative(b), db)
  BY <1>5, RoomRemovals
<1>9. RoomKept(aux, p, db)
  BY <1>5, <1>6, <1>8, RoomNow DEF RoomKept
<1> QED
  BY <1>1, <1>2, <1>7, <1>9, RoomEnd

\* What is there stays there while the origin moves on.
LEMMA RoomLater ==
  ASSUME NEW n \in Nat, Room(aux', n), db' \in Nat, n <= db', closed' => closed \/ Bare(aux')
  PROVE  Room(aux, db)'
<1>1. ASSUME NEW v \in 1..n PROVE v \in 1..db'
  OBVIOUS
<1>2. closed' => Bare(aux')
  BY DEF Room
<1>3. /\ aux' \in AuxRecord
      /\ aux'.flight = Reads!NoFlight \/ aux'.flight.by \in Caller
      /\ aux'.stale = Reads!NoEntry \/ aux'.stale.version \in 1..db'
      /\ aux'.negative = Reads!NoEntry \/ aux'.negative.version \in 1..db'
      /\ aux'.reserved = aux'.followers + One(aux'.flight # Reads!NoFlight) + One(aux'.stale # Reads!NoEntry)
                           + One(aux'.negative # Reads!NoEntry)
  BY <1>1 DEF Room
<1> QED
  BY <1>2, <1>3 DEF Room, Bare

\* A step that is of no call: it outdates every guard or leaves the calls alone.
Outside ==
  /\ UNCHANGED setting /\ db' \in db..setting.maxVersion /\ l1' <= db'
  /\ call' = call \/ call' = Reads!Outdated
  /\ RoomKept(aux, aux', db) /\ (closed' => closed \/ Bare(aux'))
  /\ write'.current => write'.version # 0
  /\ mutations' \in 0..setting.maxMutations /\ outages' \in 0..setting.maxOutages
  /\ lapses' \in 0..setting.maxLapses
  /\ closed' => l1' = 0 /\ ~write'.current /\ (closed \/ call' = Reads!Outdated)

LEMMA RoomOutside ==
  ASSUME ReadInv, RoomInv, Outside
  PROVE  RoomInv'
<1>1. db \in Nat /\ db >= 1 /\ db' \in Nat /\ db' >= db /\ db' \in 1..setting'.maxVersion
  BY RoomTypes DEF RoomInv, Outside
<1>2. Room(aux, db)'
  BY <1>1, RoomLater DEF Outside, RoomKept
<1>3. \A c \in Caller : /\ call'[c].pc = call[c].pc /\ call'[c].got = call[c].got
                        /\ call'[c].loaded = call[c].loaded /\ call'[c].answer = call[c].answer
                        /\ call'[c].lead => call[c].lead /\ call' = call
  BY RoomTypes, OutdatedCalls DEF Outside
<1>4. aux'.followers = Cardinality(Followers)'
  <2>1. Followers' = Followers
    BY <1>3 DEF Followers
  <2> QED  BY <2>1 DEF Outside, RoomKept, RoomInv
<1>5. ASSUME NEW c \in Caller PROVE Within(call[c], db)'
  <2>1. Within(call[c], db) /\ call[c].got \in Nat /\ call[c].loaded \in Nat /\ call[c].answer.version \in Nat
    BY RoomTypes DEF RoomInv
  <2> QED  BY <1>1, <1>3, <2>1 DEF Within
<1>6. closed' => \A c \in Caller : ~call'[c].lead
  BY <1>3, RoomTypes, OutdatedCalls DEF Outside, RoomInv
<1>7. setting' \in Settings /\ l1' <= db'
  BY DEF Outside, RoomInv
<1>8. /\ mutations' \in 0..setting'.maxMutations /\ outages' \in 0..setting'.maxOutages
      /\ lapses' \in 0..setting'.maxLapses /\ (write'.current => write'.version # 0)
      /\ closed' => l1' = 0 /\ ~write'.current
  BY DEF Outside
<1> QED
  BY <1>1, <1>2, <1>4, <1>5, <1>6, <1>7, <1>8 DEF RoomInv

LEMMA RoomBounds ==
  ASSUME ReadInv, RoomInv
  PROVE  /\ db \in Nat /\ db \in db..setting.maxVersion /\ 0 <= db /\ l1 <= db
         /\ setting.maxVersion \in Nat /\ setting.maxMutations \in Nat
         /\ setting.maxOutages \in Nat /\ setting.maxLapses \in Nat
         /\ mutations \in 0..setting.maxMutations /\ outages \in 0..setting.maxOutages
         /\ lapses \in 0..setting.maxLapses /\ RoomKept(aux, aux, db)
         /\ write.current => write.version # 0
         /\ closed => l1 = 0 /\ ~write.current
<1>1. setting \in Reads!Setting
  BY DEF ReadInv, ReadTypes
<1>2. /\ setting.maxVersion \in Nat /\ setting.maxMutations \in Nat
      /\ setting.maxOutages \in Nat /\ setting.maxLapses \in Nat
  BY <1>1 DEF Reads!Setting
<1>3. db \in Nat /\ db \in 1..setting.maxVersion
  BY RoomTypes DEF RoomInv
<1>4. db \in db..setting.maxVersion /\ 0 <= db
  BY <1>2, <1>3
<1> QED
  BY <1>2, <1>3, <1>4, RoomNow DEF RoomInv

LEMMA WriteOutdated ==
  ASSUME ReadInv
  PROVE  ~[write EXCEPT !.current = FALSE].current /\ ~[write EXCEPT !.pc = "idle", !.current = FALSE].current
BY RoomTypes

LEMMA RoomFlush ==
  ASSUME ReadInv, RoomInv, Reads!Flush, UNCHANGED <<setting, db, lapses>>,
         mutations' \in 0..setting.maxMutations, outages' \in 0..setting.maxOutages
  PROVE  RoomInv'
<1>1. call' = Reads!Outdated /\ write' = [write EXCEPT !.current = FALSE] /\ aux' = Reads!Clear(aux) /\ l1' = 0
  BY DEF Reads!Flush
<1>2. RoomKept(aux, aux', db) /\ Bare(aux')
  BY <1>1, RoomNow, RoomClearing
<1>3. ~write'.current
  BY <1>1, WriteOutdated
<1> QED
  BY <1>1, <1>2, <1>3, RoomBounds, RoomOutside DEF Outside

LEMMA RoomDelete ==
  ASSUME ReadInv, RoomInv, UNCHANGED setting,
         Reads!Delete \/ Reads!StreamLost \/ Reads!StreamBack \/ Reads!Close
  PROVE  RoomInv'
<1>1. Reads!Flush /\ UNCHANGED <<setting, db, lapses>>
  BY DEF Reads!Delete, Reads!StreamLost, Reads!StreamBack, Reads!Close, Reads!Flush
<1>2. /\ mutations' = mutations \/ (mutations < setting.maxMutations /\ mutations' = mutations + 1)
      /\ outages' = outages \/ (outages < setting.maxOutages /\ outages' = outages + 1)
  BY DEF Reads!Delete, Reads!StreamLost, Reads!StreamBack, Reads!Close
<1>3. mutations' \in 0..setting.maxMutations /\ outages' \in 0..setting.maxOutages
  BY <1>2, RoomBounds
<1> QED
  BY <1>1, <1>3, RoomFlush

LEMMA RoomSet ==
  ASSUME ReadInv, RoomInv, UNCHANGED setting, Reads!OtherPattern \/ Reads!Set
  PROVE  RoomInv'
<1>1. /\ ~closed /\ mutations < setting.maxMutations /\ mutations' = mutations + 1
      /\ call' = Reads!Outdated /\ UNCHANGED <<db, aux, closed, outages, lapses>>
      /\ \/ l1' = l1 /\ write' = [write EXCEPT !.current = FALSE]
         \/ l1' = db /\ write' = [pc |-> "writing", version |-> db, current |-> TRUE]
  BY DEF Reads!OtherPattern, Reads!Set
<1>2. mutations' \in 0..setting.maxMutations
  BY <1>1, RoomBounds
<1>3. db # 0 /\ l1' <= db'
  BY <1>1, RoomBounds DEF RoomInv
<1>4. write'.current => write'.version # 0
  <2>1. [pc |-> "writing", version |-> db, current |-> TRUE].version = db
    OBVIOUS
  <2> QED  BY <1>1, <1>3, <2>1, WriteOutdated, Zenon
<1>5. RoomKept(aux, aux', db) /\ ~closed'
  BY <1>1, RoomBounds
<1> QED
  BY <1>1, <1>2, <1>3, <1>4, <1>5, RoomBounds, RoomOutside DEF Outside

LEMMA RoomSetSettles ==
  ASSUME ReadInv, RoomInv, UNCHANGED setting, Reads!SetSettles
  PROVE  RoomInv'
<1> DEFINE v == write.version
<1>1. /\ write' = [write EXCEPT !.pc = "idle", !.current = FALSE]
      /\ \E ok : aux' = IF write.current THEN Reads!RemoveNegative(Reads!RememberStale(aux, v, ok)) ELSE aux
      /\ UNCHANGED <<db, l1, call, closed, mutations, outages, lapses>>
  BY DEF Reads!SetSettles
<1>2. PICK ok : aux' = IF write.current THEN Reads!RemoveNegative(Reads!RememberStale(aux, v, ok)) ELSE aux
  BY <1>1
<1>3. v \in Nat /\ v <= db /\ db \in Nat /\ (write.current => v # 0)
  BY RoomTypes, RoomBounds
<1> HIDE DEF v
<1>4. RoomKept(aux, aux', db)
  <2>1. CASE ~write.current
    BY <1>2, <2>1, RoomBounds
  <2>2. CASE write.current
    <3> DEFINE b == Reads!RememberStale(aux, v, ok)
    <3>1. v \in 1..db
      BY <1>3, <2>2
    <3>2. RoomKept(aux, b, db) /\ Room(b, db)
      BY <1>3, <3>1, RoomNow, RoomKeeping DEF RoomKept
    <3>3. aux' = Reads!RemoveNegative(b)
      BY <1>2, <2>2
    <3> HIDE DEF b
    <3>4. RoomKept(b, aux', db)
      BY <3>2, <3>3, RoomRemovals
    <3> QED  BY <3>2, <3>4 DEF RoomKept
  <2> QED  BY <2>1, <2>2
<1>5. ~write'.current
  BY <1>1, WriteOutdated
<1> QED
  BY <1>1, <1>4, <1>5, RoomBounds, RoomOutside DEF Outside

LEMMA RoomElsewhere ==
  ASSUME ReadInv, RoomInv, UNCHANGED setting, Reads!TrustRestored \/ Reads!DeleteMissed \/ Reads!OriginWrite
  PROVE  RoomInv'
<1>1. /\ UNCHANGED <<l1, aux, call, write, closed, mutations, outages, lapses>>
      /\ db' = db \/ (db < setting.maxVersion /\ db' = db + 1)
  BY DEF Reads!TrustRestored, Reads!DeleteMissed, Reads!OriginWrite
<1>2. db' \in db..setting.maxVersion /\ l1' <= db'
  BY <1>1, RoomBounds, RoomTypes
<1>3. RoomKept(aux, aux', db)
  BY <1>1, RoomBounds
<1> QED
  BY <1>1, <1>2, <1>3, RoomBounds, RoomOutside DEF Outside

LEMMA RoomEvicted ==
  ASSUME ReadInv, RoomInv, UNCHANGED setting, Reads!Evicted
  PROVE  RoomInv'
<1>1. /\ UNCHANGED <<db, call, write, closed, mutations, outages>>
      /\ lapses < setting.maxLapses /\ lapses' = lapses + 1
      /\ \/ l1' = 0 /\ aux' = aux
         \/ l1' = l1 /\ aux' = Reads!RemoveStale(aux)
  BY DEF Reads!Evicted, Reads!apart
<1>2. lapses' \in 0..setting.maxLapses
  BY <1>1, RoomBounds
<1>3. RoomKept(aux, aux', db)
  BY <1>1, RoomNow, RoomRemovals
<1>4. l1' <= db /\ (closed => l1' = 0)
  BY <1>1, RoomBounds
<1> QED
  BY <1>1, <1>2, <1>3, <1>4, RoomBounds, RoomOutside DEF Outside

\* An entry that expires is still there.
LEMMA RoomExpires ==
  ASSUME ReadInv, RoomInv, UNCHANGED setting, Reads!Expires
  PROVE  RoomInv'
<1> DEFINE f == [aux.flight EXCEPT !.expired = TRUE]
           s == [aux.stale EXCEPT !.expired = TRUE]
           g == [aux.negative EXCEPT !.expired = TRUE]
<1>1. /\ UNCHANGED <<db, l1, call, write, closed, mutations, outages>>
      /\ lapses < setting.maxLapses /\ lapses' = lapses + 1
  BY DEF Reads!Expires, Reads!apart
<1>2. aux \in AuxRecord /\ Room(aux, db) /\ aux.flight \in Flight /\ aux.stale \in Copy /\ aux.negative \in Copy
  BY RoomTypes, RoomNow DEF AuxRecord
<1>3. \/ aux.flight.by # Nobody /\ aux' = [aux EXCEPT !.flight = f]
      \/ aux.stale.version # 0 /\ aux' = [aux EXCEPT !.stale = s]
      \/ aux.negative.version # 0 /\ aux' = [aux EXCEPT !.negative = g]
  BY <1>2 DEF Reads!Expires, AuxRecord
<1>4. /\ f \in Flight /\ f.by = aux.flight.by /\ s \in Copy /\ s.version = aux.stale.version
      /\ g \in Copy /\ g.version = aux.negative.version
      /\ f # Reads!NoFlight /\ s # Reads!NoEntry /\ g # Reads!NoEntry
  <2>1. /\ f \in Flight /\ f.by = aux.flight.by /\ s \in Copy /\ s.version = aux.stale.version
        /\ g \in Copy /\ g.version = aux.negative.version /\ f.expired /\ s.expired /\ g.expired
    BY <1>2, Zenon DEF Flight, Copy
  <2> QED  BY <2>1, NoneIs, Zenon
<1> HIDE DEF f, s, g
<1>5. RoomKept(aux, aux', db)
  <2>1. CASE aux.flight.by # Nobody /\ aux' = [aux EXCEPT !.flight = f]
    <3>1. /\ aux' \in AuxRecord /\ aux'.flight = f /\ aux'.stale = aux.stale /\ aux'.negative = aux.negative
          /\ aux'.followers = aux.followers /\ aux'.reserved = aux.reserved
      BY <1>2, <1>4, <2>1 DEF AuxRecord
    <3>2. aux.flight # Reads!NoFlight
      BY <2>1, NoneIs
    <3> QED  BY <1>2, <1>4, <3>1, <3>2 DEF Room, RoomKept, Bare
  <2>2. CASE aux.stale.version # 0 /\ aux' = [aux EXCEPT !.stale = s]
    <3>1. /\ aux' \in AuxRecord /\ aux'.flight = aux.flight /\ aux'.stale = s /\ aux'.negative = aux.negative
          /\ aux'.followers = aux.followers /\ aux'.reserved = aux.reserved
      BY <1>2, <1>4, <2>2 DEF AuxRecord
    <3>2. aux.stale # Reads!NoEntry
      BY <2>2, NoneIs
    <3> QED  BY <1>2, <1>4, <3>1, <3>2 DEF Room, RoomKept, Bare
  <2>3. CASE aux.negative.version # 0 /\ aux' = [aux EXCEPT !.negative = g]
    <3>1. /\ aux' \in AuxRecord /\ aux'.flight = aux.flight /\ aux'.stale = aux.stale /\ aux'.negative = g
          /\ aux'.followers = aux.followers /\ aux'.reserved = aux.reserved
      BY <1>2, <1>4, <2>3 DEF AuxRecord
    <3>2. aux.negative # Reads!NoEntry
      BY <2>3, NoneIs
    <3> QED  BY <1>2, <1>4, <3>1, <3>2 DEF Room, RoomKept, Bare
  <2> QED  BY <1>3, <2>1, <2>2, <2>3
<1>6. lapses' \in 0..setting.maxLapses
  BY <1>1, RoomBounds
<1> QED
  BY <1>1, <1>5, <1>6, RoomBounds, RoomOutside DEF Outside

LEMMA RoomInitially == ASSUME Reads!Init PROVE RoomInv
<1> USE DEF Reads!Init
<1>1. ReadInv
  BY ReadInitially, Zenon
<1>2. setting \in Settings /\ setting \in Reads!Setting
  BY ReadConstants
<1>3. /\ setting.maxVersion \in Nat \ {0} /\ setting.maxMutations \in Nat
      /\ setting.maxOutages \in Nat /\ setting.maxLapses \in Nat
  BY <1>2 DEF Reads!Setting
<1>4. /\ db \in 1..setting.maxVersion /\ l1 <= db /\ mutations \in 0..setting.maxMutations
      /\ outages \in 0..setting.maxOutages /\ lapses \in 0..setting.maxLapses
      /\ ~write.current /\ ~closed
  BY <1>3
<1>5. /\ Reads!NewCall.pc = "idle" /\ Reads!NewCall.got = 0 /\ Reads!NewCall.loaded = 0
      /\ Reads!NewCall.answer.version = 0
  BY DEF Reads!NewCall, Reads!Pending
<1>6. \A c \in Caller : Within(call[c], db)
  <2>1. \A c \in Caller : call[c] = Reads!NewCall /\ db = 1
    OBVIOUS
  <2> QED  BY <1>5, <2>1 DEF Within
<1>7. aux.followers = Cardinality(Followers)
  <2>1. \A c \in Caller : call[c] = Reads!NewCall
    OBVIOUS
  <2>2. Followers = {}
    BY <1>5, <2>1 DEF Followers
  <2>3. aux.followers = 0
    BY DEF Reads!Empty
  <2> QED  BY <2>2, <2>3, FS_EmptySet
<1>8. Room(aux, db)
  <2>1. /\ aux.flight = Reads!NoFlight /\ aux.stale = Reads!NoEntry /\ aux.negative = Reads!NoEntry
        /\ aux.followers = 0 /\ aux.reserved = 0
    BY DEF Reads!Empty
  <2>2. aux \in AuxRecord
    BY <1>1, RoomTypes
  <2>3. aux.reserved = aux.followers + One(aux.flight # Reads!NoFlight) + One(aux.stale # Reads!NoEntry)
                         + One(aux.negative # Reads!NoEntry)
    BY <2>1 DEF One
  <2> QED  BY <2>1, <2>2, <2>3 DEF Room, Bare
<1> QED
  BY <1>2, <1>4, <1>6, <1>7, <1>8 DEF RoomInv

LEMMA RoomUnchanged == ASSUME RoomInv, UNCHANGED readVars PROVE RoomInv'
<1> USE DEF readVars
<1>1. Room(aux, db)'
  BY DEF RoomInv, Room, Bare
<1>2. aux'.followers = Cardinality(Followers')
  <2>1. Followers' = Followers
    BY DEF Followers
  <2> QED  BY <2>1 DEF RoomInv
<1>3. \A c \in Caller : Within(call[c], db)'
  BY DEF RoomInv, Within
<1> QED
  BY <1>1, <1>2, <1>3 DEF RoomInv

LEMMA RoomStep == ASSUME ReadInv, RoomInv, [Next]_vars PROVE RoomInv'
<1>1. CASE UNCHANGED readVars
  BY <1>1, RoomUnchanged
<1>2. CASE Reads!Next
  <2>1. UNCHANGED setting
    BY <1>2 DEF Reads!Next
  <2>2. setting.callers \subseteq Caller
    BY DEF ReadInv, ReadTypes, Reads!Setting
  <2>3. ASSUME NEW c \in setting.callers,
               \/ Reads!GetOrSet(c) \/ Reads!Progress(c) \/ Reads!Admitted(c)
               \/ Reads!LoaderReads(c) \/ Reads!LoaderFindsNone(c) \/ Reads!LoaderFinds(c)
        PROVE  RoomInv'
    <3>1. c \in Caller
      BY <2>2
    <3> QED
      BY <2>1, <2>3, <3>1, RoomGetOrSet, RoomReadMiss, RoomResumes, RoomReadEnds, RoomStart,
         RoomRecheckEnds, RoomLoads, RoomRefused, RoomFindsNone, RoomFinds, RoomStored
      DEF Reads!Progress
  <2>4. CASE Reads!Delete \/ Reads!StreamLost \/ Reads!StreamBack \/ Reads!Close
    BY <2>1, <2>4, RoomDelete
  <2>5. CASE Reads!OtherPattern \/ Reads!Set \/ Reads!SetSettles
    BY <2>1, <2>5, RoomSet, RoomSetSettles
  <2>6. CASE Reads!TrustRestored \/ Reads!DeleteMissed \/ Reads!OriginWrite
    BY <2>1, <2>6, RoomElsewhere
  <2>7. CASE Reads!Evicted \/ Reads!Expires
    BY <2>1, <2>7, RoomEvicted, RoomExpires
  <2> QED
    BY <1>2, <2>3, <2>4, <2>5, <2>6, <2>7 DEF Reads!Next
<1> QED
  BY <1>1, <1>2 DEF Next, vars

LEMMA RoomSafe == ASSUME ReadInv, RoomInv PROVE RoomExact /\ ClosedHoldsNothing
<1>1. Reads!Cardinality(Followers) = Cardinality(Followers)
  BY DEF Reads!Cardinality, Cardinality, Reads!IsFiniteSet, IsFiniteSet
<1>2. aux.followers = Reads!Cardinality(Followers) /\ aux \in AuxRecord /\ aux.followers \in Int
  BY <1>1, RoomTypes DEF RoomInv, AuxRecord
<1>3. aux.reserved = aux.followers + (IF aux.flight = Reads!NoFlight THEN 0 ELSE 1)
                       + (IF aux.stale = Reads!NoEntry THEN 0 ELSE 1)
                       + (IF aux.negative = Reads!NoEntry THEN 0 ELSE 1)
  BY <1>2 DEF RoomInv, Room, One
<1>4. RoomExact
  BY <1>2, <1>3 DEF RoomExact, Reads!RoomExact, Followers
<1>5. ClosedHoldsNothing
  <2> SUFFICES ASSUME closed PROVE l1 = 0 /\ [aux EXCEPT !.followers = 0, !.reserved = 0] = Reads!Empty
    BY DEF ClosedHoldsNothing, Reads!ClosedHoldsNothing
  <2>1. l1 = 0 /\ Bare(aux)
    BY DEF RoomInv, Room
  <2> DEFINE r == [aux EXCEPT !.followers = 0, !.reserved = 0]
  <2>2. /\ r \in AuxRecord /\ r.flight = aux.flight /\ r.stale = aux.stale /\ r.negative = aux.negative
        /\ r.followers = 0 /\ r.reserved = 0
    <3>1. aux \in AuxRecord /\ 0 \in Int
      BY <1>2
    <3>2. r \in AuxRecord
      BY <3>1, Zenon DEF AuxRecord
    <3>3. /\ r.flight = aux.flight /\ r.stale = aux.stale /\ r.negative = aux.negative
          /\ r.followers = 0 /\ r.reserved = 0
      BY <3>1 DEF AuxRecord
    <3> QED  BY <3>2, <3>3
  <2> HIDE DEF r
  <2>3. r = [flight |-> r.flight, stale |-> r.stale, negative |-> r.negative,
             followers |-> r.followers, reserved |-> r.reserved]
    BY <2>2 DEF AuxRecord
  <2>4. r = Reads!Empty
    BY <2>1, <2>2, <2>3, Zenon DEF Bare, Reads!Empty
  <2> QED  BY <2>1, <2>4 DEF r
<1> QED
  BY <1>4, <1>5

LEMMA ReadsTyped == ASSUME ReadInv, RoomInv PROVE Reads!TypeOK
<1> DEFINE V == 0..setting.maxVersion
<1>1. /\ setting \in Settings /\ db \in 1..setting.maxVersion /\ l1 \in Nat /\ l1 <= db /\ db \in Nat
      /\ setting.maxVersion \in Nat /\ aux \in AuxRecord /\ Reads!Version = V
  BY RoomTypes, RoomBounds DEF RoomInv, Reads!Version
<1>2. ASSUME NEW v \in Nat, v <= db PROVE v \in V
  <2>1. db \in Nat /\ setting.maxVersion \in Nat /\ db <= setting.maxVersion
    BY <1>1
  <2> QED  BY <1>2, <2>1
<1>3. IsFiniteSet(Followers) /\ Cardinality(Followers) \in 0..Cardinality(Caller) /\ Cardinality(Caller) \in Nat
  <2>1. Followers \in SUBSET Caller
    BY DEF Followers
  <2>2. IsFiniteSet(Followers) /\ Cardinality(Followers) <= Cardinality(Caller)
    BY <2>1, ReadConstants, FS_Subset
  <2> QED  BY <2>2, ReadConstants, FS_CardinalityType
<1>4. Reads!Cardinality(Caller) = Cardinality(Caller)
  BY DEF Reads!Cardinality, Cardinality, Reads!IsFiniteSet, IsFiniteSet
<1>5. aux \in [flight : [by : Caller \cup {Nobody}, expired : BOOLEAN],
               stale : [version : Reads!Version, expired : BOOLEAN],
               negative : [version : Reads!Version, expired : BOOLEAN],
               followers : 0..Reads!Cardinality(Caller), reserved : 0..Reads!Cardinality(Caller) + 3]
  <2> DEFINE n == Cardinality(Caller)
             f == aux.followers
  <2>1. n \in Nat /\ f \in 0..n
    BY <1>3 DEF RoomInv
  <2>2. aux.reserved \in 0..n + 3
    <3>1. /\ aux.reserved = f + One(aux.flight # Reads!NoFlight) + One(aux.stale # Reads!NoEntry)
                              + One(aux.negative # Reads!NoEntry)
      BY DEF RoomInv, Room
    <3>2. \A b : One(b) \in 0..1
      BY DEF One
    <3> HIDE DEF n, f
    <3> QED  BY <2>1, <3>1, <3>2
  <2>3. ASSUME NEW e, e \in Copy, e = Reads!NoEntry \/ e.version \in 1..db
        PROVE  e \in [version : V, expired : BOOLEAN]
    <3>1. e.version \in Nat /\ e.version <= db
      BY <1>1, <2>3, NoneIs
    <3> QED  BY <1>2, <2>3, <3>1 DEF Copy
  <2>4. aux.flight \in Flight /\ aux.stale \in Copy /\ aux.negative \in Copy
    BY <1>1 DEF AuxRecord
  <2>5. aux.stale \in [version : V, expired : BOOLEAN] /\ aux.negative \in [version : V, expired : BOOLEAN]
    BY <2>3, <2>4 DEF RoomInv, Room
  <2> HIDE DEF n, V
  <2> QED  BY <1>1, <1>4, <2>1, <2>2, <2>4, <2>5 DEF AuxRecord, Flight, n
<1>6. ASSUME NEW c \in Caller
      PROVE  /\ call[c].pc \in Reads!Points
             /\ call[c].got \in V /\ call[c].loaded \in V /\ call[c].since \in V
             /\ call[c].follows \in Caller \cup {Nobody}
             /\ call[c].answer.what \in {"pending", "value", "none", "error"} /\ call[c].answer.version \in V
  <2>1. call[c] \in CallRecord /\ Within(call[c], db)
    BY RoomTypes DEF RoomInv
  <2>2. /\ call[c].pc \in Reads!Points /\ call[c].got \in Nat /\ call[c].loaded \in Nat /\ call[c].since \in Nat
        /\ call[c].follows \in Caller \cup {Nobody} /\ call[c].answer \in Answer
    BY <2>1 DEF CallRecord
  <2>3. call[c].answer.what \in {"pending", "value", "none", "error"} /\ call[c].answer.version \in Nat
    BY <2>2 DEF Answer
  <2>4. call[c].since <= floor \/ call[c].since <= missed
    BY DEF ReadInv, CallsOK, CallOK
  <2>5. call[c].since <= db
    BY <1>1, <2>2, <2>4, ReadFacts
  <2> QED  BY <1>2, <2>1, <2>2, <2>3, <2>5 DEF Within
<1>7. write \in [pc : {"idle", "writing"}, version : V, current : BOOLEAN]
  <2>1. write.version \in V
    BY <1>2, RoomTypes
  <2> HIDE DEF V
  <2> QED  BY <2>1, RoomTypes
<1>8. l1 \in V /\ floor \in V /\ missed \in V /\ kept \in V /\ joined \subseteq Caller
  BY <1>1, <1>2, ReadFacts
<1>9. /\ trust \in {"trusted", "away", "restoring"} /\ closed \in BOOLEAN
      /\ mutations \in 0..setting.maxMutations /\ outages \in 0..setting.maxOutages /\ lapses \in 0..setting.maxLapses
  BY ReadFacts, RoomBounds
<1> HIDE DEF V
<1> QED
  BY <1>1, <1>5, <1>6, <1>7, <1>8, <1>9 DEF Reads!TypeOK

LEMMA CapTyped == ASSUME CapInv PROVE Capabilities!TypeOK
<1>1. \A d \in Capabilities!Discoveries :
        /\ manifest[d].phase \in {"none", "info", "command", "done"}
        /\ \A c \in Commands : manifest[d].capabilities[c].status \in {"supported", "unavailable", "unknown"}
  <2> SUFFICES ASSUME NEW d \in Capabilities!Discoveries
               PROVE  /\ manifest[d].phase \in {"none", "info", "command", "done"}
                      /\ \A c \in Commands : manifest[d].capabilities[c].status
                                               \in {"supported", "unavailable", "unknown"}
    OBVIOUS
  <2>1. manifest[d] \in Manifest
    BY DEF CapInv, CapTypes
  <2>2. manifest[d].phase \in {"none", "info", "command", "done"} /\ manifest[d].capabilities \in [Commands -> Verdict]
    BY <2>1 DEF Manifest
  <2> QED  BY <2>2 DEF Verdict
<1> QED
  BY <1>1 DEF CapInv, CapTypes, Capabilities!TypeOK

LEMMA KVTyped == ASSUME KVInv PROVE Listing!TypeOK
<1>1. /\ scan \in ScanRecord /\ trailing \in BOOLEAN /\ puts \in 0..MaxPuts
      /\ present \subseteq Name /\ listed \subseteq Name
  BY DEF KVInv, KVTypes
<1>2. /\ scan.pc \in {"done", "listing", "deleting"} /\ scan.left \subseteq Matching
      /\ scan.out \in {"none", "ok", "range", "stuck", "error"}
  BY <1>1 DEF ScanRecord
<1> QED
  BY <1>1, <1>2 DEF Listing!TypeOK

(***************************************************************************)
(* The memory budget is exact for any number of stores, keys, calls and      *)
(* settings: the ledger is what the stores, their histories and the other    *)
(* users hold, on every path on which an entry is evicted, replaced, expired *)
(* or purged; what getOrSet() reserved is what its maps and the followers    *)
(* of its loads hold; and a closed cache holds nothing while loads still run *)
(* (MemoryBudget, MemoryStore, joinInflight and close()).                    *)
(***************************************************************************)
THEOREM BudgetIsKept == Spec => []BudgetKept
<1> DEFINE Inv == SetupInv /\ KVInv /\ CapInv /\ ReadInv /\ RoomInv /\ MemInv /\ LedgerInv
<1>1. Init => Inv
  BY SetupInitially, KVInitially, CapInitially, ReadInitially, RoomInitially, MemInitially, LedgerInitially DEF Init
<1>2. Inv /\ [Next]_vars => Inv'
  BY SetupStep, KVStep, CapStep, ReadStep, RoomStep, MemStep, LedgerStep
<1>3. Inv => BudgetKept
  <2> SUFFICES ASSUME Inv PROVE BudgetKept
    OBVIOUS
  <2>1. TypeOK
    BY ReadsTyped, CapTyped, KVTyped DEF TypeOK, SetupInv, LedgerInv
  <2> QED  BY <2>1, RoomSafe DEF BudgetKept, LedgerInv
<1> QED
  BY <1>1, <1>2, <1>3, PTL DEF Spec

=============================================================================
