----------------------------- MODULE MCEventBus -----------------------------
(* A small instance of EventBuses: handler queues with two places, two or three events, two *)
(* losses of a connection, and four scenarios for the events a cache receives.             *)
EXTENDS EventBuses

CONSTANTS e1, e2, e3, e4, k1, k2

\* The first event is larger; one is too large for the handler queue or the backlog.
MCBytes == [e \in Event |-> IF e = e1 THEN 2 ELSE 1]
MCNatsBytes == [e \in NatsEvent |-> 1]
MCDeliveryBytes == [d \in Message \X Conn |-> IF d[1] = e1 THEN 3 ELSE 1]
MCSizes == [e \in Publication |-> CASE e = e1 -> 2 [] e = e4 -> 4 [] OTHER -> 1]

MCNatsSettings ==
  {[jetStream |-> FALSE, injected |-> FALSE, faults |-> {}, maxEnds |-> 0],
   [jetStream |-> TRUE, injected |-> TRUE, faults |-> {"orphan"}, maxEnds |-> 1]}
\* Only the exclusive queue gets the message that is too large.
MCRabbitSettings ==
  {[durable |-> FALSE, messages |-> {e1, e2}, faults |-> {}, maxDrops |-> 2],
   [durable |-> TRUE, messages |-> {e2, e3}, faults |-> {}, maxDrops |-> 1]}

\* Deletes and values of a peer, late and reordered; the same of a peer that may be
\* saturated; an event of several keys and no generation, an L1 that rejects and room for
\* fewer generations than keys; deletes of this process and of a peer that is restarted.
MCIntakeSettings ==
  {[keys |-> {k1}, peerCalls |-> {"delete", "set"}, localDeletes |-> FALSE, maxSeen |-> 0,
    maxTracked |-> 1, room |-> BOOLEAN, maxEvents |-> 3, maxMutations |-> 0, maxRepeats |-> 0,
    maxFails |-> 0, maxLapses |-> 0],
   [keys |-> {k1}, peerCalls |-> {"delete", "set", "saturate"}, localDeletes |-> FALSE,
    maxSeen |-> 0, maxTracked |-> 1, room |-> {TRUE}, maxEvents |-> 2, maxMutations |-> 0,
    maxRepeats |-> 0, maxFails |-> 0, maxLapses |-> 0],
   [keys |-> {k1, k2}, peerCalls |-> {"many"}, localDeletes |-> FALSE, maxSeen |-> 1,
    maxTracked |-> 1, room |-> {TRUE}, maxEvents |-> 1, maxMutations |-> 0, maxRepeats |-> 0,
    maxFails |-> 1, maxLapses |-> 0],
   [keys |-> {k1}, peerCalls |-> {"delete", "restart"}, localDeletes |-> TRUE, maxSeen |-> 1,
    maxTracked |-> 1, room |-> {TRUE}, maxEvents |-> 2, maxMutations |-> 1, maxRepeats |-> 1,
    maxFails |-> 0, maxLapses |-> 1]}
=============================================================================
