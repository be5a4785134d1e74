---------------------------- MODULE AdmissionGate ----------------------------
(***************************************************************************)
(* What every gate of the library promises its callers, whoever they are    *)
(* and whatever is behind it: at most MaxConcurrent calls hold a slot, slots *)
(* are given in the order in which calls began to wait, none is free while  *)
(* somebody waits, and a call that was turned away never gets one.          *)
(* OperationGate and OriginLoadGate implement it.                           *)
(***************************************************************************)
EXTENDS Naturals, Sequences, FiniteSets, SequencesExt

CONSTANTS Call, MaxConcurrent, MaxQueued

VARIABLES
  waiting,   \* calls without a slot, in order
  holding,   \* calls with a slot
  away       \* calls turned away: refused, expired, cancelled or closed out
gateVars == <<waiting, holding, away>>

\* Calls that wait nowhere, hold nothing and were not turned away.
Outside == Call \ (ToSet(waiting) \cup holding \cup away)

Init == waiting = <<>> /\ holding = {} /\ away = {}

Enter(c) ==
  /\ c \in Outside
  /\ waiting = <<>> /\ Cardinality(holding) < MaxConcurrent
  /\ holding' = holding \cup {c}
  /\ UNCHANGED <<waiting, away>>

Queue(c) ==
  /\ c \in Outside
  /\ Cardinality(holding) = MaxConcurrent /\ Len(waiting) < MaxQueued
  /\ waiting' = Append(waiting, c)
  /\ UNCHANGED <<holding, away>>

Refuse(c) ==
  /\ c \in Outside
  /\ away' = away \cup {c}
  /\ UNCHANGED <<waiting, holding>>

\* t is s without the members of gone: the others keep their order.
Left(t, s, gone) ==
  /\ ToSet(t) = ToSet(s) \ gone
  /\ \A i, j \in 1..Len(t) : i < j =>
       \E k, l \in 1..Len(s) : k < l /\ s[k] = t[i] /\ s[l] = t[j]

\* Some of the calls that wait give up.
GiveUp(gone) ==
  /\ gone # {} /\ gone \subseteq ToSet(waiting)
  /\ Left(waiting', waiting, gone)
  /\ away' = away \cup gone
  /\ UNCHANGED holding

\* A slot comes back and goes to the first of the calls that wait and have not given up.
HandOver(c, gone) ==
  /\ c \in holding /\ gone \subseteq ToSet(waiting)
  /\ away' = away \cup gone
  /\ \/ /\ ToSet(waiting) = gone /\ waiting' = <<>>
        /\ holding' = holding \ {c}
     \/ \E first \in ToSet(waiting) \ gone :
          /\ Left(<<first>> \o waiting', waiting, gone)
          /\ holding' = (holding \ {c}) \cup {first}

Next ==
  \/ \E c \in Call : Enter(c) \/ Queue(c) \/ Refuse(c)
  \/ \E gone \in SUBSET ToSet(waiting) :
       GiveUp(gone) \/ \E c \in holding : HandOver(c, gone)

Spec == Init /\ [][Next]_gateVars
=============================================================================
