-------------------------- MODULE MCOperationStore ---------------------------
(* OperationStore on small instances. *)
EXTENDS OperationStore, TLC

CONSTANTS w1, w2, a, b

OneIdentity   == w1 :> a @@ w2 :> a
TwoIdentities == w1 :> a @@ w2 :> b

\* A store with a shorter lease cannot believe the remaining time of the
\* other's lease.
UnequalTimes == w1 :> 2 @@ w2 :> 1

\* Short leases, so that one store takes over from the other while the
\* retention the other asked for still exceeds its own.
ShortTimes   == w1 :> 1 @@ w2 :> 1
UnequalKeep  == w1 :> 3 @@ w2 :> 1

\* Tokens and call slots are interchangeable; not used with liveness.
Interchange == Permutations(Owner) \cup Permutations(Id)
=============================================================================
