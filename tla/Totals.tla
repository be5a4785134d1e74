------------------------------- MODULE Totals -------------------------------
(***************************************************************************)
(* The sum of a function over a finite set, and a choice of members of a     *)
(* sequence.  A byte is a pair of its holder and a number, so that a sum is  *)
(* the cardinality of a set of bytes and what it does when holders come and  *)
(* go follows from facts about cardinality (Queues).                         *)
(***************************************************************************)
EXTENDS Integers, Sequences, FiniteSets

Units(f, S) == UNION {{c} \X (1..f[c]) : c \in S}
Total(f, S) == Cardinality(Units(f, S))

\* The members of s at the places P, in the order of s.
Nth(P, i) == CHOOSE p \in P : Cardinality({q \in P : q <= p}) = i
Picked(s, P) == [i \in 1..Cardinality(P) |-> s[Nth(P, i)]]
=============================================================================
