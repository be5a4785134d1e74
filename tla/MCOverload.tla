----------------------------- MODULE MCOverload -----------------------------
(* A small instance of Overload: two slots, two places to wait, room for two bytes. *)
EXTENDS Overload

CONSTANTS c1, c2, c3, c4, c5

\* One call is larger than the others: it may not fit where two of them do.
MCBytes == [c \in Call |-> IF c = c3 THEN 2 ELSE 1]
MCLoadBytes == [c \in Load |-> IF c = c3 THEN 2 ELSE 1]
=============================================================================
