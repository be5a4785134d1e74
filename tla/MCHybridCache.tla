---------------------------- MODULE MCHybridCache ----------------------------
(* HybridCache in two scenarios, and in one in which the key is only deleted. *)
EXTENDS HybridCache, TLC

CONSTANTS s1, s2, s3

MCScenarios ==
  \* all processes, one call each, everything may fail
  {[procs |-> Proc, slots |-> {s1}, l2Fails |-> TRUE, busFails |-> TRUE]}
  \* one process, three overlapping calls, nothing fails
  \cup {[procs |-> {p}, slots |-> {s1, s2, s3}, l2Fails |-> FALSE, busFails |-> FALSE] : p \in Proc}

\* Everybody takes part, with two calls each, and nothing fails.
DeletingScenarios == {[procs |-> Proc, slots |-> Slot, l2Fails |-> FALSE, busFails |-> FALSE]}

\* The processes are interchangeable, and so are two of the call slots.
HybridSymmetry == Permutations(Proc) \cup Permutations({s2, s3})
DeletingSymmetry == Permutations(Proc) \cup Permutations(Slot)
=============================================================================
