---------------------------- MODULE MCLeasedFill -----------------------------
(* LeasedFill on small instances. *)
EXTENDS LeasedFill, TLC

\* Leaders are interchangeable; used by the runs without liveness only.
FillerSymmetry == Permutations(Filler)

\* Bound: only one leader is at work beside a pattern delete.
PatternAlone == pattern = "idle" \/ \E f \in Filler : pc[f] = "idle"
=============================================================================
