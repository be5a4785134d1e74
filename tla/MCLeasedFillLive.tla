--------------------------- MODULE MCLeasedFillLive --------------------------
(***************************************************************************)
(* LeasedFill under fairness, on two instances; a behaviour is about one:   *)
(*   "pair"  two leaders, timers of one tick, onTimeout 'load' (the         *)
(*           constants of the configuration),                              *)
(*   "solo"  one leader, longer timers and pipeline, onTimeout 'throw' and  *)
(*           a pattern delete.                                              *)
(***************************************************************************)
EXTENDS LeasedFill

CONSTANT f3

VARIABLE part

Solo == INSTANCE LeasedFill
  WITH Filler <- {f3}, MaxVersion <- 2, LockTtl <- 3, WaitTimeout <- 2, OnTimeout <- "throw",
       MaxPipe <- 3, PatternCalls <- TRUE

PartsInit ==
  \/ part = "pair" /\ Init
  \/ part = "solo" /\ Solo!Init

PartsNext ==
  /\ \/ part = "pair" /\ Next
     \/ part = "solo" /\ Solo!Next
  /\ UNCHANGED part

\* The fairness of LiveSpec, of the part the behaviour is about.
PartsSpec ==
  /\ PartsInit /\ [][PartsNext]_<<part, vars>>
  /\ WF_vars(part = "pair" /\ Tick)
  /\ \A f \in Filler :
       /\ WF_vars(part = "pair" /\ (Acquired(f) \/ Contended(f) \/ AcquireUnknown(f)))
       /\ WF_vars(part = "pair" /\ (PollHit(f) \/ PollMiss(f) \/ PollTimeout(f)))
  /\ WF_vars(part = "solo" /\ Solo!Tick)

\* A leader that waits for the lock stops waiting, whatever the owner, Redis and
\* the loader do.
PairWaiterResolves ==
  \A f \in Filler : []<>(part = "pair" => pc[f] \notin Waiting)

\* A lock whose leader is gone is freed by its TTL.
SoloOrphanLockExpires ==
  []<>(part = "solo" => ~(lock = f3 /\ pc[f3] = "done"))
=============================================================================
