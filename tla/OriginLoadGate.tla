--------------------------- MODULE OriginLoadGate ---------------------------
(***************************************************************************)
(* OriginLoadGate: how many loaders of this process run at once.  A call    *)
(* gets a reservation (a release function), at once or from the queue, and  *)
(* the caller's finally block calls it; calling it again does nothing.       *)
(*                                                                         *)
(* A call that waits is removed by a hand-over, its timer, its abort signal  *)
(* or close(), whichever comes first; each finds the others' work undone by  *)
(* asking whether the waiter is still in `queued`.  The keys that wait are   *)
(* charged to the process-wide MemoryBudget, which other users fill as well: *)
(* a reservation of memory may fail at any time.                             *)
(***************************************************************************)
EXTENDS Integers, Sequences, FiniteSets, SequencesExt, Totals

CONSTANTS
  Call,                      \* calls of acquire()
  Bytes,                     \* the bytes of their keys
  MaxConcurrent, MaxQueued,
  MaxQueuedKeyBytes          \* MAX_QUEUED_KEY_BYTES

OriginGateAssumption ==
  /\ IsFiniteSet(Call) /\ Bytes \in [Call -> Nat \ {0}]
  /\ MaxConcurrent \in Nat \ {0}
  /\ MaxQueued \in Nat /\ MaxQueuedKeyBytes \in Nat

VARIABLES
  active, queued, queuedBytes, closed,
  budget,      \* what the gate has reserved of the 'queue' category
  call,        \* where each call is
  released     \* reservations whose release function was called
vars == <<active, queued, queuedBytes, closed, budget, call, released>>

Rejected == {"overloaded", "aborted", "closed"}

TypeOK ==
  /\ active \in 0..MaxConcurrent
  /\ queued \in Seq(Call) /\ Len(queued) <= MaxQueued
  /\ queuedBytes \in 0..MaxQueuedKeyBytes
  /\ closed \in BOOLEAN
  /\ budget \in Nat
  /\ call \in [Call -> {"new", "queued", "loading"} \cup Rejected]
  /\ released \subseteq Call

Init ==
  /\ active = 0 /\ queued = <<>> /\ queuedBytes = 0 /\ closed = FALSE
  /\ budget = 0
  /\ call = [c \in Call |-> "new"]
  /\ released = {}

Holding == {c \in Call : call[c] = "loading" /\ c \notin released}
KeyBytes(S) == Total(Bytes, S)
Without(s, c) == RemoveAt(s, CHOOSE i \in 1..Len(s) : s[i] = c)

-----------------------------------------------------------------------------

Move(c, to) == call' = [call EXCEPT ![c] = to]

Reject(c, why) ==
  /\ Move(c, why)
  /\ UNCHANGED <<active, queued, queuedBytes, closed, budget, released>>

\* acquire().  fits: whether the memory budget has room.
Acquire(c, fits) ==
  /\ call[c] = "new"
  /\ IF closed THEN Reject(c, "closed")
     ELSE IF active < MaxConcurrent THEN
       /\ active' = active + 1
       /\ Move(c, "loading")
       /\ UNCHANGED <<queued, queuedBytes, closed, budget, released>>
     ELSE IF Len(queued) >= MaxQueued \/ queuedBytes + Bytes[c] > MaxQueuedKeyBytes \/ ~fits
     THEN Reject(c, "overloaded")
     ELSE
       /\ queuedBytes' = queuedBytes + Bytes[c]
       /\ budget' = budget + Bytes[c]
       /\ queued' = Append(queued, c)
       /\ Move(c, "queued")
       /\ UNCHANGED <<active, closed, released>>

\* The signal is aborted before acquire() looks at the gate.
AcquireAborted(c) == call[c] = "new" /\ ~closed /\ Reject(c, "aborted")

\* cleanupWaiter
Cleanup(S) ==
  /\ queuedBytes' = queuedBytes - KeyBytes(S)
  /\ budget' = budget - KeyBytes(S)

Drop(c, why) ==
  /\ c \in ToSet(queued)
  /\ queued' = Without(queued, c)
  /\ Cleanup({c})
  /\ Move(c, why)
  /\ UNCHANGED <<active, closed, released>>

\* mutant: the waiter is rejected and stays in the queue.
QueueTimerKeeps(c) ==
  /\ call[c] = "queued"
  /\ Cleanup({c})
  /\ Move(c, "overloaded")
  /\ UNCHANGED <<queued, active, closed, released>>

QueueTimer(c) == Drop(c, "overloaded")

\* mutant: the bytes of an aborted waiter stay in the memory budget.
AbortLeaks(c) ==
  /\ c \in ToSet(queued)
  /\ queued' = Without(queued, c)
  /\ queuedBytes' = queuedBytes - Bytes[c]
  /\ Move(c, "aborted")
  /\ UNCHANGED <<budget, active, closed, released>>

AbortWaiter(c) == Drop(c, "aborted")

\* The release function of a reservation, called by the load that ends.
Release(c) ==
  /\ call[c] = "loading"
  /\ IF c \in released THEN UNCHANGED vars
     ELSE
       /\ released' = released \cup {c}
       /\ IF queued = <<>> THEN
            /\ active' = active - 1
            /\ UNCHANGED <<queued, queuedBytes, budget, call>>
          ELSE
            /\ queued' = Tail(queued)
            /\ Cleanup({Head(queued)})
            /\ Move(Head(queued), "loading")
            /\ UNCHANGED active
       /\ UNCHANGED closed

\* mutant: a closed gate keeps its waiters.
CloseKeeps ==
  /\ ~closed
  /\ closed' = TRUE
  /\ UNCHANGED <<active, released, call, queued, queuedBytes, budget>>

\* mutant: the calls that wait are dropped without an answer.
CloseForgets ==
  /\ ~closed
  /\ closed' = TRUE
  /\ Cleanup(ToSet(queued))
  /\ queued' = <<>>
  /\ UNCHANGED <<active, released, call>>

Close ==
  /\ ~closed
  /\ closed' = TRUE
  /\ Cleanup(ToSet(queued))
  /\ call' = [c \in Call |-> IF c \in ToSet(queued) THEN "closed" ELSE call[c]]
  /\ queued' = <<>>
  /\ UNCHANGED <<active, released>>

Next ==
  \/ \E c \in Call : \/ \E fits \in BOOLEAN : Acquire(c, fits)
                     \/ AcquireAborted(c) \/ QueueTimer(c) \/ AbortWaiter(c) \/ Release(c)
  \/ Close

\* A loader ends, whether it succeeds, fails or is timed out by its caller, and timers fire.
Fairness == \A c \in Call : WF_vars(Release(c)) /\ WF_vars(QueueTimer(c))
Spec == Init /\ [][Next]_vars /\ Fairness

-----------------------------------------------------------------------------

(***************************************************************************)
(* The slots and the bytes are neither lost nor given twice, whichever of    *)
(* hand-over, timer, abort, close and second release come together: `active` *)
(* counts the loads that hold a reservation, and the memory budget holds     *)
(* exactly the keys that wait.                                               *)
(***************************************************************************)
ReservationsExact ==
  /\ active = Cardinality(Holding)
  /\ queuedBytes = KeyBytes(ToSet(queued)) /\ budget = queuedBytes

(***************************************************************************)
(* acquire() looks at `active` and not at the queue: no call overtakes the   *)
(* ones that wait only because a free slot means that nobody does.           *)
(***************************************************************************)
NoOvertaking == queued # <<>> => active = MaxConcurrent /\ ~closed

Gate == INSTANCE AdmissionGate
          WITH waiting <- queued, holding <- Holding,
               away <- {c \in Call : call[c] \in Rejected}

(* The gate implements AdmissionGate. *)
ImplementsGate == Gate!Spec

(***************************************************************************)
(* Every call that waits gets its reservation or an error.                   *)
(***************************************************************************)
WaiterServed == \A c \in Call : (call[c] = "queued") ~> (call[c] # "queued")
=============================================================================
