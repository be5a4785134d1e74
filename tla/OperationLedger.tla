--------------------------- MODULE OperationLedger ---------------------------
(***************************************************************************)
(* What the coordination record of one durable operation promises, said     *)
(* without clocks, commands, replies or failures.                           *)
(*                                                                         *)
(* One attempt at a time holds the operation.  A hold ends by completing or *)
(* by lapsing; a lapsed hold is never taken up again by the attempt that    *)
(* lost it.  A completed operation keeps its result until it is forgotten,  *)
(* and the identity of an operation never changes before that.             *)
(*                                                                         *)
(* OperationStore.tla models the code that implements this.                 *)
(***************************************************************************)
CONSTANTS Owner, Identity, Result, None

VARIABLES
  phase,     \* "none", "held", "lapsed" or "done"
  owner,     \* the attempt that holds, lost or completed the operation
  identity,  \* what the operation is: its fingerprint and durable id
  result     \* the reference of its result

ledgerVars == <<phase, owner, identity, result>>

Empty == phase = "none" /\ owner = None /\ identity = None /\ result = None

Claim ==
  /\ phase \in {"none", "lapsed"}
  /\ phase' = "held"
  /\ owner' \in Owner \ {owner}
  /\ identity' \in Identity
  /\ phase = "lapsed" => identity' = identity
  /\ result' = None

Finish ==
  /\ phase = "held"
  /\ phase' = "done"
  /\ result' \in Result
  /\ UNCHANGED <<owner, identity>>

Lapse ==
  /\ phase = "held"
  /\ phase' = "lapsed"
  /\ UNCHANGED <<owner, identity, result>>

Forget == phase \in {"lapsed", "done"} /\ Empty'

LedgerNext == Claim \/ Finish \/ Lapse \/ Forget

LedgerSpec == Empty /\ [][LedgerNext]_ledgerVars
=============================================================================
