----------------------------- MODULE FencedEntry -----------------------------
(***************************************************************************)
(* What one cache entry of the shared tier promises to its readers, said   *)
(* without locks, leases, tokens, timers or lost replies.                   *)
(*                                                                         *)
(* The origin (database, service) is abstracted to the version it would    *)
(* return.  `floor` is the version the origin had when the entry was last  *)
(* fenced, that is directly written or deleted.  A loader result may enter *)
(* the entry only when it is at least as recent as that fence: a fill that *)
(* read the origin before an invalidation is never installed after it.     *)
(*                                                                         *)
(* LeasedFill.tla models the Redis lease protocol that implements this.    *)
(***************************************************************************)
EXTENDS Naturals

CONSTANT MaxVersion       \* the last version the origin reaches

VARIABLES
  db,      \* the version the origin returns now
  floor,   \* the origin version at the last fence of the entry
  data     \* the entry: its version (0 when absent) and who put it there

entryVars == <<db, floor, data>>

\* An absent entry: a Redis key that does not exist.
Absent == [val |-> 0, by |-> "none"]

EntryInit ==
  /\ db = 1
  /\ floor = 1
  /\ data \in {Absent, [val |-> 1, by |-> "fill"]}

\* The application commits a new version to its origin.
Write ==
  /\ db < MaxVersion
  /\ db' = db + 1
  /\ UNCHANGED <<floor, data>>

\* A direct delete or a direct set: the entry is replaced, fills are fenced.
Fence ==
  /\ data' \in {Absent} \cup [val : 1..db, by : {"set"}]
  /\ floor' = db
  /\ UNCHANGED db

\* A loader result becomes the entry.
Fill ==
  /\ data' \in [val : floor..db, by : {"fill"}]
  /\ UNCHANGED <<db, floor>>

\* The entry's own TTL passes.
Expire ==
  /\ data' = Absent
  /\ UNCHANGED <<db, floor>>

EntryNext == Write \/ Fence \/ Fill \/ Expire

EntrySpec == EntryInit /\ [][EntryNext]_entryVars
=============================================================================
