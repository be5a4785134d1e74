------------------------------- MODULE KVStore -------------------------------
(***************************************************************************)
(* deleteByPattern, clear and size of the two Cloudflare KV stores: the     *)
(* Worker's, which scans first and deletes afterwards, and Node's, which    *)
(* deletes page by page.  Names are numbers, in the order KV lists them; a  *)
(* cursor is the last name of the page before.  Other clients write, and    *)
(* KV expires, names between any two calls.  KV listings are eventually     *)
(* consistent: they may go on showing a name that is deleted, and not yet   *)
(* show one that was written.                                               *)
(***************************************************************************)
EXTENDS Integers, FiniteSets, FiniteSetsExt

CONSTANTS
  Name, Ours,          \* the namespace; names under the store's prefix
  Under, Matching,     \* names under the pattern's literal prefix; those that match
  Late,                \* names whose writes and deletions reach the listings late
  MaxScan,             \* maxPatternScanKeys
  PageSize, MinPage,   \* bounds the service, or its REST client, puts on a page
  MaxPuts              \* bound of the model

KVAssumption ==
  /\ Name \subseteq Nat \ {0} /\ Matching \subseteq Under /\ Under \subseteq Ours /\ Ours \subseteq Name
  /\ Late \subseteq Name
  /\ {MaxScan, PageSize, MinPage} \subseteq Nat \ {0} /\ MinPage <= PageSize
  /\ IsFiniteSet(Name) /\ MaxPuts \in Nat

VARIABLES
  trailing,  \* the service may return a cursor although no name is left
  present,   \* the names KV has
  listed,    \* the names its listings show
  puts,      \* writes of other clients so far
  scan       \* the call: its operation, the store it is made on, where it is, its cursor,
             \* the names it scanned or counted, those it still has to delete, whether the
             \* page is the last and whether its cursor advanced, and its result.  Then, for
             \* the properties: names to delete that were listed when it began and nobody
             \* wrote since, the
             \* names under its prefix listed when it began, what it deleted, and whether the
             \* namespace and its listings were left alone
kvVars == <<trailing, present, listed, puts, scan>>

Idle == [op |-> "none", store |-> "none", pc |-> "done", cursor |-> 0, scanned |-> 0, left |-> {},
         last |-> FALSE, moved |-> TRUE, out |-> "none",
         old |-> {}, found |-> 0, deleted |-> {}, alone |-> TRUE]

Init ==
  /\ trailing \in BOOLEAN /\ puts = 0 /\ scan = Idle
  /\ present \in SUBSET Name
  /\ \E late \in SUBSET Late : listed = (present \ Late) \union late

Prefixed(op) == IF op = "size" THEN Ours ELSE Under

Begin(op, store) ==
  /\ scan.pc = "done"
  /\ scan' = [Idle EXCEPT !.op = op, !.store = store, !.pc = "listing",
                          !.old = listed \intersect Matching,
                          !.found = Cardinality(listed \intersect Prefixed(op))]
  /\ UNCHANGED <<present, listed, puts>>

\* A pattern without an asterisk names one key.
DeleteLiteral(n) ==
  /\ scan.pc = "done" /\ n \in Matching
  /\ scan' = [Idle EXCEPT !.op = "literal", !.pc = "deleting", !.left = {n}, !.last = TRUE]
  /\ UNCHANGED <<present, listed, puts>>

Ends(out) == scan' = [scan EXCEPT !.pc = "done", !.out = out, !.left = {}]

-----------------------------------------------------------------------------
(* The service *)

\* The limit the Worker asks for, the REST client's least page, and the service's own limit.
Limit == IF scan.op = "purge" /\ scan.store = "worker"
         THEN Min({PageSize, Max({MinPage, MaxScan - scan.scanned + 1})}) ELSE PageSize

\* external: what the listings show when KV has these names.
Shown(names) == (names \ Late) \union (listed \intersect Late)

\* external: a page is the next listed names, as many as the service likes, perhaps none; it is
\* the last only when no name follows, and without `trailing` always then.
Remaining == {n \in listed \intersect Prefixed(scan.op) : n > scan.cursor}
IsPage(page, last) ==
  /\ Cardinality(page) <= Limit /\ \A n \in Remaining : \A m \in page : n < m => n \in page
  /\ IF page # Remaining THEN ~last ELSE last \/ trailing

-----------------------------------------------------------------------------
(* The loops *)

\* What follows when the names found are deleted.
Onward(s) ==
  IF s.left # {} THEN [s EXCEPT !.pc = "deleting"]
  ELSE IF s.last THEN [s EXCEPT !.pc = "done", !.out = "ok"]
  ELSE IF ~s.moved THEN [s EXCEPT !.pc = "done", !.out = "stuck"]
  ELSE [s EXCEPT !.pc = "listing"]

\* mutant: only more names than one page beyond the allowed ones are refused.
RefusedLate(scanned, last) == scanned > MaxScan + 1

\* mutant: as many names as allowed are too many.
RefusedAtLimit(scanned, last) == scanned >= MaxScan

Refused(scanned, last) == scanned > MaxScan \/ (~last /\ scanned >= MaxScan)

\* mutant: the Worker's store deletes page by page as well.
AfterPageEager(s, matching) == Onward([s EXCEPT !.left = matching])

\* mutant: every page is taken for the last.
AfterPageOnce(s, matching) == Onward([s EXCEPT !.left = matching, !.last = TRUE])

\* mutant: a cursor that does not advance is asked for again.
AfterPageAgain(s, matching) ==
  IF ~s.moved /\ ~s.last THEN [scan EXCEPT !.moved = ~@]
  ELSE IF s.store = "node" \/ s.last THEN Onward([s EXCEPT !.left = @ \union matching])
  ELSE [s EXCEPT !.left = @ \union matching]

\* The Worker's store goes on scanning with what it found; Node's deletes it first.
AfterPage(s, matching) ==
  IF s.store = "node" \/ s.last THEN Onward([s EXCEPT !.left = @ \union matching])
  ELSE IF ~s.moved THEN Onward([s EXCEPT !.left = {}])
  ELSE [s EXCEPT !.left = @ \union matching]

List(page, last, moved) ==
  /\ scan.pc = "listing" /\ IsPage(page, last)
  /\ LET s == [scan EXCEPT !.scanned = @ + Cardinality(page), !.last = last, !.moved = moved,
                           !.cursor = IF moved /\ page # {} THEN Max(page) ELSE @]
     IN  scan' = IF s.op = "purge" /\ s.store = "worker" /\ Refused(s.scanned, last)
                 THEN [s EXCEPT !.pc = "done", !.out = "range", !.left = {}]
                 ELSE AfterPage(s, IF s.op = "size" THEN {} ELSE page \intersect Matching)
  /\ UNCHANGED <<present, listed, puts>>

DeleteOne(n) ==
  /\ scan.pc = "deleting" /\ n \in scan.left
  /\ present' = present \ {n} /\ listed' = Shown(present')
  /\ scan' = Onward([scan EXCEPT !.left = @ \ {n}, !.deleted = @ \union {n}])
  /\ UNCHANGED puts

\* A call to KV throws: an HTTP error, an answer that is no listing, or a timeout.  A delete
\* may have been executed.
CallFails(executed) ==
  /\ scan.pc \in {"listing", "deleting"}
  /\ \/ ~executed /\ UNCHANGED <<present, listed>>
     \/ /\ executed /\ scan.pc = "deleting" /\ \E n \in scan.left : present' = present \ {n}
        /\ listed' = Shown(present')
  /\ Ends("error") /\ UNCHANGED puts

\* Another client writes a name, or KV expires one.
Others(n, write) ==
  /\ puts < MaxPuts /\ puts' = puts + 1
  /\ present' = IF write THEN present \union {n} ELSE present \ {n}
  /\ listed' = Shown(present')
  /\ scan' = [scan EXCEPT !.old = IF write THEN @ \ {n} ELSE @, !.alone = FALSE]

\* external: what became of a name reaches the listings.
Propagates(n) ==
  /\ n \in Late /\ (n \in listed) # (n \in present)
  /\ listed' = IF n \in present THEN listed \union {n} ELSE listed \ {n}
  /\ scan' = [scan EXCEPT !.alone = FALSE]
  /\ UNCHANGED <<present, puts>>

Progress ==
  \/ \E page \in SUBSET Remaining, last, moved \in BOOLEAN : List(page, last, moved)
  \/ \E n \in scan.left : DeleteOne(n)

Next ==
  /\ \/ \E op \in {"purge", "size"}, store \in {"worker", "node"} : Begin(op, store)
     \/ \E n \in Name : DeleteLiteral(n)
     \/ Progress
     \/ \E executed \in BOOLEAN : CallFails(executed)
     \/ \E n \in Name, write \in BOOLEAN : Others(n, write)
     \/ \E n \in Name : Propagates(n)
  /\ UNCHANGED trailing

\* A call to KV is answered or, over REST, times out, and the service does not answer with
\* empty pages and new cursors for ever (such a page leaves the call where it was).
Fairness == WF_kvVars(Progress /\ UNCHANGED trailing)
Spec == Init /\ [][Next]_kvVars /\ Fairness

-----------------------------------------------------------------------------
TypeOK ==
  /\ trailing \in BOOLEAN /\ {present, listed} \subseteq SUBSET Name /\ puts \in 0..MaxPuts
  /\ scan.pc \in {"done", "listing", "deleting"} /\ scan.left \subseteq Matching
  /\ scan.out \in {"none", "ok", "range", "stuck", "error"}

(***************************************************************************)
(* A purge that succeeds has deleted every matching name that the listings   *)
(* showed when it began and that was not written again since, whatever the   *)
(* sizes of the pages and whatever others wrote or deleted between them.  A  *)
(* name that KV has and does not list yet survives it: listings are          *)
(* eventually consistent.                                                    *)
(***************************************************************************)
PurgeReaches == scan.op = "purge" /\ scan.out = "ok" => scan.old \intersect present = {}

(***************************************************************************)
(* A purge the Worker refuses as too large has deleted nothing.              *)
(***************************************************************************)
RefusedWhole == scan.out = "range" => scan.deleted = {}

(***************************************************************************)
(* A purge is refused only when the listings show more names than allowed    *)
(* (or as many, and the service said that more would come), unless they      *)
(* change under the scan.  Names deleted a moment ago may still count.       *)
(***************************************************************************)
RefusedRightly ==
  scan.out = "range" /\ scan.alone => IF trailing THEN scan.found >= MaxScan ELSE scan.found > MaxScan

(***************************************************************************)
(* The Worker never deletes on the strength of more names than it may scan.  *)
(***************************************************************************)
ScanBounded ==
  scan.op = "purge" /\ scan.store = "worker" /\ scan.pc = "deleting" => scan.scanned <= MaxScan

(***************************************************************************)
(* size() is the number of names that the listings show under the prefix,    *)
(* unless they change under it; like them it may lag behind the namespace.   *)
(***************************************************************************)
SizeExact == scan.op = "size" /\ scan.out = "ok" /\ scan.alone => scan.scanned = scan.found

(***************************************************************************)
(* Every purge and every size() ends: a cursor that does not advance ends it *)
(* too.                                                                      *)
(***************************************************************************)
ScanEnds == []<>(scan.pc = "done")
=============================================================================
