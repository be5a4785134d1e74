------------------------------- MODULE MCStorage -------------------------------
(***************************************************************************)
(* Small instances of Storage: two clients of the v2 layout, of the v2       *)
(* layout without an index, and of the plain layout without snapshot         *)
(* scripts, and one client with more keys; a Worker with a publisher of      *)
(* invalidations and two mutations, and one without, over more time.         *)
(***************************************************************************)
EXTENDS Storage, SequencesExt, TLC

CONSTANTS r1, r2, c1, c2

MCLayouts ==
  LET Base == [name |-> "indexed", keys |-> {"a", "b"}, clients |-> {"p", "q"}, big |-> {"b"}, versioned |-> TRUE,
               indexed |-> TRUE, snapshot |-> TRUE, maxEntries |-> 1, ttl |-> 1, batchSize |-> 2,
               maxWrites |-> 3, maxTime |-> 2, maxFaults |-> 0]
      Used(s, p, q) == s @@ [calls |-> [c \in s.clients |-> IF c = "p" THEN p ELSE q]]
  IN  {Used(Base, {"set"}, {"set", "get"}),
       Used([Base EXCEPT !.name = "unindexed", !.indexed = FALSE, !.maxFaults = 1],
            {"set", "delete"}, {"pattern", "get", "inspect"}),
       Used([Base EXCEPT !.name = "plain", !.versioned = FALSE, !.snapshot = FALSE], {"set"}, {"set", "get", "inspect"}),
       Used([Base EXCEPT !.name = "alone", !.keys = {"a", "b", "c"}, !.clients = {"p"}, !.maxEntries = 2, !.ttl = 2,
                         !.maxTime = 3, !.maxFaults = 1],
            {"set", "get", "delete", "pattern", "size", "inspect"}, {})}

MCTexts == SeqOf({"a", "b", "nl"}, 4)
MCPatterns == SeqOf({"a", "b", "*"}, 5)
MCNamespaces == {<<>>, <<"a">>, <<"a", "_">>, <<"a", "_", "_", "lock:">>}
MCKeys == SeqOf({"a", "_", "lock:", "index", "}", ":"}, 3) \union SeqOf({"a", "lone", "U+FFFD", "}"}, 3)
MCGlobKeys == SeqOf({"a", "[", "]", "\\", "lone"}, 3)
MCGlobPatterns == SeqOf({"a", "*", "?", "[", "]", "\\"}, 3)

MCTiers == SeqOf([maxBytes : {-1, 0, 10, 20}, codec : {"none", "lz4"}], 3)
MCPackedInputs == SeqOf({"i", "s", "A0", "A1", "A2", "M1", "S1", "n", "E", "R"}, 4)
MCLimits == [maxDepth : {1, 2}, maxCollectionLength : {1, 2}, maxTotalValues : {2, 7}]
MCSqueezes == {-5, 14, 15, 60}

MCSetups ==
  {[name |-> "publisher", publisher |-> TRUE, l1TtlMs |-> 1, ttlMs |-> 1, maxMutations |-> 2, maxTime |-> 0],
   [name |-> "queueless", publisher |-> FALSE, l1TtlMs |-> 2, ttlMs |-> 2, maxMutations |-> 1, maxTime |-> 2]}

Ask(kind, buyer, key, r) == [kind |-> kind, buyer |-> buyer, key |-> key, reservation |-> r]
MCRequests ==
  {Ask("reserve", "A", "a", 0), Ask("reserve", "B", "b", 0), Ask("reserve", "B", "a", 0),
   Ask("confirm", "A", "a", 1), Ask("release", "A", "a", 1)}
=============================================================================
