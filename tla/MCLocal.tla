------------------------------- MODULE MCLocal -------------------------------
(***************************************************************************)
(* A small instance of Local: two stores and two keys, servers above and     *)
(* below the minimum version, four names, and three scenarios of getOrSet(). *)
(***************************************************************************)
EXTENDS Local

CONSTANTS s1, s2, k1, k2, c1, c2, c3

\* Clients with and without a ready event, INFO or COMMAND; one whose application accepts
\* older servers; one that asks for a command outside the list alone.
MCClients ==
  LET Client(methods_, minMajor_, commandNames) ==
        [methods |-> methods_, minMajor |-> minMajor_, commandNames |-> commandNames]
      some == <<"eval", "flushall", "eval", "getdel">>
  IN  {Client({"info", "command", "on"}, 6, some), Client({"info", "command"}, 5, <<"getdel">>),
       Client({"info", "on"}, 6, some), Client({"command"}, 6, <<"flushall">>)}
MCServers == {[major |-> 7, has |-> {"eval"}], [major |-> 5, has |-> {"getdel"}]}
MCErrors == {[message |-> "noperm", code |-> TRUE]}

\* Two calls with two mutations and a budget that may refuse; three calls and one mutation;
\* one call, of a value that goes, while the invalidation stream is lost and restored.
MCSettings ==
  {[callers |-> {c1, c2}, maxVersion |-> 2, gone |-> {1}, maxWaiters |-> 1, maxLeaders |-> 1,
    room |-> BOOLEAN, maxMutations |-> 2, maxOutages |-> 0, maxLapses |-> 0],
   [callers |-> {c1, c2, c3}, maxVersion |-> 1, gone |-> {}, maxWaiters |-> 1, maxLeaders |-> 2,
    room |-> {TRUE}, maxMutations |-> 1, maxOutages |-> 0, maxLapses |-> 0],
   [callers |-> {c1}, maxVersion |-> 2, gone |-> {2}, maxWaiters |-> 1, maxLeaders |-> 2,
    room |-> {TRUE}, maxMutations |-> 1, maxOutages |-> 1, maxLapses |-> 1]}
=============================================================================
