------------------------------ MODULE RedisKeys ------------------------------
(***************************************************************************)
(* The functions that name things: the pattern matcher every store filters  *)
(* with (cache/pattern.ts), and RedisStore's names of values, leases and    *)
(* scan patterns, with the layout its constructor chooses.  A behaviour     *)
(* asks one question and gets the code's answer.                            *)
(*                                                                          *)
(* A string is a sequence of tokens: characters, or runs of characters that *)
(* nothing here splits ("lock:", "index", "v2:").  A string of JavaScript   *)
(* may hold a lone surrogate ("lone"), which UTF-8 cannot express.          *)
(***************************************************************************)
EXTENDS Naturals, Sequences, SequencesExt, FiniteSets

CONSTANTS
  Texts, Patterns,             \* for the matcher
  Namespaces, Keys,              \* for the names
  GlobKeys, GlobPatterns       \* for the scan patterns

VARIABLES question, answer
vars == <<question, answer>>

------------------------------------------------------------------------------
(* cache/pattern.ts *)

LineTerminator == {"nl"}

hasLineTerminator(value, start, end) == \E i \in start + 1..end : value[i] \in LineTerminator

\* The text between the asterisks.
Split(pattern) ==
  LET Add(acc, c) == IF c = "*" THEN Append(acc, <<>>)
                     ELSE [acc EXCEPT ![Len(acc)] = Append(@, c)]
  IN  FoldLeft(Add, <<<<>>>>, pattern)

\* mutant: after a mismatch the search starts afresh.
AdvanceFromZero(literal, failure, matched, c) ==
  IF literal[matched + 1] = c THEN matched + 1 ELSE IF literal[1] = c THEN 1 ELSE 0

\* How much of the literal is matched after one more token, the inner while of the search:
\* on a mismatch the search goes on with the longest border of what was matched.
Advance(literal, failure, matched, c) ==
  LET back[m \in 0..Len(literal)] ==
        IF m > 0 /\ literal[m + 1] # c THEN back[failure[m]] ELSE m
      m == back[matched]
  IN  IF literal[m + 1] = c THEN m + 1 ELSE m

\* The failure table: failure[i] is the border of the first i tokens.
Failure(literal) ==
  LET f[i \in 0..Len(literal)] == IF i <= 1 THEN 0 ELSE Advance(literal, f, f[i - 1], literal[i])
  IN  f

\* The first position from start, before end, where the literal is, or Len(value) + 1.
findLiteral(value, literal, start, end) ==
  LET failure == Failure(literal)
      \* tokens matched after the first i of the value, or Len(literal) once it was found
      matched[i \in start..end] ==
        IF i = start THEN 0
        ELSE IF matched[i - 1] = Len(literal) THEN Len(literal)
        ELSE Advance(literal, failure, matched[i - 1], value[i])
      found == {i \in start..end : matched[i] = Len(literal)}
  IN  IF found = {} THEN Len(value) + 1
      ELSE (CHOOSE i \in found : \A j \in found : i <= j) - Len(literal)

matchesPattern(value, pattern) ==
  LET parts == Split(pattern)
      first == Head(parts)
      last == parts[Len(parts)]
      end == Len(value) - Len(last)
      \* the position after the literals up to i, or Len(value) + 1
      position[i \in 1..Len(parts)] ==
        IF i = 1 THEN Len(first)
        ELSE LET p == position[i - 1] IN
             IF p > Len(value) \/ parts[i] = <<>> THEN p
             ELSE LET found == findLiteral(value, parts[i], p, end) IN
                  IF found > Len(value) \/ hasLineTerminator(value, p, found) THEN Len(value) + 1
                  ELSE found + Len(parts[i])
  IN  CASE pattern = <<"*">> -> TRUE
        [] ~Contains(pattern, "*") -> value = pattern
        [] OTHER -> /\ IsPrefix(first, value) /\ IsSuffix(last, value)
                    /\ Len(first) <= end
                    /\ LET p == position[Len(parts) - 1] IN
                       p <= end /\ ~hasLineTerminator(value, p, end)

------------------------------------------------------------------------------
(* cache/redisStore.ts: names *)

Lock == <<"_", "_", "lock:">>

\* external: a string on its way to Redis, as UTF-8.  "U+FFFD" stands for what is lost.
OnWire(text) == [i \in DOMAIN text |-> IF text[i] = "lone" THEN "U+FFFD" ELSE text[i]]

WellFormed(text) == ~Contains(text, "lone")

\* encodeURIComponent: which tokens it replaces.
Escaped(c) ==
  CASE c = "}" -> "%7D" [] c = ":" -> "%3A" [] c = "lock:" -> "lock%3A" [] c = "[" -> "%5B" [] c = "]" -> "%5D"
    [] c = "?" -> "%3F" [] c = "\\" -> "%5C" [] OTHER -> c

\* mutant: the tag is the key as it is.
RawTag(key) == IF key = <<>> THEN <<"_">> ELSE key

\* mutant: an ill-formed key is encoded as it will be sent.
TagOfImage(key) == IF key = <<>> THEN <<"_">> ELSE [i \in DOMAIN key |-> Escaped(OnWire(key)[i])]

\* encodeURIComponent throws on a lone surrogate: the tag is then base64 of every code unit,
\* which has no delimiter either.
toSlotTag(key) ==
  LET encoded == [i \in DOMAIN key |-> IF key[i] = "lone" THEN "2A" ELSE Escaped(key[i])]
  IN  CASE key = <<>> -> <<"_">>
        [] WellFormed(key) -> encoded
        [] OTHER -> <<"utf16", ":">> \o encoded

Tagged(key, rest) == <<"v2:", "{">> \o toSlotTag(key) \o <<"}", ":">> \o rest

toRedisKey(layout, prefix, key) ==
  IF layout = "v2" THEN Tagged(key, prefix \o key) ELSE prefix \o key

toLockKey(layout, prefix, key) ==
  IF layout = "v2" THEN Tagged(key, prefix \o Lock \o key) ELSE prefix \o Lock \o key

indexKey(prefix) == prefix \o <<"_", "_", "index">>

assertDataKey(layout, prefix, key) ==
  layout = "v2" \/ ~(IsPrefix(Lock, key) \/ toRedisKey(layout, prefix, key) = indexKey(prefix))

Drop(s, n) == SubSeq(s, n + 1, Len(s))
Undefined == [kind |-> "undefined", logicalKey |-> <<>>]

\* mutant: a lease is told by its name alone.
ParseByName(layout, prefix, redisKey) ==
  LET tagEnds == {i \in 1..Len(redisKey) - 1 : redisKey[i] = "}" /\ redisKey[i + 1] = ":"}
      suffix == IF layout = "legacy" THEN redisKey
                ELSE Drop(redisKey, (CHOOSE i \in tagEnds : \A j \in tagEnds : i <= j) + 1)
      key == Drop(suffix, Len(prefix))
  IN  CASE redisKey = indexKey(prefix) -> Undefined
        [] ~IsPrefix(prefix, suffix) -> Undefined
        [] IsPrefix(Lock, key) -> [kind |-> "lock", logicalKey |-> Drop(key, Len(Lock))]
        [] OTHER -> [kind |-> "data", logicalKey |-> key]

\* Every name of the v2 layout has a tag; the first "}:" ends it.
parseRedisKey(layout, prefix, redisKey) ==
  LET tagEnds == {i \in 1..Len(redisKey) - 1 : redisKey[i] = "}" /\ redisKey[i + 1] = ":"}
      suffix == IF layout = "legacy" THEN redisKey
                ELSE Drop(redisKey, (CHOOSE i \in tagEnds : \A j \in tagEnds : i <= j) + 1)
      key == Drop(suffix, Len(prefix))
      locked == Drop(key, Len(Lock))
  IN  CASE redisKey = indexKey(prefix) \/ ~IsPrefix(prefix, suffix) -> Undefined
        [] layout = "legacy" /\ IsPrefix(Lock, key) -> [kind |-> "lock", logicalKey |-> locked]
        [] toRedisKey(layout, prefix, key) = redisKey -> [kind |-> "data", logicalKey |-> key]
        [] IsPrefix(Lock, key) /\ toLockKey(layout, prefix, locked) = redisKey ->
             [kind |-> "lock", logicalKey |-> locked]
        [] OTHER -> Undefined

------------------------------------------------------------------------------
(* Scan patterns *)

Quote(text, special) ==
  FoldLeft(LAMBDA acc, c : acc \o (IF c \in special THEN <<"\\", c>> ELSE <<c>>), <<>>, text)

escapeRedisGlob(text) == Quote(text, {"\\", "*", "?", "[", "]"})

\* mutant: brackets mean what they mean to Redis.
QuoteNoBrackets(text) == Quote(text, {"\\", "?"})

cachePatternToRedisGlob(text) == Quote(text, {"\\", "?", "[", "]"})

toRedisPattern(layout, prefix, pattern) ==
  LET rest == escapeRedisGlob(prefix) \o cachePatternToRedisGlob(pattern)
  IN  IF layout = "v2" THEN <<"v2:", "*", ":">> \o rest ELSE rest

\* external: MATCH of Redis.  A class is taken to its first "]".
RedisGlobMatches(glob, text) ==
  LET n == Len(glob)
      m[p \in (1..n + 1) \X (1..Len(text) + 1)] ==
        LET i == p[1]  j == p[2]  more == j <= Len(text)
            closing == {k \in i + 1..n : glob[k] = "]"}
        IN  CASE i > n -> ~more
              [] i <= n /\ glob[i] = "*" -> m[<<i + 1, j>>] \/ (more /\ m[<<i, j + 1>>])
              [] i <= n /\ glob[i] = "?" -> more /\ m[<<i + 1, j + 1>>]
              [] i <= n /\ glob[i] = "\\" /\ i < n ->
                   more /\ glob[i + 1] = text[j] /\ m[<<i + 2, j + 1>>]
              [] i <= n /\ glob[i] = "[" /\ closing # {} ->
                   LET c == CHOOSE k \in closing : \A l \in closing : k <= l
                   IN  more /\ text[j] \in {glob[k] : k \in i + 1..c - 1} /\ m[<<c + 1, j + 1>>]
              [] OTHER -> more /\ glob[i] = text[j] /\ m[<<i + 1, j + 1>>]
  IN  m[<<1, 1>>]

------------------------------------------------------------------------------
(* The layout the constructor chooses *)

Script == {"releaseLock", "renewLock", "publishIfOwner", "snapshot", "setAndFence", "deleteAndFence"}
Clients == [defineCommand : BOOLEAN, eval : BOOLEAN, defines : {Script, Script \ {"snapshot"}, {}}]

registerRedisScript(client, script) == client.defineCommand /\ script \in client.defines

\* mutant: a client that defines commands is taken to define every one.
ChooseByMethod(option, client) ==
  CASE option = "v2" /\ ~client.defineCommand /\ ~client.eval -> "throws"
    [] option = "v2" \/ (option # "legacy" /\ client.defineCommand) -> "v2"
    [] OTHER -> "legacy"

KeyLayout(option, client) ==
  LET registered == \A s \in Script : registerRedisScript(client, s)
      versioned == option = "v2" \/ (option # "legacy" /\ client.defineCommand)
  IN  CASE option = "v2" /\ ~client.defineCommand /\ ~client.eval -> "throws"
        [] versioned /\ ~client.eval /\ ~registered -> IF option = "v2" THEN "throws" ELSE "legacy"
        [] OTHER -> IF versioned THEN "v2" ELSE "legacy"

\* executeScript finds a way to run the script.
CanExecute(client, script) == registerRedisScript(client, script) \/ client.eval

------------------------------------------------------------------------------
Layout == {"v2", "legacy"}
NotAsked == [kind |-> "none"]

Init == question = NotAsked /\ answer = "none"

Ask(q, a) == question' = q /\ answer' = a

MatchKey == \E v \in Texts, p \in Patterns :
  Ask([kind |-> "match", value |-> v, pattern |-> p], matchesPattern(v, p))

ReadName == \E layout \in Layout, p, reader \in Namespaces, k \in Keys, lock \in BOOLEAN :
  /\ assertDataKey(layout, p, k)
  /\ Ask([kind |-> "name", layout |-> layout, prefix |-> p, reader |-> reader, key |-> k,
          lock |-> lock],
         parseRedisKey(layout, reader,
                       OnWire(IF lock THEN toLockKey(layout, p, k) ELSE toRedisKey(layout, p, k))))

ScanFor == \E layout \in Layout, p \in Namespaces, k \in GlobKeys, pattern \in GlobPatterns :
  Ask([kind |-> "scan", key |-> k, pattern |-> pattern],
      RedisGlobMatches(OnWire(toRedisPattern(layout, p, pattern)), OnWire(toRedisKey(layout, p, k))))

Construct == \E option \in {"v2", "auto", "legacy"}, client \in Clients :
  Ask([kind |-> "layout", option |-> option, client |-> client], KeyLayout(option, client))

Next == question = NotAsked /\ (MatchKey \/ ReadName \/ ScanFor \/ Construct)

------------------------------------------------------------------------------
(* Properties *)

\* What a pattern means: an asterisk stands for any text without line terminators (alone:
\* for any text), every other token for itself.
Meaning(value, pattern) ==
  LET m[p \in (1..Len(value) + 1) \X (1..Len(pattern) + 1)] ==
        LET i == p[1]  j == p[2]  more == i <= Len(value)
        IN  IF j > Len(pattern) THEN ~more
            ELSE IF pattern[j] = "*"
                 THEN m[<<i, j + 1>>] \/ (more /\ value[i] \notin LineTerminator /\ m[<<i + 1, j>>])
                 ELSE more /\ value[i] = pattern[j] /\ m[<<i + 1, j + 1>>]
  IN  pattern = <<"*">> \/ m[<<1, 1>>]

\* The segment search with its failure tables decides exactly what the pattern means
\* (matchesPattern, findLiteral).
MatcherExact ==
  question.kind = "match" => answer = Meaning(question.value, question.pattern)

\* A store reads back every name it writes, value and lease apart.  Left out are keys that
\* are not well-formed: Redis returns them with U+FFFD, the tag rebuilt from that is another
\* one, and parseRedisKey knows the name no more, so that deleteByPattern(), clear() and a
\* size() without the index pass over it.
NamesReadBack ==
  question.kind = "name" /\ question.reader = question.prefix /\ WellFormed(question.key) =>
    answer = [kind |-> IF question.lock THEN "lock" ELSE "data", logicalKey |-> question.key]

\* In the v2 layout no two keys have one name in Redis, although lone surrogates are lost on
\* the way: their tags keep them apart (toSlotTag).
KeysApart ==
  question.kind = "name" /\ question.layout = "v2" /\ question.reader = question.prefix /\ ~question.lock =>
    \A k \in Keys :
      OnWire(toRedisKey("v2", question.prefix, k)) = OnWire(toRedisKey("v2", question.prefix, question.key))
        => k = question.key

\* In the v2 layout a store takes no name of another namespace for its own, though one
\* prefix extends the other.  Excepted are empty keys, whose tag is that of "_", and a
\* namespace called like another's leases.
NamespacesApart ==
  question.kind = "name" /\ question.layout = "v2" /\ question.reader # question.prefix
    /\ question.key # <<>>
    /\ question.prefix # question.reader \o Lock /\ question.reader # question.prefix \o Lock
    => answer.kind = "undefined" \/ answer.logicalKey = <<>>

\* A scan is sent a pattern that matches every name of a key the cache pattern matches:
\* what the scan leaves out is never a key that should be deleted (toRedisPattern).
ScanCovers ==
  question.kind = "scan" /\ matchesPattern(question.key, question.pattern) => answer

\* The v2 layout is only chosen when each of its scripts can be run.
LayoutRunnable ==
  question.kind = "layout" =>
    /\ answer = "v2" => \A s \in Script : CanExecute(question.client, s)
    /\ answer = "throws" => question.option = "v2"
    /\ question.option = "legacy" => answer = "legacy"
=============================================================================
