----------------------------- MODULE WireFormat -----------------------------
(***************************************************************************)
(* Values on the wire: the Node serializer and the portable one of Workers,  *)
(* the codecs and size tiers, the readers with and without limits, the       *)
(* validators that run before a parser may allocate, and the events of the   *)
(* bus.  A behaviour asks one question and gets the code's answer.           *)
(*                                                                          *)
(* A value is a kind of content, the size of its MessagePack form and what   *)
(* compression saves of it; a record is a tag and a body that says what it   *)
(* is made of.                                                               *)
(***************************************************************************)
EXTENDS Integers, Sequences, SequencesExt, FiniteSets

CONSTANTS
  Sizes, Squeezes,      \* bytes of a packed value, percent saved by compression
  Tiers,                \* tier lists given to validateTiers
  PackedInputs,         \* inputs of isSafeMessagePack
  Limits                \* decode limits of the validators

VARIABLES question, answer
vars == <<question, answer>>

-----------------------------------------------------------------------------
(* codecs.ts: tiers *)

Omitted == -1
Tier(maxBytes, codec) == [maxBytes |-> maxBytes, codec |-> codec]
Runtime == {"node22", "node20", "worker"}

codecAvailable(rt, codec) == codec = "zstd" => rt = "node22"

DEFAULT_TIERS(rt) ==
  <<Tier(256, "none"), Tier(4096, "lz4"),
    Tier(Omitted, IF codecAvailable(rt, "zstd") THEN "zstd" ELSE "lz4")>>

selectCodec(rt, tiers, n) ==
  LET fits == {i \in DOMAIN tiers : tiers[i].maxBytes = Omitted \/ n < tiers[i].maxBytes}
      tier == tiers[CHOOSE i \in fits : \A j \in fits : i <= j]
  IN  IF fits = {} THEN "none"
      ELSE IF codecAvailable(rt, tier.codec) THEN tier.codec ELSE "lz4"

\* mutant: the bounds need not increase.
ValidateUnordered(tiers) ==
  /\ tiers # <<>>
  /\ \A i \in DOMAIN tiers : tiers[i].maxBytes = Omitted => i = Len(tiers)

validateTiers(tiers) ==
  /\ tiers # <<>>
  /\ \A i \in DOMAIN tiers :
       IF tiers[i].maxBytes = Omitted THEN i = Len(tiers)
       ELSE tiers[i].maxBytes > IF i = 1 THEN 0 ELSE tiers[i - 1].maxBytes

\* mutant: gzip is for large values, smaller ones get the default.
ResolveGzipLarge(rt, mode) ==
  CASE mode \in {"default", "auto"} -> DEFAULT_TIERS(rt)
    [] mode = "none" -> <<Tier(Omitted, "none")>>
    [] OTHER -> <<Tier(1024, "none"), Tier(4096, "lz4"), Tier(Omitted, mode)>>

\* A mode, or the list itself, validated.
resolveTiers(rt, mode) ==
  CASE mode \in {"default", "auto"} -> DEFAULT_TIERS(rt)
    [] mode = "none" -> <<Tier(Omitted, "none")>>
    [] OTHER -> <<Tier(1024, "none"), Tier(Omitted, mode)>>

-----------------------------------------------------------------------------
(* Writing *)

Record(tag, form, content, size, full) ==
  [tag |-> tag, form |-> form, content |-> content, size |-> size, full |-> full, damaged |-> FALSE]
Throws == [tag |-> "throws"]
Tag(codec) == CASE codec = "gzip" -> "HC1G" [] codec = "zstd" -> "HC1Z"
                [] codec = "lz4" -> "HC1L" [] codec = "snappy" -> "HC1S"
Compressed(v) == v.size - (v.size * v.squeeze) \div 100
PaysOff(v) == 100 * (v.size - Compressed(v)) >= 15 * v.size
NullSize == 22

\* What is left of a value that went through JSON.
JsonImage(content) == IF content = "date" THEN "text" ELSE content

\* serializeWithStats.  null is written as a text, and that very text as JSON.
serialize(rt, v, options) ==
  LET codec == selectCodec(rt, resolveTiers(rt, options.compression), v.size)
  IN  CASE v.content \in {"null", "undefined"} -> Record("HC1M", "msgpack", "sentinel", NullSize, NullSize)
        [] v.content = "sentinel" -> Record("HC1J", "json", "sentinel", NullSize, NullSize)
        [] v.content = "circular" -> Throws
        [] options.format = "json" -> Record("HC1J", "json", JsonImage(v.content), v.size, v.size)
        [] codec # "none" /\ PaysOff(v) -> Record(Tag(codec), "msgpack", v.content, Compressed(v), v.size)
        [] OTHER -> Record("HC1M", "msgpack", v.content, v.size, v.size)

Cap == 25 * 1024 * 1024

\* serializePortable: gzip of values of 1 KiB and more, if the result stays under the cap.
serializePortable(v, options) ==
  LET tries == options.compression # "none" /\ v.size >= 1024
  IN  CASE v.content \in {"null", "undefined"} -> Record("HC1M", "msgpack", "sentinel", NullSize, NullSize)
        [] v.content = "sentinel" -> Record("HC1J", "json", "sentinel", NullSize, NullSize)
        [] v.content = "circular" \/ (tries /\ Compressed(v) > Cap) -> Throws
        [] tries /\ PaysOff(v) -> Record("HC1G", "msgpack", v.content, Compressed(v), v.size)
        [] OTHER -> Record("HC1M", "msgpack", v.content, v.size, v.size)

Written(rt, v, options) == IF rt = "worker" THEN serializePortable(v, options) ELSE serialize(rt, v, options)

-----------------------------------------------------------------------------
(* Reading *)

CodecTags == {"HC1G", "HC1Z", "HC1L", "HC1S"}
Hit(content) == [outcome |-> "hit", content |-> content]
Miss == [outcome |-> "miss", content |-> "none"]
Thrown == [outcome |-> "throws", content |-> "none"]

CanRun(rt, tag) == tag = "HC1Z" => rt = "node22"
unwrapSentinel(content) == IF content = "sentinel" THEN "null" ELSE content

\* What isSafeMessagePack and isSafeJson refuse: nested deeper or longer than the limits, or
\* a text that MessagePack holds in bytes that are not UTF-8.
Refused(rec) == rec.content = "deep" \/ (rec.content = "lone" /\ rec.form = "msgpack")

\* A record without a tag is MessagePack if it is all of it, otherwise JSON.  JSON of one
\* digit is one byte, and that byte is a MessagePack number of its own.
Untagged(rec) == Hit(IF rec.form = "json" /\ rec.content = "digit" THEN "another number"
                     ELSE unwrapSentinel(rec.content))

\* mutant: a tag of the family that is not known is read as data.
DecodeUnknownAsData(rt, rec, limited) ==
  CASE rec.damaged \/ (rec.tag \in CodecTags /\ ~CanRun(rt, rec.tag)) -> Miss
    [] limited /\ Refused(rec) -> Miss
    [] rec.tag = "HC1J" -> Hit(rec.content)
    [] rec.tag \in {"none", "HC1X"} -> Untagged(rec)
    [] OTHER -> Hit(unwrapSentinel(rec.content))

\* What both readers of Node make of the tag; only the one with limits scans before it parses.
Decode(rt, rec, limited) ==
  CASE rec.damaged \/ rec.tag = "HC1X" \/ (rec.tag \in CodecTags /\ ~CanRun(rt, rec.tag)) -> Miss
    [] limited /\ Refused(rec) -> Miss
    [] rec.tag = "HC1J" -> Hit(rec.content)
    [] rec.tag = "none" -> Untagged(rec)
    [] OTHER -> Hit(unwrapSentinel(rec.content))

\* decodeCacheRecord, with its limits.
decodeCacheRecord(rt, rec, max) ==
  IF rec.size > max \/ rec.full > max THEN Miss ELSE Decode(rt, rec, TRUE)

\* deserialize with one argument: no limits, and null for what cannot be read.
deserialize(rt, rec) ==
  IF Decode(rt, rec, FALSE) = Miss THEN Hit("null") ELSE Decode(rt, rec, FALSE)

\* deserializePortable without limits.
deserializePortable(rec) ==
  CASE rec.tag \in {"HC1M", "HC1J", "HC1G"} ->
         IF rec.damaged \/ (rec.tag = "HC1G" /\ rec.full > Cap) THEN Thrown
         ELSE Hit(IF rec.tag = "HC1J" THEN rec.content ELSE unwrapSentinel(rec.content))
    [] rec.tag = "none" -> Thrown
    [] OTHER -> Hit("null")

\* decodePortableCacheRecord: what is not its own, is refused, or fails, is a miss.
decodePortableCacheRecord(rec, max) ==
  IF rec.tag \notin {"HC1M", "HC1J", "HC1G"} \/ rec.size > max \/ rec.full > max \/ Refused(rec)
     \/ deserializePortable(rec).outcome = "throws"
  THEN Miss ELSE deserializePortable(rec)

ReadBy(reader, rt, rec, max) ==
  CASE reader = "strict" -> IF rt = "worker" THEN decodePortableCacheRecord(rec, max)
                                             ELSE decodeCacheRecord(rt, rec, max)
    [] reader = "public" -> IF rt = "worker" THEN deserializePortable(rec) ELSE deserialize(rt, rec)

-----------------------------------------------------------------------------
(* decodeValidation.ts.  A byte is named for what it is at the head of a value:            *)
(* "i" and "s" small numbers ("s" also the type of a Set), "A0".."A2" and "M1" containers, *)
(* "S1" a text of one byte, "n" a number with one more byte, "E" an extension of one byte, *)
(* "R" reserved.                                                                          *)

Children(tag) == CASE tag = "A1" -> 1 [] tag \in {"A2", "M1"} -> 2 [] OTHER -> 0
Items(tag) == CASE tag \in {"A1", "M1"} -> 1 [] tag = "A2" -> 2 [] OTHER -> 0
Text == {"i", "s"}

\* mutant: a container may be as deep as its parent.
OpensDeeper(input, limits, st, items, children) ==
  IF items > limits.maxCollectionLength \/ children > Len(input) - st.position
     \/ Len(st.pending) > limits.maxDepth + 1
  THEN [st EXCEPT !.ok = FALSE]
  ELSE IF children > 0 THEN [st EXCEPT !.pending = Append(@, children)] ELSE st

\* The container of the code: refused when too long, too deep or longer than the input.
Opens(input, limits, st, items, children) ==
  IF items > limits.maxCollectionLength \/ children > Len(input) - st.position
     \/ Len(st.pending) > limits.maxDepth
  THEN [st EXCEPT !.ok = FALSE]
  ELSE IF children > 0 THEN [st EXCEPT !.pending = Append(@, children)] ELSE st

\* One turn of the loop: a finished container is left, or one value is read.
Turn(input, limits, st) ==
  LET top == Len(st.pending)
      next == [st EXCEPT !.pending[top] = @ - 1, !.total = @ + 1, !.position = @ + 1]
      left == Len(input) - next.position
      tag == input[next.position]
      reject == [st EXCEPT !.ok = FALSE]
  IN  IF ~st.ok \/ top = 0 THEN st
      ELSE IF st.pending[top] = 0 THEN [st EXCEPT !.pending = Front(@)]
      ELSE IF st.total + 1 > limits.maxTotalValues \/ st.position >= Len(input) THEN reject
      ELSE CASE tag \in {"i", "s"} -> next
             [] tag \in {"A0", "A1", "A2", "M1"} -> Opens(input, limits, next, Items(tag), Children(tag))
             [] tag = "S1" -> IF left >= 1 /\ input[next.position + 1] \in Text
                              THEN [next EXCEPT !.position = @ + 1] ELSE reject
             [] tag = "n" -> IF left >= 1 THEN [next EXCEPT !.position = @ + 1] ELSE reject
             [] tag = "E" -> IF left >= 2 /\ input[next.position + 1] = "s"
                             THEN Opens(input, limits, [next EXCEPT !.position = @ + 2], 1, 1) ELSE reject
             [] OTHER -> reject

\* The loop ends within a turn per byte and one per container.
isSafeMessagePack(input, limits) ==
  LET start == [position |-> 0, total |-> 0, pending |-> <<1>>, ok |-> TRUE]
      end == FoldLeft(LAMBDA st, i : Turn(input, limits, st), start, [i \in 1..2 * Len(input) + 2 |-> i])
  IN  end.ok /\ end.position = Len(input)

\* The text of a JSON document.
Rendered(d) ==
  LET Inner == FoldLeft(LAMBDA acc, x : acc \o (IF acc = <<>> THEN <<>> ELSE <<",">>)
                                            \o (IF d.kind = "object" THEN <<"\"", "x", "\"", ":">> ELSE <<>>) \o x,
                        <<>>, d.texts)
  IN  CASE d.kind = "number" -> <<"0">>
        [] d.kind = "text" -> <<"\"", "\\", "\"", "[", ",", "\"">>
        [] d.kind = "array" -> <<"[">> \o Inner \o <<"]">>
        [] d.kind = "object" -> <<"{">> \o Inner \o <<"}">>

\* The documents asked about, two levels deep, with their measures.
Larger(a, b) == IF a > b THEN a ELSE b
Leaves == {[kind |-> k, texts |-> <<>>, depth |-> 0, width |-> 0, count |-> 1] : k \in {"number", "text"}}
Over(D) ==
  {[kind |-> k, texts |-> [i \in DOMAIN s |-> Rendered(s[i])],
    depth |-> 1 + FoldLeft(LAMBDA a, d : Larger(a, d.depth), 0, s),
    width |-> FoldLeft(LAMBDA a, d : Larger(a, d.width), Len(s), s),
    count |-> 1 + FoldLeft(LAMBDA a, d : a + d.count + (IF k = "object" THEN 1 ELSE 0), 0, s)]
     : k \in {"array", "object"}, s \in SeqOf(D, 2)}
Documents == Leaves \union Over(Leaves \union Over(Leaves))

\* mutant: a quote ends a text, escaped or not.
ScanNoEscape(limits, st, c) ==
  IF st.quoted THEN [st EXCEPT !.quoted = c # "\""]
  ELSE IF c = "\"" THEN [st EXCEPT !.quoted = TRUE] ELSE st

\* One byte of isSafeJson.
Scan(limits, st, c) ==
  LET top == Len(st.stack)
      filled == IF top = 0 THEN st ELSE [st EXCEPT !.stack[top].content = TRUE]
      reject == [st EXCEPT !.ok = FALSE]
      current == st.stack[top]
      total == st.total + IF current.content THEN current.items * (IF current.close = "}" THEN 2 ELSE 1) ELSE 0
  IN  CASE ~st.ok -> st
        [] st.ok /\ st.skip -> [st EXCEPT !.skip = FALSE]
        [] st.ok /\ ~st.skip /\ st.quoted -> [st EXCEPT !.skip = c = "\\", !.quoted = c # "\""]
        [] OTHER ->
           CASE c = "\"" -> [filled EXCEPT !.quoted = TRUE]
             [] c \in {"{", "["} ->
                  IF top >= limits.maxDepth THEN reject
                  ELSE [filled EXCEPT !.stack = Append(@, [close |-> IF c = "{" THEN "}" ELSE "]",
                                                           items |-> 1, content |-> FALSE])]
             [] c \in {"}", "]"} ->
                  IF top = 0 \/ current.close # c \/ total > limits.maxTotalValues
                     \/ (current.content /\ current.items > limits.maxCollectionLength) THEN reject
                  ELSE [st EXCEPT !.stack = Front(@), !.total = total]
             [] c = "," /\ top > 0 ->
                  IF current.items + 1 > limits.maxCollectionLength THEN reject
                  ELSE [st EXCEPT !.stack[top].items = @ + 1]
             [] OTHER -> filled

isSafeJson(input, limits) ==
  LET start == [ok |-> TRUE, quoted |-> FALSE, skip |-> FALSE, stack |-> <<>>, total |-> 1]
      end == FoldLeft(LAMBDA st, c : Scan(limits, st, c), start, input)
  IN  end.ok /\ ~end.quoted /\ end.stack = <<>>

-----------------------------------------------------------------------------
(* eventCodec.ts, and the event that HybridCache makes and takes apart *)

Key == [type : {"string", "number"}, text : {"1", "a", "NaN"}]
\* A key of type number has the text of a number.
IsKey(k) == k.type = "number" => k.text # "a"

EventOf(k, typed) == [keys |-> <<k.text>>, keyTypes |-> IF typed THEN <<k.type>> ELSE <<>>]

isDeleteEvent(e) ==
  e.keyTypes = <<>> \/ \A i \in DOMAIN e.keys : e.keyTypes[i] = "string" \/ e.keys[i] = "1"

\* mutant: the key is whatever its text looks like.
AffectedByLooks(e) == IF e.keys[1] = "1" THEN {[type |-> "number", text |-> "1"]}
                      ELSE {[type |-> "string", text |-> e.keys[1]]}

\* applyRemoteDelete: the keys that a peer evicts for the event, both readings of an
\* event without types.
Affected(e) ==
  IF e.keyTypes # <<>> THEN {[type |-> e.keyTypes[1], text |-> e.keys[1]]}
  ELSE {[type |-> "string", text |-> e.keys[1]]}
         \union (IF e.keys[1] = "1" THEN {[type |-> "number", text |-> "1"]} ELSE {})

decodeInvalidationEvent(e) == IF isDeleteEvent(e) THEN Affected(e) ELSE {}

-----------------------------------------------------------------------------
NotAsked == [kind |-> "none"]
Init == question = NotAsked /\ answer = "none"
Ask(q, a) == question' = q /\ answer' = a

Values == [content : {"object", "date"}, size : Sizes, squeeze : Squeezes]
            \union [content : {"null", "undefined", "sentinel", "circular"}, size : {NullSize}, squeeze : {0}]
            \union [content : {"digit"}, size : {1}, squeeze : {0}]
            \union [content : {"deep", "lone"}, size : {2048}, squeeze : {60}]
Options == [format : {"msgpack", "json"}, compression : {"default", "none", "gzip", "zstd"}]

\* The store hands the record to a reader of any release and runtime; it may be damaged, or
\* come from a release that is newer or too old for tags.  What msgpackr makes of bytes that
\* are not UTF-8 when nothing scans them first is left open.
ReadRecord == \E rt, reads \in Runtime, v \in Values, o \in Options, reader \in {"strict", "public"},
                 fate \in {"intact", "damaged", "newer", "old"} :
  LET rec == Written(rt, v, o)
      seen == CASE fate = "damaged" -> [rec EXCEPT !.damaged = TRUE]
                [] fate = "newer" -> [rec EXCEPT !.tag = "HC1X"]
                [] fate = "old" -> Record("none", o.format, rec.content, rec.full, rec.full)
                [] OTHER -> rec
  IN  /\ rt = "worker" => o.format = "msgpack" /\ o.compression \in {"default", "none"}
      /\ rec # Throws
      /\ rec.form = "msgpack" /\ v.content = "lone" => reader = "strict"
      /\ fate = "old" => v.content # "sentinel" /\ o.compression = "none"
      /\ Ask([kind |-> "record", writer |-> rt, reads |-> reads, value |-> v, options |-> o,
              reader |-> reader, fate |-> fate, record |-> seen],
             ReadBy(reader, reads, seen, Cap))

Configure == \E tiers \in Tiers :
  Ask([kind |-> "tiers", tiers |-> tiers], validateTiers(tiers))

ValidatePacked == \E input \in PackedInputs, limits \in Limits :
  Ask([kind |-> "packed", input |-> input, limits |-> limits], isSafeMessagePack(input, limits))

ValidateJson == \E d \in Documents, limits \in Limits :
  Ask([kind |-> "json", document |-> d, limits |-> limits], isSafeJson(Rendered(d), limits))

Invalidate == \E k \in Key, typed \in BOOLEAN :
  /\ IsKey(k)
  /\ Ask([kind |-> "event", key |-> k, typed |-> typed], decodeInvalidationEvent(EventOf(k, typed)))

Next == question = NotAsked /\ (ReadRecord \/ Configure \/ ValidatePacked \/ ValidateJson \/ Invalidate)

-----------------------------------------------------------------------------
(* Properties *)

\* What the application gets back for a value it stored.
Image(v, o) == CASE v.content \in {"null", "undefined"} -> "null"
                 [] o.format = "json" -> JsonImage(v.content)
                 [] OTHER -> v.content

\* An untagged JSON record of one digit, which a reader of Node takes for another number.
OneDigit == question.value.content = "digit" /\ question.fate = "old" /\ question.options.format = "json"

\* Whichever release and runtime wrote the record and whichever reads it, a hit is the
\* value that was stored, null included and the text that stands for null too; a record is
\* only missed when it is damaged, from a newer release, too large, refused by the scans of
\* the strict readers, or compressed with something the reader cannot run; and no record at
\* all is taken for another value.  Excluded is OneDigit.
ReadsWhatWasWritten ==
  question.kind = "record" /\ ~OneDigit =>
    LET unreadable == \/ question.fate \in {"damaged", "newer"}
                      \/ question.record.full > Cap
                      \/ question.reader = "strict" /\ Refused(question.record)
                      \/ question.record.tag = "HC1Z" /\ question.reads # "node22"
                      \/ question.record.tag \in {"HC1L", "HC1Z", "HC1S", "none"} /\ question.reads = "worker"
    IN  \/ answer = Hit(Image(question.value, question.options))
        \/ /\ unreadable
           /\ answer \in {Miss, Thrown} \/ (question.reader = "public" /\ answer = Hit("null"))

\* Node with the gzip or no compression and Workers read each other's records, up to the
\* limits both have.
RuntimesShare ==
  question.kind = "record" /\ question.fate = "intact" /\ question.record.full <= Cap
    /\ ~Refused(question.record)
    /\ (question.writer = "worker" \/ question.options.compression \in {"none", "gzip"})
    => answer = Hit(Image(question.value, question.options))

\* With a tier list that was accepted, every size gets the tier with the smallest bound
\* above it, so that the order of the list cannot hide a tier (validateTiers, selectCodec).
TierOfItsSize ==
  question.kind = "tiers" /\ answer =>
    \A n \in 0..30 :
      LET above == {i \in DOMAIN question.tiers :
                      question.tiers[i].maxBytes = Omitted \/ question.tiers[i].maxBytes > n}
          best == {i \in above : \A j \in above : question.tiers[j].maxBytes # Omitted =>
                     question.tiers[i].maxBytes # Omitted /\ question.tiers[i].maxBytes <= question.tiers[j].maxBytes}
      IN  IF above = {} THEN selectCodec("node22", question.tiers, n) = "none"
          ELSE \E i \in best : selectCodec("node22", question.tiers, n) = question.tiers[i].codec

\* The grammar: after n values from position p at a depth, where they end and how many
\* values they hold, or Len + 1 when there are no such values.
Parse(input, limits) ==
  LET fail == [end |-> Len(input) + 1, count |-> 0]
      v[q \in (0..Len(input)) \X (1..Len(input) + 2) \X (0..2)] ==
        LET p == q[1]  depth == q[2]  n == q[3]
            tag == input[p + 1]
            body == CASE tag \in {"S1", "n"} -> 2 [] tag = "E" -> 3 [] OTHER -> 1
            nested == tag \in {"A0", "A1", "A2", "M1", "E"}
            fits == /\ tag # "R" /\ p + body <= Len(input)
                    /\ tag = "S1" => input[p + 2] \in Text
                    /\ tag = "E" => input[p + 2] = "s"
                    /\ nested => /\ depth <= limits.maxDepth
                                 /\ (IF tag = "E" THEN 1 ELSE Items(tag)) <= limits.maxCollectionLength
            inner == IF nested THEN v[<<p + body, depth + 1, IF tag = "E" THEN 1 ELSE Children(tag)>>]
                     ELSE [end |-> p + body, count |-> 0]
            rest == v[<<inner.end, depth, n - 1>>]
        IN  IF n = 0 THEN [end |-> p, count |-> 0]
            ELSE IF p >= Len(input) THEN fail
            ELSE IF ~fits THEN fail
            ELSE IF inner.end > Len(input) THEN fail
            ELSE IF rest.end > Len(input) THEN fail
            ELSE [end |-> rest.end, count |-> 1 + inner.count + rest.count]
  IN  v[<<0, 1, 1>>]

\* The validator's stack of counters accepts exactly the inputs that are one value within
\* the limits on depth, length and number of values, before anything is allocated.
PackedExact ==
  question.kind = "packed" =>
    LET p == Parse(question.input, question.limits)
    IN  answer = (p.end = Len(question.input) /\ p.count <= question.limits.maxTotalValues)

\* The scanner of JSON accepts a document exactly when it is within the limits, whatever its
\* texts contain.
JsonExact ==
  question.kind = "json" =>
    answer = (/\ question.document.depth <= question.limits.maxDepth
              /\ question.document.width <= question.limits.maxCollectionLength
              /\ question.document.count <= question.limits.maxTotalValues \/ question.document.depth = 0)

\* A peer evicts the key that was invalidated and, when the event says its type, no other.
\* (A number that is not finite is refused by the decoder and invalidates nothing.)
EventNamesKey ==
  question.kind = "event" /\ question.key.text # "NaN" =>
    question.key \in answer /\ (question.typed => answer = {question.key})
=============================================================================
