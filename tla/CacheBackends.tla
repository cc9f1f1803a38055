--------------------------- MODULE CacheBackends ---------------------------
(***************************************************************************)
(* The cache protocol of core/cache_backend.py: InMemoryCacheBackend next  *)
(* to RedisCacheBackend, given the same calls.  The one keeps text and     *)
(* bytes in two dictionaries and forgets what has expired when it meets    *)
(* it, or now and then; the other hands every call to Redis, which is      *)
(* modelled by what the calls expect of it: one value per key, gone when   *)
(* its time is over.                                                       *)
(*                                                                         *)
(* Every method of the first holds its lock and does not suspend, every    *)
(* method of the second is one command, so a call is one action.           *)
(***************************************************************************)
EXTENDS Integers

CONSTANTS Keys,
          Numbers,   \* texts that are integers
          Word,      \* a text that is not
          Raw,       \* bytes
          CleanupInterval, \* cleanup_interval_seconds
          Lives,     \* times to live in use, Missing for no end
          MaxMoment,       \* bounds the clock
          Error, Missing

VARIABLES moment,
          text, binary,  \* _data and _binary_data: key -> [val, until], or Missing
          cleaned,       \* _last_cleanup
          redis,         \* key -> [val, until], or Missing
          told,          \* what the last call answered: [memory, redis, apart]
          mixed          \* keys of which a counter was made while they held bytes

cacheVars == <<moment, text, binary, cleaned, redis, told, mixed>>

Nothing == [k \in Keys |-> Missing]

CacheInit ==
  /\ moment = 0 /\ cleaned = 0
  /\ text = Nothing /\ binary = Nothing /\ redis = Nothing
  /\ told = [memory |-> Missing, redis |-> Missing, apart |-> TRUE] /\ mixed = {}

Alive(e) == e # Missing /\ (e.until = Missing \/ moment <= e.until)
Value(e) == IF Alive(e) THEN e.val ELSE Missing
Until(life) == IF life = Missing THEN Missing ELSE moment + life

Passes == moment < MaxMoment /\ moment' = moment + 1 /\ UNCHANGED <<text, binary, cleaned, redis, told, mixed>>

\* _maybe_cleanup, first in every method.
SweepDue == moment - cleaned >= CleanupInterval
Swept(d) == IF SweepDue THEN [k \in Keys |-> IF Alive(d[k]) THEN d[k] ELSE Missing] ELSE d
Sweep == cleaned' = (IF SweepDue THEN moment ELSE cleaned) /\ UNCHANGED moment

\* What is found expired is deleted on the spot.
Met(d, k) == IF Alive(d[k]) THEN d ELSE [d EXCEPT ![k] = Missing]
Put(d, k, e) == [d EXCEPT ![k] = e]

\* Slip: the other dictionary is not told.
NotEvicted(d, k) == d
Evicted(d, k) == Put(d, k, Missing)

\* What Redis does with the same call.
RedisGet(k) == Value(redis[k])
RedisGetBytes(k) == Value(redis[k])
RedisExists(k) == Alive(redis[k])
RedisSet(k, e) == redis' = Put(redis, k, e)
RedisSetBytes(k, e) == redis' = Put(redis, k, e)
RedisDelete(k) == redis' = Put(redis, k, Missing)

Answers(k, m, r) == told' = [memory |-> m, redis |-> r, apart |-> k \notin mixed']
-----------------------------------------------------------------------------
Get(k) ==
  /\ Sweep
  /\ text' = Met(Swept(text), k) /\ binary' = Swept(binary)
  /\ UNCHANGED <<redis, mixed>>
  /\ Answers(k, Value(text[k]), RedisGet(k))

GetBytes(k) ==
  /\ Sweep
  /\ binary' = Met(Swept(binary), k) /\ text' = Swept(text)
  /\ UNCHANGED <<redis, mixed>>
  /\ Answers(k, Value(binary[k]), RedisGetBytes(k))

\* A time to live that is not positive deletes the key.  SET drops an earlier end.
Ends(life) == life # Missing /\ life <= 0

Set(k, v, life) ==
  LET e == IF Ends(life) THEN Missing ELSE [val |-> v, until |-> Until(life)] IN
  /\ Sweep
  /\ text' = Put(Swept(text), k, e) /\ binary' = Evicted(Swept(binary), k)
  /\ RedisSet(k, e)
  /\ mixed' = mixed \ {k} /\ Answers(k, TRUE, TRUE)

SetBytes(k, life) ==
  LET e == IF Ends(life) THEN Missing ELSE [val |-> Raw, until |-> Until(life)] IN
  /\ Sweep
  /\ binary' = Put(Swept(binary), k, e) /\ text' = Evicted(Swept(text), k)
  /\ RedisSetBytes(k, e)
  /\ mixed' = mixed \ {k} /\ Answers(k, TRUE, TRUE)

Delete(k) ==
  /\ Sweep
  /\ text' = Evicted(Swept(text), k) /\ binary' = Evicted(Swept(binary), k)
  /\ RedisDelete(k)
  /\ UNCHANGED mixed /\ Answers(k, Alive(text[k]) \/ Alive(binary[k]), RedisExists(k))

\* The bytes are looked at only when the text is not there.
Exists(k) ==
  /\ Sweep
  /\ text' = Met(Swept(text), k)
  /\ binary' = IF Alive(text[k]) THEN Swept(binary) ELSE Met(Swept(binary), k)
  /\ UNCHANGED <<redis, mixed>>
  /\ Answers(k, Alive(text[k]) \/ Alive(binary[k]), RedisExists(k))

Prolonged(d, k, life) == IF Alive(d[k]) THEN [d EXCEPT ![k].until = Until(life)] ELSE Evicted(d, k)
RedisExpire(k, life) == redis' = Prolonged(redis, k, life)

Expire(k, life) ==
  /\ life # Missing /\ life > 0
  /\ Sweep
  /\ text' = Prolonged(Swept(text), k, life)
  /\ binary' = IF Alive(text[k]) THEN Swept(binary) ELSE Prolonged(Swept(binary), k, life)
  /\ RedisExpire(k, life)
  /\ UNCHANGED mixed /\ Answers(k, Alive(text[k]) \/ Alive(binary[k]), Alive(redis[k]))

\* incr and decr: an absent key counts from 0 and has no end, another keeps its
\* own; what is not an integer raises.
Counted(e, n) ==
  IF Alive(e) THEN [e EXCEPT !.val = @ + n] ELSE [val |-> n, until |-> Missing]
Numeric(e) == Alive(e) => e.val \in Int
RedisAnswer(k, n) == IF Numeric(redis[k]) THEN Counted(redis[k], n).val ELSE Error
RedisCount(k, n) ==
  redis' = IF Numeric(redis[k]) THEN Put(redis, k, Counted(redis[k], n)) ELSE redis

Moved(k, n) ==
  LET ok == Numeric(text[k])
      next == Counted(text[k], n)
  IN
  /\ ok => next.val \in Numbers
  /\ RedisAnswer(k, n) \in Numbers \cup {Error}
  /\ Sweep
  /\ text' = IF ok THEN Put(Swept(text), k, next) ELSE Swept(text)
  /\ binary' = Swept(binary)
  /\ RedisCount(k, n)
  /\ mixed' = IF Alive(binary[k]) THEN mixed \cup {k} ELSE mixed
  /\ Answers(k, IF ok THEN next.val ELSE Error, RedisAnswer(k, n))

Incr(k) == Moved(k, 1)
Decr(k) == Moved(k, -1)

\* The callers keep to keys of one kind: each reads a key as it was last written.
Apart(k, kind) == Alive(redis[k]) => (redis[k].val = Raw) = (kind = "bytes")

CacheNext ==
  \/ Passes
  \/ \E k \in Keys :
       \/ Apart(k, "text") /\ Get(k)
       \/ Apart(k, "bytes") /\ GetBytes(k)
       \/ Exists(k)
       \/ Delete(k)
       \/ Incr(k) \/ Decr(k)
       \/ \E life \in Lives :
            \/ \E v \in Numbers \cup {Word} : Set(k, v, life)
            \/ SetBytes(k, life)
            \/ Expire(k, life)

CacheSpec == CacheInit /\ [][CacheNext]_cacheVars
-----------------------------------------------------------------------------
\* The two backends answer every call alike, whatever has expired, been swept or
\* been written in the other kind before; save where a counter was made of a key
\* that held bytes.
SameAnswers == told.apart => told.memory = told.redis

\* CacheBackend.get_bytes: a key can hold either a string value or a binary value,
\* not both; writing one type evicts the other.
OneKind == \A k \in Keys : ~(Alive(text[k]) /\ Alive(binary[k]))
=============================================================================
