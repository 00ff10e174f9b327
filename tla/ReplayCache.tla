---------------------------- MODULE ReplayCache ----------------------------
(***************************************************************************)
(* The replay caches of the three effect families.  io_cache in            *)
(* core/effects/mquickjs_effects.c, g_db_cache in core/db/mquickjs_db.c    *)
(* and g_http_cache in core/http/mquickjs_http.c are the same structure:   *)
(* an array of 1024 entries that only grows, searched linearly from the    *)
(* front.  A cache is a sequence of records [key |-> .., value |-> ..].    *)
(***************************************************************************)
EXTENDS Naturals, Sequences

CONSTANTS
    ShortSeed,    \* a seed of a length other than 32 bytes
    CacheSize     \* entries of each cache (1024)

ASSUME ReplayCacheAssumption == CacheSize \in Nat

\* Some entry of the cache has this key.
Cached(cache, key) == \E i \in DOMAIN cache : cache[i].key = key

\* The scan of the array stops at the first entry with the key.
FirstHit(cache, key) ==
    CHOOSE i \in DOMAIN cache :
        /\ cache[i].key = key
        /\ \A j \in 1 .. (i - 1) : cache[j].key # key

Lookup(cache, key) == cache[FirstHit(cache, key)].value

\* Faults of Store: one entry too many; the eviction its comment announces.
Store_OffByOne(cache, size, key, value) ==
    IF Len(cache) <= size
    THEN Append(cache, [key |-> key, value |-> value])
    ELSE cache

Store_EvictsOldest(cache, size, key, value) ==
    IF Len(cache) < size
    THEN Append(cache, [key |-> key, value |-> value])
    ELSE [cache EXCEPT ![1] = [key |-> key, value |-> value]]

\* A full array drops the new entry; nothing is ever evicted.
Store(cache, size, key, value) ==
    IF Len(cache) < size
    THEN Append(cache, [key |-> key, value |-> value])
    ELSE cache

\* What the cache promises: the partial function from keys to answers.
MemoOf(cache) ==
    [k \in {cache[i].key : i \in DOMAIN cache} |-> Lookup(cache, k)]

=============================================================================
