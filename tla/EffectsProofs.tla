--------------------------- MODULE EffectsProofs ---------------------------
(* Theorems about the replay caches and the effect registry, for every set *)
(* of names, seeds and keys and every capacity of the tables.              *)
EXTENDS Effects, TLAPS

(***************************************************************************)
(* What Store and Lookup of ReplayCache guarantee, for every cache.        *)
(***************************************************************************)

\* The cache's entries have pairwise different keys.
DistinctKeys(entries) ==
    \A i, j \in DOMAIN entries : entries[i].key = entries[j].key => i = j

Entry(K, V) == [key : K, value : V]

\* What storing the absent key k with value v makes of a cache of entries S:
\* the type, the bound and the distinctness of the keys are kept, every old
\* entry stays where it was, and the new one is appended if there is room.
StoredIn(entries, new, S, size, k, v) ==
    /\ new \in Seq(S)
    /\ Len(new) <= size
    /\ DistinctKeys(new)
    /\ DOMAIN entries \subseteq DOMAIN new
    /\ \A i \in DOMAIN entries : new[i] = entries[i]
    /\ Len(new) < size => Cached(new, k)
    /\ Len(entries) = size => new = entries
    /\ Len(entries) # size => new = Append(entries, [key |-> k, value |-> v])

\* Store does exactly that.
LEMMA StoreAbsent ==
  ASSUME NEW K, NEW V, NEW size \in Nat,
         NEW entries \in Seq(Entry(K, V)), Len(entries) <= size, DistinctKeys(entries),
         NEW k \in K, NEW v \in V, ~Cached(entries, k)
  PROVE  StoredIn(entries, Store(entries, size, k, v), Entry(K, V), size, k, v)
<1> DEFINE e == [key |-> k, value |-> v]
           new == Store(entries, size, k, v)
<1>0. e \in Entry(K, V) /\ Len(entries) \in Nat
  BY DEF Entry
<1>1. CASE Len(entries) < size
  <2>1. /\ new = Append(entries, e)
        /\ new \in Seq(Entry(K, V))
        /\ Len(new) = Len(entries) + 1
        /\ DOMAIN new = 1 .. Len(new) /\ DOMAIN entries = 1 .. Len(entries)
        /\ \A i \in DOMAIN entries : new[i] = entries[i]
        /\ new[Len(new)] = e
    BY <1>0, <1>1 DEF Store
  <2>2. DistinctKeys(new)
    BY <2>1 DEF DistinctKeys, Cached
  <2>3. Cached(new, k)
    BY <2>1 DEF Cached
  <2>4. Len(new) <= size
    BY <1>0, <1>1, <2>1
  <2>5. DOMAIN entries \subseteq DOMAIN new
    BY <1>0, <2>1
  <2>6. Len(entries) # size
    BY <1>0, <1>1
  <2>7. QED
    BY <2>1, <2>2, <2>3, <2>4, <2>5, <2>6, Zenon DEF StoredIn
<1>2. CASE ~(Len(entries) < size)
  BY <1>0, <1>2 DEF Store, StoredIn
<1>3. QED
  BY <1>1, <1>2

\* In a cache with distinct keys the scan finds the one entry with the key.
LEMMA FirstHitUnique ==
  ASSUME NEW S, NEW entries \in Seq(S), DistinctKeys(entries),
         NEW i \in DOMAIN entries
  PROVE  /\ FirstHit(entries, entries[i].key) = i
         /\ Lookup(entries, entries[i].key) = entries[i].value
<1> DEFINE P(x) == /\ entries[x].key = entries[i].key
                   /\ \A j \in 1 .. (x - 1) : entries[j].key # entries[i].key
<1>1. P(i)
  BY DEF DistinctKeys
<1>2. \A x \in DOMAIN entries : P(x) => x = i
  BY DEF DistinctKeys
<1>3. FirstHit(entries, entries[i].key) = i
  BY <1>1, <1>2 DEF FirstHit
<1>4. QED
  BY <1>3 DEF Lookup

\* The memo of a cache with distinct keys has one value per entry.
LEMMA MemoOfEntries ==
  ASSUME NEW S, NEW entries \in Seq(S), DistinctKeys(entries)
  PROVE  /\ DOMAIN MemoOf(entries) = {entries[i].key : i \in DOMAIN entries}
         /\ \A i \in DOMAIN entries : MemoOf(entries)[entries[i].key] = entries[i].value
<1>1. DOMAIN entries = 1 .. Len(entries) /\ Len(entries) \in Nat
  OBVIOUS
<1>2. ASSUME NEW i \in DOMAIN entries
      PROVE  Lookup(entries, entries[i].key) = entries[i].value
  BY <1>1, FirstHitUnique
<1>3. QED
  BY <1>2 DEF MemoOf

\* The memo of new is the memo of cache with the absent key k mapped to v.
MemoExtends(entries, new, k, v) ==
    /\ k \notin DOMAIN MemoOf(entries)
    /\ MemoOf(new) = [x \in DOMAIN MemoOf(entries) \cup {k} |->
                        IF x = k THEN v ELSE MemoOf(entries)[x]]

\* Appending an entry with an absent key extends the memo by one value.
LEMMA MemoOfAppend ==
  ASSUME NEW K, NEW V, NEW entries \in Seq(Entry(K, V)), DistinctKeys(entries),
         NEW k \in K, NEW v \in V, ~Cached(entries, k)
  PROVE  MemoExtends(entries, Append(entries, [key |-> k, value |-> v]), k, v)
<1> DEFINE e == [key |-> k, value |-> v]
           new == Append(entries, e)
<1>1. e \in Entry(K, V) /\ new \in Seq(Entry(K, V))
  BY DEF Entry
<1>2. /\ Len(new) = Len(entries) + 1 /\ Len(entries) \in Nat
      /\ DOMAIN new = 1 .. Len(new) /\ DOMAIN entries = 1 .. Len(entries)
      /\ \A i \in DOMAIN entries : new[i] = entries[i]
      /\ new[Len(new)] = e
  BY <1>1
<1>3. DistinctKeys(new)
  BY <1>2 DEF DistinctKeys, Cached
<1>4. /\ DOMAIN MemoOf(entries) = {entries[i].key : i \in DOMAIN entries}
      /\ \A i \in DOMAIN entries : MemoOf(entries)[entries[i].key] = entries[i].value
  BY MemoOfEntries
<1>5. /\ DOMAIN MemoOf(new) = {new[i].key : i \in DOMAIN new}
      /\ \A i \in DOMAIN new : MemoOf(new)[new[i].key] = new[i].value
  BY <1>1, <1>3, MemoOfEntries
<1>6. k \notin DOMAIN MemoOf(entries)
  BY <1>4 DEF Cached
<1>7. DOMAIN MemoOf(new) = DOMAIN MemoOf(entries) \cup {k}
  <2>1. {new[i].key : i \in DOMAIN new} = {entries[i].key : i \in DOMAIN entries} \cup {k}
    <3>1. new[Len(new)].key = k /\ Len(new) \in DOMAIN new
      BY <1>2
    <3>2. \A i \in DOMAIN new : i \in DOMAIN entries \/ i = Len(new)
      BY <1>2
    <3>3. \A i \in DOMAIN entries : i \in DOMAIN new /\ new[i] = entries[i]
      BY <1>2
    <3>4. QED
      BY <3>1, <3>2, <3>3
  <2>2. QED
    BY <1>4, <1>5, <2>1
<1>8. ASSUME NEW x \in DOMAIN MemoOf(new)
      PROVE  MemoOf(new)[x] = IF x = k THEN v ELSE MemoOf(entries)[x]
  <2>1. PICK i \in DOMAIN new : x = new[i].key
    BY <1>5
  <2>2. MemoOf(new)[x] = new[i].value
    BY <1>5, <2>1
  <2>3. CASE i = Len(new)
    BY <1>2, <2>1, <2>2, <2>3
  <2>4. CASE i \in DOMAIN entries
    <3>1. x # k
      BY <1>2, <2>1, <2>4 DEF Cached
    <3>2. QED
      BY <1>2, <1>4, <2>1, <2>2, <2>4, <3>1
  <2>5. QED
    BY <1>2, <2>3, <2>4
<1>9. MemoOf(new) = [x \in DOMAIN MemoOf(new) |-> MemoOf(new)[x]]
  BY DEF MemoOf
<1>10. QED
  BY <1>6, <1>7, <1>8, <1>9 DEF MemoExtends

\* The memo of an empty cache is empty.
LEMMA MemoOfNothing == MemoOf(<<>>) = [k \in {} |-> k]
<1>1. DOMAIN MemoOf(<<>>) = {}
  BY DEF MemoOf
<1>2. QED
  BY <1>1 DEF MemoOf

\* So storing under a new key leaves the memo alone or extends it.
LEMMA StoredExtends ==
  ASSUME NEW K, NEW V, NEW entries \in Seq(Entry(K, V)), DistinctKeys(entries),
         NEW new, NEW size, NEW k \in K, NEW v \in V, ~Cached(entries, k),
         StoredIn(entries, new, Entry(K, V), size, k, v)
  PROVE  new = entries \/ MemoExtends(entries, new, k, v)
<1>1. CASE Len(entries) = size
  BY <1>1 DEF StoredIn
<1>2. CASE Len(entries) # size
  <2>1. new = Append(entries, [key |-> k, value |-> v])
    BY <1>2 DEF StoredIn
  <2>2. QED
    BY <2>1, MemoOfAppend
<1>3. QED
  BY <1>1, <1>2

(***************************************************************************)
(* The registry.                                                           *)
(***************************************************************************)

\* The I/Os executed so far are found again, unless the cache is full.
ExecutedAreCached ==
    \A k \in performed : Len(cache) = CacheSize \/ Cached(cache, k)

IInv == TypeOK /\ NoDuplicates /\ ExecutedAreCached /\ ExecutedOnce

LEMMA InitIInv == Init => IInv
<1> SUFFICES ASSUME Init PROVE IInv
  OBVIOUS
<1>1. TypeOK
  BY EffectsAssumption, ReplayCacheAssumption DEF Init, TypeOK, SeededKey, Idle
<1>2. QED
  BY <1>1 DEF Init, IInv, NoDuplicates, ExecutedAreCached, ExecutedOnce, Cached

\* What a step that touches neither the cache nor the histories preserves.
LEMMA RegistryStep ==
  ASSUME IInv, UNCHANGED <<cache, performed, again>>,
         effects' \in Seq([name : Names, handler : Handlers]),
         Len(effects') <= MaxEffects,
         \A i, j \in DOMAIN effects' : effects'[i].name = effects'[j].name => i = j,
         declared' \subseteq Names, seed' \in Seeds \cup {NoSeed},
         stale' \subseteq DOMAIN cache
  PROVE  IInv'
BY DEF IInv, TypeOK, NoDuplicates, ExecutedAreCached, ExecutedOnce, Cached

LEMMA RegisterStep ==
  ASSUME IInv, NEW n \in Names, NEW h \in Handlers, JS_RegisterEffect(n, h)
  PROVE  IInv'
<1> USE EffectsAssumption, ReplayCacheAssumption
<1>1. CASE Len(effects) >= MaxEffects \/ Registered(n)
  BY <1>1, RegistryStep DEF JS_RegisterEffect, IInv, TypeOK, NoDuplicates
<1>2. CASE ~(Len(effects) >= MaxEffects \/ Registered(n))
  <2> DEFINE e == [name |-> n, handler |-> h]
  <2>1. /\ effects' = Append(effects, e)
        /\ UNCHANGED <<declared, seed, cache, stale, performed, again>>
    BY <1>2 DEF JS_RegisterEffect
  <2>2. effects \in Seq([name : Names, handler : Handlers]) /\ e \in [name : Names, handler : Handlers]
    BY DEF IInv, TypeOK
  <2>3. /\ effects' \in Seq([name : Names, handler : Handlers])
        /\ Len(effects') = Len(effects) + 1 /\ Len(effects) \in Nat
        /\ DOMAIN effects' = 1 .. (Len(effects) + 1) /\ DOMAIN effects = 1 .. Len(effects)
        /\ \A i \in DOMAIN effects : effects'[i] = effects[i]
        /\ effects'[Len(effects) + 1] = e
    BY <2>1, <2>2
  <2>4. \A i \in DOMAIN effects : effects[i].name # n
    BY <1>2 DEF Registered
  <2>5. \A i, j \in DOMAIN effects' : effects'[i].name = effects'[j].name => i = j
    <3> HIDE DEF e
    <3>1. \A i, j \in DOMAIN effects : effects[i].name = effects[j].name => i = j
      BY DEF IInv, NoDuplicates
    <3>2. e.name = n
      BY DEF e
    <3>3. QED
      BY <2>3, <2>4, <3>1, <3>2
  <2>6. Len(effects') <= MaxEffects
    BY <1>2, <2>3
  <2>7. QED
    BY <2>1, <2>3, <2>5, <2>6, RegistryStep DEF IInv, TypeOK
<1>3. QED
  BY <1>1, <1>2

LEMMA ExecutedStep ==
  ASSUME IInv, NEW p \in Known \cup Unknown, NEW c \in Conts, AwaitExecuted(p, c)
  PROVE  IInv'
<1> USE EffectsAssumption, ReplayCacheAssumption
<1> DEFINE k == KeyOf(p, c)
<1>1. PICK v \in {p, Exception} : store_io_cache(k, v)
  BY DEF AwaitExecuted
<1>2. /\ performed' = performed \cup ({k} \cap SeededKey)
      /\ again' = again \cup ({k} \cap performed)
      /\ p \in Known /\ ~check_io_cache(k)
      /\ UNCHANGED <<effects, declared, seed, stale>>
  BY DEF AwaitExecuted
<1>3. k \in Key /\ v \in Value /\ (k \in SeededKey <=> seed # NoSeed)
  BY <1>2 DEF IInv, TypeOK, KeyOf, Key, SeededKey, Value
<1>4. /\ cache \in Seq(Entry(Key, Value)) /\ Len(cache) <= CacheSize
      /\ CacheSize \in Nat /\ DistinctKeys(cache)
  BY DEF IInv, TypeOK, NoDuplicates, DistinctKeys, Entry
<1>5. CASE seed = NoSeed
  <2>1. cache' = cache
    BY <1>1, <1>5 DEF store_io_cache
  <2>2. k \notin SeededKey /\ k \notin performed
    BY <1>3, <1>5 DEF IInv, TypeOK
  <2>3. performed' = performed /\ again' = again
    BY <1>2, <2>2
  <2>4. QED
    BY <1>2, <2>1, <2>3, RegistryStep DEF IInv, TypeOK, NoDuplicates
<1>6. CASE seed # NoSeed
  <2>1. cache' = Store(cache, CacheSize, k, v)
    BY <1>1, <1>6 DEF store_io_cache
  <2>2. ~Cached(cache, k)
    BY <1>2, <1>6 DEF check_io_cache
  <2>3. /\ cache' \in Seq(Entry(Key, Value))
        /\ Len(cache') <= CacheSize
        /\ DistinctKeys(cache')
        /\ DOMAIN cache \subseteq DOMAIN cache'
        /\ \A i \in DOMAIN cache : cache'[i] = cache[i]
        /\ Len(cache') < CacheSize => Cached(cache', k)
        /\ Len(cache) = CacheSize => cache' = cache
    <3>1. StoredIn(cache, Store(cache, CacheSize, k, v), Entry(Key, Value), CacheSize, k, v)
      BY <1>3, <1>4, <2>2, StoreAbsent
    <3>2. StoredIn(cache, cache', Entry(Key, Value), CacheSize, k, v)
      BY <2>1, <3>1
    <3>3. QED
      BY <3>2 DEF StoredIn
  <2>4. TypeOK'
    BY <1>2, <1>3, <2>3 DEF IInv, TypeOK, Entry
  <2>5. NoDuplicates'
    BY <1>2, <2>3 DEF IInv, NoDuplicates, DistinctKeys
  <2>6. ExecutedAreCached'
    <3>1. Len(cache') \in Nat
      BY <2>3
    <3>2. Len(cache') = CacheSize \/ Len(cache') < CacheSize
      BY <1>4, <2>3, <3>1
    <3>3. \A x \in performed : Len(cache') = CacheSize \/ Cached(cache', x)
      BY <2>3 DEF IInv, ExecutedAreCached, Cached
    <3>4. QED
      BY <1>2, <2>3, <3>2, <3>3 DEF ExecutedAreCached
  <2>7. ExecutedOnce'
    <3>1. k \in performed => Len(cache) = CacheSize
      BY <2>2 DEF IInv, ExecutedAreCached
    <3>2. again # {} => Len(cache) = CacheSize
      BY DEF IInv, ExecutedOnce
    <3>3. again' # {} => again # {} \/ k \in performed
      BY <1>2
    <3>4. QED
      BY <2>3, <3>1, <3>2, <3>3 DEF ExecutedOnce
  <2>8. QED
    BY <2>4, <2>5, <2>6, <2>7 DEF IInv
<1>7. QED
  BY <1>5, <1>6

LEMMA NextIInv == IInv /\ [Next]_vars => IInv'
<1> SUFFICES ASSUME IInv, [Next]_vars PROVE IInv'
  OBVIOUS
<1> USE EffectsAssumption, ReplayCacheAssumption
<1>1. ASSUME NEW n \in Names, NEW h \in Handlers, JS_RegisterEffect(n, h)
      PROVE  IInv'
  BY <1>1, RegisterStep
<1>2. ASSUME NEW list \in Lists, JS_SetDeclaredEffects(list)
      PROVE  IInv'
  <2>1. {list[i] : i \in DOMAIN list} \subseteq Names
    BY DEF Lists
  <2>2. declared' \subseteq Names
    BY <1>2, <2>1 DEF JS_SetDeclaredEffects, IInv, TypeOK
  <2>3. QED
    BY <1>2, <2>2, RegistryStep DEF JS_SetDeclaredEffects, IInv, TypeOK, NoDuplicates
<1>3. ASSUME NEW s \in Seeds \cup {ShortSeed}, JS_SetExecutionSeed(s)
      PROVE  IInv'
  <2>1. seed' \in Seeds \cup {NoSeed}
    BY <1>3 DEF JS_SetExecutionSeed, IInv, TypeOK
  <2>2. QED
    BY <1>3, <2>1, RegistryStep DEF JS_SetExecutionSeed, IInv, TypeOK, NoDuplicates
<1>4. ASSUME NEW n \in Names, JS_CallEffect(n)
      PROVE  IInv'
  BY <1>4, RegistryStep DEF JS_CallEffect, IInv, TypeOK, NoDuplicates
<1>5. ASSUME NEW p \in Known \cup Unknown, NEW c \in Conts, JS_AsyncAwait(p, c)
      PROVE  IInv'
  <2>1. CASE AwaitRefused(p, c)
    BY <2>1, RegistryStep DEF AwaitRefused, IInv, TypeOK, NoDuplicates
  <2>2. CASE AwaitReplayed(p, c)
    BY <2>2, RegistryStep DEF AwaitReplayed, IInv, TypeOK, NoDuplicates
  <2>3. CASE AwaitExecuted(p, c)
    BY <2>3, ExecutedStep
  <2>4. QED
    BY <1>5, <2>1, <2>2, <2>3 DEF JS_AsyncAwait
<1>6. CASE JS_GC
  <2>1. stale' \subseteq DOMAIN cache
    BY <1>6 DEF JS_GC, IInv, TypeOK
  <2>2. QED
    BY <1>6, <2>1, RegistryStep DEF JS_GC, IInv, TypeOK, NoDuplicates
<1>7. CASE cleanup_effects
  BY <1>7 DEF cleanup_effects, IInv, TypeOK, NoDuplicates, ExecutedAreCached, ExecutedOnce,
              SeededKey
<1>8. CASE UNCHANGED vars
  BY <1>8, RegistryStep DEF vars, IInv, TypeOK, NoDuplicates
<1>9. QED
  BY <1>1, <1>2, <1>3, <1>4, <1>5, <1>6, <1>7, <1>8 DEF Next

\* The strengthened invariant holds in every reachable state.
THEOREM EffectsInvariant == Spec => []IInv
BY InitIInv, NextIInv, PTL DEF Spec

\* JS_RegisterEffect, JS_SetDeclaredEffects, JS_SetExecutionSeed and
\* JS_AsyncAwait keep the registry well typed and its tables in bounds.
THEOREM EffectsTypeCorrect == Spec => []TypeOK
<1>1. IInv => TypeOK
  BY DEF IInv
<1>2. QED
  BY <1>1, EffectsInvariant, PTL

\* JS_AsyncAwait repeats a seeded I/O only when the cache has no room left.
THEOREM AsyncExecutedOnce == Spec => []ExecutedOnce
<1>1. IInv => ExecutedOnce
  BY DEF IInv
<1>2. QED
  BY <1>1, EffectsInvariant, PTL

\* Neither the cache nor the handler table ever holds a key twice.
THEOREM EffectsNoDuplicates == Spec => []NoDuplicates
<1>1. IInv => NoDuplicates
  BY DEF IInv
<1>2. QED
  BY <1>1, EffectsInvariant, PTL

LEMMA EmptyMemo == MemoOf(<<>>) = M!Empty
<1>1. DOMAIN MemoOf(<<>>) = {} /\ DOMAIN M!Empty = {}
  BY DEF MemoOf, M!Empty
<1>2. QED
  BY <1>1 DEF MemoOf, M!Empty

\* Every step of the registry is a step of Memo or leaves the memo alone.
LEMMA MemoStep ==
  ASSUME IInv, IInv', [Next]_vars
  PROVE  [M!Next]_(MemoOf(cache))
<1> USE EffectsAssumption, ReplayCacheAssumption
<1>0. cache' = cache => [M!Next]_(MemoOf(cache))
  OBVIOUS
<1>1. ASSUME NEW n \in Names, NEW h \in Handlers, JS_RegisterEffect(n, h)
      PROVE  cache' = cache
  BY <1>1 DEF JS_RegisterEffect
<1>2. ASSUME NEW list \in Lists, JS_SetDeclaredEffects(list)
      PROVE  cache' = cache
  BY <1>2 DEF JS_SetDeclaredEffects
<1>3. ASSUME NEW s \in Seeds \cup {ShortSeed}, JS_SetExecutionSeed(s)
      PROVE  cache' = cache
  BY <1>3 DEF JS_SetExecutionSeed
<1>4. ASSUME NEW n \in Names, JS_CallEffect(n)
      PROVE  cache' = cache
  BY <1>4 DEF JS_CallEffect
<1>5. ASSUME NEW p \in Known \cup Unknown, NEW c \in Conts, JS_AsyncAwait(p, c)
      PROVE  [M!Next]_(MemoOf(cache))
  <2>1. CASE AwaitRefused(p, c) \/ AwaitReplayed(p, c)
    BY <1>0, <2>1 DEF AwaitRefused, AwaitReplayed
  <2>2. CASE AwaitExecuted(p, c)
    <3> DEFINE k == KeyOf(p, c)
    <3>1. PICK v \in {p, Exception} : store_io_cache(k, v)
      BY <2>2 DEF AwaitExecuted
    <3>2. p \in Known /\ ~check_io_cache(k)
      BY <2>2 DEF AwaitExecuted
    <3>3. k \in Key /\ v \in Value
      BY <3>2 DEF IInv, TypeOK, KeyOf, Key, Value
    <3>4. CASE cache' = cache
      BY <1>0, <3>4
    <3>5. CASE cache' # cache
      <4> HIDE DEF k
      <4>1. cache' = Append(cache, [key |-> k, value |-> v]) /\ ~Cached(cache, k)
        BY <3>1, <3>2, <3>5 DEF store_io_cache, check_io_cache, Store
      <4>2. cache \in Seq(Entry(Key, Value)) /\ DistinctKeys(cache)
        BY DEF IInv, TypeOK, NoDuplicates, DistinctKeys, Entry
      <4>3. MemoExtends(cache, Append(cache, [key |-> k, value |-> v]), k, v)
        BY <3>3, <4>1, <4>2, MemoOfAppend
      <4>4. MemoOf(cache)' = MemoOf(cache')
        BY DEF MemoOf, Lookup, FirstHit
      <4>5. M!Record(k, v)
        BY <4>1, <4>3, <4>4 DEF M!Record, MemoExtends
      <4>6. QED
        BY <3>3, <4>5 DEF M!Next
    <3>6. QED
      BY <3>4, <3>5
  <2>3. QED
    BY <1>5, <2>1, <2>2 DEF JS_AsyncAwait
<1>6. CASE JS_GC
  BY <1>0, <1>6 DEF JS_GC
<1>7. CASE cleanup_effects
  <2>1. MemoOf(cache)' = MemoOf(<<>>)
    BY <1>7 DEF cleanup_effects, MemoOf, Lookup, FirstHit
  <2>2. M!Forget
    BY <2>1, EmptyMemo DEF M!Forget
  <2>3. QED
    BY <2>2 DEF M!Next
<1>8. CASE UNCHANGED vars
  BY <1>0, <1>8 DEF vars
<1>9. QED
  BY <1>0, <1>1, <1>2, <1>3, <1>4, <1>5, <1>6, <1>7, <1>8 DEF Next

\* The I/O cache implements Memo: whatever is registered, declared, seeded
\* or collected in between, a recorded answer is never replaced.
THEOREM AsyncReplayIsMemo == Spec => ReplayIsMemo
<1>1. Init => M!Init
  BY EmptyMemo DEF Init, M!Init
<1>2. IInv /\ IInv' /\ [Next]_vars => [M!Next]_(MemoOf(cache))
  BY MemoStep
<1>3. QED
  BY <1>1, <1>2, EffectsInvariant, PTL DEF Spec, ReplayIsMemo, M!Spec

\* In a table without duplicates the search finds the one entry of a name.
LEMMA HandlerFound ==
  ASSUME NEW S, NEW fs \in Seq([name : S, handler : Handlers]),
         \A i, j \in DOMAIN fs : fs[i].name = fs[j].name => i = j,
         NEW i \in DOMAIN fs
  PROVE  HandlerOf(fs, fs[i].name) = fs[i].handler
<1> DEFINE P(x) == /\ fs[x].name = fs[i].name
                   /\ \A j \in 1 .. (x - 1) : fs[j].name # fs[i].name
<1>1. DOMAIN fs = 1 .. Len(fs) /\ Len(fs) \in Nat
  OBVIOUS
<1>2. P(i)
  BY <1>1
<1>3. \A x \in DOMAIN fs : P(x) => x = i
  OBVIOUS
<1>4. (CHOOSE x \in DOMAIN fs : P(x)) = i
  BY <1>2, <1>3
<1>5. QED
  BY <1>4 DEF HandlerOf

\* A step that leaves the table of handlers alone, or adds to its end, keeps
\* every name bound to its handler.
LEMMA BindingKept ==
  ASSUME IInv, IInv', NEW n \in Names, Registered(n),
         DOMAIN effects \subseteq DOMAIN effects',
         \A i \in DOMAIN effects : effects'[i] = effects[i]
  PROVE  Registered(n)' /\ HandlerOf(effects', n) = HandlerOf(effects, n)
<1>1. PICK i \in DOMAIN effects : effects[i].name = n
  BY DEF Registered
<1>2. i \in DOMAIN effects' /\ effects'[i].name = n /\ effects'[i].handler = effects[i].handler
  BY <1>1
<1>3. /\ effects \in Seq([name : Names, handler : Handlers])
      /\ \A x, y \in DOMAIN effects : effects[x].name = effects[y].name => x = y
  BY DEF IInv, TypeOK, NoDuplicates
<1>4. /\ effects' \in Seq([name : Names, handler : Handlers])
      /\ \A x, y \in DOMAIN effects' : effects'[x].name = effects'[y].name => x = y
  BY DEF IInv, TypeOK, NoDuplicates
<1>5. HandlerOf(effects, n) = effects[i].handler
  BY <1>1, <1>3, HandlerFound
<1>6. HandlerOf(effects', n) = effects'[i].handler
  BY <1>2, <1>4, HandlerFound
<1>7. Registered(n)'
  BY <1>2 DEF Registered
<1>8. QED
  BY <1>2, <1>5, <1>6, <1>7

\* What OnlyDeclaredEffects says of one step.
StepIsDeclared ==
    /\ out'.call = "effect" /\ out'.result = "ran" => out'.name \in declared
    /\ out'.call = "await" => (out'.result # "error" => Async \in declared)
    /\ out'.call = "declare" => (~out'.ok => declared' \in {declared, {}})

LEMMA DeclaredStep == Next => StepIsDeclared
<1> SUFFICES ASSUME Next PROVE StepIsDeclared
  OBVIOUS
<1>1. ASSUME NEW n \in Names, NEW h \in Handlers, JS_RegisterEffect(n, h)
      PROVE  StepIsDeclared
  BY <1>1 DEF JS_RegisterEffect, StepIsDeclared
<1>2. ASSUME NEW list \in Lists, JS_SetDeclaredEffects(list)
      PROVE  StepIsDeclared
  BY <1>2 DEF JS_SetDeclaredEffects, StepIsDeclared
<1>3. ASSUME NEW s \in Seeds \cup {ShortSeed}, JS_SetExecutionSeed(s)
      PROVE  StepIsDeclared
  BY <1>3 DEF JS_SetExecutionSeed, StepIsDeclared
<1>4. ASSUME NEW n \in Names, JS_CallEffect(n)
      PROVE  StepIsDeclared
  BY <1>4 DEF JS_CallEffect, JS_IsEffectDeclared, StepIsDeclared
<1>5. ASSUME NEW p \in Known \cup Unknown, NEW c \in Conts, JS_AsyncAwait(p, c)
      PROVE  StepIsDeclared
  <2>1. CASE AwaitRefused(p, c)
    BY <2>1 DEF AwaitRefused, StepIsDeclared
  <2>2. CASE AwaitReplayed(p, c)
    BY <2>2 DEF AwaitReplayed, JS_IsEffectDeclared, StepIsDeclared
  <2>3. CASE AwaitExecuted(p, c)
    BY <2>3 DEF AwaitExecuted, JS_IsEffectDeclared, StepIsDeclared
  <2>4. QED
    BY <1>5, <2>1, <2>2, <2>3 DEF JS_AsyncAwait
<1>6. CASE JS_GC
  BY <1>6 DEF JS_GC, StepIsDeclared
<1>7. CASE cleanup_effects
  BY <1>7 DEF cleanup_effects, StepIsDeclared
<1>8. QED
  BY <1>1, <1>2, <1>3, <1>4, <1>5, <1>6, <1>7 DEF Next

\* What a step that does not end the context does to the table of handlers.
LEMMA TableGrows ==
  ASSUME IInv, Next, out'.call # "free"
  PROVE  /\ DOMAIN effects \subseteq DOMAIN effects'
         /\ \A i \in DOMAIN effects : effects'[i] = effects[i]
<1>0. effects \in Seq([name : Names, handler : Handlers])
  BY DEF IInv, TypeOK
<1>1. ASSUME NEW n \in Names, NEW h \in Handlers, JS_RegisterEffect(n, h)
      PROVE  effects' = effects \/ effects' = Append(effects, [name |-> n, handler |-> h])
  BY <1>1 DEF JS_RegisterEffect
<1>2. ASSUME NEW n \in Names, NEW h \in Handlers,
             effects' = Append(effects, [name |-> n, handler |-> h])
      PROVE  /\ DOMAIN effects \subseteq DOMAIN effects'
             /\ \A i \in DOMAIN effects : effects'[i] = effects[i]
  BY <1>0, <1>2
<1>3. ASSUME NEW p \in Known \cup Unknown, NEW c \in Conts, JS_AsyncAwait(p, c)
      PROVE  effects' = effects
  BY <1>3 DEF JS_AsyncAwait, AwaitRefused, AwaitReplayed, AwaitExecuted
<1>4. ~cleanup_effects
  BY DEF cleanup_effects
<1>5. effects' = effects \/ \E n \in Names, h \in Handlers : JS_RegisterEffect(n, h)
  BY <1>3, <1>4 DEF Next, JS_SetDeclaredEffects, JS_SetExecutionSeed, JS_CallEffect, JS_GC
<1>6. QED
  BY <1>1, <1>2, <1>5

\* No undeclared effect runs, a declaration that fails declares nothing, and
\* JS_CallEffect finds the handler a name was first registered with for as
\* long as the context lives.
THEOREM RegistryAlwaysKept == Spec => RegistryIsKept
<1> DEFINE Bound == out'.call # "free" =>
                      \A n \in Names :
                         Registered(n) => /\ Registered(n)'
                                          /\ HandlerOf(effects', n) = HandlerOf(effects, n)
<1>1. IInv /\ IInv' /\ [Next]_vars => [StepIsDeclared]_vars
  BY DeclaredStep
<1>2. IInv /\ IInv' /\ [Next]_vars => [Bound]_vars
  BY TableGrows, BindingKept
<1>3. Spec => [][StepIsDeclared]_vars
  BY <1>1, EffectsInvariant, PTL DEF Spec
<1>4. Spec => [][Bound]_vars
  BY <1>2, EffectsInvariant, PTL DEF Spec
<1>5. QED
  BY <1>3, <1>4 DEF RegistryIsKept, OnlyDeclaredEffects, BindingsStable, StepIsDeclared

=============================================================================
