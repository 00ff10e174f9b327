------------------------------ MODULE Effects ------------------------------
(***************************************************************************)
(* The effect registry of one JSContext: core/effects/mquickjs_effects.c.  *)
(*                                                                         *)
(* The registry hangs off the context's opaque pointer and is allocated,   *)
(* zeroed, by the first function that needs it.  A context without one     *)
(* behaves as a context with an empty one, so the two are one state here.  *)
(*                                                                         *)
(* A cached result is a JSValue, that is a pointer into the context's      *)
(* heap.  io_cache is not a root of the collector, so any collection may   *)
(* move or free what an entry points to: "stale" names those entries.      *)
(***************************************************************************)
EXTENDS ReplayCache, FiniteSets

CONSTANTS
    Names,        \* effect names a host or a script may use
    Async,        \* the name "Async"
    Handlers,     \* C functions a host may register
    Seeds,        \* 32-byte execution seeds
    NoSeed,       \* has_seed == 0
    Known,        \* promise hashes JS_AsyncAwait can execute
    Unknown,      \* promise hashes it cannot
    Conts,        \* continuation ids
    Exception,    \* JS_EXCEPTION, what an allocation returns on failure
    MaxEffects, MaxDeclared

ASSUME EffectsAssumption ==
    /\ Async \in Names
    /\ Known \cap Unknown = {} /\ Exception \notin Known
    /\ NoSeed \notin Seeds /\ ShortSeed \notin Seeds
    /\ MaxEffects \in Nat /\ MaxDeclared \in Nat

VARIABLES
    effects,      \* effects[0 .. count - 1]: name and handler, in order
    declared,     \* declared_effects
    seed,         \* execution_seed, or NoSeed
    cache,        \* io_cache[0 .. cache_count - 1]
    stale,        \* entries whose result the collector moved or freed
    performed,    \* history: the I/Os executed under a seed in this context
    again,        \* history: those executed more than once
    out           \* history: the last call and its outcome

vars == <<effects, declared, seed, cache, stale, performed, again, out>>

Key == [seed : Seeds \cup {NoSeed}, cont : Conts, promise : Known]
SeededKey == [seed : Seeds, cont : Conts, promise : Known]

\* The string JS_NewString builds for a known promise hash is named by it.
Value == Known \cup {Exception}

Idle == [call |-> "none"]

----------------------------------------------------------------------------

Init ==
    /\ effects = <<>>
    /\ declared = {}
    /\ seed = NoSeed
    /\ cache = <<>>
    /\ stale = {}
    /\ performed = {}
    /\ again = {}
    /\ out = Idle

Registered(n) == \E i \in DOMAIN effects : effects[i].name = n

\* The handler the linear search of JS_CallEffect finds.
HandlerOf(fs, n) ==
    fs[CHOOSE i \in DOMAIN fs :
          fs[i].name = n /\ \A j \in 1 .. (i - 1) : fs[j].name # n].handler

\* A full table and a name already present are refused.
JS_RegisterEffect(n, h) ==
    /\ IF Len(effects) >= MaxEffects \/ Registered(n)
       THEN /\ out' = [call |-> "register", ok |-> FALSE]
            /\ UNCHANGED effects
       ELSE /\ out' = [call |-> "register", ok |-> TRUE]
            /\ effects' = Append(effects, [name |-> n, handler |-> h])
    /\ UNCHANGED <<declared, seed, cache, stale, performed, again>>

\* The old list is freed before the new one is copied; a strdup that fails
\* half way leaves the context with no declared effect at all.
JS_SetDeclaredEffects(list) ==
    /\ \/ /\ Len(list) > MaxDeclared
          /\ out' = [call |-> "declare", ok |-> FALSE]
          /\ UNCHANGED declared
       \/ /\ Len(list) <= MaxDeclared
          /\ out' = [call |-> "declare", ok |-> TRUE]
          /\ declared' = {list[i] : i \in DOMAIN list}
       \/ /\ Len(list) \in 1 .. MaxDeclared
          /\ out' = [call |-> "declare", ok |-> FALSE]
          /\ declared' = {}
    /\ UNCHANGED <<effects, seed, cache, stale, performed, again>>

JS_IsEffectDeclared(n) == n \in declared

\* Fault of JS_SetExecutionSeed: a new seed empties the I/O cache.
JS_SetExecutionSeed_Clears(s) ==
    /\ s # ShortSeed
    /\ out' = [call |-> "seed", ok |-> TRUE]
    /\ seed' = s
    /\ cache' = <<>> /\ stale' = {}
    /\ UNCHANGED <<effects, declared, performed, again>>

\* The I/O cache is left as it is: its entries carry their own seed.
JS_SetExecutionSeed(s) ==
    /\ IF s = ShortSeed
       THEN /\ out' = [call |-> "seed", ok |-> FALSE]
            /\ UNCHANGED seed
       ELSE /\ out' = [call |-> "seed", ok |-> TRUE]
            /\ seed' = s
    /\ UNCHANGED <<effects, declared, cache, stale, performed, again>>

\* Fault of JS_CallEffect: being registered is enough.
JS_CallEffect_Unchecked(n) ==
    /\ Registered(n)
    /\ out' = [call |-> "effect", name |-> n, result |-> "ran",
               handler |-> HandlerOf(effects, n)]
    /\ UNCHANGED <<effects, declared, seed, cache, stale, performed, again>>

\* The declaration is checked first, then the handler is looked up.
JS_CallEffect(n) ==
    /\ out' = IF ~JS_IsEffectDeclared(n)
              THEN [call |-> "effect", name |-> n, result |-> "undeclared"]
              ELSE IF ~Registered(n)
              THEN [call |-> "effect", name |-> n, result |-> "unknown"]
              ELSE [call |-> "effect", name |-> n, result |-> "ran",
                    handler |-> HandlerOf(effects, n)]
    /\ UNCHANGED <<effects, declared, seed, cache, stale, performed, again>>

----------------------------------------------------------------------------
(* JS_AsyncAwait: declaration, cache, I/O, cache.                          *)

KeyOf(p, c) == [seed |-> seed, cont |-> c, promise |-> p]

\* check_io_cache: without a seed nothing is found.
check_io_cache(k) == seed # NoSeed /\ Cached(cache, k)

\* store_io_cache: without a seed, and in a full cache, nothing is kept.
store_io_cache(k, v) ==
    cache' = IF seed = NoSeed THEN cache ELSE Store(cache, CacheSize, k, v)

AwaitRefused(p, c) ==
    /\ \/ ~JS_IsEffectDeclared(Async)
       \/ p \in Unknown
    /\ out' = [call |-> "await", promise |-> p, cont |-> c, result |-> "error"]
    /\ UNCHANGED <<effects, declared, seed, cache, stale, performed, again>>

AwaitReplayed(p, c) ==
    LET k == KeyOf(p, c) IN
    /\ JS_IsEffectDeclared(Async) /\ p \in Known
    /\ check_io_cache(k)
    /\ out' = [call |-> "await", promise |-> p, cont |-> c,
               result |-> "replayed", value |-> Lookup(cache, k),
               fresh |-> FirstHit(cache, k) \notin stale]
    /\ UNCHANGED <<effects, declared, seed, cache, stale, performed, again>>

\* The I/O is executed and its string allocated; when the allocation fails
\* the exception is stored and returned like any other result.
AwaitExecuted(p, c) ==
    LET k == KeyOf(p, c) IN
    /\ JS_IsEffectDeclared(Async) /\ p \in Known
    /\ ~check_io_cache(k)
    /\ \E v \in {p, Exception} :
          /\ store_io_cache(k, v)
          /\ out' = [call |-> "await", promise |-> p, cont |-> c,
                     result |-> "executed", value |-> v, fresh |-> TRUE]
    /\ performed' = performed \cup ({k} \cap SeededKey)
    /\ again' = again \cup ({k} \cap performed)
    /\ UNCHANGED <<effects, declared, seed, stale>>

JS_AsyncAwait(p, c) ==
    AwaitRefused(p, c) \/ AwaitReplayed(p, c) \/ AwaitExecuted(p, c)

----------------------------------------------------------------------------

\* Any allocation of the script may run the collector.  It knows nothing of
\* io_cache, so whatever the entries point to may be moved or freed.
JS_GC ==
    /\ \E moved \in SUBSET {i \in DOMAIN cache : cache[i].value # Exception} :
          stale' = stale \cup moved
    /\ out' = [call |-> "gc"]
    /\ UNCHANGED <<effects, declared, seed, cache, performed, again>>

\* JS_FreeContext frees the registry; the next context starts from nothing.
cleanup_effects ==
    /\ effects' = <<>>
    /\ declared' = {}
    /\ seed' = NoSeed
    /\ cache' = <<>>
    /\ stale' = {}
    /\ performed' = {}
    /\ again' = {}
    /\ out' = [call |-> "free"]

Lists == UNION {[1 .. n -> Names] : n \in 0 .. (MaxDeclared + 1)}

Next ==
    \/ \E n \in Names, h \in Handlers : JS_RegisterEffect(n, h)
    \/ \E list \in Lists : JS_SetDeclaredEffects(list)
    \/ \E s \in Seeds \cup {ShortSeed} : JS_SetExecutionSeed(s)
    \/ \E n \in Names : JS_CallEffect(n)
    \/ \E p \in Known \cup Unknown, c \in Conts : JS_AsyncAwait(p, c)
    \/ JS_GC
    \/ cleanup_effects

Spec == Init /\ [][Next]_vars

----------------------------------------------------------------------------

TypeOK ==
    /\ effects \in Seq([name : Names, handler : Handlers])
    /\ declared \subseteq Names
    /\ seed \in Seeds \cup {NoSeed}
    /\ cache \in Seq([key : Key, value : Value])
    /\ stale \subseteq DOMAIN cache
    /\ performed \subseteq SeededKey
    /\ again \subseteq performed
    /\ Len(effects) <= MaxEffects /\ Len(cache) <= CacheSize

\* JS_AsyncAwait executes the I/O of a (seed, cont, promise) a second time
\* under the same seed only once the 1024 entries are used up: until then
\* check_io_cache finds the result of every I/O executed before, whatever
\* other seeds were set in between.
ExecutedOnce ==
    again # {} => Len(cache) = CacheSize

\* The linear searches never have to choose: store_io_cache runs only after
\* a miss for the same key under the same seed, and JS_RegisterEffect only
\* after the name was not found.
NoDuplicates ==
    /\ \A i, j \in DOMAIN cache : cache[i].key = cache[j].key => i = j
    /\ \A i, j \in DOMAIN effects : effects[i].name = effects[j].name => i = j

\* A handler runs, or an I/O is executed or replayed, only for an effect
\* that the list in force at the time of the call declares, whatever calls
\* of JS_SetDeclaredEffects came before, failed ones included.
OnlyDeclaredEffects ==
    [][/\ out'.call = "effect" /\ out'.result = "ran" => out'.name \in declared
       /\ out'.call = "await" => (out'.result # "error" => Async \in declared)
       /\ out'.call = "declare" => (~out'.ok => declared' \in {declared, {}})]_vars

\* While a context lives, the handler a name is bound to never changes.
BindingsStable ==
    [][out'.call # "free" =>
         \A n \in Names :
            Registered(n) => /\ Registered(n)'
                             /\ HandlerOf(effects', n) = HandlerOf(effects, n)]_vars

\* Both together: no undeclared effect runs, and a name stays bound to its
\* handler, in whatever order the host and the script call this file.
RegistryIsKept == OnlyDeclaredEffects /\ BindingsStable

\* The cache implements Memo: a recorded answer is never replaced.
M == INSTANCE Memo WITH Keys <- Key, Values <- Value, memo <- MemoOf(cache)
ReplayIsMemo == M!Spec

\* requirements/TECHSPECV5.md asks the host adapter to return identical
\* bytes on every replay.  JS_AsyncAwait replays a pointer that a collection
\* may have left behind.
ReplaysSameBytes ==
    out.call = "await" => (out.result = "replayed" => out.fresh)

=============================================================================
