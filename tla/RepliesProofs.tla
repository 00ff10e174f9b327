--------------------------- MODULE RepliesProofs ---------------------------
(* Theorems about the handlers of the database and of HTTP, and about the  *)
(* three replay caches together, for every set of seeds, every size of the *)
(* caches and of the pool, and every sequence of failures.                 *)
EXTENDS Replies, EffectsProofs, FiniteSetTheorems

(***************************************************************************)
(* The database.                                                           *)
(***************************************************************************)

AnyDbSeed == DbSeeds \cup {ShortSeed}

\* Where the running handler is says what it does, and a seed that arms the
\* cache has armed it.
DbHandler ==
    /\ dbPc \in {"begin", "exec", "audit", "commit"} => cur.op = "write"
    /\ dbPc = "query" => cur.op = "read"
    /\ dbPc # "idle" /\ cur.seed \in DbSeeds => dbSeeded
    /\ dbPc = "commit" => cur.seed \in audited
    /\ dbPc = "put" /\ cur.op = "write" => cur.seed \in audited

\* A handler runs because its answer was not in the cache; and what was
\* answered before is.
DbAnswers ==
    /\ DistinctKeys(dbCache)
    /\ dbPc # "idle" /\ dbSeeded => ~Cached(dbCache, RequestKey(cur.op, cur.seed))
    /\ \A s \in dbAnswered : \/ s = ShortSeed \/ Len(dbCache) = CacheSize
                             \/ Cached(dbCache, RequestKey("write", s))

\* At most one slot is open, every live session has an open one, and what is
\* pending is the write of the handler that waits for its commit.
DbSessions ==
    /\ \A i, j \in OpenSlots : i = j
    /\ up \subseteq OpenSlots
    /\ UsesPooledConnection
    /\ pending \subseteq Mine
    /\ dbPc \notin {"audit", "commit"} => pending = {}

DbInv ==
    DbTypeOK /\ DbHandler /\ DbAnswers /\ DbSessions /\ RetryIsReplayed /\ WritesAreAudited

LEMMA DbInitInv == DbInit => DbInv
<1> SUFFICES ASSUME DbInit PROVE DbInv
  OBVIOUS
<1> USE DbAssumption, ReplayCacheAssumption
<1>1. DbTypeOK
  <2>1. /\ slots \in Seq(BOOLEAN) /\ Len(slots) <= MaxConnections /\ up \subseteq DOMAIN slots
        /\ dbCache \in Seq([key : Request, value : Result]) /\ Len(dbCache) <= CacheSize
    BY DEF DbInit
  <2>2. cur \in [op : {"read", "write"}, seed : DbSeeds \cup {ShortSeed}, slot : 0 .. MaxConnections]
    BY DEF DbInit
  <2>3. QED
    BY <2>1, <2>2 DEF DbInit, DbTypeOK, Steps
<1>2. DbHandler
  BY DEF DbInit, DbHandler
<1>3. DbAnswers
  BY DEF DbInit, DbAnswers, DistinctKeys
<1>4. DbSessions
  BY DEF DbInit, DbSessions, OpenSlots, UsesPooledConnection
<1>5. RetryIsReplayed /\ WritesAreAudited
  BY DEF DbInit, RetryIsReplayed, WritesAreAudited, ToldIsAudited, NoOut
<1>6. QED
  BY <1>1, <1>2, <1>3, <1>4, <1>5 DEF DbInv

\* What Append makes of a sequence.
LEMMA AppendFacts ==
  ASSUME NEW S, NEW q \in Seq(S), NEW x \in S
  PROVE  /\ Append(q, x) \in Seq(S) /\ Len(Append(q, x)) = Len(q) + 1
         /\ \A j \in 1 .. Len(q) : Append(q, x)[j] = q[j]
         /\ Append(q, x)[Len(q) + 1] = x
OBVIOUS

\* GetConnection leaves the pool with the one slot that is used, or closed.
LEMMA GetConnectionStep ==
  ASSUME DbInv, GetConnection
  PROVE  DbTypeOK' /\ DbSessions'
<1> USE DbAssumption
<1>0. /\ slots \in Seq(BOOLEAN) /\ Len(slots) <= MaxConnections
      /\ DOMAIN slots = 1 .. Len(slots) /\ Len(slots) \in Nat
      /\ up \subseteq DOMAIN slots
  BY DEF DbInv, DbTypeOK
<1>1. /\ dbPc = "connect" /\ pending = {} /\ up \subseteq OpenSlots
      /\ \A i, j \in OpenSlots : i = j
  BY DEF GetConnection, DbInv, DbSessions
<1>2. UNCHANGED <<dbCache, dbSeeded, server, audited, dbAnswered, redone>>
  BY DEF GetConnection
<1>3. CASE Reuse /\ dbPc' = (IF cur.op = "read" THEN "query" ELSE "begin")
  <2>1. PICK i \in DOMAIN slots :
           /\ slots[i] /\ i \in up
           /\ slots' = [j \in DOMAIN slots |-> slots[j] /\ j >= i]
           /\ cur' = [cur EXCEPT !.slot = i]
           /\ UNCHANGED up
    BY <1>3 DEF Reuse
  <2>2. slots' \in Seq(BOOLEAN) /\ Len(slots') = Len(slots) /\ DOMAIN slots' = DOMAIN slots
    BY <1>0, <2>1
  <2>3. OpenSlots' = {i}
    <3>1. OpenSlots = {i}
      BY <1>1, <2>1 DEF OpenSlots
    <3>2. \A j \in DOMAIN slots : slots'[j] <=> slots[j] /\ j >= i
      BY <2>1
    <3>3. QED
      BY <1>0, <2>1, <2>2, <3>1, <3>2 DEF OpenSlots
  <2>4. /\ cur' \in [op : {"read", "write"}, seed : DbSeeds \cup {ShortSeed},
                     slot : 0 .. MaxConnections]
        /\ cur'.slot = i
    <3>1. i \in 0 .. MaxConnections
      BY <1>0
    <3>2. cur \in [op : {"read", "write"}, seed : DbSeeds \cup {ShortSeed},
                   slot : 0 .. MaxConnections]
      BY DEF DbInv, DbTypeOK
    <3>3. cur' = [cur EXCEPT !.slot = i]
      BY <2>1
    <3>4. QED
      BY <3>1, <3>2, <3>3
  <2>5. DbTypeOK'
    BY <1>0, <1>2, <1>3, <2>1, <2>2, <2>4 DEF DbInv, DbTypeOK, Steps, server
  <2>6. up' \subseteq {i}
    BY <1>1, <2>1 DEF OpenSlots
  <2>7. QED
    BY <1>1, <1>2, <2>3, <2>4, <2>5, <2>6 DEF DbSessions, UsesPooledConnection, server
<1>4. CASE Connect /\ dbPc' = (IF cur.op = "read" THEN "query" ELSE "begin")
  <2> DEFINE n == Len(slots) + 1
  <2>1. /\ AllDead /\ Len(slots) < MaxConnections
        /\ slots' = Append(AllClosed, TRUE)
        /\ up' = up \cup {n}
        /\ cur' = [cur EXCEPT !.slot = n]
    BY <1>4 DEF Connect
  <2>2. AllClosed \in Seq(BOOLEAN) /\ Len(AllClosed) = Len(slots)
    BY <1>0 DEF AllClosed
  <2>3. /\ slots' \in Seq(BOOLEAN) /\ Len(slots') = n /\ DOMAIN slots' = 1 .. n
        /\ \A j \in 1 .. Len(slots) : slots'[j] = AllClosed[j]
        /\ slots'[n] = TRUE
    <3> DEFINE q == AllClosed
    <3>1. slots' = Append(q, TRUE) /\ q \in Seq(BOOLEAN) /\ Len(q) = Len(slots) /\ Len(q) \in Nat
      BY <1>0, <2>1, <2>2
    <3> HIDE DEF q
    <3>2. /\ Append(q, TRUE) \in Seq(BOOLEAN) /\ Len(Append(q, TRUE)) = Len(q) + 1
          /\ \A j \in 1 .. Len(q) : Append(q, TRUE)[j] = q[j]
          /\ Append(q, TRUE)[Len(q) + 1] = TRUE
      BY <3>1, TRUE \in BOOLEAN, AppendFacts, Zenon
    <3>3. slots' \in Seq(BOOLEAN) /\ Len(slots') = n /\ DOMAIN slots' = 1 .. n
      BY <3>1, <3>2
    <3>4. QED
      BY <3>1, <3>2, <3>3 DEF q
  <2>4. up = {}
    BY <1>1, <2>1 DEF AllDead, OpenSlots
  <2>5. OpenSlots' = {n}
    <3>1. \A j \in 1 .. Len(slots) : slots'[j] = FALSE
      BY <1>0, <2>3 DEF AllClosed
    <3>2. QED
      BY <1>0, <2>3, <3>1 DEF OpenSlots
  <2>6. /\ cur' \in [op : {"read", "write"}, seed : DbSeeds \cup {ShortSeed},
                     slot : 0 .. MaxConnections]
        /\ cur'.slot = n
    BY <1>0, <2>1 DEF DbInv, DbTypeOK
  <2>7. up' = {n} /\ n \in DOMAIN slots' /\ Len(slots') <= MaxConnections
    BY <1>0, <2>1, <2>3, <2>4
  <2>8. DbTypeOK'
    <3> HIDE DEF n
    <3>1. pending' = {} /\ commit' = commit /\ applied' = applied
      BY <1>1, <1>2 DEF server
    <3>2. dbPc' \in Steps
      BY <1>4 DEF Steps
    <3>3. QED
      BY <1>2, <2>3, <2>6, <2>7, <3>1, <3>2 DEF DbInv, DbTypeOK
  <2>9. QED
    BY <1>1, <1>2, <2>5, <2>6, <2>7, <2>8 DEF DbSessions, UsesPooledConnection, server
<1>5. CASE NoConnection /\ Fail
  <2>1. /\ AllDead /\ slots' = AllClosed /\ dbPc' = "idle"
        /\ UNCHANGED <<up, cur>>
    BY <1>5 DEF NoConnection, Fail, Answer
  <2>2. /\ slots' \in Seq(BOOLEAN) /\ Len(slots') = Len(slots) /\ DOMAIN slots' = DOMAIN slots
        /\ \A j \in DOMAIN slots : slots'[j] = FALSE
    BY <1>0, <2>1 DEF AllClosed
  <2>3. up = {} /\ OpenSlots' = {}
    BY <1>1, <2>1, <2>2 DEF AllDead, OpenSlots
  <2>4. DbTypeOK'
    BY <1>0, <1>2, <2>1, <2>2 DEF DbInv, DbTypeOK, Steps, server
  <2>5. QED
    BY <1>1, <1>2, <2>1, <2>3, <2>4 DEF DbSessions, UsesPooledConnection, server
<1>6. QED
  BY <1>3, <1>4, <1>5 DEF GetConnection

\* PutAndAnswer stores a result under a key that is not in the cache.
LEMMA PutStores ==
  ASSUME DbInv, PutAndAnswer
  PROVE  \E v \in Result :
            IF dbSeeded
            THEN StoredIn(dbCache, dbCache', Entry(Request, Result), CacheSize,
                          RequestKey(cur.op, cur.seed), v)
            ELSE /\ dbCache' = dbCache
                 /\ dbCache \in Seq(Entry(Request, Result)) /\ Len(dbCache) <= CacheSize
<1> DEFINE k == RequestKey(cur.op, cur.seed)
<1>1. PICK v \in Result : mtpscript_db_cache_put(v)
  BY DEF PutAndAnswer
<1>2. /\ dbCache \in Seq(Entry(Request, Result)) /\ Len(dbCache) <= CacheSize
      /\ DistinctKeys(dbCache) /\ CacheSize \in Nat
  BY ReplayCacheAssumption DEF DbInv, DbTypeOK, DbAnswers, Entry
<1>3. k \in Request
  BY DEF DbInv, DbTypeOK, RequestKey, Request
<1>4. CASE dbSeeded
  <2>1. ~Cached(dbCache, k)
    BY <1>4 DEF PutAndAnswer, DbInv, DbAnswers
  <2>2. StoredIn(dbCache, Store(dbCache, CacheSize, k, v), Entry(Request, Result), CacheSize, k, v)
    BY <1>2, <1>3, <2>1, StoreAbsent
  <2>3. dbCache' = Store(dbCache, CacheSize, k, v)
    BY <1>1, <1>4 DEF mtpscript_db_cache_put
  <2>4. QED
    BY <1>4, <2>2, <2>3
<1>5. CASE ~dbSeeded
  BY <1>1, <1>2, <1>5 DEF mtpscript_db_cache_put
<1>6. QED
  BY <1>4, <1>5

\* It changes no entry, and adds none but that of this key.
LEMMA PutAdds ==
  ASSUME DbInv, PutAndAnswer
  PROVE  \A i \in DOMAIN dbCache' : \/ i \in DOMAIN dbCache /\ dbCache'[i] = dbCache[i]
                                  \/ dbCache'[i].key = RequestKey(cur.op, cur.seed)
<1> DEFINE k == RequestKey(cur.op, cur.seed)
<1>1. PICK v \in Result : mtpscript_db_cache_put(v)
  BY DEF PutAndAnswer
<1> DEFINE e == [key |-> k, value |-> v]
<1>2. dbCache \in Seq(Entry(Request, Result)) /\ Len(dbCache) \in Nat
  BY DEF DbInv, DbTypeOK, Entry
<1>3. dbCache' = dbCache \/ dbCache' = Append(dbCache, e)
  BY <1>1 DEF mtpscript_db_cache_put, Store
<1>4. CASE dbCache' = Append(dbCache, e)
  <2>1. e \in Entry(Request, Result)
    BY DEF DbInv, DbTypeOK, RequestKey, Request, Entry
  <2> HIDE DEF e
  <2>2. /\ Len(Append(dbCache, e)) = Len(dbCache) + 1
        /\ \A j \in 1 .. Len(dbCache) : Append(dbCache, e)[j] = dbCache[j]
        /\ Append(dbCache, e)[Len(dbCache) + 1] = e
        /\ DOMAIN Append(dbCache, e) = 1 .. (Len(dbCache) + 1) /\ DOMAIN dbCache = 1 .. Len(dbCache)
    BY <1>2, <2>1
  <2>3. e.key = k
    BY DEF e
  <2>4. QED
    BY <1>2, <1>4, <2>2, <2>3
<1>5. QED
  BY <1>3, <1>4

\* Types, whatever the step.
LEMMA DbTypesKept ==
  ASSUME DbInv, DbNext
  PROVE  DbTypeOK'
<1> USE DbAssumption, ReplayCacheAssumption
<1>1. ASSUME NEW op \in {"read", "write"}, NEW s \in AnyDbSeed, Call(op, s)
      PROVE  DbTypeOK'
  BY <1>1 DEF DbInv, DbTypeOK, Steps, Call, AnyDbSeed, pool, server
<1>2. CASE GetConnection
  BY <1>2, GetConnectionStep
<1>3. CASE ReadQuery
  BY <1>3 DEF DbInv, DbTypeOK, Steps, ReadQuery, Fail, Answer, Alive, pool, server
<1>4. CASE BeginWrite
  BY <1>4 DEF DbInv, DbTypeOK, Steps, BeginWrite, Fail, Answer, Alive, pool, server
<1>5. CASE ExecuteWrite
  <2>0. DbTypeOK /\ UNCHANGED <<commit, slots, dbCache, dbSeeded, cur, audited, dbAnswered>>
    BY <1>5 DEF DbInv, ExecuteWrite
  <2>1. dbPc' \in Steps
    BY <1>5 DEF ExecuteWrite, Fail, Answer, Steps
  <2>2. cur.seed \in DbSeeds \cup {ShortSeed}
    BY <2>0 DEF DbTypeOK
  <2>3. applied' \subseteq DbSeeds \cup {ShortSeed} /\ redone' \subseteq dbAnswered
    BY <1>5, <2>0, <2>2 DEF ExecuteWrite, Apply, server, DbTypeOK
  <2>4. up' \subseteq up /\ (up' = up \/ pending' = pending)
    BY <1>5 DEF ExecuteWrite
  <2>5. pending' = pending \/ (pending' = pending \cup Mine /\ Alive)
    BY <1>5 DEF ExecuteWrite, server
  <2>6. pending = {}
    BY <1>5 DEF ExecuteWrite, DbInv, DbSessions
  <2>7. pending' \subseteq up' \X (DbSeeds \cup {ShortSeed})
    BY <2>2, <2>4, <2>5, <2>6 DEF Mine, Alive
  <2>8. QED
    BY <2>0, <2>1, <2>3, <2>4, <2>7 DEF DbTypeOK
<1>6. CASE mtpscript_log_write
  BY <1>6 DEF DbInv, DbTypeOK, Steps, mtpscript_log_write, pool, server
<1>7. CASE CommitWrite
  <2>0. DbTypeOK /\ UNCHANGED <<commit, slots, dbCache, dbSeeded, cur, audited, dbAnswered>>
    BY <1>7 DEF DbInv, CommitWrite
  <2>1. dbPc' \in Steps
    BY <1>7 DEF CommitWrite, Answer, Steps
  <2>2. cur.seed \in DbSeeds \cup {ShortSeed}
    BY <2>0 DEF DbTypeOK
  <2>3. applied' \subseteq DbSeeds \cup {ShortSeed} /\ redone' \subseteq dbAnswered
    BY <1>7, <2>0, <2>2 DEF CommitWrite, Apply, DbTypeOK
  <2>4. up' \subseteq up /\ pending' = pending \ Mine
    BY <1>7 DEF CommitWrite, RolledBack
  <2>5. pending' = {}
    BY <2>4 DEF DbInv, DbSessions
  <2>6. QED
    BY <2>0, <2>1, <2>3, <2>4, <2>5 DEF DbTypeOK
<1>8. CASE PutAndAnswer
  <2>1. DbTypeOK /\ UNCHANGED <<pool, dbSeeded, cur, server, audited, redone>> /\ dbPc' = "idle"
    BY <1>8 DEF DbInv, PutAndAnswer
  <2>2. dbCache' \in Seq(Entry(Request, Result)) /\ Len(dbCache') <= CacheSize
    BY <1>8, PutStores DEF StoredIn
  <2>3. dbAnswered' \subseteq DbSeeds \cup {ShortSeed} /\ dbAnswered \subseteq dbAnswered'
    BY <1>8, <2>1 DEF PutAndAnswer, DbTypeOK
  <2>4. QED
    BY <2>1, <2>2, <2>3 DEF DbTypeOK, Entry, Steps, pool, server
<1>9. ASSUME NEW i \in up, SessionEnds(i)
      PROVE  DbTypeOK'
  BY <1>9 DEF DbInv, DbTypeOK, Steps, SessionEnds
<1>10. CASE mtpscript_db_pool_free
  BY <1>10 DEF DbInv, DbTypeOK, Steps, mtpscript_db_pool_free
<1>11. CASE mtpscript_db_cache_free
  <2>1. dbCache' \in Seq([key : Request, value : Result]) /\ Len(dbCache') <= CacheSize
    BY <1>11 DEF mtpscript_db_cache_free
  <2>2. QED
    BY <1>11, <2>1 DEF DbInv, DbTypeOK, Steps, mtpscript_db_cache_free, pool, server
<1>12. CASE Crash
  <2>1. /\ dbCache' \in Seq([key : Request, value : Result]) /\ Len(dbCache') <= CacheSize
        /\ slots' \in Seq(BOOLEAN) /\ Len(slots') <= MaxConnections
    BY <1>12 DEF Crash
  <2>2. cur' \in [op : {"read", "write"}, seed : DbSeeds \cup {ShortSeed}, slot : 0 .. MaxConnections]
    BY <1>12 DEF Crash
  <2>3. QED
    BY <1>12, <2>1, <2>2 DEF DbInv, DbTypeOK, Steps, Crash
<1>13. QED
  BY <1>1, <1>2, <1>3, <1>4, <1>5, <1>6, <1>7, <1>8, <1>9, <1>10, <1>11, <1>12 DEF DbNext, AnyDbSeed

\* Where the handler is, whatever the step.
LEMMA DbHandlerKept ==
  ASSUME DbInv, DbNext
  PROVE  DbHandler'
<1> USE DbAssumption
<1>1. ASSUME NEW op \in {"read", "write"}, NEW s \in AnyDbSeed, Call(op, s)
      PROVE  DbHandler'
  BY <1>1 DEF DbInv, DbHandler, DbTypeOK, Call, AnyDbSeed
<1>2. CASE GetConnection
  BY <1>2 DEF DbInv, DbHandler, DbTypeOK, GetConnection, Reuse, Connect, NoConnection, Fail, Answer
<1>3. CASE ReadQuery
  BY <1>3 DEF DbInv, DbHandler, ReadQuery, Fail, Answer
<1>4. CASE BeginWrite
  BY <1>4 DEF DbInv, DbHandler, DbTypeOK, BeginWrite, Fail, Answer
<1>5. CASE ExecuteWrite
  BY <1>5 DEF DbInv, DbHandler, DbTypeOK, ExecuteWrite, Fail, Answer
<1>6. CASE mtpscript_log_write
  BY <1>6 DEF DbInv, DbHandler, DbTypeOK, mtpscript_log_write
<1>7. CASE CommitWrite
  BY <1>7 DEF DbInv, DbHandler, DbTypeOK, CommitWrite, Answer
<1>8. CASE PutAndAnswer
  BY <1>8 DEF DbInv, DbHandler, DbTypeOK, PutAndAnswer
<1>9. ASSUME NEW i \in up, SessionEnds(i)
      PROVE  DbHandler'
  BY <1>9 DEF DbInv, DbHandler, DbTypeOK, SessionEnds
<1>10. CASE mtpscript_db_pool_free
  BY <1>10 DEF DbInv, DbHandler, DbTypeOK, mtpscript_db_pool_free
<1>11. CASE mtpscript_db_cache_free
  BY <1>11 DEF DbInv, DbHandler, DbTypeOK, mtpscript_db_cache_free
<1>12. CASE Crash
  BY <1>12 DEF DbInv, DbHandler, DbTypeOK, Crash
<1>13. QED
  BY <1>1, <1>2, <1>3, <1>4, <1>5, <1>6, <1>7, <1>8, <1>9, <1>10, <1>11, <1>12 DEF DbNext, AnyDbSeed

\* Sessions, whatever the step.
LEMMA DbSessionsKept ==
  ASSUME DbInv, DbNext
  PROVE  DbSessions'
<1> USE DbAssumption
<1>1. ASSUME NEW op \in {"read", "write"}, NEW s \in AnyDbSeed, Call(op, s)
      PROVE  DbSessions'
  BY <1>1 DEF DbInv, DbSessions, DbTypeOK, UsesPooledConnection, OpenSlots, Mine, Call, AnyDbSeed, pool, server
<1>2. CASE GetConnection
  BY <1>2, GetConnectionStep
<1>3. CASE ReadQuery
  BY <1>3 DEF DbInv, DbSessions, DbTypeOK, UsesPooledConnection, OpenSlots, Mine, ReadQuery, Fail, Answer, Alive, pool, server
<1>4. CASE BeginWrite
  BY <1>4 DEF DbInv, DbSessions, DbTypeOK, UsesPooledConnection, OpenSlots, Mine, BeginWrite, Fail, Answer, Alive, pool, server
<1>5. CASE ExecuteWrite
  BY <1>5 DEF DbInv, DbSessions, DbTypeOK, UsesPooledConnection, OpenSlots, Mine, ExecuteWrite, Fail, Answer, Alive, Apply, server
<1>6. CASE mtpscript_log_write
  BY <1>6 DEF DbInv, DbSessions, DbTypeOK, UsesPooledConnection, OpenSlots, Mine, mtpscript_log_write, pool, server
<1>7. CASE CommitWrite
  BY <1>7 DEF DbInv, DbSessions, DbTypeOK, UsesPooledConnection, OpenSlots, Mine, CommitWrite, Answer, Alive, Apply, RolledBack
<1>8. CASE PutAndAnswer
  BY <1>8 DEF DbInv, DbSessions, DbTypeOK, UsesPooledConnection, OpenSlots, Mine, PutAndAnswer, mtpscript_db_cache_put, pool, server
<1>9. ASSUME NEW i \in up, SessionEnds(i)
      PROVE  DbSessions'
  BY <1>9 DEF DbInv, DbSessions, DbTypeOK, UsesPooledConnection, OpenSlots, Mine, SessionEnds
<1>10. CASE mtpscript_db_pool_free
  BY <1>10 DEF DbInv, DbSessions, DbTypeOK, UsesPooledConnection, OpenSlots, Mine, mtpscript_db_pool_free
<1>11. CASE mtpscript_db_cache_free
  BY <1>11 DEF DbInv, DbSessions, DbTypeOK, UsesPooledConnection, OpenSlots, Mine, mtpscript_db_cache_free, pool, server
<1>12. CASE Crash
  BY <1>12 DEF DbInv, DbSessions, DbTypeOK, UsesPooledConnection, OpenSlots, Mine, Crash
<1>13. QED
  BY <1>1, <1>2, <1>3, <1>4, <1>5, <1>6, <1>7, <1>8, <1>9, <1>10, <1>11, <1>12 DEF DbNext, AnyDbSeed


\* PutAndAnswer keeps what was answered, and adds its own answer.
LEMMA PutKeepsAnswers ==
  ASSUME DbInv, PutAndAnswer
  PROVE  DbAnswers'
<1> DEFINE k == RequestKey(cur.op, cur.seed)
<1>1. /\ dbPc' = "idle" /\ dbPc = "put"
      /\ dbAnswered' = IF cur.op = "write" THEN dbAnswered \cup {cur.seed} ELSE dbAnswered
  BY DEF PutAndAnswer
<1>2. PICK v \in Result :
         IF dbSeeded
         THEN StoredIn(dbCache, dbCache', Entry(Request, Result), CacheSize, k, v)
         ELSE /\ dbCache' = dbCache
              /\ dbCache \in Seq(Entry(Request, Result)) /\ Len(dbCache) <= CacheSize
  BY PutStores
<1>3. cur.seed \in DbSeeds \cup {ShortSeed} /\ (cur.seed \in DbSeeds => dbSeeded)
  BY <1>1 DEF DbInv, DbTypeOK, DbHandler
<1>4. CASE ~dbSeeded
  <2>1. cur.seed = ShortSeed /\ dbCache' = dbCache
    BY <1>2, <1>3, <1>4
  <2>2. QED
    BY <1>1, <2>1 DEF DbInv, DbAnswers
<1>5. CASE dbSeeded
  <2> HIDE DEF k
  <2>1. /\ DistinctKeys(dbCache') /\ DOMAIN dbCache \subseteq DOMAIN dbCache'
        /\ \A j \in DOMAIN dbCache : dbCache'[j] = dbCache[j]
        /\ Len(dbCache') < CacheSize => Cached(dbCache', k)
        /\ Len(dbCache) = CacheSize => dbCache' = dbCache
        /\ dbCache' \in Seq(Entry(Request, Result)) /\ Len(dbCache') <= CacheSize
    BY <1>2, <1>5 DEF StoredIn
  <2>2. Len(dbCache') = CacheSize \/ Cached(dbCache', k)
    BY <2>1, ReplayCacheAssumption
  <2>3. \A s \in dbAnswered : \/ s = ShortSeed \/ Len(dbCache') = CacheSize
                              \/ Cached(dbCache', RequestKey("write", s))
    BY <2>1 DEF DbInv, DbAnswers, Cached
  <2>4. cur.op = "write" => k = RequestKey("write", cur.seed)
    BY DEF k
  <2>5. QED
    BY <1>1, <2>1, <2>2, <2>3, <2>4 DEF DbAnswers
<1>6. QED
  BY <1>4, <1>5

\* Without a step of the cache, what was answered stays in it.
LEMMA AnswersStay ==
  ASSUME DbInv, UNCHANGED <<dbCache, dbAnswered, dbSeeded>>,
         dbPc' # "idle" => /\ RequestKey(cur.op, cur.seed)' = RequestKey(cur.op, cur.seed)
                           /\ dbPc # "idle"
  PROVE  DbAnswers'
<1>1. DistinctKeys(dbCache')
  BY DEF DbInv, DbAnswers
<1>2. dbPc' # "idle" /\ dbSeeded' => ~Cached(dbCache', RequestKey(cur.op, cur.seed)')
  BY DEF DbInv, DbAnswers
<1>3. \A s \in dbAnswered' : \/ s = ShortSeed \/ Len(dbCache') = CacheSize
                             \/ Cached(dbCache', RequestKey("write", s))
  BY DEF DbInv, DbAnswers
<1>4. QED
  BY <1>1, <1>2, <1>3 DEF DbAnswers, RequestKey

\* The answers, whatever the step.
LEMMA DbAnswersKept ==
  ASSUME DbInv, DbNext
  PROVE  DbAnswers'
<1> USE DbAssumption
<1>1. ASSUME NEW op \in {"read", "write"}, NEW s \in AnyDbSeed, Call(op, s)
      PROVE  DbAnswers'
  <2>1. UNCHANGED <<dbCache, dbAnswered>>
    BY <1>1 DEF Call
  <2>2. dbPc' # "idle" => ~(dbSeeded' /\ Cached(dbCache, RequestKey(op, s)))
    BY <1>1 DEF Call
  <2>3. cur'.op = op /\ cur'.seed = s
    BY <1>1 DEF Call
  <2>4. QED
    BY <2>1, <2>2, <2>3 DEF DbInv, DbAnswers, RequestKey
<1>2. CASE GetConnection
  <2>1. /\ UNCHANGED <<dbCache, dbAnswered, dbSeeded>> /\ dbPc # "idle"
        /\ cur'.op = cur.op /\ cur'.seed = cur.seed
    BY <1>2 DEF GetConnection, Reuse, Connect, NoConnection, DbInv, DbTypeOK
  <2>2. QED
    BY <2>1, AnswersStay DEF RequestKey
<1>3. CASE ReadQuery
  BY <1>3, AnswersStay DEF ReadQuery, Fail, Answer
<1>4. CASE BeginWrite
  BY <1>4, AnswersStay DEF BeginWrite, Fail, Answer
<1>5. CASE ExecuteWrite
  BY <1>5, AnswersStay DEF ExecuteWrite, Fail, Answer
<1>6. CASE mtpscript_log_write
  BY <1>6, AnswersStay DEF mtpscript_log_write, RequestKey
<1>7. CASE CommitWrite
  BY <1>7, AnswersStay DEF CommitWrite, Answer
<1>8. CASE PutAndAnswer
  BY <1>8, PutKeepsAnswers
<1>9. ASSUME NEW i \in up, SessionEnds(i)
      PROVE  DbAnswers'
  BY <1>9, AnswersStay DEF SessionEnds, RequestKey
<1>10. CASE mtpscript_db_pool_free
  BY <1>10, AnswersStay DEF mtpscript_db_pool_free, RequestKey
<1>11. CASE mtpscript_db_cache_free
  BY <1>11 DEF mtpscript_db_cache_free, DbAnswers, DistinctKeys
<1>12. CASE Crash
  BY <1>12 DEF Crash, DbAnswers, DistinctKeys
<1>13. QED
  BY <1>1, <1>2, <1>3, <1>4, <1>5, <1>6, <1>7, <1>8, <1>9, <1>10, <1>11, <1>12 DEF DbNext, AnyDbSeed

\* What steps other than these do to the writes and their history.
LEMMA WritesStay ==
  ASSUME DbNext
  PROVE  \/ UNCHANGED <<commit, applied, audited, redone, dbCache>>
         \/ ExecuteWrite \/ mtpscript_log_write \/ CommitWrite \/ PutAndAnswer
         \/ mtpscript_db_cache_free \/ Crash
BY DEF DbNext, Call, GetConnection, ReadQuery, BeginWrite, SessionEnds,
       mtpscript_db_pool_free, server

\* A write becomes durable while its handler runs, at the earliest at the
\* statement if it commits by itself, otherwise at the commit.
LEMMA AppliedByHandler ==
  ASSUME ExecuteWrite \/ CommitWrite
  PROVE  /\ UNCHANGED <<commit, audited, dbCache, dbSeeded, dbAnswered>>
         /\ dbPc \in {"exec", "commit"}
         /\ \/ UNCHANGED <<applied, redone>>
            \/ /\ Apply(cur.seed)
               /\ dbPc = "exec" => commit = "implicit"
BY DEF ExecuteWrite, CommitWrite, server

\* The log, whatever the step: a write that waits for its commit becomes
\* durable after its entry.
LEMMA DbAuditKept ==
  ASSUME DbInv, DbNext
  PROVE  (applied \subseteq audited \/ commit = "implicit")'
<1> USE DEF WritesAreAudited
<1>1. CASE UNCHANGED <<commit, applied, audited, redone, dbCache>>
  BY <1>1 DEF DbInv
<1>2. CASE ExecuteWrite \/ CommitWrite
  BY <1>2, AppliedByHandler DEF Apply, DbInv, DbHandler
<1>3. CASE mtpscript_log_write
  BY <1>3 DEF mtpscript_log_write, server, DbInv
<1>4. CASE PutAndAnswer \/ mtpscript_db_cache_free \/ Crash
  BY <1>4 DEF PutAndAnswer, mtpscript_db_cache_free, Crash, server, DbInv
<1>5. QED
  BY <1>1, <1>2, <1>3, <1>4, WritesStay

\* What the script is told, whatever the step: an answer is given, and kept in
\* the cache, after the entry was written; a replay comes from the cache.
LEMMA DbToldKept ==
  ASSUME DbInv, DbNext
  PROVE  ToldIsAudited'
<1> USE DEF ToldIsAudited
<1>0. ToldIsAudited /\ DbTypeOK /\ DbHandler
  BY DEF DbInv, WritesAreAudited
<1>1. ASSUME NEW op \in {"read", "write"}, NEW s \in AnyDbSeed, Call(op, s)
      PROVE  ToldIsAudited'
  <2>1. UNCHANGED <<dbCache, audited, dbAnswered>>
    BY <1>1 DEF Call
  <2>2. CASE dbSeeded' /\ Cached(dbCache, RequestKey(op, s))
    <3>1. PICK i \in DOMAIN dbCache : dbCache[i].key = RequestKey(op, s)
      BY <2>2 DEF Cached
    <3>2. op = "write" => s \in audited
      BY <1>0, <3>1 DEF RequestKey
    <3>3. dbOut'.op = op /\ dbOut'.seed = s
      BY <1>1, <2>2 DEF Call
    <3>4. QED
      BY <1>0, <2>1, <3>2, <3>3
  <2>3. CASE ~(dbSeeded' /\ Cached(dbCache, RequestKey(op, s)))
    BY <1>0, <1>1, <2>1, <2>3 DEF Call, NoOut
  <2>4. QED
    BY <2>2, <2>3
<1>2. CASE GetConnection
  BY <1>0, <1>2 DEF GetConnection, Fail, Answer
<1>3. CASE ReadQuery
  BY <1>0, <1>3 DEF ReadQuery, Fail, Answer
<1>4. CASE BeginWrite
  BY <1>0, <1>4 DEF BeginWrite, Fail, Answer
<1>5. CASE ExecuteWrite
  BY <1>0, <1>5 DEF ExecuteWrite, Fail, Answer
<1>6. CASE mtpscript_log_write
  BY <1>0, <1>6 DEF mtpscript_log_write
<1>7. CASE CommitWrite
  BY <1>0, <1>7 DEF CommitWrite, Answer
<1>8. CASE PutAndAnswer
  <2>1. audited' = audited /\ (cur.op = "write" => cur.seed \in audited)
    BY <1>0, <1>8 DEF PutAndAnswer, DbHandler
  <2>2. dbAnswered' \subseteq audited /\ dbOut'.op = cur.op /\ dbOut'.seed = cur.seed
    BY <1>0, <1>8, <2>1 DEF PutAndAnswer
  <2>3. \A i \in DOMAIN dbCache' : \/ i \in DOMAIN dbCache /\ dbCache'[i] = dbCache[i]
                                   \/ dbCache'[i].key = RequestKey(cur.op, cur.seed)
    BY <1>8, PutAdds
  <2>4. \A i \in DOMAIN dbCache' : dbCache'[i].key.op = "write" => dbCache'[i].key.seed \in audited
    BY <1>0, <2>1, <2>3 DEF RequestKey
  <2>5. QED
    BY <2>1, <2>2, <2>4
<1>9. ASSUME NEW i \in up, SessionEnds(i)
      PROVE  ToldIsAudited'
  BY <1>0, <1>9 DEF SessionEnds
<1>10. CASE mtpscript_db_pool_free
  BY <1>0, <1>10 DEF mtpscript_db_pool_free, NoOut
<1>11. CASE mtpscript_db_cache_free
  BY <1>0, <1>11 DEF mtpscript_db_cache_free, NoOut
<1>12. CASE Crash
  BY <1>0, <1>12 DEF Crash, NoOut
<1>13. QED
  BY <1>1, <1>2, <1>3, <1>4, <1>5, <1>6, <1>7, <1>8, <1>9, <1>10, <1>11, <1>12 DEF DbNext, AnyDbSeed

\* Retries, whatever the step: a handler that applies what was answered
\* before has missed it in a cache that had no room for it.
LEMMA DbRetryKept ==
  ASSUME DbInv, DbNext
  PROVE  RetryIsReplayed'
<1>1. CASE UNCHANGED <<commit, applied, audited, redone, dbCache>>
  BY <1>1 DEF DbInv, RetryIsReplayed
<1>2. CASE ExecuteWrite \/ CommitWrite
  <2>1. redone' \subseteq redone \cup ({cur.seed} \cap dbAnswered)
    BY <1>2, AppliedByHandler DEF Apply
  <2>2. /\ cur.op = "write" /\ cur.seed \in DbSeeds \cup {ShortSeed}
        /\ cur.seed \in DbSeeds => ~Cached(dbCache, RequestKey("write", cur.seed))
    BY <1>2, AppliedByHandler DEF DbInv, DbTypeOK, DbHandler, DbAnswers
  <2>3. cur.seed \in dbAnswered => cur.seed = ShortSeed \/ Len(dbCache) = CacheSize
    BY <2>2 DEF DbInv, DbAnswers
  <2>4. QED
    BY <1>2, <2>1, <2>3, AppliedByHandler DEF DbInv, RetryIsReplayed
<1>3. CASE mtpscript_log_write
  BY <1>3 DEF mtpscript_log_write, DbInv, RetryIsReplayed
<1>4. CASE PutAndAnswer
  <2>1. Len(dbCache) = CacheSize => dbCache' = dbCache
    BY <1>4, PutStores DEF StoredIn
  <2>2. redone' = redone
    BY <1>4 DEF PutAndAnswer
  <2>3. QED
    BY <2>1, <2>2 DEF DbInv, RetryIsReplayed
<1>5. CASE mtpscript_db_cache_free \/ Crash
  BY <1>5 DEF mtpscript_db_cache_free, Crash, RetryIsReplayed
<1>6. QED
  BY <1>1, <1>2, <1>3, <1>4, <1>5, WritesStay

LEMMA DbNextInv == DbInv /\ [DbNext]_dbVars => DbInv'
<1> SUFFICES ASSUME DbInv, [DbNext]_dbVars PROVE DbInv'
  OBVIOUS
<1>1. CASE DbNext
  BY <1>1, DbTypesKept, DbHandlerKept, DbAnswersKept, DbSessionsKept, DbRetryKept, DbAuditKept,
     DbToldKept
  DEF DbInv, WritesAreAudited
<1>2. CASE UNCHANGED dbVars
  BY <1>2 DEF dbVars, DbInv, DbTypeOK, DbHandler, DbAnswers, DbSessions, RetryIsReplayed,
              WritesAreAudited, ToldIsAudited, OpenSlots, UsesPooledConnection, Mine, DistinctKeys, Cached
<1>3. QED
  BY <1>1, <1>2

\* The strengthened invariant of the database handlers.
THEOREM DbInvariant == DbSpec => []DbInv
BY DbInitInv, DbNextInv, PTL DEF DbSpec

\* The pool, the cache and the handlers are well typed, and within their bounds.
THEOREM DbTypeCorrect == DbSpec => []DbTypeOK
<1>1. DbInv => DbTypeOK
  BY DEF DbInv
<1>2. QED
  BY <1>1, DbInvariant, PTL

\* Whatever step of DbRead or DbWrite a session, a commit or the process ends
\* at: one connection is open at most, it is the one the handler uses, and no
\* transaction is left behind for the next handler.
THEOREM SessionsAlwaysClean == DbSpec => []SessionsAreClean
<1>1. DbInv => SessionsAreClean
  <2> SUFFICES ASSUME DbInv PROVE SessionsAreClean
    OBVIOUS
  <2>1. \A i, j \in OpenSlots : i = j
    BY DEF DbInv, DbSessions
  <2>2. OneOpenConnection
    <3>1. CASE OpenSlots = {}
      BY <3>1, FS_EmptySet DEF OneOpenConnection
    <3>2. CASE OpenSlots # {}
      <4>1. PICK i : OpenSlots = {i}
        BY <2>1, <3>2
      <4>2. QED
        BY <4>1, FS_Singleton DEF OneOpenConnection
    <3>3. QED
      BY <3>1, <3>2
  <2>3. QED
    BY <2>2 DEF DbInv, DbSessions, NoOpenTransaction, SessionsAreClean
<1>2. QED
  BY <1>1, DbInvariant, PTL

\* Whatever a script is told is done is in the audit log, for statements that
\* commit by themselves and those that do not, whenever a session or the
\* process dies.
THEOREM AnswersAlwaysAudited == DbSpec => []WritesAreAudited
<1>1. DbInv => WritesAreAudited
  BY DEF DbInv
<1>2. QED
  BY <1>1, DbInvariant, PTL

\* Every step of the database handlers is a step of Memo or leaves it alone.
LEMMA DbMemoStep ==
  ASSUME DbInv, [DbNext]_dbVars
  PROVE  [DbM!Next]_(MemoOf(dbCache))
<1>1. CASE dbCache' = dbCache
  BY <1>1
<1>2. CASE PutAndAnswer
  <2> DEFINE k == RequestKey(cur.op, cur.seed)
  <2>1. PICK v \in Result :
           IF dbSeeded
           THEN StoredIn(dbCache, dbCache', Entry(Request, Result), CacheSize, k, v)
           ELSE /\ dbCache' = dbCache
                /\ dbCache \in Seq(Entry(Request, Result)) /\ Len(dbCache) <= CacheSize
    BY <1>2, PutStores
  <2>2. CASE ~dbSeeded
    BY <1>1, <2>1, <2>2
  <2>3. CASE dbSeeded
    <3>1. k \in Request
      BY DEF DbInv, DbTypeOK, RequestKey, Request
    <3>2. ~Cached(dbCache, k)
      BY <1>2, <2>3 DEF PutAndAnswer, DbInv, DbAnswers
    <3>3. dbCache \in Seq(Entry(Request, Result)) /\ DistinctKeys(dbCache)
      BY DEF DbInv, DbTypeOK, DbAnswers, Entry
    <3>4. StoredIn(dbCache, dbCache', Entry(Request, Result), CacheSize, k, v)
      BY <2>1, <2>3
    <3> HIDE DEF k
    <3>5. dbCache' = dbCache \/ MemoExtends(dbCache, dbCache', k, v)
      BY <3>1, <3>2, <3>3, <3>4, StoredExtends
    <3>6. MemoOf(dbCache)' = MemoOf(dbCache')
      BY DEF MemoOf, Lookup, FirstHit
    <3>7. CASE MemoExtends(dbCache, dbCache', k, v)
      <4>1. DbM!Record(k, v)
        BY <3>6, <3>7 DEF DbM!Record, MemoExtends
      <4>2. QED
        BY <3>1, <4>1 DEF DbM!Next
    <3>8. QED
      BY <1>1, <3>5, <3>7
  <2>4. QED
    BY <2>2, <2>3
<1>3. CASE mtpscript_db_cache_free \/ Crash
  <2>1. MemoOf(dbCache)' = MemoOf(<<>>)
    BY <1>3 DEF mtpscript_db_cache_free, Crash, MemoOf, Lookup, FirstHit
  <2>2. DbM!Forget
    BY <2>1, MemoOfNothing DEF DbM!Forget, DbM!Empty
  <2>3. QED
    BY <2>2 DEF DbM!Next
<1>4. CASE ExecuteWrite \/ mtpscript_log_write \/ CommitWrite \/ UNCHANGED dbVars
  BY <1>1, <1>4 DEF ExecuteWrite, mtpscript_log_write, CommitWrite, dbVars
<1>5. QED
  BY <1>1, <1>2, <1>3, <1>4, WritesStay

\* The cache of the database handlers implements Memo.
LEMMA DbCacheIsMemo == DbSpec => DbReplayIsMemo
<1>1. DbInit => DbM!Init
  BY MemoOfNothing DEF DbInit, DbM!Init, DbM!Empty
<1>2. DbInv /\ [DbNext]_dbVars => [DbM!Next]_(MemoOf(dbCache))
  BY DbMemoStep
<1>3. QED
  BY <1>1, <1>2, DbInvariant, PTL DEF DbSpec, DbReplayIsMemo, DbM!Spec

(***************************************************************************)
(* HTTP.                                                                   *)
(***************************************************************************)

\* A seed that arms the cache has armed it; between two requests there is no
\* response; while chunks are taken the body has what was sent, but for what a
\* NUL hides; a transfer that is over was whole or has left its error; while a
\* handler runs nothing has been answered.
HttpHandler ==
    /\ httpPc # "idle" /\ httpSeed \in HttpSeeds => httpSeeded
    /\ httpPc \in {"idle", "execute"} => body = NoBody /\ hidden = 0 /\ sent = 0
    /\ body.null => BodyLength = 0
    /\ httpPc = "transfer" => body.text + hidden = sent
    /\ httpPc = "convert" => error \/ (ended /\ body.text + hidden = sent)
    /\ httpPc # "idle" => httpOut = NoAnswer

\* A handler runs because its answer was not in the cache; and what was
\* answered before is.
HttpAnswers ==
    /\ DistinctKeys(httpCache)
    /\ httpPc # "idle" /\ httpSeeded => ~Cached(httpCache, httpSeed)
    /\ \A s \in httpAnswered : \/ s = ShortSeed \/ Len(httpCache) = CacheSize
                               \/ Cached(httpCache, s)

HttpInv == HttpTypeOK /\ HttpHandler /\ HttpAnswers /\ RequestedOnce /\ AnswersAreWhole

\* A length that is zero or not above the limit is within it.
LEMMA WithinLimit ==
  \A n, m \in Nat : n = 0 \/ ~(n > m) => n <= m
OBVIOUS

\* The bodies the handler makes.
LEMMA BodyTypes ==
  /\ NoBody \in Body /\ NoBody.garbage = 0 /\ NoBody.text = 0
  /\ \A g, n \in Nat : [null |-> FALSE, garbage |-> g, text |-> n] \in Body
<1>1. TRUE \in BOOLEAN /\ FALSE \in BOOLEAN /\ 0 \in Nat
  OBVIOUS
<1>2. QED
  BY <1>1, Zenon DEF NoBody, Body

\* The parts of a body are numbers.
LEMMA BodyParts ==
  ASSUME HttpTypeOK
  PROVE  body.garbage \in Nat /\ body.text \in Nat /\ hidden \in Nat /\ sent \in Nat /\ BodyLength \in Nat
BY HttpAssumption DEF HttpTypeOK, Body, BodyLength

\* A server's status is the one a transfer without error is given.
LEMMA ConvertedStatus ==
  ASSUME NEW v \in Converted
  PROVE  v \in Response /\ (v.status = "server's" => ~error)
<1>1. NoObject \in Response /\ NoObject.status = "none"
  BY DEF NoObject, Response
<1>2. CASE v = NoObject
  BY <1>1, <1>2
<1>3. CASE v # NoObject
  <2>1. v \in Response /\ v.status # (IF error THEN "server's" ELSE "zero")
    BY <1>3 DEF Converted
  <2>2. QED
    BY <2>1
<1>4. QED
  BY <1>2, <1>3

LEMMA HttpInitInv == HttpInit => HttpInv
<1> SUFFICES ASSUME HttpInit PROVE HttpInv
  OBVIOUS
<1> USE HttpAssumption, ReplayCacheAssumption
<1>1. httpCache \in Seq([key : AnySeed, value : Response]) /\ Len(httpCache) <= CacheSize
  BY DEF HttpInit
<1>2. HttpTypeOK
  <2>1. body \in Body /\ error \in BOOLEAN /\ ended \in BOOLEAN
    BY BodyTypes, Zenon DEF HttpInit
  <2>2. sent \in 0 .. MaxSent /\ httpSeed \in AnySeed /\ httpAnswered \subseteq AnySeed
    BY DEF HttpInit, AnySeed
  <2>3. QED
    BY <1>1, <2>1, <2>2 DEF HttpInit, HttpTypeOK
<1>3. HttpHandler /\ AnswersAreWhole
  BY BodyTypes DEF HttpInit, HttpHandler, BodyLength, NoAnswer, AnswersAreWhole, AnswerWithinLimit,
         StatusOfWhole
<1>4. HttpAnswers /\ RequestedOnce
  BY DEF HttpInit, HttpAnswers, RequestedOnce, DistinctKeys
<1>5. QED
  BY <1>2, <1>3, <1>4 DEF HttpInv

\* Convert stores a response under a seed that is not in the cache, or nothing.
LEMMA ConvertStores ==
  ASSUME HttpInv, Convert
  PROVE  \/ UNCHANGED <<httpCache, httpAnswered>>
         \/ /\ httpAnswered' = httpAnswered \cup {httpSeed}
            /\ \E v \in Response :
                  IF httpSeeded
                  THEN /\ ~Cached(httpCache, httpSeed)
                       /\ StoredIn(httpCache, httpCache', Entry(AnySeed, Response), CacheSize,
                                   httpSeed, v)
                  ELSE httpCache' = httpCache
<1>1. CASE BodyTooLarge
  BY <1>1 DEF Convert
<1>2. CASE ~BodyTooLarge
  <2>1. PICK v \in Converted : mtpscript_http_cache_put(v)
    BY <1>2 DEF Convert
  <2>2. httpAnswered' = httpAnswered \cup {httpSeed}
    BY <1>2 DEF Convert
  <2>3. v \in Response
    BY ConvertedStatus
  <2>4. CASE httpSeeded
    <3>1. /\ httpCache \in Seq(Entry(AnySeed, Response)) /\ Len(httpCache) <= CacheSize
          /\ DistinctKeys(httpCache) /\ CacheSize \in Nat /\ httpSeed \in AnySeed
      BY ReplayCacheAssumption DEF HttpInv, HttpTypeOK, HttpAnswers, Entry
    <3>2. ~Cached(httpCache, httpSeed)
      BY <2>4 DEF Convert, HttpInv, HttpAnswers
    <3>3. httpCache' = Store(httpCache, CacheSize, httpSeed, v)
      BY <2>1, <2>4 DEF mtpscript_http_cache_put
    <3>4. StoredIn(httpCache, httpCache', Entry(AnySeed, Response), CacheSize, httpSeed, v)
      BY <2>3, <3>1, <3>2, <3>3, StoreAbsent
    <3>5. QED
      BY <2>2, <2>3, <2>4, <3>2, <3>4
  <2>5. CASE ~httpSeeded
    BY <2>1, <2>2, <2>3, <2>5 DEF mtpscript_http_cache_put
  <2>6. QED
    BY <2>4, <2>5
<1>3. QED
  BY <1>1, <1>2

\* Types, whatever the step.
LEMMA HttpTypesKept ==
  ASSUME HttpInv, HttpNext
  PROVE  HttpTypeOK'
<1> USE HttpAssumption, ReplayCacheAssumption
<1>0. HttpTypeOK
  BY DEF HttpInv
<1>1. ASSUME NEW s \in AnySeed, mtpscript_http_out(s)
      PROVE  HttpTypeOK'
  BY <1>0, <1>1 DEF mtpscript_http_out, HttpTypeOK, resp, httpHistory
<1>2. CASE mtpscript_http_request_execute
  BY <1>0, <1>2 DEF mtpscript_http_request_execute, HttpTypeOK, resp
<1>3. ASSUME NEW c \in Chunks, http_write_callback(c)
      PROVE  HttpTypeOK'
  <2>1. c.size \in Nat /\ c.text \in Nat
    OBVIOUS
  <2>2. sent' \in 0 .. MaxSent
    BY <1>0, <1>3, <2>1 DEF http_write_callback, HttpTypeOK
  <2>3. Garbage \subseteq Nat /\ body.text \in Nat /\ hidden \in Nat
    BY <1>0, BodyParts DEF Garbage
  <2>4. CASE RefuseChunk
    BY <1>0, <1>3, <2>2, <2>4 DEF http_write_callback, RefuseChunk, HttpTypeOK, httpHistory
  <2>5. CASE ~RefuseChunk
    <3>1. PICK g \in Garbage : body' = [null |-> FALSE, garbage |-> g, text |-> body.text + c.text]
      BY <1>3, <2>5 DEF http_write_callback
    <3>2. g \in Nat /\ body.text + c.text \in Nat
      BY <2>1, <2>3
    <3>3. body' \in Body
      BY <3>1, <3>2, BodyTypes
    <3>4. hidden' \in Nat
      <4>1. hidden' = hidden + c.size - c.text /\ c.text <= c.size
        BY <1>3, <2>5 DEF http_write_callback
      <4>2. QED
        BY <2>1, <2>3, <4>1
    <3>5. QED
      BY <1>0, <1>3, <2>2, <2>5, <3>3, <3>4 DEF http_write_callback, HttpTypeOK, httpHistory
  <2>6. QED
    BY <2>4, <2>5
<1>4. CASE TransferEnds \/ TransferFails
  BY <1>0, <1>4 DEF TransferEnds, TransferFails, HttpTypeOK, httpHistory
<1>5. CASE Convert
  <2>1. httpCache' \in Seq([key : AnySeed, value : Response]) /\ Len(httpCache') <= CacheSize
    BY <1>0, <1>5, ConvertStores DEF StoredIn, Entry, HttpTypeOK
  <2>2. httpAnswered' \subseteq AnySeed /\ httpAgain' \subseteq httpAnswered'
    BY <1>0, <1>5, ConvertStores DEF Convert, HttpTypeOK
  <2>3. body' \in Body /\ hidden' \in Nat /\ sent' \in 0 .. MaxSent
    BY <1>5, BodyTypes DEF Convert
  <2>4. QED
    BY <1>0, <1>5, <2>1, <2>2, <2>3 DEF Convert, HttpTypeOK
<1>6. CASE mtpscript_http_cache_free
  <2>1. httpCache' \in Seq([key : AnySeed, value : Response]) /\ Len(httpCache') <= CacheSize
    BY <1>6 DEF mtpscript_http_cache_free
  <2>2. QED
    BY <1>0, <1>6, <2>1 DEF mtpscript_http_cache_free, HttpTypeOK, resp
<1>7. QED
  BY <1>1, <1>2, <1>3, <1>4, <1>5, <1>6 DEF HttpNext

\* The handler and what it answers, whatever the step: an answer comes from
\* Convert, which looks at the length again and at the error.
LEMMA HttpHandlerKept ==
  ASSUME HttpInv, HttpNext
  PROVE  HttpHandler' /\ AnswersAreWhole'
<1> USE HttpAssumption
<1> USE DEF AnswersAreWhole, AnswerWithinLimit, StatusOfWhole
<1>0. HttpHandler /\ HttpTypeOK
  BY DEF HttpInv
<1>1. ASSUME NEW s \in AnySeed, mtpscript_http_out(s)
      PROVE  HttpHandler' /\ AnswersAreWhole'
  <2>1. /\ httpPc' # "idle" => httpOut' = NoAnswer
        /\ httpPc' \in {"idle", "execute"} /\ httpPc = "idle" /\ httpOut'.result # "ok"
    BY <1>1 DEF mtpscript_http_out, NoAnswer
  <2>2. httpSeed' \in HttpSeeds => httpSeeded'
    BY <1>1 DEF mtpscript_http_out
  <2>3. UNCHANGED resp
    BY <1>1 DEF mtpscript_http_out
  <2>4. QED
    BY <1>0, <2>1, <2>2, <2>3 DEF HttpHandler, BodyLength, resp
<1>2. CASE mtpscript_http_request_execute
  BY <1>0, <1>2, BodyTypes DEF mtpscript_http_request_execute, HttpHandler, NoAnswer, resp, BodyLength
<1>3. ASSUME NEW c \in Chunks, http_write_callback(c)
      PROVE  HttpHandler' /\ AnswersAreWhole'
  <2>0. /\ httpPc = "transfer" /\ sent' = sent + c.size
        /\ UNCHANGED <<httpSeeded, httpSeed, ended, httpOut>>
    BY <1>3 DEF http_write_callback
  <2>1. CASE RefuseChunk
    BY <1>0, <2>0, <2>1 DEF RefuseChunk, HttpHandler, NoAnswer, BodyLength
  <2>2. CASE ~RefuseChunk
    <3>1. PICK g \in Garbage : body' = [null |-> FALSE, garbage |-> g, text |-> body.text + c.text]
      BY <1>3, <2>2 DEF http_write_callback
    <3>2. hidden' = hidden + c.size - c.text /\ httpPc' = "transfer"
      BY <1>3, <2>0, <2>2 DEF http_write_callback
    <3>3. c.size \in Nat /\ c.text \in Nat
      OBVIOUS
    <3>4. body'.text + hidden' = sent'
      BY <1>0, <2>0, <3>1, <3>2, <3>3, BodyParts DEF HttpHandler
    <3>5. QED
      BY <1>0, <2>0, <3>1, <3>2, <3>4 DEF HttpHandler, NoAnswer
  <2>3. QED
    BY <2>1, <2>2
<1>4. CASE TransferEnds \/ TransferFails
  BY <1>0, <1>4 DEF TransferEnds, TransferFails, HttpHandler, NoAnswer, BodyLength
<1>5. CASE Convert
  <2>1. /\ httpPc' = "idle" /\ body' = NoBody /\ hidden' = 0 /\ sent' = 0
        /\ error \/ (ended /\ body.text + hidden = sent)
    BY <1>0, <1>5 DEF Convert, HttpHandler
  <2>2. HttpHandler'
    BY <2>1, BodyTypes DEF HttpHandler, BodyLength
  <2>3. CASE BodyTooLarge
    BY <1>5, <2>2, <2>3 DEF Convert
  <2>4. CASE ~BodyTooLarge
    <3>1. PICK v \in Converted :
             httpOut' = [result |-> "ok", value |-> v, length |-> BodyLength,
                         ended |-> ended, dropped |-> sent - body.text - hidden]
      BY <1>5, <2>4 DEF Convert
    <3>2. BodyLength <= MaxResponse
      <4>1. body.null \/ ~(BodyLength > MaxResponse)
        BY <2>4, Zenon DEF BodyTooLarge
      <4>2. body.null => BodyLength = 0
        BY <1>0, Zenon DEF HttpHandler
      <4>3. BodyLength \in Nat /\ MaxResponse \in Nat
        BY <1>0, BodyParts
      <4>4. BodyLength = 0 \/ ~(BodyLength > MaxResponse)
        BY <4>1, <4>2, Zenon
      <4>5. QED
        BY <4>3, <4>4, WithinLimit, Zenon
    <3>3. v.status = "server's" => ended /\ sent - body.text - hidden = 0
      BY <1>0, <2>1, BodyParts, ConvertedStatus
    <3>4. AnswersAreWhole'
      BY <3>1, <3>2, <3>3
    <3>5. QED
      BY <2>2, <3>4
  <2>5. QED
    BY <2>3, <2>4
<1>6. CASE mtpscript_http_cache_free
  BY <1>0, <1>6 DEF mtpscript_http_cache_free, HttpHandler, resp, NoAnswer, BodyLength
<1>7. QED
  BY <1>1, <1>2, <1>3, <1>4, <1>5, <1>6 DEF HttpNext

\* The answers, whatever the step.
LEMMA HttpAnswersKept ==
  ASSUME HttpInv, HttpNext
  PROVE  HttpAnswers'
<1>1. ASSUME NEW s \in AnySeed, mtpscript_http_out(s)
      PROVE  HttpAnswers'
  BY <1>1 DEF mtpscript_http_out, HttpInv, HttpAnswers, httpHistory
<1>2. CASE mtpscript_http_request_execute
  BY <1>2 DEF mtpscript_http_request_execute, HttpInv, HttpAnswers
<1>3. ASSUME NEW c \in Chunks, http_write_callback(c)
      PROVE  HttpAnswers'
  BY <1>3 DEF http_write_callback, HttpInv, HttpAnswers, httpHistory
<1>4. CASE TransferEnds \/ TransferFails
  BY <1>4 DEF TransferEnds, TransferFails, HttpInv, HttpAnswers, httpHistory
<1>5. CASE Convert
  <2>0. HttpAnswers /\ httpPc' = "idle" /\ (httpSeed \in HttpSeeds => httpSeeded)
        /\ httpSeed \in HttpSeeds \cup {ShortSeed}
    BY <1>5 DEF Convert, HttpInv, HttpHandler, HttpTypeOK, AnySeed
  <2>1. CASE UNCHANGED <<httpCache, httpAnswered>>
    BY <2>0, <2>1 DEF HttpAnswers
  <2>2. CASE httpAnswered' = httpAnswered \cup {httpSeed} /\ ~httpSeeded /\ httpCache' = httpCache
    BY <2>0, <2>2 DEF HttpAnswers
  <2>3. ASSUME NEW v \in Response, httpAnswered' = httpAnswered \cup {httpSeed},
               StoredIn(httpCache, httpCache', Entry(AnySeed, Response), CacheSize, httpSeed, v)
        PROVE  HttpAnswers'
    <3>1. /\ DistinctKeys(httpCache') /\ DOMAIN httpCache \subseteq DOMAIN httpCache'
          /\ \A j \in DOMAIN httpCache : httpCache'[j] = httpCache[j]
          /\ Len(httpCache') < CacheSize => Cached(httpCache', httpSeed)
          /\ Len(httpCache) = CacheSize => httpCache' = httpCache
          /\ httpCache' \in Seq(Entry(AnySeed, Response)) /\ Len(httpCache') <= CacheSize
      BY <2>3 DEF StoredIn
    <3>2. Len(httpCache') = CacheSize \/ Cached(httpCache', httpSeed)
      BY <3>1, ReplayCacheAssumption
    <3>3. \A s \in httpAnswered : \/ s = ShortSeed \/ Len(httpCache') = CacheSize
                                  \/ Cached(httpCache', s)
      BY <2>0, <3>1 DEF HttpAnswers, Cached
    <3>4. QED
      BY <2>0, <2>3, <3>1, <3>2, <3>3 DEF HttpAnswers
  <2>4. QED
    BY <1>5, <2>1, <2>2, <2>3, ConvertStores
<1>6. CASE mtpscript_http_cache_free
  BY <1>6 DEF mtpscript_http_cache_free, HttpAnswers, DistinctKeys
<1>7. QED
  BY <1>1, <1>2, <1>3, <1>4, <1>5, <1>6 DEF HttpNext

\* Retries, whatever the step.
LEMMA HttpRetryKept ==
  ASSUME HttpInv, HttpNext
  PROVE  RequestedOnce'
<1>1. CASE mtpscript_http_request_execute
  <2>1. httpSeed \in httpAnswered => httpSeed = ShortSeed \/ Len(httpCache) = CacheSize
    BY <1>1 DEF mtpscript_http_request_execute, HttpInv, HttpHandler, HttpAnswers, HttpTypeOK,
                AnySeed
  <2>2. QED
    BY <1>1, <2>1 DEF mtpscript_http_request_execute, HttpInv, RequestedOnce
<1>2. CASE Convert
  <2>1. Len(httpCache) = CacheSize => httpCache' = httpCache
    BY <1>2, ConvertStores DEF StoredIn
  <2>2. httpAgain' = httpAgain
    BY <1>2 DEF Convert
  <2>3. QED
    BY <2>1, <2>2 DEF HttpInv, RequestedOnce
<1>3. CASE mtpscript_http_cache_free
  BY <1>3 DEF mtpscript_http_cache_free, RequestedOnce
<1>4. CASE UNCHANGED <<httpCache, httpAgain>>
  BY <1>4 DEF HttpInv, RequestedOnce
<1>5. QED
  BY <1>1, <1>2, <1>3, <1>4
  DEF HttpNext, mtpscript_http_out, http_write_callback, TransferEnds, TransferFails, httpHistory

LEMMA HttpNextInv == HttpInv /\ [HttpNext]_httpVars => HttpInv'
<1> SUFFICES ASSUME HttpInv, [HttpNext]_httpVars PROVE HttpInv'
  OBVIOUS
<1>1. CASE HttpNext
  BY <1>1, HttpTypesKept, HttpHandlerKept, HttpAnswersKept, HttpRetryKept DEF HttpInv
<1>2. CASE UNCHANGED httpVars
  BY <1>2 DEF httpVars, HttpInv, HttpTypeOK, HttpHandler, HttpAnswers, RequestedOnce,
              AnswersAreWhole, AnswerWithinLimit, StatusOfWhole, BodyLength, DistinctKeys, Cached
<1>3. QED
  BY <1>1, <1>2

\* The strengthened invariant of the HTTP handler.
THEOREM HttpInvariant == HttpSpec => []HttpInv
BY HttpInitInv, HttpNextInv, PTL DEF HttpSpec

\* The response, the cache and the handler are well typed, within their bounds.
THEOREM HttpTypeCorrect == HttpSpec => []HttpTypeOK
<1>1. HttpInv => HttpTypeOK
  BY DEF HttpInv
<1>2. QED
  BY <1>1, HttpInvariant, PTL

\* Whatever the server sends, whatever is in the fresh buffer and wherever the
\* transfer breaks off, and whatever field finds no memory: HttpOut returns no
\* body above the limit, and a status of the server only with all its bytes, but
\* for those a NUL hides.
THEOREM AnswersAlwaysWhole == HttpSpec => []AnswersAreWhole
<1>1. HttpInv => AnswersAreWhole
  BY DEF HttpInv
<1>2. QED
  BY <1>1, HttpInvariant, PTL

\* Every step of the HTTP handler is a step of Memo or leaves it alone.
LEMMA HttpMemoStep ==
  ASSUME HttpInv, [HttpNext]_httpVars
  PROVE  [HttpM!Next]_(MemoOf(httpCache))
<1>1. CASE httpCache' = httpCache
  BY <1>1
<1>2. ASSUME NEW v \in Response, ~Cached(httpCache, httpSeed),
             StoredIn(httpCache, httpCache', Entry(AnySeed, Response), CacheSize, httpSeed, v)
      PROVE  [HttpM!Next]_(MemoOf(httpCache))
  <2>1. /\ httpCache \in Seq(Entry(AnySeed, Response)) /\ DistinctKeys(httpCache)
        /\ httpSeed \in AnySeed
    BY DEF HttpInv, HttpTypeOK, HttpAnswers, Entry
  <2>2. httpCache' = httpCache \/ MemoExtends(httpCache, httpCache', httpSeed, v)
    BY <1>2, <2>1, StoredExtends
  <2>3. MemoOf(httpCache)' = MemoOf(httpCache')
    BY DEF MemoOf, Lookup, FirstHit
  <2>4. CASE MemoExtends(httpCache, httpCache', httpSeed, v)
    <3>1. HttpM!Record(httpSeed, v)
      BY <2>3, <2>4 DEF HttpM!Record, MemoExtends
    <3>2. QED
      BY <2>1, <3>1 DEF HttpM!Next
  <2>5. QED
    BY <1>1, <2>2, <2>4
<1>3. CASE Convert
  BY <1>1, <1>2, <1>3, ConvertStores
<1>4. CASE mtpscript_http_cache_free
  <2>1. MemoOf(httpCache)' = MemoOf(<<>>)
    BY <1>4 DEF mtpscript_http_cache_free, MemoOf, Lookup, FirstHit
  <2>2. HttpM!Forget
    BY <2>1, MemoOfNothing DEF HttpM!Forget, HttpM!Empty
  <2>3. QED
    BY <2>2 DEF HttpM!Next
<1>5. QED
  BY <1>1, <1>3, <1>4
  DEF HttpNext, mtpscript_http_out, mtpscript_http_request_execute, http_write_callback,
      TransferEnds, TransferFails, httpVars

\* The cache of the HTTP handler implements Memo.
LEMMA HttpCacheIsMemo == HttpSpec => HttpReplayIsMemo
<1>1. HttpInit => HttpM!Init
  BY MemoOfNothing DEF HttpInit, HttpM!Init, HttpM!Empty
<1>2. HttpInv /\ [HttpNext]_httpVars => [HttpM!Next]_(MemoOf(httpCache))
  BY HttpMemoStep
<1>3. QED
  BY <1>1, <1>2, HttpInvariant, PTL DEF HttpSpec, HttpReplayIsMemo, HttpM!Spec

(***************************************************************************)
(* The three together.                                                     *)
(***************************************************************************)

\* io_cache, g_db_cache and g_http_cache all implement Memo: what a script was
\* once answered is never replaced, whatever the three families do meanwhile.
THEOREM RepliesAlwaysMemos == RepliesSpec => RepliesAreMemos
BY AsyncReplayIsMemo, DbCacheIsMemo, HttpCacheIsMemo DEF RepliesSpec, RepliesAreMemos

\* While its cache has room, neither DbWrite nor HttpOut sends again what this
\* process has answered for a seed, failures and results alike.
THEOREM RetriesAlwaysReplayed == RepliesSpec => []RetriesAreReplayed
<1>1. DbInv /\ HttpInv => RetriesAreReplayed
  BY DEF DbInv, HttpInv, RetriesAreReplayed
<1>2. QED
  BY <1>1, DbInvariant, HttpInvariant, PTL DEF RepliesSpec

=============================================================================
