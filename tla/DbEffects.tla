----------------------------- MODULE DbEffects -----------------------------
(***************************************************************************)
(* The DbRead and DbWrite handlers: core/db/mquickjs_db.c.                 *)
(*                                                                         *)
(* The connection pool and the replay cache are thread-local: they outlive *)
(* the JSContext that called the handler and die with the process.  A      *)
(* handler is a straight line of calls to the MySQL client; each of them   *)
(* may fail, the session behind a connection may end between any two, and  *)
(* so may the process.                                                     *)
(*                                                                         *)
(* The handlers run one fixed statement each, so a request is named by its *)
(* operation and its seed.  DbWrite's statement is a CREATE TABLE, which a *)
(* MySQL server commits by itself ("implicit"); the transaction code       *)
(* around it is written for statements that wait for the commit            *)
(* ("explicit").  Both are modelled.                                       *)
(***************************************************************************)
EXTENDS ReplayCache, FiniteSets

CONSTANTS
    DbSeeds,         \* 32-byte seeds; set_seed ignores the short one
    MaxConnections,  \* pool->max_connections (16)
    Commits          \* how the write's statement may be committed

ASSUME DbAssumption ==
    /\ ShortSeed \notin DbSeeds
    /\ MaxConnections \in Nat \ {0}
    /\ Commits \subseteq {"implicit", "explicit"}

VARIABLES
    commit,      \* how the statement of DbWrite is committed
    slots,       \* pool->connections[0 .. count - 1]: TRUE if not NULL
    dbCache,     \* g_db_cache->entries
    dbSeeded,    \* g_db_cache->has_seed
    dbPc, cur,   \* the running handler: its next step; operation, seed, slot
    up,          \* server: slots whose session is alive
    pending,     \* server: <<slot, seed>> of uncommitted writes
    applied,     \* server: seeds whose write is durable
    audited,     \* seeds with an audit entry in the log
    dbAnswered,  \* history: seeds whose write this process answered
    redone,      \* history: of these, the ones applied again afterwards
    dbOut        \* history: the last answer

dbVars == <<commit, slots, dbCache, dbSeeded, dbPc, cur, up, pending, applied,
            audited, dbAnswered, redone, dbOut>>

Request == [op : {"read", "write"}, seed : DbSeeds \cup {ShortSeed}]

\* The result object; its allocation may fail, and then JS_EXCEPTION is kept.
Result == {"result", "exception"}

NoOut == [result |-> "none"]

pool == <<slots, up>>
server == <<commit, pending, applied>>

----------------------------------------------------------------------------

DbInit ==
    /\ commit \in Commits
    /\ slots = <<>>
    /\ dbCache = <<>>
    /\ dbSeeded = FALSE
    /\ dbPc = "idle"
    /\ cur = [op |-> "read", seed |-> ShortSeed, slot |-> 0]
    /\ up = {} /\ pending = {} /\ applied = {}
    /\ audited = {} /\ dbAnswered = {} /\ redone = {}
    /\ dbOut = NoOut

RequestKey(op, s) == [op |-> op, seed |-> s]

\* The handler returns to the script.
Answer(op, s, fields) ==
    /\ dbPc' = "idle"
    /\ dbOut' = [result |-> fields, op |-> op, seed |-> s]

Fail == Answer(cur.op, cur.seed, "error")

\* A handler starts: set_seed takes a 32-byte seed only; cache_get finds
\* nothing before a first seed was set.
Call(op, s) ==
    /\ dbPc = "idle"
    /\ dbSeeded' = (dbSeeded \/ s \in DbSeeds)
    /\ cur' = [op |-> op, seed |-> s, slot |-> 0]
    /\ IF dbSeeded' /\ Cached(dbCache, RequestKey(op, s))
       THEN /\ dbPc' = "idle"
            /\ dbOut' = [result |-> "replayed", op |-> op, seed |-> s,
                       value |-> Lookup(dbCache, RequestKey(op, s))]
       ELSE /\ dbPc' = "connect"
            /\ dbOut' = NoOut
    /\ UNCHANGED <<pool, dbCache, server, audited, dbAnswered, redone>>

\* mtpscript_db_get_connection: the first slot that answers a ping is used;
\* the dead ones before it are closed and set to NULL, but stay counted.
Reuse ==
    \E i \in DOMAIN slots :
       /\ slots[i] /\ i \in up
       /\ \A j \in 1 .. (i - 1) : ~(slots[j] /\ j \in up)
       /\ slots' = [j \in DOMAIN slots |-> slots[j] /\ j >= i]
       /\ cur' = [cur EXCEPT !.slot = i]
       /\ UNCHANGED up

AllDead == \A i \in DOMAIN slots : ~(slots[i] /\ i \in up)

AllClosed == [i \in DOMAIN slots |-> FALSE]

Connect ==
    /\ AllDead
    /\ Len(slots) < MaxConnections
    /\ slots' = Append(AllClosed, TRUE)
    /\ up' = up \cup {Len(slots) + 1}
    /\ cur' = [cur EXCEPT !.slot = Len(slots) + 1]

\* mysql_init or mysql_real_connect failed, or no slot was left: the ones set
\* to NULL are never used again.
NoConnection ==
    /\ AllDead
    /\ slots' = AllClosed
    /\ UNCHANGED <<up, cur>>

GetConnection ==
    /\ dbPc = "connect"
    /\ \/ /\ Reuse \/ Connect
          /\ dbPc' = IF cur.op = "read" THEN "query" ELSE "begin"
          /\ UNCHANGED dbOut
       \/ NoConnection /\ Fail
    /\ UNCHANGED <<dbCache, dbSeeded, server, audited, dbAnswered, redone>>

Alive == cur.slot \in up

\* mysql_query and mysql_store_result of DbRead.
ReadQuery ==
    /\ dbPc = "query"
    /\ \/ /\ Alive
          /\ dbPc' = "put"
          /\ UNCHANGED dbOut
       \/ Fail
    /\ UNCHANGED <<pool, dbCache, dbSeeded, cur, server, audited,
                   dbAnswered, redone>>

\* mysql_autocommit(conn, 0).
BeginWrite ==
    /\ dbPc = "begin"
    /\ \/ /\ Alive
          /\ dbPc' = "exec"
          /\ UNCHANGED dbOut
       \/ Fail
    /\ UNCHANGED <<pool, dbCache, dbSeeded, cur, server, audited,
                   dbAnswered, redone>>

\* The write of seed s becomes durable.
Apply(s) ==
    /\ applied' = applied \cup {s}
    /\ redone' = redone \cup ({s} \cap dbAnswered)

Mine == {<<cur.slot, cur.seed>>}

\* mysql_query of DbWrite; on an error mysql_rollback, then the answer.  A
\* statement that commits by itself may have done so before its answer is
\* lost with the session.
ExecuteWrite ==
    /\ dbPc = "exec"
    /\ \/ /\ Alive
          /\ dbPc' = "audit"
          /\ IF commit = "implicit"
             THEN Apply(cur.seed) /\ UNCHANGED pending
             ELSE pending' = pending \cup Mine /\ UNCHANGED <<applied, redone>>
          /\ UNCHANGED <<up, dbOut>>
       \/ /\ Fail
          /\ UNCHANGED <<up, server, redone>>
       \/ /\ commit = "implicit" /\ Alive
          /\ Apply(cur.seed)
          /\ up' = up \ {cur.slot}
          /\ Answer("write", cur.seed, "error")
          /\ UNCHANGED pending
    /\ UNCHANGED <<commit, slots, dbCache, dbSeeded, cur, audited, dbAnswered>>

\* Fault of mtpscript_log_write: nowhere to log to, nothing logged.
mtpscript_log_write_Dropped ==
    /\ dbPc = "audit"
    /\ dbPc' = "commit"
    /\ UNCHANGED <<pool, dbCache, dbSeeded, cur, server, audited,
                   dbAnswered, redone, dbOut>>

\* The audit entry goes to the log before the commit is asked for.
mtpscript_log_write ==
    /\ dbPc = "audit"
    /\ audited' = audited \cup {cur.seed}
    /\ dbPc' = "commit"
    /\ UNCHANGED <<pool, dbCache, dbSeeded, cur, server, dbAnswered,
                   redone, dbOut>>

\* Fault of RolledBack: a failed commit is reported and nothing else done.
RolledBack_Not == pending

\* mysql_rollback.
RolledBack == pending \ Mine

\* mysql_commit.  It fails when the session is gone or the server refuses;
\* mysql_rollback then discards what is pending.  Or the server has
\* committed and only its answer is lost, with the session.
CommitWrite ==
    /\ dbPc = "commit"
    /\ \/ /\ Alive
          /\ pending' = pending \ Mine
          /\ dbPc' = "put"
          /\ IF Mine \subseteq pending
             THEN Apply(cur.seed)
             ELSE UNCHANGED <<applied, redone>>
          /\ UNCHANGED <<up, dbOut>>
       \/ /\ pending' = RolledBack
          /\ Answer("write", cur.seed, "error")
          /\ UNCHANGED <<applied, redone, up>>
       \/ /\ Alive /\ Mine \subseteq pending
          /\ pending' = pending \ Mine
          /\ Apply(cur.seed)
          /\ up' = up \ {cur.slot}
          /\ Answer("write", cur.seed, "error")
    /\ UNCHANGED <<commit, slots, dbCache, dbSeeded, cur, audited, dbAnswered>>

\* Fault of mtpscript_db_cache_put: only good results are kept.
mtpscript_db_cache_put_SkipsFailures(v) ==
    dbCache' = IF dbSeeded /\ v # "exception"
             THEN Store(dbCache, CacheSize, RequestKey(cur.op, cur.seed), v)
             ELSE dbCache

\* Without a seed a result is not kept.
mtpscript_db_cache_put(v) ==
    dbCache' = IF dbSeeded
             THEN Store(dbCache, CacheSize, RequestKey(cur.op, cur.seed), v)
             ELSE dbCache

\* The result is built, stored and returned.
PutAndAnswer ==
    /\ dbPc = "put"
    /\ \E v \in Result :
          /\ mtpscript_db_cache_put(v)
          /\ dbOut' = [result |-> "ok", op |-> cur.op, seed |-> cur.seed, value |-> v]
    /\ dbPc' = "idle"
    /\ dbAnswered' = IF cur.op = "write" THEN dbAnswered \cup {cur.seed} ELSE dbAnswered
    /\ UNCHANGED <<pool, dbSeeded, cur, server, audited, redone>>

----------------------------------------------------------------------------

\* A session ends: the server rolls its transaction back.
SessionEnds(i) ==
    /\ i \in up
    /\ up' = up \ {i}
    /\ pending' = {w \in pending : w[1] # i}
    /\ UNCHANGED <<commit, slots, dbCache, dbSeeded, dbPc, cur, applied,
                   audited, dbAnswered, redone, dbOut>>

mtpscript_db_pool_free ==
    /\ dbPc = "idle"
    /\ slots' = <<>>
    /\ up' = {}
    /\ pending' = {}
    /\ dbOut' = NoOut
    /\ UNCHANGED <<commit, dbCache, dbSeeded, dbPc, cur, applied,
                   audited, dbAnswered, redone>>

mtpscript_db_cache_free ==
    /\ dbPc = "idle"
    /\ dbCache' = <<>>
    /\ dbSeeded' = FALSE
    /\ dbAnswered' = {} /\ redone' = {}
    /\ dbOut' = NoOut
    /\ UNCHANGED <<pool, dbPc, cur, server, audited>>

\* The process dies between any two steps; the next one starts empty.
Crash ==
    /\ slots' = <<>>
    /\ dbCache' = <<>>
    /\ dbSeeded' = FALSE
    /\ dbPc' = "idle"
    /\ cur' = [op |-> "read", seed |-> ShortSeed, slot |-> 0]
    /\ up' = {} /\ pending' = {}
    /\ dbAnswered' = {} /\ redone' = {}
    /\ dbOut' = NoOut
    /\ UNCHANGED <<commit, applied, audited>>

DbNext ==
    \/ \E op \in {"read", "write"}, s \in DbSeeds \cup {ShortSeed} : Call(op, s)
    \/ GetConnection \/ ReadQuery \/ BeginWrite \/ ExecuteWrite
    \/ mtpscript_log_write \/ CommitWrite \/ PutAndAnswer
    \/ \E i \in up : SessionEnds(i)
    \/ mtpscript_db_pool_free
    \/ mtpscript_db_cache_free
    \/ Crash

DbSpec == DbInit /\ [][DbNext]_dbVars

----------------------------------------------------------------------------

Steps == {"idle", "connect", "query", "begin", "exec", "audit", "commit", "put"}

DbTypeOK ==
    /\ commit \in Commits
    /\ slots \in Seq(BOOLEAN) /\ Len(slots) <= MaxConnections
    /\ dbCache \in Seq([key : Request, value : Result]) /\ Len(dbCache) <= CacheSize
    /\ dbSeeded \in BOOLEAN
    /\ dbPc \in Steps
    /\ cur \in [op : {"read", "write"}, seed : DbSeeds \cup {ShortSeed},
                slot : 0 .. MaxConnections]
    /\ up \subseteq DOMAIN slots
    /\ pending \subseteq up \X (DbSeeds \cup {ShortSeed})
    /\ applied \subseteq DbSeeds \cup {ShortSeed}
    /\ audited \subseteq DbSeeds \cup {ShortSeed}
    /\ dbAnswered \subseteq DbSeeds \cup {ShortSeed} /\ redone \subseteq dbAnswered

OpenSlots == {i \in DOMAIN slots : slots[i]}

\* The pool never holds two open connections: a connection is only made
\* after every older one was found dead and closed.  Were it not so, two
\* handlers' transactions could be open at once.
OneOpenConnection == Cardinality(OpenSlots) <= 1

\* A handler only talks to the connection that is in the pool, so that the
\* pool closes every connection that is ever made.
UsesPooledConnection ==
    dbPc \notin {"idle", "connect"} => OpenSlots = {cur.slot}

\* Between two handlers no transaction is left open: every path out of
\* DbWrite commits, rolls back or has lost its session.
NoOpenTransaction == dbPc \in {"idle", "connect"} => pending = {}

\* The three together: whatever step the session ends at, one connection is
\* open at most, it is the one in use, and no transaction outlives its handler.
SessionsAreClean == OneOpenConnection /\ UsesPooledConnection /\ NoOpenTransaction

\* DbWrite applies the write of a seed it has already answered a second
\* time only if the 1024 entries are used up or the seed is too short to
\* arm the cache: a retry in the same process is answered from the cache.
RetryIsReplayed ==
    \A s \in redone : s = ShortSeed \/ Len(dbCache) = CacheSize

\* What a script is told is done is in the audit log: the answers of this
\* process, the last one, and what the cache will say again.
ToldIsAudited ==
    /\ dbAnswered \subseteq audited
    /\ \A i \in DOMAIN dbCache : dbCache[i].key.op = "write" => dbCache[i].key.seed \in audited
    /\ dbOut.result \in {"ok", "replayed"} /\ dbOut.op = "write" => dbOut.seed \in audited

\* A script is never told that a write is done which the audit log does not
\* have, however the statement commits and wherever sessions or processes die.
\* That the log has every durable write, as compliance/sox-compliance.md:25
\* asks, is true of statements that wait for the commit only.  The CREATE
\* TABLE of the code is durable before its entry is written: when the process
\* or the session dies there, the log lacks it until a retry succeeds.
WritesAreAudited ==
    /\ ToldIsAudited
    /\ applied \subseteq audited \/ commit = "implicit"

\* The cache implements Memo: an answer is never replaced; it is lost only
\* with the process or by mtpscript_db_cache_free.
DbM == INSTANCE Memo WITH Keys <- Request, Values <- Result, memo <- MemoOf(dbCache)
DbReplayIsMemo == DbM!Spec

=============================================================================
