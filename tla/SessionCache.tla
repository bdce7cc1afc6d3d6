---------------------------- MODULE SessionCache ----------------------------
(***************************************************************************)
(* One CacheManager bound to one engine, the AsyncSessions that read and   *)
(* write through it, the database they commit to, and the cache.           *)
(*                                                                         *)
(* A step is what runs between two awaits of interceptor.py, manager.py or *)
(* invalidation.py: one version read, one cache get, one database query,   *)
(* one cache set, one delete_tags, one counter increment.  Other sessions  *)
(* run between any two of them.  Calls that the application makes, and the *)
(* mishaps of the environment, are actions of their own; the constant      *)
(* Calls says which of them this application and this environment make.    *)
(*                                                                         *)
(* The database gives READ COMMITTED isolation with row locks.  Events are *)
(* published nowhere (_pubsub is None: a backend that is not Redis).       *)
(***************************************************************************)
EXTENDS Integers, Sequences, FiniteSets, CacheStore

CONSTANTS
    Sessions,       \* sync_session objects, each used by one task at a time
    Matched,        \* those whose get_bind() is the bound engine
    Rows,           \* primary keys, of all tables
    Tables,         \* mapped models
    TableOf,        \* the model of a row
    Tracked,        \* models listed in the configuration: mapper listeners
    Stmts,          \* SELECT statements with their parameters
    ModelsOf,       \* _extract_models of a statement
    CoversOf,       \* rows the statement looks at, of any table
    EntityStmts,    \* statements that return entities, not columns
    EagerStmts,     \* statements for which has_eager_loaders is true
    EnabledStmts,   \* statements for which is_enabled is true
    Calls,          \* the calls and mishaps that happen (see AllCalls)
    MaxWrites,      \* bound: writes by sessions
    MaxVersion      \* bound: invalidate(model) stops at this table version

AllCalls == {"select", "execute", "dirtyRead",
             "row", "autoflush", "bulk", "insert", "release", "rollbackTo", "rollback", "close",
             "invalidate", "clear", "lru", "suppressed", "raised", "crash"}

ASSUME SessionsAssumption == Matched \subseteq Sessions
ASSUME TablesAssumption == Tracked \subseteq Tables /\ TableOf \in [Rows -> Tables]
ASSUME StmtsAssumption ==
    /\ Stmts # {}
    /\ ModelsOf \in [Stmts -> Seq(Tables)]
    /\ CoversOf \in [Stmts -> SUBSET Rows]
    /\ EntityStmts \cup EagerStmts \cup EnabledStmts \subseteq Stmts
ASSUME CallsAssumption == Calls \subseteq AllCalls
ASSUME BoundsAssumption == MaxWrites \in Nat /\ MaxVersion \in Nat

VARIABLES
    db,       \* db[r]: the committed value of row r
    clock,    \* writes so far: stamps make values distinct and ordered
    work,     \* work[s][r]: what the transaction of s wrote and did not commit
    saved,    \* saved[s]: the open savepoint of s, and work when it was set
    pending,  \* manager._pending[s]
    cache,    \* the entries of the cache
    version,  \* version[t]: the table-version counter, 0 when absent
    pc,       \* pc[s]: the await the task of s is at
    read,     \* read[s]: the locals of the read s is in
    job       \* job[s]: what _apply_pending still has to apply for s

vars == <<db, clock, work, saved, pending, cache, version, pc, read, job>>
dbVars == <<db, clock, work, saved, pending>>

-----------------------------------------------------------------------------
(* Values.  "at" orders the writes of a row, "hit" says that the row exists *)
(* and meets the WHERE of the statements that cover it, "by" is how it was  *)
(* written: not at all, by a flush of the unit of work, by an ORM bulk      *)
(* UPDATE or DELETE, by an ORM INSERT statement.                            *)

Value == [at : Nat, hit : BOOLEAN, by : {"none", "flush", "bulk", "insert"}]
Unwritten == [at |-> 0, hit |-> FALSE, by |-> "none"]
NoWork == [r \in Rows |-> Unwritten]

Pending == [rows : SUBSET Rows, bulk : SUBSET Tables]
NoPending == [rows |-> {}, bulk |-> {}]

Key == [stmt : Stmts, vers : Seq(Nat)]
Read == [path : {"none", "select", "execute"}, stmt : Stmts,
         vers : Seq(Nat), result : [Rows -> Value]]
NoRead == [path |-> "none", stmt |-> CHOOSE q \in Stmts : TRUE,
           vers |-> <<>>, result |-> NoWork]

ModelSet(q) == {ModelsOf[q][i] : i \in DOMAIN ModelsOf[q]}

(* extract_pks_from_fetch_result and generate_tags: only the entities that  *)
(* the statement returned leave a tag.                                      *)
TagsOf(q, result) ==
    {r \in CoversOf[q] : q \in EntityStmts /\ TableOf[r] \in ModelSet(q) /\ result[r].hit}

(* An entry has a version for each model of its statement, and its tags.    *)
Entry == {e \in [key : Key, result : [Rows -> Value], tags : SUBSET Rows, overtaken : SUBSET Rows] :
            /\ Len(e.key.vers) = Len(ModelsOf[e.key.stmt])
            /\ e.tags = TagsOf(e.key.stmt, e.result)}

(* Cached under the counters as they are now: a lookup can find the entry.  *)
Current(k) == \A i \in DOMAIN ModelsOf[k.stmt] : k.vers[i] = version[ModelsOf[k.stmt][i]]

(* Some commit has still to evict row r.                                    *)
Evicting(r) == \E s \in Sessions : pc[s] = "evict" /\ (r \in job[s].rows \/ TableOf[r] \in job[s].bulk)
Bumping(t) == \E s \in Sessions : pc[s] = "evict" /\ t \in job[s].bulk

-----------------------------------------------------------------------------
Init ==
    /\ db \in [Rows -> {[at |-> 0, hit |-> h, by |-> "none"] : h \in BOOLEAN}]
    /\ clock = 0
    /\ work = [s \in Sessions |-> NoWork]
    /\ saved = [s \in Sessions |-> [open |-> FALSE, work |-> NoWork]]
    /\ pending = [s \in Sessions |-> NoPending]
    /\ cache = {}
    /\ version = [t \in Tables |-> 0]
    /\ pc = [s \in Sessions |-> "idle"]
    /\ read = [s \in Sessions |-> NoRead]
    /\ job = [s \in Sessions |-> NoPending]

-----------------------------------------------------------------------------
(* Reads.                                                                   *)

Clean(s) == work[s] = NoWork

StartRead(s, q, path) ==
    /\ pc[s] = "idle"
    /\ path \in Calls
    /\ Clean(s) \/ "dirtyRead" \in Calls
    /\ ModelsOf[q] # <<>>
    /\ pc' = [pc EXCEPT ![s] = "lookupKey"]
    /\ read' = [read EXCEPT ![s] = [NoRead EXCEPT !.path = path, !.stmt = q]]
    /\ UNCHANGED <<dbVars, cache, version, job>>

(* session.execute(select): the do_orm_execute handler up to _lookup_cache. *)
(* A statement that fails one of the guards goes to the database and leaves *)
(* the state alone.                                                         *)
StartSelect(s, q) ==
    /\ s \in Matched
    /\ q \in EnabledStmts \ EagerStmts
    /\ StartRead(s, q, "select")

(* manager.execute: any session, any statement that has models.             *)
StartExecute(s, q) == StartRead(s, q, "execute")

(* _build_cache_key asks for one table version per await.  The key is built *)
(* before the lookup, and on the "select" path again before the set.        *)
AddVersion(s, n) ==
    LET vers == Append(read[s].vers, n)
        last == Len(vers) = Len(ModelsOf[read[s].stmt])
    IN  /\ read' = [read EXCEPT ![s].vers = vers]
        /\ pc' = [pc EXCEPT ![s] = IF ~last THEN @ ELSE IF @ = "lookupKey" THEN "get" ELSE "set"]
        /\ UNCHANGED <<dbVars, cache, version, job>>

ReadVersion(s) ==
    /\ pc[s] \in {"lookupKey", "storeKey"}
    /\ AddVersion(s, version[ModelsOf[read[s].stmt][Len(read[s].vers) + 1]])

ReadKey(s) == [stmt |-> read[s].stmt, vers |-> read[s].vers]

EndRead(s) ==
    /\ pc' = [pc EXCEPT ![s] = "idle"]
    /\ read' = [read EXCEPT ![s] = NoRead]
    /\ UNCHANGED <<dbVars, version, job>>

CacheHit(s) ==
    /\ pc[s] = "get"
    /\ Lookup(cache, ReadKey(s)) # {}
    /\ EndRead(s)
    /\ UNCHANGED cache

CacheMissed(s) ==
    /\ pc[s] = "get"
    /\ pc' = [pc EXCEPT ![s] = "query"]
    /\ UNCHANGED <<dbVars, cache, version, read, job>>

CacheMiss(s) == Lookup(cache, ReadKey(s)) = {} /\ CacheMissed(s)

(* What the database shows to session s: its own writes over committed rows.*)
View(s, r) == IF work[s][r].at > 0 THEN work[s][r] ELSE db[r]

(* Mutants: the interceptor forgets the versions it must read again;          *)
(* manager.execute rebuilds its key like the interceptor.                     *)
Query_KeepsVersions(s) ==
    /\ pc[s] = "query"
    /\ LET rows == [r \in Rows |-> IF r \in CoversOf[read[s].stmt] THEN View(s, r) ELSE Unwritten]
       IN  read' = [read EXCEPT ![s].result = rows]
    /\ pc' = [pc EXCEPT ![s] = IF read[s].path = "select" THEN "storeKey" ELSE "set"]
    /\ UNCHANGED <<dbVars, cache, version, job>>

Query_RebuildsKey(s) ==
    /\ pc[s] = "query"
    /\ LET rows == [r \in Rows |-> IF r \in CoversOf[read[s].stmt] THEN View(s, r) ELSE Unwritten]
       IN  read' = [read EXCEPT ![s] = [@ EXCEPT !.result = rows, !.vers = <<>>]]
    /\ pc' = [pc EXCEPT ![s] = "storeKey"]
    /\ UNCHANGED <<dbVars, cache, version, job>>

(* The statement runs, once the autoflush is over (see FlushRow): it sees   *)
(* what that has written.  manager.execute keeps the key it looked up; the  *)
(* interceptor's _store_and_merge builds a new one.                         *)
Query(s) ==
    /\ pc[s] = "query"
    /\ LET q == read[s].stmt
           rows == [r \in Rows |-> IF r \in CoversOf[q] THEN View(s, r) ELSE Unwritten]
           rebuild == read[s].path = "select"
           vers == IF rebuild THEN <<>> ELSE read[s].vers
       IN  /\ read' = [read EXCEPT ![s] = [@ EXCEPT !.result = rows, !.vers = vers]]
           /\ pc' = [pc EXCEPT ![s] = IF rebuild THEN "storeKey" ELSE "set"]
    /\ UNCHANGED <<dbVars, cache, version, job>>

(* "overtaken" is history, not code: the tagged rows whose newer value was  *)
(* committed, and its eviction over, before this entry was set.             *)
NewEntry(s) ==
    LET tags == TagsOf(read[s].stmt, read[s].result)
    IN  [key |-> ReadKey(s), result |-> read[s].result, tags |-> tags,
         overtaken |-> {r \in tags : read[s].result[r].at < db[r].at /\ ~Evicting(r)}]

CacheSet(s) ==
    /\ pc[s] = "set"
    /\ cache' = Put(cache, NewEntry(s))
    /\ EndRead(s)

-----------------------------------------------------------------------------
(* Writes inside a transaction.                                             *)

Unlocked(s, r) == \A o \in Sessions \ {s} : work[o][r].at = 0

Write(s, R, h, how) ==
    /\ clock < MaxWrites
    /\ \A r \in R : Unlocked(s, r)
    /\ clock' = clock + 1
    /\ work' = [work EXCEPT ![s] = [r \in Rows |->
                    IF r \in R THEN [at |-> clock + 1, hit |-> h, by |-> how] ELSE @[r]]]
    /\ UNCHANGED <<db, saved, cache, version, pc, read, job>>

(* _record_instance_change and _record_bulk_mutation; the mapper listeners    *)
(* exist for the models that the configuration lists, not for those that only *)
(* its wildcard covers.                                                       *)
Listening(t) == t \in Tracked
RecordRow(s, r) == pending' = [pending EXCEPT ![s].rows = @ \cup {r}]
RecordTable(s, t) == pending' = [pending EXCEPT ![s].bulk = @ \cup {t}]
DropPending(s) == pending' = [pending EXCEPT ![s] = NoPending]

(* A flush is called by itself or by commit(), or is the autoflush that       *)
(* invoke_statement and manager.execute begin their statement with: a session *)
(* that was clean at the lookup may write before its query.                   *)
Flushing(s) ==
    /\ "row" \in Calls
    /\ pc[s] = "idle" \/ (pc[s] = "query" /\ "autoflush" \in Calls)

(* Mutant: each flush replaces the list of rows of its model.                 *)
FlushRow_KeepsLast(s, r, h) ==
    /\ Flushing(s)
    /\ Write(s, {r}, h, "flush")
    /\ pending' = [pending EXCEPT ![s].rows = {r}]

(* A flush inserts, updates or deletes row r: after_insert, after_update or *)
(* after_delete records it, if the model has mapper listeners.              *)
FlushRow(s, r, h) ==
    /\ Flushing(s)
    /\ Write(s, {r}, h, "flush")
    /\ IF Listening(TableOf[r]) THEN RecordRow(s, r) ELSE UNCHANGED pending

(* session.execute(update or delete): the handler runs the statement, then  *)
(* records its model.                                                       *)
BulkDML(s, t, R, h) ==
    /\ "bulk" \in Calls
    /\ pc[s] = "idle"
    /\ R \subseteq {r \in Rows : TableOf[r] = t}
    /\ Write(s, R, h, "bulk")
    /\ IF s \in Matched THEN RecordTable(s, t) ELSE UNCHANGED pending

(* session.execute(insert): falls through the handler, nothing is recorded. *)
BulkInsert(s, r) ==
    /\ "insert" \in Calls
    /\ pc[s] = "idle"
    /\ ~View(s, r).hit
    /\ Write(s, {r}, TRUE, "insert")
    /\ UNCHANGED pending

-----------------------------------------------------------------------------
(* Ends of transactions and savepoints.                                     *)

(* after_commit: _pending.pop(session), then _apply_pending inline.  Rows of *)
(* a model in bulk_tables are skipped.                                      *)
PopPending(s) ==
    LET p == pending[s]
        todo == [rows |-> {r \in p.rows : TableOf[r] \notin p.bulk}, bulk |-> p.bulk]
    IN  /\ DropPending(s)
        /\ job' = [job EXCEPT ![s] = todo]
        /\ pc' = [pc EXCEPT ![s] = IF todo = NoPending THEN "idle" ELSE "evict"]

Unsaved(s) == saved' = [saved EXCEPT ![s] = [open |-> FALSE, work |-> NoWork]]

(* session.commit() with its savepoints released: the database commits,     *)
(* then after_commit runs.                                                  *)
Commit(s) ==
    /\ pc[s] = "idle"
    /\ ~saved[s].open
    /\ ~Clean(s) \/ pending[s] # NoPending
    /\ db' = [r \in Rows |-> View(s, r)]
    /\ work' = [work EXCEPT ![s] = NoWork]
    /\ PopPending(s)
    /\ UNCHANGED <<clock, saved, cache, version, read>>

(* Mutants: one pending set for all sessions; no after_rollback listener.     *)
Rollback_DropsAll(s) ==
    /\ "rollback" \in Calls
    /\ pc[s] = "idle"
    /\ ~Clean(s) \/ saved[s].open
    /\ work' = [work EXCEPT ![s] = NoWork]
    /\ Unsaved(s)
    /\ pending' = [o \in Sessions |-> NoPending]
    /\ UNCHANGED <<db, clock, cache, version, pc, read, job>>

Rollback_KeepsPending(s) ==
    /\ "rollback" \in Calls
    /\ pc[s] = "idle"
    /\ ~Clean(s) \/ saved[s].open
    /\ work' = [work EXCEPT ![s] = NoWork]
    /\ Unsaved(s)
    /\ UNCHANGED <<db, clock, pending, cache, version, pc, read, job>>

(* session.rollback(): after_rollback drops what was recorded.              *)
Rollback(s) ==
    /\ "rollback" \in Calls
    /\ pc[s] = "idle"
    /\ ~Clean(s) \/ saved[s].open
    /\ work' = [work EXCEPT ![s] = NoWork]
    /\ Unsaved(s)
    /\ DropPending(s)
    /\ UNCHANGED <<db, clock, cache, version, pc, read, job>>

(* session.close(): the transaction ends without any of the three events,   *)
(* the session can be used again.                                           *)
Close(s) ==
    /\ "close" \in Calls
    /\ pc[s] = "idle"
    /\ ~Clean(s) \/ saved[s].open
    /\ work' = [work EXCEPT ![s] = NoWork]
    /\ Unsaved(s)
    /\ UNCHANGED <<db, clock, pending, cache, version, pc, read, job>>

BeginNested(s) ==
    /\ Calls \cap {"release", "rollbackTo"} # {}
    /\ pc[s] = "idle"
    /\ ~saved[s].open
    /\ saved' = [saved EXCEPT ![s] = [open |-> TRUE, work |-> work[s]]]
    /\ UNCHANGED <<db, clock, work, pending, cache, version, pc, read, job>>

(* Both rollback events fire for a savepoint, with the session itself: all  *)
(* that it recorded is dropped, before and after the savepoint.             *)
RollbackNested(s) ==
    /\ "rollbackTo" \in Calls
    /\ pc[s] = "idle"
    /\ saved[s].open
    /\ work' = [work EXCEPT ![s] = saved[s].work]
    /\ Unsaved(s)
    /\ DropPending(s)
    /\ UNCHANGED <<db, clock, cache, version, pc, read, job>>

(* SQLAlchemy fires after_commit for the release of a savepoint too.        *)
ReleaseNested(s) ==
    /\ "release" \in Calls
    /\ pc[s] = "idle"
    /\ saved[s].open
    /\ Unsaved(s)
    /\ PopPending(s)
    /\ UNCHANGED <<db, clock, work, cache, version, read>>

-----------------------------------------------------------------------------
(* _apply_pending: rows model by model, then the table counters.            *)

JobLeft(s, todo) ==
    /\ job' = [job EXCEPT ![s] = todo]
    /\ pc' = [pc EXCEPT ![s] = IF todo = NoPending THEN "idle" ELSE "evict"]
    /\ UNCHANGED <<dbVars, read>>

RowsOf(s, t) == {r \in job[s].rows : TableOf[r] = t}

RowsDone(s, t) ==
    /\ pc[s] = "evict"
    /\ RowsOf(s, t) # {}
    /\ JobLeft(s, [rows |-> job[s].rows \ RowsOf(s, t), bulk |-> job[s].bulk])

TableDone(s, t) ==
    /\ pc[s] = "evict"
    /\ job[s].rows = {}
    /\ t \in job[s].bulk
    /\ JobLeft(s, [rows |-> {}, bulk |-> job[s].bulk \ {t}])

EvictRows(s, t) ==
    /\ RowsDone(s, t)
    /\ cache' = DeleteTags(cache, RowsOf(s, t))
    /\ UNCHANGED version

(* Mutant: the counter is deleted instead of incremented.                     *)
BumpTable_Deletes(s, t) ==
    /\ TableDone(s, t)
    /\ version' = [version EXCEPT ![t] = 0]
    /\ UNCHANGED cache

BumpTable(s, t) ==
    /\ TableDone(s, t)
    /\ version' = [version EXCEPT ![t] = @ + 1]
    /\ UNCHANGED cache

-----------------------------------------------------------------------------
(* The manual API.                                                          *)

InvalidateRows(t, R) ==
    /\ "invalidate" \in Calls
    /\ R # {} /\ R \subseteq {r \in Rows : TableOf[r] = t}
    /\ cache' = DeleteTags(cache, R)
    /\ UNCHANGED <<dbVars, version, pc, read, job>>

InvalidateTable(t) ==
    /\ "invalidate" \in Calls
    /\ version[t] < MaxVersion
    /\ version' = [version EXCEPT ![t] = @ + 1]
    /\ UNCHANGED <<dbVars, cache, pc, read, job>>

(* invalidate_all: the counters live in the cache and go with it.           *)
InvalidateAll ==
    /\ "clear" \in Calls
    /\ cache' = {}
    /\ version' = [t \in Tables |-> 0]
    /\ UNCHANGED <<dbVars, pc, read, job>>

-----------------------------------------------------------------------------
(* The environment.                                                         *)


(* TTL expiry, or eviction from a store of fixed size, of the entry with    *)
(* key k.                                                                   *)
Expire(k) ==
    /\ Lookup(cache, k) # {}
    /\ cache' = cache \ Lookup(cache, k)
    /\ UNCHANGED <<dbVars, version, pc, read, job>>

(* A store of fixed size evicts a table counter, which is a key like any    *)
(* other: it reads as 0, and the next bump makes it 1.                      *)
LoseCounter(t) ==
    /\ "lru" \in Calls
    /\ version[t] # 0
    /\ version' = [version EXCEPT ![t] = 0]
    /\ UNCHANGED <<dbVars, cache, pc, read, job>>

(* It has evicted the set of keys that was kept under a tag: delete_tags    *)
(* misses the entries that were in it.                                      *)
EvictRowsOfLostTags(s) ==
    /\ "lru" \in Calls
    /\ \E t \in Tables, missed \in SUBSET cache :
          RowsDone(s, t) /\ cache' = DeleteTags(cache, RowsOf(s, t)) \cup missed
    /\ UNCHANGED version

(* A transport call fails.  With suppress=True it returns a default: None from get *)
(* (version 0, or a miss), nothing from set and delete_tags, 0 from incr.   *)
SuppressedFault(s) ==
    /\ "suppressed" \in Calls
    /\ \/ pc[s] \in {"lookupKey", "storeKey"} /\ AddVersion(s, 0)
       \/ CacheMissed(s)
       \/ pc[s] = "set" /\ EndRead(s) /\ UNCHANGED cache
       \/ \E t \in Tables : RowsDone(s, t) /\ UNCHANGED <<cache, version>>
       \/ \E t \in Tables : TableDone(s, t) /\ UNCHANGED <<cache, version>>

(* With suppress=False, TransportError leaves the coroutine: the read or the     *)
(* rest of the job is given up, the transaction stays as it is.             *)
RaisedFault(s) ==
    /\ "raised" \in Calls
    /\ pc[s] \notin {"idle", "query"}
    /\ pc' = [pc EXCEPT ![s] = "idle"]
    /\ read' = [read EXCEPT ![s] = NoRead]
    /\ job' = [job EXCEPT ![s] = NoPending]
    /\ UNCHANGED <<dbVars, cache, version>>

(* The task is cancelled at an await, or its worker dies: the session goes, *)
(* with its transaction and (weakly referenced) its pending invalidations.  *)
Crash(s) ==
    /\ "crash" \in Calls
    /\ pc[s] # "idle" \/ ~Clean(s) \/ pending[s] # NoPending
    /\ pc' = [pc EXCEPT ![s] = "idle"]
    /\ read' = [read EXCEPT ![s] = NoRead]
    /\ job' = [job EXCEPT ![s] = NoPending]
    /\ work' = [work EXCEPT ![s] = NoWork]
    /\ Unsaved(s)
    /\ DropPending(s)
    /\ UNCHANGED <<db, clock, cache, version>>

-----------------------------------------------------------------------------
ReadStep(s) == ReadVersion(s) \/ CacheHit(s) \/ CacheMiss(s) \/ Query(s) \/ CacheSet(s)

EvictStep(s) == \E t \in Tables : EvictRows(s, t) \/ BumpTable(s, t)

ReadCall(s) == \E q \in Stmts : StartSelect(s, q) \/ StartExecute(s, q)

WriteCall(s) ==
    \/ \E r \in Rows, h \in BOOLEAN : FlushRow(s, r, h)
    \/ \E t \in Tables, R \in SUBSET Rows, h \in BOOLEAN : BulkDML(s, t, R, h)
    \/ \E r \in Rows : BulkInsert(s, r)

EndCall(s) ==
    \/ Commit(s) \/ Rollback(s) \/ Close(s)
    \/ BeginNested(s) \/ RollbackNested(s) \/ ReleaseNested(s)

ManualCall ==
    \/ \E t \in Tables, R \in SUBSET Rows : InvalidateRows(t, R)
    \/ \E t \in Tables : InvalidateTable(t)
    \/ InvalidateAll

Mishap(s) == EvictRowsOfLostTags(s) \/ SuppressedFault(s) \/ RaisedFault(s) \/ Crash(s)

StoreDrops ==
    \/ \E k \in {e.key : e \in cache} : Expire(k)
    \/ \E t \in Tables : LoseCounter(t)

Next ==
    \/ \E s \in Sessions : ReadStep(s) \/ EvictStep(s) \/ ReadCall(s) \/ WriteCall(s) \/ EndCall(s) \/ Mishap(s)
    \/ ManualCall
    \/ StoreDrops

Spec == Init /\ [][Next]_vars

-----------------------------------------------------------------------------
(* Properties.                                                              *)

VersionsRead(s) ==
    /\ Len(read[s].vers) <= Len(ModelsOf[read[s].stmt])
    /\ pc[s] \notin {"idle", "evict"} => Len(ModelsOf[read[s].stmt]) > 0
    /\ pc[s] \in {"lookupKey", "storeKey"} => Len(read[s].vers) < Len(ModelsOf[read[s].stmt])
    /\ pc[s] \in {"get", "query", "set"} => Len(read[s].vers) = Len(ModelsOf[read[s].stmt])

JobUnderWay(s) == pc[s] = "evict" <=> job[s] # NoPending

(* Every variable has its type; a read never holds more table versions than *)
(* its statement has models, holds all of them once its key is built, and   *)
(* only a commit being applied has a job.                                   *)
TypeOK ==
    /\ db \in [Rows -> Value]
    /\ clock \in Nat
    /\ work \in [Sessions -> [Rows -> Value]]
    /\ saved \in [Sessions -> [open : BOOLEAN, work : [Rows -> Value]]]
    /\ pending \in [Sessions -> Pending]
    /\ cache \subseteq Entry
    /\ version \in [Tables -> Nat]
    /\ pc \in [Sessions -> {"idle", "lookupKey", "get", "query", "storeKey", "set", "evict"}]
    /\ read \in [Sessions -> Read]
    /\ job \in [Sessions -> Pending]
    /\ \A s \in Sessions : VersionsRead(s) /\ JobUnderWay(s)

(* Row-level invalidation (_apply_pending): once a flushed write to a row is *)
(* committed and its commit has returned, no entry that a lookup can find    *)
(* and that returned the row still holds an older value, unless that entry   *)
(* was set after the eviction by a read that had queried before the commit.  *)
CommittedRowEvicted ==
    \A e \in cache : \A r \in e.tags :
        Current(e.key) /\ db[r].by = "flush" /\ e.result[r].at < db[r].at
            => Evicting(r) \/ r \in e.overtaken

(* The same without the exception: what the after_commit docstring promises, *)
(* that once commit() has returned no read finds the pre-commit value.       *)
NoStaleHit ==
    \A e \in cache : \A r \in e.tags :
        Current(e.key) /\ db[r].by = "flush" /\ e.result[r].at < db[r].at => Evicting(r)

(* Table-level invalidation: once a bulk UPDATE or DELETE is committed and    *)
(* its commit has returned, no entry that a lookup can find holds an older    *)
(* value of a row it wrote, even an entry set later by a read that queried    *)
(* before the commit.                                                         *)
BulkFence ==
    \A e \in cache : \A r \in CoversOf[e.key.stmt] :
        /\ Current(e.key)
        /\ TableOf[r] \in ModelSet(e.key.stmt)
        /\ db[r].by = "bulk"
        /\ e.result[r].at < db[r].at
        => Bumping(TableOf[r])

RowsRecorded == \A s \in Sessions, r \in Rows : work[s][r].by = "flush" => r \in pending[s].rows
TablesRecorded == \A s \in Sessions, r \in Rows : work[s][r].by = "bulk" => TableOf[r] \in pending[s].bulk

(* No write is forgotten before its commit: what a flush or a bulk statement  *)
(* of the open transaction wrote is recorded in _pending, however the calls   *)
(* of the session interleave with rollbacks and reads of others.              *)
PendingCovers == RowsRecorded /\ TablesRecorded

(* Rolled-back transactions never evict the cache: every row that a job starts *)
(* with gets, in that same step, the value its session had written as its      *)
(* committed value.  Neither an abandoned transaction nor one that can still   *)
(* be rolled back evicts a row.                                                *)
EvictsOnlyCommitted ==
    [][\A s \in Sessions : \A r \in job'[s].rows \ job[s].rows :
          work[s][r].at > 0 /\ db'[r] = work[s][r]]_vars

(* A read of committed rows that came up without a row does not hide it once  *)
(* the commit that created the row has returned (rows created by a flush).    *)
CreatedRowsVisible ==
    \A e \in cache : \A r \in CoversOf[e.key.stmt] :
        /\ Current(e.key)
        /\ db[r].by = "flush" /\ db[r].hit
        /\ ~e.result[r].hit
        => Evicting(r)

(* Rollback leaves the cache as if the transaction had not been: no entry     *)
(* holds a value newer than the committed one, once its writer has ended.     *)
RollbackLeavesNoTrace ==
    \A e \in cache : \A r \in CoversOf[e.key.stmt] :
        e.result[r].at > db[r].at => \E s \in Sessions : work[s][r] = e.result[r]

(* The entries a lookup can find agree with the database.                     *)
Coherent ==
    \A e \in cache : Current(e.key) => \A r \in CoversOf[e.key.stmt] : e.result[r] = db[r]

-----------------------------------------------------------------------------
(* Fairness.  A task that is at an await of its own is resumed, and a key     *)
(* that stays in the cache expires: every set has a TTL.  Nothing is assumed  *)
(* of the application: it may leave a transaction open, or never read again.  *)

Keys == [stmt : Stmts, vers : UNION {[1..n -> 0..(MaxWrites + MaxVersion)] : n \in {Len(ModelsOf[q]) : q \in Stmts}}]

Fairness ==
    /\ \A s \in Sessions : WF_vars(ReadStep(s)) /\ WF_vars(EvictStep(s))
    /\ \A k \in Keys : WF_vars(Expire(k))

FairSpec == Spec /\ Fairness


-----------------------------------------------------------------------------
(* The abstract cache, twice.  Its results are those that a lookup can find.  *)
(* For the table counters its units are the models: a commit of bulk          *)
(* statements owes a bump of their tables.                                    *)

Findable == {e \in cache : Current(e.key)}
FloorOf(kind) == [r \in Rows |-> IF db[r].by = kind THEN db[r].at ELSE 0]
Answer(e, units) == [stmt |-> e.key.stmt, units |-> units, result |-> [r \in Rows |-> e.result[r].at]]

Floor == FloorOf("bulk")
Owed == {t \in Tables : Bumping(t)}
Found == {Answer(e, ModelSet(e.key.stmt)) : e \in Findable}

Fence == INSTANCE FencedCache
    WITH Units <- Tables, UnitOf <- TableOf, floor <- Floor, owed <- Owed, found <- Found

(* Every step of the sessions is a step of the abstract cache, or none: a     *)
(* commit owes an invalidation before anyone can look, a bump drops every     *)
(* result over its table, no dropped result is found again under an old       *)
(* version, and what a late read stores is either hidden or new enough.       *)
ImplementsFence == Fence!Spec

(* For the tags its units are the rows: a commit of flushes owes an eviction  *)
(* of their rows.  An entry stands for the rows that tag it, those apart that *)
(* were overtaken before it was set.                                          *)

RowFloor == FloorOf("flush")
RowsOwed == {r \in Rows : Evicting(r)}
RowsFound == {Answer(e, e.tags \ e.overtaken) : e \in Findable}

RowFence == INSTANCE FencedCache
    WITH Units <- Rows, UnitOf <- [r \in Rows |-> r], floor <- RowFloor, owed <- RowsOwed, found <- RowsFound

(* The same at row level: a commit owes an eviction of what its session had   *)
(* flushed before anyone can look, neither the eviction of other rows nor a   *)
(* bump pays it, an eviction drops every result with the row, whatever its    *)
(* key, and what is stored meanwhile is new enough.                           *)
ImplementsRowFence == RowFence!Spec

=============================================================================
