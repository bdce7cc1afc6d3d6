------------------------- MODULE SessionFence_proofs -------------------------
(***************************************************************************)
(* Table-level invalidation, for every value of the constants: a read that *)
(* keeps the key of its lookup (manager.execute) cannot bring a value older*)
(* than a committed bulk statement back, however late it stores it.  For   *)
(* reads that rebuild it, and for rows, nothing stale is found unless a    *)
(* commit overtakes a read.                                                *)
(***************************************************************************)
EXTENDS SessionEviction_proofs

(* What BulkFence says of a key, the result stored under it and one row.    *)
Fenced(k, result, r) ==
    /\ Current(k)
    /\ TableOf[r] \in ModelSet(k.stmt)
    /\ db[r].by = "bulk"
    /\ result[r].at < db[r].at
    => Bumping(TableOf[r])

(* The same for the results that are about to be stored.                    *)
ReadsFenced ==
    \A s \in Sessions : pc[s] = "set" =>
        \A r \in CoversOf[read[s].stmt] : Fenced(ReadKey(s), read[s].result, r)

NoSelect == \A s \in Sessions : read[s].path # "select" /\ pc[s] # "storeKey"

KeyBehind(k) ==
    \A i \in DOMAIN ModelsOf[k.stmt] :
        /\ k.vers[i] \in Nat
        /\ ModelsOf[k.stmt][i] \in Tables
        /\ k.vers[i] <= version[ModelsOf[k.stmt][i]]

-----------------------------------------------------------------------------
(* Reads that never rebuild their key.                                        *)

LEMMA NoSelectInit == Init => NoSelect
BY DEF Init, NoSelect, NoRead

LEMMA NoSelectStep ==
  ASSUME TypeOK, NoSelect, Calm, "select" \notin Calls, [Next]_vars
  PROVE  NoSelect'
<1>1. ASSUME NEW s \in Sessions, ReadStep(s) \/ ReadCall(s) PROVE NoSelect'
  <2>1. ASSUME NEW q \in Stmts, NEW path, StartRead(s, q, path) PROVE NoSelect'
    BY <2>1 DEF StartRead, NoSelect, TypeOK, NoRead
  <2>2. CASE ReadVersion(s)
    BY <2>2 DEF ReadVersion, AddVersion, NoSelect, TypeOK, Read
  <2>3. CASE CacheHit(s) \/ CacheSet(s)
    BY <2>3 DEF CacheHit, CacheSet, EndRead, NoSelect, TypeOK, NoRead
  <2>4. CASE CacheMiss(s)
    BY <2>4 DEF CacheMiss, CacheMissed, NoSelect, TypeOK
  <2>5. CASE Query(s)
    BY <2>5 DEF Query, NoSelect, TypeOK, Read
  <2> QED
    BY <1>1, <2>1, <2>2, <2>3, <2>4, <2>5 DEF ReadStep, ReadCall, StartSelect, StartExecute
<1>2. ASSUME NEW s \in Sessions, EvictStep(s) PROVE NoSelect'
  BY <1>2 DEF EvictStep, EvictRows, BumpTable, RowsDone, TableDone, JobLeft, NoSelect, TypeOK
<1>3. ASSUME NEW s \in Sessions, Commit(s) PROVE NoSelect'
  BY <1>3 DEF Commit, PopPending, NoSelect, TypeOK
<1>4. ASSUME UNCHANGED <<pc, read>> PROVE NoSelect'
  BY <1>4 DEF NoSelect
<1>5. ASSUME NEW s \in Sessions, WriteCall(s) \/ Rollback(s) \/ Close(s) PROVE NoSelect'
  BY <1>4, <1>5, WriteFrame DEF Rollback, Close
<1>6. ASSUME \/ \E t \in Tables, R \in SUBSET Rows : InvalidateRows(t, R)
             \/ \E t \in Tables : InvalidateTable(t)
             \/ \E k : Expire(k)
             \/ UNCHANGED vars
      PROVE  NoSelect'
  BY <1>4, <1>6 DEF InvalidateRows, InvalidateTable, Expire, vars
<1> QED
  BY <1>1, <1>2, <1>3, <1>5, <1>6, CalmStep

(* A read that is about to store has just queried, or was about to before.    *)
LEMMA ReadAtSet ==
  ASSUME TypeOK, NoSelect, Calm, [Next]_vars, NEW s \in Sessions, pc'[s] = "set"
  PROVE  Query(s) \/ (pc[s] = "set" /\ read'[s] = read[s])
<1>1. ASSUME NEW o \in Sessions \ {s}, ReadStep(o) \/ ReadCall(o)
      PROVE  pc'[s] = pc[s] /\ read'[s] = read[s]
  BY <1>1 DEF TypeOK, ReadStep, ReadCall, StartSelect, StartExecute, StartRead, ReadVersion, AddVersion,
              CacheHit, EndRead, CacheMiss, CacheMissed, Query, CacheSet
<1>2. CASE ReadStep(s) \/ ReadCall(s)
  <2>1. ~ReadVersion(s)
    BY DEF ReadVersion, AddVersion, TypeOK, NoSelect
  <2> QED
    BY <1>2, <2>1 DEF TypeOK, ReadStep, ReadCall, StartSelect, StartExecute, StartRead,
                      CacheHit, EndRead, CacheMiss, CacheMissed, CacheSet
<1>3. ASSUME NEW o \in Sessions, EvictStep(o) PROVE pc[s] = "set" /\ read'[s] = read[s]
  BY <1>3, EvictFrame DEF EvictStep, EvictRows, BumpTable, RowsDone, TableDone, JobLeft, TypeOK
<1>4. ASSUME NEW o \in Sessions, Commit(o) PROVE pc[s] = "set" /\ read'[s] = read[s]
  BY <1>4 DEF Commit, PopPending, TypeOK
<1>5. ASSUME NEW o \in Sessions, WriteCall(o) \/ Rollback(o) \/ Close(o) PROVE pc[s] = "set" /\ read'[s] = read[s]
  BY <1>5, WriteFrame DEF Rollback, Close
<1>6. ASSUME \/ \E t \in Tables, R \in SUBSET Rows : InvalidateRows(t, R)
             \/ \E t \in Tables : InvalidateTable(t)
             \/ \E k : Expire(k)
             \/ UNCHANGED vars
      PROVE  pc[s] = "set" /\ read'[s] = read[s]
  BY <1>6 DEF InvalidateRows, InvalidateTable, Expire, vars
<1> QED
  BY <1>1, <1>2, <1>3, <1>4, <1>5, <1>6, CalmStep

-----------------------------------------------------------------------------
(* One key, one row: what a step does to Fenced.                              *)

LEMMA CurrentBackwards ==
  ASSUME TypeOK, Calm, [Next]_vars, NEW k, KeyBehind(k), Current(k)'
  PROVE  Current(k)
<1> SUFFICES ASSUME NEW i \in DOMAIN ModelsOf[k.stmt]
             PROVE  k.vers[i] = version[ModelsOf[k.stmt][i]]
  BY DEF Current
<1>1. k.vers[i] \in Nat /\ ModelsOf[k.stmt][i] \in Tables /\ k.vers[i] <= version[ModelsOf[k.stmt][i]]
  BY DEF KeyBehind
<1>2. k.vers[i] = version'[ModelsOf[k.stmt][i]]
  BY DEF Current
<1> QED
  BY <1>1, <1>2, VersionsGrow, CalmAllows

LEMMA FencedQuietly ==
  ASSUME TypeOK, Calm, [Next]_vars, NEW k, NEW result, NEW r \in Rows, KeyBehind(k), Fenced(k, result, r),
         db'[r] = db[r], Bumping(TableOf[r]) => Bumping(TableOf[r])'
  PROVE  Fenced(k, result, r)'
BY CurrentBackwards DEF Fenced

LEMMA FencedByCommit ==
  ASSUME TypeOK, TablesRecorded, Calm, [Next]_vars, NEW s \in Sessions, Commit(s),
         NEW k, NEW result, NEW r \in Rows, KeyBehind(k), Fenced(k, result, r)
  PROVE  Fenced(k, result, r)'
<1> DEFINE todo == [rows |-> {x \in pending[s].rows : TableOf[x] \notin pending[s].bulk}, bulk |-> pending[s].bulk]
<1>1. /\ pc[s] = "idle"
      /\ db'[r] = View(s, r)
      /\ job' = [job EXCEPT ![s] = todo]
      /\ pc' = [pc EXCEPT ![s] = IF todo = NoPending THEN "idle" ELSE "evict"]
  BY DEF Commit, PopPending
<1>2. Bumping(TableOf[r]) => Bumping(TableOf[r])'
  BY <1>1 DEF TypeOK, Bumping
<1>3. CASE work[s][r].at > 0 /\ work[s][r].by = "bulk"
  <2>1. TableOf[r] \in todo.bulk
    BY <1>3 DEF TablesRecorded
  <2>2. todo # NoPending
    BY <2>1 DEF NoPending
  <2>3. pc'[s] = "evict" /\ job'[s] = todo
    BY <1>1, <2>2 DEF TypeOK
  <2> QED
    BY <2>1, <2>3 DEF Fenced, Bumping
<1>4. CASE work[s][r].at > 0 /\ work[s][r].by # "bulk"
  BY <1>1, <1>4 DEF View, Fenced
<1>5. CASE ~(work[s][r].at > 0)
  BY <1>1, <1>2, <1>5, FencedQuietly DEF View
<1> QED
  BY <1>3, <1>4, <1>5

LEMMA FencedByBump ==
  ASSUME TypeOK, Calm, [Next]_vars, NEW s \in Sessions, NEW t \in Tables, BumpTable(s, t),
         NEW k, NEW result, NEW r \in Rows, KeyBehind(k), Fenced(k, result, r)
  PROVE  Fenced(k, result, r)'
<1> DEFINE todo == [rows |-> {}, bulk |-> job[s].bulk \ {t}]
<1>1. /\ pc[s] = "evict" /\ job[s].rows = {}
      /\ job' = [job EXCEPT ![s] = todo]
      /\ pc' = [pc EXCEPT ![s] = IF todo = NoPending THEN "idle" ELSE "evict"]
      /\ db' = db
      /\ version'[t] = version[t] + 1 /\ version[t] \in Nat
  BY DEF BumpTable, TableDone, JobLeft, dbVars, TypeOK
<1>2. CASE TableOf[r] = t
  <2> SUFFICES ASSUME NEW i \in DOMAIN ModelsOf[k.stmt], ModelsOf[k.stmt][i] = t
               PROVE  ~Current(k)'
    BY <1>2 DEF Fenced, ModelSet
  <2>1. k.vers[i] \in Nat /\ k.vers[i] <= version[t]
    BY DEF KeyBehind
  <2>2. k.vers[i] # version'[t]
    BY <1>1, <2>1
  <2> QED
    BY <2>2 DEF Current
<1>3. CASE TableOf[r] # t
  <2>1. Bumping(TableOf[r]) => Bumping(TableOf[r])'
    <3>1. CASE TableOf[r] \in job[s].bulk
      <4>1. TableOf[r] \in todo.bulk
        BY <1>3, <3>1
      <4>2. todo # NoPending
        BY <4>1 DEF NoPending
      <4>3. pc'[s] = "evict" /\ job'[s] = todo
        BY <1>1, <4>2 DEF TypeOK
      <4> QED
        BY <4>1, <4>3 DEF Bumping
    <3>2. CASE TableOf[r] \notin job[s].bulk
      BY <1>1, <3>2 DEF TypeOK, Bumping
    <3> QED
      BY <3>1, <3>2
  <2> QED
    BY <1>1, <2>1, FencedQuietly
<1> QED
  BY <1>2, <1>3

LEMMA FencedByRows ==
  ASSUME TypeOK, Calm, [Next]_vars, NEW s \in Sessions, NEW t \in Tables, EvictRows(s, t),
         NEW k, NEW result, NEW r \in Rows, KeyBehind(k), Fenced(k, result, r)
  PROVE  Fenced(k, result, r)'
<1> DEFINE todo == [rows |-> job[s].rows \ RowsOf(s, t), bulk |-> job[s].bulk]
<1>1. /\ pc[s] = "evict"
      /\ job' = [job EXCEPT ![s] = todo]
      /\ pc' = [pc EXCEPT ![s] = IF todo = NoPending THEN "idle" ELSE "evict"]
      /\ db' = db
  BY DEF EvictRows, RowsDone, JobLeft, dbVars
<1>2. Bumping(TableOf[r]) => Bumping(TableOf[r])'
  <2>1. CASE TableOf[r] \in job[s].bulk
    <3>1. todo # NoPending
      BY <2>1 DEF NoPending
    <3>2. pc'[s] = "evict" /\ job'[s] = todo
      BY <1>1, <3>1 DEF TypeOK
    <3> QED
      BY <2>1, <3>2 DEF Bumping
  <2>2. CASE TableOf[r] \notin job[s].bulk
    BY <1>1, <2>2 DEF TypeOK, Bumping
  <2> QED
    BY <2>1, <2>2
<1> QED
  BY <1>1, <1>2, FencedQuietly

LEMMA BumpingDuringReads ==
  ASSUME TypeOK, NEW s \in Sessions, ReadStep(s) \/ ReadCall(s), NEW t, Bumping(t)
  PROVE  Bumping(t)'
<1>1. pc[s] # "evict" /\ \E p : pc' = [pc EXCEPT ![s] = p]
  BY DEF ReadStep, ReadCall, StartSelect, StartExecute, StartRead, ReadVersion, AddVersion, CacheHit, EndRead,
         CacheMiss, CacheMissed, Query, CacheSet
<1>2. job' = job
  BY ReadFrame
<1> QED
  BY <1>1, <1>2 DEF TypeOK, Bumping

LEMMA FencedStep ==
  ASSUME TypeOK, TablesRecorded, Calm, [Next]_vars,
         NEW k, NEW result, NEW r \in Rows, KeyBehind(k), Fenced(k, result, r)
  PROVE  Fenced(k, result, r)'
<1>1. ASSUME NEW s \in Sessions, ReadStep(s) \/ ReadCall(s) PROVE Fenced(k, result, r)'
  BY <1>1, ReadFrame, BumpingDuringReads, FencedQuietly
<1>2. ASSUME NEW s \in Sessions, EvictStep(s) PROVE Fenced(k, result, r)'
  BY <1>2, FencedByRows, FencedByBump DEF EvictStep
<1>3. ASSUME NEW s \in Sessions, Commit(s) PROVE Fenced(k, result, r)'
  BY <1>3, FencedByCommit
<1>4. ASSUME db' = db, pc' = pc, job' = job PROVE Fenced(k, result, r)'
  <2>1. Bumping(TableOf[r]) => Bumping(TableOf[r])'
    BY <1>4 DEF Bumping
  <2> QED
    BY <1>4, <2>1, FencedQuietly
<1>5. ASSUME NEW s \in Sessions, WriteCall(s) \/ Rollback(s) \/ Close(s) PROVE Fenced(k, result, r)'
  BY <1>4, <1>5, WriteFrame DEF Rollback, Close
<1>6. ASSUME \/ \E t \in Tables, R \in SUBSET Rows : InvalidateRows(t, R)
             \/ \E t \in Tables : InvalidateTable(t)
             \/ \E x : Expire(x)
             \/ UNCHANGED vars
      PROVE  Fenced(k, result, r)'
  BY <1>4, <1>6 DEF InvalidateRows, InvalidateTable, Expire, dbVars, vars
<1> QED
  BY <1>1, <1>2, <1>3, <1>5, <1>6, CalmStep

-----------------------------------------------------------------------------
(* Entries and reads.                                                         *)

LEMMA EntryKeyBehind ==
  ASSUME TypeOK, KeysNeverAhead, NEW e \in cache
  PROVE  KeyBehind(e.key) /\ e.key.stmt \in Stmts
<1>1. e.key.stmt \in Stmts
  BY DEF TypeOK, Entry, Key
<1>2. ASSUME NEW i \in DOMAIN ModelsOf[e.key.stmt]
      PROVE  /\ e.key.vers[i] \in Nat
             /\ ModelsOf[e.key.stmt][i] \in Tables
             /\ e.key.vers[i] <= version[ModelsOf[e.key.stmt][i]]
  BY EntryVersType DEF KeysNeverAhead
<1> QED
  BY <1>1, <1>2 DEF KeyBehind

LEMMA ReadKeyBehind ==
  ASSUME TypeOK, KeysNeverAhead, NEW s \in Sessions, pc[s] = "set"
  PROVE  KeyBehind(ReadKey(s)) /\ read[s].stmt \in Stmts
<1>1. read[s] \in Read /\ Len(read[s].vers) = Len(ModelsOf[read[s].stmt])
  BY DEF TypeOK, VersionsRead
<1>2. read[s].stmt \in Stmts /\ read[s].vers \in Seq(Nat) /\ ModelsOf[read[s].stmt] \in Seq(Tables)
  BY <1>1, StmtsAssumption DEF Read
<1>3. DOMAIN read[s].vers = DOMAIN ModelsOf[read[s].stmt]
  BY <1>1, <1>2
<1>4. ASSUME NEW i \in DOMAIN ModelsOf[read[s].stmt]
      PROVE  /\ read[s].vers[i] \in Nat
             /\ ModelsOf[read[s].stmt][i] \in Tables
             /\ read[s].vers[i] <= version[ModelsOf[read[s].stmt][i]]
  BY <1>3, ReadVersType DEF KeysNeverAhead
<1> QED
  BY <1>2, <1>4 DEF KeyBehind, ReadKey

LEMMA ReadsFencedStep ==
  ASSUME TypeOK, KeysNeverAhead, TablesRecorded, LocksHeld, NoSelect, ReadsFenced, Calm, [Next]_vars
  PROVE  ReadsFenced'
<1> SUFFICES ASSUME NEW s \in Sessions, pc'[s] = "set", NEW r \in CoversOf[read'[s].stmt]
             PROVE  Fenced(ReadKey(s), read[s].result, r)'
  BY DEF ReadsFenced
<1>1. CASE Query(s)
  <2> DEFINE q == read[s].stmt
             rows == [x \in Rows |-> IF x \in CoversOf[q] THEN View(s, x) ELSE Unwritten]
  <2>1. read'[s].stmt = q /\ read'[s].result = rows /\ db' = db
    BY <1>1 DEF Query, TypeOK, Read, dbVars
  <2>2. r \in CoversOf[q] /\ r \in Rows
    BY <2>1, StmtsAssumption DEF TypeOK, Read
  <2>3. read'[s].result[r] = View(s, r)
    BY <2>1, <2>2
  <2>4. db[r].at <= View(s, r).at /\ db[r].at \in Nat /\ View(s, r).at \in Nat
    BY <2>2, ViewIsNew, ViewType DEF TypeOK, Value
  <2> QED
    BY <2>1, <2>3, <2>4 DEF Fenced
<1>2. CASE pc[s] = "set" /\ read'[s] = read[s]
  <2>1. PICK k : k = ReadKey(s)
    OBVIOUS
  <2>2. PICK result : result = read[s].result
    OBVIOUS
  <2>3. ReadKey(s)' = k /\ read'[s].result = result
    BY <1>2, <2>1, <2>2 DEF ReadKey
  <2>4. KeyBehind(k) /\ r \in Rows
    BY <1>2, <2>1, ReadKeyBehind, StmtsAssumption
  <2>5. Fenced(k, result, r)
    BY <1>2, <2>1, <2>2 DEF ReadsFenced
  <2>6. Fenced(k, result, r)'
    BY <2>4, <2>5, FencedStep
  <2> QED
    BY <2>3, <2>6 DEF Fenced, Current
<1> QED
  BY <1>1, <1>2, ReadAtSet

LEMMA BulkFenceStep ==
  ASSUME TypeOK, KeysNeverAhead, TablesRecorded, ReadsFenced, BulkFence, Calm, [Next]_vars
  PROVE  BulkFence'
<1> SUFFICES ASSUME NEW e \in cache', NEW r \in CoversOf[e.key.stmt]
             PROVE  Fenced(e.key, e.result, r)'
  BY DEF BulkFence, Fenced
<1>1. CASE e \in cache
  <2>1. KeyBehind(e.key) /\ r \in Rows
    BY <1>1, EntryKeyBehind, StmtsAssumption
  <2>2. Fenced(e.key, e.result, r)
    BY <1>1 DEF BulkFence, Fenced
  <2> QED
    BY <2>1, <2>2, FencedStep
<1>2. CASE e \notin cache
  <2>1. PICK s \in Sessions : CacheSet(s) /\ e = NewEntry(s)
    BY <1>2, NewEntriesAreSet
  <2>2. pc[s] = "set" /\ e.key = ReadKey(s) /\ e.result = read[s].result /\ e.key.stmt = read[s].stmt
    BY <2>1 DEF CacheSet, NewEntry, ReadKey
  <2>3. KeyBehind(e.key) /\ r \in Rows
    BY <2>2, ReadKeyBehind, StmtsAssumption
  <2>4. Fenced(e.key, e.result, r)
    BY <2>2 DEF ReadsFenced
  <2> QED
    BY <2>3, <2>4, FencedStep
<1> QED
  BY <1>1, <1>2

(* Table-level invalidation works for readers that keep the key of their      *)
(* lookup: with every session bound to the engine, no savepoints, no clear    *)
(* and no failing or interrupted transport call, no value older than a        *)
(* committed bulk statement can be found once its table counter is bumped.    *)
THEOREM TableFence ==
  ASSUME Calm, "select" \notin Calls, Tracked = Tables, Matched = Sessions
  PROVE  Spec => []BulkFence
<1> DEFINE IInv == /\ TypeOK /\ KeysNeverAhead /\ TablesRecorded /\ LocksHeld
                   /\ NoSelect /\ ReadsFenced /\ BulkFence
<1>1. Init => IInv
  BY TypeInit, KeysInit, RecordedInit, LocksInit, NoSelectInit DEF PendingCovers, ReadsFenced, BulkFence, Init
<1>2. IInv /\ [Next]_vars => IInv'
  BY CalmAllows, TypeStep, KeysStep, TablesRecordedStep, LocksStep, NoSelectStep, ReadsFencedStep, BulkFenceStep
<1>3. IInv => BulkFence
  OBVIOUS
<1> QED
  BY <1>1, <1>2, <1>3, PTL DEF Spec

-----------------------------------------------------------------------------
(* What overtaking costs.  The violation runs show that a commit between the  *)
(* query of a read and its set leaves a stale entry; here, that nothing else  *)
(* does.                                                                      *)

Queried(s) == pc[s] \in {"storeKey", "set"}

(* Session s commits a write to row r that the read of o has not seen.        *)
Overtakes(s, o, r) == Commit(s) /\ Queried(o) /\ work[s][r].at > 0

TagsNotOvertaken ==
    [][\A s, o \in Sessions : \A r \in TagsOf(read[o].stmt, read[o].result) : ~Overtakes(s, o, r)]_vars

ReadsNotOvertaken ==
    [][\A s, o \in Sessions : \A r \in CoversOf[read[o].stmt] : ~Overtakes(s, o, r)]_vars

(* The result that a read is about to store is not older than the database.   *)
Fresh(s, r) == db[r].at <= read[s].result[r].at
TagsFresh == \A s \in Sessions : Queried(s) => \A r \in TagsOf(read[s].stmt, read[s].result) : Fresh(s, r)
ReadsFresh == \A s \in Sessions : Queried(s) => \A r \in CoversOf[read[s].stmt] : Fresh(s, r)

LEMMA ReadCovers ==
  ASSUME TypeOK, NEW s \in Sessions
  PROVE  /\ read[s].stmt \in Stmts
         /\ CoversOf[read[s].stmt] \subseteq Rows
         /\ TagsOf(read[s].stmt, read[s].result) \subseteq CoversOf[read[s].stmt]
<1>1. read[s].stmt \in Stmts
  BY DEF TypeOK, Read
<1> QED
  BY <1>1, StmtsAssumption DEF TagsOf

(* A row of the database changes when a session commits a write to it.        *)
LEMMA CommittedBy ==
  ASSUME TypeOK, [Next]_vars, NEW r \in Rows
  PROVE  db'[r] = db[r] \/ \E s \in Sessions : Commit(s) /\ work[s][r].at > 0
<1>1. ASSUME NEW s \in Sessions, Commit(s), ~(work[s][r].at > 0) PROVE db'[r] = db[r]
  BY <1>1 DEF Commit, View
<1>2. ASSUME NEW s \in Sessions, SessionStep(s), ~Commit(s) PROVE db' = db
  BY <1>2, ReadFrame, EvictFrame, WriteFrame, EndFrame, MishapFrame DEF SessionStep
<1>3. ASSUME ManualCall \/ StoreDrops \/ UNCHANGED vars PROVE db' = db
  BY <1>3, ManualFrame
<1> QED
  BY <1>1, <1>2, <1>3 DEF Next, SessionStep

(* A read that has queried does so in this step, or keeps what it found.      *)
LEMMA QueriedStep ==
  ASSUME TypeOK, [Next]_vars, NEW s \in Sessions, Queried(s)'
  PROVE  \/ Query(s)
         \/ Queried(s) /\ read'[s].stmt = read[s].stmt /\ read'[s].result = read[s].result
<1>1. ASSUME UNCHANGED <<pc, read>> PROVE Queried(s) /\ read'[s] = read[s]
  BY <1>1 DEF Queried
<1>2. ASSUME NEW n, pc[s] \in {"lookupKey", "storeKey"}, AddVersion(s, n)
      PROVE  Queried(s) /\ read'[s].stmt = read[s].stmt /\ read'[s].result = read[s].result
  BY <1>2 DEF AddVersion, Queried, TypeOK, Read
<1>3. ASSUME NEW o \in Sessions, o # s, SessionStep(o) PROVE Queried(s) /\ read'[s] = read[s]
  BY <1>3, OthersUntouched DEF Queried
<1>4. CASE ReadStep(s) \/ ReadCall(s)
  <2>1. CASE ReadVersion(s)
    <3>1. PICK n : n = version[ModelsOf[read[s].stmt][Len(read[s].vers) + 1]]
      OBVIOUS
    <3> QED
      BY <1>2, <2>1, <3>1 DEF ReadVersion
  <2>2. CASE CacheHit(s) \/ CacheSet(s) \/ CacheMiss(s) \/ ReadCall(s)
    BY <2>2 DEF ReadCall, StartSelect, StartExecute, StartRead, CacheHit, CacheSet, EndRead, CacheMiss, CacheMissed,
                Queried, TypeOK
  <2> QED
    BY <1>4, <2>1, <2>2 DEF ReadStep
<1>5. ASSUME EvictStep(s) \/ WriteCall(s) \/ EndCall(s) PROVE UNCHANGED <<pc, read>> \/ ~Queried(s)'
  <2>1. CASE EvictStep(s)
    BY <2>1 DEF EvictStep, EvictRows, BumpTable, RowsDone, TableDone, JobLeft, Queried, TypeOK
  <2>2. CASE WriteCall(s)
    BY <2>2, WriteFrame
  <2>3. CASE EndCall(s)
    BY <2>3, EndFrame DEF EndCall, Commit, Rollback, Close, BeginNested, RollbackNested, ReleaseNested, PopPending,
                          Queried, TypeOK
  <2> QED
    BY <1>5, <2>1, <2>2, <2>3
<1>6. CASE Mishap(s)
  BY <1>1, <1>2, <1>6 DEF Mishap, EvictRowsOfLostTags, SuppressedFault, RaisedFault, Crash, CacheMissed, EndRead, RowsDone, TableDone, JobLeft,
                    Queried, TypeOK
<1>7. ASSUME ManualCall \/ StoreDrops \/ UNCHANGED vars PROVE UNCHANGED <<pc, read>>
  BY <1>7, ManualFrame
<1> QED
  BY <1>1, <1>3, <1>4, <1>5, <1>6, <1>7 DEF Next, SessionStep, Queried

(* A query finds what is committed, and only an overtaking commit changes it. *)
LEMMA FreshByQuery ==
  ASSUME TypeOK, LocksHeld, NEW s \in Sessions, Query(s), NEW r \in CoversOf[read[s].stmt]
  PROVE  Fresh(s, r)' /\ read'[s].stmt = read[s].stmt
<1> DEFINE q == read[s].stmt
           rows == [x \in Rows |-> IF x \in CoversOf[q] THEN View(s, x) ELSE Unwritten]
<1>1. read'[s].stmt = q /\ read'[s].result = rows /\ db' = db
  BY DEF Query, TypeOK, Read, dbVars
<1>2. r \in Rows
  BY ReadCovers
<1>3. read'[s].result[r] = View(s, r)
  BY <1>1, <1>2
<1> QED
  BY <1>1, <1>2, <1>3, ViewIsNew DEF Fresh

LEMMA FreshQuietly ==
  ASSUME TypeOK, [Next]_vars, NEW s \in Sessions, Queried(s), read'[s].result = read[s].result, NEW r \in Rows, Fresh(s, r),
         \A o \in Sessions : ~Overtakes(o, s, r)
  PROVE  Fresh(s, r)'
BY CommittedBy DEF Fresh, Overtakes

LEMMA TagsFreshStep ==
  ASSUME TypeOK, LocksHeld, TagsFresh, [Next]_vars,
         [\A s, o \in Sessions : \A r \in TagsOf(read[o].stmt, read[o].result) : ~Overtakes(s, o, r)]_vars
  PROVE  TagsFresh'
<1> SUFFICES ASSUME NEW s \in Sessions, Queried(s)', NEW r \in TagsOf(read'[s].stmt, read'[s].result)
             PROVE  Fresh(s, r)'
  BY DEF TagsFresh
<1>1. CASE Query(s)
  <2>1. read'[s].stmt = read[s].stmt
    BY <1>1 DEF Query, TypeOK, Read
  <2>2. r \in CoversOf[read[s].stmt]
    BY <2>1 DEF TagsOf
  <2> QED
    BY <1>1, <2>2, FreshByQuery
<1>2. CASE Queried(s) /\ read'[s].stmt = read[s].stmt /\ read'[s].result = read[s].result
  <2>1. r \in TagsOf(read[s].stmt, read[s].result)
    BY <1>2
  <2>2. r \in Rows /\ Fresh(s, r)
    BY <1>2, <2>1, ReadCovers DEF TagsFresh
  <2>3. CASE UNCHANGED vars
    BY <2>2, <2>3 DEF vars, Fresh
  <2> QED
    BY <1>2, <2>1, <2>2, <2>3, FreshQuietly
<1> QED
  BY <1>1, <1>2, QueriedStep

LEMMA ReadsFreshStep ==
  ASSUME TypeOK, LocksHeld, ReadsFresh, [Next]_vars,
         [\A s, o \in Sessions : \A r \in CoversOf[read[o].stmt] : ~Overtakes(s, o, r)]_vars
  PROVE  ReadsFresh'
<1> SUFFICES ASSUME NEW s \in Sessions, Queried(s)', NEW r \in CoversOf[read'[s].stmt]
             PROVE  Fresh(s, r)'
  BY DEF ReadsFresh
<1>1. CASE Query(s)
  <2>1. read'[s].stmt = read[s].stmt
    BY <1>1 DEF Query, TypeOK, Read
  <2> QED
    BY <1>1, <2>1, FreshByQuery
<1>2. CASE Queried(s) /\ read'[s].stmt = read[s].stmt /\ read'[s].result = read[s].result
  <2>1. r \in CoversOf[read[s].stmt]
    BY <1>2
  <2>2. r \in Rows /\ Fresh(s, r)
    BY <1>2, <2>1, ReadCovers DEF ReadsFresh
  <2>3. CASE UNCHANGED vars
    BY <2>2, <2>3 DEF vars, Fresh
  <2> QED
    BY <1>2, <2>1, <2>2, <2>3, FreshQuietly
<1> QED
  BY <1>1, <1>2, QueriedStep

NoneOvertaken == \A e \in cache : e.overtaken = {}

LEMMA NoneOvertakenStep ==
  ASSUME TypeOK, TagsFresh, NoneOvertaken, [Next]_vars
  PROVE  NoneOvertaken'
<1> SUFFICES ASSUME NEW e \in cache', e \notin cache PROVE e.overtaken = {}
  BY DEF NoneOvertaken
<1>1. PICK s \in Sessions : CacheSet(s) /\ e = NewEntry(s)
  BY NewEntriesAreSet
<1>2. ASSUME NEW r \in TagsOf(read[s].stmt, read[s].result) PROVE ~(read[s].result[r].at < db[r].at)
  <2>1. r \in Rows /\ Fresh(s, r)
    BY <1>1, ReadCovers DEF TagsFresh, CacheSet, Queried
  <2>2. db[r].at \in Nat /\ read[s].result[r].at \in Nat
    BY <2>1 DEF TypeOK, Read, Value
  <2> QED
    BY <2>1, <2>2 DEF Fresh
<1>3. e.overtaken = {r \in TagsOf(read[s].stmt, read[s].result) : read[s].result[r].at < db[r].at /\ ~Evicting(r)}
  BY <1>1 DEF NewEntry
<1> QED
  BY <1>2, <1>3

(* The only way to a stale hit on a row is a commit that overtakes a read: if *)
(* none writes a row that another read has found and not yet stored, then     *)
(* once a commit() has returned no lookup finds an older value of the rows it *)
(* flushed.                                                                   *)
THEOREM StaleOnlyWhenOvertaken ==
  ASSUME Calm, Tracked = Tables
  PROVE  Spec /\ TagsNotOvertaken => []NoStaleHit
<1> DEFINE IInv == /\ TypeOK /\ KeysNeverAhead /\ RowsRecorded /\ CommittedRowEvicted
                   /\ LocksHeld /\ TagsFresh /\ NoneOvertaken
<1>1. Init => IInv
  BY TypeInit, KeysInit, RecordedInit, LocksInit
     DEF PendingCovers, CommittedRowEvicted, TagsFresh, Queried, NoneOvertaken, Init
<1>2. IInv /\ [Next]_vars
        /\ [\A s, o \in Sessions : \A r \in TagsOf(read[o].stmt, read[o].result) : ~Overtakes(s, o, r)]_vars
      => IInv'
  BY CalmAllows, TypeStep, KeysStep, RowsRecordedStep, RowEvictionStep, LocksStep, TagsFreshStep, NoneOvertakenStep
<1>3. IInv => NoStaleHit
  BY DEF CommittedRowEvicted, NoStaleHit, NoneOvertaken
<1> QED
  BY <1>1, <1>2, <1>3, PTL DEF Spec, TagsNotOvertaken

(* A result that is not older than the database cannot hide a bulk statement, *)
(* whatever its key.                                                          *)
LEMMA FreshIsFenced ==
  ASSUME TypeOK, ReadsFresh
  PROVE  ReadsFenced
<1> SUFFICES ASSUME NEW s \in Sessions, pc[s] = "set", NEW r \in CoversOf[read[s].stmt]
             PROVE  ~(read[s].result[r].at < db[r].at)
  BY DEF ReadsFenced, Fenced
<1>1. r \in Rows /\ Fresh(s, r)
  BY ReadCovers DEF ReadsFresh, Queried
<1>2. db[r].at \in Nat /\ read[s].result[r].at \in Nat
  BY <1>1 DEF TypeOK, Read, Value
<1> QED
  BY <1>1, <1>2 DEF Fresh

(* The same at table level, where the interceptor's rebuilt key is harmless   *)
(* too unless a commit overtakes the read: no lookup finds a value older than *)
(* a committed bulk statement whose counter is bumped.                        *)
THEOREM RebuiltKeyOnlyWhenOvertaken ==
  ASSUME Calm, Tracked = Tables, Matched = Sessions
  PROVE  Spec /\ ReadsNotOvertaken => []BulkFence
<1> DEFINE IInv == TypeOK /\ KeysNeverAhead /\ TablesRecorded /\ LocksHeld /\ ReadsFresh /\ BulkFence
<1>1. Init => IInv
  BY TypeInit, KeysInit, RecordedInit, LocksInit DEF PendingCovers, ReadsFresh, Queried, BulkFence, Init
<1>2. IInv /\ [Next]_vars
        /\ [\A s, o \in Sessions : \A r \in CoversOf[read[o].stmt] : ~Overtakes(s, o, r)]_vars
      => IInv'
  BY CalmAllows, TypeStep, KeysStep, TablesRecordedStep, LocksStep, ReadsFreshStep, FreshIsFenced, BulkFenceStep
<1>3. IInv => BulkFence
  OBVIOUS
<1> QED
  BY <1>1, <1>2, <1>3, PTL DEF Spec, ReadsNotOvertaken

(* A session alone with the database never finds anything stale: its commits  *)
(* cannot overtake its reads.                                                 *)
THEOREM AloneNothingIsStale ==
  ASSUME Calm, Tracked = Tables, Matched = Sessions, \A s, o \in Sessions : s = o
  PROVE  Spec => [](NoStaleHit /\ BulkFence)
<1>1. \A s, o \in Sessions : \A r : ~Overtakes(s, o, r)
  BY DEF Overtakes, Commit, Queried
<1>2. Spec => TagsNotOvertaken /\ ReadsNotOvertaken
  <2>1. [Next]_vars => [\A s, o \in Sessions : \A r \in TagsOf(read[o].stmt, read[o].result) : ~Overtakes(s, o, r)]_vars
    BY <1>1
  <2>2. [Next]_vars => [\A s, o \in Sessions : \A r \in CoversOf[read[o].stmt] : ~Overtakes(s, o, r)]_vars
    BY <1>1
  <2> QED
    BY <2>1, <2>2, PTL DEF Spec, TagsNotOvertaken, ReadsNotOvertaken
<1>3. Spec /\ TagsNotOvertaken => []NoStaleHit
  BY StaleOnlyWhenOvertaken
<1>4. Spec /\ ReadsNotOvertaken => []BulkFence
  BY RebuiltKeyOnlyWhenOvertaken
<1> QED
  BY <1>2, <1>3, <1>4, PTL

=============================================================================
