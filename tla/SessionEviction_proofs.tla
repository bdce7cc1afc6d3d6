----------------------- MODULE SessionEviction_proofs -----------------------
(***************************************************************************)
(* Row-level eviction, for every value of the constants: if every model    *)
(* has mapper listeners, and the application uses no savepoint, nobody     *)
(* clears the cache, the store keeps its counters and tags, and no         *)
(* eviction fails or is cut short, then a                                  *)
(* committed row write is evicted.  Reads (dirty ones too, autoflush       *)
(* included), bulk statements, INSERT statements, rollback, close and the  *)
(* manual invalidations are all allowed.  And what is evicted is           *)
(* committed.                                                              *)
(***************************************************************************)
EXTENDS SessionCache_proofs

(* The mishaps that the eviction theorems exclude.                          *)
Calm == Calls \cap {"release", "rollbackTo", "clear", "lru", "suppressed", "raised", "crash"} = {}
CountersKept == Calls \cap {"clear", "lru"} = {}
NoSavepoints == Calls \cap {"release", "rollbackTo"} = {}

-----------------------------------------------------------------------------
(* What groups of actions leave alone.                                      *)

LEMMA CalmAllows == Calm => CountersKept /\ NoSavepoints
BY DEF Calm, CountersKept, NoSavepoints

LEMMA CalmStep ==
  ASSUME Calm, Next
  PROVE  \/ \E s \in Sessions : ReadStep(s) \/ EvictStep(s) \/ ReadCall(s) \/ WriteCall(s)
                                  \/ Commit(s) \/ Rollback(s) \/ Close(s)
         \/ \E t \in Tables, R \in SUBSET Rows : InvalidateRows(t, R)
         \/ \E t \in Tables : InvalidateTable(t)
         \/ \E k : Expire(k)
<1>1. ASSUME NEW s \in Sessions PROVE ~BeginNested(s) /\ ~RollbackNested(s) /\ ~ReleaseNested(s) /\ ~Mishap(s)
  BY DEF Calm, BeginNested, RollbackNested, ReleaseNested, Mishap, EvictRowsOfLostTags, SuppressedFault, RaisedFault, Crash
<1>2. ~InvalidateAll /\ \A t \in Tables : ~LoseCounter(t)
  BY DEF Calm, InvalidateAll, LoseCounter
<1> QED
  BY <1>1, <1>2 DEF Next, EndCall, ManualCall, StoreDrops

(* Only commits start a job, and only eviction steps work on one.             *)
LEMMA EvictingFrame ==
  ASSUME TypeOK, NEW s \in Sessions, pc[s] # "evict", NEW p, pc' = [pc EXCEPT ![s] = p], job' = job,
         NEW r \in Rows, Evicting(r)
  PROVE  Evicting(r)'
BY DEF TypeOK, Evicting

-----------------------------------------------------------------------------
(* Table versions.                                                            *)

LEMMA VersionsGrow ==
  ASSUME TypeOK, CountersKept, [Next]_vars
  PROVE  \A t \in Tables : version[t] \in Nat /\ version'[t] \in Nat /\ version[t] <= version'[t]
<1>1. version \in [Tables -> Nat] /\ version' \in [Tables -> Nat]
  BY TypeStep DEF TypeOK
<1>2. CASE version' = version
  BY <1>1, <1>2
<1>3. ASSUME NEW t \in Tables, version' = [version EXCEPT ![t] = @ + 1]
      PROVE  \A u \in Tables : version[u] <= version'[u]
  BY <1>1, <1>3
<1>4. ASSUME NEW s \in Sessions, ReadStep(s) \/ ReadCall(s) \/ WriteCall(s) \/ EndCall(s) \/ Mishap(s)
      PROVE  version' = version
  BY <1>4, ReadFrame, WriteFrame, EndFrame, MishapFrame
<1>5. ASSUME NEW s \in Sessions, EvictStep(s)
      PROVE  version' = version \/ \E t \in Tables : version' = [version EXCEPT ![t] = @ + 1]
  BY <1>5 DEF EvictStep, EvictRows, BumpTable
<1>6. ASSUME ManualCall \/ StoreDrops \/ UNCHANGED vars
      PROVE  version' = version \/ \E t \in Tables : version' = [version EXCEPT ![t] = @ + 1]
  BY <1>6 DEF CountersKept, ManualCall, InvalidateRows, InvalidateTable, InvalidateAll, StoreDrops, Expire, LoseCounter, vars
<1> QED
  BY <1>1, <1>2, <1>3, <1>4, <1>5, <1>6 DEF Next

(* A key, cached or being built, never names a version that the counters have *)
(* not reached: bumping a counter can only make entries unreachable.          *)
KeysNeverAhead ==
    /\ \A e \in cache : \A i \in DOMAIN ModelsOf[e.key.stmt] :
          e.key.vers[i] <= version[ModelsOf[e.key.stmt][i]]
    /\ \A s \in Sessions : \A i \in DOMAIN read[s].vers :
          read[s].vers[i] <= version[ModelsOf[read[s].stmt][i]]

LEMMA KeysInit == Init => KeysNeverAhead
BY NoReadType DEF Init, KeysNeverAhead

(* The versions that a read holds, and the models that they are for.          *)
LEMMA ReadVersType ==
  ASSUME TypeOK, NEW s \in Sessions, NEW i \in DOMAIN read[s].vers
  PROVE  read[s].vers[i] \in Nat /\ ModelsOf[read[s].stmt][i] \in Tables
<1>1. read[s] \in Read /\ VersionsRead(s)
  BY DEF TypeOK
<1>2. read[s].vers \in Seq(Nat) /\ ModelsOf[read[s].stmt] \in Seq(Tables)
  BY <1>1, StmtsAssumption DEF Read
<1>3. Len(read[s].vers) <= Len(ModelsOf[read[s].stmt])
  BY <1>1 DEF VersionsRead
<1> QED
  BY <1>2, <1>3

LEMMA EntryVersType ==
  ASSUME TypeOK, NEW e \in cache, NEW i \in DOMAIN ModelsOf[e.key.stmt]
  PROVE  e.key.vers[i] \in Nat /\ ModelsOf[e.key.stmt][i] \in Tables
<1>1. e \in Entry
  BY DEF TypeOK
<1>2. e.key \in Key /\ Len(e.key.vers) = Len(ModelsOf[e.key.stmt])
  BY <1>1 DEF Entry
<1>3. e.key.vers \in Seq(Nat) /\ ModelsOf[e.key.stmt] \in Seq(Tables)
  BY <1>2, StmtsAssumption DEF Key
<1> QED
  BY <1>2, <1>3

ReadNotAhead(s) == \A i \in DOMAIN read[s].vers : read[s].vers[i] <= version[ModelsOf[read[s].stmt][i]]
EntryNotAhead(e) == \A i \in DOMAIN ModelsOf[e.key.stmt] : e.key.vers[i] <= version[ModelsOf[e.key.stmt][i]]

(* A counter only grows, so what it is compared with stays behind it.         *)
LEMMA ReadStaysBehind ==
  ASSUME TypeOK, CountersKept, [Next]_vars, NEW s \in Sessions, ReadNotAhead(s), read'[s] = read[s]
  PROVE  ReadNotAhead(s)'
<1> SUFFICES ASSUME NEW i \in DOMAIN read[s].vers
             PROVE  read[s].vers[i] <= version'[ModelsOf[read[s].stmt][i]]
  BY DEF ReadNotAhead
<1>1. read[s].vers[i] \in Nat /\ ModelsOf[read[s].stmt][i] \in Tables
  BY ReadVersType
<1>2. read[s].vers[i] <= version[ModelsOf[read[s].stmt][i]]
  BY DEF ReadNotAhead
<1> QED
  BY <1>1, <1>2, VersionsGrow

LEMMA EntryStaysBehind ==
  ASSUME TypeOK, CountersKept, [Next]_vars, NEW e \in cache, EntryNotAhead(e)
  PROVE  EntryNotAhead(e)'
<1> SUFFICES ASSUME NEW i \in DOMAIN ModelsOf[e.key.stmt]
             PROVE  e.key.vers[i] <= version'[ModelsOf[e.key.stmt][i]]
  BY DEF EntryNotAhead
<1>1. e.key.vers[i] \in Nat /\ ModelsOf[e.key.stmt][i] \in Tables
  BY EntryVersType
<1>2. e.key.vers[i] <= version[ModelsOf[e.key.stmt][i]]
  BY DEF EntryNotAhead
<1> QED
  BY <1>1, <1>2, VersionsGrow

(* A version that a read adds to its key is that of the counter, or 0.        *)
LEMMA VersionAdded ==
  ASSUME TypeOK, NEW s \in Sessions, pc[s] \in {"lookupKey", "storeKey"}, ReadNotAhead(s), NEW n, AddVersion(s, n),
         n = version[ModelsOf[read[s].stmt][Len(read[s].vers) + 1]] \/ n = 0
  PROVE  ReadNotAhead(s)'
<1>1. read'[s].vers = Append(read[s].vers, n) /\ read'[s].stmt = read[s].stmt /\ version' = version
  BY DEF AddVersion, TypeOK, Read
<1>2. read[s] \in Read /\ Len(read[s].vers) < Len(ModelsOf[read[s].stmt])
  BY DEF TypeOK, VersionsRead
<1>3. read[s].vers \in Seq(Nat) /\ ModelsOf[read[s].stmt] \in Seq(Tables)
  BY <1>2, StmtsAssumption DEF Read
<1>4. ModelsOf[read[s].stmt][Len(read[s].vers) + 1] \in Tables
  BY <1>2, <1>3
<1>5. n \in Nat /\ n <= version[ModelsOf[read[s].stmt][Len(read[s].vers) + 1]]
  BY <1>4 DEF TypeOK
<1> SUFFICES ASSUME NEW i \in DOMAIN Append(read[s].vers, n)
             PROVE  Append(read[s].vers, n)[i] <= version[ModelsOf[read[s].stmt][i]]
  BY <1>1 DEF ReadNotAhead
<1>6. CASE i = Len(read[s].vers) + 1
  BY <1>3, <1>5, <1>6
<1>7. CASE i # Len(read[s].vers) + 1
  <2>1. i \in 1..Len(read[s].vers)
    BY <1>3, <1>5, <1>7
  <2>2. i \in DOMAIN read[s].vers /\ Append(read[s].vers, n)[i] = read[s].vers[i]
    BY <1>3, <1>5, <2>1
  <2> QED
    BY <2>2 DEF ReadNotAhead
<1> QED
  BY <1>6, <1>7

(* The step of a read adds the version that the counter has, or drops all.    *)
LEMMA ReadKeyStep ==
  ASSUME TypeOK, NEW s \in Sessions, ReadNotAhead(s), ReadStep(s) \/ ReadCall(s)
  PROVE  ReadNotAhead(s)'
<1>1. read \in [Sessions -> Read] /\ version' = version
  BY ReadFrame DEF TypeOK
<1>2. CASE ReadVersion(s)
  BY <1>2, VersionAdded DEF ReadVersion
<1>3. CASE Query(s)
  <2>1. /\ read'[s].vers = <<>> \/ read'[s].vers = read[s].vers
        /\ read'[s].stmt = read[s].stmt
    BY <1>1, <1>3 DEF Query, Read
  <2> QED
    BY <1>1, <2>1 DEF ReadNotAhead
<1>4. CASE read'[s].vers = <<>>
  BY <1>4 DEF ReadNotAhead
<1>5. CASE read' = read
  BY <1>1, <1>5 DEF ReadNotAhead
<1>6. CASE CacheHit(s) \/ CacheSet(s)
  BY <1>1, <1>4, <1>6, NoReadType DEF CacheHit, CacheSet, EndRead
<1>7. CASE CacheMiss(s)
  BY <1>5, <1>7 DEF CacheMiss, CacheMissed
<1>8. CASE ReadCall(s)
  <2>1. PICK c \in Stmts, path \in {"select", "execute"} : StartRead(s, c, path)
    BY <1>8 DEF ReadCall, StartSelect, StartExecute
  <2>2. read'[s] = [NoRead EXCEPT !.path = path, !.stmt = c]
    BY <1>1, <2>1 DEF StartRead
  <2>3. [NoRead EXCEPT !.path = path, !.stmt = c].vers = NoRead.vers
    BY NoReadType DEF Read
  <2> QED
    BY <1>4, <2>2, <2>3, NoReadType
<1> QED
  BY <1>2, <1>3, <1>6, <1>7, <1>8 DEF ReadStep

LEMMA ReadKeyMishap ==
  ASSUME TypeOK, NEW s \in Sessions, ReadNotAhead(s), Mishap(s)
  PROVE  ReadNotAhead(s)'
<1>1. CASE read' = read
  BY <1>1, MishapFrame DEF ReadNotAhead
<1>2. CASE read'[s] = NoRead
  BY <1>2, NoReadType DEF ReadNotAhead
<1>3. CASE pc[s] \in {"lookupKey", "storeKey"} /\ AddVersion(s, 0)
  BY <1>3, VersionAdded
<1> QED
  BY <1>1, <1>2, <1>3 DEF Mishap, EvictRowsOfLostTags, SuppressedFault, RaisedFault, Crash, CacheMissed, EndRead, RowsDone, TableDone,
                          JobLeft, TypeOK

(* The key that a read holds changes with a step of its own.                  *)
LEMMA KeyOfReadStep ==
  ASSUME TypeOK, CountersKept, [Next]_vars, NEW s \in Sessions, ReadNotAhead(s)
  PROVE  ReadNotAhead(s)'
<1>1. CASE read'[s] = read[s]
  BY <1>1, ReadStaysBehind
<1>2. CASE ReadStep(s) \/ ReadCall(s)
  BY <1>2, ReadKeyStep
<1>3. CASE Mishap(s)
  BY <1>1, <1>3, ReadKeyMishap
<1>4. ASSUME NEW o \in Sessions, o # s, SessionStep(o) PROVE read'[s] = read[s]
  BY <1>4, OthersUntouched
<1>5. ASSUME EvictStep(s) \/ WriteCall(s) \/ EndCall(s) PROVE read'[s] = read[s]
  BY <1>5, EvictFrame, WriteFrame, EndFrame
<1>6. ASSUME ManualCall \/ StoreDrops \/ UNCHANGED vars PROVE read'[s] = read[s]
  BY <1>6, ManualFrame
<1> QED
  BY <1>1, <1>2, <1>3, <1>4, <1>5, <1>6 DEF Next, SessionStep

LEMMA KeysStep ==
  ASSUME TypeOK, KeysNeverAhead, CountersKept, [Next]_vars
  PROVE  KeysNeverAhead'
<1>1. \A s \in Sessions : ReadNotAhead(s)
  BY DEF KeysNeverAhead, ReadNotAhead
<1>2. ASSUME NEW s \in Sessions PROVE ReadNotAhead(s)'
  BY <1>1, KeyOfReadStep
<1>3. ASSUME NEW e \in cache, e \in cache' PROVE EntryNotAhead(e)'
  <2>1. EntryNotAhead(e)
    BY DEF KeysNeverAhead, EntryNotAhead
  <2> QED
    BY <2>1, EntryStaysBehind
<1>4. ASSUME NEW s \in Sessions, CacheSet(s), NEW e, e = NewEntry(s) PROVE EntryNotAhead(e)'
  <2>1. e.key.stmt = read[s].stmt /\ e.key.vers = read[s].vers /\ version' = version
    BY <1>4 DEF NewEntry, ReadKey, CacheSet, EndRead
  <2>2. read[s] \in Read /\ Len(read[s].vers) = Len(ModelsOf[read[s].stmt])
    BY <1>4 DEF CacheSet, TypeOK, VersionsRead
  <2>3. DOMAIN read[s].vers = DOMAIN ModelsOf[read[s].stmt]
    BY <2>2, StmtsAssumption DEF Read
  <2> QED
    BY <1>1, <2>1, <2>3 DEF ReadNotAhead, EntryNotAhead
<1>5. \A e \in cache' : EntryNotAhead(e)'
  BY <1>3, <1>4, NewEntriesAreSet
<1> QED
  BY <1>2, <1>5 DEF KeysNeverAhead, ReadNotAhead, EntryNotAhead

-----------------------------------------------------------------------------
(* What is recorded for a session covers what its transaction wrote.          *)

(* Savepoints apart, what a transaction wrote and what is recorded of it go   *)
(* together, also when it is interrupted.                                     *)
LEMMA WorkFrame ==
  ASSUME TypeOK, NoSavepoints, [Next]_vars, NEW s \in Sessions
  PROVE  \/ work'[s] = work[s] /\ pending'[s] = pending[s]
         \/ work'[s] = NoWork
         \/ WriteCall(s)
<1>1. ASSUME NEW o \in Sessions \ {s}, SessionStep(o)
      PROVE  work'[s] = work[s] /\ pending'[s] = pending[s]
  BY <1>1, OthersUntouched
<1>2. CASE ReadStep(s) \/ ReadCall(s) \/ EvictStep(s)
  BY <1>2, ReadFrame, EvictFrame
<1>3. CASE EndCall(s)
  BY <1>3 DEF NoSavepoints, TypeOK, EndCall, Commit, Rollback, Close, BeginNested, RollbackNested, ReleaseNested
<1>4. CASE Mishap(s)
  BY <1>4, MishapFrame DEF Crash, TypeOK
<1>5. CASE ManualCall \/ StoreDrops \/ UNCHANGED vars
  BY <1>5, ManualFrame
<1> QED
  BY <1>1, <1>2, <1>3, <1>4, <1>5 DEF Next, SessionStep

(* What a write leaves in work and in pending.                                *)
LEMMA WriteEffect ==
  ASSUME TypeOK, NEW s \in Sessions, WriteCall(s), Tracked = Tables
  PROVE  /\ pending[s].rows \subseteq pending'[s].rows
         /\ pending[s].bulk \subseteq pending'[s].bulk
         /\ \A r \in Rows : \/ work'[s][r] = work[s][r]
                            \/ work'[s][r].by = "flush" /\ r \in pending'[s].rows
                            \/ work'[s][r].by = "bulk" /\ (s \in Matched => TableOf[r] \in pending'[s].bulk)
                            \/ work'[s][r].by = "insert"
<1>1. ASSUME NEW r \in Rows, NEW h \in BOOLEAN, FlushRow(s, r, h)
      PROVE  /\ pending'[s].rows = pending[s].rows \cup {r} /\ pending'[s].bulk = pending[s].bulk
             /\ \A x \in Rows : work'[s][x] = work[s][x] \/ (work'[s][x].by = "flush" /\ x \in pending'[s].rows)
  <2>1. Listening(TableOf[r])
    BY TablesAssumption DEF Listening
  <2>2. pending' = [pending EXCEPT ![s].rows = @ \cup {r}]
    BY <1>1, <2>1 DEF FlushRow, RecordRow
  <2>3. pending'[s].rows = pending[s].rows \cup {r} /\ pending'[s].bulk = pending[s].bulk
    BY <2>2 DEF TypeOK, Pending
  <2>4. work'[s] = [x \in Rows |-> IF x \in {r} THEN [at |-> clock + 1, hit |-> h, by |-> "flush"] ELSE work[s][x]]
    BY <1>1 DEF FlushRow, Write, TypeOK
  <2> QED
    BY <2>3, <2>4
<1>2. ASSUME NEW t \in Tables, NEW R \in SUBSET Rows, NEW h \in BOOLEAN, BulkDML(s, t, R, h)
      PROVE  /\ pending'[s].rows = pending[s].rows /\ pending[s].bulk \subseteq pending'[s].bulk
             /\ \A x \in Rows : \/ work'[s][x] = work[s][x]
                                \/ work'[s][x].by = "bulk" /\ (s \in Matched => TableOf[x] \in pending'[s].bulk)
  <2>1. work'[s] = [x \in Rows |-> IF x \in R THEN [at |-> clock + 1, hit |-> h, by |-> "bulk"] ELSE work[s][x]]
    BY <1>2 DEF BulkDML, Write, TypeOK
  <2>2. \A x \in R : TableOf[x] = t
    BY <1>2 DEF BulkDML
  <2>3. CASE s \in Matched
    <3>1. pending' = [pending EXCEPT ![s].bulk = @ \cup {t}]
      BY <1>2, <2>3 DEF BulkDML, RecordTable
    <3>2. pending'[s].rows = pending[s].rows /\ pending'[s].bulk = pending[s].bulk \cup {t}
      BY <3>1 DEF TypeOK, Pending
    <3> QED
      BY <2>1, <2>2, <3>2
  <2>4. CASE s \notin Matched
    BY <1>2, <2>1, <2>4 DEF BulkDML
  <2> QED
    BY <2>3, <2>4
<1>3. ASSUME NEW r \in Rows, BulkInsert(s, r)
      PROVE  /\ pending' = pending
             /\ \A x \in Rows : work'[s][x] = work[s][x] \/ work'[s][x].by = "insert"
  <2>1. work'[s] = [x \in Rows |-> IF x \in {r} THEN [at |-> clock + 1, hit |-> TRUE, by |-> "insert"] ELSE work[s][x]]
    BY <1>3 DEF BulkInsert, Write, TypeOK
  <2> QED
    BY <1>3, <2>1 DEF BulkInsert
<1> QED
  BY <1>1, <1>2, <1>3 DEF WriteCall

LEMMA RowsRecordedStep ==
  ASSUME TypeOK, RowsRecorded, NoSavepoints, Tracked = Tables, [Next]_vars
  PROVE  RowsRecorded'
<1> SUFFICES ASSUME NEW s \in Sessions, NEW r \in Rows, work'[s][r].by = "flush"
             PROVE  r \in pending'[s].rows
  BY DEF RowsRecorded
<1>1. CASE work'[s] = work[s] /\ pending'[s] = pending[s]
  BY <1>1 DEF RowsRecorded
<1>2. work'[s] # NoWork
  BY DEF NoWork, Unwritten
<1>3. CASE WriteCall(s)
  BY <1>3, WriteEffect DEF RowsRecorded
<1> QED
  BY <1>1, <1>2, <1>3, WorkFrame

LEMMA TablesRecordedStep ==
  ASSUME TypeOK, TablesRecorded, NoSavepoints, Tracked = Tables, Matched = Sessions, [Next]_vars
  PROVE  TablesRecorded'
<1> SUFFICES ASSUME NEW s \in Sessions, NEW r \in Rows, work'[s][r].by = "bulk"
             PROVE  TableOf[r] \in pending'[s].bulk
  BY DEF TablesRecorded
<1>1. CASE work'[s] = work[s] /\ pending'[s] = pending[s]
  BY <1>1 DEF TablesRecorded
<1>2. work'[s] # NoWork
  BY DEF NoWork, Unwritten
<1>3. CASE WriteCall(s)
  BY <1>3, WriteEffect DEF TablesRecorded
<1> QED
  BY <1>1, <1>2, <1>3, WorkFrame

LEMMA RecordedInit == Init => PendingCovers
BY DEF Init, PendingCovers, RowsRecorded, TablesRecorded, NoWork, Unwritten

(* Whatever is called besides savepoints, and whatever fails or is cut short: *)
(* what a transaction has flushed, or written by a bulk statement, is in the  *)
(* pending set of its session until it ends.                                  *)
THEOREM WritesAreRecorded ==
  ASSUME NoSavepoints, Tracked = Tables, Matched = Sessions
  PROVE  Spec => []PendingCovers
<1>1. Init => TypeOK /\ PendingCovers
  BY TypeInit, RecordedInit
<1>2. TypeOK /\ PendingCovers /\ [Next]_vars => (TypeOK /\ PendingCovers)'
  BY TypeStep, RowsRecordedStep, TablesRecordedStep DEF PendingCovers
<1> QED
  BY <1>1, <1>2, PTL DEF Spec

-----------------------------------------------------------------------------
(* Row-level eviction.                                                        *)

(* What CommittedRowEvicted says of one entry and one row.                    *)
Settled(e, r) ==
    Current(e.key) /\ db[r].by = "flush" /\ e.result[r].at < db[r].at => Evicting(r) \/ r \in e.overtaken

LEMMA TagsType ==
  ASSUME TypeOK, NEW e \in cache, NEW r \in e.tags
  PROVE  r \in Rows /\ \E i \in DOMAIN ModelsOf[e.key.stmt] : ModelsOf[e.key.stmt][i] = TableOf[r]
<1>1. e \in Entry
  BY DEF TypeOK
<1>2. e.tags = TagsOf(e.key.stmt, e.result)
  BY <1>1 DEF Entry
<1>3. e.key.stmt \in Stmts
  BY <1>1 DEF Entry, Key
<1>4. r \in CoversOf[e.key.stmt] /\ TableOf[r] \in ModelSet(e.key.stmt)
  BY <1>2 DEF TagsOf
<1>5. CoversOf[e.key.stmt] \subseteq Rows
  BY <1>3, StmtsAssumption
<1>6. \E i \in DOMAIN ModelsOf[e.key.stmt] : ModelsOf[e.key.stmt][i] = TableOf[r]
  BY <1>4 DEF ModelSet
<1> QED
  BY <1>4, <1>5, <1>6

(* An entry that no lookup can find is never found again.                     *)
LEMMA CurrentBefore ==
  ASSUME TypeOK, KeysNeverAhead, Calm, [Next]_vars, NEW e \in cache, Current(e.key)'
  PROVE  Current(e.key)
<1> SUFFICES ASSUME NEW i \in DOMAIN ModelsOf[e.key.stmt]
             PROVE  e.key.vers[i] = version[ModelsOf[e.key.stmt][i]]
  BY DEF Current
<1>1. e.key.vers[i] \in Nat /\ ModelsOf[e.key.stmt][i] \in Tables
  BY EntryVersType
<1>2. e.key.vers[i] <= version[ModelsOf[e.key.stmt][i]]
  BY DEF KeysNeverAhead
<1>3. e.key.vers[i] = version'[ModelsOf[e.key.stmt][i]]
  BY DEF Current
<1> QED
  BY <1>1, <1>2, <1>3, VersionsGrow, CalmAllows

(* Reads never take a session out of an eviction.                             *)
LEMMA EvictingDuringReads ==
  ASSUME TypeOK, NEW s \in Sessions, ReadStep(s) \/ ReadCall(s), NEW r \in Rows, Evicting(r)
  PROVE  Evicting(r)'
<1>1. pc[s] # "evict" /\ \E p : pc' = [pc EXCEPT ![s] = p]
  BY DEF ReadStep, ReadCall, StartSelect, StartExecute, StartRead, ReadVersion, AddVersion, CacheHit, EndRead,
         CacheMiss, CacheMissed, Query, CacheSet
<1>2. job' = job
  BY ReadFrame
<1> QED
  BY <1>1, <1>2, EvictingFrame

LEMMA SettledQuietly ==
  ASSUME TypeOK, KeysNeverAhead, Calm, [Next]_vars, NEW e \in cache, NEW r \in e.tags, Settled(e, r),
         db' = db, Evicting(r) => Evicting(r)'
  PROVE  Settled(e, r)'
BY CurrentBefore DEF Settled

LEMMA SettledByCommit ==
  ASSUME TypeOK, KeysNeverAhead, RowsRecorded, Calm, NEW s \in Sessions, Commit(s),
         NEW e \in cache, NEW r \in e.tags, Settled(e, r)
  PROVE  Settled(e, r)'
<1> DEFINE todo == [rows |-> {x \in pending[s].rows : TableOf[x] \notin pending[s].bulk}, bulk |-> pending[s].bulk]
<1>1. r \in Rows
  BY TagsType
<1>2. /\ pc[s] = "idle"
      /\ db' = [x \in Rows |-> View(s, x)]
      /\ job' = [job EXCEPT ![s] = todo]
      /\ pc' = [pc EXCEPT ![s] = IF todo = NoPending THEN "idle" ELSE "evict"]
  BY DEF Commit, PopPending
<1>3. Current(e.key)' = Current(e.key)
  BY DEF Commit, Current
<1>4. CASE work[s][r].at > 0 /\ work[s][r].by = "flush"
  <2>1. r \in pending[s].rows
    BY <1>1, <1>4 DEF RowsRecorded
  <2>2. r \in todo.rows \/ TableOf[r] \in todo.bulk
    BY <2>1
  <2>3. todo # NoPending
    BY <2>2 DEF NoPending
  <2>4. pc'[s] = "evict" /\ job'[s] = todo
    BY <1>2, <2>3 DEF TypeOK
  <2> QED
    BY <2>2, <2>4 DEF Settled, Evicting
<1>5. CASE work[s][r].at > 0 /\ work[s][r].by # "flush"
  <2>1. db'[r].by # "flush"
    BY <1>1, <1>2, <1>5 DEF View
  <2> QED
    BY <2>1 DEF Settled
<1>6. CASE ~(work[s][r].at > 0)
  <2>1. db'[r] = db[r]
    BY <1>1, <1>2, <1>6 DEF View
  <2>2. Evicting(r) => Evicting(r)'
    BY <1>2 DEF TypeOK, Evicting
  <2> QED
    BY <1>3, <2>1, <2>2 DEF Settled
<1> QED
  BY <1>4, <1>5, <1>6

LEMMA SettledByEviction ==
  ASSUME TypeOK, KeysNeverAhead, Calm, [Next]_vars, NEW s \in Sessions, NEW t \in Tables, EvictRows(s, t),
         NEW e \in cache', NEW r \in e.tags, e \in cache, Settled(e, r)
  PROVE  Settled(e, r)'
<1> DEFINE todo == [rows |-> job[s].rows \ RowsOf(s, t), bulk |-> job[s].bulk]
<1>1. r \in Rows /\ r \notin RowsOf(s, t)
  BY TagsType DEF EvictRows, DeleteTags
<1>2. /\ pc[s] = "evict"
      /\ job' = [job EXCEPT ![s] = todo]
      /\ pc' = [pc EXCEPT ![s] = IF todo = NoPending THEN "idle" ELSE "evict"]
      /\ db' = db
  BY DEF EvictRows, RowsDone, JobLeft, dbVars
<1>3. CASE r \in job[s].rows \/ TableOf[r] \in job[s].bulk
  <2>1. r \in todo.rows \/ TableOf[r] \in todo.bulk
    BY <1>1, <1>3
  <2>2. todo # NoPending
    BY <2>1 DEF NoPending
  <2>3. pc'[s] = "evict" /\ job'[s] = todo
    BY <1>2, <2>2 DEF TypeOK
  <2> QED
    BY <2>1, <2>3 DEF Settled, Evicting
<1>4. CASE ~(r \in job[s].rows \/ TableOf[r] \in job[s].bulk)
  <2>1. Evicting(r) => Evicting(r)'
    BY <1>2, <1>4 DEF TypeOK, Evicting
  <2> QED
    BY <1>2, <2>1, SettledQuietly
<1> QED
  BY <1>3, <1>4

(* A bumped table has no findable entry left.                                 *)
LEMMA NotCurrentOnceBumped ==
  ASSUME TypeOK, KeysNeverAhead, NEW s \in Sessions, NEW t \in Tables, BumpTable(s, t),
         NEW e \in cache, NEW i \in DOMAIN ModelsOf[e.key.stmt], ModelsOf[e.key.stmt][i] = t
  PROVE  ~Current(e.key)'
<1>1. e.key.vers[i] \in Nat /\ e.key.vers[i] <= version[t]
  BY EntryVersType DEF KeysNeverAhead
<1>2. version'[t] = version[t] + 1 /\ version[t] \in Nat
  BY DEF BumpTable, TypeOK
<1>3. e.key.vers[i] # version'[t]
  BY <1>1, <1>2
<1> QED
  BY <1>3 DEF Current

LEMMA SettledByBump ==
  ASSUME TypeOK, KeysNeverAhead, Calm, [Next]_vars, NEW s \in Sessions, NEW t \in Tables, BumpTable(s, t),
         NEW e \in cache, NEW r \in e.tags, Settled(e, r)
  PROVE  Settled(e, r)'
<1> DEFINE todo == [rows |-> {}, bulk |-> job[s].bulk \ {t}]
<1>1. r \in Rows
  BY TagsType
<1>2. /\ pc[s] = "evict" /\ job[s].rows = {}
      /\ job' = [job EXCEPT ![s] = todo]
      /\ pc' = [pc EXCEPT ![s] = IF todo = NoPending THEN "idle" ELSE "evict"]
      /\ db' = db
  BY DEF BumpTable, TableDone, JobLeft, dbVars
<1>3. CASE TableOf[r] = t
  BY <1>3, TagsType, NotCurrentOnceBumped DEF Settled
<1>4. CASE TableOf[r] # t /\ TableOf[r] \in job[s].bulk
  <2>1. TableOf[r] \in todo.bulk
    BY <1>4
  <2>2. todo # NoPending
    BY <2>1 DEF NoPending
  <2>3. pc'[s] = "evict" /\ job'[s] = todo
    BY <1>2, <2>2 DEF TypeOK
  <2> QED
    BY <2>1, <2>3 DEF Settled, Evicting
<1>5. CASE TableOf[r] \notin job[s].bulk
  <2>1. Evicting(r) => Evicting(r)'
    BY <1>2, <1>5 DEF TypeOK, Evicting
  <2> QED
    BY <1>2, <2>1, SettledQuietly
<1> QED
  BY <1>3, <1>4, <1>5

(* A new entry is settled by the definition of overtaken.                     *)
LEMMA SettledWhenSet ==
  ASSUME TypeOK, NEW s \in Sessions, CacheSet(s), NEW e, e = NewEntry(s), NEW r \in e.tags
  PROVE  Settled(e, r)'
<1>1. db' = db /\ e.result = read[s].result
  BY DEF CacheSet, EndRead, dbVars, NewEntry
<1>2. r \in TagsOf(read[s].stmt, read[s].result)
  BY DEF NewEntry
<1>3. r \in e.overtaken <=> (read[s].result[r].at < db[r].at /\ ~Evicting(r))
  BY <1>2 DEF NewEntry
<1>4. r \in Rows
  BY <1>2, StmtsAssumption DEF TagsOf, TypeOK, Read
<1>5. Evicting(r) => Evicting(r)'
  BY <1>4, EvictingDuringReads DEF ReadStep
<1> QED
  BY <1>1, <1>3, <1>5 DEF Settled

LEMMA RowEvictionStep ==
  ASSUME TypeOK, KeysNeverAhead, RowsRecorded, CommittedRowEvicted, Calm, Tracked = Tables, [Next]_vars
  PROVE  CommittedRowEvicted'
<1> SUFFICES ASSUME NEW e \in cache', NEW r \in e.tags
             PROVE  Settled(e, r)'
  BY DEF CommittedRowEvicted, Settled
<1>1. CASE e \notin cache
  BY <1>1, NewEntriesAreSet, SettledWhenSet
<1>2. CASE e \in cache
  <2>1. Settled(e, r) /\ r \in Rows
    BY <1>2, TagsType DEF CommittedRowEvicted, Settled
  <2>2. ASSUME NEW s \in Sessions, ReadStep(s) \/ ReadCall(s) PROVE Settled(e, r)'
    BY <1>2, <2>1, <2>2, ReadFrame, EvictingDuringReads, SettledQuietly
  <2>3. ASSUME NEW s \in Sessions, EvictStep(s) PROVE Settled(e, r)'
    BY <1>2, <2>1, <2>3, SettledByEviction, SettledByBump DEF EvictStep
  <2>4. ASSUME NEW s \in Sessions, Commit(s) PROVE Settled(e, r)'
    BY <1>2, <2>1, <2>4, SettledByCommit
  <2>5. ASSUME db' = db, pc' = pc, job' = job PROVE Settled(e, r)'
    <3>1. Evicting(r) => Evicting(r)'
      BY <2>5 DEF Evicting
    <3> QED
      BY <1>2, <2>1, <2>5, <3>1, SettledQuietly
  <2>6. ASSUME NEW s \in Sessions, WriteCall(s) \/ Rollback(s) \/ Close(s) PROVE Settled(e, r)'
    BY <2>5, <2>6, WriteFrame DEF Rollback, Close
  <2>7. ASSUME \/ \E t \in Tables, R \in SUBSET Rows : InvalidateRows(t, R)
               \/ \E t \in Tables : InvalidateTable(t)
               \/ \E k : Expire(k)
               \/ UNCHANGED vars
        PROVE  Settled(e, r)'
    BY <2>5, <2>7 DEF InvalidateRows, InvalidateTable, Expire, dbVars, vars
  <2> QED
    BY <2>2, <2>3, <2>4, <2>6, <2>7, CalmStep
<1> QED
  BY <1>1, <1>2

(* Row-level invalidation works: with mapper listeners on every model, no     *)
(* savepoints, no clear and no failing or interrupted transport call, an      *)
(* entry that a lookup can find and that returned a row holds the committed   *)
(* value of its last flushed write, or is about to be evicted, or was set by  *)
(* a read that had queried before that write was committed and evicted.       *)
THEOREM RowEviction ==
  ASSUME Calm, Tracked = Tables
  PROVE  Spec => []CommittedRowEvicted
<1> DEFINE IInv == TypeOK /\ KeysNeverAhead /\ RowsRecorded /\ CommittedRowEvicted
<1>1. Init => IInv
  BY TypeInit, KeysInit, RecordedInit DEF PendingCovers, CommittedRowEvicted, Init
<1>2. IInv /\ [Next]_vars => IInv'
  BY TypeStep, KeysStep, RowsRecordedStep, RowEvictionStep, CalmAllows
<1>3. IInv => CommittedRowEvicted
  OBVIOUS
<1> QED
  BY <1>1, <1>2, <1>3, PTL DEF Spec

-----------------------------------------------------------------------------
(* Only committed writes are evicted.                                         *)

(* Nothing is recorded that the open transaction has not written.             *)
RecordedIsWritten == \A s \in Sessions : \A r \in pending[s].rows : work[s][r].at > 0

LEMMA RecordedByWrite ==
  ASSUME TypeOK, RecordedIsWritten, NEW s \in Sessions, WriteCall(s)
  PROVE  RecordedIsWritten'
<1> SUFFICES ASSUME NEW o \in Sessions, NEW r \in pending'[o].rows
             PROVE  work'[o][r].at > 0
  BY DEF RecordedIsWritten
<1>1. clock \in Nat /\ clock + 1 > 0
  BY DEF TypeOK
<1>2. ASSUME NEW R, NEW h, NEW how, Write(s, R, h, how), NEW x \in Rows, work[o][x].at > 0 \/ (o = s /\ x \in R)
      PROVE  work'[o][x].at > 0
  <2> DEFINE new == [y \in Rows |-> IF y \in R THEN [at |-> clock + 1, hit |-> h, by |-> how] ELSE work[s][y]]
  <2>1. work' = [work EXCEPT ![s] = new]
    BY <1>2 DEF Write
  <2>2. CASE o = s
    <3>1. work'[o] = new
      BY <2>1, <2>2 DEF TypeOK
    <3> QED
      BY <1>1, <1>2, <2>2, <3>1
  <2>3. CASE o # s
    BY <1>2, <2>1, <2>3 DEF TypeOK
  <2> QED
    BY <2>2, <2>3
<1>3. ASSUME NEW x \in Rows, NEW h \in BOOLEAN, FlushRow(s, x, h) PROVE work'[o][r].at > 0
  <2>1. Write(s, {x}, h, "flush")
    BY <1>3 DEF FlushRow
  <2>2. r \in pending[o].rows \/ (o = s /\ r = x)
    <3>1. CASE Listening(TableOf[x])
      BY <1>3, <3>1 DEF FlushRow, RecordRow, TypeOK, Pending
    <3>2. CASE ~Listening(TableOf[x])
      BY <1>3, <3>2 DEF FlushRow
    <3> QED
      BY <3>1, <3>2
  <2>3. r \in Rows /\ (work[o][r].at > 0 \/ (o = s /\ r \in {x}))
    BY <2>2 DEF TypeOK, Pending, RecordedIsWritten
  <2> QED
    BY <1>2, <2>1, <2>3
<1>4. ASSUME NEW t \in Tables, NEW R \in SUBSET Rows, NEW h \in BOOLEAN, BulkDML(s, t, R, h)
      PROVE  work'[o][r].at > 0
  <2>1. Write(s, R, h, "bulk")
    BY <1>4 DEF BulkDML
  <2>2. r \in pending[o].rows
    <3>1. CASE s \in Matched
      <4>1. pending' = [pending EXCEPT ![s].bulk = pending[s].bulk \cup {t}]
        BY <1>4, <3>1 DEF BulkDML, RecordTable, TypeOK
      <4>2. pending'[o] = pending[o] \/ (o = s /\ pending'[o] = [pending[o] EXCEPT !.bulk = pending[o].bulk \cup {t}])
        BY <4>1 DEF TypeOK
      <4>3. pending'[o].rows = pending[o].rows
        BY <4>2 DEF TypeOK, Pending
      <4> QED
        BY <4>3
    <3>2. CASE s \notin Matched
      BY <1>4, <3>2 DEF BulkDML
    <3> QED
      BY <3>1, <3>2
  <2>3. r \in Rows /\ work[o][r].at > 0
    BY <2>2 DEF TypeOK, Pending, RecordedIsWritten
  <2> QED
    BY <1>2, <2>1, <2>3
<1>5. ASSUME NEW x \in Rows, BulkInsert(s, x) PROVE work'[o][r].at > 0
  <2>1. Write(s, {x}, TRUE, "insert") /\ pending' = pending
    BY <1>5 DEF BulkInsert
  <2>2. r \in Rows /\ work[o][r].at > 0
    BY <2>1 DEF TypeOK, Pending, RecordedIsWritten
  <2> QED
    BY <1>2, <2>1, <2>2
<1> QED
  BY <1>3, <1>4, <1>5 DEF WriteCall

LEMMA RecordedByEnd ==
  ASSUME TypeOK, RecordedIsWritten, NEW s \in Sessions,
         pending' = [pending EXCEPT ![s] = NoPending], \E w : work' = [work EXCEPT ![s] = w]
  PROVE  RecordedIsWritten'
<1>1. pending'[s].rows = {}
  BY DEF TypeOK, NoPending
<1>2. \A o \in Sessions \ {s} : work'[o] = work[o] /\ pending'[o] = pending[o]
  BY DEF TypeOK
<1> QED
  BY <1>1, <1>2 DEF RecordedIsWritten

LEMMA RecordedStep ==
  ASSUME TypeOK, RecordedIsWritten, Calls \cap {"release", "close"} = {}, [Next]_vars
  PROVE  RecordedIsWritten'
<1>1. ASSUME UNCHANGED <<work, pending>> PROVE RecordedIsWritten'
  BY <1>1 DEF RecordedIsWritten
<1>2. ASSUME NEW s \in Sessions, ReadStep(s) \/ ReadCall(s) \/ EvictStep(s) PROVE RecordedIsWritten'
  BY <1>1, <1>2, ReadFrame, EvictFrame
<1>3. ASSUME NEW s \in Sessions, WriteCall(s) PROVE RecordedIsWritten'
  BY <1>3, RecordedByWrite
<1>4. ASSUME NEW s \in Sessions, EndCall(s) PROVE RecordedIsWritten'
  BY <1>1, <1>4, RecordedByEnd DEF EndCall, Commit, Rollback, Close, BeginNested, RollbackNested, ReleaseNested,
                                   PopPending, DropPending
<1>5. ASSUME NEW s \in Sessions, Mishap(s) PROVE RecordedIsWritten'
  BY <1>1, <1>5, MishapFrame, RecordedByEnd DEF Crash, DropPending
<1>6. ASSUME ManualCall \/ StoreDrops \/ UNCHANGED vars PROVE RecordedIsWritten'
  BY <1>1, <1>6, ManualFrame
<1> QED
  BY <1>2, <1>3, <1>4, <1>5, <1>6 DEF Next

(* What one step puts into a job.                                             *)
NewlyEvicted(s, r) == r \in job'[s].rows \ job[s].rows

LEMMA EvictedIsCommitted ==
  ASSUME TypeOK, RecordedIsWritten, Calls \cap {"release", "close"} = {}, [Next]_vars, NEW s \in Sessions, NEW r, NewlyEvicted(s, r)
  PROVE  work[s][r].at > 0 /\ db'[r] = work[s][r]
<1>1. ASSUME UNCHANGED job PROVE FALSE
  BY <1>1 DEF NewlyEvicted
<1>2. ASSUME NEW o \in Sessions, ReadStep(o) \/ ReadCall(o) PROVE FALSE
  BY <1>1, <1>2, ReadFrame
<1>3. job \in [Sessions -> Pending]
  BY DEF TypeOK
<1>4. ASSUME NEW o \in Sessions, NEW todo, job' = [job EXCEPT ![o] = todo], todo.rows \subseteq job[o].rows PROVE FALSE
  BY <1>3, <1>4 DEF NewlyEvicted
<1>5. ASSUME NEW o \in Sessions, NEW t \in Tables, RowsDone(o, t) \/ TableDone(o, t) PROVE FALSE
  BY <1>4, <1>5 DEF RowsDone, TableDone, JobLeft
<1>6. ASSUME NEW o \in Sessions, EvictStep(o) PROVE FALSE
  BY <1>5, <1>6 DEF EvictStep, EvictRows, BumpTable
<1>7. ASSUME NEW o \in Sessions, WriteCall(o) PROVE FALSE
  BY <1>1, <1>7, WriteFrame
<1>8. ASSUME NEW o \in Sessions, EndCall(o), ~Commit(o) PROVE FALSE
  BY <1>1, <1>8 DEF EndCall, Rollback, Close, BeginNested, RollbackNested, ReleaseNested
<1>9. ASSUME NEW o \in Sessions, Commit(o) PROVE work[s][r].at > 0 /\ db'[r] = work[s][r]
  <2> DEFINE todo == [rows |-> {x \in pending[o].rows : TableOf[x] \notin pending[o].bulk}, bulk |-> pending[o].bulk]
  <2>1. job' = [job EXCEPT ![o] = todo] /\ db' = [x \in Rows |-> View(o, x)]
    BY <1>9 DEF Commit, PopPending
  <2>2. s = o /\ r \in pending[s].rows
    BY <2>1 DEF NewlyEvicted, TypeOK
  <2>3. r \in Rows /\ work[s][r].at > 0
    BY <2>2 DEF RecordedIsWritten, TypeOK, Pending
  <2> QED
    BY <2>1, <2>2, <2>3 DEF View
<1>10. ASSUME NEW o \in Sessions, Mishap(o) PROVE FALSE
  <2>1. ASSUME job' = [job EXCEPT ![o] = NoPending] PROVE FALSE
    BY <1>4, <2>1 DEF NoPending
  <2> QED
    BY <1>1, <1>5, <1>10, <2>1 DEF Mishap, EvictRowsOfLostTags, SuppressedFault, RaisedFault, Crash, AddVersion, CacheMissed, EndRead
<1>11. ASSUME ManualCall \/ StoreDrops \/ UNCHANGED vars PROVE FALSE
  BY <1>1, <1>11, ManualFrame
<1> QED
  BY <1>2, <1>6, <1>7, <1>8, <1>9, <1>10, <1>11 DEF Next

(* No rollback, not even one to a savepoint, and no open transaction evicts a *)
(* row: what a commit evicts is what it has just committed, whatever fails or *)
(* is cut short.  close() is excluded, since it leaves the pending set of a   *)
(* transaction that is gone, and so is the release of a savepoint, which      *)
(* evicts what can still be rolled back.                                      *)
THEOREM RollbackEvictsNothing ==
  ASSUME Calls \cap {"release", "close"} = {}
  PROVE  Spec => EvictsOnlyCommitted
<1> DEFINE IInv == TypeOK /\ RecordedIsWritten
<1>1. Init => IInv
  BY TypeInit DEF RecordedIsWritten, Init, NoPending
<1>2. IInv /\ [Next]_vars => IInv'
  BY TypeStep, RecordedStep
<1>3. IInv /\ [Next]_vars =>
        [\A s \in Sessions : \A r \in job'[s].rows \ job[s].rows :
            work[s][r].at > 0 /\ db'[r] = work[s][r]]_vars
  BY EvictedIsCommitted DEF NewlyEvicted
<1> QED
  BY <1>1, <1>2, <1>3, PTL DEF Spec, EvictsOnlyCommitted

=============================================================================
