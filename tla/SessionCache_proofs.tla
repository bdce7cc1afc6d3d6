------------------------ MODULE SessionCache_proofs ------------------------
(***************************************************************************)
(* Theorems about SessionCache, for every value of its constants.          *)
(***************************************************************************)
EXTENDS SessionCache, TLAPS

LEMMA NoWorkType == NoWork \in [Rows -> Value] /\ Unwritten \in Value
BY DEF NoWork, Unwritten, Value

LEMMA NoPendingType == NoPending \in Pending
BY DEF NoPending, Pending

LEMMA NoReadType ==
  /\ NoRead \in Read
  /\ NoRead.vers = <<>>
  /\ Len(NoRead.vers) <= Len(ModelsOf[NoRead.stmt])
<1>1. NoRead \in Read /\ NoRead.vers = <<>> /\ NoRead.stmt \in Stmts
  BY NoWorkType, StmtsAssumption DEF NoRead, Read
<1>2. Len(ModelsOf[NoRead.stmt]) \in Nat
  BY <1>1, StmtsAssumption
<1> QED
  BY <1>1, <1>2

(* The variables have their types in an initial state.                      *)
LEMMA TypeInit == Init => TypeOK
<1> SUFFICES ASSUME Init PROVE TypeOK
  OBVIOUS
<1>1. db \in [Rows -> Value]
  BY DEF Init, Value
<1>2. \A s \in Sessions : read[s] = NoRead /\ pc[s] = "idle" /\ job[s] = NoPending
  BY DEF Init
<1>3. \A s \in Sessions : VersionsRead(s) /\ JobUnderWay(s)
  BY <1>2, NoReadType DEF VersionsRead, JobUnderWay
<1> QED
  BY <1>1, <1>3, NoWorkType, NoPendingType, NoReadType DEF Init, TypeOK

LEMMA ViewType == ASSUME TypeOK, NEW s \in Sessions, NEW r \in Rows PROVE View(s, r) \in Value
BY DEF TypeOK, View

LEMMA TypeStartRead ==
  ASSUME TypeOK, NEW s \in Sessions, NEW q \in Stmts, NEW path \in {"select", "execute"}, StartRead(s, q, path)
  PROVE  TypeOK'
<1> DEFINE new == [NoRead EXCEPT !.path = path, !.stmt = q]
<1>1. new \in Read /\ new.stmt = q /\ new.vers = <<>>
  BY NoReadType DEF Read
<1>2. Len(ModelsOf[q]) \in Nat /\ Len(ModelsOf[q]) > 0
  BY StmtsAssumption DEF StartRead
<1>3. read' = [read EXCEPT ![s] = new]
  BY DEF StartRead
<1> HIDE DEF new
<1>4. pc' = [pc EXCEPT ![s] = "lookupKey"] /\ UNCHANGED <<dbVars, cache, version, job>>
  BY DEF StartRead
<1>5. \A o \in Sessions : VersionsRead(o)'
  BY <1>1, <1>2, <1>3, <1>4 DEF TypeOK, VersionsRead
<1>6. \A o \in Sessions : JobUnderWay(o)'
  BY <1>4 DEF StartRead, TypeOK, JobUnderWay
<1> QED
  BY <1>1, <1>3, <1>4, <1>5, <1>6 DEF TypeOK, dbVars

LEMMA TypeAddVersion ==
  ASSUME TypeOK, NEW s \in Sessions, NEW n \in Nat, pc[s] \in {"lookupKey", "storeKey"}, AddVersion(s, n)
  PROVE  TypeOK'
<1> DEFINE vers == Append(read[s].vers, n)
           models == ModelsOf[read[s].stmt]
           next == IF ~(Len(vers) = Len(models)) THEN pc[s] ELSE IF pc[s] = "lookupKey" THEN "get" ELSE "set"
<1>1. read[s] \in Read /\ Len(read[s].vers) < Len(models)
  BY DEF TypeOK, VersionsRead
<1>2. vers \in Seq(Nat) /\ Len(vers) = Len(read[s].vers) + 1
  BY <1>1 DEF Read
<1>3. Len(models) \in Nat /\ Len(read[s].vers) \in Nat
  BY <1>1, StmtsAssumption DEF Read
<1>4. read' = [read EXCEPT ![s].vers = vers] /\ pc' = [pc EXCEPT ![s] = next]
  BY DEF AddVersion
<1>5. read'[s].vers = vers /\ read'[s].stmt = read[s].stmt /\ read' \in [Sessions -> Read]
  BY <1>2, <1>4 DEF TypeOK, Read
<1>6. pc'[s] = next
  BY <1>4 DEF TypeOK
<1>7. VersionsRead(s)'
  <2>1. CASE Len(vers) = Len(models)
    BY <1>5, <1>6, <2>1 DEF VersionsRead
  <2>2. CASE Len(vers) # Len(models)
    <3>1. Len(vers) < Len(models) /\ Len(models) > 0
      BY <1>1, <1>2, <1>3, <2>2
    <3> QED
      BY <1>1, <1>5, <1>6, <2>2, <3>1 DEF VersionsRead
  <2> QED
    BY <2>1, <2>2
<1>8. \A o \in Sessions \ {s} : VersionsRead(o)'
  BY <1>4 DEF TypeOK, VersionsRead
<1>9. \A o \in Sessions : JobUnderWay(o)'
  BY <1>4 DEF TypeOK, JobUnderWay, AddVersion
<1> QED
  BY <1>4, <1>5, <1>7, <1>8, <1>9 DEF TypeOK, AddVersion, dbVars

LEMMA TypeEndRead ==
  ASSUME TypeOK, NEW s \in Sessions, pc[s] \in {"get", "set"}, EndRead(s), cache' \subseteq Entry
  PROVE  TypeOK'
<1>1. \A o \in Sessions : VersionsRead(o)' /\ JobUnderWay(o)'
  BY NoReadType DEF TypeOK, EndRead, VersionsRead, JobUnderWay
<1> QED
  BY <1>1, NoReadType DEF TypeOK, EndRead, dbVars

LEMMA TypeCacheMissed ==
  ASSUME TypeOK, NEW s \in Sessions, CacheMissed(s)
  PROVE  TypeOK'
<1>1. \A o \in Sessions : VersionsRead(o)' /\ JobUnderWay(o)'
  BY DEF TypeOK, CacheMissed, VersionsRead, JobUnderWay
<1> QED
  BY <1>1 DEF TypeOK, CacheMissed, dbVars

LEMMA TypeQuery ==
  ASSUME TypeOK, NEW s \in Sessions, Query(s)
  PROVE  TypeOK'
<1> DEFINE rows == [r \in Rows |-> IF r \in CoversOf[read[s].stmt] THEN View(s, r) ELSE Unwritten]
           rebuild == read[s].path = "select"
           key == IF rebuild THEN <<>> ELSE read[s].vers
           new == [read[s] EXCEPT !.result = rows, !.vers = key]
<1>1. rows \in [Rows -> Value]
  BY ViewType, NoWorkType
<1>2. read[s] \in Read
  BY DEF TypeOK
<1>9. key \in Seq(Nat)
  BY <1>2 DEF Read
<1> HIDE DEF rows, key
<1>3. new \in Read /\ new.stmt = read[s].stmt /\ new.vers = key
  BY <1>1, <1>2, <1>9 DEF Read
<1>4. read' = [read EXCEPT ![s] = new] /\ pc' = [pc EXCEPT ![s] = IF rebuild THEN "storeKey" ELSE "set"]
  BY <1>2 DEF Query, TypeOK, rows, key
<1>5. pc[s] = "query" /\ Len(read[s].vers) = Len(ModelsOf[read[s].stmt])
  BY DEF TypeOK, Query, VersionsRead
<1> HIDE DEF new
<1>6. VersionsRead(s)'
  <2>1. Len(ModelsOf[read[s].stmt]) > 0 /\ Len(ModelsOf[read[s].stmt]) \in Nat
    <3>1. VersionsRead(s)
      BY DEF TypeOK
    <3>2. ModelsOf[read[s].stmt] \in Seq(Tables)
      BY <1>2, StmtsAssumption DEF Read
    <3> QED
      BY <1>5, <3>1, <3>2 DEF VersionsRead
  <2>2. read'[s] = new /\ pc'[s] = IF rebuild THEN "storeKey" ELSE "set"
    BY <1>4 DEF TypeOK
  <2>3. CASE rebuild
    <3>1. Len(<<>>) = 0 /\ read'[s].vers = <<>> /\ read'[s].stmt = read[s].stmt /\ pc'[s] = "storeKey"
      BY <1>3, <2>2, <2>3 DEF key
    <3> QED
      BY <2>1, <3>1 DEF VersionsRead
  <2>4. CASE ~rebuild
    BY <1>3, <1>5, <2>1, <2>2, <2>4 DEF VersionsRead, key
  <2> QED
    BY <2>3, <2>4
<1>7. \A o \in Sessions \ {s} : VersionsRead(o)'
  BY <1>4 DEF VersionsRead, TypeOK
<1>8. \A o \in Sessions : JobUnderWay(o)'
  BY <1>4, <1>5 DEF JobUnderWay, TypeOK, Query
<1> QED
  BY <1>3, <1>4, <1>6, <1>7, <1>8 DEF TypeOK, Query, dbVars

LEMMA TypeNewEntry ==
  ASSUME TypeOK, NEW s \in Sessions, pc[s] = "set"
  PROVE  NewEntry(s) \in Entry
<1> DEFINE tags == TagsOf(read[s].stmt, read[s].result)
           late == {r \in tags : read[s].result[r].at < db[r].at /\ ~Evicting(r)}
           new == [key |-> ReadKey(s), result |-> read[s].result, tags |-> tags, overtaken |-> late]
<1>1. read[s] \in Read /\ Len(read[s].vers) = Len(ModelsOf[read[s].stmt])
  BY DEF TypeOK, VersionsRead
<1>2. tags \subseteq Rows /\ late \subseteq Rows
  BY <1>1, StmtsAssumption DEF TagsOf, Read
<1>3. new.key.stmt = read[s].stmt /\ new.key.vers = read[s].vers /\ new.tags = TagsOf(new.key.stmt, new.result)
  BY DEF ReadKey
<1>4. NewEntry(s) = new
  BY DEF NewEntry
<1> HIDE DEF tags, late
<1>5. new \in [key : Key, result : [Rows -> Value], tags : SUBSET Rows, overtaken : SUBSET Rows]
  BY <1>1, <1>2 DEF Key, ReadKey, Read
<1> HIDE DEF new
<1> QED
  BY <1>1, <1>3, <1>4, <1>5 DEF Entry

LEMMA TypeCacheSet ==
  ASSUME TypeOK, NEW s \in Sessions, CacheSet(s)
  PROVE  TypeOK'
<1>1. cache' \subseteq Entry
  BY TypeNewEntry DEF CacheSet, Put, Lookup, TypeOK
<1> QED
  BY <1>1, TypeEndRead DEF CacheSet

(* A step that leaves reads and jobs alone keeps their well-formedness.       *)
LEMMA TypeFrame ==
  ASSUME TypeOK, UNCHANGED <<pc, read, job>>
  PROVE  \A o \in Sessions : VersionsRead(o)' /\ JobUnderWay(o)'
BY DEF TypeOK, VersionsRead, JobUnderWay

LEMMA TypeWrite ==
  ASSUME TypeOK, NEW s \in Sessions, NEW R \in SUBSET Rows, NEW h \in BOOLEAN,
         NEW how \in {"flush", "bulk", "insert"}, Write(s, R, h, how),
         pending' \in [Sessions -> Pending]
  PROVE  TypeOK'
<1> DEFINE new == [r \in Rows |-> IF r \in R THEN [at |-> clock + 1, hit |-> h, by |-> how] ELSE work[s][r]]
<1>1. new \in [Rows -> Value]
  BY DEF TypeOK, Value
<1>2. work' = [work EXCEPT ![s] = new]
  BY DEF Write
<1> HIDE DEF new
<1>3. \A o \in Sessions : VersionsRead(o)' /\ JobUnderWay(o)'
  BY TypeFrame DEF Write
<1>4. work' \in [Sessions -> [Rows -> Value]]
  BY <1>1, <1>2 DEF TypeOK
<1>5. clock' \in Nat /\ UNCHANGED <<db, saved, cache, version, pc, read, job>>
  BY DEF TypeOK, Write
<1> QED
  BY <1>3, <1>4, <1>5 DEF TypeOK

(* Recording a row, or a table, keeps the type of pending.                    *)
LEMMA TypeRecordRow ==
  ASSUME TypeOK, NEW s \in Sessions, NEW r \in Rows
  PROVE  [pending EXCEPT ![s].rows = @ \cup {r}] \in [Sessions -> Pending]
<1>1. pending \in [Sessions -> Pending]
  BY DEF TypeOK
<1>2. [pending[s] EXCEPT !.rows = @ \cup {r}] \in Pending
  BY <1>1 DEF Pending
<1> QED
  BY <1>1, <1>2

LEMMA TypeRecordTable ==
  ASSUME TypeOK, NEW s \in Sessions, NEW t \in Tables
  PROVE  [pending EXCEPT ![s].bulk = @ \cup {t}] \in [Sessions -> Pending]
<1>1. pending \in [Sessions -> Pending]
  BY DEF TypeOK
<1>2. [pending[s] EXCEPT !.bulk = @ \cup {t}] \in Pending
  BY <1>1 DEF Pending
<1> QED
  BY <1>1, <1>2

LEMMA TypeWriteCall ==
  ASSUME TypeOK, NEW s \in Sessions, WriteCall(s)
  PROVE  TypeOK'
<1>1. ASSUME NEW r \in Rows, NEW h \in BOOLEAN, FlushRow(s, r, h) PROVE TypeOK'
  <2>1. pending' \in [Sessions -> Pending]
    <3>1. CASE Listening(TableOf[r])
      BY <1>1, <3>1, TypeRecordRow DEF FlushRow, RecordRow
    <3>2. CASE ~Listening(TableOf[r])
      BY <1>1, <3>2 DEF FlushRow, TypeOK
    <3> QED
      BY <3>1, <3>2
  <2> QED
    BY <1>1, <2>1, TypeWrite DEF FlushRow
<1>2. ASSUME NEW t \in Tables, NEW R \in SUBSET Rows, NEW h \in BOOLEAN, BulkDML(s, t, R, h) PROVE TypeOK'
  <2>1. pending' \in [Sessions -> Pending]
    <3>1. CASE s \in Matched
      <4>1. pending' = [pending EXCEPT ![s].bulk = @ \cup {t}]
        BY <1>2, <3>1 DEF BulkDML, RecordTable
      <4> QED
        BY <4>1, TypeRecordTable
    <3>2. CASE s \notin Matched
      BY <1>2, <3>2 DEF BulkDML, TypeOK
    <3> QED
      BY <3>1, <3>2
  <2> QED
    BY <1>2, <2>1, TypeWrite DEF BulkDML
<1>3. ASSUME NEW r \in Rows, BulkInsert(s, r) PROVE TypeOK'
  <2>1. pending' \in [Sessions -> Pending]
    BY <1>3 DEF BulkInsert, TypeOK
  <2> QED
    BY <1>3, <2>1, TypeWrite DEF BulkInsert
<1> QED
  BY <1>1, <1>2, <1>3 DEF WriteCall

(* What after_commit does to the session's pending set and its job.          *)
LEMMA TypePopPending ==
  ASSUME TypeOK, NEW s \in Sessions, PopPending(s), pc[s] = "idle", read' = read
  PROVE  /\ pending' \in [Sessions -> Pending]
         /\ job' \in [Sessions -> Pending]
         /\ pc' \in [Sessions -> {"idle", "lookupKey", "get", "query", "storeKey", "set", "evict"}]
         /\ \A o \in Sessions : VersionsRead(o)' /\ JobUnderWay(o)'
<1> DEFINE todo == [rows |-> {r \in pending[s].rows : TableOf[r] \notin pending[s].bulk}, bulk |-> pending[s].bulk]
<1>1. todo \in Pending
  BY DEF TypeOK, Pending
<1>2. /\ pending' = [pending EXCEPT ![s] = NoPending]
      /\ job' = [job EXCEPT ![s] = todo]
      /\ pc' = [pc EXCEPT ![s] = IF todo = NoPending THEN "idle" ELSE "evict"]
  BY DEF PopPending, DropPending
<1> HIDE DEF todo
<1>3. \A o \in Sessions : VersionsRead(o)' /\ JobUnderWay(o)'
  BY <1>2 DEF TypeOK, VersionsRead, JobUnderWay
<1> QED
  BY <1>1, <1>2, <1>3, NoPendingType DEF TypeOK

LEMMA TypeUnsaved ==
  ASSUME TypeOK, NEW s \in Sessions, Unsaved(s)
  PROVE  saved' \in [Sessions -> [open : BOOLEAN, work : [Rows -> Value]]]
BY NoWorkType DEF TypeOK, Unsaved

LEMMA TypeEndCall ==
  ASSUME TypeOK, NEW s \in Sessions, EndCall(s)
  PROVE  TypeOK'
<1>1. CASE Commit(s)
  <2>1. db' \in [Rows -> Value]
    BY <1>1, ViewType DEF Commit
  <2> QED
    BY <1>1, <2>1, TypePopPending, NoWorkType DEF Commit, TypeOK
<1>2. CASE Rollback(s)
  <2>1. \A o \in Sessions : VersionsRead(o)' /\ JobUnderWay(o)'
    BY <1>2, TypeFrame DEF Rollback
  <2> QED
    BY <1>2, <2>1, TypeUnsaved, NoWorkType, NoPendingType DEF Rollback, DropPending, TypeOK
<1>3. CASE Close(s)
  <2>1. \A o \in Sessions : VersionsRead(o)' /\ JobUnderWay(o)'
    BY <1>3, TypeFrame DEF Close
  <2> QED
    BY <1>3, <2>1, TypeUnsaved, NoWorkType DEF Close, TypeOK
<1>4. CASE BeginNested(s)
  <2>1. \A o \in Sessions : VersionsRead(o)' /\ JobUnderWay(o)'
    BY <1>4, TypeFrame DEF BeginNested
  <2> QED
    BY <1>4, <2>1 DEF BeginNested, TypeOK
<1>5. CASE RollbackNested(s)
  <2>1. \A o \in Sessions : VersionsRead(o)' /\ JobUnderWay(o)'
    BY <1>5, TypeFrame DEF RollbackNested
  <2>2. saved[s].work \in [Rows -> Value]
    BY DEF TypeOK
  <2> QED
    BY <1>5, <2>1, <2>2, TypeUnsaved, NoPendingType DEF RollbackNested, DropPending, TypeOK
<1>6. CASE ReleaseNested(s)
  BY <1>6, TypePopPending, TypeUnsaved DEF ReleaseNested, TypeOK
<1> QED
  BY <1>1, <1>2, <1>3, <1>4, <1>5, <1>6 DEF EndCall

LEMMA TypeJobLeft ==
  ASSUME TypeOK, NEW s \in Sessions, pc[s] = "evict", NEW todo \in Pending, JobLeft(s, todo),
         cache' \subseteq Entry, version' \in [Tables -> Nat]
  PROVE  TypeOK'
<1>1. \A o \in Sessions : VersionsRead(o)' /\ JobUnderWay(o)'
  BY DEF TypeOK, JobLeft, VersionsRead, JobUnderWay
<1> QED
  BY <1>1 DEF TypeOK, JobLeft, dbVars

LEMMA TypeRowsDone ==
  ASSUME TypeOK, NEW s \in Sessions, NEW t \in Tables, RowsDone(s, t),
         cache' \subseteq Entry, version' \in [Tables -> Nat]
  PROVE  TypeOK'
<1>1. [rows |-> job[s].rows \ RowsOf(s, t), bulk |-> job[s].bulk] \in Pending
  BY DEF TypeOK, Pending
<1> QED
  BY <1>1, TypeJobLeft DEF RowsDone

LEMMA TypeTableDone ==
  ASSUME TypeOK, NEW s \in Sessions, NEW t \in Tables, TableDone(s, t),
         cache' \subseteq Entry, version' \in [Tables -> Nat]
  PROVE  TypeOK'
<1>1. [rows |-> {}, bulk |-> job[s].bulk \ {t}] \in Pending
  BY DEF TypeOK, Pending
<1> QED
  BY <1>1, TypeJobLeft DEF TableDone

LEMMA TypeEvictStep ==
  ASSUME TypeOK, NEW s \in Sessions, EvictStep(s)
  PROVE  TypeOK'
<1>1. ASSUME NEW t \in Tables, EvictRows(s, t) PROVE TypeOK'
  BY <1>1, TypeRowsDone DEF EvictRows, DeleteTags, TypeOK
<1>2. ASSUME NEW t \in Tables, BumpTable(s, t) PROVE TypeOK'
  BY <1>2, TypeTableDone DEF BumpTable, TypeOK
<1> QED
  BY <1>1, <1>2 DEF EvictStep

LEMMA TypeMishap ==
  ASSUME TypeOK, NEW s \in Sessions, Mishap(s)
  PROVE  TypeOK'
<1>1. CASE SuppressedFault(s)
  <2>1. CASE pc[s] \in {"lookupKey", "storeKey"} /\ AddVersion(s, 0)
    BY <2>1, TypeAddVersion
  <2>2. CASE CacheMissed(s)
    BY <2>2, TypeCacheMissed
  <2>3. CASE pc[s] = "set" /\ EndRead(s) /\ UNCHANGED cache
    BY <2>3, TypeEndRead DEF TypeOK
  <2>4. ASSUME NEW t \in Tables, RowsDone(s, t), UNCHANGED <<cache, version>> PROVE TypeOK'
    BY <2>4, TypeRowsDone DEF TypeOK
  <2>5. ASSUME NEW t \in Tables, TableDone(s, t), UNCHANGED <<cache, version>> PROVE TypeOK'
    BY <2>5, TypeTableDone DEF TypeOK
  <2> QED
    BY <1>1, <2>1, <2>2, <2>3, <2>4, <2>5 DEF SuppressedFault
<1>2. CASE RaisedFault(s)
  <2>1. \A o \in Sessions : VersionsRead(o)' /\ JobUnderWay(o)'
    BY <1>2, NoReadType DEF TypeOK, RaisedFault, VersionsRead, JobUnderWay
  <2> QED
    BY <1>2, <2>1, NoReadType, NoPendingType DEF RaisedFault, TypeOK, dbVars
<1>3. CASE Crash(s)
  <2>1. \A o \in Sessions : VersionsRead(o)' /\ JobUnderWay(o)'
    BY <1>3, NoReadType DEF TypeOK, Crash, VersionsRead, JobUnderWay
  <2> QED
    BY <1>3, <2>1, TypeUnsaved, NoReadType, NoPendingType, NoWorkType DEF Crash, DropPending, TypeOK
<1>4. CASE EvictRowsOfLostTags(s)
  <2>1. PICK t \in Tables, missed \in SUBSET cache :
           RowsDone(s, t) /\ cache' = DeleteTags(cache, RowsOf(s, t)) \cup missed
    BY <1>4 DEF EvictRowsOfLostTags
  <2>2. cache' \subseteq Entry /\ version' \in [Tables -> Nat]
    BY <1>4, <2>1 DEF EvictRowsOfLostTags, DeleteTags, TypeOK
  <2> QED
    BY <2>1, <2>2, TypeRowsDone
<1> QED
  BY <1>1, <1>2, <1>3, <1>4 DEF Mishap

LEMMA TypeManualCall ==
  ASSUME TypeOK, ManualCall
  PROVE  TypeOK'
<1>1. \A o \in Sessions : VersionsRead(o)' /\ JobUnderWay(o)'
  BY TypeFrame DEF ManualCall, InvalidateRows, InvalidateTable, InvalidateAll
<1>2. cache' \subseteq Entry
  BY DEF ManualCall, InvalidateRows, InvalidateTable, InvalidateAll, DeleteTags, TypeOK
<1>3. version' \in [Tables -> Nat]
  BY DEF ManualCall, InvalidateRows, InvalidateTable, InvalidateAll, TypeOK
<1>4. UNCHANGED <<dbVars, pc, read, job>>
  BY DEF ManualCall, InvalidateRows, InvalidateTable, InvalidateAll
<1> QED
  BY <1>1, <1>2, <1>3, <1>4 DEF TypeOK, dbVars

LEMMA TypeStoreDrops ==
  ASSUME TypeOK, StoreDrops
  PROVE  TypeOK'
<1>1. \A o \in Sessions : VersionsRead(o)' /\ JobUnderWay(o)'
  BY TypeFrame DEF StoreDrops, Expire, LoseCounter
<1>2. cache' \subseteq Entry /\ version' \in [Tables -> Nat] /\ UNCHANGED <<dbVars, pc, read, job>>
  BY DEF TypeOK, StoreDrops, Expire, LoseCounter
<1> QED
  BY <1>1, <1>2 DEF TypeOK, dbVars

LEMMA TypeReads ==
  ASSUME TypeOK, NEW s \in Sessions, ReadStep(s) \/ ReadCall(s)
  PROVE  TypeOK'
<1>1. CASE ReadVersion(s)
  <2>1. version[ModelsOf[read[s].stmt][Len(read[s].vers) + 1]] \in Nat
    <3>1. read[s] \in Read /\ Len(read[s].vers) < Len(ModelsOf[read[s].stmt])
      BY <1>1 DEF ReadVersion, TypeOK, VersionsRead
    <3>2. ModelsOf[read[s].stmt] \in Seq(Tables) /\ Len(read[s].vers) \in Nat
      BY <3>1, StmtsAssumption DEF Read
    <3>3. ModelsOf[read[s].stmt][Len(read[s].vers) + 1] \in Tables
      BY <3>1, <3>2
    <3> QED
      BY <3>3 DEF TypeOK
  <2> QED
    BY <1>1, <2>1, TypeAddVersion DEF ReadVersion
<1>2. CASE CacheHit(s)
  BY <1>2, TypeEndRead DEF CacheHit, TypeOK
<1>3. CASE CacheMiss(s)
  BY <1>3, TypeCacheMissed DEF CacheMiss
<1>4. CASE Query(s)
  BY <1>4, TypeQuery
<1>5. CASE CacheSet(s)
  BY <1>5, TypeCacheSet
<1>6. CASE ReadCall(s)
  BY <1>6, TypeStartRead DEF ReadCall, StartSelect, StartExecute
<1> QED
  BY <1>1, <1>2, <1>3, <1>4, <1>5, <1>6 DEF ReadStep

LEMMA TypeStep == TypeOK /\ [Next]_vars => TypeOK'
<1> SUFFICES ASSUME TypeOK, [Next]_vars PROVE TypeOK'
  OBVIOUS
<1>1. ASSUME NEW s \in Sessions, ReadStep(s) \/ ReadCall(s) PROVE TypeOK'
  BY <1>1, TypeReads
<1>2. ASSUME NEW s \in Sessions, EvictStep(s) PROVE TypeOK'
  BY <1>2, TypeEvictStep
<1>3. ASSUME NEW s \in Sessions, WriteCall(s) PROVE TypeOK'
  BY <1>3, TypeWriteCall
<1>4. ASSUME NEW s \in Sessions, EndCall(s) PROVE TypeOK'
  BY <1>4, TypeEndCall
<1>5. ASSUME NEW s \in Sessions, Mishap(s) PROVE TypeOK'
  BY <1>5, TypeMishap
<1>6. CASE ManualCall
  BY <1>6, TypeManualCall
<1>7. CASE StoreDrops
  BY <1>7, TypeStoreDrops
<1>8. CASE UNCHANGED vars
  BY <1>8 DEF vars, TypeOK, VersionsRead, JobUnderWay
<1> QED
  BY <1>1, <1>2, <1>3, <1>4, <1>5, <1>6, <1>7, <1>8 DEF Next

(* Type correctness, for any application and any environment: whatever calls  *)
(* are made and whatever fails, a read carries exactly the table versions its *)
(* progress calls for, and a session has a job exactly while it evicts.       *)
THEOREM TypeCorrect == Spec => []TypeOK
<1> QED
  BY TypeInit, TypeStep, PTL DEF Spec

-----------------------------------------------------------------------------
(* What groups of actions leave alone.                                        *)

LEMMA ReadFrame ==
  ASSUME NEW s \in Sessions, ReadStep(s) \/ ReadCall(s)
  PROVE  /\ UNCHANGED <<db, clock, work, saved, pending, version, job>>
         /\ CacheSet(s) \/ cache' = cache
BY DEF ReadStep, ReadCall, StartSelect, StartExecute, StartRead, ReadVersion, AddVersion, CacheHit, EndRead,
       CacheMiss, CacheMissed, Query, CacheSet, dbVars

LEMMA EvictFrame ==
  ASSUME NEW s \in Sessions, EvictStep(s)
  PROVE  UNCHANGED <<db, clock, work, saved, pending, read>>
BY DEF EvictStep, EvictRows, BumpTable, RowsDone, TableDone, JobLeft, dbVars

LEMMA WriteFrame ==
  ASSUME NEW s \in Sessions, WriteCall(s)
  PROVE  UNCHANGED <<db, saved, cache, version, pc, read, job>>
BY DEF WriteCall, FlushRow, BulkDML, BulkInsert, Write

LEMMA EndFrame ==
  ASSUME NEW s \in Sessions, EndCall(s)
  PROVE  UNCHANGED <<clock, cache, version, read>> /\ (Commit(s) \/ db' = db)
BY DEF EndCall, Commit, Rollback, Close, BeginNested, RollbackNested, ReleaseNested

LEMMA MishapFrame ==
  ASSUME NEW s \in Sessions, Mishap(s)
  PROVE  /\ UNCHANGED <<db, clock, version>> /\ cache' \subseteq cache
         /\ UNCHANGED <<work, saved, pending>> \/ Crash(s)
BY DEF Mishap, EvictRowsOfLostTags, DeleteTags, SuppressedFault, RaisedFault, Crash, AddVersion, CacheMissed, EndRead, RowsDone, TableDone, JobLeft, dbVars

LEMMA ManualFrame ==
  ASSUME ManualCall \/ StoreDrops \/ UNCHANGED vars
  PROVE  UNCHANGED <<db, clock, work, saved, pending, pc, read, job>> /\ cache' \subseteq cache
BY DEF ManualCall, InvalidateRows, InvalidateTable, InvalidateAll, StoreDrops, Expire, LoseCounter, DeleteTags, dbVars, vars

(* Entries come only from sets.                                               *)
LEMMA NewEntriesAreSet ==
  ASSUME [Next]_vars, NEW e \in cache', e \notin cache
  PROVE  \E s \in Sessions : CacheSet(s) /\ e = NewEntry(s)
<1>1. ASSUME NEW s \in Sessions, ReadStep(s) \/ ReadCall(s)
      PROVE  \E o \in Sessions : CacheSet(o) /\ e = NewEntry(o)
  BY <1>1, ReadFrame DEF CacheSet, Put
<1>2. ASSUME NEW s \in Sessions, WriteCall(s) \/ EndCall(s) \/ Mishap(s)
      PROVE  FALSE
  BY <1>2, WriteFrame, EndFrame, MishapFrame
<1>3. ASSUME NEW s \in Sessions, EvictStep(s)
      PROVE  FALSE
  BY <1>3 DEF EvictStep, EvictRows, BumpTable, DeleteTags
<1>4. ASSUME ManualCall \/ StoreDrops \/ UNCHANGED vars
      PROVE  FALSE
  BY <1>4, ManualFrame
<1> QED
  BY <1>1, <1>2, <1>3, <1>4 DEF Next

-----------------------------------------------------------------------------
(* Row locks, with rollbacks to savepoints and interrupted sessions.          *)

(* A write under way is the only one of its row, and is newer than the        *)
(* committed value.                                                           *)
RowLocked(s, r) ==
    work[s][r].at > 0 =>
        /\ db[r].at < work[s][r].at /\ work[s][r].at <= clock
        /\ \A o \in Sessions \ {s} : work[o][r].at = 0

(* So is what a savepoint keeps, and its session still has the lock.          *)
SavedLocked(s, r) ==
    saved[s].work[r].at > 0 =>
        /\ saved[s].open
        /\ work[s][r].at > 0
        /\ db[r].at < saved[s].work[r].at /\ saved[s].work[r].at <= clock

LocksHeld ==
    \A r \in Rows :
        /\ db[r].at <= clock
        /\ \A s \in Sessions : RowLocked(s, r) /\ SavedLocked(s, r)

(* The stamps are numbers.                                                    *)
LEMMA StampType ==
  ASSUME TypeOK, NEW r \in Rows
  PROVE  /\ clock \in Nat /\ db[r].at \in Nat
         /\ \A s \in Sessions : work[s][r].at \in Nat /\ saved[s].work[r].at \in Nat
BY DEF TypeOK, Value

LEMMA NoWorkStamps == \A r \in Rows : NoWork[r].at = 0 /\ ~(NoWork[r].at > 0)
BY DEF NoWork, Unwritten

LEMMA LocksInit == Init => LocksHeld
BY NoWorkStamps DEF Init, LocksHeld, RowLocked, SavedLocked

LEMMA LocksByWrite ==
  ASSUME TypeOK, LocksHeld, NEW s \in Sessions, NEW R, NEW h, NEW how, Write(s, R, h, how)
  PROVE  LocksHeld'
<1> DEFINE new == [r \in Rows |-> IF r \in R THEN [at |-> clock + 1, hit |-> h, by |-> how] ELSE work[s][r]]
<1> SUFFICES ASSUME NEW r \in Rows
             PROVE  db'[r].at <= clock' /\ \A o \in Sessions : RowLocked(o, r)' /\ SavedLocked(o, r)'
  BY DEF LocksHeld
<1>1. db' = db /\ clock' = clock + 1 /\ saved' = saved /\ work' = [work EXCEPT ![s] = new]
  BY DEF Write
<1>2. work'[s] = new /\ \A o \in Sessions \ {s} : work'[o] = work[o]
  BY <1>1 DEF TypeOK
<1>3. db[r].at <= clock /\ \A o \in Sessions : RowLocked(o, r) /\ SavedLocked(o, r)
  BY DEF LocksHeld
<1>4. CASE r \in R
  <2>1. work'[s][r].at = clock + 1
    BY <1>2, <1>4
  <2>2. \A o \in Sessions \ {s} : work[o][r].at = 0 /\ work'[o][r].at = 0
    BY <1>2, <1>4 DEF Write, Unlocked
  <2> QED
    BY <1>1, <1>3, <2>1, <2>2, StampType DEF RowLocked, SavedLocked
<1>5. CASE r \notin R
  <2>1. \A o \in Sessions : work'[o][r] = work[o][r]
    BY <1>2, <1>5
  <2> QED
    BY <1>1, <1>3, <2>1, StampType DEF RowLocked, SavedLocked
<1> QED
  BY <1>4, <1>5

LEMMA LocksByCommit ==
  ASSUME TypeOK, LocksHeld, NEW s \in Sessions, Commit(s)
  PROVE  LocksHeld'
<1> SUFFICES ASSUME NEW r \in Rows
             PROVE  db'[r].at <= clock' /\ \A o \in Sessions : RowLocked(o, r)' /\ SavedLocked(o, r)'
  BY DEF LocksHeld
<1>1. db'[r] = View(s, r) /\ clock' = clock /\ saved' = saved /\ ~saved[s].open
  BY DEF Commit
<1>2. work'[s][r].at = 0 /\ \A o \in Sessions \ {s} : work'[o][r] = work[o][r]
  BY NoWorkStamps DEF Commit, TypeOK
<1>3. db[r].at <= clock /\ \A o \in Sessions : RowLocked(o, r) /\ SavedLocked(o, r)
  BY DEF LocksHeld
<1>4. CASE work[s][r].at > 0
  <2>1. db'[r] = work[s][r]
    BY <1>1, <1>4 DEF View
  <2>2. \A o \in Sessions : work'[o][r].at = 0 /\ ~(saved[o].work[r].at > 0)
    BY <1>1, <1>2, <1>3, <1>4 DEF RowLocked, SavedLocked
  <2> QED
    BY <1>1, <1>3, <1>4, <2>1, <2>2 DEF RowLocked, SavedLocked
<1>5. CASE ~(work[s][r].at > 0)
  <2>1. db'[r] = db[r]
    BY <1>1, <1>5 DEF View
  <2>2. work[s][r].at = 0
    BY <1>5, StampType
  <2> QED
    BY <1>1, <1>2, <1>3, <2>1, <2>2 DEF RowLocked, SavedLocked
<1> QED
  BY <1>4, <1>5

(* A transaction that is abandoned, as far as a savepoint or altogether.      *)
LEMMA LocksByAbandon ==
  ASSUME TypeOK, LocksHeld, NEW s \in Sessions, UNCHANGED <<db, clock>>, Unsaved(s),
         work' = [work EXCEPT ![s] = NoWork] \/ work' = [work EXCEPT ![s] = saved[s].work]
  PROVE  LocksHeld'
<1> SUFFICES ASSUME NEW r \in Rows
             PROVE  db'[r].at <= clock' /\ \A o \in Sessions : RowLocked(o, r)' /\ SavedLocked(o, r)'
  BY DEF LocksHeld
<1>1. db[r].at <= clock /\ \A o \in Sessions : RowLocked(o, r) /\ SavedLocked(o, r)
  BY DEF LocksHeld
<1>2. saved'[s].work[r].at = 0 /\ \A o \in Sessions \ {s} : saved'[o] = saved[o] /\ work'[o] = work[o]
  BY NoWorkStamps DEF Unsaved, TypeOK
<1>3. work'[s][r].at = 0 \/ work'[s][r].at = saved[s].work[r].at
  BY NoWorkStamps DEF TypeOK
<1> QED
  BY <1>1, <1>2, <1>3, StampType DEF RowLocked, SavedLocked

LEMMA LocksBySavepoint ==
  ASSUME TypeOK, LocksHeld, NEW s \in Sessions, BeginNested(s) \/ ReleaseNested(s)
  PROVE  LocksHeld'
<1> SUFFICES ASSUME NEW r \in Rows
             PROVE  db'[r].at <= clock' /\ \A o \in Sessions : RowLocked(o, r)' /\ SavedLocked(o, r)'
  BY DEF LocksHeld
<1>1. db[r].at <= clock /\ \A o \in Sessions : RowLocked(o, r) /\ SavedLocked(o, r)
  BY DEF LocksHeld
<1>2. UNCHANGED <<db, clock, work>> /\ \A o \in Sessions \ {s} : saved'[o] = saved[o]
  BY DEF BeginNested, ReleaseNested, Unsaved, TypeOK
<1>3. \/ saved'[s].work[r].at = 0
      \/ saved'[s].open /\ saved'[s].work[r].at = work[s][r].at
  BY NoWorkStamps DEF BeginNested, ReleaseNested, Unsaved, TypeOK
<1> QED
  BY <1>1, <1>2, <1>3, StampType DEF RowLocked, SavedLocked

LEMMA LocksStep ==
  ASSUME TypeOK, LocksHeld, [Next]_vars
  PROVE  LocksHeld'
<1>1. ASSUME UNCHANGED <<db, clock, work, saved>> PROVE LocksHeld'
  BY <1>1 DEF LocksHeld, RowLocked, SavedLocked
<1>2. ASSUME NEW s \in Sessions, ReadStep(s) \/ ReadCall(s) \/ EvictStep(s) PROVE LocksHeld'
  BY <1>1, <1>2, ReadFrame, EvictFrame
<1>3. ASSUME NEW s \in Sessions, WriteCall(s) PROVE LocksHeld'
  BY <1>3, LocksByWrite DEF WriteCall, FlushRow, BulkDML, BulkInsert
<1>4. ASSUME NEW s \in Sessions, EndCall(s) PROVE LocksHeld'
  BY <1>4, LocksByCommit, LocksByAbandon, LocksBySavepoint DEF EndCall, Rollback, Close, RollbackNested
<1>5. ASSUME NEW s \in Sessions, Mishap(s) PROVE LocksHeld'
  BY <1>1, <1>5, MishapFrame, LocksByAbandon DEF Crash
<1>6. ASSUME ManualCall \/ StoreDrops \/ UNCHANGED vars PROVE LocksHeld'
  BY <1>1, <1>6, ManualFrame
<1> QED
  BY <1>2, <1>3, <1>4, <1>5, <1>6 DEF Next

(* A read never sees less than what is committed.                             *)
LEMMA ViewIsNew ==
  ASSUME TypeOK, LocksHeld, NEW s \in Sessions, NEW r \in Rows
  PROVE  db[r].at <= View(s, r).at
BY StampType DEF LocksHeld, RowLocked, View

-----------------------------------------------------------------------------
(* The step of a session.                                                     *)

SessionStep(s) == ReadStep(s) \/ EvictStep(s) \/ ReadCall(s) \/ WriteCall(s) \/ EndCall(s) \/ Mishap(s)

(* No step of a session touches what another one has.                         *)
LEMMA OthersUntouched ==
  ASSUME TypeOK, NEW s \in Sessions, SessionStep(s), NEW o \in Sessions \ {s}
  PROVE  pc'[o] = pc[o] /\ read'[o] = read[o] /\ work'[o] = work[o] /\ pending'[o] = pending[o]
<1>1. CASE ReadStep(s) \/ ReadCall(s)
  BY <1>1 DEF TypeOK, ReadStep, ReadCall, StartSelect, StartExecute, StartRead, ReadVersion, AddVersion,
              CacheHit, EndRead, CacheMiss, CacheMissed, Query, CacheSet, dbVars
<1>2. CASE EvictStep(s)
  BY <1>2 DEF TypeOK, EvictStep, EvictRows, BumpTable, RowsDone, TableDone, JobLeft, dbVars
<1>3. CASE WriteCall(s)
  BY <1>3 DEF TypeOK, WriteCall, FlushRow, BulkDML, BulkInsert, Write, RecordRow, RecordTable
<1>4. CASE EndCall(s)
  BY <1>4 DEF TypeOK, EndCall, Commit, Rollback, Close, BeginNested, RollbackNested, ReleaseNested, PopPending, DropPending
<1>5. CASE Mishap(s)
  BY <1>5 DEF TypeOK, Mishap, EvictRowsOfLostTags, SuppressedFault, RaisedFault, Crash, AddVersion, CacheMissed, EndRead,
              RowsDone, TableDone, JobLeft, DropPending, dbVars
<1> QED
  BY <1>1, <1>2, <1>3, <1>4, <1>5 DEF SessionStep

=============================================================================
