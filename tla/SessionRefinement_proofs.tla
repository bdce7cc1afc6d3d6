----------------------- MODULE SessionRefinement_proofs -----------------------
(***************************************************************************)
(* SessionCache implements FencedCache twice, for every value of the       *)
(* constants.  For flushed rows: keys, counters, jobs and the awaits of    *)
(* readers amount to one result per statement, which stands for the rows   *)
(* that tag it.  For bulk statements: to one result per statement, which   *)
(* stands for its tables, when readers keep the key of their lookup or no  *)
(* commit overtakes them.                                                  *)
(***************************************************************************)
EXTENDS SessionFence_proofs

-----------------------------------------------------------------------------
(* What the abstract variables do when the concrete ones keep still.          *)

LEMMA FloorsAlone == ASSUME db' = db PROVE Floor' = Floor /\ RowFloor' = RowFloor
BY DEF Floor, RowFloor, FloorOf

LEMMA OwedAlone == ASSUME pc' = pc, job' = job PROVE Owed' = Owed /\ RowsOwed' = RowsOwed
BY DEF Owed, Bumping, RowsOwed, Evicting

LEMMA FoundAlone ==
  ASSUME cache' = cache, version' = version
  PROVE  Findable' = Findable /\ Found' = Found /\ RowsFound' = RowsFound
BY DEF Found, RowsFound, Findable, Current

LEMMA FoundLess ==
  ASSUME Findable' \subseteq Findable
  PROVE  Found' \subseteq Found /\ RowsFound' \subseteq RowsFound
BY DEF Found, RowsFound, Answer

LEMMA Forgets ==
  ASSUME Findable' \subseteq Findable, UNCHANGED <<Floor, RowFloor, Owed, RowsOwed>>
  PROVE  Fence!Invalidate({}) /\ RowFence!Invalidate({})
BY FoundLess DEF Fence!Invalidate, RowFence!Invalidate

LEMMA EntryUnits ==
  ASSUME TypeOK, NEW e \in cache
  PROVE  /\ Answer(e, ModelSet(e.key.stmt)).units = ModelSet(e.key.stmt)
         /\ Answer(e, e.tags \ e.overtaken).units = e.tags \ e.overtaken
         /\ \A r \in e.tags : r \in Rows /\ TableOf[r] \in ModelSet(e.key.stmt)
BY TagsType DEF Answer, ModelSet

-----------------------------------------------------------------------------
(* Commits.                                                                   *)

(* A commit puts what was recorded into a job, and takes nothing from one.    *)
LEMMA CommitOwes ==
  ASSUME TypeOK, NEW s \in Sessions, Commit(s)
  PROVE  /\ \A t \in Tables : Bumping(t) \/ t \in pending[s].bulk => Bumping(t)'
         /\ \A r \in Rows : Evicting(r) \/ r \in pending[s].rows => Evicting(r)'
<1> DEFINE todo == [rows |-> {x \in pending[s].rows : TableOf[x] \notin pending[s].bulk}, bulk |-> pending[s].bulk]
<1>1. /\ pc[s] = "idle"
      /\ job' = [job EXCEPT ![s] = todo]
      /\ pc' = [pc EXCEPT ![s] = IF todo = NoPending THEN "idle" ELSE "evict"]
  BY DEF Commit, PopPending
<1>2. todo # NoPending => pc'[s] = "evict" /\ job'[s] = todo
  BY <1>1 DEF TypeOK
<1>3. ASSUME NEW t \in pending[s].bulk PROVE Bumping(t)'
  <2>1. todo # NoPending
    BY <1>3 DEF NoPending
  <2> QED
    BY <1>2, <1>3, <2>1 DEF Bumping
<1>4. ASSUME NEW r \in pending[s].rows PROVE Evicting(r)'
  <2>1. r \in todo.rows \/ TableOf[r] \in todo.bulk
    BY <1>4
  <2>2. todo # NoPending
    BY <2>1 DEF NoPending
  <2> QED
    BY <1>2, <2>1, <2>2 DEF Evicting
<1>5. \A o \in Sessions \ {s} : pc'[o] = pc[o] /\ job'[o] = job[o]
  BY <1>1 DEF TypeOK
<1> QED
  BY <1>1, <1>3, <1>4, <1>5 DEF Bumping, Evicting

(* A row gets a new floor from a write of that kind.                          *)
LEMMA CommitFloors ==
  ASSUME TypeOK, NEW s \in Sessions, Commit(s), NEW kind
  PROVE  /\ FloorOf(kind)' \in [Rows -> Nat]
         /\ \A r \in Rows : FloorOf(kind)'[r] \in {0, FloorOf(kind)[r]} \/ work[s][r].by = kind
<1>1. db' = [r \in Rows |-> View(s, r)]
  BY DEF Commit
<1>2. \A r \in Rows : db'[r].at \in Nat
  BY <1>1, ViewType DEF Value
<1>3. ASSUME NEW r \in Rows PROVE FloorOf(kind)'[r] \in {0, FloorOf(kind)[r]} \/ work[s][r].by = kind
  BY <1>1 DEF View, FloorOf
<1> QED
  BY <1>2, <1>3 DEF FloorOf

LEMMA TablesCommitted ==
  ASSUME TypeOK, TablesRecorded, NEW s \in Sessions, Commit(s)
  PROVE  Fence!Commit
<1>1. Owed \subseteq Owed' /\ Owed' \subseteq Tables
  BY CommitOwes DEF Owed
<1>2. Floor' \in [Rows -> Nat]
  BY CommitFloors DEF Floor
<1>3. ASSUME NEW r \in Rows PROVE Floor'[r] \in {0, Floor[r]} \/ TableOf[r] \in Owed'
  <2>1. CASE work[s][r].by = "bulk"
    BY <2>1, CommitOwes, TablesAssumption DEF TablesRecorded, Owed
  <2> QED
    BY <2>1, CommitFloors DEF Floor
<1>4. Found' = Found
  BY FoundAlone DEF Commit
<1> QED
  BY <1>1, <1>2, <1>3, <1>4 DEF Fence!Commit

LEMMA RowsCommitted ==
  ASSUME TypeOK, RowsRecorded, NEW s \in Sessions, Commit(s)
  PROVE  RowFence!Commit
<1>1. RowsOwed \subseteq RowsOwed' /\ RowsOwed' \subseteq Rows
  BY CommitOwes DEF RowsOwed
<1>2. RowFloor' \in [Rows -> Nat]
  BY CommitFloors DEF RowFloor
<1>3. ASSUME NEW r \in Rows PROVE RowFloor'[r] \in {0, RowFloor[r]} \/ r \in RowsOwed'
  <2>1. CASE work[s][r].by = "flush"
    BY <2>1, CommitOwes DEF RowsRecorded, RowsOwed
  <2> QED
    BY <2>1, CommitFloors DEF RowFloor
<1>4. RowsFound' = RowsFound
  BY FoundAlone DEF Commit
<1> QED
  BY <1>1, <1>2, <1>3, <1>4 DEF RowFence!Commit

-----------------------------------------------------------------------------
(* A job pays what it takes off its list, and nothing else.                   *)

LEMMA JobPays ==
  ASSUME TypeOK, NEW s \in Sessions, pc[s] = "evict", NEW todo, JobLeft(s, todo),
         todo.rows \subseteq job[s].rows, todo.bulk \subseteq job[s].bulk
  PROVE  /\ \A t \in Tables : Bumping(t)' => Bumping(t)
         /\ \A t \in Tables : Bumping(t) => Bumping(t)' \/ t \in job[s].bulk \ todo.bulk
         /\ \A r \in Rows : Evicting(r)' => Evicting(r)
         /\ \A r \in Rows : Evicting(r) =>
               Evicting(r)' \/ r \in job[s].rows \ todo.rows \/ TableOf[r] \in job[s].bulk \ todo.bulk
<1>1. /\ job' = [job EXCEPT ![s] = todo]
      /\ pc' = [pc EXCEPT ![s] = IF todo = NoPending THEN "idle" ELSE "evict"]
  BY DEF JobLeft
<1>2. job'[s] = todo /\ (todo # NoPending => pc'[s] = "evict")
  BY <1>1 DEF TypeOK
<1>3. \A o \in Sessions \ {s} : pc'[o] = pc[o] /\ job'[o] = job[o]
  BY <1>1 DEF TypeOK
<1>4. \A t : t \in todo.bulk => Bumping(t)'
  <2>1. \A t : t \in todo.bulk => todo # NoPending
    BY DEF NoPending
  <2> QED
    BY <1>2, <2>1 DEF Bumping
<1>5. \A r : r \in todo.rows \/ TableOf[r] \in todo.bulk => Evicting(r)'
  <2>1. \A r : r \in todo.rows \/ TableOf[r] \in todo.bulk => todo # NoPending
    BY DEF NoPending
  <2> QED
    BY <1>2, <2>1 DEF Evicting
<1>6. ASSUME NEW t \in Tables PROVE (Bumping(t)' => Bumping(t)) /\ (Bumping(t) => Bumping(t)' \/ t \in job[s].bulk \ todo.bulk)
  BY <1>2, <1>3, <1>4 DEF Bumping
<1>7. ASSUME NEW r \in Rows
      PROVE  /\ Evicting(r)' => Evicting(r)
             /\ Evicting(r) => Evicting(r)' \/ r \in job[s].rows \ todo.rows \/ TableOf[r] \in job[s].bulk \ todo.bulk
  BY <1>2, <1>3, <1>5 DEF Evicting
<1> QED
  BY <1>6, <1>7

(* delete_tags for the rows of one table.                                     *)
LEMMA EvictionInvalidates ==
  ASSUME TypeOK, NEW s \in Sessions, NEW t \in Tables, EvictRows(s, t)
  PROVE  Fence!Invalidate({}) /\ RowFence!Invalidate(RowsOf(s, t))
<1> DEFINE todo == [rows |-> job[s].rows \ RowsOf(s, t), bulk |-> job[s].bulk]
<1>1. pc[s] = "evict" /\ JobLeft(s, todo) /\ UNCHANGED <<db, version>> /\ cache' = DeleteTags(cache, RowsOf(s, t))
  BY DEF EvictRows, RowsDone, JobLeft, dbVars
<1>2. /\ \A u \in Tables : Bumping(u)' <=> Bumping(u)
      /\ \A r \in Rows : Evicting(r)' => Evicting(r)
      /\ \A r \in Rows : Evicting(r) => Evicting(r)' \/ r \in RowsOf(s, t)
  <2>1. todo.rows \subseteq job[s].rows /\ todo.bulk = job[s].bulk /\ job[s].rows \ todo.rows \subseteq RowsOf(s, t)
    OBVIOUS
  <2> QED
    BY <1>1, <2>1, JobPays
<1>3. Owed' = Owed /\ RowsOwed \ RowsOf(s, t) \subseteq RowsOwed' /\ RowsOwed' \subseteq RowsOwed
  BY <1>2 DEF Owed, RowsOwed
<1>4. Findable' \subseteq {e \in Findable : e.tags \cap RowsOf(s, t) = {}}
  BY <1>1 DEF Findable, Current, DeleteTags
<1>5. RowsFound' \subseteq {f \in RowsFound : f.units \cap RowsOf(s, t) = {}}
  <2> SUFFICES ASSUME NEW e \in Findable'
               PROVE  /\ Answer(e, e.tags \ e.overtaken) \in RowsFound
                      /\ Answer(e, e.tags \ e.overtaken).units \cap RowsOf(s, t) = {}
    BY DEF RowsFound, Answer
  <2> QED
    BY <1>4, EntryUnits DEF RowsFound, Findable
<1>6. Found' \subseteq Found
  BY <1>4, FoundLess
<1> QED
  BY <1>1, <1>3, <1>5, <1>6, FloorsAlone DEF Fence!Invalidate, RowFence!Invalidate

(* A counter goes up: the results over its table are gone, by both counts.    *)
RowsIn(t) == {r \in Rows : TableOf[r] = t}

LEMMA BumpHides ==
  ASSUME TypeOK, KeysNeverAhead, NEW t \in Tables, version' = [version EXCEPT ![t] = @ + 1], cache' = cache
  PROVE  /\ Found' \subseteq {f \in Found : f.units \cap {t} = {}}
         /\ RowsFound' \subseteq {f \in RowsFound : f.units \cap RowsIn(t) = {}}
<1>1. ASSUME NEW e \in Findable' PROVE e \in Findable /\ t \notin ModelSet(e.key.stmt)
  <2> DEFINE k == e.key
  <2>1. e \in cache /\ Current(k)' /\ KeyBehind(k)
    BY EntryKeyBehind DEF Findable
  <2>2. \A u \in Tables : version[u] \in Nat /\ version'[u] = IF u = t THEN version[u] + 1 ELSE version[u]
    BY DEF TypeOK
  <2>3. ASSUME NEW i \in DOMAIN ModelsOf[k.stmt]
        PROVE  k.vers[i] = version[ModelsOf[k.stmt][i]] /\ ModelsOf[k.stmt][i] # t
    <3>1. k.vers[i] \in Nat /\ ModelsOf[k.stmt][i] \in Tables /\ k.vers[i] <= version[ModelsOf[k.stmt][i]]
      BY <2>1 DEF KeyBehind
    <3>2. k.vers[i] = version'[ModelsOf[k.stmt][i]]
      BY <2>1 DEF Current
    <3> QED
      BY <2>2, <3>1, <3>2
  <2> QED
    BY <2>1, <2>3 DEF Findable, Current, ModelSet
<1>2. ASSUME NEW e \in Findable'
      PROVE  /\ Answer(e, ModelSet(e.key.stmt)) \in Found
             /\ Answer(e, ModelSet(e.key.stmt)).units \cap {t} = {}
             /\ Answer(e, e.tags \ e.overtaken) \in RowsFound
             /\ Answer(e, e.tags \ e.overtaken).units \cap RowsIn(t) = {}
  <2>1. e \in Findable /\ e \in cache /\ t \notin ModelSet(e.key.stmt)
    BY <1>1 DEF Findable
  <2> QED
    BY <2>1, EntryUnits DEF Found, RowsFound, RowsIn
<1> QED
  BY <1>2 DEF Found, RowsFound, Answer

LEMMA TableInvalidates ==
  ASSUME TypeOK, KeysNeverAhead, NEW t \in Tables, InvalidateTable(t)
  PROVE  Fence!Invalidate({t}) /\ RowFence!Invalidate(RowsIn(t))
<1>1. UNCHANGED <<Floor, RowFloor, Owed, RowsOwed>>
  BY FloorsAlone, OwedAlone DEF InvalidateTable, dbVars
<1> QED
  BY <1>1, BumpHides DEF InvalidateTable, Fence!Invalidate, RowFence!Invalidate

LEMMA BumpInvalidates ==
  ASSUME TypeOK, KeysNeverAhead, NEW s \in Sessions, NEW t \in Tables, BumpTable(s, t)
  PROVE  Fence!Invalidate({t}) /\ RowFence!Invalidate(RowsIn(t))
<1> DEFINE todo == [rows |-> {}, bulk |-> job[s].bulk \ {t}]
<1>1. pc[s] = "evict" /\ job[s].rows = {} /\ JobLeft(s, todo) /\ db' = db
  BY DEF BumpTable, TableDone, JobLeft, dbVars
<1>2. /\ \A u \in Tables : Bumping(u)' => Bumping(u)
      /\ \A u \in Tables : Bumping(u) => Bumping(u)' \/ u = t
      /\ \A r \in Rows : Evicting(r)' => Evicting(r)
      /\ \A r \in Rows : Evicting(r) => Evicting(r)' \/ TableOf[r] = t
  <2>1. todo.rows = {} /\ todo.bulk \subseteq job[s].bulk /\ job[s].bulk \ todo.bulk \subseteq {t}
    OBVIOUS
  <2> QED
    BY <1>1, <2>1, JobPays
<1>3. /\ Owed \ {t} \subseteq Owed' /\ Owed' \subseteq Owed
      /\ RowsOwed \ RowsIn(t) \subseteq RowsOwed' /\ RowsOwed' \subseteq RowsOwed
  BY <1>2 DEF Owed, RowsOwed, RowsIn
<1> QED
  BY <1>1, <1>3, FloorsAlone, BumpHides DEF BumpTable, Fence!Invalidate, RowFence!Invalidate

-----------------------------------------------------------------------------
(* Reads.  Two current keys of one statement are one key.                     *)

LEMMA CurrentKeyUnique ==
  ASSUME TypeOK, NEW s \in Sessions, pc[s] = "set", Current(ReadKey(s)),
         NEW e \in cache, Current(e.key), e.key.stmt = read[s].stmt
  PROVE  e.key = ReadKey(s)
<1> DEFINE models == ModelsOf[read[s].stmt]
<1>1. e.key \in Key /\ Len(e.key.vers) = Len(models)
  BY DEF TypeOK, Entry
<1>2. read[s] \in Read /\ Len(read[s].vers) = Len(models)
  BY DEF TypeOK, VersionsRead
<1>3. models \in Seq(Tables) /\ e.key.vers \in Seq(Nat) /\ read[s].vers \in Seq(Nat)
  BY <1>1, <1>2, StmtsAssumption DEF Key, Read
<1>4. DOMAIN e.key.vers = DOMAIN models /\ DOMAIN read[s].vers = DOMAIN models
  BY <1>1, <1>2, <1>3
<1>5. \A i \in DOMAIN models : e.key.vers[i] = read[s].vers[i]
  BY DEF Current, ReadKey
<1>6. e.key.vers = read[s].vers
  BY <1>3, <1>4, <1>5
<1> QED
  BY <1>1, <1>6 DEF Key, ReadKey

(* So a set replaces the result of its statement, or is hidden.               *)
LEMMA SetReplaces ==
  ASSUME TypeOK, NEW s \in Sessions, CacheSet(s)
  PROVE  \/ Findable' = Findable
         \/ /\ Current(ReadKey(s))
            /\ Findable' = {e \in Findable : e.key.stmt # read[s].stmt} \cup {NewEntry(s)}
<1> DEFINE new == NewEntry(s)
<1>1. /\ pc[s] = "set" /\ version' = version
      /\ cache' = {e \in cache : e.key # ReadKey(s)} \cup {new}
      /\ new.key = ReadKey(s) /\ ReadKey(s).stmt = read[s].stmt
  BY DEF CacheSet, EndRead, Put, Lookup, NewEntry, ReadKey
<1>2. Findable' = {e \in cache' : Current(e.key)}
  BY <1>1 DEF Findable, Current
<1>3. CASE Current(ReadKey(s))
  <2>1. ASSUME NEW e \in Findable PROVE e.key # ReadKey(s) <=> e.key.stmt # read[s].stmt
    BY <1>1, <1>3, <2>1, CurrentKeyUnique DEF Findable
  <2> QED
    BY <1>1, <1>2, <1>3, <2>1 DEF Findable
<1>4. CASE ~Current(ReadKey(s))
  BY <1>1, <1>2, <1>4 DEF Findable
<1> QED
  BY <1>3, <1>4

(* The answer that a new entry gives.                                         *)
LEMMA NewAnswer ==
  ASSUME TypeOK, NEW s \in Sessions, CacheSet(s), NEW units
  PROVE  /\ Answer(NewEntry(s), units).stmt = read[s].stmt /\ read[s].stmt \in Stmts
         /\ Answer(NewEntry(s), units).units = units
         /\ Answer(NewEntry(s), units).result \in [Rows -> Nat]
         /\ \A r \in Rows : Answer(NewEntry(s), units).result[r] = read[s].result[r].at
         /\ NewEntry(s).tags = TagsOf(read[s].stmt, read[s].result)
         /\ \A r \in NewEntry(s).tags \ NewEntry(s).overtaken : read[s].result[r].at < db[r].at => Evicting(r)
<1>1. read[s] \in Read
  BY DEF TypeOK
<1>2. \A r \in Rows : read[s].result[r].at \in Nat
  BY <1>1 DEF Read, Value
<1> QED
  BY <1>1, <1>2 DEF Answer, NewEntry, ReadKey, Read

LEMMA TablesStored ==
  ASSUME TypeOK, ReadsFenced, NEW s \in Sessions, CacheSet(s), Owed' = Owed
  PROVE  (\E f \in Found' : Fence!Store(f)) \/ UNCHANGED Fence!fenceVars
<1> DEFINE new == NewEntry(s)
<1>1. new.key.stmt = read[s].stmt /\ pc[s] = "set" /\ Floor' = Floor
  BY FloorsAlone DEF CacheSet, EndRead, dbVars, NewEntry, ReadKey
<1>2. CASE Findable' = Findable
  BY <1>1, <1>2 DEF Found, Answer, Fence!fenceVars
<1>3. CASE Current(ReadKey(s)) /\ Findable' = {e \in Findable : e.key.stmt # read[s].stmt} \cup {new}
  <2>1. PICK f : f = Answer(new, ModelSet(read[s].stmt))
    OBVIOUS
  <2>2. /\ f.stmt = read[s].stmt /\ read[s].stmt \in Stmts
        /\ f.units = ModelSet(read[s].stmt) /\ f.result \in [Rows -> Nat]
        /\ \A r \in Rows : f.result[r] = read[s].result[r].at
    BY <2>1, NewAnswer
  <2>3. \A e : Answer(e, ModelSet(e.key.stmt)).stmt = e.key.stmt
    BY DEF Answer
  <2>4. Found' = {Answer(e, ModelSet(e.key.stmt)) : e \in Findable'}
    BY DEF Found, Answer, ModelSet
  <2>5. Found' = {g \in Found : g.stmt # f.stmt} \cup {f}
    BY <1>1, <1>3, <2>1, <2>2, <2>3, <2>4 DEF Found
  <2>6. ASSUME NEW r \in CoversOf[read[s].stmt], TableOf[r] \in ModelSet(read[s].stmt) \ Owed
        PROVE  f.result[r] >= Floor[r]
    <3>1. r \in Rows /\ TableOf[r] \in Tables
      BY <2>2, StmtsAssumption, TablesAssumption
    <3>2. f.result[r] = read[s].result[r].at /\ f.result[r] \in Nat /\ db[r].at \in Nat
      BY <2>2, <3>1, StampType
    <3>3. db[r].by = "bulk" => ~(read[s].result[r].at < db[r].at)
      BY <1>1, <1>3, <2>6, <3>1 DEF ReadsFenced, Fenced, ReadKey, Owed
    <3> QED
      BY <3>1, <3>2, <3>3 DEF Floor, FloorOf
  <2>7. f \in Fence!Result
    <3>1. f.units \subseteq Tables
      BY <2>2, StmtsAssumption DEF ModelSet
    <3>2. f = [stmt |-> f.stmt, units |-> f.units, result |-> f.result]
      BY <2>1 DEF Answer
    <3> QED
      BY <2>2, <3>1, <3>2 DEF Fence!Result
  <2>8. Fence!Fresh(f)
    BY <2>2, <2>6 DEF Fence!Fresh
  <2> QED
    BY <1>1, <2>5, <2>7, <2>8 DEF Fence!Store
<1> QED
  BY <1>2, <1>3, SetReplaces

LEMMA RowsStored ==
  ASSUME TypeOK, NEW s \in Sessions, CacheSet(s), RowsOwed' = RowsOwed
  PROVE  (\E f \in RowsFound' : RowFence!Store(f)) \/ UNCHANGED RowFence!fenceVars
<1> DEFINE new == NewEntry(s)
<1>1. new.key.stmt = read[s].stmt /\ RowFloor' = RowFloor
  BY FloorsAlone DEF CacheSet, EndRead, dbVars, NewEntry, ReadKey
<1>2. CASE Findable' = Findable
  BY <1>1, <1>2 DEF RowsFound, Answer, RowFence!fenceVars
<1>3. CASE Findable' = {e \in Findable : e.key.stmt # read[s].stmt} \cup {new}
  <2>1. PICK f : f = Answer(new, new.tags \ new.overtaken)
    OBVIOUS
  <2>2. /\ f.stmt = read[s].stmt /\ read[s].stmt \in Stmts
        /\ f.units = new.tags \ new.overtaken /\ f.result \in [Rows -> Nat]
        /\ \A r \in Rows : f.result[r] = read[s].result[r].at
        /\ new.tags \subseteq Rows
        /\ \A r \in f.units : read[s].result[r].at < db[r].at => Evicting(r)
    <3>1. read[s].stmt \in Stmts /\ new.tags = TagsOf(read[s].stmt, read[s].result)
      BY NewAnswer
    <3>2. new.tags \subseteq Rows
      BY <3>1, StmtsAssumption DEF TagsOf
    <3>3. f = Answer(NewEntry(s), new.tags \ new.overtaken)
      BY <2>1
    <3>4. f.stmt = read[s].stmt /\ f.units = new.tags \ new.overtaken /\ f.result \in [Rows -> Nat]
      BY <3>3, NewAnswer
    <3>5. \A r \in Rows : f.result[r] = read[s].result[r].at
      BY <3>3, NewAnswer
    <3>6. \A r \in new.tags \ new.overtaken : read[s].result[r].at < db[r].at => Evicting(r)
      BY NewAnswer
    <3> HIDE DEF new
    <3> QED
      BY <3>1, <3>2, <3>4, <3>5, <3>6
  <2>3. \A e : Answer(e, e.tags \ e.overtaken).stmt = e.key.stmt
    BY DEF Answer
  <2>4. RowsFound' = {Answer(e, e.tags \ e.overtaken) : e \in Findable'}
    BY DEF RowsFound, Answer
  <2>5. RowsFound' = {g \in RowsFound : g.stmt # f.stmt} \cup {f}
    BY <1>1, <1>3, <2>1, <2>2, <2>3, <2>4 DEF RowsFound
  <2>6. ASSUME NEW r \in f.units \ RowsOwed PROVE f.result[r] >= RowFloor[r]
    <3>1. r \in Rows /\ ~(read[s].result[r].at < db[r].at)
      BY <2>2 DEF RowsOwed
    <3>2. f.result[r] = read[s].result[r].at /\ f.result[r] \in Nat /\ db[r].at \in Nat
      BY <2>2, <3>1, StampType
    <3> QED
      BY <3>1, <3>2 DEF RowFloor, FloorOf
  <2>7. f \in RowFence!Result
    <3>1. f.units \subseteq Rows
      BY <2>2
    <3>2. f = [stmt |-> f.stmt, units |-> f.units, result |-> f.result]
      BY <2>1 DEF Answer
    <3> QED
      BY <2>2, <3>1, <3>2 DEF RowFence!Result
  <2>8. RowFence!Fresh(f)
    <3>1. CoversOf[f.stmt] \subseteq Rows
      BY <2>2, StmtsAssumption
    <3> QED
      BY <2>6, <3>1 DEF RowFence!Fresh
  <2> QED
    BY <1>1, <2>5, <2>7, <2>8 DEF RowFence!Store
<1> QED
  BY <1>2, <1>3, SetReplaces

LEMMA OwedDuringReads ==
  ASSUME TypeOK, NEW s \in Sessions, ReadStep(s) \/ ReadCall(s)
  PROVE  Owed' = Owed /\ RowsOwed' = RowsOwed
<1>1. pc[s] # "evict" /\ \E p \in {"idle", "lookupKey", "get", "query", "storeKey", "set"} : pc' = [pc EXCEPT ![s] = p]
  BY DEF ReadStep, ReadCall, StartSelect, StartExecute, StartRead, ReadVersion, AddVersion, CacheHit, EndRead,
         CacheMiss, CacheMissed, Query, CacheSet
<1>2. job' = job
  BY ReadFrame
<1>3. \A o \in Sessions : pc'[o] = "evict" <=> pc[o] = "evict"
  BY <1>1 DEF TypeOK
<1> QED
  BY <1>2, <1>3 DEF Owed, Bumping, RowsOwed, Evicting

-----------------------------------------------------------------------------
(* Both abstract caches start empty, and every step is one of theirs.         *)

LEMMA FenceInit == Init => Fence!Init /\ RowFence!Init
<1> SUFFICES ASSUME Init PROVE Fence!Init /\ RowFence!Init
  OBVIOUS
<1>1. Floor = [r \in Rows |-> 0] /\ RowFloor = [r \in Rows |-> 0]
  BY DEF Init, Floor, RowFloor, FloorOf
<1>2. Owed = {} /\ RowsOwed = {}
  BY DEF Init, Owed, Bumping, RowsOwed, Evicting
<1>3. Found = {} /\ RowsFound = {}
  BY DEF Init, Found, RowsFound, Findable
<1> QED
  BY <1>1, <1>2, <1>3 DEF Fence!Init, RowFence!Init

(* The steps that both abstract caches see in the same way.                   *)
LEMMA UnseenByFences ==
  ASSUME UNCHANGED <<db, cache, version>>, Owed' = Owed, RowsOwed' = RowsOwed
  PROVE  UNCHANGED Fence!fenceVars /\ UNCHANGED RowFence!fenceVars
BY FoundAlone, FloorsAlone DEF Fence!fenceVars, RowFence!fenceVars

LEMMA InvalidationStep ==
  ASSUME TypeOK, KeysNeverAhead,
         \/ \E s \in Sessions : EvictStep(s)
         \/ \E t \in Tables : InvalidateTable(t)
         \/ \E t \in Tables, R \in SUBSET Rows : InvalidateRows(t, R)
         \/ \E k : Expire(k)
  PROVE  (\E U \in SUBSET Tables : Fence!Invalidate(U)) /\ (\E U \in SUBSET Rows : RowFence!Invalidate(U))
<1>1. ASSUME NEW s \in Sessions, NEW t \in Tables
      PROVE  {} \in SUBSET Tables /\ {t} \in SUBSET Tables /\ RowsIn(t) \in SUBSET Rows
  BY DEF RowsIn
<1>2. ASSUME NEW s \in Sessions, NEW t \in Tables PROVE RowsOf(s, t) \in SUBSET Rows
  BY DEF RowsOf, TypeOK, Pending
<1>3. ASSUME NEW s \in Sessions, NEW t \in Tables, EvictRows(s, t)
      PROVE  (\E U \in SUBSET Tables : Fence!Invalidate(U)) /\ (\E U \in SUBSET Rows : RowFence!Invalidate(U))
  BY <1>1, <1>2, <1>3, EvictionInvalidates
<1>4. ASSUME NEW s \in Sessions, NEW t \in Tables, BumpTable(s, t)
      PROVE  (\E U \in SUBSET Tables : Fence!Invalidate(U)) /\ (\E U \in SUBSET Rows : RowFence!Invalidate(U))
  BY <1>1, <1>4, BumpInvalidates
<1>5. ASSUME NEW t \in Tables, InvalidateTable(t)
      PROVE  (\E U \in SUBSET Tables : Fence!Invalidate(U)) /\ (\E U \in SUBSET Rows : RowFence!Invalidate(U))
  <2>1. {t} \in SUBSET Tables /\ RowsIn(t) \in SUBSET Rows
    BY DEF RowsIn
  <2> QED
    BY <1>5, <2>1, TableInvalidates
<1>6. ASSUME (\E t \in Tables, R \in SUBSET Rows : InvalidateRows(t, R)) \/ (\E k : Expire(k))
      PROVE  (\E U \in SUBSET Tables : Fence!Invalidate(U)) /\ (\E U \in SUBSET Rows : RowFence!Invalidate(U))
  <2>1. UNCHANGED <<db, version, pc, job>> /\ cache' \subseteq cache
    BY <1>6 DEF InvalidateRows, Expire, dbVars, DeleteTags, Lookup
  <2>2. Findable' \subseteq Findable
    BY <2>1 DEF Findable, Current
  <2>3. Fence!Invalidate({}) /\ RowFence!Invalidate({})
    BY <2>1, <2>2, FloorsAlone, OwedAlone, Forgets
  <2> QED
    BY <2>3
<1> QED
  BY <1>3, <1>4, <1>5, <1>6 DEF EvictStep

LEMMA QuietStep ==
  ASSUME TypeOK, NEW s \in Sessions,
         ((ReadStep(s) \/ ReadCall(s)) /\ ~CacheSet(s)) \/ WriteCall(s) \/ Rollback(s) \/ Close(s)
  PROVE  UNCHANGED Fence!fenceVars /\ UNCHANGED RowFence!fenceVars
<1>1. CASE (ReadStep(s) \/ ReadCall(s)) /\ ~CacheSet(s)
  BY <1>1, ReadFrame, OwedDuringReads, UnseenByFences
<1>2. CASE WriteCall(s) \/ Rollback(s) \/ Close(s)
  <2>1. UNCHANGED <<db, cache, version, pc, job>>
    BY <1>2, WriteFrame DEF Rollback, Close
  <2> QED
    BY <2>1, OwedAlone, UnseenByFences
<1> QED
  BY <1>1, <1>2

LEMMA TablesFenceStep ==
  ASSUME TypeOK, KeysNeverAhead, TablesRecorded, ReadsFenced, Calm, [Next]_vars
  PROVE  [Fence!Next]_(Fence!fenceVars)
<1>1. ASSUME NEW s \in Sessions, CacheSet(s) PROVE [Fence!Next]_(Fence!fenceVars)
  BY <1>1, TablesStored, OwedDuringReads DEF Fence!Next, ReadStep
<1>2. ASSUME NEW s \in Sessions, Commit(s) PROVE [Fence!Next]_(Fence!fenceVars)
  BY <1>2, TablesCommitted DEF Fence!Next
<1>3. ASSUME NEW s \in Sessions, ((ReadStep(s) \/ ReadCall(s)) /\ ~CacheSet(s)) \/ WriteCall(s) \/ Rollback(s) \/ Close(s)
      PROVE  [Fence!Next]_(Fence!fenceVars)
  BY <1>3, QuietStep
<1>4. ASSUME \/ \E s \in Sessions : EvictStep(s)
             \/ \E t \in Tables : InvalidateTable(t)
             \/ \E t \in Tables, R \in SUBSET Rows : InvalidateRows(t, R)
             \/ \E k : Expire(k)
      PROVE  [Fence!Next]_(Fence!fenceVars)
  BY <1>4, InvalidationStep DEF Fence!Next
<1>5. ASSUME UNCHANGED vars PROVE [Fence!Next]_(Fence!fenceVars)
  BY <1>5, UnseenByFences, OwedAlone DEF vars
<1> QED
  BY <1>1, <1>2, <1>3, <1>4, <1>5, CalmStep

LEMMA RowsFenceStep ==
  ASSUME TypeOK, KeysNeverAhead, RowsRecorded, Calm, [Next]_vars
  PROVE  [RowFence!Next]_(RowFence!fenceVars)
<1>1. ASSUME NEW s \in Sessions, CacheSet(s) PROVE [RowFence!Next]_(RowFence!fenceVars)
  BY <1>1, RowsStored, OwedDuringReads DEF RowFence!Next, ReadStep
<1>2. ASSUME NEW s \in Sessions, Commit(s) PROVE [RowFence!Next]_(RowFence!fenceVars)
  BY <1>2, RowsCommitted DEF RowFence!Next
<1>3. ASSUME NEW s \in Sessions, ((ReadStep(s) \/ ReadCall(s)) /\ ~CacheSet(s)) \/ WriteCall(s) \/ Rollback(s) \/ Close(s)
      PROVE  [RowFence!Next]_(RowFence!fenceVars)
  BY <1>3, QuietStep
<1>4. ASSUME \/ \E s \in Sessions : EvictStep(s)
             \/ \E t \in Tables : InvalidateTable(t)
             \/ \E t \in Tables, R \in SUBSET Rows : InvalidateRows(t, R)
             \/ \E k : Expire(k)
      PROVE  [RowFence!Next]_(RowFence!fenceVars)
  BY <1>4, InvalidationStep DEF RowFence!Next
<1>5. ASSUME UNCHANGED vars PROVE [RowFence!Next]_(RowFence!fenceVars)
  BY <1>5, UnseenByFences, OwedAlone DEF vars
<1> QED
  BY <1>1, <1>2, <1>3, <1>4, <1>5, CalmStep

(* Flushes, their commits, readers of both kinds and manual invalidations     *)
(* implement the abstract cache of rows, with mapper listeners on every model *)
(* and nothing failing: whatever the order of the awaits, the cache looks as  *)
(* if each eviction dropped at once the results that its rows tag, and as if  *)
(* no commit returned before its rows were evicted.                           *)
THEOREM RowFenceImplemented ==
  ASSUME Calm, Tracked = Tables
  PROVE  Spec => ImplementsRowFence
<1> DEFINE IInv == TypeOK /\ KeysNeverAhead /\ RowsRecorded
<1>1. Init => IInv
  BY TypeInit, KeysInit, RecordedInit DEF PendingCovers
<1>2. IInv /\ [Next]_vars => IInv'
  BY CalmAllows, TypeStep, KeysStep, RowsRecordedStep
<1>3. Init => RowFence!Init
  BY FenceInit
<1>4. IInv /\ [Next]_vars => [RowFence!Next]_(RowFence!fenceVars)
  BY RowsFenceStep
<1> QED
  BY <1>1, <1>2, <1>3, <1>4, PTL DEF Spec, ImplementsRowFence, RowFence!Spec

(* Readers that keep the key of their lookup, bulk statements and manual      *)
(* invalidations implement the abstract cache of tables, under the same       *)
(* restrictions as TableFence: whatever the number of tables a key carries    *)
(* and however its versions were read, one await each, the cache looks as if  *)
(* a commit dropped the results over its tables at once.                      *)
THEOREM FenceImplemented ==
  ASSUME Calm, "select" \notin Calls, Tracked = Tables, Matched = Sessions
  PROVE  Spec => ImplementsFence
<1> DEFINE IInv == /\ TypeOK /\ KeysNeverAhead /\ TablesRecorded /\ LocksHeld
                   /\ NoSelect /\ ReadsFenced
<1>1. Init => IInv
  BY TypeInit, KeysInit, RecordedInit, LocksInit, NoSelectInit DEF PendingCovers, ReadsFenced, Init
<1>2. IInv /\ [Next]_vars => IInv'
  BY CalmAllows, TypeStep, KeysStep, TablesRecordedStep, LocksStep, NoSelectStep, ReadsFencedStep
<1>3. Init => Fence!Init
  BY FenceInit
<1>4. IInv /\ [Next]_vars => [Fence!Next]_(Fence!fenceVars)
  BY TablesFenceStep
<1> QED
  BY <1>1, <1>2, <1>3, <1>4, PTL DEF Spec, ImplementsFence, Fence!Spec

(* So do the readers that rebuild it, as long as no commit overtakes a read.  *)
THEOREM FenceUnlessOvertaken ==
  ASSUME Calm, Tracked = Tables, Matched = Sessions
  PROVE  Spec /\ ReadsNotOvertaken => ImplementsFence
<1> DEFINE IInv == TypeOK /\ KeysNeverAhead /\ TablesRecorded /\ LocksHeld /\ ReadsFresh
<1>1. Init => IInv
  BY TypeInit, KeysInit, RecordedInit, LocksInit DEF PendingCovers, ReadsFresh, Queried, Init
<1>2. IInv /\ [Next]_vars
        /\ [\A s, o \in Sessions : \A r \in CoversOf[read[o].stmt] : ~Overtakes(s, o, r)]_vars
      => IInv'
  BY CalmAllows, TypeStep, KeysStep, TablesRecordedStep, LocksStep, ReadsFreshStep
<1>3. Init => Fence!Init
  BY FenceInit
<1>4. IInv /\ [Next]_vars => [Fence!Next]_(Fence!fenceVars)
  BY FreshIsFenced, TablesFenceStep
<1> QED
  BY <1>1, <1>2, <1>3, <1>4, PTL DEF Spec, ReadsNotOvertaken, ImplementsFence, Fence!Spec

-----------------------------------------------------------------------------
(* The abstract cache keeps its promise.                                      *)

LEMMA FreshStays ==
  ASSUME Fence!TypeOK, NEW f \in Found, Fence!Fresh(f), Fence!Commit
  PROVE  Fence!Fresh(f)'
<1>1. \A r \in CoversOf[f.stmt] : TableOf[r] \in f.units \ Owed => f.result[r] >= Floor[r]
  BY DEF Fence!Fresh
<1> SUFFICES ASSUME NEW r \in CoversOf[f.stmt], TableOf[r] \in f.units \ Owed'
             PROVE  f.result[r] >= Floor'[r]
  BY DEF Fence!Fresh
<1>2. f \in Fence!Result
  BY DEF Fence!TypeOK
<1>3. r \in Rows /\ f.result[r] \in Nat
  BY <1>2, StmtsAssumption DEF Fence!Result
<1>4. f.result[r] >= Floor[r]
  BY <1>1 DEF Fence!Commit
<1>5. Floor'[r] \in {0, Floor[r]}
  BY <1>3 DEF Fence!Commit
<1> QED
  BY <1>3, <1>4, <1>5

LEMMA NothingMissedStep ==
  ASSUME Fence!TypeOK, Fence!NothingMissed, [Fence!Next]_(Fence!fenceVars)
  PROVE  Fence!TypeOK' /\ Fence!NothingMissed'
<1>1. CASE Fence!Commit
  <2>1. Fence!TypeOK' /\ Found' = Found
    BY <1>1 DEF Fence!Commit, Fence!TypeOK, Fence!Result
  <2> QED
    BY <1>1, <2>1, FreshStays DEF Fence!NothingMissed
<1>2. ASSUME NEW U \in SUBSET Tables, Fence!Invalidate(U) PROVE Fence!TypeOK' /\ Fence!NothingMissed'
  <2>1. \A f \in Found' : f \in Found /\ f.units \cap U = {}
    BY <1>2 DEF Fence!Invalidate
  <2>2. ASSUME NEW f \in Found' PROVE Fence!Fresh(f)'
    BY <1>2, <2>1, <2>2 DEF Fence!Invalidate, Fence!NothingMissed, Fence!Fresh
  <2> QED
    BY <1>2, <2>1, <2>2 DEF Fence!Invalidate, Fence!NothingMissed, Fence!TypeOK, Fence!Result
<1>3. ASSUME NEW g \in Found', Fence!Store(g) PROVE Fence!TypeOK' /\ Fence!NothingMissed'
  <2>1. ASSUME NEW f \in Found' PROVE Fence!Fresh(f)'
    BY <1>3, <2>1 DEF Fence!Store, Fence!NothingMissed, Fence!Fresh
  <2> QED
    BY <1>3, <2>1 DEF Fence!Store, Fence!NothingMissed, Fence!TypeOK, Fence!Result
<1>4. CASE UNCHANGED Fence!fenceVars
  <2>1. Found' = Found /\ Owed' = Owed /\ Floor' = Floor
    BY <1>4 DEF Fence!fenceVars
  <2>2. ASSUME NEW f \in Found' PROVE Fence!Fresh(f)'
    BY <2>1, <2>2 DEF Fence!NothingMissed, Fence!Fresh
  <2> QED
    BY <2>1, <2>2 DEF Fence!NothingMissed, Fence!TypeOK, Fence!Result
<1> QED
  BY <1>1, <1>2, <1>3, <1>4 DEF Fence!Next

(* What the abstract cache is for: no lookup misses a write that is committed *)
(* and whose tables nobody has still to invalidate.                           *)
THEOREM AbstractMissesNothing == Fence!Spec => []Fence!NothingMissed
<1> DEFINE IInv == Fence!TypeOK /\ Fence!NothingMissed
<1>1. Fence!Init => IInv
  BY DEF Fence!Init, Fence!TypeOK, Fence!NothingMissed
<1>2. IInv /\ [Fence!Next]_(Fence!fenceVars) => IInv'
  BY NothingMissedStep
<1> QED
  BY <1>1, <1>2, PTL DEF Fence!Spec

=============================================================================
