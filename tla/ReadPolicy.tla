------------------------------ MODULE ReadPolicy ------------------------------
(***************************************************************************)
(* What is cached, under which key and for how long: configure, bind, and  *)
(* then reads through the session handler or manager.execute, and writes.  *)
(*                                                                         *)
(* A statement is what these functions see of it: its columns, its WHERE   *)
(* criteria, its loader options and its parameters.  Reads and writes are  *)
(* atomic here, their interleavings are the subject of SessionCache.       *)
(***************************************************************************)
EXTENDS Integers, Sequences, FiniteSetsExt, Functions

CONSTANTS
    Models,       \* mapped classes
    Paths,        \* keys that a models configuration may have, "*" among them
    Malformed,    \* those that are no dotted path, or no string
    Imported,     \* Imported[p]: the class that importing path p gives, or None
    PathOf,       \* PathOf[m]: __module__.__name__ of a class
    PrimaryKey,   \* PrimaryKey[m]: the names of its primary-key columns
    Database,     \* rows [of |-> model, at |-> [column -> value]]
    Squeezed,     \* Squeezed[v]: a literal with its runs of white space made one blank
    Inputs,       \* arguments of configure
    Statements,   \* SELECT statements
    None, Absent, All, Text, Invalid,
    MaxEntries    \* bound: entries in the cache

Ops == {"get", "fetch", "count", "exists"}

(* What the manager keeps: a model's operations and timeout, and all of them. *)
Entries == [ops : SUBSET Ops, timeout : Nat \ {0}]
Managers == [entries : UNION {[D -> {None} \cup Entries] : D \in SUBSET (Paths \ Malformed)},
             wildcard : {None} \cup Entries, timeout : Nat \ {0}]

ASSUME MarkersAssumption ==
    /\ \A x \in {None, Absent, All, Text, Invalid} :
          x \notin Ops \cup Nat /\ x \notin Entries /\ x \notin Managers /\ \A ops \in SUBSET Ops : x # ops
    /\ None \notin {Absent, All, Text, Invalid} /\ Absent \notin {All, Text, Invalid}
    /\ All \notin {Text, Invalid} /\ Text # Invalid
ASSUME PathsAssumption ==
    /\ "*" \in Paths /\ Malformed \subseteq Paths \ {"*"}
    /\ Imported \in [Paths -> Models \cup {None}] /\ Imported["*"] = None
    /\ PathOf \in [Models -> Paths \ {"*"}]
ASSUME ModelsAssumption == None \notin Models /\ \A r \in Database : r.of \in Models
ASSUME KeysAssumption ==
    \A q, r \in Database : q.of = r.of /\ (\A k \in PrimaryKey[q.of] : q.at[k] = r.at[k]) => q = r
ASSUME InputsAssumption ==
    \A a \in Inputs : /\ DOMAIN a.models \subseteq Paths
                      /\ \A p \in DOMAIN a.models : a.models[p] \in {None, Text} \/ a.models[p].ops # Invalid
ASSUME StatementsAssumption ==
    \A s \in Statements : s.columns \in Seq(Range(s.columns)) /\ s.where \in Seq(Range(s.where))
ASSUME BoundAssumption == MaxEntries \in Nat

VARIABLES
    args,       \* the arguments of configure
    manager,    \* None, Invalid (ConfigError) or the CacheManager that configure returned
    listening,  \* None, or the models whose mapper events the bound manager listens to
    cache,      \* entries of the backend
    answer      \* the last read, the operation it is, and the statement that answers it

vars == <<args, manager, listening, cache, answer>>

-----------------------------------------------------------------------------
(* config.py                                                                *)

NormalizeOps(ops) ==
    CASE ops = None -> {}
      [] ops = All -> Ops
      [] ops = Text -> Invalid
      [] ops \notin {None, All, Text} -> IF ops \subseteq Ops THEN ops ELSE Invalid

Positive(t) == t \in Nat \ {0}

(* Mutant: any number is a timeout.                                           *)
Entry_AnyInt(ops, timeout) ==
    IF ops = Invalid \/ timeout \in {None, Text} THEN Invalid ELSE [ops |-> ops, timeout |-> timeout]

Entry(ops, timeout) ==
    IF ops = Invalid \/ ~Positive(timeout) THEN Invalid ELSE [ops |-> ops, timeout |-> timeout]

Get(x, default) == IF x = Absent THEN default ELSE x

(* An explicit timeout of None is an error here, and not in a model's entry.  *)
NormalizeWildcard(raw, default) ==
    CASE raw = None -> None
      [] raw = Text -> Invalid
      [] raw \notin {None, Text} -> Entry(NormalizeOps(Get(raw.ops, All)), Get(raw.timeout, default))

(* Mutant: an entry without ops is taken to mean all of them.                 *)
NormalizeModel_AllOps(raw, wildcard, default) ==
    CASE raw = None -> None
      [] raw = Text -> Invalid
      [] raw \notin {None, Text} ->
            LET inherited == IF wildcard = None THEN default ELSE wildcard.timeout
            IN  Entry(NormalizeOps(Get(raw.ops, All)), IF raw.timeout \in {Absent, None} THEN inherited ELSE raw.timeout)

NormalizeModel(raw, wildcard, default) ==
    CASE raw = None -> None
      [] raw = Text -> Invalid
      [] raw \notin {None, Text} ->
            LET inherited == IF wildcard = None THEN [ops |-> All, timeout |-> default] ELSE wildcard
            IN  Entry(NormalizeOps(Get(raw.ops, inherited.ops)),
                      IF raw.timeout \in {Absent, None} THEN inherited.timeout ELSE raw.timeout)

(* A string, or a mapping with one, that is a URL with a scheme; what else is *)
(* handed on to cashews is left out.                                          *)
BackendAccepted(b) == b.form \in {"string", "mapping"} /\ b.url = "scheme"

NormalizeModels(models, default) ==
    LET wildcard == NormalizeWildcard(IF "*" \in DOMAIN models THEN models["*"] ELSE None, default)
        entries == [p \in DOMAIN models |-> NormalizeModel(models[p], wildcard, default)]
    IN  IF \/ DOMAIN models = {} \/ DOMAIN models \cap Malformed # {}
           \/ wildcard = Invalid \/ \E p \in DOMAIN models : entries[p] = Invalid
        THEN Invalid
        ELSE [entries |-> entries, wildcard |-> wildcard, timeout |-> default]

Configured(a) ==
    IF Positive(a.timeout) /\ BackendAccepted(a.backend) THEN NormalizeModels(a.models, a.timeout) ELSE Invalid

(* A path is split at its last dot, and imported.                             *)
ResolveModel(p) == IF p \in Malformed THEN None ELSE Imported[p]

-----------------------------------------------------------------------------
(* query_analysis.py                                                        *)

(* A column names its kind and its model.  A comparison of the WHERE clause   *)
(* names the model and the key of the column on its left, what is on its      *)
(* right (a literal, the name of a parameter, or the key of a column of the   *)
(* same model) and the criterion that it is in: a conjunction is one          *)
(* criterion, and no BinaryExpression.                                        *)

(* An entity and its columns name a model; an alias, count() and exists() do  *)
(* not.                                                                       *)
Naming == {"entity", "column"}
ColumnsOf(s, kinds) == {i \in DOMAIN s.columns : s.columns[i].kind \in kinds}
FirstOf(s, kinds) == s.columns[Min(ColumnsOf(s, kinds))]
ExtractModels(s) == {s.columns[i].model : i \in ColumnsOf(s, Naming)}

Comparisons(s) == Range(s.where)

(* Mutant: the criteria are counted, the columns they name are not.           *)
IsPrimaryKeyLookup_Counts(s, m) ==
    /\ \A i, j \in DOMAIN s.where : s.where[i].criterion = s.where[j].criterion => i = j
    /\ Len(s.where) = Cardinality(PrimaryKey[m])
    /\ \A c \in Comparisons(s) : c.key \in PrimaryKey[m] /\ c.op = "eq"

(* The names of the left columns are looked at, not the models that they are  *)
(* of, nor what they are compared with.                                       *)
IsPrimaryKeyLookup(s, m) ==
    /\ \A i, j \in DOMAIN s.where : s.where[i].criterion = s.where[j].criterion => i = j
    /\ Len(s.where) = Cardinality(PrimaryKey[m])
    /\ \A c \in Comparisons(s) : c.key \in PrimaryKey[m] /\ c.op = "eq"
    /\ {c.key : c \in Comparisons(s)} = PrimaryKey[m]

DetectOperation(s) ==
    CASE ColumnsOf(s, {"count", "exists"}) # {} -> FirstOf(s, {"count", "exists"}).kind
      [] ColumnsOf(s, {"count", "exists"}) = {} /\ \E m \in Models : ExtractModels(s) = {m} /\ IsPrimaryKeyLookup(s, m) -> "get"
      [] OTHER -> "fetch"

HasEagerLoaders(s) == s.eager # {}

-----------------------------------------------------------------------------
(* What the database answers, and what of it is in a result.                *)

(* The right side of comparison c of statement s, for row r.                  *)
Value(c, r, s) ==
    CASE c.against = "literal" -> c.value
      [] c.against = "parameter" -> s.parameters[c.value]
      [] c.against = "column" -> r.at[c.value]

Satisfies(r, s) ==
    \A c \in Comparisons(s) :
        c.model = r.of => IF c.op = "eq" THEN r.at[c.key] = Value(c, r, s) ELSE r.at[c.key] # Value(c, r, s)

RowsOf(s, kinds) == {r \in Database : Satisfies(r, s) /\ \E i \in ColumnsOf(s, kinds) : s.columns[i].model = r.of}

(* An alias is a table of its own, that no criterion here is about.           *)
AliasedRows(s) == {r \in Database : \E i \in ColumnsOf(s, {"alias"}) : s.columns[i].model = r.of}
JoinedRows(s) == {r \in Database : r.of \in s.joined /\ Satisfies(r, s)}

Rows(s) == RowsOf(s, Naming) \cup AliasedRows(s)
Result(s) == <<s.columns, Rows(s), JoinedRows(s)>>

(* The rows whose contents the result depends on, and those that tag it:      *)
(* extract_pks_from_fetch_result finds the primary keys of instances.         *)
DependsOn(s) == Rows(s) \cup JoinedRows(s) \cup {r \in Database : r.of \in s.eager}
Tagged(s) == RowsOf(s, {"entity"})

-----------------------------------------------------------------------------
(* key_generation.py                                                        *)

(* Blanks are collapsed in the compiled text, in its literals too.            *)
Compiled(c) ==
    [model |-> c.model, key |-> c.key, op |-> c.op, against |-> c.against,
     value |-> IF c.against = "literal" THEN Squeezed[c.value] ELSE c.value]
StatementToSql(s) ==
    [columns |-> s.columns, joined |-> s.joined, where |-> [i \in DOMAIN s.where |-> Compiled(s.where[i])]]

(* Mutant: the parameters of the execution are left out.                      *)
CacheKey_SqlOnly(s) == <<StatementToSql(s), None>>

(* Loader options are not in the text; parameters are appended as they are.   *)
CacheKey(s) == <<StatementToSql(s), s.parameters>>

-----------------------------------------------------------------------------
(* manager.py                                                               *)

ModelConfig(m) == IF PathOf[m] \in DOMAIN manager.entries THEN manager.entries[PathOf[m]] ELSE manager.wildcard

IsEnabled(m, op) == ModelConfig(m) # None /\ op \in ModelConfig(m).ops

Timeout(m) == IF ModelConfig(m) = None THEN manager.timeout ELSE ModelConfig(m).timeout

Configure ==
    /\ manager = None
    /\ manager' = Configured(args)
    /\ UNCHANGED <<args, listening, cache, answer>>

(* Mutant: entries that disable a model are skipped.                          *)
Listeners_Enabled(mgr) == {ResolveModel(p) : p \in {q \in DOMAIN mgr.entries : mgr.entries[q] # None}} \ {None}

(* _register_listeners; a path that cannot be imported is logged.             *)
Listeners(mgr) == {ResolveModel(p) : p \in DOMAIN mgr.entries \ {"*"}} \ {None}

Bind ==
    /\ manager \notin {None, Invalid}
    /\ listening = None
    /\ listening' = Listeners(manager)
    /\ UNCHANGED <<args, manager, cache, answer>>

Found(s) == {e \in cache : CacheKey(e.asked) = CacheKey(s)}

Answered(s, by) == answer' = [asked |-> s, op |-> DetectOperation(s), by |-> by]

Hit(s) == \E e \in Found(s) : Answered(s, e.asked) /\ UNCHANGED cache

StoreFor(s, via, timeout) ==
    /\ Found(s) = {}
    /\ Cardinality(cache) < MaxEntries
    /\ cache' = cache \cup {[asked |-> s, via |-> via, expire |-> timeout, old |-> {}]}
    /\ Answered(s, s)

(* The handler's guards: populate_existing, a sync session, the skip option;  *)
(* no model; eager loaders; an operation that the first model does not cache. *)
Intercepted(s) ==
    /\ s.mode = "plain"
    /\ ExtractModels(s) # {}
    /\ ~HasEagerLoaders(s)
    /\ IsEnabled(FirstOf(s, Naming).model, DetectOperation(s))

ReadThrough(s) ==
    /\ listening # None
    /\ Intercepted(s)
    /\ Hit(s) \/ StoreFor(s, "handler", Timeout(FirstOf(s, Naming).model))
    /\ UNCHANGED <<args, manager, listening>>

ReadDirect(s) ==
    /\ listening # None
    /\ ~Intercepted(s)
    /\ Answered(s, s)
    /\ UNCHANGED <<args, manager, listening, cache>>

(* manager.execute takes no parameters and asks for no permission; it sets up *)
(* the transport itself, and needs no bind.                                   *)
Execute(s) ==
    /\ manager \notin {None, Invalid} /\ s.parameters = None
    /\ \/ ExtractModels(s) = {} /\ Answered(s, s) /\ UNCHANGED cache
       \/ /\ ExtractModels(s) # {}
          /\ \/ Hit(s)
             \/ StoreFor(s, IF listening = None THEN "unbound" ELSE "execute", Timeout(FirstOf(s, Naming).model))
    /\ UNCHANGED <<args, manager, listening>>

(* A transaction that flushes a change of row r, and its eviction, if there   *)
(* is a listener for it.                                                      *)
Heard(r) == listening # None /\ r.of \in listening
Write(r) ==
    /\ cache' = {[e EXCEPT !.old = @ \cup (DependsOn(e.asked) \cap {r})] :
                    e \in {e \in cache : ~Heard(r) \/ r \notin Tagged(e.asked)}}
    /\ UNCHANGED <<args, manager, listening, answer>>

Expire(e) ==
    /\ cache' = cache \ {e}
    /\ UNCHANGED <<args, manager, listening, answer>>

Nothing == [asked |-> None, op |-> None, by |-> None]

Init ==
    /\ args \in Inputs
    /\ manager = None /\ listening = None
    /\ cache = {}
    /\ answer = Nothing

Next ==
    \/ Configure \/ Bind
    \/ \E s \in Statements : ReadThrough(s) \/ ReadDirect(s) \/ Execute(s)
    \/ \E r \in Database : Write(r)
    \/ \E e \in cache : Expire(e)

Spec == Init /\ [][Next]_vars

-----------------------------------------------------------------------------
(* Properties.                                                              *)

(* Types; every entry that is stored expires.                                 *)
TypeOK ==
    /\ args \in Inputs
    /\ manager \notin {None, Invalid} =>
          /\ DOMAIN manager.entries \subseteq Paths \ Malformed
          /\ Range(manager.entries) \cup {manager.wildcard} \subseteq {None} \cup Entries
          /\ manager.timeout \in Nat \ {0}
    /\ listening = None \/ listening \subseteq Models
    /\ Cardinality(cache) <= MaxEntries
    /\ \A e \in cache : e.asked \in Statements /\ e.expire \in Nat \ {0} /\ e.old \subseteq DependsOn(e.asked)
    /\ answer = Nothing \/ (answer.asked \in Statements /\ answer.by \in Statements)

(* configure accepts what the reference accepts: ...                          *)
OpsGiven(e) == e.ops \in {Absent, None, All} \/ (e.ops # Text /\ e.ops \subseteq Ops)
EntryGiven(e, none) == e = None \/ (e # Text /\ OpsGiven(e) /\ (e.timeout \in none \/ Positive(e.timeout)))
Acceptable(a) ==
    /\ Positive(a.timeout)
    /\ a.backend.form \in {"string", "mapping"} /\ a.backend.url = "scheme"
    /\ DOMAIN a.models # {} /\ DOMAIN a.models \cap Malformed = {}
    /\ \A p \in DOMAIN a.models : EntryGiven(a.models[p], IF p = "*" THEN {Absent} ELSE {Absent, None})

(* The first of a model's own entry, the wildcard and the defaults that says  *)
(* anything of a field; nothing if the first entry that there is is None.     *)
Speaks(p, field, silent) == p \in DOMAIN args.models /\ args.models[p] # None /\ args.models[p][field] \notin silent
Says(field, silent, m, default) ==
    LET own == Speaks(PathOf[m], field, silent)
    IN  CASE own -> args.models[PathOf[m]][field]
          [] ~own /\ Speaks("*", field, silent) -> args.models["*"][field]
          [] OTHER -> default
Disabled(m) ==
    LET p == IF PathOf[m] \in DOMAIN args.models THEN PathOf[m] ELSE "*"
    IN  p \notin DOMAIN args.models \/ args.models[p] = None
OpsMeant(m) ==
    LET ops == Says("ops", {Absent}, m, All)
    IN  IF Disabled(m) \/ ops = None THEN {} ELSE IF ops = All THEN Ops ELSE ops

(* configure rejects exactly what has no meaning, and the manager caches what *)
(* the most specific entry says, the wildcard filling in what it leaves out.  *)
ConfigurationMeans ==
    manager # None =>
        /\ manager # Invalid <=> Acceptable(args)
        /\ manager # Invalid =>
              \A m \in Models :
                  /\ {op \in Ops : IsEnabled(m, op)} = OpsMeant(m)
                  /\ ~Disabled(m) => Timeout(m) = Says("timeout", {Absent, None}, m, args.timeout)

(* A model that is listed under any path that leads to it, be it only to      *)
(* disable it, has its flushes tracked: an entry of instances of such models  *)
(* is never older than a row that is in it, if it was stored after bind.      *)
(* What the handler caches does not depend on eagerly loaded rows; what       *)
(* manager.execute caches may.                                                *)
Listed(m) == \E p \in DOMAIN args.models : ResolveModel(p) = m
TrackedStaysFresh ==
    \A e \in cache :
        /\ \A c \in Range(e.asked.columns) : c.kind = "entity" /\ Listed(c.model)
        /\ e.asked.joined = {} /\ e.via # "unbound"
        /\ e.asked.eager = {} \/ e.via = "handler"
        => e.old = {}

(* A read is answered with the result of a statement that means the same,     *)
(* whichever of them share a key; unless a literal has a run of blanks in it. *)
Blankless(s) == \A c \in Comparisons(s) : c.against = "literal" => Squeezed[c.value] = c.value
HitsAnswer ==
    answer # Nothing /\ Blankless(answer.asked) /\ Blankless(answer.by) => Result(answer.by) = Result(answer.asked)

(* What is taken for a "get" of one model finds one row of it at most, if its *)
(* criteria are about columns of that model and compare them with values.     *)
(* Neither is looked at: a comparison with another column may find any number *)
(* of rows, and is taken for a "get" all the same.                            *)
GetsFindOneRow ==
    answer.op = "get" =>
        LET s == answer.asked
        IN  (\A c \in Comparisons(s) : {c.model} = ExtractModels(s) /\ c.against # "column")
                => Cardinality(RowsOf(s, Naming)) <= 1

=============================================================================
