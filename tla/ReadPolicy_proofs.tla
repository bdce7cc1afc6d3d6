--------------------------- MODULE ReadPolicy_proofs ---------------------------
(***************************************************************************)
(* For any models, configurations, statements and rows: what a             *)
(* configuration means, what a shared key may answer, what a "get" finds,  *)
(* and what a configured model's listeners are good for.                   *)
(***************************************************************************)
EXTENDS ReadPolicy, FiniteSetTheorems, WellFoundedInduction, TLAPS

-----------------------------------------------------------------------------
(* Configuration.                                                           *)

(* Normal operations: none of them, all of them, or the ones that are named.  *)
LEMMA OpsNormalized ==
  ASSUME NEW ops, ops # Invalid
  PROVE  /\ NormalizeOps(ops) # Invalid <=> ops \in {None, All} \/ (ops # Text /\ ops \subseteq Ops)
         /\ NormalizeOps(ops) # Invalid =>
               NormalizeOps(ops) \in SUBSET Ops /\ NormalizeOps(ops) = IF ops = None THEN {} ELSE IF ops = All THEN Ops ELSE ops
<1>1. {} # Invalid /\ Ops # Invalid
  BY MarkersAssumption
<1>2. CASE ops = None
  BY <1>1, <1>2, MarkersAssumption DEF NormalizeOps
<1>3. CASE ops = All
  BY <1>1, <1>3, MarkersAssumption DEF NormalizeOps
<1>4. CASE ops = Text
  BY <1>4, MarkersAssumption DEF NormalizeOps
<1>5. CASE ops \notin {None, All, Text}
  BY <1>5 DEF NormalizeOps
<1> QED
  BY <1>2, <1>3, <1>4, <1>5

(* An entry is one exactly if its operations and its timeout are good.        *)
LEMMA EntryMade ==
  ASSUME NEW ops, ops = Invalid \/ ops \in SUBSET Ops, NEW timeout
  PROVE  /\ Entry(ops, timeout) # Invalid <=> ops # Invalid /\ Positive(timeout)
         /\ Entry(ops, timeout) # Invalid =>
               Entry(ops, timeout) = [ops |-> ops, timeout |-> timeout] /\ Entry(ops, timeout) \in Entries
<1>1. CASE ops = Invalid \/ ~Positive(timeout)
  BY <1>1 DEF Entry
<1>2. CASE ops # Invalid /\ Positive(timeout)
  <2>1. [ops |-> ops, timeout |-> timeout] \in Entries
    BY <1>2 DEF Entries, Positive
  <2> QED
    BY <1>2, <2>1, MarkersAssumption DEF Entry
<1> QED
  BY <1>1, <1>2

(* The wildcard's entry, and what it takes from the default.                  *)
LEMMA WildcardMade ==
  ASSUME NEW raw, raw \in {None, Text} \/ raw.ops # Invalid, NEW default, Positive(default)
  PROVE  /\ NormalizeWildcard(raw, default) # Invalid <=> EntryGiven(raw, {Absent})
         /\ NormalizeWildcard(raw, default) = None <=> raw = None
         /\ NormalizeWildcard(raw, default) \notin {None, Invalid} =>
               NormalizeWildcard(raw, default) =
                   [ops |-> NormalizeOps(Get(raw.ops, All)), timeout |-> Get(raw.timeout, default)]
         /\ NormalizeWildcard(raw, default) \in {None, Invalid} \cup Entries
<1>1. CASE raw = None
  BY <1>1, MarkersAssumption DEF NormalizeWildcard, EntryGiven
<1>2. CASE raw = Text
  BY <1>2, MarkersAssumption DEF NormalizeWildcard, EntryGiven
<1>3. CASE raw \notin {None, Text}
  <2>1. PICK ops : ops = NormalizeOps(Get(raw.ops, All))
    OBVIOUS
  <2>2. PICK timeout : timeout = Get(raw.timeout, default)
    OBVIOUS
  <2>3. NormalizeWildcard(raw, default) = Entry(ops, timeout)
    BY <1>3, <2>1, <2>2 DEF NormalizeWildcard
  <2>4. Get(raw.ops, All) # Invalid
    BY <1>3, MarkersAssumption DEF Get
  <2>5. /\ ops = Invalid \/ ops \in SUBSET Ops
        /\ ops # Invalid <=> OpsGiven(raw)
    BY <2>1, <2>4, OpsNormalized, MarkersAssumption DEF Get, OpsGiven
  <2>6. Positive(timeout) <=> raw.timeout = Absent \/ Positive(raw.timeout)
    BY <2>2 DEF Get
  <2>7. Entry(ops, timeout) # None
    BY <2>5, EntryMade, MarkersAssumption
  <2> QED
    BY <1>3, <2>1, <2>2, <2>3, <2>5, <2>6, <2>7, EntryMade DEF EntryGiven
<1> QED
  BY <1>1, <1>2, <1>3

(* A model's entry, and what it takes from the wildcard or the default.       *)
Inherited(field, wildcard, default) == IF wildcard = None THEN default ELSE wildcard[field]
LEMMA ModelMade ==
  ASSUME NEW raw, raw \in {None, Text} \/ raw.ops # Invalid, NEW default, Positive(default),
         NEW wildcard \in {None} \cup Entries
  PROVE  /\ NormalizeModel(raw, wildcard, default) # Invalid <=> EntryGiven(raw, {Absent, None})
         /\ NormalizeModel(raw, wildcard, default) = None <=> raw = None
         /\ NormalizeModel(raw, wildcard, default) \notin {None, Invalid} =>
               NormalizeModel(raw, wildcard, default) =
                   [ops |-> IF raw.ops = Absent THEN Inherited("ops", wildcard, Ops) ELSE NormalizeOps(raw.ops),
                    timeout |-> IF raw.timeout \in {Absent, None} THEN Inherited("timeout", wildcard, default)
                                ELSE raw.timeout]
         /\ NormalizeModel(raw, wildcard, default) \in {None, Invalid} \cup Entries
<1>1. CASE raw = None
  BY <1>1, MarkersAssumption DEF NormalizeModel, EntryGiven
<1>2. CASE raw = Text
  BY <1>2, MarkersAssumption DEF NormalizeModel, EntryGiven
<1>3. CASE raw \notin {None, Text}
  <2>1. PICK inherited : inherited = IF wildcard = None THEN [ops |-> All, timeout |-> default] ELSE wildcard
    OBVIOUS
  <2>2. PICK ops : ops = NormalizeOps(Get(raw.ops, inherited.ops))
    OBVIOUS
  <2>3. PICK timeout : timeout = IF raw.timeout \in {Absent, None} THEN inherited.timeout ELSE raw.timeout
    OBVIOUS
  <2>4. NormalizeModel(raw, wildcard, default) = Entry(ops, timeout)
    BY <1>3, <2>1, <2>2, <2>3 DEF NormalizeModel
  <2>5. wildcard # None => wildcard.ops \in SUBSET Ops /\ Positive(wildcard.timeout)
    BY DEF Entries, Positive
  <2>6. inherited.timeout = Inherited("timeout", wildcard, default) /\ Positive(inherited.timeout)
    BY <2>1, <2>5 DEF Inherited
  <2>7. inherited.ops = (IF wildcard = None THEN All ELSE wildcard.ops)
    BY <2>1
  <2>8. inherited.ops # Invalid /\ Get(raw.ops, inherited.ops) # Invalid
    BY <1>3, <2>5, <2>7, MarkersAssumption DEF Get
  <2>9. raw.ops = Absent => ops = Inherited("ops", wildcard, Ops) /\ ops \in SUBSET Ops
    <3>1. CASE wildcard = None
      BY <2>2, <2>7, <3>1, MarkersAssumption DEF Get, NormalizeOps, Inherited
    <3>2. CASE wildcard # None
      BY <2>2, <2>5, <2>7, <3>2, MarkersAssumption DEF Get, NormalizeOps, Inherited
    <3> QED
      BY <3>1, <3>2
  <2>10. raw.ops # Absent => ops = NormalizeOps(raw.ops)
    BY <2>2 DEF Get
  <2>11. /\ ops = Invalid \/ ops \in SUBSET Ops
         /\ ops # Invalid <=> OpsGiven(raw)
    BY <1>3, <2>9, <2>10, OpsNormalized, MarkersAssumption DEF OpsGiven
  <2>12. Positive(timeout) <=> raw.timeout \in {Absent, None} \/ Positive(raw.timeout)
    BY <2>3, <2>6
  <2>13. Entry(ops, timeout) # None
    BY <2>11, EntryMade, MarkersAssumption
  <2> QED
    BY <1>3, <2>3, <2>4, <2>6, <2>9, <2>10, <2>11, <2>12, <2>13, EntryMade DEF EntryGiven
<1> QED
  BY <1>1, <1>2, <1>3

(* The manager that configure returns, and when it returns one.               *)
Star(models) == IF "*" \in DOMAIN models THEN models["*"] ELSE None
LEMMA ManagerMade ==
  ASSUME NEW a \in Inputs, NEW mgr, mgr = Configured(a)
  PROVE  /\ mgr # Invalid <=> Acceptable(a)
         /\ mgr # Invalid =>
               /\ Positive(a.timeout) /\ mgr.timeout = a.timeout
               /\ mgr.wildcard = NormalizeWildcard(Star(a.models), a.timeout) /\ mgr.wildcard \in {None} \cup Entries
               /\ DOMAIN mgr.entries = DOMAIN a.models /\ DOMAIN a.models \subseteq Paths \ Malformed
               /\ \A p \in DOMAIN a.models :
                     /\ mgr.entries[p] = NormalizeModel(a.models[p], mgr.wildcard, a.timeout)
                     /\ mgr.entries[p] \in {None} \cup Entries
<1>1. CASE ~Positive(a.timeout) \/ ~BackendAccepted(a.backend)
  BY <1>1 DEF Configured, BackendAccepted, Acceptable
<1>2. CASE Positive(a.timeout) /\ BackendAccepted(a.backend)
  <2>1. PICK default : default = a.timeout
    OBVIOUS
  <2>2. PICK wildcard : wildcard = NormalizeWildcard(Star(a.models), default)
    OBVIOUS
  <2>3. PICK entries : entries = [p \in DOMAIN a.models |-> NormalizeModel(a.models[p], wildcard, default)]
    OBVIOUS
  <2>4. mgr = IF \/ DOMAIN a.models = {} \/ DOMAIN a.models \cap Malformed # {}
                 \/ wildcard = Invalid \/ \E p \in DOMAIN a.models : entries[p] = Invalid
              THEN Invalid
              ELSE [entries |-> entries, wildcard |-> wildcard, timeout |-> default]
    BY <1>2, <2>1, <2>2, <2>3 DEF Configured, NormalizeModels, Star
  <2>5. /\ Star(a.models) \in {None, Text} \/ Star(a.models).ops # Invalid
        /\ \A p \in DOMAIN a.models : a.models[p] \in {None, Text} \/ a.models[p].ops # Invalid
        /\ DOMAIN a.models \subseteq Paths
    BY InputsAssumption DEF Star
  <2>6. /\ wildcard # Invalid <=> EntryGiven(Star(a.models), {Absent})
        /\ wildcard \in {None, Invalid} \cup Entries
    BY <1>2, <2>1, <2>2, <2>5, WildcardMade
  <2>7. wildcard # Invalid <=> ("*" \in DOMAIN a.models => EntryGiven(a.models["*"], {Absent}))
    BY <2>6 DEF Star, EntryGiven
  <2>8. ASSUME wildcard # Invalid, NEW p \in DOMAIN a.models
        PROVE  /\ entries[p] # Invalid <=> EntryGiven(a.models[p], {Absent, None})
               /\ entries[p] \in {None, Invalid} \cup Entries
    <3>1. entries[p] = NormalizeModel(a.models[p], wildcard, default)
      BY <2>3, <2>8
    <3>2. /\ a.models[p] \in {None, Text} \/ a.models[p].ops # Invalid
          /\ Positive(default) /\ wildcard \in {None} \cup Entries
      BY <1>2, <2>1, <2>5, <2>6, <2>8
    <3> QED
      BY <3>1, <3>2, ModelMade
  <2>9. wildcard # Invalid /\ (\A p \in DOMAIN a.models : entries[p] # Invalid)
        <=> \A p \in DOMAIN a.models : EntryGiven(a.models[p], IF p = "*" THEN {Absent} ELSE {Absent, None})
    BY <2>7, <2>8 DEF EntryGiven
  <2>10. ASSUME \A p \in DOMAIN a.models : EntryGiven(a.models[p], IF p = "*" THEN {Absent} ELSE {Absent, None}),
                DOMAIN a.models # {}, DOMAIN a.models \cap Malformed = {}
         PROVE  mgr # Invalid /\ mgr = [entries |-> entries, wildcard |-> wildcard, timeout |-> default]
    <3>1. wildcard # Invalid /\ \A p \in DOMAIN a.models : entries[p] # Invalid
      BY <2>9, <2>10
    <3>2. mgr = [entries |-> entries, wildcard |-> wildcard, timeout |-> default]
      BY <2>4, <2>10, <3>1
    <3>3. entries \in [DOMAIN a.models -> {None} \cup Entries]
      BY <2>3, <2>8, <3>1
    <3>4. DOMAIN a.models \in SUBSET (Paths \ Malformed)
      BY <2>5, <2>10
    <3>5. mgr \in Managers
      BY <1>2, <2>1, <2>6, <3>1, <3>2, <3>3, <3>4 DEF Managers, Positive
    <3> QED
      BY <3>2, <3>5, MarkersAssumption
  <2>11. mgr # Invalid <=> Acceptable(a)
    BY <1>2, <2>4, <2>9, <2>10 DEF Acceptable, BackendAccepted
  <2>12. ASSUME mgr # Invalid
         PROVE  /\ Positive(a.timeout) /\ mgr.timeout = a.timeout
                /\ mgr.wildcard = NormalizeWildcard(Star(a.models), a.timeout) /\ mgr.wildcard \in {None} \cup Entries
                /\ DOMAIN mgr.entries = DOMAIN a.models /\ DOMAIN a.models \subseteq Paths \ Malformed
                /\ \A p \in DOMAIN a.models :
                      /\ mgr.entries[p] = NormalizeModel(a.models[p], mgr.wildcard, a.timeout)
                      /\ mgr.entries[p] \in {None} \cup Entries
    <3>1. /\ mgr = [entries |-> entries, wildcard |-> wildcard, timeout |-> default]
          /\ wildcard # Invalid /\ DOMAIN a.models \cap Malformed = {}
          /\ \A p \in DOMAIN a.models : entries[p] # Invalid
      BY <2>4, <2>12
    <3>2. mgr.entries = entries /\ mgr.wildcard = wildcard /\ mgr.timeout = default
      BY <3>1
    <3> QED
      BY <1>2, <2>1, <2>2, <2>3, <2>5, <2>6, <2>8, <3>1, <3>2
  <2> QED
    BY <2>11, <2>12
<1> QED
  BY <1>1, <1>2

(* The listeners are those of the configuration that was given; what the      *)
(* handler has cached depends on no eagerly loaded row, and what is cached    *)
(* while nothing is bound is marked so.                                       *)
PolicyKept ==
    /\ args \in Inputs
    /\ manager \in {None, Configured(args)}
    /\ listening # None => manager \notin {None, Invalid} /\ listening = Listeners(manager)
    /\ \A e \in cache : /\ e.via = "handler" => e.asked.eager = {}
                        /\ listening = None => e.via = "unbound"

PInv == PolicyKept /\ TrackedStaysFresh

(* What is configured for a model is what its own entry and the wildcard say. *)
LEMMA EntryMeans ==
  ASSUME PolicyKept, manager \notin {None, Invalid}, NEW m \in Models
  PROVE  /\ ModelConfig(m) \in {None} \cup Entries
         /\ ModelConfig(m) = None <=> Disabled(m)
         /\ ModelConfig(m) # None =>
               /\ ModelConfig(m).ops = OpsMeant(m)
               /\ ModelConfig(m).timeout = Says("timeout", {Absent, None}, m, args.timeout)
<1>1. manager = Configured(args) /\ args \in Inputs
  BY DEF PolicyKept
<1>2. PICK models : models = args.models
  OBVIOUS
<1>3. PICK wildcard : wildcard = manager.wildcard
  OBVIOUS
<1>4. PICK own : own = PathOf[m]
  OBVIOUS
<1>5. own # "*"
  BY <1>4, PathsAssumption
<1>6. /\ Positive(args.timeout)
      /\ wildcard = NormalizeWildcard(Star(models), args.timeout) /\ wildcard \in {None} \cup Entries
      /\ DOMAIN manager.entries = DOMAIN models
      /\ \A p \in DOMAIN models :
            /\ manager.entries[p] = NormalizeModel(models[p], wildcard, args.timeout)
            /\ manager.entries[p] \in {None} \cup Entries
  BY <1>1, <1>2, <1>3, ManagerMade
<1>7. \A p \in DOMAIN models : models[p] \in {None, Text} \/ models[p].ops # Invalid
  BY <1>1, <1>2, InputsAssumption
<1>8. Star(models) \in {None, Text} \/ Star(models).ops # Invalid
  BY <1>7 DEF Star
<1>9. /\ wildcard = None <=> Star(models) = None
      /\ wildcard # None => /\ wildcard.ops = NormalizeOps(Get(Star(models).ops, All))
                            /\ wildcard.timeout = Get(Star(models).timeout, args.timeout)
                            /\ Star(models) # Text /\ OpsGiven(Star(models))
                            /\ Star(models).timeout = Absent \/ Positive(Star(models).timeout)
  <2>1. wildcard # Invalid
    BY <1>6, MarkersAssumption
  <2>2. EntryGiven(Star(models), {Absent})
    BY <1>6, <1>8, <2>1, WildcardMade
  <2>3. /\ wildcard = None <=> Star(models) = None
        /\ wildcard # None => wildcard = [ops |-> NormalizeOps(Get(Star(models).ops, All)),
                                         timeout |-> Get(Star(models).timeout, args.timeout)]
    BY <1>6, <1>8, <2>1, WildcardMade
  <2> QED
    BY <2>2, <2>3 DEF EntryGiven
<1>10. Star(models) # None => "*" \in DOMAIN models /\ Star(models) = models["*"]
  BY DEF Star
<1>11. ~Positive(None) /\ ~Positive(Absent)
  BY MarkersAssumption DEF Positive
<1>12. wildcard # None =>
         /\ wildcard.timeout = IF Speaks("*", "timeout", {Absent, None}) THEN models["*"].timeout ELSE args.timeout
         /\ wildcard.ops = IF Speaks("*", "ops", {Absent}) THEN NormalizeOps(models["*"].ops) ELSE Ops
  <2> HAVE wildcard # None
  <2>1. "*" \in DOMAIN models /\ Star(models) = models["*"] /\ models["*"] # None
    BY <1>9, <1>10
  <2>2. NormalizeOps(All) = Ops
    BY MarkersAssumption DEF NormalizeOps
  <2> QED
    BY <1>2, <1>9, <1>11, <2>1, <2>2 DEF Speaks, Get
<1>13. wildcard = None => ~Speaks("*", "timeout", {Absent, None}) /\ ~Speaks("*", "ops", {Absent})
  BY <1>2, <1>9 DEF Speaks, Star
<1>14. ASSUME NEW ops, ops # Invalid, NormalizeOps(ops) # Invalid
       PROVE  NormalizeOps(ops) = IF ops = None THEN {} ELSE IF ops = All THEN Ops ELSE ops
  BY <1>14, OpsNormalized
<1>15. CASE own \in DOMAIN models
  <2>1. ModelConfig(m) = manager.entries[own]
    BY <1>4, <1>6, <1>15 DEF ModelConfig
  <2>2. PICK raw : raw = models[own]
    OBVIOUS
  <2>3. raw \in {None, Text} \/ raw.ops # Invalid
    BY <1>7, <1>15, <2>2
  <2>4. ModelConfig(m) = NormalizeModel(raw, wildcard, args.timeout) /\ ModelConfig(m) \in {None} \cup Entries
    BY <1>6, <1>15, <2>1, <2>2
  <2>5. ModelConfig(m) # Invalid
    BY <2>4, MarkersAssumption
  <2>6. Disabled(m) <=> raw = None
    BY <1>2, <1>4, <1>15, <2>2 DEF Disabled
  <2>7. ModelConfig(m) = None <=> raw = None
    BY <1>6, <2>3, <2>4, ModelMade
  <2>8. ASSUME ModelConfig(m) # None
        PROVE  /\ ModelConfig(m).ops = OpsMeant(m)
               /\ ModelConfig(m).timeout = Says("timeout", {Absent, None}, m, args.timeout)
    <3>1. PICK ops : ops = IF raw.ops = Absent THEN Inherited("ops", wildcard, Ops) ELSE NormalizeOps(raw.ops)
      OBVIOUS
    <3>2. PICK timeout : timeout = IF raw.timeout \in {Absent, None} THEN Inherited("timeout", wildcard, args.timeout)
                                   ELSE raw.timeout
      OBVIOUS
    <3>3. ModelConfig(m) = [ops |-> ops, timeout |-> timeout]
      BY <1>6, <2>3, <2>4, <2>5, <2>8, <3>1, <3>2, ModelMade
    <3>4. EntryGiven(raw, {Absent, None}) /\ raw # None
      BY <1>6, <2>3, <2>4, <2>5, <2>7, <2>8, ModelMade
    <3>5. OpsGiven(raw) /\ raw.ops # Invalid
      BY <2>3, <3>4 DEF EntryGiven
    <3>6. /\ Speaks(own, "timeout", {Absent, None}) <=> raw.timeout \notin {Absent, None}
          /\ Speaks(own, "ops", {Absent}) <=> raw.ops # Absent
      BY <1>2, <1>15, <2>2, <3>4 DEF Speaks
    <3>7. timeout = Says("timeout", {Absent, None}, m, args.timeout)
      BY <1>2, <1>4, <1>12, <1>13, <2>2, <3>2, <3>6 DEF Says, Inherited
    <3>8. PICK meant : meant = Says("ops", {Absent}, m, All)
      OBVIOUS
    <3>9. OpsMeant(m) = IF meant = None THEN {} ELSE IF meant = All THEN Ops ELSE meant
      BY <2>6, <2>7, <2>8, <3>8 DEF OpsMeant
    <3>10. CASE raw.ops # Absent
      <4>1. meant = raw.ops
        BY <1>2, <1>4, <2>2, <3>6, <3>8, <3>10 DEF Says
      <4>2. ops = NormalizeOps(raw.ops) /\ NormalizeOps(raw.ops) # Invalid
        BY <3>1, <3>5, <3>10, OpsNormalized DEF OpsGiven
      <4> QED
        BY <1>14, <3>3, <3>5, <3>7, <3>9, <4>1, <4>2
    <3>11. CASE raw.ops = Absent /\ Speaks("*", "ops", {Absent})
      <4>1. meant = models["*"].ops
        BY <1>2, <1>4, <3>6, <3>8, <3>11 DEF Says
      <4>2. wildcard # None /\ models["*"] = Star(models)
        BY <1>9, <1>13, <1>10, <3>11
      <4>3. ops = NormalizeOps(meant)
        BY <1>12, <3>1, <3>11, <4>1, <4>2 DEF Inherited
      <4>4. meant # Invalid /\ NormalizeOps(meant) # Invalid
        <5>1. wildcard.ops # Invalid
          BY <1>6, <4>2, MarkersAssumption DEF Entries
        <5> QED
          BY <1>2, <1>8, <1>9, <1>12, <3>11, <4>1, <4>2, <5>1, MarkersAssumption DEF Speaks
      <4> QED
        BY <1>14, <3>3, <3>7, <3>9, <4>3, <4>4
    <3>12. CASE raw.ops = Absent /\ ~Speaks("*", "ops", {Absent})
      <4>1. meant = All
        BY <1>4, <3>6, <3>8, <3>12 DEF Says
      <4>2. ops = Ops
        BY <1>12, <3>1, <3>12 DEF Inherited
      <4> QED
        BY <3>3, <3>7, <3>9, <4>1, <4>2, MarkersAssumption
    <3> QED
      BY <3>10, <3>11, <3>12
  <2> QED
    BY <2>4, <2>6, <2>7, <2>8
<1>16. CASE own \notin DOMAIN models
  <2>1. ModelConfig(m) = wildcard
    BY <1>3, <1>4, <1>6, <1>16 DEF ModelConfig
  <2>2. Disabled(m) <=> Star(models) = None
    BY <1>2, <1>4, <1>16 DEF Disabled, Star
  <2>3. ~Speaks(own, "timeout", {Absent, None}) /\ ~Speaks(own, "ops", {Absent})
    BY <1>2, <1>16 DEF Speaks
  <2>4. ASSUME wildcard # None
        PROVE  /\ wildcard.ops = OpsMeant(m)
               /\ wildcard.timeout = Says("timeout", {Absent, None}, m, args.timeout)
    <3>1. wildcard.timeout = Says("timeout", {Absent, None}, m, args.timeout)
      BY <1>2, <1>4, <1>12, <2>3, <2>4 DEF Says
    <3>2. PICK meant : meant = Says("ops", {Absent}, m, All)
      OBVIOUS
    <3>3. OpsMeant(m) = IF meant = None THEN {} ELSE IF meant = All THEN Ops ELSE meant
      BY <1>9, <2>2, <2>4, <3>2 DEF OpsMeant
    <3>4. CASE Speaks("*", "ops", {Absent})
      <4>1. meant = models["*"].ops
        BY <1>2, <1>4, <2>3, <3>2, <3>4 DEF Says
      <4>2. wildcard.ops = NormalizeOps(meant) /\ models["*"] = Star(models)
        BY <1>9, <1>10, <1>12, <2>4, <3>4, <4>1
      <4>3. meant # Invalid /\ NormalizeOps(meant) # Invalid
        <5>1. wildcard.ops # Invalid
          BY <1>6, <2>4, MarkersAssumption DEF Entries
        <5> QED
          BY <1>2, <1>8, <1>9, <2>4, <4>1, <4>2, <5>1
      <4> QED
        BY <1>14, <3>1, <3>3, <4>2, <4>3
    <3>5. CASE ~Speaks("*", "ops", {Absent})
      <4>1. meant = All
        BY <1>4, <2>3, <3>2, <3>5 DEF Says
      <4> QED
        BY <1>12, <2>4, <3>1, <3>3, <3>5, <4>1, MarkersAssumption
    <3> QED
      BY <3>4, <3>5
  <2> QED
    BY <1>6, <1>9, <2>1, <2>2, <2>4
<1> QED
  BY <1>15, <1>16

LEMMA PolicyMeans == PolicyKept => ConfigurationMeans
<1> SUFFICES ASSUME PolicyKept, manager # None PROVE ConfigurationMeans
  BY DEF ConfigurationMeans
<1>1. manager = Configured(args) /\ args \in Inputs
  BY DEF PolicyKept
<1>2. manager # Invalid <=> Acceptable(args)
  BY <1>1, ManagerMade
<1>3. ASSUME manager # Invalid, NEW m \in Models
      PROVE  /\ {op \in Ops : IsEnabled(m, op)} = OpsMeant(m)
             /\ ~Disabled(m) => Timeout(m) = Says("timeout", {Absent, None}, m, args.timeout)
  <2>1. /\ ModelConfig(m) \in {None} \cup Entries
        /\ ModelConfig(m) = None <=> Disabled(m)
        /\ ModelConfig(m) # None =>
              /\ ModelConfig(m).ops = OpsMeant(m)
              /\ ModelConfig(m).timeout = Says("timeout", {Absent, None}, m, args.timeout)
    BY <1>3, EntryMeans
  <2>2. CASE ModelConfig(m) = None
    BY <2>1, <2>2 DEF IsEnabled, OpsMeant
  <2>3. CASE ModelConfig(m) # None
    <3>1. ModelConfig(m).ops \subseteq Ops
      BY <2>1, <2>3 DEF Entries
    <3> QED
      BY <2>1, <2>3, <3>1 DEF IsEnabled, Timeout
  <2> QED
    BY <2>2, <2>3
<1> QED
  BY <1>2, <1>3 DEF ConfigurationMeans

(* Every model that some configured path leads to is listened to.             *)
LEMMA ListedListened ==
  ASSUME PolicyKept, listening # None, NEW m \in Models, Listed(m)
  PROVE  m \in listening
<1>1. manager = Configured(args) /\ manager # Invalid /\ listening = Listeners(manager)
  BY DEF PolicyKept
<1>2. DOMAIN manager.entries = DOMAIN args.models
  BY <1>1, ManagerMade DEF PolicyKept
<1>3. PICK p \in DOMAIN args.models : ResolveModel(p) = m
  BY DEF Listed
<1>4. m # None /\ ResolveModel("*") = None
  BY ModelsAssumption, PathsAssumption DEF ResolveModel
<1>5. p \in DOMAIN manager.entries \ {"*"}
  BY <1>2, <1>3, <1>4
<1> QED
  BY <1>1, <1>3, <1>4, <1>5 DEF Listeners

(* An entry of instances alone is tagged with every row that it depends on.   *)
LEMMA InstancesTagged ==
  ASSUME NEW s, \A c \in Range(s.columns) : c.kind = "entity", s.joined = {}, s.eager = {}
  PROVE  DependsOn(s) \subseteq Tagged(s)
BY DEF DependsOn, Rows, AliasedRows, JoinedRows, Tagged, RowsOf, ColumnsOf, Naming, Range

LEMMA PInvInit == Init => PInv
BY DEF Init, PInv, PolicyKept, TrackedStaysFresh

(* A read stores nothing that is old.                                         *)
LEMMA ReadKeeps ==
  ASSUME PInv, NEW s \in Statements, ReadThrough(s) \/ ReadDirect(s) \/ Execute(s)
  PROVE  PInv'
<1>1. UNCHANGED <<args, manager, listening>>
  BY DEF ReadThrough, ReadDirect, Execute
<1>2. \A e \in cache' \ cache : /\ e.old = {} /\ (e.via = "handler" => e.asked.eager = {})
                                /\ listening = None => e.via = "unbound"
  <2>1. CASE ReadThrough(s)
    <3>1. s.eager = {}
      BY <2>1 DEF ReadThrough, Intercepted, HasEagerLoaders
    <3> QED
      BY <2>1, <3>1 DEF ReadThrough, Hit, StoreFor
  <2>2. CASE ReadDirect(s)
    BY <2>2 DEF ReadDirect
  <2>3. CASE Execute(s)
    BY <2>3 DEF Execute, Hit, StoreFor
  <2> QED
    BY <2>1, <2>2, <2>3
<1>3. PolicyKept'
  <2>1. ASSUME NEW e \in cache'
        PROVE  /\ e.via = "handler" => e.asked.eager = {}
               /\ listening = None => e.via = "unbound"
    <3>1. CASE e \in cache
      BY <3>1 DEF PInv, PolicyKept
    <3>2. CASE e \in cache' \ cache
      BY <1>2, <3>2
    <3> QED
      BY <2>1, <3>1, <3>2
  <2>2. args \in Inputs /\ manager \in {None, Configured(args)}
    BY DEF PInv, PolicyKept
  <2>3. listening # None => manager \notin {None, Invalid} /\ listening = Listeners(manager)
    BY DEF PInv, PolicyKept
  <2> QED
    BY <1>1, <2>1, <2>2, <2>3 DEF PolicyKept
<1>4. TrackedStaysFresh'
  <2>1. ASSUME NEW e \in cache',
               \A c \in Range(e.asked.columns) : c.kind = "entity" /\ Listed(c.model),
               e.asked.joined = {}, e.via # "unbound", e.asked.eager = {} \/ e.via = "handler"
        PROVE  e.old = {}
    <3>1. CASE e \in cache
      BY <2>1, <3>1 DEF PInv, TrackedStaysFresh
    <3>2. CASE e \in cache' \ cache
      BY <1>2, <3>2
    <3> QED
      BY <2>1, <3>1, <3>2
  <2> QED
    BY <1>1, <2>1 DEF TrackedStaysFresh, Listed
<1> QED
  BY <1>3, <1>4 DEF PInv

(* What a write leaves: the entries that it does not evict, some of them old. *)
LEMMA WrittenEntry ==
  ASSUME NEW r, Write(r), NEW f \in cache'
  PROVE  \E e \in cache : /\ ~Heard(r) \/ r \notin Tagged(e.asked)
                          /\ f.asked = e.asked /\ f.via = e.via
                          /\ f.old = e.old \cup (DependsOn(e.asked) \cap {r})
<1>1. PICK e \in {e \in cache : ~Heard(r) \/ r \notin Tagged(e.asked)} :
           f = [e EXCEPT !.old = @ \cup (DependsOn(e.asked) \cap {r})]
  BY DEF Write
<1> QED
  BY <1>1

(* A write leaves no entry that shows the row and is tagged with it.          *)
LEMMA WriteKeeps ==
  ASSUME PInv, NEW r \in Database, Write(r)
  PROVE  PInv'
<1>1. UNCHANGED <<args, manager, listening>>
  BY DEF Write
<1>2. \A f \in cache' : \E e \in cache :
         /\ ~Heard(r) \/ r \notin Tagged(e.asked)
         /\ f.asked = e.asked /\ f.via = e.via
         /\ f.old = e.old \cup (DependsOn(e.asked) \cap {r})
  BY WrittenEntry
<1>3. TrackedStaysFresh'
  <2> SUFFICES ASSUME NEW f \in cache',
                      \A c \in Range(f.asked.columns) : c.kind = "entity" /\ Listed(c.model),
                      f.asked.joined = {}, f.via # "unbound", f.asked.eager = {} \/ f.via = "handler"
               PROVE  f.old = {}
    BY <1>1 DEF TrackedStaysFresh, Listed
  <2>1. PICK e \in cache : /\ ~Heard(r) \/ r \notin Tagged(e.asked)
                           /\ f.asked = e.asked /\ f.via = e.via
                           /\ f.old = e.old \cup (DependsOn(e.asked) \cap {r})
    BY <1>2
  <2>2. e.old = {} /\ e.asked.eager = {}
    BY <2>1 DEF PInv, PolicyKept, TrackedStaysFresh
  <2>3. r \notin DependsOn(e.asked)
    <3> SUFFICES ASSUME r \in DependsOn(e.asked) PROVE FALSE
      OBVIOUS
    <3>1. r \in Tagged(e.asked)
      BY <2>1, <2>2, InstancesTagged
    <3>2. PICK c \in Range(e.asked.columns) : c.model = r.of
      BY <3>1 DEF Tagged, RowsOf, ColumnsOf, Range
    <3>3. Listed(r.of) /\ r.of \in Models
      BY <2>1, <3>2, ModelsAssumption
    <3>4. listening # None
      BY <2>1 DEF PInv, PolicyKept
    <3>5. r.of \in listening
      BY <3>3, <3>4, ListedListened DEF PInv
    <3> QED
      BY <2>1, <3>1, <3>4, <3>5 DEF Heard
  <2> QED
    BY <2>1, <2>2, <2>3
<1> QED
  BY <1>1, <1>2, <1>3 DEF PInv, PolicyKept

LEMMA PInvStep == PInv /\ [Next]_vars => PInv'
<1> SUFFICES ASSUME PInv, [Next]_vars PROVE PInv'
  OBVIOUS
<1>1. CASE Configure
  BY <1>1 DEF Configure, PInv, PolicyKept, TrackedStaysFresh, Listed
<1>2. CASE Bind
  BY <1>2 DEF Bind, PInv, PolicyKept, TrackedStaysFresh, Listed
<1>3. ASSUME NEW e \in cache, Expire(e) PROVE PInv'
  BY <1>3 DEF Expire, PInv, PolicyKept, TrackedStaysFresh, Listed
<1>4. CASE UNCHANGED vars
  BY <1>4 DEF vars, PInv, PolicyKept, TrackedStaysFresh, Listed
<1> QED
  BY <1>1, <1>2, <1>3, <1>4, ReadKeeps, WriteKeeps DEF Next

(* Listed models stay fresh (TrackedStaysFresh), the ones that are listed to  *)
(* be disabled and the ones listed under a path that is not theirs included,  *)
(* whatever the wildcard says.                                                *)
THEOREM ListedStayFresh == Spec => []TrackedStaysFresh
<1>1. PInv => TrackedStaysFresh
  BY DEF PInv
<1> QED
  BY <1>1, PInvInit, PInvStep, PTL DEF Spec

-----------------------------------------------------------------------------
(* Answers.                                                                 *)

(* The statement that answers has the key of the one that asked.              *)
Answers ==
    answer = Nothing \/ /\ answer.asked \in Statements /\ answer.by \in Statements
                        /\ CacheKey(answer.by) = CacheKey(answer.asked)
                        /\ answer.op = DetectOperation(answer.asked)

AInv == Answers /\ \A e \in cache : e.asked \in Statements

(* The least of some numbers is one of them.                                  *)
LEMMA MinIsOne ==
  ASSUME NEW S \in SUBSET Nat, S # {}
  PROVE  Min(S) \in S
<1>1. PICK n \in S : \A i \in S : <<i, n>> \notin OpToRel(<, Nat)
  BY NatLessThanWellFounded, WFMin
<1>2. \A i \in S : n <= i
  <2> SUFFICES ASSUME NEW i \in S, i < n PROVE FALSE
    OBVIOUS
  <2>1. <<i, n>> \in Nat \X Nat /\ <<i, n>>[1] < <<i, n>>[2]
    OBVIOUS
  <2>2. <<i, n>> \in OpToRel(<, Nat)
    BY <2>1 DEF OpToRel
  <2> QED
    BY <1>1, <2>2
<1> QED
  BY <1>2 DEF Min

(* Only a lookup by primary key is taken for a "get".                         *)
LEMMA GetIsLookup ==
  ASSUME NEW s \in Statements, DetectOperation(s) = "get"
  PROVE  \E m \in Models : ExtractModels(s) = {m} /\ IsPrimaryKeyLookup(s, m)
<1>1. ASSUME ColumnsOf(s, {"count", "exists"}) # {}
      PROVE  FALSE
  <2>1. PICK special : special = ColumnsOf(s, {"count", "exists"})
    OBVIOUS
  <2>2. special \in SUBSET Nat
    BY <2>1, StatementsAssumption DEF ColumnsOf
  <2>3. Min(special) \in special
    BY <1>1, <2>1, <2>2, MinIsOne
  <2>4. FirstOf(s, {"count", "exists"}).kind \in {"count", "exists"}
    BY <2>1, <2>3 DEF FirstOf, ColumnsOf
  <2> QED
    BY <1>1, <2>4 DEF DetectOperation
<1> QED
  BY <1>1 DEF DetectOperation

(* Statements with the same key have the same result, blanks aside.           *)
LEMMA SameKeySameResult ==
  ASSUME NEW s, NEW t, CacheKey(s) = CacheKey(t), Blankless(s), Blankless(t)
  PROVE  Result(s) = Result(t)
<1>1. StatementToSql(s) = StatementToSql(t) /\ s.parameters = t.parameters
  BY DEF CacheKey
<1>2. /\ s.columns = t.columns /\ s.joined = t.joined
      /\ StatementToSql(s).where = StatementToSql(t).where
  BY <1>1 DEF StatementToSql
<1>3. /\ DOMAIN s.where = DOMAIN t.where
      /\ \A i \in DOMAIN s.where : Compiled(s.where[i]) = Compiled(t.where[i])
  <2>1. ASSUME NEW u
        PROVE  /\ DOMAIN StatementToSql(u).where = DOMAIN u.where
               /\ \A i \in DOMAIN u.where : StatementToSql(u).where[i] = Compiled(u.where[i])
    BY DEF StatementToSql
  <2>2. PICK w : w = StatementToSql(s).where
    OBVIOUS
  <2>3. DOMAIN w = DOMAIN s.where /\ \A i \in DOMAIN w : w[i] = Compiled(s.where[i])
    BY <2>1, <2>2
  <2>4. DOMAIN w = DOMAIN t.where /\ \A i \in DOMAIN w : w[i] = Compiled(t.where[i])
    BY <1>2, <2>1, <2>2
  <2> QED
    BY <2>3, <2>4
<1>4. ASSUME NEW i \in DOMAIN s.where
      PROVE  /\ s.where[i].model = t.where[i].model /\ s.where[i].key = t.where[i].key
             /\ s.where[i].op = t.where[i].op /\ s.where[i].against = t.where[i].against
             /\ s.where[i].value = t.where[i].value
  <2>1. PICK c : c = s.where[i]
    OBVIOUS
  <2>2. PICK d : d = t.where[i]
    OBVIOUS
  <2>3. Compiled(c) = Compiled(d)
    BY <1>3, <2>1, <2>2
  <2>4. c.model = d.model /\ c.key = d.key /\ c.op = d.op /\ c.against = d.against
    BY <2>3 DEF Compiled
  <2>5. c.against = "literal" => Squeezed[c.value] = c.value /\ Squeezed[d.value] = d.value
    BY <1>3, <2>1, <2>2, <2>4 DEF Blankless, Comparisons, Range
  <2>6. c.value = d.value
    BY <2>3, <2>4, <2>5 DEF Compiled
  <2> QED
    BY <2>1, <2>2, <2>4, <2>6
<1>5. \A r : Satisfies(r, s) <=> Satisfies(r, t)
  <2>1. \A r : \A i \in DOMAIN s.where : Value(s.where[i], r, s) = Value(t.where[i], r, t)
    BY <1>1, <1>4 DEF Value
  <2> QED
    BY <1>3, <1>4, <2>1 DEF Satisfies, Comparisons, Range
<1>6. \A kinds : ColumnsOf(s, kinds) = ColumnsOf(t, kinds)
  BY <1>2 DEF ColumnsOf
<1>7. \A kinds : RowsOf(s, kinds) = RowsOf(t, kinds)
  BY <1>2, <1>5, <1>6 DEF RowsOf
<1>8. AliasedRows(s) = AliasedRows(t) /\ JoinedRows(s) = JoinedRows(t)
  BY <1>2, <1>5, <1>6 DEF AliasedRows, JoinedRows
<1> QED
  BY <1>2, <1>7, <1>8 DEF Result, Rows

(* A lookup by primary key whose criteria compare columns of its model with   *)
(* values finds one row.                                                      *)
LEMMA LookupFindsOneRow ==
  ASSUME NEW s, NEW m \in Models, ExtractModels(s) = {m}, IsPrimaryKeyLookup(s, m),
         \A c \in Comparisons(s) : c.model = m /\ c.against # "column"
  PROVE  Cardinality(RowsOf(s, Naming)) <= 1
<1>1. \A r \in RowsOf(s, Naming) : r \in Database /\ Satisfies(r, s) /\ r.of = m
  BY DEF RowsOf, ExtractModels
<1>2. ASSUME NEW r \in RowsOf(s, Naming), NEW c \in Comparisons(s)
      PROVE  r.at[c.key] = Value(c, r, s)
  BY <1>1 DEF Satisfies, IsPrimaryKeyLookup
<1>3. \A k \in PrimaryKey[m] : \E c \in Comparisons(s) : c.key = k
  BY DEF IsPrimaryKeyLookup
<1>4. ASSUME NEW q \in RowsOf(s, Naming), NEW r \in RowsOf(s, Naming)
      PROVE  q = r
  <2>1. \A c \in Comparisons(s) : Value(c, q, s) = Value(c, r, s)
    BY DEF Value
  <2>2. \A k \in PrimaryKey[m] : q.at[k] = r.at[k]
    BY <1>2, <1>3, <2>1
  <2> QED
    BY <1>1, <2>2, KeysAssumption
<1>5. CASE RowsOf(s, Naming) = {}
  BY <1>5, FS_EmptySet
<1>6. CASE RowsOf(s, Naming) # {}
  <2>1. PICK r : RowsOf(s, Naming) = {r}
    BY <1>4, <1>6
  <2> QED
    <3>1. Cardinality({r}) = 1
      BY FS_Singleton
    <3> QED
      BY <2>1, <3>1
<1> QED
  BY <1>5, <1>6

LEMMA AInvInit == Init => AInv
BY DEF Init, AInv, Answers

LEMMA AInvStep == AInv /\ [Next]_vars => AInv'
<1> SUFFICES ASSUME AInv, [Next]_vars PROVE AInv'
  OBVIOUS
<1>1. CASE Configure
  BY <1>1 DEF Configure, AInv, Answers
<1>2. CASE Bind
  BY <1>2 DEF Bind, AInv, Answers
<1>3. ASSUME NEW s \in Statements, ReadThrough(s) \/ ReadDirect(s) \/ Execute(s)
      PROVE  AInv'
  <2>1. CASE Hit(s)
    BY <2>1 DEF Hit, Found, Answered, AInv, Answers
  <2>2. ASSUME NEW via, NEW timeout, StoreFor(s, via, timeout)
        PROVE  AInv'
    BY <2>2 DEF StoreFor, Answered, AInv, Answers
  <2>3. CASE Answered(s, s) /\ UNCHANGED cache
    BY <2>3 DEF Answered, AInv, Answers
  <2> QED
    BY <1>3, <2>1, <2>2, <2>3 DEF ReadThrough, ReadDirect, Execute
<1>4. ASSUME NEW r \in Database, Write(r)
      PROVE  AInv'
  <2>1. \A f \in cache' : \E e \in cache : f.asked = e.asked
    BY <1>4, WrittenEntry
  <2>2. UNCHANGED answer
    BY <1>4 DEF Write
  <2> QED
    BY <2>1, <2>2 DEF AInv, Answers
<1>5. ASSUME NEW e \in cache, Expire(e)
      PROVE  AInv'
  BY <1>5 DEF Expire, AInv, Answers
<1>6. CASE UNCHANGED vars
  BY <1>6 DEF vars, AInv, Answers
<1> QED
  BY <1>1, <1>2, <1>3, <1>4, <1>5, <1>6 DEF Next

(* A hit answers the statement that was asked: whichever statements share its *)
(* key mean the same, literals with runs of blanks in them aside.             *)
THEOREM HitsAnswerTheAsked == Spec => []HitsAnswer
<1>1. AInv => HitsAnswer
  BY SameKeySameResult DEF AInv, Answers, HitsAnswer
<1> QED
  BY <1>1, AInvInit, AInvStep, PTL DEF Spec

(* What the code takes for a "get", and caches if "get" is enabled, finds one *)
(* row of its model at most, composite keys included, as long as its criteria *)
(* compare columns of that model with values, which the code does not ask.    *)
THEOREM GetsFindOne == Spec => []GetsFindOneRow
<1>1. ASSUME AInv
      PROVE  GetsFindOneRow
  <2> SUFFICES ASSUME answer.op = "get",
                      \A c \in Comparisons(answer.asked) :
                          {c.model} = ExtractModels(answer.asked) /\ c.against # "column"
               PROVE  Cardinality(RowsOf(answer.asked, Naming)) <= 1
    BY DEF GetsFindOneRow
  <2>1. answer # Nothing
    BY MarkersAssumption DEF Nothing, Ops
  <2>2. answer.asked \in Statements /\ DetectOperation(answer.asked) = "get"
    BY <1>1, <2>1 DEF AInv, Answers
  <2>3. PICK m \in Models : ExtractModels(answer.asked) = {m} /\ IsPrimaryKeyLookup(answer.asked, m)
    BY <2>2, GetIsLookup
  <2> QED
    BY <2>3, LookupFindsOneRow
<1> QED
  BY <1>1, AInvInit, AInvStep, PTL DEF Spec

-----------------------------------------------------------------------------
(* The theorems about the configuration, and the types.                     *)

(* Whatever configure is given, it rejects it exactly if it has no meaning,   *)
(* and the manager caches of each model what its entry and the wildcard mean. *)
THEOREM ConfigurationHasItsMeaning == Spec => []ConfigurationMeans
<1>1. PInv => ConfigurationMeans
  BY PolicyMeans DEF PInv
<1> QED
  BY <1>1, PInvInit, PInvStep, PTL DEF Spec

(* The backend is finite, what it holds expires, and what it shows is known.  *)
Held ==
    /\ IsFiniteSet(cache) /\ Cardinality(cache) <= MaxEntries
    /\ \A e \in cache : e.expire \in Nat \ {0} /\ e.old \subseteq DependsOn(e.asked)

LEMMA TimeoutPositive ==
  ASSUME PolicyKept, manager \notin {None, Invalid}, NEW m
  PROVE  Timeout(m) \in Nat \ {0}
<1>1. /\ Positive(args.timeout) /\ manager.timeout = args.timeout
      /\ manager.wildcard \in {None} \cup Entries
      /\ DOMAIN manager.entries = DOMAIN args.models
      /\ \A p \in DOMAIN args.models : manager.entries[p] \in {None} \cup Entries
  BY ManagerMade DEF PolicyKept
<1>2. ModelConfig(m) \in {None} \cup Entries
  BY <1>1 DEF ModelConfig
<1> QED
  BY <1>1, <1>2 DEF Timeout, Entries, Positive

LEMMA HeldInit == Init => Held
BY FS_EmptySet, BoundAssumption DEF Init, Held

LEMMA HeldStep ==
  ASSUME Held, PolicyKept, [Next]_vars
  PROVE  Held'
<1>1. CASE UNCHANGED cache
  BY <1>1 DEF Held
<1>2. ASSUME NEW s, NEW via, NEW m, manager \notin {None, Invalid}, StoreFor(s, via, Timeout(m))
      PROVE  Held'
  <2>1. PICK timeout : timeout = Timeout(m)
    OBVIOUS
  <2>2. timeout \in Nat \ {0}
    BY <1>2, <2>1, TimeoutPositive
  <2>3. PICK e : e = [asked |-> s, via |-> via, expire |-> timeout, old |-> {}]
    OBVIOUS
  <2>4. cache' = cache \cup {e} /\ Cardinality(cache) < MaxEntries
    BY <1>2, <2>1, <2>3 DEF StoreFor
  <2>5. IsFiniteSet(cache') /\ Cardinality(cache') <= MaxEntries
    <3>1. /\ IsFiniteSet(cache \cup {e})
          /\ Cardinality(cache \cup {e}) = IF e \in cache THEN Cardinality(cache) ELSE Cardinality(cache) + 1
      BY FS_AddElement DEF Held
    <3>2. Cardinality(cache) \in Nat
      BY FS_CardinalityType DEF Held
    <3>3. Cardinality(cache \cup {e}) <= MaxEntries
      BY <2>4, <3>1, <3>2, BoundAssumption
    <3> QED
      BY <2>4, <3>1, <3>3
  <2> QED
    BY <2>2, <2>3, <2>4, <2>5 DEF Held
<1>3. ASSUME NEW r \in Database, Write(r)
      PROVE  Held'
  <2>1. PICK kept : kept = {e \in cache : ~Heard(r) \/ r \notin Tagged(e.asked)}
    OBVIOUS
  <2>2. PICK older : older = [e \in kept |-> [e EXCEPT !.old = @ \cup (DependsOn(e.asked) \cap {r})]]
    OBVIOUS
  <2>3. cache' = {older[e] : e \in kept}
    BY <1>3, <2>1, <2>2 DEF Write
  <2>4. older \in Surjection(kept, cache')
    BY <2>2, <2>3 DEF Surjection
  <2>5. IsFiniteSet(kept) /\ Cardinality(kept) <= Cardinality(cache)
    BY <2>1, FS_Subset DEF Held
  <2>6. IsFiniteSet(cache') /\ Cardinality(cache') <= Cardinality(kept)
    BY <2>4, <2>5, FS_Surjection
  <2>7. ASSUME NEW e \in kept
        PROVE  older[e].expire \in Nat \ {0} /\ older[e].old \subseteq DependsOn(older[e].asked)
    <3>1. e \in cache /\ e.expire \in Nat \ {0} /\ e.old \subseteq DependsOn(e.asked)
      BY <2>1, <2>7 DEF Held
    <3>2. older[e] = [e EXCEPT !.old = @ \cup (DependsOn(e.asked) \cap {r})]
      BY <2>2, <2>7
    <3> QED
      BY <3>1, <3>2
  <2>8. Cardinality(cache') <= MaxEntries
    BY <2>5, <2>6, FS_CardinalityType, BoundAssumption DEF Held
  <2> QED
    BY <2>3, <2>6, <2>7, <2>8 DEF Held
<1>4. ASSUME NEW e \in cache, Expire(e)
      PROVE  Held'
  <2>1. cache' = cache \ {e}
    BY <1>4 DEF Expire
  <2>2. IsFiniteSet(cache') /\ Cardinality(cache') <= Cardinality(cache)
    BY <2>1, FS_Subset DEF Held
  <2>3. Cardinality(cache') <= MaxEntries
    BY <2>2, FS_CardinalityType, BoundAssumption DEF Held
  <2> QED
    BY <2>1, <2>2, <2>3 DEF Held
<1>5. ASSUME NEW s \in Statements, ReadThrough(s) \/ ReadDirect(s) \/ Execute(s)
      PROVE  Held'
  <2>1. listening # None => manager \notin {None, Invalid}
    BY DEF PolicyKept
  <2> QED
    BY <1>1, <1>2, <1>5, <2>1 DEF ReadThrough, ReadDirect, Execute, Hit
<1> QED
  BY <1>1, <1>3, <1>4, <1>5 DEF Next, Configure, Bind, vars

(* The types, with the entries of the manager and the listeners (TypeOK).     *)
THEOREM PolicyTypes == Spec => []TypeOK
<1>1. Init => PInv /\ AInv /\ Held
  BY PInvInit, AInvInit, HeldInit
<1>2. PInv /\ AInv /\ Held /\ [Next]_vars => (PInv /\ AInv /\ Held)'
  BY PInvStep, AInvStep, HeldStep DEF PInv
<1>3. ASSUME PInv, AInv, Held
      PROVE  TypeOK
  <2>1. args \in Inputs
    BY <1>3 DEF PInv, PolicyKept
  <2>2. ASSUME manager \notin {None, Invalid}
        PROVE  /\ DOMAIN manager.entries \subseteq Paths \ Malformed
               /\ Range(manager.entries) \cup {manager.wildcard} \subseteq {None} \cup Entries
               /\ manager.timeout \in Nat \ {0}
    BY <1>3, <2>1, <2>2, ManagerMade DEF PInv, PolicyKept, Range, Positive
  <2>3. listening = None \/ listening \subseteq Models
    <3> SUFFICES ASSUME listening # None PROVE listening \subseteq Models
      OBVIOUS
    <3>1. listening = Listeners(manager) /\ DOMAIN manager.entries \subseteq Paths
      BY <1>3, <2>2 DEF PInv, PolicyKept
    <3> QED
      BY <3>1, PathsAssumption DEF Listeners, ResolveModel
  <2> QED
    BY <1>3, <2>1, <2>2, <2>3 DEF TypeOK, AInv, Answers, Held
<1> QED
  BY <1>1, <1>2, <1>3, PTL DEF Spec

=============================================================================
