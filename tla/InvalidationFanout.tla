-------------------------- MODULE InvalidationFanout --------------------------
(***************************************************************************)
(* The workers that share one Redis: its cache, its table counters and the *)
(* channel on which each tells the others what it invalidated.             *)
(*                                                                         *)
(* A step is what runs between two awaits of _apply_pending, invalidate or *)
(* on_invalidate: one delete_tags, one incr, one publish.  The channel     *)
(* delivers a message to those who are subscribed at that moment, in order *)
(* and at most once.  A lookup and the fill that follows it are one step:  *)
(* fills that are overtaken by a commit are the subject of SessionCache.   *)
(***************************************************************************)
EXTENDS Integers, Sequences, FiniteSets

CONSTANTS
    Workers,    \* bound CacheManagers, each with its origin id and its listener
    Tasks,      \* the tasks that commit or call invalidate
    Home,       \* the worker of a task
    Rows,       \* primary keys, of all tables
    Composite,  \* those that are tuples
    Tables,     \* __tablename__ of the models
    TableOf,    \* the table of a row
    Nobody,     \* the origin and the table of a message that names none
    Requests,   \* what a commit has recorded, or invalidate is given: rows and tables
    MaxCalls,   \* bound: commits, invalidations and foreign messages
    MaxFaults   \* bound: failures of the transport or of the network

ASSUME WorkersAssumption == IsFiniteSet(Workers) /\ Home \in [Tasks -> Workers]
ASSUME RowsAssumption == Composite \subseteq Rows /\ TableOf \in [Rows -> Tables]
ASSUME RequestsAssumption ==
    Requests \subseteq {q \in [rows : SUBSET Rows, tables : SUBSET Tables] : \A r \in q.rows : TableOf[r] \notin q.tables}
ASSUME NobodyAssumption == Nobody \notin Workers \cup Tables
ASSUME BoundsAssumption == MaxCalls \in Nat /\ MaxFaults \in Nat

VARIABLES
    onError,    \* what the transports do with an error: suppress it or raise it
    entry,      \* entry[r]: what a lookup finds of row r: nothing, or an entry that is
                \* fresh, or one that is older than an invalidation of the row
    version,    \* version[t]: the table-version counter
    job,        \* job[k]: what task k has still to apply, and the number of its call
    sending,    \* sending[k]: the event that task k is publishing, if any
    link,       \* link[w]: the listener of w is subscribed or not
    queue,      \* queue[w]: messages sent to w that its listener has not handled
    calls,      \* calls so far, which numbers them; an event from outside that is
                \* applied counts as one
    strays,     \* foreign messages so far that are not applied
    faults,     \* failures so far
    bulk,       \* history: <<t, n>> when call n was to invalidate the whole table t
    bumps       \* history: <<w, <<t, n>>>> when worker w has bumped t for call n

vars == <<onError, entry, version, job, sending, link, queue, calls, strays, faults, bulk, bumps>>
cacheVars == <<entry, version, bumps>>
channelVars == <<link, queue, strays>>

-----------------------------------------------------------------------------
(* _PUBSUB_PROTOCOL_VERSION *)
Protocol == 1

(* Tags and what becomes of a primary key on its way through JSON: a tuple  *)
(* is joined to one string, in the tag and in the event.                    *)

Joined(r) == IF r \in Composite THEN "joined" ELSE "plain"
TagOf(r) == <<r, Joined(r)>>

(* Mutant: tuples travel as the lists that JSON makes of them.                *)
Encoded_List(r) == <<r, IF r \in Composite THEN "list" ELSE "plain">>
Encoded(r) == <<r, Joined(r)>>

Tag == {TagOf(r) : r \in Rows}

Event == [origin : Workers \cup {Nobody}, version : Nat, table : Tables \cup {Nobody},
          pks : SUBSET Tag, call : Nat]

Job == [rows : SUBSET Rows, tables : SUBSET Tables, call : Nat]
Done(n) == [rows |-> {}, tables |-> {}, call |-> n]
IsDone(j) == j.rows = {} /\ j.tables = {}

Init ==
    /\ onError \in {"suppress", "raise"}
    /\ entry = [r \in Rows |-> "none"]
    /\ version = [t \in Tables |-> 0]
    /\ job = [k \in Tasks |-> Done(0)]
    /\ sending = [k \in Tasks |-> {}]
    /\ link = [w \in Workers |-> "up"]
    /\ queue = [w \in Workers |-> <<>>]
    /\ calls = 0 /\ strays = 0 /\ faults = 0
    /\ bulk = {} /\ bumps = {}

-----------------------------------------------------------------------------
(* What a worker does to the shared cache.                                  *)

DropRows(R) == entry' = [r \in Rows |-> IF r \in R THEN "none" ELSE entry[r]]

DeleteTags(tags) ==
    /\ DropRows({r \in Rows : TagOf(r) \in tags})
    /\ UNCHANGED <<version, bumps>>

(* The keys of the table's entries have the old version in them.            *)
Bump(w, t, n) ==
    /\ version' = [version EXCEPT ![t] = @ + 1]
    /\ DropRows({r \in Rows : TableOf[r] = t})
    /\ bumps' = bumps \cup {<<w, <<t, n>>>>}

Fault == faults < MaxFaults /\ faults' = faults + 1

-----------------------------------------------------------------------------
(* Commits and invalidations.                                               *)

(* after_commit hands over the recorded rows, without those of the tables   *)
(* that it invalidates as a whole; invalidate(model, pks) and               *)
(* invalidate(model) are the cases of one table.                            *)
Invalidate(k, q) ==
    /\ IsDone(job[k]) /\ sending[k] = {}
    /\ calls + strays < MaxCalls
    /\ calls' = calls + 1
    /\ job' = [job EXCEPT ![k] = [rows |-> q.rows, tables |-> q.tables, call |-> calls + 1]]
    /\ bulk' = bulk \cup {<<t, calls + 1>> : t \in q.tables}
    /\ entry' = [r \in Rows |-> IF entry[r] = "fresh" /\ (r \in q.rows \/ TableOf[r] \in q.tables)
                                THEN "stale" ELSE entry[r]]
    /\ UNCHANGED <<onError, version, sending, strays, faults, bumps, link, queue>>

RowsOf(k, t) == {r \in job[k].rows : TableOf[r] = t}

(* What is left of the job, and the event that _publish_invalidation sends. *)
RowsApplied(k, t) ==
    /\ sending[k] = {}
    /\ RowsOf(k, t) # {}
    /\ job' = [job EXCEPT ![k] = [rows |-> job[k].rows \ RowsOf(k, t), tables |-> job[k].tables, call |-> job[k].call]]
    /\ sending' = [sending EXCEPT ![k] =
            {[origin |-> Home[k], version |-> Protocol, table |-> t,
              pks |-> {Encoded(r) : r \in RowsOf(k, t)}, call |-> job[k].call]}]
    /\ UNCHANGED <<onError, calls, bulk, channelVars>>

TableApplied(k, t) ==
    /\ sending[k] = {}
    /\ job[k].rows = {}
    /\ t \in job[k].tables
    /\ job' = [job EXCEPT ![k] = [rows |-> {}, tables |-> job[k].tables \ {t}, call |-> job[k].call]]
    /\ sending' = [sending EXCEPT ![k] =
            {[origin |-> Home[k], version |-> Protocol, table |-> t, pks |-> {}, call |-> job[k].call]}]
    /\ UNCHANGED <<onError, calls, bulk, channelVars>>

EvictRows(k, t) ==
    /\ RowsApplied(k, t)
    /\ DeleteTags({TagOf(r) : r \in RowsOf(k, t)})
    /\ UNCHANGED faults

BumpTable(k, t) ==
    /\ TableApplied(k, t)
    /\ Bump(Home[k], t, job[k].call)
    /\ UNCHANGED faults

(* delete_tags or incr fails.  Suppressed, the event is published all the   *)
(* same; otherwise TransportError ends the job, and nothing is published.   *)
EvictionFails(k, t) ==
    /\ Fault
    /\ UNCHANGED cacheVars
    /\ IF onError = "suppress"
       THEN RowsApplied(k, t) \/ TableApplied(k, t)
       ELSE /\ sending[k] = {} /\ ~IsDone(job[k])
            /\ job' = [job EXCEPT ![k] = Done(job[k].call)]
            /\ UNCHANGED <<onError, sending, calls, bulk, channelVars>>

Deliver(m) == queue' = [w \in Workers |-> IF link[w] = "up" THEN Append(queue[w], m) ELSE queue[w]]

(* Mutant: the exception of a failed publish leaves _apply_pending.           *)
PublishFails_Aborts(k) ==
    /\ Fault
    /\ sending[k] # {}
    /\ sending' = [sending EXCEPT ![k] = {}]
    /\ job' = [job EXCEPT ![k] = Done(job[k].call)]
    /\ UNCHANGED <<onError, cacheVars, calls, bulk, channelVars>>

(* publish logs the failure; the job goes on.                               *)
PublishFails(k) ==
    /\ Fault
    /\ sending[k] # {}
    /\ sending' = [sending EXCEPT ![k] = {}]
    /\ UNCHANGED <<onError, cacheVars, job, calls, bulk, channelVars>>

Published(k) ==
    /\ \E m \in sending[k] : Deliver(m)
    /\ sending' = [sending EXCEPT ![k] = {}]
    /\ UNCHANGED <<onError, cacheVars, job, link, calls, strays, faults, bulk>>

-----------------------------------------------------------------------------
(* The listener: _listen_loop and on_invalidate.                            *)

(* Mutant: no origin filter.                                                  *)
Ignored_Echo(w, m) == m.version # Protocol \/ m.table = Nobody

(* Its own event, one of another protocol version, or no event at all.      *)
Ignored(w, m) == m.origin = w \/ m.version # Protocol \/ m.table = Nobody

Apply(w, m) == IF m.pks # {} THEN DeleteTags(m.pks) ELSE Bump(w, m.table, m.call)

Taken(w) ==
    /\ queue[w] # <<>>
    /\ queue' = [queue EXCEPT ![w] = Tail(@)]
    /\ UNCHANGED <<onError, job, sending, link, calls, strays, bulk>>

(* Mutant: whatever goes wrong in a callback ends the connection.             *)
Handle_Poisoned(w) ==
    /\ queue[w] # <<>>
    /\ LET m == Head(queue[w])
       IN  /\ IF Ignored(w, m) THEN UNCHANGED cacheVars ELSE Apply(w, m)
           /\ link' = [link EXCEPT ![w] = IF m.table = Nobody THEN "down" ELSE @]
           /\ queue' = [queue EXCEPT ![w] = IF m.table = Nobody THEN <<>> ELSE Tail(@)]
    /\ UNCHANGED <<onError, job, sending, calls, strays, bulk, faults>>

Handle(w) ==
    /\ Taken(w)
    /\ IF Ignored(w, Head(queue[w])) THEN UNCHANGED cacheVars ELSE Apply(w, Head(queue[w]))
    /\ UNCHANGED faults

(* Its transport fails: suppressed, or logged as an error of the callback.  *)
HandleFails(w) ==
    /\ Taken(w)
    /\ Fault
    /\ UNCHANGED cacheVars

(* The connection is lost, with some of what was on its way.  A message that *)
(* is not UTF-8 has the same effect.                                        *)
LinkLost(w) ==
    /\ Fault
    /\ link[w] = "up"
    /\ link' = [link EXCEPT ![w] = "down"]
    /\ \E n \in 0..Len(queue[w]) : queue' = [queue EXCEPT ![w] = SubSeq(@, 1, n)]
    /\ UNCHANGED <<onError, cacheVars, job, sending, calls, strays, bulk>>

Relinked(w) ==
    /\ link[w] = "down"
    /\ link' = [link EXCEPT ![w] = "up"]
    /\ UNCHANGED <<onError, cacheVars, job, sending, queue, calls, strays, faults, bulk>>

-----------------------------------------------------------------------------
(* Others.                                                                  *)

(* A message on the channel that is no event, which the listener skips or   *)
(* logs as an error of its callback; or one of another protocol version.    *)
Stray(t) ==
    /\ calls + strays < MaxCalls
    /\ strays' = strays + 1
    /\ Deliver([origin |-> Nobody, version |-> IF t = Nobody THEN Protocol ELSE Protocol + 1,
                table |-> t, pks |-> {}, call |-> 0])
    /\ UNCHANGED <<onError, cacheVars, job, sending, link, calls, faults, bulk>>

(* A message that names a table and has no version field.  The listener     *)
(* takes it for one of its own protocol, and nobody here is its origin:     *)
(* every worker applies it, like the event of one more call.                *)
Unversioned(t, R) ==
    /\ calls + strays < MaxCalls
    /\ R \subseteq {r \in Rows : TableOf[r] = t}
    /\ calls' = calls + 1
    /\ bulk' = IF R = {} THEN bulk \cup {<<t, calls + 1>>} ELSE bulk
    /\ Deliver([origin |-> Nobody, version |-> Protocol, table |-> t,
                pks |-> {TagOf(r) : r \in R}, call |-> calls + 1])
    /\ UNCHANGED <<onError, cacheVars, job, sending, link, strays, faults>>

(* A read finds nothing, and caches what the database has.                  *)
Fill(r) ==
    /\ entry[r] = "none"
    /\ entry' = [entry EXCEPT ![r] = "fresh"]
    /\ UNCHANGED <<onError, version, job, sending, link, queue, calls, strays, faults, bulk, bumps>>

(* invalidate_all, which tells nobody: the cache is shared.                 *)
InvalidateAll ==
    /\ DropRows(Rows)
    /\ version' = [t \in Tables |-> 0]
    /\ UNCHANGED <<onError, job, sending, link, queue, calls, strays, faults, bulk, bumps>>

-----------------------------------------------------------------------------
TaskStep(k) ==
    \/ \E t \in Tables : EvictRows(k, t) \/ BumpTable(k, t) \/ EvictionFails(k, t)
    \/ Published(k) \/ PublishFails(k)

ListenerStep(w) == Handle(w) \/ HandleFails(w)

Next ==
    \/ \E k \in Tasks : TaskStep(k) \/ \E q \in Requests : Invalidate(k, q)
    \/ \E w \in Workers : ListenerStep(w) \/ LinkLost(w) \/ Relinked(w)
    \/ InvalidateAll
    \/ \E t \in Tables \cup {Nobody} : Stray(t)
    \/ \E t \in Tables, R \in SUBSET Rows : Unversioned(t, R)
    \/ \E r \in Rows : Fill(r)

Spec == Init /\ [][Next]_vars

(* The event loops resume the tasks whose awaits have ended.                *)
Fairness ==
    /\ \A k \in Tasks : WF_vars(TaskStep(k))
    /\ \A w \in Workers : WF_vars(ListenerStep(w))

FairSpec == Spec /\ Fairness

-----------------------------------------------------------------------------
(* Properties.                                                              *)

(* Types; an event names the task's own worker and table, and its primary     *)
(* keys have the form that they have in tags.                                 *)
TypeOK ==
    /\ onError \in {"suppress", "raise"}
    /\ entry \in [Rows -> {"none", "fresh", "stale"}]
    /\ version \in [Tables -> Nat]
    /\ job \in [Tasks -> Job]
    /\ sending \in [Tasks -> SUBSET Event]
    /\ link \in [Workers -> {"up", "down"}]
    /\ queue \in [Workers -> Seq(Event)]
    /\ calls \in Nat /\ strays \in Nat /\ faults \in 0..MaxFaults
    /\ bulk \subseteq Tables \X (1..calls)
    /\ bumps \subseteq Workers \X bulk

(* on_invalidate filters and does not publish: one invalidation of a table    *)
(* moves its counter once per worker at most, however the events of several   *)
(* commits cross; a row event never does.                                     *)
BumpsBounded ==
    \A t \in Tables :
        version[t] <= Cardinality(Workers) * Cardinality({n \in 1..calls : <<t, n>> \in bulk})

(* Will evict row r, when it comes to it.                                     *)
Owes(k, r) == r \in job[k].rows \/ TableOf[r] \in job[k].tables
Carries(m, r) == m.table = TableOf[r] /\ (m.pks = {} \/ TagOf(r) \in m.pks)
OnItsWay(r) ==
    \/ \E k \in Tasks : Owes(k, r) \/ \E m \in sending[k] : Carries(m, r)
    \/ \E w \in Workers : \E i \in DOMAIN queue[w] : ~Ignored(w, queue[w][i]) /\ Carries(queue[w][i], r)

(* One failure is masked, be it of a task's own eviction, of its publish, of  *)
(* a listener's eviction or connection: an entry older than an invalidation   *)
(* still has somebody who will evict it.                                      *)
StaleOwed == onError = "suppress" /\ MaxFaults <= 1 => \A r \in Rows : entry[r] = "stale" => OnItsWay(r)

(* and is evicted in the end, whatever else is on the channel.                *)
StaleGoes == \A r \in Rows : onError = "suppress" /\ entry[r] = "stale" ~> entry[r] # "stale"

=============================================================================
