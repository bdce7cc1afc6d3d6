----------------------- MODULE InvalidationFanout_proofs -----------------------
(***************************************************************************)
(* The fan-out among any number of workers, tasks, tables and rows.        *)
(***************************************************************************)
EXTENDS InvalidationFanout, FiniteSetTheorems, TLAPS

(* Where an event comes from: a task publishes for its own worker and call,  *)
(* and an event for a whole table belongs to a call that invalidated it.     *)
EventOK(m) == m.table = Nobody \/ m.version # Protocol \/ m.pks # {} \/ <<m.table, m.call>> \in bulk

SentOK(k, m) ==
    /\ m.origin = Home[k] /\ m.version = Protocol
    /\ m.table \in Tables
    /\ m.call = job[k].call
    /\ EventOK(m)

JobOK(k) == \A t \in job[k].tables : <<t, job[k].call>> \in bulk
QueueOK(w) == \A i \in DOMAIN queue[w] : EventOK(queue[w][i])

Known ==
    /\ \A k \in Tasks : JobOK(k) /\ \A m \in sending[k] : SentOK(k, m)
    /\ \A w \in Workers : QueueOK(w)

TInv == TypeOK /\ Known

-----------------------------------------------------------------------------
(* What the shared steps do.                                                  *)

LEMMA BumpTyped ==
  ASSUME TypeOK, NEW w \in Workers, NEW t \in Tables, NEW n, <<t, n>> \in bulk, Bump(w, t, n)
  PROVE  /\ entry' \in [Rows -> {"none", "fresh", "stale"}]
         /\ version' \in [Tables -> Nat]
         /\ bumps' \subseteq Workers \X bulk
<1>1. entry' \in [Rows -> {"none", "fresh", "stale"}]
  BY DEF TypeOK, Bump, DropRows
<1>2. version' \in [Tables -> Nat]
  BY DEF TypeOK, Bump
<1>3. bumps' \subseteq Workers \X bulk
  <2>1. bumps \subseteq Workers \X bulk
    BY DEF TypeOK
  <2>2. bumps' = bumps \cup {<<w, <<t, n>>>>}
    BY DEF Bump
  <2>3. PICK b : b = <<t, n>>
    OBVIOUS
  <2>4. <<w, b>> \in Workers \X bulk
    BY <2>3
  <2> QED
    BY <2>1, <2>2, <2>3, <2>4
<1> QED
  BY <1>1, <1>2, <1>3

LEMMA DeleteTyped ==
  ASSUME TypeOK, NEW tags, DeleteTags(tags)
  PROVE  /\ entry' \in [Rows -> {"none", "fresh", "stale"}]
         /\ version' \in [Tables -> Nat]
         /\ bumps' \subseteq Workers \X bulk
BY DEF TypeOK, DeleteTags, DropRows

(* A task that applies a part of its job, successfully or not.                *)
LEMMA RowsAppliedTyped ==
  ASSUME TInv, NEW k \in Tasks, NEW t \in Tables, RowsApplied(k, t)
  PROVE  /\ job' \in [Tasks -> Job] /\ sending' \in [Tasks -> SUBSET Event]
         /\ Known'
<1>1. job[k] \in Job
  BY DEF TInv, TypeOK
<1>2. job' = [job EXCEPT ![k] = [rows |-> job[k].rows \ RowsOf(k, t), tables |-> job[k].tables, call |-> job[k].call]]
  BY DEF RowsApplied
<1>3. job' \in [Tasks -> Job]
  BY <1>1, <1>2 DEF TInv, TypeOK, Job
<1>4. PICK m : m = [origin |-> Home[k], version |-> Protocol, table |-> t,
                    pks |-> {Encoded(r) : r \in RowsOf(k, t)}, call |-> job[k].call]
  OBVIOUS
<1>5. sending' = [sending EXCEPT ![k] = {m}]
  BY <1>4 DEF RowsApplied
<1>6. m \in Event
  <2>1. {Encoded(r) : r \in RowsOf(k, t)} \subseteq Tag
    BY <1>1 DEF RowsOf, Job, Encoded, Tag, TagOf
  <2>2. Home[k] \in Workers /\ Protocol \in Nat /\ job[k].call \in Nat
    BY <1>1, WorkersAssumption DEF Job, Protocol
  <2> QED
    BY <1>4, <2>1, <2>2 DEF Event
<1>7. sending' \in [Tasks -> SUBSET Event]
  BY <1>5, <1>6 DEF TInv, TypeOK
<1>8. m.pks # {}
  BY <1>4 DEF RowsApplied
<1>9. \A j \in Tasks : job'[j].call = job[j].call /\ job'[j].tables = job[j].tables
  BY <1>2 DEF TInv, TypeOK
<1>10. UNCHANGED <<bulk, queue>>
  BY DEF RowsApplied, channelVars
<1>11. SentOK(k, m)
  BY <1>4, <1>8 DEF SentOK, EventOK
<1>12. \A j \in Tasks : \A e \in sending'[j] : SentOK(j, e)'
  <2> SUFFICES ASSUME NEW j \in Tasks, NEW e \in sending'[j] PROVE SentOK(j, e)'
    OBVIOUS
  <2>1. SentOK(j, e)
    BY <1>5, <1>11 DEF TInv, TypeOK, Known
  <2> QED
    BY <2>1, <1>9, <1>10 DEF SentOK, EventOK
<1>13. \A j \in Tasks : JobOK(j)'
  BY <1>9, <1>10 DEF TInv, Known, JobOK
<1>14. \A w \in Workers : QueueOK(w)'
  BY <1>10 DEF TInv, Known, QueueOK, EventOK
<1> QED
  BY <1>3, <1>7, <1>12, <1>13, <1>14 DEF Known

LEMMA TableAppliedTyped ==
  ASSUME TInv, NEW k \in Tasks, NEW t \in Tables, TableApplied(k, t)
  PROVE  /\ job' \in [Tasks -> Job] /\ sending' \in [Tasks -> SUBSET Event]
         /\ Known'
<1>1. job[k] \in Job
  BY DEF TInv, TypeOK
<1>2. job' = [job EXCEPT ![k] = [rows |-> {}, tables |-> job[k].tables \ {t}, call |-> job[k].call]]
  BY DEF TableApplied
<1>3. job' \in [Tasks -> Job]
  BY <1>1, <1>2 DEF TInv, TypeOK, Job
<1>4. PICK m : m = [origin |-> Home[k], version |-> Protocol, table |-> t, pks |-> {}, call |-> job[k].call]
  OBVIOUS
<1>5. sending' = [sending EXCEPT ![k] = {m}]
  BY <1>4 DEF TableApplied
<1>6. m \in Event
  BY <1>1, <1>4, WorkersAssumption DEF Job, Protocol, Event
<1>7. sending' \in [Tasks -> SUBSET Event]
  BY <1>5, <1>6 DEF TInv, TypeOK
<1>8. <<t, job[k].call>> \in bulk
  BY DEF TableApplied, TInv, Known, JobOK
<1>9. \A j \in Tasks : job'[j].call = job[j].call /\ job'[j].tables \subseteq job[j].tables
  BY <1>2 DEF TInv, TypeOK
<1>10. UNCHANGED <<bulk, queue>>
  BY DEF TableApplied, channelVars
<1>11. SentOK(k, m)
  BY <1>4, <1>8 DEF SentOK, EventOK
<1>12. \A j \in Tasks : \A e \in sending'[j] : SentOK(j, e)'
  <2> SUFFICES ASSUME NEW j \in Tasks, NEW e \in sending'[j] PROVE SentOK(j, e)'
    OBVIOUS
  <2>1. SentOK(j, e)
    BY <1>5, <1>11 DEF TInv, TypeOK, Known
  <2> QED
    BY <2>1, <1>9, <1>10 DEF SentOK, EventOK
<1>13. \A j \in Tasks : JobOK(j)'
  BY <1>9, <1>10 DEF TInv, Known, JobOK
<1>14. \A w \in Workers : QueueOK(w)'
  BY <1>10 DEF TInv, Known, QueueOK, EventOK
<1> QED
  BY <1>3, <1>7, <1>12, <1>13, <1>14 DEF Known

(* A message that is sent to all who listen.                                  *)
LEMMA DeliverTyped ==
  ASSUME TInv, NEW m \in Event, Deliver(m)
  PROVE  /\ queue' \in [Workers -> Seq(Event)]
         /\ \A w \in Workers : \A i \in DOMAIN queue'[w] : EventOK(queue'[w][i]) \/ queue'[w][i] = m
<1>1. \A w \in Workers : queue[w] \in Seq(Event) /\ queue'[w] \in {queue[w], Append(queue[w], m)}
  BY DEF TInv, TypeOK, Deliver
<1>2. queue' \in [Workers -> Seq(Event)]
  BY <1>1 DEF Deliver
<1>3. ASSUME NEW w \in Workers, NEW i \in DOMAIN queue'[w] PROVE EventOK(queue'[w][i]) \/ queue'[w][i] = m
  <2>1. \A j \in DOMAIN queue[w] : EventOK(queue[w][j])
    BY DEF TInv, Known, QueueOK
  <2>2. queue[w] \in Seq(Event) /\ queue'[w] \in {queue[w], Append(queue[w], m)}
    BY <1>1
  <2>3. CASE queue'[w] = queue[w]
    BY <1>3, <2>1, <2>3
  <2>4. CASE queue'[w] = Append(queue[w], m)
    <3>1. i \in 1..(Len(queue[w]) + 1)
      BY <1>3, <2>2, <2>4
    <3>2. CASE i = Len(queue[w]) + 1
      <4>1. queue'[w][i] = m
        BY <2>2, <2>4, <3>2
      <4> QED
        BY <4>1
    <3>3. CASE i \in 1..Len(queue[w])
      <4>1. queue'[w][i] = queue[w][i] /\ i \in DOMAIN queue[w]
        BY <2>2, <2>4, <3>3
      <4> QED
        BY <2>1, <4>1
    <3> QED
      BY <2>2, <3>1, <3>2, <3>3
  <2> QED
    BY <2>2, <2>3, <2>4
<1> QED
  BY <1>2, <1>3

(* The listener's queue gets shorter, at either end.                          *)
Shorter ==
    /\ queue' \in [Workers -> Seq(Event)]
    /\ \A v \in Workers : \A i \in DOMAIN queue'[v] : \E j \in DOMAIN queue[v] : queue'[v][i] = queue[v][j]

LEMMA ShorterTyped ==
  ASSUME TInv, Shorter
  PROVE  \A v \in Workers : \A i \in DOMAIN queue'[v] : EventOK(queue'[v][i])
<1>1. \A v \in Workers : \A j \in DOMAIN queue[v] : EventOK(queue[v][j])
  BY DEF TInv, Known, QueueOK
<1> QED
  BY <1>1 DEF Shorter

LEMMA TailIndices ==
  ASSUME NEW S, NEW q \in Seq(S), q # <<>>
  PROVE  /\ Tail(q) \in Seq(S)
         /\ DOMAIN Tail(q) = 1..(Len(q) - 1)
         /\ \A i \in DOMAIN Tail(q) : i + 1 \in DOMAIN q /\ Tail(q)[i] = q[i + 1]
         /\ 1 \in DOMAIN q /\ Head(q) = q[1] /\ Head(q) \in S
OBVIOUS

LEMMA PrefixIndices ==
  ASSUME NEW S, NEW q \in Seq(S), NEW n \in 0..Len(q)
  PROVE  /\ SubSeq(q, 1, n) \in Seq(S)
         /\ \A i \in DOMAIN SubSeq(q, 1, n) : i \in DOMAIN q /\ SubSeq(q, 1, n)[i] = q[i]
OBVIOUS

-----------------------------------------------------------------------------
(* TInv is inductive.                                                         *)

LEMMA TInvInit == Init => TInv
<1> SUFFICES ASSUME Init PROVE TInv
  OBVIOUS
<1>1. TypeOK
  <2>1. faults \in 0..MaxFaults
    BY BoundsAssumption DEF Init
  <2>2. job \in [Tasks -> Job]
    BY DEF Init, Job, Done
  <2>3. queue \in [Workers -> Seq(Event)]
    BY DEF Init
  <2> QED
    BY <2>1, <2>2, <2>3 DEF Init, TypeOK
<1>2. Known
  BY DEF Init, Known, JobOK, QueueOK, Done
<1> QED
  BY <1>1, <1>2 DEF TInv

LEMMA FaultTyped == TypeOK /\ Fault => faults' \in 0..MaxFaults
BY BoundsAssumption DEF TypeOK, Fault

LEMMA TaskTyped ==
  ASSUME TInv, NEW k \in Tasks, TaskStep(k)
  PROVE  TInv'
<1>1. ASSUME NEW t \in Tables, EvictRows(k, t) PROVE TInv'
  <2>1. PICK tags : tags = {TagOf(r) : r \in RowsOf(k, t)}
    OBVIOUS
  <2>2. DeleteTags(tags) /\ RowsApplied(k, t) /\ UNCHANGED faults
    BY <1>1, <2>1 DEF EvictRows
  <2>3. /\ entry' \in [Rows -> {"none", "fresh", "stale"}]
        /\ version' \in [Tables -> Nat]
        /\ bumps' \subseteq Workers \X bulk
    BY <2>2, DeleteTyped DEF TInv
  <2>4. job' \in [Tasks -> Job] /\ sending' \in [Tasks -> SUBSET Event] /\ Known'
    BY <2>2, RowsAppliedTyped
  <2> QED
    BY <2>2, <2>3, <2>4 DEF TInv, TypeOK, RowsApplied, channelVars
<1>2. ASSUME NEW t \in Tables, BumpTable(k, t) PROVE TInv'
  <2>1. PICK n : n = job[k].call
    OBVIOUS
  <2>2. Bump(Home[k], t, n) /\ TableApplied(k, t) /\ UNCHANGED faults
    BY <1>2, <2>1 DEF BumpTable
  <2>3. <<t, n>> \in bulk
    BY <2>1, <2>2 DEF TInv, Known, JobOK, TableApplied
  <2>4. Home[k] \in Workers
    BY WorkersAssumption
  <2>5. /\ entry' \in [Rows -> {"none", "fresh", "stale"}]
        /\ version' \in [Tables -> Nat]
        /\ bumps' \subseteq Workers \X bulk
    BY <2>2, <2>3, <2>4, BumpTyped DEF TInv
  <2>6. job' \in [Tasks -> Job] /\ sending' \in [Tasks -> SUBSET Event] /\ Known'
    BY <2>2, TableAppliedTyped
  <2> QED
    BY <2>2, <2>5, <2>6 DEF TInv, TypeOK, TableApplied, channelVars
<1>3. ASSUME NEW t \in Tables, EvictionFails(k, t) PROVE TInv'
  <2>1. Fault /\ UNCHANGED <<entry, version, bumps, bulk, onError, link, queue, calls, strays>>
    BY <1>3 DEF EvictionFails, cacheVars, channelVars, RowsApplied, TableApplied
  <2>2. faults' \in 0..MaxFaults
    BY <2>1, FaultTyped DEF TInv
  <2>3. CASE RowsApplied(k, t) \/ TableApplied(k, t)
    <3>1. job' \in [Tasks -> Job] /\ sending' \in [Tasks -> SUBSET Event] /\ Known'
      BY <2>3, RowsAppliedTyped, TableAppliedTyped
    <3> QED
      BY <2>1, <2>2, <3>1 DEF TInv, TypeOK
  <2>4. CASE job' = [job EXCEPT ![k] = Done(job[k].call)] /\ sending' = sending
    <3>1. job \in [Tasks -> Job]
      BY DEF TInv, TypeOK
    <3>2. job' \in [Tasks -> Job] /\ \A j \in Tasks : job'[j].call = job[j].call /\ job'[j].tables \subseteq job[j].tables
      BY <2>4, <3>1 DEF Job, Done
    <3>3. Known'
      BY <2>1, <2>4, <3>2 DEF TInv, Known, JobOK, QueueOK, SentOK, EventOK
    <3> QED
      BY <2>1, <2>2, <2>4, <3>2, <3>3 DEF TInv, TypeOK
  <2> QED
    BY <1>3, <2>3, <2>4 DEF EvictionFails
<1>4. CASE Published(k)
  <2>1. PICK m \in sending[k] : Deliver(m)
    BY <1>4 DEF Published
  <2>2. m \in Event /\ EventOK(m)
    BY DEF TInv, TypeOK, Known, SentOK
  <2>3. UNCHANGED <<onError, entry, version, bumps, job, link, calls, strays, faults, bulk>>
        /\ sending' = [sending EXCEPT ![k] = {}]
    BY <1>4 DEF Published, cacheVars
  <2>4. queue' \in [Workers -> Seq(Event)] /\ \A w \in Workers : \A i \in DOMAIN queue'[w] : EventOK(queue'[w][i])
    BY <2>1, <2>2, DeliverTyped
  <2>5. sending' \in [Tasks -> SUBSET Event] /\ \A j \in Tasks : sending'[j] \subseteq sending[j]
    BY <2>3 DEF TInv, TypeOK
  <2>6. Known'
    BY <2>3, <2>4, <2>5 DEF TInv, Known, JobOK, QueueOK, SentOK, EventOK
  <2> QED
    BY <2>3, <2>4, <2>5, <2>6 DEF TInv, TypeOK
<1>5. CASE PublishFails(k)
  <2>1. UNCHANGED <<onError, entry, version, bumps, job, link, queue, calls, strays, bulk>>
        /\ sending' = [sending EXCEPT ![k] = {}]
    BY <1>5 DEF PublishFails, cacheVars, channelVars
  <2>2. faults' \in 0..MaxFaults
    BY <1>5, FaultTyped DEF TInv, PublishFails
  <2>3. sending' \in [Tasks -> SUBSET Event] /\ \A j \in Tasks : sending'[j] \subseteq sending[j]
    BY <2>1 DEF TInv, TypeOK
  <2>4. Known'
    BY <2>1, <2>3 DEF TInv, Known, JobOK, QueueOK, SentOK, EventOK
  <2> QED
    BY <2>1, <2>2, <2>3, <2>4 DEF TInv, TypeOK
<1> QED
  BY <1>1, <1>2, <1>3, <1>4, <1>5 DEF TaskStep

LEMMA InvalidateTyped ==
  ASSUME TInv, NEW k \in Tasks, NEW q \in Requests, Invalidate(k, q)
  PROVE  TInv'
<1>1. q.rows \subseteq Rows /\ q.tables \subseteq Tables
  BY RequestsAssumption
<1>2. calls \in Nat /\ calls' = calls + 1 /\ calls' \in Nat
  BY DEF TInv, TypeOK, Invalidate
<1>3. job' = [job EXCEPT ![k] = [rows |-> q.rows, tables |-> q.tables, call |-> calls + 1]]
      /\ bulk' = bulk \cup {<<t, calls + 1>> : t \in q.tables} /\ sending[k] = {}
      /\ UNCHANGED <<onError, version, sending, strays, faults, bumps, link, queue>>
  BY DEF Invalidate
<1>4. job' \in [Tasks -> Job]
  BY <1>1, <1>2, <1>3 DEF TInv, TypeOK, Job
<1>5. bulk' \subseteq Tables \X (1..calls')
  <2>1. \A t \in q.tables : <<t, calls + 1>> \in Tables \X (1..calls')
    BY <1>1, <1>2
  <2>2. bulk \subseteq Tables \X (1..calls')
    <3>1. bulk \subseteq Tables \X (1..calls) /\ 1..calls \subseteq 1..calls'
      BY <1>2 DEF TInv, TypeOK
    <3> QED
      BY <3>1
  <2> QED
    BY <1>3, <2>1, <2>2
<1>6. entry' \in [Rows -> {"none", "fresh", "stale"}]
  BY DEF TInv, TypeOK, Invalidate
<1>7. bulk \subseteq bulk'
  BY <1>3
<1>8. bumps' \subseteq Workers \X bulk'
  BY <1>3, <1>7 DEF TInv, TypeOK
<1>9. Known'
  <2>1. \A m : EventOK(m) => EventOK(m)'
    BY <1>7 DEF EventOK
  <2>2. \A j \in Tasks : JobOK(j)'
    <3> SUFFICES ASSUME NEW j \in Tasks PROVE JobOK(j)'
      OBVIOUS
    <3>1. CASE j = k
      <4>1. job'[j].tables = q.tables /\ job'[j].call = calls + 1
        BY <1>3, <3>1 DEF TInv, TypeOK
      <4> QED
        BY <1>3, <4>1 DEF JobOK
    <3>2. CASE j # k
      <4>1. job'[j] = job[j]
        BY <1>3, <3>2 DEF TInv, TypeOK
      <4> QED
        BY <1>7, <4>1 DEF TInv, Known, JobOK
    <3> QED
      BY <3>1, <3>2
  <2>3. \A j \in Tasks : \A m \in sending'[j] : SentOK(j, m)'
    <3> SUFFICES ASSUME NEW j \in Tasks, NEW m \in sending'[j] PROVE SentOK(j, m)'
      OBVIOUS
    <3>1. m \in sending[j] /\ j # k
      BY <1>3
    <3>2. job'[j] = job[j]
      BY <1>3, <3>1 DEF TInv, TypeOK
    <3>3. SentOK(j, m)
      BY <3>1 DEF TInv, Known
    <3> QED
      BY <2>1, <3>2, <3>3 DEF SentOK
  <2>4. \A w \in Workers : QueueOK(w)'
    BY <1>3, <2>1 DEF TInv, Known, QueueOK
  <2> QED
    BY <2>2, <2>3, <2>4 DEF Known
<1> QED
  BY <1>2, <1>3, <1>4, <1>5, <1>6, <1>8, <1>9 DEF TInv, TypeOK

LEMMA ApplyTyped ==
  ASSUME TInv, NEW w \in Workers, NEW m \in Event, EventOK(m), ~Ignored(w, m), Apply(w, m)
  PROVE  /\ entry' \in [Rows -> {"none", "fresh", "stale"}]
         /\ version' \in [Tables -> Nat]
         /\ bumps' \subseteq Workers \X bulk
<1>1. m.table \in Tables /\ m.version = Protocol
  BY DEF Ignored, Event
<1>2. CASE m.pks # {}
  BY <1>2, DeleteTyped DEF Apply, TInv
<1>3. CASE m.pks = {}
  <2>1. <<m.table, m.call>> \in bulk
    BY <1>1, <1>3, NobodyAssumption DEF EventOK
  <2>2. Bump(w, m.table, m.call)
    BY <1>3 DEF Apply
  <2> QED
    BY <1>1, <2>1, <2>2, BumpTyped DEF TInv
<1> QED
  BY <1>2, <1>3

LEMMA TakenTyped ==
  ASSUME TInv, NEW w \in Workers, Taken(w)
  PROVE  /\ queue' \in [Workers -> Seq(Event)] /\ Known'
         /\ UNCHANGED <<onError, job, sending, link, calls, strays, bulk>>
<1>1. queue[w] # <<>> /\ queue' = [queue EXCEPT ![w] = Tail(queue[w])] /\ queue[w] \in Seq(Event)
      /\ UNCHANGED <<onError, job, sending, link, calls, strays, bulk>>
  BY DEF TInv, TypeOK, Taken
<1>2. PICK q : q = Tail(queue[w])
  OBVIOUS
<1>3. q \in Seq(Event) /\ \A i \in DOMAIN q : \E j \in DOMAIN queue[w] : q[i] = queue[w][j]
  BY <1>1, <1>2, TailIndices
<1>q. queue' = [queue EXCEPT ![w] = q]
  BY <1>1, <1>2
<1>s. Shorter
  BY <1>q, <1>3 DEF Shorter, TInv, TypeOK
<1>4. queue' \in [Workers -> Seq(Event)] /\ \A v \in Workers : \A i \in DOMAIN queue'[v] : EventOK(queue'[v][i])
  BY <1>s, ShorterTyped DEF Shorter
<1>5. Known'
  BY <1>1, <1>4 DEF TInv, Known, JobOK, QueueOK, SentOK, EventOK
<1> QED
  BY <1>1, <1>4, <1>5

LEMMA ListenerTyped ==
  ASSUME TInv, NEW w \in Workers, ListenerStep(w) \/ LinkLost(w) \/ Relinked(w)
  PROVE  TInv'
<1>1. CASE Handle(w)
  <2>1. Taken(w) /\ faults' = faults
    BY <1>1 DEF Handle
  <2>2. queue' \in [Workers -> Seq(Event)] /\ Known' /\ UNCHANGED <<onError, job, sending, link, calls, strays, bulk>>
    BY <2>1, TakenTyped
  <2>3. PICK m : m = Head(queue[w])
    OBVIOUS
  <2>4. queue[w] \in Seq(Event) /\ queue[w] # <<>>
    BY <2>1 DEF TInv, TypeOK, Taken
  <2>5. m \in Event /\ EventOK(m)
    BY <2>3, <2>4, TailIndices DEF TInv, Known, QueueOK
  <2>6. /\ entry' \in [Rows -> {"none", "fresh", "stale"}]
        /\ version' \in [Tables -> Nat]
        /\ bumps' \subseteq Workers \X bulk
    <3>1. CASE Ignored(w, m)
      BY <1>1, <2>3, <3>1 DEF Handle, cacheVars, TInv, TypeOK
    <3>2. CASE ~Ignored(w, m)
      <4>1. Apply(w, m)
        BY <1>1, <2>3, <3>2 DEF Handle
      <4> QED
        BY <2>5, <3>2, <4>1, ApplyTyped
    <3> QED
      BY <3>1, <3>2
  <2> QED
    BY <2>1, <2>2, <2>6 DEF TInv, TypeOK
<1>2. CASE HandleFails(w)
  <2>1. Taken(w) /\ Fault /\ UNCHANGED <<entry, version, bumps>>
    BY <1>2 DEF HandleFails, cacheVars
  <2>2. queue' \in [Workers -> Seq(Event)] /\ Known' /\ UNCHANGED <<onError, job, sending, link, calls, strays, bulk>>
    BY <2>1, TakenTyped
  <2>3. faults' \in 0..MaxFaults
    BY <2>1, FaultTyped DEF TInv
  <2> QED
    BY <2>1, <2>2, <2>3 DEF TInv, TypeOK
<1>3. CASE LinkLost(w)
  <2>1. PICK n \in 0..Len(queue[w]) : queue' = [queue EXCEPT ![w] = SubSeq(queue[w], 1, n)]
    BY <1>3 DEF LinkLost
  <2>2. UNCHANGED <<onError, entry, version, bumps, job, sending, calls, strays, bulk>>
        /\ link' = [link EXCEPT ![w] = "down"]
    BY <1>3 DEF LinkLost, cacheVars
  <2>3. faults' \in 0..MaxFaults
    BY <1>3, FaultTyped DEF TInv, LinkLost
  <2>4. PICK q : q = SubSeq(queue[w], 1, n)
    OBVIOUS
  <2>5. queue[w] \in Seq(Event)
    BY DEF TInv, TypeOK
  <2>6. q \in Seq(Event) /\ \A i \in DOMAIN q : \E j \in DOMAIN queue[w] : q[i] = queue[w][j]
    BY <2>4, <2>5, PrefixIndices
  <2>q. queue' = [queue EXCEPT ![w] = q]
    BY <2>1, <2>4
  <2>s. Shorter
    BY <2>q, <2>6 DEF Shorter, TInv, TypeOK
  <2>7. queue' \in [Workers -> Seq(Event)] /\ \A v \in Workers : \A i \in DOMAIN queue'[v] : EventOK(queue'[v][i])
    BY <2>s, ShorterTyped DEF Shorter
  <2>8. Known'
    BY <2>2, <2>7 DEF TInv, Known, JobOK, QueueOK, SentOK, EventOK
  <2> QED
    BY <2>2, <2>3, <2>7, <2>8 DEF TInv, TypeOK
<1>4. CASE Relinked(w)
  <2>1. UNCHANGED <<onError, entry, version, bumps, job, sending, queue, calls, strays, faults, bulk>>
        /\ link' = [link EXCEPT ![w] = "up"]
    BY <1>4 DEF Relinked, cacheVars
  <2>2. Known'
    BY <2>1 DEF TInv, Known, JobOK, QueueOK, SentOK, EventOK
  <2> QED
    BY <2>1, <2>2 DEF TInv, TypeOK
<1> QED
  BY <1>1, <1>2, <1>3, <1>4 DEF ListenerStep

(* An event from outside is numbered like that of a call.                     *)
LEMMA UnversionedTyped ==
  ASSUME TInv, NEW t \in Tables, NEW R \in SUBSET Rows, Unversioned(t, R)
  PROVE  TInv'
<1>1. PICK m : m = [origin |-> Nobody, version |-> Protocol, table |-> t,
                    pks |-> {TagOf(r) : r \in R}, call |-> calls + 1]
  OBVIOUS
<1>2. calls \in Nat /\ calls' = calls + 1 /\ bulk' = (IF R = {} THEN bulk \cup {<<t, calls + 1>>} ELSE bulk)
      /\ Deliver(m) /\ UNCHANGED <<onError, entry, version, bumps, job, sending, link, strays, faults>>
  BY <1>1 DEF Unversioned, cacheVars, TInv, TypeOK
<1>3. m \in Event
  <2>1. {TagOf(r) : r \in R} \subseteq Tag
    BY DEF Tag
  <2> QED
    BY <1>1, <1>2, <2>1 DEF Event, Protocol
<1>4. bulk' \subseteq Tables \X (1..calls') /\ bulk \subseteq bulk'
  <2>1. bulk \subseteq Tables \X (1..calls) /\ 1..calls \subseteq 1..calls'
    BY <1>2 DEF TInv, TypeOK
  <2>2. <<t, calls + 1>> \in Tables \X (1..calls')
    BY <1>2
  <2> QED
    BY <1>2, <2>1, <2>2
<1>5. \A e : EventOK(e) => EventOK(e)'
  BY <1>4 DEF EventOK
<1>6. EventOK(m)'
  <2>1. CASE R = {}
    BY <1>1, <1>2, <2>1 DEF EventOK
  <2>2. CASE R # {}
    BY <1>1, <2>2 DEF EventOK
  <2> QED
    BY <2>1, <2>2
<1>7. /\ queue' \in [Workers -> Seq(Event)]
      /\ \A w \in Workers : \A i \in DOMAIN queue'[w] : EventOK(queue'[w][i]) \/ queue'[w][i] = m
  BY <1>2, <1>3, DeliverTyped
<1>8. \A w \in Workers : QueueOK(w)'
  BY <1>5, <1>6, <1>7 DEF QueueOK
<1>9. Known'
  BY <1>2, <1>4, <1>5, <1>8 DEF TInv, Known, JobOK, SentOK
<1>10. bumps' \subseteq Workers \X bulk'
  BY <1>2, <1>4 DEF TInv, TypeOK
<1> QED
  BY <1>2, <1>4, <1>7, <1>9, <1>10 DEF TInv, TypeOK

LEMMA OthersTyped ==
  ASSUME TInv,
         \/ \E t \in Tables \cup {Nobody} : Stray(t)
         \/ \E t \in Tables, R \in SUBSET Rows : Unversioned(t, R)
         \/ InvalidateAll \/ UNCHANGED vars
         \/ \E r \in Rows : Fill(r)
  PROVE  TInv'
<1>1. ASSUME NEW t \in Tables \cup {Nobody}, Stray(t) PROVE TInv'
  <2>1. PICK m : m = [origin |-> Nobody, version |-> IF t = Nobody THEN Protocol ELSE Protocol + 1,
                      table |-> t, pks |-> {}, call |-> 0]
    OBVIOUS
  <2>2. m \in Event /\ EventOK(m)
    BY <2>1 DEF Event, EventOK, Protocol
  <2>3. Deliver(m) /\ UNCHANGED <<onError, entry, version, bumps, job, sending, link, calls, faults, bulk>>
        /\ strays' = strays + 1
    BY <1>1, <2>1 DEF Stray, cacheVars
  <2>4. queue' \in [Workers -> Seq(Event)] /\ \A w \in Workers : \A i \in DOMAIN queue'[w] : EventOK(queue'[w][i])
    BY <2>2, <2>3, DeliverTyped
  <2>5. Known'
    BY <2>3, <2>4 DEF TInv, Known, JobOK, QueueOK, SentOK, EventOK
  <2> QED
    BY <2>3, <2>4, <2>5 DEF TInv, TypeOK
<1>2. CASE InvalidateAll
  <2>1. Known'
    BY <1>2 DEF InvalidateAll, TInv, Known, JobOK, QueueOK, SentOK, EventOK
  <2> QED
    BY <1>2, <2>1 DEF InvalidateAll, DropRows, TInv, TypeOK
<1>3. CASE UNCHANGED vars
  <2>1. Known'
    BY <1>3 DEF vars, TInv, Known, JobOK, QueueOK, SentOK, EventOK
  <2> QED
    BY <1>3, <2>1 DEF vars, TInv, TypeOK
<1>4. ASSUME NEW r \in Rows, Fill(r) PROVE TInv'
  <2>1. Known'
    BY <1>4 DEF Fill, TInv, Known, JobOK, QueueOK, SentOK, EventOK
  <2> QED
    BY <1>4, <2>1 DEF Fill, TInv, TypeOK
<1> QED
  BY <1>1, <1>2, <1>3, <1>4, UnversionedTyped

LEMMA TInvStep == TInv /\ [Next]_vars => TInv'
BY TaskTyped, InvalidateTyped, ListenerTyped, OthersTyped DEF Next

LEMMA TInvAlways == Spec => []TInv
BY TInvInit, TInvStep, PTL DEF Spec

(* Types; in particular each event names its tags as the entries carry them.  *)
THEOREM FanoutTypes == Spec => []TypeOK
<1>1. TInv => TypeOK
  BY DEF TInv
<1> QED
  BY <1>1, TInvAlways, PTL

-----------------------------------------------------------------------------
(* One failure is masked.                                                     *)

Owed(r) == \E k \in Tasks : Owes(k, r)
InQueue(r) == \E w \in Workers : \E i \in DOMAIN queue[w] : ~Ignored(w, queue[w][i]) /\ Carries(queue[w][i], r)
Travels(r) == (\E k \in Tasks : \E m \in sending[k] : Carries(m, r)) \/ InQueue(r)
AllUp == \A w \in Workers : link[w] = "up"

(* An entry that nobody has on his list was passed over by the one failure:  *)
(* no connection has been lost, so that the event is under way to a peer.    *)
SInv ==
    /\ faults = 0 => AllUp
    /\ \A k \in Tasks : \A m, n \in sending[k] : m = n
    /\ \A r \in Rows : entry[r] = "stale" => Owed(r) \/ (faults = 1 /\ AllUp /\ Travels(r))

OneFault == onError = "suppress" /\ MaxFaults <= 1
Peers == \A w \in Workers : Workers \ {w} # {}

LEMMA SInvInit == Init => SInv
BY DEF Init, SInv, AllUp

(* Nothing happens to the channel and no more is stale than before.           *)
LEMMA QuietKeeps ==
  ASSUME SInv, UNCHANGED <<job, sending, queue, link, faults>>,
         \A r \in Rows : entry'[r] = "stale" => entry[r] = "stale"
  PROVE  SInv'
BY DEF SInv, Owed, Owes, Travels, InQueue, AllUp, Carries, Ignored

(* A failure that leaves the lists alone is the first one.                    *)
LEMMA FaultKeeps ==
  ASSUME TInv, SInv, OneFault, Fault, UNCHANGED <<entry, job>>,
         \A k \in Tasks : sending'[k] \subseteq sending[k]
  PROVE  SInv'
<1>1. faults = 0 /\ faults' = 1
  BY BoundsAssumption DEF Fault, OneFault, TInv, TypeOK
<1>2. \A r \in Rows : entry[r] = "stale" => Owed(r)
  BY <1>1 DEF SInv
<1>3. \A r : Owed(r) => Owed(r)'
  BY DEF Owed, Owes
<1>4. \A k \in Tasks : \A m, n \in sending'[k] : m = n
  BY DEF SInv
<1> QED
  BY <1>1, <1>2, <1>3, <1>4 DEF SInv

LEMMA DeliverKeeps ==
  ASSUME TInv, NEW m, Deliver(m)
  PROVE  /\ \A r : InQueue(r) => InQueue(r)'
         /\ \A w \in Workers : link[w] = "up" => \E i \in DOMAIN queue'[w] : queue'[w][i] = m
<1>1. \A w \in Workers : queue[w] \in Seq(Event) /\ queue'[w] = IF link[w] = "up" THEN Append(queue[w], m) ELSE queue[w]
  BY DEF TInv, TypeOK, Deliver
<1>2. ASSUME NEW w \in Workers, NEW i \in DOMAIN queue[w] PROVE i \in DOMAIN queue'[w] /\ queue'[w][i] = queue[w][i]
  <2>1. queue[w] \in Seq(Event) /\ (queue'[w] = Append(queue[w], m) \/ queue'[w] = queue[w])
    BY <1>1
  <2>2. i \in 1..Len(queue[w])
    BY <1>2, <2>1
  <2> QED
    BY <2>1, <2>2
<1>3. ASSUME NEW w \in Workers, link[w] = "up" PROVE \E i \in DOMAIN queue'[w] : queue'[w][i] = m
  <2>1. queue[w] \in Seq(Event) /\ queue'[w] = Append(queue[w], m)
    BY <1>1, <1>3
  <2>2. Len(queue[w]) + 1 \in DOMAIN queue'[w] /\ queue'[w][Len(queue[w]) + 1] = m
    BY <2>1
  <2> QED
    BY <2>2
<1>4. \A r : InQueue(r) => InQueue(r)'
  BY <1>2 DEF InQueue, Ignored, Carries
<1> QED
  BY <1>3, <1>4

(* A task has its own part of the job done, and begins to publish it.         *)
LEMMA AppliedKeeps ==
  ASSUME TInv, SInv, OneFault, NEW k \in Tasks, NEW t \in Tables,
         EvictRows(k, t) \/ BumpTable(k, t) \/ EvictionFails(k, t)
  PROVE  SInv'
<1>1. RowsApplied(k, t) \/ TableApplied(k, t)
  BY DEF EvictRows, BumpTable, EvictionFails, OneFault
<1>2. sending[k] = {} /\ UNCHANGED <<queue, link>>
  BY <1>1 DEF RowsApplied, TableApplied, channelVars
<1>3. job \in [Tasks -> Job] /\ sending \in [Tasks -> SUBSET Event]
  BY DEF TInv, TypeOK
<1>4. PICK m : sending' = [sending EXCEPT ![k] = {m}] /\ m.table = t
               /\ \/ RowsApplied(k, t) /\ m.pks = {Encoded(r) : r \in RowsOf(k, t)}
                  \/ TableApplied(k, t) /\ m.pks = {}
  <2>1. CASE RowsApplied(k, t)
    <3>1. PICK m : m = [origin |-> Home[k], version |-> Protocol, table |-> t,
                        pks |-> {Encoded(r) : r \in RowsOf(k, t)}, call |-> job[k].call]
      OBVIOUS
    <3>2. sending' = [sending EXCEPT ![k] = {m}]
      BY <2>1, <3>1 DEF RowsApplied
    <3>3. m.table = t /\ m.pks = {Encoded(r) : r \in RowsOf(k, t)}
      BY <3>1
    <3> QED
      BY <2>1, <3>2, <3>3
  <2>2. CASE TableApplied(k, t)
    <3>1. PICK m : m = [origin |-> Home[k], version |-> Protocol, table |-> t, pks |-> {}, call |-> job[k].call]
      OBVIOUS
    <3>2. sending' = [sending EXCEPT ![k] = {m}]
      BY <2>2, <3>1 DEF TableApplied
    <3>3. m.table = t /\ m.pks = {}
      BY <3>1
    <3> QED
      BY <2>2, <3>2, <3>3
  <2> QED
    BY <1>1, <2>1, <2>2
<1>5. \A j \in Tasks : \A e, f \in sending'[j] : e = f
  BY <1>3, <1>4 DEF SInv
<1>6. sending'[k] = {m} /\ \A j \in Tasks \ {k} : sending'[j] = sending[j] /\ job'[j] = job[j]
  BY <1>1, <1>3, <1>4 DEF RowsApplied, TableApplied
<1>7. ASSUME NEW r \in Rows, Owed(r), ~Owed(r)' PROVE Carries(m, r) /\ (RowsApplied(k, t) => r \in RowsOf(k, t))
  <2>1. Owes(k, r) /\ ~Owes(k, r)'
    BY <1>6, <1>7 DEF Owed, Owes
  <2>2. CASE RowsApplied(k, t)
    <3>1. job'[k].rows = job[k].rows \ RowsOf(k, t) /\ job'[k].tables = job[k].tables
      BY <1>3, <2>2 DEF RowsApplied
    <3>2. r \in RowsOf(k, t)
      BY <2>1, <3>1 DEF Owes
    <3>3. m.pks = {Encoded(x) : x \in RowsOf(k, t)} \/ m.pks = {}
      BY <1>4
    <3> QED
      BY <1>4, <3>2, <3>3 DEF Carries, RowsOf, Encoded, TagOf
  <2>3. CASE TableApplied(k, t)
    <3>1. job[k].rows = {} /\ job'[k].tables = job[k].tables \ {t}
      BY <1>3, <2>3 DEF TableApplied
    <3>2. TableOf[r] = t
      BY <2>1, <3>1 DEF Owes
    <3>3. ~RowsApplied(k, t)
      BY <3>1 DEF RowsApplied, RowsOf
    <3> QED
      BY <1>4, <3>2, <3>3 DEF Carries
  <2> QED
    BY <1>1, <2>2, <2>3
<1>8. ASSUME NEW r \in Rows, Travels(r) PROVE Travels(r)'
  BY <1>2, <1>6, <1>8 DEF Travels, InQueue, Carries, Ignored
<1>9. CASE EvictionFails(k, t)
  <2>1. faults = 0 /\ faults' = 1 /\ entry' = entry
    BY <1>9, BoundsAssumption DEF EvictionFails, Fault, OneFault, TInv, TypeOK, cacheVars
  <2>2. AllUp /\ AllUp'
    BY <1>2, <2>1 DEF SInv, AllUp
  <2>3. ASSUME NEW r \in Rows, entry'[r] = "stale", ~Owed(r)' PROVE Travels(r)'
    <3>1. Owed(r)
      BY <2>1, <2>3 DEF SInv
    <3>2. Carries(m, r)
      BY <1>7, <2>3, <3>1
    <3> QED
      BY <1>6, <3>2 DEF Travels, Carries
  <2> QED
    BY <1>5, <2>1, <2>2, <2>3 DEF SInv
<1>10. CASE EvictRows(k, t) \/ BumpTable(k, t)
  <2>1. faults' = faults
    BY <1>10 DEF EvictRows, BumpTable
  <2>2. ASSUME NEW r \in Rows, entry'[r] = "stale", ~Owed(r)' PROVE faults' = 1 /\ AllUp' /\ Travels(r)'
    <3>1. entry[r] = "stale" /\ ~Owed(r)
      <4>1. CASE EvictRows(k, t)
        <5>1. RowsApplied(k, t) /\ DeleteTags({TagOf(x) : x \in RowsOf(k, t)})
          BY <4>1 DEF EvictRows
        <5>2. entry' = [x \in Rows |-> IF TagOf(x) \in {TagOf(y) : y \in RowsOf(k, t)} THEN "none" ELSE entry[x]]
          BY <5>1 DEF DeleteTags, DropRows
        <5>3. entry[r] = "stale" /\ r \notin RowsOf(k, t)
          BY <2>2, <5>2
        <5> QED
          BY <1>7, <2>2, <5>1, <5>3
      <4>2. CASE BumpTable(k, t)
        <5>1. entry' = [x \in Rows |-> IF TableOf[x] = t THEN "none" ELSE entry[x]]
          BY <4>2 DEF BumpTable, Bump, DropRows
        <5>2. entry[r] = "stale" /\ TableOf[r] # t
          BY <2>2, <5>1
        <5> QED
          BY <1>4, <1>7, <2>2, <5>2 DEF Carries
      <4> QED
        BY <1>10, <4>1, <4>2
    <3>2. faults = 1 /\ AllUp /\ Travels(r)
      BY <3>1 DEF SInv
    <3> QED
      BY <1>2, <1>8, <2>1, <3>2 DEF AllUp
  <2>3. faults' = 0 => AllUp'
    BY <1>2, <2>1 DEF SInv, AllUp
  <2> QED
    BY <1>5, <2>2, <2>3 DEF SInv
<1> QED
  BY <1>9, <1>10

LEMMA TaskKeeps ==
  ASSUME Peers, TInv, SInv, OneFault, NEW k \in Tasks, TaskStep(k)
  PROVE  SInv'
<1>1. CASE \E t \in Tables : EvictRows(k, t) \/ BumpTable(k, t) \/ EvictionFails(k, t)
  BY <1>1, AppliedKeeps
<1>2. CASE PublishFails(k)
  <2>1. Fault /\ UNCHANGED <<entry, job>> /\ sending' = [sending EXCEPT ![k] = {}]
    BY <1>2 DEF PublishFails, cacheVars
  <2>2. \A j \in Tasks : sending'[j] \subseteq sending[j]
    BY <2>1 DEF TInv, TypeOK
  <2> QED
    BY <2>1, <2>2, FaultKeeps
<1>3. CASE Published(k)
  <2>1. PICK m \in sending[k] : Deliver(m)
    BY <1>3 DEF Published
  <2>2. UNCHANGED <<entry, job, link, faults>> /\ sending' = [sending EXCEPT ![k] = {}]
    BY <1>3 DEF Published, cacheVars
  <2>3. /\ \A r : InQueue(r) => InQueue(r)'
        /\ \A w \in Workers : link[w] = "up" => \E i \in DOMAIN queue'[w] : queue'[w][i] = m
    BY <2>1, DeliverKeeps
  <2>4. \A j \in Tasks : sending'[j] = IF j = k THEN {} ELSE sending[j]
    BY <2>2 DEF TInv, TypeOK
  <2>5. PICK w \in Workers : w # Home[k]
    BY WorkersAssumption DEF Peers
  <2>6. ~Ignored(w, m)
    BY <2>5, NobodyAssumption DEF Ignored, TInv, Known, SentOK
  <2>7. ASSUME NEW r \in Rows, AllUp, Travels(r) PROVE Travels(r)'
    <3>1. CASE Carries(m, r)
      <4>1. PICK i \in DOMAIN queue'[w] : queue'[w][i] = m
        BY <2>3, <2>7 DEF AllUp
      <4>2. InQueue(r)'
        BY <2>6, <3>1, <4>1 DEF InQueue, Ignored, Carries
      <4> QED
        BY <4>2 DEF Travels
    <3>2. CASE ~Carries(m, r)
      <4>1. CASE InQueue(r)
        BY <2>3, <4>1 DEF Travels
      <4>2. CASE \E j \in Tasks : \E n \in sending[j] : Carries(n, r)
        <5>1. PICK j \in Tasks : \E n \in sending[j] : Carries(n, r)
          BY <4>2
        <5>n. PICK n \in sending[j] : Carries(n, r)
          BY <5>1
        <5>2. j # k
          BY <3>2, <5>n, <2>1 DEF SInv
        <5>3. n \in sending'[j]
          BY <2>4, <5>n, <5>2
        <5> QED
          BY <5>n, <5>3 DEF Travels, Carries
      <4> QED
        BY <2>7, <4>1, <4>2 DEF Travels
    <3> QED
      BY <3>1, <3>2
  <2>8. \A r : Owed(r) => Owed(r)'
    BY <2>2 DEF Owed, Owes
  <2>9. AllUp' <=> AllUp
    BY <2>2 DEF AllUp
  <2>10. \A j \in Tasks : \A e, f \in sending'[j] : e = f
    BY <2>4 DEF SInv
  <2> QED
    BY <2>2, <2>7, <2>8, <2>9, <2>10 DEF SInv
<1> QED
  BY <1>1, <1>2, <1>3 DEF TaskStep

(* An invalidation owes what it makes stale, and a busy task takes no other.  *)
LEMMA InvalidateOwes ==
  ASSUME TInv, NEW k \in Tasks, NEW q \in Requests, Invalidate(k, q), NEW r \in Rows
  PROVE  (entry'[r] = "stale" => Owed(r)' \/ entry[r] = "stale") /\ (Owed(r) => Owed(r)')
<1>1. IsDone(job[k]) /\ job' = [job EXCEPT ![k] = [rows |-> q.rows, tables |-> q.tables, call |-> calls + 1]]
  BY DEF Invalidate
<1>2. job'[k].rows = q.rows /\ job'[k].tables = q.tables /\ \A j \in Tasks \ {k} : job'[j] = job[j]
  BY <1>1 DEF TInv, TypeOK
<1>3. ASSUME entry'[r] = "stale" PROVE Owed(r)' \/ entry[r] = "stale"
  <2>1. entry[r] = "stale" \/ r \in q.rows \/ TableOf[r] \in q.tables
    BY <1>3 DEF Invalidate
  <2> QED
    BY <1>2, <2>1 DEF Owed, Owes
<1>4. ASSUME Owed(r) PROVE Owed(r)'
  <2>1. PICK j \in Tasks : Owes(j, r)
    BY <1>4 DEF Owed
  <2>2. j # k
    BY <1>1, <2>1 DEF Owes, IsDone
  <2> QED
    BY <1>2, <2>1, <2>2 DEF Owed, Owes
<1> QED
  BY <1>3, <1>4

LEMMA InvalidateKeeps ==
  ASSUME TInv, SInv, NEW k \in Tasks, NEW q \in Requests, Invalidate(k, q)
  PROVE  SInv'
<1>1. UNCHANGED <<sending, queue, link, faults>>
  BY DEF Invalidate
<1>2. \A r : Travels(r) => Travels(r)'
  BY <1>1 DEF Travels, InQueue, Carries, Ignored
<1>3. AllUp' <=> AllUp
  BY <1>1 DEF AllUp
<1> QED
  BY <1>1, <1>2, <1>3, InvalidateOwes DEF SInv

(* A listener that comes upon the event which carries a row evicts the row.   *)
LEMMA HandleKeeps ==
  ASSUME TInv, SInv, NEW w \in Workers, Handle(w)
  PROVE  SInv'
<1>1. PICK q : q = queue[w]
  OBVIOUS
<1>2. q \in Seq(Event) /\ q # <<>> /\ queue' = [queue EXCEPT ![w] = Tail(q)]
      /\ UNCHANGED <<job, sending, link, faults>>
  BY <1>1 DEF TInv, TypeOK, Handle, Taken
<1>3. /\ DOMAIN Tail(q) = 1..(Len(q) - 1)
      /\ \A i \in DOMAIN Tail(q) : i + 1 \in DOMAIN q /\ Tail(q)[i] = q[i + 1]
      /\ 1 \in DOMAIN q /\ Head(q) = q[1] /\ Head(q) \in Event
  BY <1>2, TailIndices
<1>4. queue'[w] = Tail(q) /\ \A v \in Workers \ {w} : queue'[v] = queue[v]
  BY <1>2 DEF TInv, TypeOK
<1>5. PICK m : m = Head(q)
  OBVIOUS
<1>6. IF Ignored(w, m) THEN UNCHANGED <<entry, version, bumps>> ELSE Apply(w, m)
  BY <1>1, <1>5 DEF Handle, cacheVars
<1>7. ASSUME NEW r \in Rows, entry'[r] = "stale" PROVE entry[r] = "stale" /\ (Carries(m, r) => Ignored(w, m))
  <2>1. CASE Ignored(w, m)
    BY <1>6, <1>7, <2>1
  <2>2. CASE ~Ignored(w, m) /\ m.pks # {}
    <3>1. entry' = [x \in Rows |-> IF x \in {y \in Rows : TagOf(y) \in m.pks} THEN "none" ELSE entry[x]]
      BY <1>6, <2>2 DEF Apply, DeleteTags, DropRows
    <3> QED
      BY <1>7, <2>2, <3>1 DEF Carries
  <2>3. CASE ~Ignored(w, m) /\ m.pks = {}
    <3>1. entry' = [x \in Rows |-> IF x \in {y \in Rows : TableOf[y] = m.table} THEN "none" ELSE entry[x]]
      BY <1>6, <2>3 DEF Apply, Bump, DropRows
    <3> QED
      BY <1>7, <3>1 DEF Carries
  <2> QED
    BY <2>1, <2>2, <2>3
<1>8. ASSUME NEW r \in Rows, entry'[r] = "stale", InQueue(r) PROVE InQueue(r)'
  <2>1. PICK v \in Workers : \E i \in DOMAIN queue[v] : ~Ignored(v, queue[v][i]) /\ Carries(queue[v][i], r)
    BY <1>8 DEF InQueue
  <2>i. PICK i \in DOMAIN queue[v] : ~Ignored(v, queue[v][i]) /\ Carries(queue[v][i], r)
    BY <2>1
  <2>2. CASE v # w
    BY <1>4, <2>i, <2>2 DEF InQueue, Ignored, Carries
  <2>3. CASE v = w
    <3>1. i # 1
      BY <1>1, <1>3, <1>5, <1>7, <1>8, <2>i, <2>3
    <3>2. i \in 1..Len(q) /\ Len(q) \in Nat
      BY <1>1, <1>2, <2>i, <2>3
    <3>3. i - 1 \in DOMAIN Tail(q) /\ Tail(q)[i - 1] = q[i]
      BY <1>2, <1>3, <3>1, <3>2
    <3>4. i - 1 \in DOMAIN queue'[w] /\ queue'[w][i - 1] = queue[w][i]
      BY <1>1, <1>4, <3>3
    <3> QED
      BY <2>i, <2>3, <3>4 DEF InQueue, Ignored, Carries
  <2> QED
    BY <2>2, <2>3
<1>9. \A r \in Rows : entry'[r] = "stale" /\ Travels(r) => Travels(r)'
  BY <1>2, <1>8 DEF Travels, Carries
<1>10. \A r : Owed(r) => Owed(r)'
  BY <1>2 DEF Owed, Owes
<1>11. AllUp' <=> AllUp
  BY <1>2 DEF AllUp
<1> QED
  BY <1>2, <1>7, <1>9, <1>10, <1>11 DEF SInv

LEMMA ChannelKeeps ==
  ASSUME TInv, SInv, OneFault, NEW w \in Workers, HandleFails(w) \/ LinkLost(w) \/ Relinked(w)
  PROVE  SInv'
<1>1. CASE HandleFails(w) \/ LinkLost(w)
  <2>1. Fault /\ UNCHANGED <<entry, job, sending>>
    BY <1>1 DEF HandleFails, LinkLost, Taken, cacheVars
  <2> QED
    BY <2>1, FaultKeeps
<1>2. CASE Relinked(w)
  <2>1. UNCHANGED <<entry, job, sending, queue, faults>> /\ link' = [link EXCEPT ![w] = "up"]
    BY <1>2 DEF Relinked, cacheVars
  <2>2. AllUp => AllUp'
    BY <2>1 DEF AllUp, TInv, TypeOK
  <2>3. \A r : (Owed(r) => Owed(r)') /\ (Travels(r) => Travels(r)')
    BY <2>1 DEF Owed, Owes, Travels, InQueue, Carries, Ignored
  <2> QED
    BY <2>1, <2>2, <2>3 DEF SInv
<1> QED
  BY <1>1, <1>2

LEMMA OthersKeep ==
  ASSUME TInv, SInv,
         \/ \E t \in Tables \cup {Nobody} : Stray(t)
         \/ \E t \in Tables, R \in SUBSET Rows : Unversioned(t, R)
         \/ InvalidateAll \/ UNCHANGED vars
         \/ \E r \in Rows : Fill(r)
  PROVE  SInv'
<1>1. ASSUME NEW m, Deliver(m), UNCHANGED <<entry, job, sending, link, faults>> PROVE SInv'
  <2>2. Deliver(m) /\ UNCHANGED <<entry, job, sending, link, faults>>
    BY <1>1
  <2>3. \A r : InQueue(r) => InQueue(r)'
    BY <2>2, DeliverKeeps
  <2>4. \A r : (Owed(r) => Owed(r)') /\ (Travels(r) => Travels(r)')
    BY <2>2, <2>3 DEF Owed, Owes, Travels, Carries
  <2>5. AllUp' <=> AllUp
    BY <2>2 DEF AllUp
  <2> QED
    BY <2>2, <2>4, <2>5 DEF SInv
<1>2. CASE InvalidateAll \/ UNCHANGED vars
  <2>1. UNCHANGED <<job, sending, queue, link, faults>>
    BY <1>2 DEF InvalidateAll, vars
  <2>2. \A r \in Rows : entry'[r] = "stale" => entry[r] = "stale"
    BY <1>2 DEF InvalidateAll, DropRows, vars
  <2> QED
    BY <2>1, <2>2, QuietKeeps
<1>3. ASSUME NEW x \in Rows, Fill(x) PROVE SInv'
  <2>1. UNCHANGED <<job, sending, queue, link, faults>>
    BY <1>3 DEF Fill
  <2>2. \A r \in Rows : entry'[r] = "stale" => entry[r] = "stale"
    BY <1>3 DEF Fill, TInv, TypeOK
  <2> QED
    BY <2>1, <2>2, QuietKeeps
<1>4. ASSUME NEW t \in Tables \cup {Nobody}, Stray(t) PROVE SInv'
  BY <1>1, <1>4 DEF Stray, cacheVars
<1>5. ASSUME NEW t \in Tables, NEW R \in SUBSET Rows, Unversioned(t, R) PROVE SInv'
  BY <1>1, <1>5 DEF Unversioned, cacheVars
<1> QED
  BY <1>2, <1>3, <1>4, <1>5

LEMMA ErrorKept == [Next]_vars => onError' = onError
BY DEF Next, TaskStep, EvictRows, BumpTable, EvictionFails, RowsApplied, TableApplied, Published, PublishFails,
       Invalidate, ListenerStep, Handle, HandleFails, Taken, LinkLost, Relinked, Stray, Unversioned, InvalidateAll, Fill, vars

LEMMA SInvStep == ASSUME Peers PROVE TInv /\ (OneFault => SInv) /\ [Next]_vars => (OneFault => SInv)'
<1> SUFFICES ASSUME TInv, OneFault => SInv, [Next]_vars, OneFault' PROVE SInv'
  OBVIOUS
<1>1. OneFault /\ SInv
  BY ErrorKept DEF OneFault
<1> QED
  BY <1>1, TaskKeeps, InvalidateKeeps, HandleKeeps, ChannelKeeps, OthersKeep DEF Next, ListenerStep

(* With a second worker, and errors suppressed, any one failure of a task's   *)
(* eviction, its publish, a listener's eviction or a connection leaves every  *)
(* entry that is older than an invalidation with somebody who will evict it.  *)
THEOREM OneFailureMasked == ASSUME Peers PROVE Spec => []StaleOwed
<1> DEFINE IInv == TInv /\ (OneFault => SInv)
<1>1. Init => IInv
  BY TInvInit, SInvInit
<1>2. IInv /\ [Next]_vars => IInv'
  BY TInvStep, SInvStep
<1>3. IInv => StaleOwed
  BY DEF SInv, OneFault, StaleOwed, OnItsWay, Owed, Travels, InQueue
<1> QED
  BY <1>1, <1>2, <1>3, PTL DEF Spec

-----------------------------------------------------------------------------
(* The channel is only a second chance: what costs an invalidation is the     *)
(* failure of a task's own eviction, and nothing else.                        *)

OwnEvictionsWork == [][\A k \in Tasks, t \in Tables : ~EvictionFails(k, t)]_vars

Listed == \A r \in Rows : entry[r] = "stale" => Owed(r)

(* A task strikes off its list only what it has evicted.                      *)
LEMMA EvictedOrListed ==
  ASSUME TInv, NEW k \in Tasks, NEW t \in Tables, EvictRows(k, t) \/ BumpTable(k, t),
         NEW r \in Rows, entry'[r] = "stale"
  PROVE  entry[r] = "stale" /\ (Owed(r) => Owed(r)')
<1>1. job \in [Tasks -> Job]
  BY DEF TInv, TypeOK
<1>2. CASE EvictRows(k, t)
  <2>1. RowsApplied(k, t) /\ DeleteTags({TagOf(x) : x \in RowsOf(k, t)})
    BY <1>2 DEF EvictRows
  <2>2. entry[r] = "stale" /\ r \notin RowsOf(k, t)
    BY <2>1 DEF DeleteTags, DropRows
  <2>3. job'[k].rows = job[k].rows \ RowsOf(k, t) /\ job'[k].tables = job[k].tables
        /\ \A j \in Tasks \ {k} : job'[j] = job[j]
    BY <1>1, <2>1 DEF RowsApplied
  <2> QED
    BY <2>2, <2>3 DEF Owed, Owes
<1>3. CASE BumpTable(k, t)
  <2>1. TableApplied(k, t) /\ entry[r] = "stale" /\ TableOf[r] # t
    BY <1>3 DEF BumpTable, Bump, DropRows
  <2>2. job[k].rows = {} /\ job'[k].rows = {} /\ job'[k].tables = job[k].tables \ {t}
        /\ \A j \in Tasks \ {k} : job'[j] = job[j]
    BY <1>1, <2>1 DEF TableApplied
  <2> QED
    BY <2>1, <2>2 DEF Owed, Owes
<1> QED
  BY <1>2, <1>3

LEMMA NoStaler ==
  ASSUME TInv,
         \/ \E k \in Tasks : Published(k) \/ PublishFails(k)
         \/ \E w \in Workers : ListenerStep(w) \/ LinkLost(w) \/ Relinked(w)
         \/ InvalidateAll
         \/ \E t \in Tables \cup {Nobody} : Stray(t)
         \/ \E t \in Tables, R \in SUBSET Rows : Unversioned(t, R)
         \/ \E r \in Rows : Fill(r)
         \/ UNCHANGED vars
  PROVE  job' = job /\ \A r \in Rows : entry'[r] = "stale" => entry[r] = "stale"
<1>1. ASSUME NEW w \in Workers, Handle(w) PROVE job' = job /\ \A r \in Rows : entry'[r] = "stale" => entry[r] = "stale"
  <2>1. UNCHANGED cacheVars \/ Apply(w, Head(queue[w]))
    BY <1>1 DEF Handle
  <2>2. entry' = entry \/ \E R : DropRows(R)
    BY <2>1 DEF Apply, DeleteTags, Bump, cacheVars
  <2> QED
    BY <1>1, <2>2 DEF DropRows, Handle, Taken
<1>2. ASSUME \/ \E k \in Tasks : Published(k) \/ PublishFails(k)
             \/ \E w \in Workers : HandleFails(w) \/ LinkLost(w) \/ Relinked(w)
             \/ \E t \in Tables \cup {Nobody} : Stray(t)
             \/ \E t \in Tables, R \in SUBSET Rows : Unversioned(t, R)
             \/ UNCHANGED vars
      PROVE  UNCHANGED <<job, entry>>
  BY <1>2 DEF Published, PublishFails, HandleFails, Taken, LinkLost, Relinked, Stray, Unversioned, cacheVars, vars
<1>3. CASE InvalidateAll
  BY <1>3 DEF InvalidateAll, DropRows
<1>4. ASSUME NEW x \in Rows, Fill(x) PROVE job' = job /\ \A r \in Rows : entry'[r] = "stale" => entry[r] = "stale"
  BY <1>4 DEF Fill, TInv, TypeOK
<1> QED
  BY <1>1, <1>2, <1>3, <1>4 DEF ListenerStep

LEMMA ListedStep ==
  ASSUME TInv, Listed, [Next]_vars, [\A k \in Tasks, t \in Tables : ~EvictionFails(k, t)]_vars
  PROVE  Listed'
<1>1. ASSUME NEW k \in Tasks, NEW q \in Requests, Invalidate(k, q) PROVE Listed'
  BY <1>1, InvalidateOwes DEF Listed
<1>2. ASSUME NEW k \in Tasks, NEW t \in Tables, EvictRows(k, t) \/ BumpTable(k, t) PROVE Listed'
  BY <1>2, EvictedOrListed DEF Listed
<1>3. ASSUME job' = job, \A r \in Rows : entry'[r] = "stale" => entry[r] = "stale" PROVE Listed'
  BY <1>3 DEF Listed, Owed, Owes
<1>4. ASSUME NEW k \in Tasks, NEW t \in Tables, EvictionFails(k, t) PROVE UNCHANGED vars
  BY <1>4
<1> QED
  BY <1>1, <1>2, <1>3, <1>4, NoStaler DEF Next, TaskStep

(* As long as no worker fails at its own evictions, every stale entry has a   *)
(* task that will evict it, with suppressed or raised errors, with or without *)
(* a peer, and however often publishes, listeners and connections fail.       *)
THEOREM ChannelIsSpare == Spec /\ OwnEvictionsWork => [](\A r \in Rows : entry[r] = "stale" => \E k \in Tasks : Owes(k, r))
<1> DEFINE IInv == TInv /\ Listed
<1>1. Init => IInv
  BY TInvInit DEF Init, Listed
<1>2. IInv /\ [Next]_vars /\ [\A k \in Tasks, t \in Tables : ~EvictionFails(k, t)]_vars => IInv'
  BY TInvStep, ListedStep
<1>3. IInv => \A r \in Rows : entry[r] = "stale" => \E k \in Tasks : Owes(k, r)
  BY DEF Listed, Owed
<1> QED
  BY <1>1, <1>2, <1>3, PTL DEF Spec, OwnEvictionsWork

-----------------------------------------------------------------------------
(* A table counter moves once per worker and invalidation.                    *)

TableEvent(m) == m.pks = {} /\ m.version = Protocol /\ m.table # Nobody
Subject(m) == <<m.table, m.call>>
Queued(p) == \E w \in Workers : \E i \in DOMAIN queue[w] : TableEvent(queue[w][i]) /\ Subject(queue[w][i]) = p
Sent(k, p) == \E m \in sending[k] : TableEvent(m) /\ Subject(m) = p
BumpsOf(t) == {b \in bumps : b[2][1] = t}

(* Each bump counts, and there is a record of who made it.                    *)
Counted ==
    /\ IsFiniteSet(bumps)
    /\ \A t \in Tables : version[t] <= Cardinality(BumpsOf(t))

CallsApart ==
    /\ \A k \in Tasks : job[k].call <= calls
    /\ \A j, k \in Tasks : j # k /\ job[j].call = job[k].call => job[j].call = 0

(* A table that is still on a task's list has not been told to anyone, one    *)
(* that is being published only to the task's own worker, and each worker     *)
(* has an event but once, and that before it has bumped.                      *)
Unsent ==
    \A k \in Tasks : \A t \in job[k].tables :
        LET p == <<t, job[k].call>>
        IN  ~Queued(p) /\ (\A w \in Workers : <<w, p>> \notin bumps) /\ (\A j \in Tasks : ~Sent(j, p))

SentOnce ==
    \A k \in Tasks : \A p \in bulk :
        Sent(k, p) => ~Queued(p) /\ \A w \in Workers \ {Home[k]} : <<w, p>> \notin bumps

QueuedOnce ==
    \A w \in Workers : \A i \in DOMAIN queue[w] : TableEvent(queue[w][i]) =>
        /\ ~Ignored(w, queue[w][i]) => <<w, Subject(queue[w][i])>> \notin bumps
        /\ \A j \in DOMAIN queue[w] \ {i} : TableEvent(queue[w][j]) => Subject(queue[w][j]) # Subject(queue[w][i])

BInv == Counted /\ CallsApart /\ Unsent /\ SentOnce /\ QueuedOnce

LEMMA BInvInit == Init => BInv
<1> SUFFICES ASSUME Init PROVE BInv
  OBVIOUS
<1>1. Counted
  <2>1. bumps = {} /\ \A t \in Tables : BumpsOf(t) = {} /\ version[t] = 0
    BY DEF Init, BumpsOf
  <2>2. IsFiniteSet(bumps) /\ \A t \in Tables : Cardinality(BumpsOf(t)) = 0
    BY <2>1, FS_EmptySet
  <2> QED
    BY <2>1, <2>2 DEF Counted
<1>2. CallsApart /\ Unsent /\ SentOnce /\ QueuedOnce
  BY DEF Init, CallsApart, Unsent, SentOnce, QueuedOnce, Sent, Done
<1> QED
  BY <1>1, <1>2 DEF BInv

(* What the types say of the pairs.                                           *)
LEMMA SubjectKnown ==
  ASSUME TInv
  PROVE  /\ \A p \in bulk : p[2] \in 1..calls
         /\ \A p : Queued(p) => p \in bulk
         /\ \A k \in Tasks : \A p : Sent(k, p) => p \in bulk /\ p[2] = job[k].call
         /\ \A k \in Tasks : \A t \in job[k].tables : <<t, job[k].call>> \in bulk
         /\ \A w, p : <<w, p>> \in bumps => p \in bulk
<1>1. \A p \in bulk : p[2] \in 1..calls
  BY DEF TInv, TypeOK
<1>2. ASSUME NEW p, Queued(p) PROVE p \in bulk
  <2>1. PICK w \in Workers : \E i \in DOMAIN queue[w] : TableEvent(queue[w][i]) /\ Subject(queue[w][i]) = p
    BY <1>2 DEF Queued
  <2>2. PICK i \in DOMAIN queue[w] : TableEvent(queue[w][i]) /\ Subject(queue[w][i]) = p
    BY <2>1
  <2>3. EventOK(queue[w][i])
    BY <2>2 DEF TInv, Known, QueueOK
  <2> QED
    BY <2>2, <2>3 DEF EventOK, TableEvent, Subject
<1>3. ASSUME NEW k \in Tasks, NEW p, Sent(k, p) PROVE p \in bulk /\ p[2] = job[k].call
  <2>1. PICK m \in sending[k] : TableEvent(m) /\ Subject(m) = p
    BY <1>3 DEF Sent
  <2>2. SentOK(k, m)
    BY <2>1 DEF TInv, Known
  <2> QED
    BY <2>1, <2>2 DEF SentOK, EventOK, TableEvent, Subject
<1>4. \A k \in Tasks : \A t \in job[k].tables : <<t, job[k].call>> \in bulk
  BY DEF TInv, Known, JobOK
<1>5. \A w, p : <<w, p>> \in bumps => p \in bulk
  BY DEF TInv, TypeOK
<1> QED
  BY <1>1, <1>2, <1>3, <1>4, <1>5

LEMMA BumpCounted ==
  ASSUME Counted, version \in [Tables -> Nat], NEW w, NEW t \in Tables, NEW n,
         <<w, <<t, n>>>> \notin bumps, Bump(w, t, n)
  PROVE  Counted'
<1>1. PICK b : b = <<w, <<t, n>>>>
  OBVIOUS
<1>2. b \notin bumps /\ bumps' = bumps \cup {b} /\ b[2][1] = t
  BY <1>1 DEF Bump
<1>3. IsFiniteSet(bumps')
  BY <1>2, FS_AddElement DEF Counted
<1>4. ASSUME NEW u \in Tables PROVE version'[u] <= Cardinality(BumpsOf(u)')
  <2>1. IsFiniteSet(BumpsOf(u)) /\ Cardinality(BumpsOf(u)) \in Nat
    BY FS_Subset, FS_CardinalityType DEF Counted, BumpsOf
  <2>2. version[u] <= Cardinality(BumpsOf(u)) /\ version[u] \in Nat
    BY DEF Counted
  <2>3. CASE u = t
    <3>1. BumpsOf(u)' = BumpsOf(u) \cup {b} /\ b \notin BumpsOf(u)
      BY <1>2, <2>3 DEF BumpsOf
    <3>2. Cardinality(BumpsOf(u)') = Cardinality(BumpsOf(u)) + 1
      BY <2>1, <3>1, FS_AddElement
    <3>3. version'[u] = version[u] + 1
      BY <2>3 DEF Bump
    <3> QED
      BY <2>1, <2>2, <3>2, <3>3
  <2>4. CASE u # t
    <3>1. BumpsOf(u)' = BumpsOf(u)
      BY <1>2, <2>4 DEF BumpsOf
    <3>2. version'[u] = version[u]
      BY <2>4 DEF Bump
    <3> QED
      BY <2>2, <3>1, <3>2
  <2> QED
    BY <2>3, <2>4
<1> QED
  BY <1>3, <1>4 DEF Counted

LEMMA SameCounted == ASSUME Counted, UNCHANGED <<version, bumps>> PROVE Counted'
BY DEF Counted, BumpsOf

(* How the channel changes: messages are taken or lost at the ends of a        *)
(* queue, or one is appended.                                                 *)
Fewer ==
    \A v \in Workers : \E d \in Nat : \A i \in DOMAIN queue'[v] : i + d \in DOMAIN queue[v] /\ queue'[v][i] = queue[v][i + d]

More(m) ==
    \A v \in Workers : \A i \in DOMAIN queue'[v] :
        \/ i \in DOMAIN queue[v] /\ queue'[v][i] = queue[v][i]
        \/ i = Len(queue[v]) + 1 /\ queue'[v][i] = m

LEMMA FewerQueued == ASSUME Fewer PROVE \A p : Queued(p)' => Queued(p)
<1> SUFFICES ASSUME NEW p, Queued(p)' PROVE Queued(p)
  OBVIOUS
<1>1. PICK v \in Workers : \E i \in DOMAIN queue'[v] : TableEvent(queue'[v][i]) /\ Subject(queue'[v][i]) = p
  BY DEF Queued
<1>2. PICK i \in DOMAIN queue'[v] : TableEvent(queue'[v][i]) /\ Subject(queue'[v][i]) = p
  BY <1>1
<1>3. PICK j \in DOMAIN queue[v] : queue'[v][i] = queue[v][j]
  BY <1>2 DEF Fewer
<1> QED
  BY <1>2, <1>3 DEF Queued

LEMMA MoreQueued ==
  ASSUME NEW m, More(m)
  PROVE  \A p : Queued(p)' => Queued(p) \/ (TableEvent(m) /\ Subject(m) = p)
<1> SUFFICES ASSUME NEW p, Queued(p)', ~(TableEvent(m) /\ Subject(m) = p) PROVE Queued(p)
  OBVIOUS
<1>1. PICK v \in Workers : \E i \in DOMAIN queue'[v] : TableEvent(queue'[v][i]) /\ Subject(queue'[v][i]) = p
  BY DEF Queued
<1>2. PICK i \in DOMAIN queue'[v] : TableEvent(queue'[v][i]) /\ Subject(queue'[v][i]) = p
  BY <1>1
<1>3. i \in DOMAIN queue[v] /\ queue'[v][i] = queue[v][i]
  BY <1>2 DEF More
<1> QED
  BY <1>2, <1>3 DEF Queued

LEMMA FewerOnce ==
  ASSUME TypeOK', QueuedOnce, Fewer, UNCHANGED bumps
  PROVE  QueuedOnce'
<1> SUFFICES ASSUME NEW w \in Workers, NEW i \in DOMAIN queue'[w], TableEvent(queue'[w][i])
             PROVE  /\ ~Ignored(w, queue'[w][i]) => <<w, Subject(queue'[w][i])>> \notin bumps
                    /\ \A j \in DOMAIN queue'[w] \ {i} :
                          TableEvent(queue'[w][j]) => Subject(queue'[w][j]) # Subject(queue'[w][i])
  BY DEF QueuedOnce, TableEvent, Ignored, Subject
<1>1. PICK d \in Nat : \A j \in DOMAIN queue'[w] : j + d \in DOMAIN queue[w] /\ queue'[w][j] = queue[w][j + d]
  BY DEF Fewer
<1>2. DOMAIN queue'[w] \subseteq Nat
  <2>1. queue'[w] \in Seq(Event)
    BY DEF TypeOK
  <2> QED
    BY <2>1
<1>3. ~Ignored(w, queue'[w][i]) => <<w, Subject(queue'[w][i])>> \notin bumps
  BY <1>1 DEF QueuedOnce
<1>4. ASSUME NEW j \in DOMAIN queue'[w] \ {i}, TableEvent(queue'[w][j])
      PROVE  Subject(queue'[w][j]) # Subject(queue'[w][i])
  <2>1. j + d # i + d /\ j + d \in DOMAIN queue[w] /\ i + d \in DOMAIN queue[w]
    BY <1>1, <1>2
  <2> QED
    BY <1>1, <1>4, <2>1 DEF QueuedOnce
<1> QED
  BY <1>3, <1>4

(* What is not counted: who has been told what.                               *)
Told == CallsApart /\ Unsent /\ SentOnce /\ QueuedOnce

(* A task has applied the rows of one table, and publishes an event of rows.  *)
LEMMA RowsTold ==
  ASSUME TInv, Told, NEW k \in Tasks, NEW t \in Tables, RowsApplied(k, t), UNCHANGED bumps
  PROVE  Told'
<1>1. \A j \in Tasks : job'[j].call = job[j].call /\ job'[j].tables = job[j].tables
  BY DEF RowsApplied, TInv, TypeOK, Job
<1>2. UNCHANGED <<calls, bulk, queue>> /\ \A p : Queued(p)' <=> Queued(p)
  BY DEF RowsApplied, channelVars, Queued
<1>3. \A j \in Tasks : \A p : Sent(j, p)' => Sent(j, p)
  <2> SUFFICES ASSUME NEW j \in Tasks, NEW p, Sent(j, p)' PROVE Sent(j, p)
    OBVIOUS
  <2>1. CASE j = k
    <3>1. PICK m \in sending'[k] : TableEvent(m)
      BY <2>1 DEF Sent
    <3>2. m.pks = {Encoded(r) : r \in RowsOf(k, t)} /\ RowsOf(k, t) # {}
      BY DEF RowsApplied, TInv, TypeOK
    <3> QED
      BY <3>1, <3>2 DEF TableEvent
  <2>2. CASE j # k
    <3>1. sending'[j] = sending[j]
      BY <2>2 DEF RowsApplied, TInv, TypeOK
    <3> QED
      BY <3>1 DEF Sent
  <2> QED
    BY <2>1, <2>2
<1>4. CallsApart'
  BY <1>1, <1>2 DEF Told, CallsApart
<1>5. Unsent'
  BY <1>1, <1>2, <1>3 DEF Told, Unsent
<1>6. SentOnce'
  BY <1>2, <1>3 DEF Told, SentOnce
<1>7. QueuedOnce'
  BY <1>2 DEF Told, QueuedOnce, Ignored
<1> QED
  BY <1>4, <1>5, <1>6, <1>7 DEF Told

(* A task has applied a whole table, and bumped it if nothing failed.         *)
LEMMA TableTold ==
  ASSUME TInv, Told, NEW k \in Tasks, NEW t \in Tables, TableApplied(k, t),
         bumps' \subseteq bumps \cup {<<Home[k], <<t, job[k].call>>>>}
  PROVE  Told'
<1>1. PICK p : p = <<t, job[k].call>>
  OBVIOUS
<1>2. /\ p \in bulk /\ ~Queued(p) /\ (\A w \in Workers : <<w, p>> \notin bumps)
      /\ bumps' \subseteq bumps \cup {<<Home[k], p>>}
      /\ p[2] \in 1..calls /\ p[1] = t /\ p[2] = job[k].call
  <2>1. t \in job[k].tables
    BY DEF TableApplied
  <2>2. p \in bulk
    BY <1>1, <2>1, SubjectKnown
  <2>3. ~Queued(p) /\ (\A w \in Workers : <<w, p>> \notin bumps)
    BY <1>1, <2>1 DEF Told, Unsent
  <2>4. p[2] \in 1..calls
    BY <2>2, SubjectKnown
  <2> QED
    BY <1>1, <2>2, <2>3, <2>4
<1>3. /\ \A j \in Tasks : job'[j].call = job[j].call /\ job'[j].tables \subseteq job[j].tables
      /\ t \notin job'[k].tables
  BY DEF TableApplied, TInv, TypeOK, Job
<1>4. UNCHANGED <<calls, bulk, queue>> /\ \A q : Queued(q)' <=> Queued(q)
  BY DEF TableApplied, channelVars, Queued
<1>5. \A q : Sent(k, q)' => q = p
  <2>1. PICK m : m = [origin |-> Home[k], version |-> Protocol, table |-> t, pks |-> {}, call |-> job[k].call]
    OBVIOUS
  <2>2. sending'[k] = {m}
    BY <2>1 DEF TableApplied, TInv, TypeOK
  <2> QED
    BY <1>1, <2>1, <2>2 DEF Sent, Subject
<1>6. \A j \in Tasks : j # k => \A q : Sent(j, q)' => Sent(j, q)
  BY DEF TableApplied, TInv, TypeOK, Sent
<1>7. \A j \in Tasks : j # k => job[j].call # p[2]
  BY <1>2 DEF Told, CallsApart
<1>8. CallsApart'
  BY <1>3, <1>4 DEF Told, CallsApart
<1>9. Unsent'
  <2> SUFFICES ASSUME NEW j \in Tasks, NEW u \in job'[j].tables, NEW q, q = <<u, job'[j].call>>
               PROVE  ~Queued(q)' /\ (\A w \in Workers : <<w, q>> \notin bumps') /\ (\A i \in Tasks : ~Sent(i, q)')
    BY DEF Unsent
  <2>1. u \in job[j].tables /\ q = <<u, job[j].call>>
    BY <1>3
  <2>2. ~Queued(q) /\ (\A w \in Workers : <<w, q>> \notin bumps) /\ (\A i \in Tasks : ~Sent(i, q))
    BY <2>1 DEF Told, Unsent
  <2>3. q # p
    <3>1. CASE j = k
      BY <3>1, <2>1, <1>3, <1>2
    <3>2. CASE j # k
      BY <3>2, <2>1, <1>7
    <3> QED
      BY <3>1, <3>2
  <2>4. \A w \in Workers : <<w, q>> \notin bumps'
    BY <1>2, <2>2, <2>3
  <2>5. \A i \in Tasks : ~Sent(i, q)'
    BY <1>5, <1>6, <2>2, <2>3
  <2> QED
    BY <1>4, <2>2, <2>4, <2>5
<1>10. SentOnce'
  <2> SUFFICES ASSUME NEW j \in Tasks, NEW q \in bulk, Sent(j, q)'
               PROVE  ~Queued(q)' /\ \A w \in Workers \ {Home[j]} : <<w, q>> \notin bumps'
    BY <1>4 DEF SentOnce
  <2>1. CASE j = k
    <3>1. q = p
      BY <1>5, <2>1
    <3>2. ~Queued(q)'
      BY <3>1, <1>2, <1>4
    <3>3. \A w \in Workers \ {Home[j]} : <<w, q>> \notin bumps'
      BY <3>1, <1>2, <2>1
    <3> QED
      BY <3>2, <3>3
  <2>2. CASE j # k
    <3>1. Sent(j, q)
      BY <1>6, <2>2
    <3>2. q[2] = job[j].call
      BY <3>1, SubjectKnown
    <3>3. q # p
      BY <3>2, <2>2, <1>7
    <3>4. ~Queued(q) /\ \A w \in Workers \ {Home[j]} : <<w, q>> \notin bumps
      BY <3>1 DEF Told, SentOnce
    <3> QED
      BY <3>3, <3>4, <1>2, <1>4
  <2> QED
    BY <2>1, <2>2
<1>11. QueuedOnce'
  <2> SUFFICES ASSUME NEW w \in Workers, NEW i \in DOMAIN queue[w], TableEvent(queue[w][i])
               PROVE  /\ ~Ignored(w, queue[w][i]) => <<w, Subject(queue[w][i])>> \notin bumps'
                      /\ \A j \in DOMAIN queue[w] \ {i} :
                            TableEvent(queue[w][j]) => Subject(queue[w][j]) # Subject(queue[w][i])
    BY <1>4 DEF QueuedOnce
  <2>1. Subject(queue[w][i]) # p
    BY <1>2 DEF Queued
  <2> QED
    BY <1>2, <2>1 DEF Told, QueuedOnce
<1> QED
  BY <1>8, <1>9, <1>10, <1>11 DEF Told

(* The channel loses messages, or listeners skip them.                        *)
LEMMA FewerTold ==
  ASSUME TypeOK', Told, Fewer, UNCHANGED <<job, calls, bulk, bumps>>,
         \A k \in Tasks : sending'[k] \subseteq sending[k]
  PROVE  Told'
<1>1. \A p : Queued(p)' => Queued(p)
  BY FewerQueued
<1>2. \A k \in Tasks : \A p : Sent(k, p)' => Sent(k, p)
  BY DEF Sent
<1>3. QueuedOnce'
  BY FewerOnce DEF Told
<1>4. CallsApart' /\ Unsent'
  BY <1>1, <1>2 DEF Told, CallsApart, Unsent
<1>5. SentOnce'
  BY <1>1, <1>2 DEF Told, SentOnce
<1> QED
  BY <1>3, <1>4, <1>5 DEF Told

(* A message that is no event for a whole table changes nothing.              *)
LEMMA DeliverMore == ASSUME TypeOK, NEW m, Deliver(m) PROVE More(m)
<1> SUFFICES ASSUME NEW v \in Workers, NEW i \in DOMAIN queue'[v]
             PROVE  \/ i \in DOMAIN queue[v] /\ queue'[v][i] = queue[v][i]
                    \/ i = Len(queue[v]) + 1 /\ queue'[v][i] = m
  BY DEF More
<1>1. queue[v] \in Seq(Event) /\ (queue'[v] = queue[v] \/ queue'[v] = Append(queue[v], m))
  BY DEF TypeOK, Deliver
<1>2. CASE queue'[v] = Append(queue[v], m)
  <2>1. i \in 1..(Len(queue[v]) + 1)
    BY <1>1, <1>2
  <2>2. CASE i = Len(queue[v]) + 1
    BY <1>1, <1>2, <2>2
  <2>3. CASE i \in 1..Len(queue[v])
    BY <1>1, <1>2, <2>3
  <2> QED
    BY <1>1, <2>1, <2>2, <2>3
<1> QED
  BY <1>1, <1>2

(* A message is appended that tells nobody anything he has heard.             *)
LEMMA MoreOnce ==
  ASSUME TypeOK, QueuedOnce, NEW m, More(m), UNCHANGED bumps,
         TableEvent(m) => /\ ~Queued(Subject(m))
                          /\ \A w \in Workers : ~Ignored(w, m) => <<w, Subject(m)>> \notin bumps
  PROVE  QueuedOnce'
<1> SUFFICES ASSUME NEW w \in Workers, NEW i \in DOMAIN queue'[w], TableEvent(queue'[w][i])
             PROVE  /\ ~Ignored(w, queue'[w][i]) => <<w, Subject(queue'[w][i])>> \notin bumps
                    /\ \A j \in DOMAIN queue'[w] \ {i} :
                          TableEvent(queue'[w][j]) => Subject(queue'[w][j]) # Subject(queue'[w][i])
  BY DEF QueuedOnce, TableEvent, Ignored, Subject
<1>1. \A j \in DOMAIN queue'[w] :
        \/ j \in DOMAIN queue[w] /\ queue'[w][j] = queue[w][j]
        \/ j = Len(queue[w]) + 1 /\ queue'[w][j] = m
  BY DEF More
<1>2. \A j \in DOMAIN queue[w] : TableEvent(m) /\ TableEvent(queue[w][j]) => Subject(queue[w][j]) # Subject(m)
  BY DEF Queued
<1>3. ~Ignored(w, queue'[w][i]) => <<w, Subject(queue'[w][i])>> \notin bumps
  BY <1>1 DEF QueuedOnce
<1>4. ASSUME NEW j \in DOMAIN queue'[w] \ {i}, TableEvent(queue'[w][j])
      PROVE  Subject(queue'[w][j]) # Subject(queue'[w][i])
  <2>1. CASE i \in DOMAIN queue[w] /\ queue'[w][i] = queue[w][i]
    BY <1>1, <1>2, <1>4, <2>1 DEF QueuedOnce
  <2>2. CASE i = Len(queue[w]) + 1 /\ queue'[w][i] = m
    BY <1>1, <1>2, <1>4, <2>2
  <2> QED
    BY <1>1, <2>1, <2>2
<1> QED
  BY <1>3, <1>4

LEMMA StrayTold == ASSUME TInv, Told, NEW t \in Tables \cup {Nobody}, Stray(t) PROVE Told'
<1>1. PICK m : m = [origin |-> Nobody, version |-> IF t = Nobody THEN Protocol ELSE Protocol + 1,
                    table |-> t, pks |-> {}, call |-> 0]
  OBVIOUS
<1>2. Deliver(m) /\ UNCHANGED <<bumps, job, sending, calls, bulk>>
  BY <1>1 DEF Stray, cacheVars
<1>3. ~TableEvent(m)
  BY <1>1 DEF TableEvent, Protocol
<1>4. More(m)
  BY <1>2, DeliverMore DEF TInv
<1>5. \A p : Queued(p)' => Queued(p)
  BY <1>3, <1>4, MoreQueued
<1>6. \A k \in Tasks : \A p : Sent(k, p)' <=> Sent(k, p)
  BY <1>2 DEF Sent
<1>7. QueuedOnce'
  BY <1>2, <1>3, <1>4, MoreOnce DEF Told, TInv
<1>8. CallsApart' /\ Unsent' /\ SentOnce'
  BY <1>2, <1>5, <1>6 DEF Told, CallsApart, Unsent, SentOnce
<1> QED
  BY <1>7, <1>8 DEF Told

LEMMA UnversionedTold ==
  ASSUME TInv, Told, NEW t \in Tables, NEW R \in SUBSET Rows, Unversioned(t, R)
  PROVE  Told'
<1>1. PICK m : m = [origin |-> Nobody, version |-> Protocol, table |-> t,
                    pks |-> {TagOf(r) : r \in R}, call |-> calls + 1]
  OBVIOUS
<1>2. calls \in Nat /\ calls' = calls + 1 /\ bulk \subseteq bulk' /\ bulk' \subseteq bulk \cup {Subject(m)}
      /\ Deliver(m) /\ UNCHANGED <<bumps, job, sending>>
  BY <1>1 DEF Unversioned, cacheVars, TInv, TypeOK, Subject
<1>3. Subject(m)[2] = calls + 1 /\ \A p \in bulk : p[2] \in 1..calls
  BY <1>1, SubjectKnown DEF Subject
<1>4. Subject(m) \notin bulk
  BY <1>2, <1>3
<1>5. ~Queued(Subject(m)) /\ \A w \in Workers : <<w, Subject(m)>> \notin bumps
  BY <1>4, SubjectKnown
<1>6. \A k \in Tasks : ~Sent(k, Subject(m))
  BY <1>4, SubjectKnown
<1>7. More(m)
  BY <1>2, DeliverMore DEF TInv
<1>8. \A p : Queued(p)' => Queued(p) \/ p = Subject(m)
  BY <1>7, MoreQueued
<1>9. \A k \in Tasks : \A p : Sent(k, p)' <=> Sent(k, p)
  BY <1>2 DEF Sent
<1>10. QueuedOnce'
  BY <1>2, <1>5, <1>7, MoreOnce DEF Told, TInv
<1>11. CallsApart'
  <2>1. \A k \in Tasks : job[k].call <= calls /\ job[k].call \in Nat
    BY DEF Told, CallsApart, TInv, TypeOK, Job
  <2> QED
    BY <1>2, <2>1 DEF Told, CallsApart
<1>12. Unsent'
  <2> SUFFICES ASSUME NEW k \in Tasks, NEW u \in job[k].tables, NEW p, p = <<u, job[k].call>>
               PROVE  ~Queued(p)' /\ (\A w \in Workers : <<w, p>> \notin bumps) /\ (\A j \in Tasks : ~Sent(j, p)')
    BY <1>2 DEF Unsent
  <2>1. ~Queued(p) /\ (\A w \in Workers : <<w, p>> \notin bumps) /\ (\A j \in Tasks : ~Sent(j, p))
    BY DEF Told, Unsent
  <2>2. p \in bulk
    BY SubjectKnown
  <2> QED
    BY <1>4, <1>8, <1>9, <2>1, <2>2
<1>13. SentOnce'
  <2> SUFFICES ASSUME NEW k \in Tasks, NEW p \in bulk', Sent(k, p)'
               PROVE  ~Queued(p)' /\ \A w \in Workers \ {Home[k]} : <<w, p>> \notin bumps
    BY <1>2 DEF SentOnce
  <2>1. Sent(k, p) /\ p # Subject(m) /\ p \in bulk
    BY <1>6, <1>9, SubjectKnown
  <2> QED
    BY <1>8, <2>1 DEF Told, SentOnce
<1> QED
  BY <1>10, <1>11, <1>12, <1>13 DEF Told

LEMMA PublishedTold == ASSUME TInv, Told, NEW k \in Tasks, Published(k) PROVE Told'
<1>1. PICK m \in sending[k] : Deliver(m)
  BY DEF Published
<1>2. UNCHANGED <<bumps, job, calls, bulk>>
  BY DEF Published, cacheVars
<1>3. sending'[k] = {} /\ \A j \in Tasks : j # k => sending'[j] = sending[j]
  BY DEF Published, TInv, TypeOK
<1>4. More(m)
  BY <1>1, DeliverMore DEF TInv
<1>5. SentOK(k, m)
  BY <1>1 DEF TInv, Known
<1>6. TableEvent(m) => /\ Sent(k, Subject(m)) /\ Subject(m) \in bulk
                       /\ Subject(m)[2] = job[k].call /\ job[k].call \in 1..calls
  BY <1>1, SubjectKnown DEF Sent
<1>7. TableEvent(m) => ~Queued(Subject(m)) /\ \A w \in Workers \ {Home[k]} : <<w, Subject(m)>> \notin bumps
  BY <1>6 DEF Told, SentOnce
<1>8. \A w \in Workers : ~Ignored(w, m) => w \in Workers \ {Home[k]}
  BY <1>5 DEF Ignored, SentOK
<1>9. QueuedOnce'
  BY <1>2, <1>4, <1>7, <1>8, MoreOnce DEF Told, TInv
<1>10. \A p : Queued(p)' => Queued(p) \/ (TableEvent(m) /\ Subject(m) = p)
  BY <1>4, MoreQueued
<1>11. \A j \in Tasks : \A p : Sent(j, p)' => Sent(j, p) /\ j # k
  BY <1>3 DEF Sent
<1>12. CallsApart'
  BY <1>2 DEF Told, CallsApart
<1>13. Unsent'
  <2> SUFFICES ASSUME NEW j \in Tasks, NEW t \in job[j].tables, NEW p, p = <<t, job[j].call>>
               PROVE  ~Queued(p)' /\ (\A w \in Workers : <<w, p>> \notin bumps) /\ (\A i \in Tasks : ~Sent(i, p)')
    BY <1>2 DEF Unsent
  <2>1. ~Queued(p) /\ (\A w \in Workers : <<w, p>> \notin bumps) /\ (\A i \in Tasks : ~Sent(i, p))
    BY DEF Told, Unsent
  <2>2. ~(TableEvent(m) /\ Subject(m) = p)
    BY <1>6, <2>1
  <2> QED
    BY <1>10, <1>11, <2>1, <2>2
<1>14. SentOnce'
  <2> SUFFICES ASSUME NEW j \in Tasks, NEW p \in bulk, Sent(j, p)'
               PROVE  ~Queued(p)' /\ \A w \in Workers \ {Home[j]} : <<w, p>> \notin bumps
    BY <1>2 DEF SentOnce
  <2>1. Sent(j, p) /\ j # k
    BY <1>11
  <2>2. p[2] = job[j].call
    BY <2>1, SubjectKnown
  <2>3. ~(TableEvent(m) /\ Subject(m) = p)
    BY <1>6, <2>1, <2>2 DEF Told, CallsApart
  <2> QED
    BY <1>10, <2>1, <2>3 DEF Told, SentOnce
<1> QED
  BY <1>9, <1>12, <1>13, <1>14 DEF Told

LEMMA InvalidateTold ==
  ASSUME TInv, Told, NEW k \in Tasks, NEW r \in Requests, Invalidate(k, r)
  PROVE  Told'
<1>1. /\ job'[k].call = calls + 1 /\ calls' = calls + 1 /\ bulk \subseteq bulk'
      /\ \A j \in Tasks : j # k => job'[j] = job[j]
      /\ UNCHANGED <<bumps, sending, queue>>
  BY DEF Invalidate, TInv, TypeOK
<1>2. calls \in Nat /\ sending[k] = {} /\ \A j \in Tasks : job[j].call \in Nat
  BY DEF TInv, TypeOK, Invalidate, Job
<1>3. /\ \A p : Queued(p)' <=> Queued(p)
      /\ \A j \in Tasks : \A p : Sent(j, p)' <=> Sent(j, p)
  BY <1>1 DEF Queued, Sent
<1>4. \A p : Queued(p) \/ (\E j \in Tasks : Sent(j, p)) \/ (\E w \in Workers : <<w, p>> \in bumps)
              => p \in bulk /\ p[2] \in 1..calls
  BY SubjectKnown
<1>5. CallsApart'
  BY <1>1, <1>2 DEF Told, CallsApart
<1>6. Unsent'
  <2> SUFFICES ASSUME NEW j \in Tasks, NEW t \in job'[j].tables, NEW p, p = <<t, job'[j].call>>
               PROVE  ~Queued(p)' /\ (\A w \in Workers : <<w, p>> \notin bumps') /\ (\A i \in Tasks : ~Sent(i, p)')
    BY DEF Unsent
  <2>1. CASE j = k
    <3>1. p[2] = calls + 1
      BY <1>1, <2>1
    <3> QED
      BY <3>1, <1>1, <1>2, <1>3, <1>4
  <2>2. CASE j # k
    <3>1. t \in job[j].tables /\ p = <<t, job[j].call>>
      BY <1>1, <2>2
    <3> QED
      BY <3>1, <1>1, <1>3 DEF Told, Unsent
  <2> QED
    BY <2>1, <2>2
<1>7. SentOnce'
  BY <1>1, <1>3, <1>4 DEF Told, SentOnce
<1>8. QueuedOnce'
  BY <1>1 DEF Told, QueuedOnce, Ignored
<1> QED
  BY <1>5, <1>6, <1>7, <1>8 DEF Told

LEMMA TakenFewer == ASSUME TypeOK, NEW w \in Workers, Taken(w) PROVE Fewer
<1> SUFFICES ASSUME NEW v \in Workers
             PROVE  \E d \in Nat : \A i \in DOMAIN queue'[v] :
                        i + d \in DOMAIN queue[v] /\ queue'[v][i] = queue[v][i + d]
  BY DEF Fewer
<1>1. queue[v] \in Seq(Event) /\ queue'[v] = IF v = w THEN Tail(queue[v]) ELSE queue[v]
  BY DEF TypeOK, Taken
<1>2. CASE v = w
  <2>1. queue[v] # <<>> /\ queue'[v] = Tail(queue[v])
    BY <1>1, <1>2 DEF Taken
  <2>2. PICK q : q = queue[v]
    OBVIOUS
  <2>3. \A i \in DOMAIN Tail(q) : i + 1 \in DOMAIN q /\ Tail(q)[i] = q[i + 1]
    BY <1>1, <2>1, <2>2, TailIndices
  <2> QED
    BY <2>1, <2>2, <2>3
<1>3. CASE v # w
  <2>1. queue'[v] = queue[v] /\ DOMAIN queue[v] \subseteq Nat
    BY <1>1, <1>3
  <2>2. \A i \in DOMAIN queue'[v] : i + 0 \in DOMAIN queue[v] /\ queue'[v][i] = queue[v][i + 0]
    BY <2>1
  <2> QED
    BY <2>2
<1> QED
  BY <1>2, <1>3

(* A listener bumps a table that it has been told about.                      *)
LEMMA HeardTold ==
  ASSUME TInv, TypeOK', Told, NEW w \in Workers, Taken(w), TableEvent(queue[w][1]),
         ~Ignored(w, queue[w][1]), bumps' = bumps \cup {<<w, Subject(queue[w][1])>>}
  PROVE  Told'
<1>1. PICK p : p = Subject(queue[w][1])
  OBVIOUS
<1>2. queue[w] \in Seq(Event) /\ queue[w] # <<>> /\ queue'[w] = Tail(queue[w])
      /\ \A v \in Workers : v # w => queue'[v] = queue[v]
  BY DEF Taken, TInv, TypeOK
<1>3. 1 \in DOMAIN queue[w] /\ \A i \in DOMAIN queue'[w] : i \in Nat \ {0} /\ i + 1 \in DOMAIN queue[w] /\ queue'[w][i] = queue[w][i + 1]
  BY <1>2, TailIndices
<1>4. Queued(p) /\ bumps' = bumps \cup {<<w, p>>}
  BY <1>1, <1>3 DEF Queued
<1>5. UNCHANGED <<job, sending, calls, bulk>>
  BY DEF Taken
<1>6. \A q : Queued(q)' => Queued(q)
  BY TakenFewer, FewerQueued DEF TInv
<1>7. \A j \in Tasks : \A q : Sent(j, q)' <=> Sent(j, q)
  BY <1>5 DEF Sent
<1>8. CallsApart'
  BY <1>5 DEF Told, CallsApart
<1>9. Unsent'
  <2> SUFFICES ASSUME NEW j \in Tasks, NEW t \in job[j].tables, NEW q, q = <<t, job[j].call>>
               PROVE  ~Queued(q)' /\ (\A v \in Workers : <<v, q>> \notin bumps') /\ (\A i \in Tasks : ~Sent(i, q)')
    BY <1>5 DEF Unsent
  <2>1. ~Queued(q) /\ (\A v \in Workers : <<v, q>> \notin bumps) /\ (\A i \in Tasks : ~Sent(i, q))
    BY DEF Told, Unsent
  <2> QED
    BY <2>1, <1>4, <1>6, <1>7
<1>10. SentOnce'
  <2> SUFFICES ASSUME NEW j \in Tasks, NEW q \in bulk, Sent(j, q)
               PROVE  ~Queued(q)' /\ \A v \in Workers \ {Home[j]} : <<v, q>> \notin bumps'
    BY <1>5, <1>7 DEF SentOnce
  <2>1. ~Queued(q) /\ \A v \in Workers \ {Home[j]} : <<v, q>> \notin bumps
    BY DEF Told, SentOnce
  <2> QED
    BY <2>1, <1>4, <1>6
<1>11. QueuedOnce'
  <2> SUFFICES ASSUME NEW v \in Workers, NEW i \in DOMAIN queue'[v], TableEvent(queue'[v][i])
               PROVE  /\ ~Ignored(v, queue'[v][i]) => <<v, Subject(queue'[v][i])>> \notin bumps'
                      /\ \A j \in DOMAIN queue'[v] \ {i} :
                            TableEvent(queue'[v][j]) => Subject(queue'[v][j]) # Subject(queue'[v][i])
    BY DEF QueuedOnce, TableEvent, Ignored, Subject
  <2>1. CASE v = w
    <3>1. /\ ~Ignored(w, queue[w][i + 1]) => <<w, Subject(queue[w][i + 1])>> \notin bumps
          /\ \A j \in DOMAIN queue[w] \ {i + 1} :
                TableEvent(queue[w][j]) => Subject(queue[w][j]) # Subject(queue[w][i + 1])
      BY <1>3, <2>1 DEF Told, QueuedOnce
    <3>2. Subject(queue[w][i + 1]) # p
      BY <1>1, <1>3, <2>1, <3>1
    <3>3. ~Ignored(v, queue'[v][i]) => <<v, Subject(queue'[v][i])>> \notin bumps'
      BY <1>3, <1>4, <2>1, <3>1, <3>2
    <3>4. \A j \in DOMAIN queue'[v] \ {i} : TableEvent(queue'[v][j]) => Subject(queue'[v][j]) # Subject(queue'[v][i])
      BY <1>3, <2>1, <3>1
    <3> QED
      BY <3>3, <3>4
  <2>2. CASE v # w
    BY <1>2, <1>4, <2>2 DEF Told, QueuedOnce
  <2> QED
    BY <2>1, <2>2
<1> QED
  BY <1>8, <1>9, <1>10, <1>11 DEF Told

LEMMA ListenerTold ==
  ASSUME TInv, TypeOK', BInv, NEW w \in Workers, ListenerStep(w)
  PROVE  BInv'
<1>1. Taken(w) /\ Fewer /\ UNCHANGED <<job, sending, calls, bulk>>
  BY TakenFewer DEF ListenerStep, Handle, HandleFails, Taken, TInv
<1>2. CASE UNCHANGED <<version, bumps>>
  BY <1>1, <1>2, FewerTold, SameCounted DEF BInv, Told
<1>3. CASE ~UNCHANGED <<version, bumps>>
  <2>1. PICK m : m = queue[w][1]
    OBVIOUS
  <2>2. queue[w] \in Seq(Event) /\ queue[w] # <<>>
    BY <1>1 DEF Taken, TInv, TypeOK
  <2>3. m = Head(queue[w]) /\ m \in Event /\ 1 \in DOMAIN queue[w]
    BY <2>1, <2>2, TailIndices
  <2>4. ~Ignored(w, m) /\ Apply(w, m)
    BY <1>3, <2>3 DEF ListenerStep, Handle, HandleFails, cacheVars
  <2>5. m.pks = {} /\ Bump(w, m.table, m.call)
    BY <1>3, <2>4 DEF Apply, DeleteTags
  <2>6. TableEvent(m) /\ m.table \in Tables
    BY <2>3, <2>4, <2>5 DEF TableEvent, Ignored, Event
  <2>7. <<w, Subject(m)>> \notin bumps
    BY <2>1, <2>3, <2>4, <2>6 DEF BInv, QueuedOnce
  <2>8. bumps' = bumps \cup {<<w, Subject(m)>>}
    BY <2>5 DEF Bump, Subject
  <2>9. Told'
    BY <1>1, <2>1, <2>4, <2>6, <2>8, HeardTold DEF BInv, Told
  <2>10. Counted'
    <3>1. Counted /\ version \in [Tables -> Nat] /\ <<w, <<m.table, m.call>>>> \notin bumps
      BY <2>7 DEF BInv, TInv, TypeOK, Subject
    <3> QED
      BY <3>1, <2>5, <2>6, BumpCounted
  <2> QED
    BY <2>9, <2>10 DEF BInv, Told
<1> QED
  BY <1>2, <1>3

LEMMA TaskTold ==
  ASSUME TInv, TypeOK', BInv, NEW k \in Tasks, TaskStep(k)
  PROVE  BInv'
<1>1. ASSUME NEW t \in Tables, EvictRows(k, t) PROVE BInv'
  <2>1. RowsApplied(k, t) /\ UNCHANGED <<version, bumps>>
    BY <1>1 DEF EvictRows, DeleteTags
  <2> QED
    BY <2>1, RowsTold, SameCounted DEF BInv, Told
<1>2. ASSUME NEW t \in Tables, BumpTable(k, t) PROVE BInv'
  <2>1. TableApplied(k, t) /\ Bump(Home[k], t, job[k].call)
    BY <1>2 DEF BumpTable
  <2>2. bumps' = bumps \cup {<<Home[k], <<t, job[k].call>>>>}
    BY <2>1 DEF Bump
  <2>3. Told'
    BY <2>1, <2>2, TableTold DEF BInv, Told
  <2>4. t \in job[k].tables /\ Home[k] \in Workers
    BY <2>1, WorkersAssumption DEF TableApplied
  <2>5. Counted /\ version \in [Tables -> Nat] /\ <<Home[k], <<t, job[k].call>>>> \notin bumps
    BY <2>4 DEF BInv, Unsent, TInv, TypeOK
  <2>6. Counted'
    BY <2>1, <2>5, BumpCounted
  <2> QED
    BY <2>3, <2>6 DEF BInv, Told
<1>3. ASSUME NEW t \in Tables, EvictionFails(k, t) PROVE BInv'
  <2>1. UNCHANGED <<version, bumps>>
    BY <1>3 DEF EvictionFails, cacheVars
  <2>2. CASE RowsApplied(k, t)
    BY <2>1, <2>2, RowsTold, SameCounted DEF BInv, Told
  <2>3. CASE TableApplied(k, t)
    BY <2>1, <2>3, TableTold, SameCounted DEF BInv, Told
  <2>4. CASE job' = [job EXCEPT ![k] = Done(job[k].call)] /\ UNCHANGED <<sending, calls, bulk, channelVars>>
    <3>1. \A j \in Tasks : job'[j].call = job[j].call /\ job'[j].tables \subseteq job[j].tables
      BY <2>4 DEF Done, TInv, TypeOK, Job
    <3>2. UNCHANGED <<sending, calls, bulk, queue>>
      BY <2>4 DEF channelVars
    <3>3. CallsApart' /\ Unsent'
      BY <2>1, <3>1, <3>2 DEF BInv, CallsApart, Unsent, Queued, Sent
    <3>4. SentOnce' /\ QueuedOnce'
      BY <2>1, <3>2 DEF BInv, SentOnce, QueuedOnce, Queued, Sent, Ignored
    <3> QED
      BY <2>1, <3>3, <3>4, SameCounted DEF BInv
  <2> QED
    BY <1>3, <2>2, <2>3, <2>4 DEF EvictionFails
<1>4. CASE Published(k)
  BY <1>4, PublishedTold, SameCounted DEF BInv, Told, Published, cacheVars
<1>5. CASE PublishFails(k)
  <2>1. /\ sending' = [sending EXCEPT ![k] = {}]
        /\ UNCHANGED <<version, bumps, job, calls, bulk, queue>>
    BY <1>5 DEF PublishFails, cacheVars, channelVars
  <2>2. \A j \in Tasks : sending'[j] \subseteq sending[j]
    BY <2>1 DEF TInv, TypeOK
  <2>3. Fewer
    <3> SUFFICES ASSUME NEW v \in Workers
                 PROVE  \E d \in Nat : \A i \in DOMAIN queue'[v] :
                            i + d \in DOMAIN queue[v] /\ queue'[v][i] = queue[v][i + d]
      BY DEF Fewer
    <3>1. queue[v] \in Seq(Event) /\ queue'[v] = queue[v]
      BY <2>1 DEF TInv, TypeOK
    <3>2. \A i \in DOMAIN queue'[v] : i + 0 \in DOMAIN queue[v] /\ queue'[v][i] = queue[v][i + 0]
      BY <3>1
    <3> QED
      BY <3>2
  <2> QED
    BY <2>1, <2>2, <2>3, FewerTold, SameCounted DEF BInv, Told
<1> QED
  BY <1>1, <1>2, <1>3, <1>4, <1>5 DEF TaskStep

LEMMA BInvStep == TInv /\ BInv /\ [Next]_vars => BInv'
<1> SUFFICES ASSUME TInv, BInv, [Next]_vars PROVE BInv'
  OBVIOUS
<1>1. TypeOK'
  BY TInvStep DEF TInv
<1>2. ASSUME NEW k \in Tasks, TaskStep(k) PROVE BInv'
  BY <1>1, <1>2, TaskTold
<1>3. ASSUME NEW k \in Tasks, NEW r \in Requests, Invalidate(k, r) PROVE BInv'
  <2>1. UNCHANGED <<version, bumps>>
    BY <1>3 DEF Invalidate
  <2> QED
    BY <1>3, <2>1, InvalidateTold, SameCounted DEF BInv, Told
<1>4. ASSUME NEW w \in Workers, ListenerStep(w) PROVE BInv'
  BY <1>1, <1>4, ListenerTold
<1>5. ASSUME NEW w \in Workers, LinkLost(w) PROVE BInv'
  <2>1. PICK n \in 0..Len(queue[w]) : queue' = [queue EXCEPT ![w] = SubSeq(queue[w], 1, n)]
    BY <1>5 DEF LinkLost
  <2>2. UNCHANGED <<version, bumps, job, sending, calls, bulk>>
    BY <1>5 DEF LinkLost, cacheVars
  <2>3. PICK q : q = SubSeq(queue[w], 1, n)
    OBVIOUS
  <2>4. queue[w] \in Seq(Event)
    BY DEF TInv, TypeOK
  <2>5. q \in Seq(Event) /\ \A i \in DOMAIN q : i \in DOMAIN queue[w] /\ q[i] = queue[w][i]
    BY <2>3, <2>4, PrefixIndices
  <2>6. queue' = [queue EXCEPT ![w] = q]
    BY <2>1, <2>3
  <2>7. Fewer
    <3> SUFFICES ASSUME NEW v \in Workers
                 PROVE  \E d \in Nat : \A i \in DOMAIN queue'[v] :
                            i + d \in DOMAIN queue[v] /\ queue'[v][i] = queue[v][i + d]
      BY DEF Fewer
    <3>1. queue[v] \in Seq(Event) /\ queue'[v] = IF v = w THEN q ELSE queue[v]
      BY <2>6 DEF TInv, TypeOK
    <3>2. \A i \in DOMAIN queue'[v] : i \in Nat /\ i + 0 \in DOMAIN queue[v] /\ queue'[v][i] = queue[v][i + 0]
      BY <3>1, <2>4, <2>5
    <3> QED
      BY <3>2
  <2> QED
    BY <1>1, <2>2, <2>7, FewerTold, SameCounted DEF BInv, Told
<1>6. ASSUME NEW t \in Tables \cup {Nobody}, Stray(t) PROVE BInv'
  BY <1>6, StrayTold, SameCounted DEF BInv, Told, Stray, cacheVars
<1>10. ASSUME NEW t \in Tables, NEW R \in SUBSET Rows, Unversioned(t, R) PROVE BInv'
  BY <1>10, UnversionedTold, SameCounted DEF BInv, Told, Unversioned, cacheVars
<1>7. CASE InvalidateAll
  <2>1. UNCHANGED <<job, sending, queue, calls, bulk, bumps>>
    BY <1>7 DEF InvalidateAll
  <2>2. CallsApart' /\ Unsent' /\ SentOnce' /\ QueuedOnce'
    BY <2>1 DEF BInv, CallsApart, Unsent, SentOnce, QueuedOnce, Queued, Sent, Ignored
  <2>3. ASSUME NEW t \in Tables PROVE version'[t] <= Cardinality(BumpsOf(t)')
    <3>1. BumpsOf(t)' = BumpsOf(t) /\ version'[t] = 0
      BY <1>7, <2>1 DEF BumpsOf, InvalidateAll
    <3>2. Cardinality(BumpsOf(t)) \in Nat
      BY FS_Subset, FS_CardinalityType DEF BInv, Counted, BumpsOf
    <3> QED
      BY <3>1, <3>2
  <2>4. Counted'
    BY <2>1, <2>3 DEF BInv, Counted
  <2> QED
    BY <2>2, <2>4 DEF BInv
<1>8. ASSUME UNCHANGED <<job, sending, queue, calls, bulk, bumps, version>> PROVE BInv'
  <2>1. CallsApart' /\ Unsent' /\ SentOnce' /\ QueuedOnce'
    BY <1>8 DEF BInv, CallsApart, Unsent, SentOnce, QueuedOnce, Queued, Sent, Ignored
  <2> QED
    BY <1>8, <2>1, SameCounted DEF BInv
<1>9. ASSUME (\E w \in Workers : Relinked(w)) \/ (\E r \in Rows : Fill(r)) \/ UNCHANGED vars PROVE BInv'
  BY <1>8, <1>9 DEF Relinked, Fill, vars, cacheVars
<1> QED
  BY <1>2, <1>3, <1>4, <1>5, <1>6, <1>7, <1>9, <1>10 DEF Next

(* There are no more bumps of a table than workers times calls.               *)
LEMMA CountedBounded == ASSUME TInv, BInv PROVE BumpsBounded
<1> SUFFICES ASSUME NEW t \in Tables
             PROVE  version[t] <= Cardinality(Workers) * Cardinality({n \in 1..calls : <<t, n>> \in bulk})
  BY DEF BumpsBounded
<1> DEFINE N == {n \in 1..calls : <<t, n>> \in bulk}
           M == {t} \X N
<1>1. calls \in Nat /\ version[t] \in Nat /\ bumps \subseteq Workers \X bulk /\ bulk \subseteq Tables \X (1..calls)
  BY DEF TInv, TypeOK
<1>2. IsFiniteSet(1..calls)
  BY <1>1, FS_Interval
<1>3. IsFiniteSet(N)
  <2>1. N \in SUBSET (1..calls)
    OBVIOUS
  <2> QED
    BY <1>2, <2>1, FS_Subset
<1>4. IsFiniteSet({t}) /\ Cardinality({t}) = 1
  BY FS_Singleton
<1>5. IsFiniteSet(M) /\ Cardinality(M) = 1 * Cardinality(N)
  BY <1>3, <1>4, FS_Product
<1>6. IsFiniteSet(Workers)
  BY WorkersAssumption
<1>7. IsFiniteSet(Workers \X M) /\ Cardinality(Workers \X M) = Cardinality(Workers) * Cardinality(M)
  BY <1>5, <1>6, FS_Product
<1>8. BumpsOf(t) \in SUBSET (Workers \X M)
  <2> SUFFICES ASSUME NEW b \in BumpsOf(t) PROVE b \in Workers \X M
    OBVIOUS
  <2>1. b \in Workers \X bulk /\ b[2][1] = t
    BY <1>1 DEF BumpsOf
  <2>2. PICK w \in Workers, p \in bulk : b = <<w, p>>
    BY <2>1
  <2>3. PICK n \in 1..calls : p = <<t, n>>
    BY <2>1, <2>2, <1>1
  <2>4. n \in N
    BY <2>2, <2>3
  <2>5. p \in M
    BY <2>3, <2>4
  <2> QED
    BY <2>2, <2>5
<1>9. Cardinality(BumpsOf(t)) <= Cardinality(Workers \X M)
  BY <1>7, <1>8, FS_Subset
<1>10. version[t] <= Cardinality(BumpsOf(t))
  BY DEF BInv, Counted
<1>11. Cardinality(N) \in Nat /\ Cardinality(Workers) \in Nat /\ Cardinality(BumpsOf(t)) \in Nat
  BY <1>3, <1>6, <1>7, <1>8, FS_Subset, FS_CardinalityType
<1>12. Cardinality(M) = Cardinality(N)
  BY <1>5, <1>11
<1> QED
  BY <1>1, <1>7, <1>9, <1>10, <1>11, <1>12

(* Whatever a worker forwards or hears twice, the counter of a table moves no *)
(* more than once per worker and invalidation (BumpsBounded).                 *)
THEOREM CountersBounded == Spec => []BumpsBounded
<1> DEFINE IInv == TInv /\ BInv
<1>1. Init => IInv
  BY TInvInit, BInvInit
<1>2. IInv /\ [Next]_vars => IInv'
  BY TInvStep, BInvStep
<1>3. IInv => BumpsBounded
  BY CountedBounded
<1> QED
  BY <1>1, <1>2, <1>3, PTL DEF Spec

===============================================================================
