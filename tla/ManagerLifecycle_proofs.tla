----------------------- MODULE ManagerLifecycle_proofs -----------------------
(***************************************************************************)
(* The order in which disconnect takes things down, for any number of      *)
(* commits: the transport goes last, and no flush task is left behind.     *)
(***************************************************************************)
EXTENDS ManagerLifecycle, RedisPubSub_proofs

(* The values that the manager's variables take.                            *)
ManagerValues ==
    /\ backend \in {"redis", "mem"}
    /\ transport \in {"none", "open", "unconnected", "closing"}
    /\ listeners \in {"on", "off"}
    /\ call \in {"none", "bind", "disconnect"}
    /\ stage \in {"idle", "pubsub", "gather", "cancelledGather", "transport"}
    /\ work \in [Publishers -> {"no", "created", "evicting", "publishing", "cancelled"}]
    /\ tracked \subseteq Flushes

(* Where the call is, as the pub/sub connection sees it.                    *)
CallAndBoss ==
    /\ call = "none" => stage = "idle"
    /\ call # "none" /\ stage = "idle" => boss = "connecting"
    /\ boss = "connecting" => stage = "idle" /\ call = "bind"
    /\ boss \in {"cancelling"} \cup Closing <=> stage = "pubsub"
    /\ stage \in {"gather", "cancelledGather", "transport"} => boss = "unbound"

(* Handlers are off from the beginning of a disconnect to its end; the      *)
(* transport is there as long as anything else is.                          *)
TransportLast ==
    /\ stage # "idle" => listeners = "off"
    /\ stage = "transport" <=> transport = "closing"
    /\ transport = "none" => listeners = "off" /\ boss = "unbound"

(* A flush task is tracked exactly while it is unfinished, and has a        *)
(* transport that nobody closes.                                            *)
FlushesTracked ==
    /\ \A p \in Flushes : p \in tracked <=> work[p] # "no"
    /\ tracked # {} => transport \in {"open", "unconnected"}

MInv == Inv /\ ManagerValues /\ CallAndBoss /\ TransportLast /\ FlushesTracked

-----------------------------------------------------------------------------
(* The pub/sub connection cannot tell the manager from the bind and           *)
(* disconnect of RedisPubSub.                                                 *)

LEMMA BindFreshRefines == ASSUME BindFresh PROVE [Next]_vars
BY DEF BindFresh, Next

LEMMA DisconnectFromRefines == ASSUME NEW c, DisconnectFrom(c) PROVE [Next]_vars
BY DEF DisconnectFrom, Next

LEMMA WorkRefines ==
  ASSUME NEW p \in Publishers, Schedule(p) \/ EvictInline(p) \/ WorkStep(p)
  PROVE  [Next]_vars
BY DEF Schedule, EvictInline, WorkStep, FlushRuns, Evicted, Published, FlushCancelled, Next, PublishStep

LEMMA StepRefines == ASSUME [ManagerNext]_allVars PROVE [Next]_vars
<1>1. CASE BindCalled \/ DisconnectCalled
  BY <1>1, BindFreshRefines, DisconnectFromRefines DEF BindCalled, DisconnectCalled
<1>2. CASE ManagerStep
  BY <1>2, BindFreshRefines
     DEF ManagerStep, PubSubStep, GatherEnds, TransportFailed, TransportClosed, Next, BossStep
<1>3. CASE Cancelled \/ EnsureTransport \/ ListenerStep \/ Outside
  BY <1>3 DEF Cancelled, EnsureTransport, ListenerStep, Outside, Next, Environment
<1>4. CASE UNCHANGED allVars
  BY <1>4 DEF allVars
<1> QED
  BY <1>1, <1>2, <1>3, <1>4, WorkRefines DEF ManagerNext

-----------------------------------------------------------------------------
(* One lemma for each part of the manager.                                    *)

LEMMA MInvInit == ManagerInit => MInv
<1> SUFFICES ASSUME ManagerInit PROVE MInv
  OBVIOUS
<1>1. Inv
  BY InvInit DEF ManagerInit
<1>2. boss = "unbound"
  BY DEF ManagerInit, Init
<1>3. ManagerValues
  BY DEF ManagerInit, ManagerValues
<1>4. CallAndBoss
  BY <1>2 DEF ManagerInit, CallAndBoss, Closing
<1>5. TransportLast
  BY <1>2 DEF ManagerInit, TransportLast
<1>6. FlushesTracked
  BY FlushesAssumption DEF ManagerInit, FlushesTracked
<1> QED
  BY <1>1, <1>3, <1>4, <1>5, <1>6 DEF MInv

LEMMA BindFreshStep ==
  ASSUME MInv, BindFresh, boss = "unbound", tracked = {}, UNCHANGED <<backend, work, tracked>>,
         transport = "none" \/ stage = "transport"
  PROVE  ManagerValues' /\ CallAndBoss' /\ TransportLast' /\ FlushesTracked'
<1>1. boss' \in {"unbound", "connecting"} /\ transport' \in {"open", "unconnected"} /\ stage' = "idle"
  BY DEF BindFresh, Connects, ConnectFails, CallEnds, Bind, vars
<1>2. IF boss' = "connecting" THEN call' = "bind" ELSE call' = "none"
  BY DEF BindFresh, CallEnds, Bind, vars
<1>3. listeners' \in {"on", "off"}
  BY DEF MInv, ManagerValues, BindFresh
<1> QED
  BY <1>1, <1>2, <1>3 DEF MInv, ManagerValues, CallAndBoss, TransportLast, FlushesTracked, Closing

LEMMA GatherFlushesStep ==
  ASSUME MInv, NEW c \in {"bind", "disconnect"}, GatherFlushes(c), boss' = "unbound",
         listeners' = "off", stage # "transport", UNCHANGED <<backend, work, tracked>>
  PROVE  ManagerValues' /\ CallAndBoss' /\ TransportLast' /\ FlushesTracked'
<1>1. CASE tracked = {}
  BY <1>1 DEF MInv, ManagerValues, CallAndBoss, TransportLast, FlushesTracked, Closing,
              GatherFlushes, CloseTransport, CallEnds
<1>2. CASE tracked # {}
  BY <1>2 DEF MInv, ManagerValues, CallAndBoss, TransportLast, FlushesTracked, Closing, GatherFlushes
<1> QED
  BY <1>1, <1>2

LEMMA DisconnectFromStep ==
  ASSUME MInv, NEW c \in {"bind", "disconnect"}, DisconnectFrom(c), call = "none"
  PROVE  ManagerValues' /\ CallAndBoss' /\ TransportLast' /\ FlushesTracked'
<1>1. stage = "idle" /\ listeners' = "off" /\ UNCHANGED <<backend, work, tracked>>
  BY DEF MInv, CallAndBoss, DisconnectFrom
<1>2. CASE boss = "unbound"
  <2>1. GatherFlushes(c) /\ boss' = "unbound"
    BY <1>2 DEF DisconnectFrom, vars
  <2> QED
    BY <1>1, <2>1, GatherFlushesStep
<1>3. CASE boss # "unbound"
  <2>1. call' = c /\ stage' = "pubsub" /\ transport' = transport
    BY <1>3 DEF DisconnectFrom
  <2>2. boss' \in {"cancelling"} \cup Closing
    BY <1>3 DEF DisconnectFrom, Disconnect, CloseStart, Closing
  <2> QED
    BY <1>1, <1>3, <2>1, <2>2 DEF MInv, ManagerValues, CallAndBoss, TransportLast, FlushesTracked, Closing
<1> QED
  BY <1>2, <1>3

LEMMA PubSubStepKeeps ==
  ASSUME MInv, PubSubStep
  PROVE  ManagerValues' /\ CallAndBoss' /\ TransportLast' /\ FlushesTracked'
<1> USE DEF MInv, ManagerValues, CallAndBoss, TransportLast, FlushesTracked, Closing
<1>1. UNCHANGED <<backend, listeners, work, tracked>>
  BY DEF PubSubStep
<1>2. CASE (Connected \/ ConnectFailed) /\ CallEnds /\ UNCHANGED transport
  <2>1. boss = "connecting" /\ boss' \in {"bound", "failed"}
    BY <1>2 DEF Connected, ConnectFailed
  <2> QED
    BY <1>1, <1>2, <2>1 DEF CallEnds
<1>3. CASE (TaskEnded \/ PubsubClosed) /\ UNCHANGED <<call, stage, transport>>
  <2>1. boss \in {"cancelling", "closePubsub"} /\ boss' \in {"closePubsub", "closeClient"}
    BY <1>3 DEF TaskEnded, PubsubClosed, CloseStart
  <2> QED
    BY <1>1, <1>3, <2>1
<1>4. CASE ClientClosed /\ GatherFlushes(call)
  <2>1. boss = "closeClient" /\ boss' = "unbound"
    BY <1>4 DEF ClientClosed
  <2>2. stage = "pubsub" /\ call \in {"bind", "disconnect"} /\ listeners' = "off"
    BY <1>1, <2>1
  <2> QED
    BY <1>1, <1>4, <2>1, <2>2, GatherFlushesStep
<1> QED
  BY <1>2, <1>3, <1>4 DEF PubSubStep

LEMMA CallStepKeeps ==
  ASSUME MInv, BindCalled \/ DisconnectCalled \/ ManagerStep \/ Cancelled \/ EnsureTransport
  PROVE  ManagerValues' /\ CallAndBoss' /\ TransportLast' /\ FlushesTracked'
<1>1. CASE BindCalled
  <2>1. CASE transport = "none"
    <3>1. boss = "unbound" /\ tracked = {}
      BY <2>1 DEF MInv, TransportLast, FlushesTracked
    <3> QED
      BY <1>1, <2>1, <3>1, BindFreshStep DEF BindCalled
  <2>2. CASE transport # "none"
    BY <1>1, <2>2, DisconnectFromStep DEF BindCalled
  <2> QED
    BY <2>1, <2>2
<1>2. CASE DisconnectCalled
  BY <1>2, DisconnectFromStep DEF DisconnectCalled
<1>3. CASE PubSubStep
  BY <1>3, PubSubStepKeeps
<1>4. CASE GatherEnds
  <2>1. boss' = boss /\ UNCHANGED <<backend, listeners, work, tracked>> /\ tracked = {}
    BY <1>4 DEF GatherEnds, vars
  <2>2. CASE stage = "gather"
    BY <1>4, <2>1, <2>2 DEF MInv, ManagerValues, CallAndBoss, TransportLast, FlushesTracked, Closing,
                            GatherEnds, CloseTransport, CallEnds
  <2>3. CASE stage = "cancelledGather"
    BY <1>4, <2>1, <2>3 DEF MInv, ManagerValues, CallAndBoss, TransportLast, FlushesTracked, Closing,
                            GatherEnds, CallEnds
  <2> QED
    BY <1>4, <2>2, <2>3 DEF GatherEnds
<1>5. CASE TransportFailed
  BY <1>5 DEF MInv, ManagerValues, CallAndBoss, TransportLast, FlushesTracked, Closing,
              TransportFailed, CallEnds, vars
<1>6. CASE TransportClosed
  <2>1. boss = "unbound" /\ tracked = {} /\ stage = "transport" /\ UNCHANGED <<backend, work, tracked>>
    BY <1>6 DEF MInv, CallAndBoss, TransportLast, FlushesTracked, TransportClosed
  <2>2. CASE call = "bind" /\ BindFresh
    BY <2>1, <2>2, BindFreshStep
  <2>3. CASE transport' = "none" /\ CallEnds /\ UNCHANGED <<vars, listeners>>
    BY <2>1, <2>3 DEF MInv, ManagerValues, CallAndBoss, TransportLast, FlushesTracked, Closing, CallEnds, vars
  <2> QED
    BY <1>6, <2>2, <2>3 DEF TransportClosed
<1>7. CASE Cancelled
  <2>1. UNCHANGED <<backend, listeners, tracked>>
    BY <1>7 DEF Cancelled
  <2>2. CASE CallCancelled /\ CallEnds /\ UNCHANGED <<transport, work>>
    <3>1. boss \in Closing \cup {"connecting"} /\ boss' = "failed"
      BY <2>2 DEF CallCancelled
    <3> QED
      BY <2>1, <2>2, <3>1 DEF MInv, ManagerValues, CallAndBoss, TransportLast, FlushesTracked, Closing, CallEnds
  <2>3. CASE stage = "gather" /\ stage' = "cancelledGather" /\ UNCHANGED <<vars, call, transport>>
             /\ work' = [p \in Publishers |-> IF p \in tracked THEN "cancelled" ELSE work[p]]
    <3>1. boss' = boss
      BY <2>3 DEF vars
    <3>2. FlushesTracked'
      BY <2>1, <2>3, FlushesAssumption DEF MInv, FlushesTracked
    <3> QED
      BY <2>1, <2>3, <3>1, <3>2 DEF MInv, ManagerValues, CallAndBoss, TransportLast, Closing
  <2>4. CASE stage = "transport" /\ transport' = "unconnected" /\ CallEnds /\ UNCHANGED <<vars, work>>
    BY <2>1, <2>4 DEF MInv, ManagerValues, CallAndBoss, TransportLast, FlushesTracked, Closing, CallEnds, vars
  <2> QED
    BY <1>7, <2>2, <2>3, <2>4 DEF Cancelled
<1>8. CASE EnsureTransport
  BY <1>8 DEF MInv, ManagerValues, CallAndBoss, TransportLast, FlushesTracked, Closing,
              EnsureTransport, Connects, ConnectFails, vars
<1> QED
  BY <1>1, <1>2, <1>3, <1>4, <1>5, <1>6, <1>7, <1>8 DEF ManagerStep

LEMMA WorkKeeps ==
  ASSUME MInv, NEW p \in Publishers, Schedule(p) \/ EvictInline(p) \/ WorkStep(p)
  PROVE  ManagerValues' /\ CallAndBoss' /\ TransportLast' /\ FlushesTracked'
<1>1. boss' = boss /\ UNCHANGED <<backend, transport, listeners, call, stage>>
  BY DEF Schedule, EvictInline, WorkStep, FlushRuns, Evicted, Published, FlushCancelled, WorkEnds, CommitFrame,
         PublishStart, PublishDone, PublishFailed, vars
<1>2. CallAndBoss' /\ TransportLast'
  BY <1>1 DEF MInv, CallAndBoss, TransportLast, Closing
<1>3. work \in [Publishers -> {"no", "created", "evicting", "publishing", "cancelled"}] /\ tracked \subseteq Flushes
  BY DEF MInv, ManagerValues
<1>4. CASE Schedule(p)
  <2>1. work' = [work EXCEPT ![p] = "created"] /\ tracked' = tracked \cup {p} /\ p \in Flushes
        /\ listeners = "on" /\ transport # "none"
    BY <1>4 DEF Schedule
  <2>2. transport \in {"open", "unconnected"}
    BY <2>1 DEF MInv, ManagerValues, TransportLast
  <2> QED
    BY <1>1, <1>2, <1>3, <2>1, <2>2, FlushesAssumption DEF MInv, ManagerValues, FlushesTracked
<1>5. CASE EvictInline(p)
  BY <1>1, <1>2, <1>3, <1>5, FlushesAssumption DEF EvictInline, MInv, ManagerValues, FlushesTracked
<1>6. ASSUME WorkEnds(p) PROVE ManagerValues' /\ FlushesTracked'
  BY <1>1, <1>3, <1>6, FlushesAssumption DEF WorkEnds, MInv, ManagerValues, FlushesTracked
<1>7. ASSUME work[p] # "no", tracked' = tracked, NEW w \in {"evicting", "publishing"}, work' = [work EXCEPT ![p] = w]
      PROVE  ManagerValues' /\ FlushesTracked'
  BY <1>1, <1>3, <1>7, FlushesAssumption DEF MInv, ManagerValues, FlushesTracked
<1>8. CASE WorkStep(p)
  BY <1>2, <1>6, <1>7, <1>8 DEF WorkStep, FlushRuns, Evicted, Published, FlushCancelled
<1> QED
  BY <1>4, <1>5, <1>2, <1>8

LEMMA ListenerKeeps ==
  ASSUME MInv, ListenerStep \/ Outside \/ UNCHANGED allVars
  PROVE  ManagerValues' /\ CallAndBoss' /\ TransportLast' /\ FlushesTracked'
<1>1. UNCHANGED <<backend, transport, listeners, call, stage, work, tracked>>
  BY DEF ListenerStep, Outside, allVars
<1>2. boss' = boss
  BY DEF ListenerStep, Outside, allVars, vars, LoopStep, LoopStarted, MessageHandled, ListenFailed, LoopPubsubClosed,
         Reopen, Reopened, ReopenFailed, BackoffOver, RedisDown, RedisUp, Resubscribed, Message, Undecodable, Crashes
<1> QED
  BY <1>1, <1>2 DEF MInv, ManagerValues, CallAndBoss, TransportLast, FlushesTracked, Closing

LEMMA MInvStep == MInv /\ [ManagerNext]_allVars => MInv'
<1> SUFFICES ASSUME MInv, [ManagerNext]_allVars PROVE MInv'
  OBVIOUS
<1>1. Inv'
  BY StepRefines, InvStep DEF MInv
<1>2. ManagerValues' /\ CallAndBoss' /\ TransportLast' /\ FlushesTracked'
  BY CallStepKeeps, WorkKeeps, ListenerKeeps DEF ManagerNext
<1> QED
  BY <1>1, <1>2 DEF MInv

LEMMA MInvAlways == ManagerSpec => []MInv
BY MInvInit, MInvStep, PTL DEF ManagerSpec

(* What RedisPubSub says of bind and disconnect is what the manager does:     *)
(* each of its theorems holds of the pub/sub connection of a manager.         *)
THEOREM ManagerDrivesPubSub == ManagerSpec => Spec
<1>1. ManagerInit => Init
  BY DEF ManagerInit
<1> QED
  BY <1>1, StepRefines, PTL DEF ManagerSpec, Spec

(* Whichever call fails or is cancelled, handlers, pub/sub connection,        *)
(* listener and flush tasks never outlive the transport.                      *)
THEOREM TransportGoesLast == ManagerSpec => []NothingOutlivesTransport
<1>1. MInv => NothingOutlivesTransport
  BY DEF MInv, Inv, BossAndLoop, TransportLast, FlushesTracked, NothingOutlivesTransport
<1> QED
  BY <1>1, MInvAlways, PTL

(* No flush task of a sync session is left behind by a disconnect or loses    *)
(* its transport to one.                                                      *)
THEOREM FlushesAreAwaited == ManagerSpec => []FlushesFinish
<1>1. MInv => FlushesFinish
  BY DEF MInv, FlushesTracked, FlushesFinish
<1> QED
  BY <1>1, MInvAlways, PTL

=============================================================================
