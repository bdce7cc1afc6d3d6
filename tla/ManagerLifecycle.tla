--------------------------- MODULE ManagerLifecycle ---------------------------
(***************************************************************************)
(* bind and disconnect of one CacheManager, with all that they set up and  *)
(* take down: the transport, the event listeners, the pub/sub connection   *)
(* (module RedisPubSub), the flush tasks of sync sessions.  One task at a  *)
(* time binds or disconnects; it may be cancelled.  Commits, calls of the  *)
(* manual API and the listener task run between any two of its awaits.     *)
(***************************************************************************)
EXTENDS RedisPubSub

CONSTANTS
    Flushes         \* commits of sync sessions; the other publishers are commits
                    \* of async sessions and calls of invalidate

ASSUME FlushesAssumption == Flushes \subseteq Publishers

VARIABLES
    backend,    \* the scheme of the backend URL
    transport,  \* _transport: None, connected, not connected, being closed
    listeners,  \* _listeners: the event handlers are registered or not
    call,       \* the call under way: bind, disconnect or none
    stage,      \* where in disconnect that call is
    work,       \* the await of each commit that evicts
    tracked     \* _pending_tasks

allVars == <<vars, backend, transport, listeners, call, stage, work, tracked>>

ManagerInit ==
    /\ Init
    /\ backend \in {"redis", "mem"}
    /\ transport = "none"
    /\ listeners = "off"
    /\ call = "none"
    /\ stage = "idle"
    /\ work = [p \in Publishers |-> "no"]
    /\ tracked = {}

-----------------------------------------------------------------------------
(* _ensure_transport, when there is none.  connect does not suspend; when   *)
(* it fails, loudly or suppressed, _transport stays, and is not tried again.*)

Connects == transport' = "open"
ConnectFails == transport' = "unconnected"

(* execute, invalidate and invalidate_all make a transport on a manager that *)
(* is not bound, too.                                                       *)
EnsureTransport ==
    /\ transport = "none"
    /\ Connects \/ ConnectFails
    /\ UNCHANGED <<vars, backend, listeners, call, stage, work, tracked>>

-----------------------------------------------------------------------------
(* bind, once nothing is left of an earlier one.                            *)

CallEnds == call' = "none" /\ stage' = "idle"

BindFresh ==
    \/ /\ Connects \/ ConnectFails
       /\ listeners' = "on"
       /\ IF backend = "redis"
          THEN Bind /\ call' = "bind" /\ stage' = "idle"
          ELSE CallEnds /\ UNCHANGED vars
    \/ ConnectFails /\ CallEnds /\ UNCHANGED <<vars, listeners>>

-----------------------------------------------------------------------------
(* disconnect: listeners, pub/sub, flush tasks, transport, in this order.   *)
(* c is the call that disconnects: a bind goes on when this is over.        *)

CloseTransport(c) ==
    IF transport = "none"
    THEN CallEnds /\ UNCHANGED transport
    ELSE call' = c /\ stage' = "transport" /\ transport' = "closing"

(* Mutant: the flush tasks are left to themselves.                            *)
GatherFlushes_None(c) == CloseTransport(c)

GatherFlushes(c) ==
    IF tracked = {}
    THEN CloseTransport(c)
    ELSE call' = c /\ stage' = "gather" /\ UNCHANGED transport

(* Mutant: the listeners stay until the end.                                  *)
DisconnectFrom_Listening(c) ==
    /\ IF boss = "unbound"
       THEN GatherFlushes(c) /\ UNCHANGED vars
       ELSE Disconnect /\ call' = c /\ stage' = "pubsub" /\ UNCHANGED transport
    /\ UNCHANGED <<backend, listeners, work, tracked>>

DisconnectFrom(c) ==
    /\ listeners' = "off"
    /\ IF boss = "unbound"
       THEN GatherFlushes(c) /\ UNCHANGED vars
       ELSE Disconnect /\ call' = c /\ stage' = "pubsub" /\ UNCHANGED transport
    /\ UNCHANGED <<backend, work, tracked>>

BindCalled ==
    /\ call = "none"
    /\ IF transport = "none"
       THEN BindFresh /\ UNCHANGED <<backend, work, tracked>>
       ELSE DisconnectFrom("bind")

DisconnectCalled == call = "none" /\ DisconnectFrom("disconnect")

(* Awaits of the pub/sub part, with what the manager does when they end.    *)
PubSubStep ==
    /\ \/ (Connected \/ ConnectFailed) /\ CallEnds /\ UNCHANGED transport
       \/ (TaskEnded \/ PubsubClosed) /\ UNCHANGED <<call, stage, transport>>
       \/ ClientClosed /\ GatherFlushes(call)
    /\ UNCHANGED <<backend, listeners, work, tracked>>

GatherEnds ==
    /\ stage \in {"gather", "cancelledGather"}
    /\ tracked = {}
    /\ IF stage = "gather" THEN CloseTransport(call) ELSE CallEnds /\ UNCHANGED transport
    /\ UNCHANGED <<vars, backend, listeners, work, tracked>>

(* transport.disconnect raises: the transport stays, and the call ends.     *)
TransportFailed ==
    /\ stage = "transport"
    /\ transport' = "unconnected"
    /\ CallEnds
    /\ UNCHANGED <<vars, backend, listeners, work, tracked>>

TransportClosed ==
    /\ stage = "transport"
    /\ \/ /\ call = "disconnect"
          /\ transport' = "none"
          /\ CallEnds
          /\ UNCHANGED <<vars, listeners>>
       \/ call = "bind" /\ BindFresh
    /\ UNCHANGED <<backend, work, tracked>>

(* The calling task is cancelled, by a timeout say.  A gather passes that on *)
(* to the flush tasks, and waits for them.                                  *)
Cancelled ==
    /\ \/ CallCancelled /\ CallEnds /\ UNCHANGED <<transport, work>>
       \/ /\ stage = "gather"
          /\ stage' = "cancelledGather"
          /\ work' = [p \in Publishers |-> IF p \in tracked THEN "cancelled" ELSE work[p]]
          /\ UNCHANGED <<vars, call, transport>>
       \/ /\ stage = "transport"
          /\ transport' = "unconnected"
          /\ CallEnds
          /\ UNCHANGED <<vars, work>>
    /\ UNCHANGED <<backend, listeners, tracked>>

-----------------------------------------------------------------------------
(* Commits.  The after_commit handler of a sync session creates a task; that *)
(* of an async session evicts at once, as invalidate does, and is tracked   *)
(* nowhere.                                                                 *)

CommitFrame == UNCHANGED <<backend, transport, listeners, call, stage>>

Schedule(p) ==
    /\ p \in Flushes
    /\ listeners = "on" /\ transport # "none"
    /\ work[p] = "no"
    /\ work' = [work EXCEPT ![p] = "created"]
    /\ tracked' = tracked \cup {p}
    /\ UNCHANGED vars /\ CommitFrame

EvictInline(p) ==
    /\ p \in Publishers \ Flushes
    /\ transport # "none"
    /\ work[p] = "no"
    /\ work' = [work EXCEPT ![p] = "evicting"]
    /\ UNCHANGED <<vars, tracked>> /\ CommitFrame

WorkEnds(p) ==
    /\ work' = [work EXCEPT ![p] = "no"]
    /\ tracked' = tracked \ {p}
    /\ CommitFrame

(* The task runs: it takes the transport that is there now, if any.         *)
FlushRuns(p) ==
    /\ work[p] = "created"
    /\ IF transport = "none"
       THEN WorkEnds(p)
       ELSE work' = [work EXCEPT ![p] = "evicting"] /\ UNCHANGED tracked /\ CommitFrame
    /\ UNCHANGED vars

(* The eviction is over: it failed, or there is nowhere to publish it, or   *)
(* publish is awaited.                                                      *)
Evicted(p) ==
    /\ work[p] = "evicting"
    /\ \/ WorkEnds(p) /\ UNCHANGED vars
       \/ /\ PublishStart(p)
          /\ work' = [work EXCEPT ![p] = "publishing"]
          /\ UNCHANGED tracked /\ CommitFrame

Published(p) ==
    /\ work[p] = "publishing"
    /\ PublishDone(p) \/ PublishFailed(p)
    /\ WorkEnds(p)

FlushCancelled(p) ==
    /\ work[p] = "cancelled"
    /\ IF publishing[p] = "no" THEN UNCHANGED vars ELSE PublishDone(p)
    /\ WorkEnds(p)

-----------------------------------------------------------------------------
ManagerStep == PubSubStep \/ GatherEnds \/ TransportFailed \/ TransportClosed

WorkStep(p) == FlushRuns(p) \/ Evicted(p) \/ Published(p) \/ FlushCancelled(p)

(* The listener task and Redis, which know nothing of the manager.          *)
ListenerStep == LoopStep /\ UNCHANGED <<backend, transport, listeners, call, stage, work, tracked>>

Outside ==
    /\ RedisDown \/ RedisUp \/ Resubscribed \/ Message \/ Undecodable
    /\ UNCHANGED <<backend, transport, listeners, call, stage, work, tracked>>

ManagerNext ==
    \/ BindCalled \/ DisconnectCalled \/ ManagerStep \/ Cancelled \/ EnsureTransport
    \/ \E p \in Publishers : Schedule(p) \/ EvictInline(p) \/ WorkStep(p)
    \/ ListenerStep
    \/ Outside

ManagerSpec == ManagerInit /\ [][ManagerNext]_allVars

(* The event loop resumes a task whose await has ended; an await on the     *)
(* cache or on Redis ends with a result or an error.                        *)
ManagerFairness ==
    /\ WF_allVars(ManagerStep) /\ WF_allVars(ListenerStep)
    /\ \A p \in Publishers : WF_allVars(WorkStep(p))

FairManagerSpec == ManagerSpec /\ ManagerFairness

-----------------------------------------------------------------------------
(* Properties.                                                              *)

(* The transport is the last to go, whichever call was cancelled or failed    *)
(* half-way: while a handler is registered, an event is being applied, the    *)
(* pub/sub connection is there or a flush task is unfinished, _transport is   *)
(* not None.  bind relies on it when it tests _transport alone, and the       *)
(* handlers and on_invalidate when they use it.                               *)
NothingOutlivesTransport ==
    transport = "none" =>
        listeners = "off" /\ boss = "unbound" /\ loop = "none" /\ tracked = {}

(* A disconnect leaves no flush task of a sync session behind: one that has   *)
(* not ended is there for flush_pending and the next disconnect to await, and *)
(* its transport is not closed under it, whichever call was cancelled before. *)
(* (A disconnect that is cancelled while it waits cancels these tasks too,    *)
(* and their evictions are lost; inline evictions are waited for by nobody.)  *)
FlushesFinish ==
    \A p \in Flushes : work[p] # "no" => p \in tracked /\ transport \in {"open", "unconnected"}

(* Every bind and every disconnect ends, whatever Redis, the cache, the       *)
(* listener and the flush tasks are doing.                                    *)
CallsEnd == call # "none" ~> call = "none"

=============================================================================
