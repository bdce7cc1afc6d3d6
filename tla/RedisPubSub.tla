----------------------------- MODULE RedisPubSub -----------------------------
(***************************************************************************)
(* The pub/sub connection of one worker: bind and disconnect of its        *)
(* manager, the listener task, and the commits that publish.               *)
(*                                                                         *)
(* A step is what runs between two awaits of pubsub/redis.py.  "boss" is   *)
(* the await of the task that binds and disconnects, "loop" the await of   *)
(* the listener task, "publishing" that of each publisher.  An await that  *)
(* does not suspend is not a step: when _close_connection has ended, the   *)
(* loop creates its next client before anyone else runs.                   *)
(***************************************************************************)
EXTENDS Integers

CONSTANTS
    Publishers      \* tasks whose commits publish events

VARIABLES
    up,         \* Redis can be reached
    boss,       \* the await of bind or disconnect; "unbound": manager._pubsub is None
    loop,       \* the await of the listener task; "none": _task is None
    client,     \* _client: None, or one that is open
    pubsub,     \* _pubsub: none, made but not subscribed, subscribed, connection lost
    opened,     \* Redis clients that were created and not closed
    healthy,    \* _healthy
    stopping,   \* _stopping
    publishing  \* what each publisher has under way: a publish by this object, or by
                \* one that the manager has given up

vars == <<up, boss, loop, client, pubsub, opened, healthy, stopping, publishing>>

Closing == {"closePubsub", "closeClient"}
Listening == loop \in {"listening", "callback"}

Init ==
    /\ up \in BOOLEAN
    /\ boss = "unbound"
    /\ loop = "none"
    /\ client = "none"
    /\ pubsub = "none"
    /\ opened = 0
    /\ healthy = FALSE
    /\ stopping = FALSE
    /\ publishing = [p \in Publishers |-> "no"]

-----------------------------------------------------------------------------
(* _open_connection, up to the await of subscribe, and after it.            *)

MakeConnection ==
    /\ client' = "open"
    /\ pubsub' = "made"
    /\ opened' = opened + 1

Subscribed ==
    /\ up
    /\ pubsub' = "subscribed"
    /\ healthy' = TRUE

(* _close_connection is left at the await of unsubscribe and aclose, unless *)
(* there is no subscription; then at the await of the client's aclose.      *)
CloseStart == IF pubsub = "none" THEN "closeClient" ELSE "closePubsub"

-----------------------------------------------------------------------------
(* The manager.                                                             *)

(* bind, up to the await in connect: the object is new.  On a bound manager *)
(* it disconnects first.                                                    *)
Bind ==
    /\ boss = "unbound"
    /\ boss' = "connecting"
    /\ MakeConnection
    /\ healthy' = FALSE
    /\ stopping' = FALSE
    /\ UNCHANGED <<up, loop, publishing>>

(* connect returns, start creates the task.                                 *)
Connected ==
    /\ boss = "connecting"
    /\ Subscribed
    /\ boss' = "bound"
    /\ loop' = "created"
    /\ UNCHANGED <<up, client, opened, stopping, publishing>>

(* connect raises out of bind; the object stays where it is.                *)
ConnectFailed ==
    /\ boss = "connecting"
    /\ ~up
    /\ boss' = "failed"
    /\ UNCHANGED <<up, loop, client, pubsub, opened, healthy, stopping, publishing>>

(* Mutants: stop raises the flag and closes at once; it waits for the task     *)
(* without cancelling it.                                                     *)
Disconnect_NoTask ==
    /\ boss \in {"bound", "failed"}
    /\ stopping' = TRUE
    /\ boss' = CloseStart
    /\ healthy' = FALSE
    /\ UNCHANGED <<up, loop, client, pubsub, opened, publishing>>

Disconnect_NoCancel ==
    /\ boss \in {"bound", "failed"}
    /\ stopping' = TRUE
    /\ boss' = IF loop = "none" THEN CloseStart ELSE "cancelling"
    /\ healthy' = (healthy /\ loop # "none")
    /\ UNCHANGED <<up, loop, client, pubsub, opened, publishing>>

(* disconnect, up to the first await of stop: the task is cancelled at the  *)
(* await it is in, wherever that is.                                        *)
Disconnect ==
    /\ boss \in {"bound", "failed"}
    /\ stopping' = TRUE
    /\ IF loop = "none"
       THEN /\ boss' = CloseStart
            /\ healthy' = FALSE
            /\ UNCHANGED loop
       ELSE /\ boss' = "cancelling"
            /\ loop' = IF loop = "returned" THEN loop ELSE "cancelled"
            /\ UNCHANGED healthy
    /\ UNCHANGED <<up, client, pubsub, opened, publishing>>

(* The task has ended: stop closes what is open.                            *)
TaskEnded ==
    /\ boss = "cancelling"
    /\ loop \in {"cancelled", "returned"}
    /\ loop' = "none"
    /\ boss' = CloseStart
    /\ healthy' = FALSE
    /\ UNCHANGED <<up, client, pubsub, opened, stopping, publishing>>

PubsubClosed ==
    /\ boss = "closePubsub"
    /\ boss' = "closeClient"
    /\ pubsub' = "none"
    /\ UNCHANGED <<up, loop, client, opened, healthy, stopping, publishing>>

(* Mutant: stop forgets the client without closing it.                        *)
ClientClosed_Forgets ==
    /\ boss = "closeClient"
    /\ boss' = "unbound"
    /\ client' = "none"
    /\ publishing' = [p \in Publishers |-> IF publishing[p] = "no" THEN "no" ELSE "old"]
    /\ UNCHANGED <<up, loop, pubsub, opened, healthy, stopping>>

(* stop returns and disconnect forgets the object.                          *)
ClientClosed ==
    /\ boss = "closeClient"
    /\ boss' = "unbound"
    /\ client' = "none"
    /\ opened' = opened - 1
    /\ publishing' = [p \in Publishers |-> IF publishing[p] = "no" THEN "no" ELSE "old"]
    /\ UNCHANGED <<up, loop, pubsub, healthy, stopping>>

(* The task that calls bind or disconnect is cancelled, at a connect or a   *)
(* close: the object stays, as it is.  At the await of the listener task    *)
(* stop swallows the cancellation and goes on.                              *)
CallCancelled ==
    /\ boss \in Closing \cup {"connecting"}
    /\ boss' = "failed"
    /\ UNCHANGED <<up, loop, client, pubsub, opened, healthy, stopping, publishing>>

-----------------------------------------------------------------------------
(* The listener task.                                                       *)

(* listen() of redis-py is a generator that ends at once when nothing was   *)
(* subscribed; the loop takes that for the end and returns.                 *)
Listen == loop' = IF pubsub = "made" THEN "returned" ELSE "listening"

LoopStarted ==
    /\ loop = "created"
    /\ Listen
    /\ UNCHANGED <<up, boss, client, pubsub, opened, healthy, stopping, publishing>>

Message ==
    /\ loop = "listening"
    /\ pubsub = "subscribed"
    /\ loop' = "callback"
    /\ UNCHANGED <<up, boss, client, pubsub, opened, healthy, stopping, publishing>>

(* The callbacks have run; an exception in one of them is logged.           *)
MessageHandled ==
    /\ loop = "callback"
    /\ loop' = "listening"
    /\ UNCHANGED <<up, boss, client, pubsub, opened, healthy, stopping, publishing>>

(* Mutant: only a failed publish takes the health away.                       *)
Crashes_StaysHealthy ==
    /\ loop = "listening"
    /\ loop' = "closePubsub"
    /\ UNCHANGED <<up, boss, client, pubsub, opened, healthy, stopping, publishing>>

(* An exception ends the iteration over listen(): the loop closes the       *)
(* connection, whatever is left of it.                                      *)
Crashes ==
    /\ loop = "listening"
    /\ loop' = "closePubsub"
    /\ healthy' = FALSE
    /\ UNCHANGED <<up, boss, client, pubsub, opened, stopping, publishing>>

(* listen() raises.                                                         *)
ListenFailed == pubsub = "lost" /\ Crashes

(* A message is not UTF-8: UnicodeDecodeError is none of the errors that    *)
(* skip a message.                                                          *)
Undecodable == pubsub = "subscribed" /\ Crashes

LoopPubsubClosed ==
    /\ loop = "closePubsub"
    /\ loop' = "closeClient"
    /\ pubsub' = "none"
    /\ UNCHANGED <<up, boss, client, opened, healthy, stopping, publishing>>

(* The client is closed, the loop goes round and makes another.             *)
Reopen ==
    /\ loop = "closeClient"
    /\ loop' = "opening"
    /\ client' = "open"
    /\ pubsub' = "made"
    /\ UNCHANGED <<up, boss, opened, healthy, stopping, publishing>>

Reopened ==
    /\ loop = "opening"
    /\ Subscribed
    /\ loop' = "listening"
    /\ UNCHANGED <<up, boss, client, opened, stopping, publishing>>

(* Mutant: a failed attempt closes what it opened before it sleeps.           *)
ReopenFailed_Closes ==
    /\ loop = "opening"
    /\ ~up
    /\ loop' = "backoff"
    /\ client' = "none"
    /\ pubsub' = "none"
    /\ opened' = opened - 1
    /\ UNCHANGED <<up, boss, healthy, stopping, publishing>>

(* The attempt failed; client and subscription object stay.                 *)
ReopenFailed ==
    /\ loop = "opening"
    /\ ~up
    /\ loop' = "backoff"
    /\ UNCHANGED <<up, boss, client, pubsub, opened, healthy, stopping, publishing>>

(* After the sleep, _pubsub is not None: no new attempt is made.            *)
BackoffOver ==
    /\ loop = "backoff"
    /\ Listen
    /\ UNCHANGED <<up, boss, client, pubsub, opened, healthy, stopping, publishing>>

-----------------------------------------------------------------------------
(* Publishing, from a commit or from invalidate.                            *)

PublishStart(p) ==
    /\ boss # "unbound"
    /\ client = "open"
    /\ publishing[p] = "no"
    /\ publishing' = [publishing EXCEPT ![p] = "this"]
    /\ UNCHANGED <<up, boss, loop, client, pubsub, opened, healthy, stopping>>

PublishDone(p) ==
    /\ publishing[p] # "no"
    /\ publishing' = [publishing EXCEPT ![p] = "no"]
    /\ UNCHANGED <<up, boss, loop, client, pubsub, opened, healthy, stopping>>

(* The failure is swallowed and takes the health of the object with it.     *)
PublishFailed(p) ==
    /\ publishing[p] # "no"
    /\ publishing' = [publishing EXCEPT ![p] = "no"]
    /\ healthy' = IF publishing[p] = "this" THEN FALSE ELSE healthy
    /\ UNCHANGED <<up, boss, loop, client, pubsub, opened, stopping>>

-----------------------------------------------------------------------------
(* Redis and the network.                                                   *)

RedisDown ==
    /\ up
    /\ up' = FALSE
    /\ pubsub' = IF pubsub = "subscribed" THEN "lost" ELSE pubsub
    /\ UNCHANGED <<boss, loop, client, opened, healthy, stopping, publishing>>

RedisUp ==
    /\ ~up
    /\ up' = TRUE
    /\ UNCHANGED <<boss, loop, client, pubsub, opened, healthy, stopping, publishing>>

(* redis-py reconnects and subscribes again by itself, if it can in time.   *)
Resubscribed ==
    /\ up
    /\ loop = "listening"
    /\ pubsub = "lost"
    /\ pubsub' = "subscribed"
    /\ UNCHANGED <<up, boss, loop, client, opened, healthy, stopping, publishing>>

-----------------------------------------------------------------------------
BossStep == Connected \/ ConnectFailed \/ TaskEnded \/ PubsubClosed \/ ClientClosed

LoopStep ==
    \/ LoopStarted \/ MessageHandled
    \/ ListenFailed \/ LoopPubsubClosed \/ Reopen \/ Reopened \/ ReopenFailed \/ BackoffOver

PublishStep(p) == PublishStart(p) \/ PublishDone(p) \/ PublishFailed(p)

Environment == RedisDown \/ RedisUp \/ Resubscribed \/ Message \/ Undecodable \/ CallCancelled

Next ==
    \/ Bind \/ Disconnect \/ BossStep
    \/ LoopStep
    \/ \E p \in Publishers : PublishStep(p)
    \/ Environment

Spec == Init /\ [][Next]_vars

(* The event loop resumes a task whose await has ended, and awaits on Redis *)
(* end with a result or an error.                                           *)
Fairness == WF_vars(BossStep) /\ WF_vars(LoopStep)
FairSpec == Spec /\ Fairness

-----------------------------------------------------------------------------
(* Properties.                                                              *)

(* Every variable has its type, and there is never a second Redis client.     *)
TypeOK ==
    /\ up \in BOOLEAN /\ healthy \in BOOLEAN /\ stopping \in BOOLEAN
    /\ boss \in {"unbound", "connecting", "failed", "bound", "cancelling"} \cup Closing
    /\ loop \in {"none", "created", "listening", "callback", "opening", "backoff",
                 "returned", "cancelled"} \cup Closing
    /\ client \in {"none", "open"}
    /\ pubsub \in {"none", "made", "subscribed", "lost"}
    /\ opened \in {0, 1}
    /\ publishing \in [Publishers -> {"no", "this", "old"}]

(* A commit that publishes never gets "RedisPubSub is not connected", even    *)
(* while the listener closes its connection, opens another or waits between   *)
(* two attempts, and while the manager disconnects.                           *)
PublishFindsClient == boss # "unbound" => client = "open"

(* is_healthy() is true only while a task listens on a subscription that was  *)
(* made, or is about to find out that its connection was lost.                *)
HealthyMeansListening ==
    healthy /\ ~stopping => pubsub \in {"subscribed", "lost"} /\ (Listening \/ loop = "created")

(* Wherever disconnect() catches the listener, the task has ended and every   *)
(* client that either of them created is closed when it returns.              *)
NothingLeftOpen == boss = "unbound" => loop = "none" /\ pubsub = "none" /\ opened = 0

(* "The listener automatically reconnects on transient Redis failures": when  *)
(* Redis is back for good, a bound manager listens again.                     *)
Reconnects == <>[](up /\ boss = "bound") => []<>Listening

=============================================================================
