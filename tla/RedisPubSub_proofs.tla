------------------------- MODULE RedisPubSub_proofs -------------------------
(***************************************************************************)
(* The safety properties of RedisPubSub, for any number of publishers.     *)
(***************************************************************************)
EXTENDS RedisPubSub, TLAPS

(* The manager and its listener never both open or close.                   *)
BossAndLoop ==
    /\ boss \in {"unbound", "connecting", "failed"} \cup Closing => loop = "none"
    /\ boss = "bound" => loop \notin {"none", "cancelled"}
    /\ boss = "cancelling" => loop \in {"cancelled", "returned"}

(* There is a client, and just one, from bind to the end of disconnect; only *)
(* a disconnect under way has the flag set.                                  *)
ClientWhileBound ==
    /\ client = (IF boss = "unbound" THEN "none" ELSE "open")
    /\ opened = IF client = "open" THEN 1 ELSE 0
    /\ boss \in {"connecting", "bound"} => ~stopping
    /\ boss = "cancelling" => stopping

(* Where the subscription and the health can be.                             *)
SubscriptionState ==
    /\ boss \in {"unbound", "closeClient"} => pubsub = "none"
    /\ loop \in {"created", "listening", "callback"} => pubsub \in {"subscribed", "lost"}
    /\ loop \in {"opening", "backoff", "returned"} => pubsub = "made"
    /\ boss \in {"connecting", "failed"} => ~healthy
    /\ loop \in {"opening", "backoff", "returned"} \cup Closing => ~healthy
    /\ boss \in {"unbound", "closePubsub", "closeClient"} => ~healthy

Inv == TypeOK /\ BossAndLoop /\ ClientWhileBound /\ SubscriptionState

LEMMA InvInit == Init => Inv
BY DEF Init, Inv, TypeOK, BossAndLoop, ClientWhileBound, SubscriptionState, Closing

LEMMA BossKeepsInv ==
  ASSUME Inv, Bind \/ Disconnect \/ BossStep
  PROVE  Inv'
<1> USE DEF Inv, TypeOK, BossAndLoop, ClientWhileBound, SubscriptionState, Closing
<1>1. CASE Bind
  <2>1. opened' = 1
    BY <1>1 DEF Bind, MakeConnection
  <2> QED
    BY <1>1, <2>1 DEF Bind, MakeConnection
<1>2. CASE Disconnect
  BY <1>2 DEF Disconnect, CloseStart
<1>3. CASE Connected
  BY <1>3 DEF Connected, Subscribed
<1>4. CASE ConnectFailed
  BY <1>4 DEF ConnectFailed
<1>5. CASE TaskEnded
  BY <1>5 DEF TaskEnded, CloseStart
<1>6. CASE PubsubClosed
  BY <1>6 DEF PubsubClosed
<1>7. CASE ClientClosed
  <2>1. opened' = 0
    BY <1>7 DEF ClientClosed
  <2> QED
    BY <1>7, <2>1 DEF ClientClosed
<1> QED
  BY <1>1, <1>2, <1>3, <1>4, <1>5, <1>6, <1>7 DEF BossStep

LEMMA LoopKeepsInv ==
  ASSUME Inv, LoopStep
  PROVE  Inv'
<1> USE DEF Inv, TypeOK, BossAndLoop, ClientWhileBound, SubscriptionState, Closing
<1>1. CASE LoopStarted
  BY <1>1 DEF LoopStarted, Listen
<1>2. CASE MessageHandled
  BY <1>2 DEF MessageHandled
<1>3. CASE ListenFailed
  BY <1>3 DEF ListenFailed, Crashes
<1>4. CASE LoopPubsubClosed
  BY <1>4 DEF LoopPubsubClosed
<1>5. CASE Reopen
  BY <1>5 DEF Reopen
<1>6. CASE Reopened
  BY <1>6 DEF Reopened, Subscribed
<1>7. CASE ReopenFailed
  BY <1>7 DEF ReopenFailed
<1>8. CASE BackoffOver
  BY <1>8 DEF BackoffOver, Listen
<1> QED
  BY <1>1, <1>2, <1>3, <1>4, <1>5, <1>6, <1>7, <1>8 DEF LoopStep

(* A publisher changes nothing but its own await and, at worst, the health.  *)
LEMMA PublisherKeepsInv ==
  ASSUME Inv, NEW p \in Publishers, PublishStep(p)
  PROVE  Inv'
<1>1. UNCHANGED <<up, boss, loop, client, pubsub, opened, stopping>> /\ (healthy' = healthy \/ healthy' = FALSE)
  BY DEF PublishStep, PublishStart, PublishDone, PublishFailed
<1>2. publishing' \in [Publishers -> {"no", "this", "old"}]
  BY DEF Inv, TypeOK, PublishStep, PublishStart, PublishDone, PublishFailed
<1>3. TypeOK'
  <2>1. healthy' \in BOOLEAN
    BY <1>1 DEF Inv, TypeOK
  <2>2. up' \in BOOLEAN /\ stopping' \in BOOLEAN
    BY <1>1 DEF Inv, TypeOK
  <2> QED
    BY <1>1, <1>2, <2>1, <2>2 DEF Inv, TypeOK, Closing
<1>4. BossAndLoop' /\ ClientWhileBound' /\ SubscriptionState'
  BY <1>1 DEF Inv, BossAndLoop, ClientWhileBound, SubscriptionState, Closing
<1> QED
  BY <1>3, <1>4 DEF Inv

LEMMA EnvironmentKeepsInv ==
  ASSUME Inv, Environment
  PROVE  Inv'
<1> USE DEF Inv, TypeOK, BossAndLoop, ClientWhileBound, SubscriptionState, Closing
<1>1. CASE RedisDown
  BY <1>1 DEF RedisDown
<1>2. CASE RedisUp
  BY <1>2 DEF RedisUp
<1>3. CASE Resubscribed
  BY <1>3 DEF Resubscribed
<1>4. CASE Message
  BY <1>4 DEF Message
<1>5. CASE CallCancelled
  BY <1>5 DEF CallCancelled
<1>6. CASE Undecodable
  BY <1>6 DEF Undecodable, Crashes
<1> QED
  BY <1>1, <1>2, <1>3, <1>4, <1>5, <1>6 DEF Environment

LEMMA InvStep == ASSUME Inv, [Next]_vars PROVE Inv'
<1>1. CASE UNCHANGED vars
  BY <1>1 DEF Inv, TypeOK, BossAndLoop, ClientWhileBound, SubscriptionState, vars
<1> QED
  BY <1>1, BossKeepsInv, LoopKeepsInv, PublisherKeepsInv, EnvironmentKeepsInv DEF Next

LEMMA InvAlways == Spec => []Inv
BY InvInit, InvStep, PTL DEF Spec

(* One client at most, for any number of publishers.                         *)
THEOREM OneClient == Spec => []TypeOK
<1>1. Inv => TypeOK
  BY DEF Inv
<1> QED
  BY <1>1, InvAlways, PTL

(* However reconnects, publishes and a disconnect interleave, a publisher    *)
(* finds the client in its place.                                            *)
THEOREM PublishSafe == Spec => []PublishFindsClient
<1>1. Inv => PublishFindsClient
  BY DEF Inv, ClientWhileBound, PublishFindsClient
<1> QED
  BY <1>1, InvAlways, PTL

(* is_healthy() never claims a listener that is not there.                   *)
THEOREM HealthSound == Spec => []HealthyMeansListening
<1>1. Inv => HealthyMeansListening
  BY DEF Inv, TypeOK, BossAndLoop, ClientWhileBound, SubscriptionState, HealthyMeansListening, Listening, Closing
<1> QED
  BY <1>1, InvAlways, PTL

(* disconnect() leaves no task and no client behind.                         *)
THEOREM DisconnectComplete == Spec => []NothingLeftOpen
<1>1. Inv => NothingLeftOpen
  BY DEF Inv, BossAndLoop, ClientWhileBound, SubscriptionState, NothingLeftOpen
<1> QED
  BY <1>1, InvAlways, PTL

=============================================================================
