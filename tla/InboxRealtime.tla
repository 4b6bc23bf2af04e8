----------------------------- MODULE InboxRealtime -----------------------------
(***************************************************************************)
(* InboxEventsController.stream and InboxRealtimeService: the event        *)
(* streams of one API process, the slots, listeners, closers and timers    *)
(* they hold, and the Redis subscription they share.  Each action is what  *)
(* runs between two awaits, or one callback.                               *)
(***************************************************************************)
EXTENDS Integers, FiniteSets

CONSTANTS Streams,        \* requests for the event stream
          TenantOf,       \* the tenant of each
          MaxConnections  \* INBOX_SSE_MAX_CONNECTIONS

VARIABLES at,             \* where each request stands
          closed,         \* streams whose close() has run
          listeners,      \* streams with a listener on their tenant
          closers,        \* streams with a registered closer
          timers,         \* streams with a heartbeat interval
          activeConnections,
          subscriberStatus,  \* of the Redis client: wait, connecting, ready, down, end
          subscribed,
          ungreeted,      \* history: streams whose first write failed
          stopping        \* onModuleDestroy has run

streamVars == <<at, closed, listeners, closers, timers, activeConnections,
                subscriberStatus, subscribed, ungreeted, stopping>>

ASSUME StreamAssumption == MaxConnections \in Nat

StreamInit ==
  /\ at = [c \in Streams |-> "new"]
  /\ closed = {} /\ listeners = {} /\ closers = {} /\ timers = {}
  /\ activeConnections = 0
  /\ subscriberStatus = "wait"
  /\ subscribed = FALSE
  /\ ungreeted = {}
  /\ stopping = FALSE

TryAcquireConnection == activeConnections < MaxConnections
ReleaseConnections(n) == IF activeConnections > n THEN activeConnections - n ELSE 0

(***************************************************************************)
(* close() of each stream of a set: the first call frees what it holds.    *)
(***************************************************************************)
FreeAll(set) ==
  /\ closed' = closed \cup set
  /\ timers' = timers \ set
  /\ listeners' = listeners \ set
  /\ closers' = closers \ set
  /\ activeConnections' = ReleaseConnections(Cardinality(set))
Close(set) == FreeAll(set \ closed)
KeepStreams == UNCHANGED <<closed, timers, listeners, closers, activeConnections>>

(***************************************************************************)
(* ensureSubscriber, up to its next await.  Without an offline queue a     *)
(* SUBSCRIBE is refused unless the client is ready.                        *)
(***************************************************************************)
AfterConnect(status) ==
  IF subscribed THEN "subscribed" ELSE IF status = "ready" THEN "subscribing" ELSE "rejected"

RefuseStream(c) ==
  /\ at[c] = "new"
  /\ ~TryAcquireConnection
  /\ at' = [at EXCEPT ![c] = "refused"]
  /\ UNCHANGED <<subscriberStatus, subscribed, ungreeted, stopping>>
  /\ KeepStreams

StartStream(c) ==
  /\ at[c] = "new"
  /\ TryAcquireConnection
  /\ \/ /\ subscriberStatus = "end"
        /\ at' = [at EXCEPT ![c] = "failed"]
        /\ closed' = closed \cup {c}
        /\ UNCHANGED <<activeConnections, closers, subscriberStatus>>
     \/ /\ subscriberStatus # "end"
        /\ activeConnections' = activeConnections + 1
        /\ closers' = closers \cup {c}
        /\ at' = [at EXCEPT ![c] = IF subscriberStatus = "wait" THEN "connecting"
                                     ELSE AfterConnect(subscriberStatus)]
        /\ subscriberStatus' = IF subscriberStatus = "wait" THEN "connecting" ELSE subscriberStatus
        /\ UNCHANGED closed
  /\ UNCHANGED <<listeners, timers, subscribed, ungreeted, stopping>>

Connects ==
  /\ subscriberStatus = "connecting"
  /\ subscriberStatus' = "ready"
  /\ at' = [c \in Streams |-> IF at[c] = "connecting" THEN AfterConnect("ready") ELSE at[c]]
  /\ UNCHANGED <<subscribed, ungreeted, stopping>>
  /\ KeepStreams

(* The await rejects: stream's catch closes and answers 503.               *)
FailStreams(set) ==
  /\ at' = [c \in Streams |-> IF c \in set THEN "failed" ELSE at[c]]
  /\ Close(set)

ConnectFails ==
  /\ subscriberStatus = "connecting"
  /\ subscriberStatus' = "down"
  /\ FailStreams({c \in Streams : at[c] = "connecting"})
  /\ UNCHANGED <<subscribed, ungreeted, stopping>>

SubscribeFails(c) ==
  /\ at[c] \in {"subscribing", "rejected"}
  /\ FailStreams({c})
  /\ UNCHANGED <<subscriberStatus, subscribed, ungreeted, stopping>>

(***************************************************************************)
(* subscribe() adds the listener; a stream that was closed meanwhile takes *)
(* it back.  The greeting may find the client too slow, which closes the   *)
(* stream; the heartbeat is started all the same.                          *)
(***************************************************************************)
OpenStream(c, greeted) ==
  /\ ungreeted' = IF greeted THEN ungreeted ELSE ungreeted \cup {c}
  /\ timers' = timers \cup {c}
  /\ listeners' = IF greeted THEN listeners \cup {c} ELSE listeners
  /\ IF greeted THEN UNCHANGED <<closed, closers, activeConnections>>
     ELSE /\ closed' = closed \cup {c}
          /\ closers' = closers \ {c}
          /\ activeConnections' = ReleaseConnections(1)
Finish(c, greeted) ==
  IF c \in closed THEN KeepStreams /\ UNCHANGED ungreeted ELSE OpenStream(c, greeted)

Subscribes(c) ==
  /\ \/ at[c] = "subscribing" /\ subscriberStatus = "ready"
     \/ at[c] = "subscribed"
  /\ subscribed' = TRUE
  /\ at' = [at EXCEPT ![c] = "done"]
  /\ \E greeted \in BOOLEAN : Finish(c, greeted)
  /\ UNCHANGED <<subscriberStatus, stopping>>

-----------------------------------------------------------------------------
(* The client goes away.                                                   *)
ClientCloses(c) ==
  /\ at[c] \notin {"new", "refused"}
  /\ Close({c})
  /\ UNCHANGED <<at, subscriberStatus, subscribed, ungreeted, stopping>>

(* dispatch: a well-formed envelope goes to the listeners of its tenant;   *)
(* a write that reports backpressure closes its stream.                    *)
SafeEnvelope(e) == e.wellFormed /\ \E c \in Streams : TenantOf[c] = e.tenant
Dispatch ==
  /\ subscribed
  /\ subscriberStatus = "ready"
  /\ \E e \in [tenant : {TenantOf[c] : c \in Streams}, wellFormed : BOOLEAN] :
       /\ SafeEnvelope(e)
       /\ \E slow \in SUBSET {c \in listeners : TenantOf[c] = e.tenant} : Close(slow)
  /\ UNCHANGED <<at, subscriberStatus, subscribed, ungreeted, stopping>>

(* The interval fires; of a closed stream it finds nothing left to close.  *)
Heartbeat(c) ==
  /\ c \in timers
  /\ Close({c})
  /\ UNCHANGED <<at, subscriberStatus, subscribed, ungreeted, stopping>>

(* Redis goes away; the client reconnects and subscribes again by itself.  *)
RedisDrops ==
  /\ subscriberStatus \in {"ready", "down"}
  /\ subscriberStatus' = IF subscriberStatus = "ready" THEN "down" ELSE "ready"
  /\ UNCHANGED <<at, subscribed, ungreeted, stopping>>
  /\ KeepStreams

(* onModuleDestroy: every registered closer is called, then the clients    *)
(* are closed; the HTTP server still accepts requests in between.          *)
OnModuleDestroy ==
  /\ ~stopping
  /\ stopping' = TRUE
  /\ LET now == closers \ closed IN
     /\ closed' = closed \cup now
     /\ timers' = timers \ now
     /\ activeConnections' = ReleaseConnections(Cardinality(now))
  /\ closers' = {}
  /\ listeners' = {}
  /\ UNCHANGED <<at, subscriberStatus, subscribed, ungreeted>>

SubscriberEnds ==
  /\ stopping
  /\ subscriberStatus # "end"
  /\ subscriberStatus' = "end"
  /\ FailStreams({c \in Streams : at[c] = "connecting"})
  /\ UNCHANGED <<subscribed, ungreeted, stopping>>

StreamNext ==
  \/ \E c \in Streams : \/ RefuseStream(c) \/ StartStream(c) \/ SubscribeFails(c)
                        \/ Subscribes(c) \/ ClientCloses(c) \/ Heartbeat(c)
  \/ Connects \/ ConnectFails \/ Dispatch \/ RedisDrops \/ OnModuleDestroy \/ SubscriberEnds

StreamSpec == StreamInit /\ [][StreamNext]_streamVars

-----------------------------------------------------------------------------
Holding == {c \in Streams : at[c] \notin {"new", "refused"}} \ closed

(***************************************************************************)
(* The connection counter counts the open streams: whatever closes a       *)
(* stream, and however often, its slot is freed once.                      *)
(***************************************************************************)
SlotsMatchStreams == activeConnections = Cardinality(Holding)

(***************************************************************************)
(* A closed stream holds no listener and no closer, also when it is closed *)
(* while its subscription is awaited.  It keeps its heartbeat interval     *)
(* only if its greeting failed: then the interval is set after close().    *)
(***************************************************************************)
ClosedHoldsNothing ==
  /\ closed \cap (listeners \cup closers) = {}
  /\ closed \cap timers \subseteq ungreeted

(***************************************************************************)
(* What streams hold is what the open ones hold: slots are counted once    *)
(* and nothing outlives its stream, whoever closes it and when.            *)
(***************************************************************************)
StreamsHoldTheirOwn == SlotsMatchStreams /\ ClosedHoldsNothing
=============================================================================
