---------------------------- MODULE ServicesProofs ----------------------------
(***************************************************************************)
(* Three parts of the processes, for any number of streams, spans and      *)
(* requests: the streams of the inbox hold what is their own, the trace    *)
(* exporter lets spans leave once and in order, and senders resolve.       *)
(***************************************************************************)
EXTENDS InboxRealtime, TraceExporter, SenderRegistry, FiniteSetTheorems, SequenceTheorems,
        WellFoundedInduction, TLAPS

-----------------------------------------------------------------------------
(* Event streams.  Started streams are those that got a slot; only those   *)
(* that were opened have a listener or a timer.                            *)
StreamSteps == {"new", "refused", "connecting", "subscribing", "subscribed", "rejected",
                "failed", "done"}
StartedStreams == {c \in Streams : at[c] \notin {"new", "refused"}}
OpenedStreams == {c \in Streams : at[c] = "done"}

StreamInv ==
  /\ at \in [Streams -> StreamSteps]
  /\ activeConnections \in Nat
  /\ closed \subseteq StartedStreams
  /\ closers \subseteq Holding
  /\ listeners \cup timers \subseteq OpenedStreams
  /\ IsFiniteSet(Holding)
  /\ StreamsHoldTheirOwn

LEMMA InitStreams == StreamInit => StreamInv
<1> SUFFICES ASSUME StreamInit PROVE StreamInv OBVIOUS
<1>1. Holding = {} BY DEF StreamInit, Holding
<1> QED BY <1>1, FS_EmptySet
     DEF StreamInit, StreamInv, StreamSteps, StartedStreams, OpenedStreams,
         StreamsHoldTheirOwn, SlotsMatchStreams, ClosedHoldsNothing

(* Slots are given back once: what close() frees was held.                 *)
LEMMA SlotsFreed ==
  ASSUME StreamInv, NEW T \in SUBSET Holding, Holding' = Holding \ T,
         activeConnections' = ReleaseConnections(Cardinality(T))
  PROVE  activeConnections' \in Nat /\ IsFiniteSet(Holding') /\ activeConnections' = Cardinality(Holding')
<1>1. IsFiniteSet(Holding) /\ activeConnections = Cardinality(Holding)
    BY DEF StreamInv, StreamsHoldTheirOwn, SlotsMatchStreams
<1>2. IsFiniteSet(T) /\ Cardinality(T) <= Cardinality(Holding) BY <1>1, FS_Subset
<1>3. IsFiniteSet(Holding \ T) BY <1>1, FS_Difference
<1>4. Cardinality(Holding \ T) = Cardinality(Holding) - Cardinality(Holding \cap T)
    BY <1>1, <1>2, FS_Difference
<1>5. Holding \cap T = T OBVIOUS
<1>6. Cardinality(T) \in Nat /\ Cardinality(Holding) \in Nat BY <1>1, <1>2, FS_CardinalityType
<1>7. IsFiniteSet(Holding') /\ Cardinality(Holding') = Cardinality(Holding) - Cardinality(T)
    BY <1>3, <1>4, <1>5
<1>8. activeConnections' = Cardinality(Holding) - Cardinality(T)
    BY ONLY <1>1, <1>2, <1>6, activeConnections' = ReleaseConnections(Cardinality(T)) DEF ReleaseConnections
<1> QED BY ONLY <1>2, <1>6, <1>7, <1>8

(* A step that leaves the slots alone.                                     *)
LEMMA SlotsStay ==
  ASSUME StreamInv, KeepStreams, at' \in [Streams -> StreamSteps],
         \A c \in Streams : (at'[c] \in {"new", "refused"}) <=> (at[c] \in {"new", "refused"}),
         \A c \in Streams : at[c] = "done" => at'[c] = "done",
         UNCHANGED ungreeted
  PROVE  StreamInv'
<1>1. Holding' = Holding /\ StartedStreams' = StartedStreams /\ OpenedStreams \subseteq OpenedStreams'
    BY DEF Holding, StartedStreams, OpenedStreams, KeepStreams
<1>2. StreamsHoldTheirOwn'
    BY <1>1 DEF StreamInv, StreamsHoldTheirOwn, SlotsMatchStreams, ClosedHoldsNothing, KeepStreams
<1> QED BY <1>1, <1>2 DEF StreamInv, KeepStreams

(* close() of a set of streams, called however often.                      *)
LEMMA CloseStreams ==
  ASSUME StreamInv, NEW T \in SUBSET StartedStreams, Close(T), at' \in [Streams -> StreamSteps],
         \A c \in Streams : (at'[c] \in {"new", "refused"}) <=> (at[c] \in {"new", "refused"}),
         \A c \in Streams : at[c] = "done" => at'[c] = "done",
         UNCHANGED ungreeted
  PROVE  StreamInv'
<1>1. /\ closed' = closed \cup (T \ closed) /\ timers' = timers \ (T \ closed)
      /\ listeners' = listeners \ (T \ closed) /\ closers' = closers \ (T \ closed)
      /\ activeConnections' = ReleaseConnections(Cardinality(T \ closed))
    BY DEF Close, FreeAll
<1>2. StartedStreams' = StartedStreams /\ OpenedStreams \subseteq OpenedStreams'
    BY DEF StartedStreams, OpenedStreams
<1>3. T \ closed \in SUBSET Holding /\ Holding' = Holding \ (T \ closed)
    BY <1>1, <1>2 DEF Holding, StartedStreams
<1>4. activeConnections' \in Nat /\ IsFiniteSet(Holding') /\ activeConnections' = Cardinality(Holding')
    BY <1>1, <1>3, SlotsFreed
<1>5. ClosedHoldsNothing' /\ SlotsMatchStreams'
    BY <1>1, <1>4 DEF StreamInv, StreamsHoldTheirOwn, SlotsMatchStreams, ClosedHoldsNothing
<1> QED BY <1>1, <1>2, <1>3, <1>4, <1>5 DEF StreamInv, StreamsHoldTheirOwn

LEMMA FailStreamsHolds ==
  ASSUME StreamInv, NEW T \in SUBSET Streams,
         \A c \in T : at[c] \in {"connecting", "subscribing", "rejected"},
         FailStreams(T), UNCHANGED ungreeted
  PROVE  StreamInv'
<1>1. at' = [c \in Streams |-> IF c \in T THEN "failed" ELSE at[c]] /\ Close(T) BY DEF FailStreams
<1>2. at' \in [Streams -> StreamSteps] BY <1>1 DEF StreamInv, StreamSteps
<1>3. T \in SUBSET StartedStreams BY DEF StartedStreams
<1> QED BY <1>1, <1>2, <1>3, CloseStreams

LEMMA StartStreamHolds == ASSUME StreamInv, NEW c \in Streams, StartStream(c) PROVE StreamInv'
<1>1. at[c] = "new" /\ UNCHANGED <<listeners, timers, ungreeted>> BY DEF StartStream
<1>2. c \notin Holding /\ c \notin closed /\ c \notin StartedStreams
    BY <1>1 DEF StreamInv, Holding, StartedStreams
<1>3. PICK step \in StreamSteps \ {"new", "refused", "done"} : at' = [at EXCEPT ![c] = step]
    BY DEF StartStream, StreamSteps, AfterConnect
<1>4. /\ at' \in [Streams -> StreamSteps]
      /\ StartedStreams' = StartedStreams \cup {c} /\ OpenedStreams' = OpenedStreams
    BY <1>1, <1>3 DEF StreamInv, StartedStreams, OpenedStreams
<1>5. CASE subscriberStatus = "end"
    <2>1. closed' = closed \cup {c} /\ UNCHANGED <<activeConnections, closers>>
        BY <1>5 DEF StartStream
    <2>2. Holding' = Holding BY <1>2, <1>4, <2>1 DEF Holding, StartedStreams
    <2>3. c \notin listeners \cup timers \cup closers
        BY <1>1, <1>2 DEF StreamInv, OpenedStreams
    <2>4. StreamsHoldTheirOwn'
        BY <1>1, <2>1, <2>2, <2>3
           DEF StreamInv, StreamsHoldTheirOwn, SlotsMatchStreams, ClosedHoldsNothing
    <2> QED BY <1>1, <1>4, <2>1, <2>2, <2>4 DEF StreamInv
<1>6. CASE subscriberStatus # "end"
    <2>1. /\ UNCHANGED closed /\ activeConnections' = activeConnections + 1
          /\ closers' = closers \cup {c}
        BY <1>6 DEF StartStream
    <2>2. Holding' = Holding \cup {c} BY <1>2, <1>4, <2>1 DEF Holding, StartedStreams
    <2>3. IsFiniteSet(Holding') /\ Cardinality(Holding') = Cardinality(Holding) + 1
        BY <1>2, <2>2, FS_AddElement DEF StreamInv
    <2>4. SlotsMatchStreams' /\ activeConnections' \in Nat
        BY <2>1, <2>3 DEF StreamInv, StreamsHoldTheirOwn, SlotsMatchStreams
    <2>5. ClosedHoldsNothing'
        BY <1>1, <1>2, <2>1 DEF StreamInv, StreamsHoldTheirOwn, ClosedHoldsNothing
    <2> QED BY <1>1, <1>4, <2>1, <2>2, <2>3, <2>4, <2>5 DEF StreamInv, StreamsHoldTheirOwn
<1> QED BY <1>5, <1>6

LEMMA SubscribesHolds == ASSUME StreamInv, NEW c \in Streams, Subscribes(c) PROVE StreamInv'
<1>1. at[c] \in {"subscribing", "subscribed"} /\ at' = [at EXCEPT ![c] = "done"]
    BY DEF Subscribes
<1>2. PICK greeted \in BOOLEAN : Finish(c, greeted) BY DEF Subscribes
<1>3. /\ at' \in [Streams -> StreamSteps]
      /\ StartedStreams' = StartedStreams /\ OpenedStreams' = OpenedStreams \cup {c}
      /\ c \in StartedStreams
    BY <1>1 DEF StreamInv, StreamSteps, StartedStreams, OpenedStreams
<1>4. CASE c \in closed
    <2>1. KeepStreams /\ UNCHANGED ungreeted BY <1>2, <1>4 DEF Finish
    <2>2. /\ \A d \in Streams : (at'[d] \in {"new", "refused"}) <=> (at[d] \in {"new", "refused"})
          /\ \A d \in Streams : at[d] = "done" => at'[d] = "done"
        BY <1>1 DEF StreamInv
    <2> QED BY <1>3, <2>1, <2>2, SlotsStay
<1>5. CASE c \notin closed /\ greeted
    <2>1. /\ timers' = timers \cup {c} /\ listeners' = listeners \cup {c}
          /\ UNCHANGED <<ungreeted, closed, closers, activeConnections>>
        BY <1>2, <1>5 DEF Finish, OpenStream
    <2>2. Holding' = Holding BY <1>3, <2>1 DEF Holding, StartedStreams
    <2>3. StreamsHoldTheirOwn'
        BY <1>5, <2>1, <2>2
           DEF StreamInv, StreamsHoldTheirOwn, SlotsMatchStreams, ClosedHoldsNothing
    <2> QED BY <1>3, <2>1, <2>2, <2>3 DEF StreamInv
<1>6. CASE c \notin closed /\ ~greeted
    <2>1. /\ timers' = timers \cup {c} /\ UNCHANGED listeners /\ ungreeted' = ungreeted \cup {c}
          /\ closed' = closed \cup {c} /\ closers' = closers \ {c}
          /\ activeConnections' = ReleaseConnections(1)
        BY <1>2, <1>6 DEF Finish, OpenStream
    <2>2. Holding' = Holding \ {c} /\ {c} \in SUBSET Holding
        BY <1>3, <1>6, <2>1 DEF Holding, StartedStreams
    <2>3. Cardinality({c}) = 1 BY FS_Singleton
    <2>4. activeConnections' \in Nat /\ IsFiniteSet(Holding') /\ activeConnections' = Cardinality(Holding')
        BY <2>1, <2>2, <2>3, SlotsFreed
    <2>5. c \notin listeners BY <1>1 DEF StreamInv, OpenedStreams
    <2>6. ClosedHoldsNothing' /\ SlotsMatchStreams'
        BY <2>1, <2>4, <2>5 DEF StreamInv, StreamsHoldTheirOwn, SlotsMatchStreams, ClosedHoldsNothing
    <2> QED BY <1>3, <2>1, <2>2, <2>4, <2>6 DEF StreamInv, StreamsHoldTheirOwn
<1> QED BY <1>4, <1>5, <1>6

LEMMA OnModuleDestroyHolds == ASSUME StreamInv, OnModuleDestroy PROVE StreamInv'
<1> DEFINE now == closers \ closed
<1>1. /\ closed' = closed \cup now /\ timers' = timers \ now /\ closers' = {} /\ listeners' = {}
      /\ activeConnections' = ReleaseConnections(Cardinality(now)) /\ UNCHANGED <<at, ungreeted>>
    BY DEF OnModuleDestroy
<1>2. now \in SUBSET Holding BY DEF StreamInv
<1>3. Holding' = Holding \ now BY <1>1 DEF Holding
<1>4. activeConnections' \in Nat /\ IsFiniteSet(Holding') /\ activeConnections' = Cardinality(Holding')
    BY <1>1, <1>2, <1>3, SlotsFreed
<1>5. StartedStreams' = StartedStreams /\ OpenedStreams' = OpenedStreams
    BY <1>1 DEF StartedStreams, OpenedStreams
<1>6. ClosedHoldsNothing' /\ SlotsMatchStreams'
    BY <1>1, <1>4 DEF StreamInv, StreamsHoldTheirOwn, SlotsMatchStreams, ClosedHoldsNothing
<1>7. Holding \subseteq StartedStreams BY DEF Holding, StartedStreams
<1> QED BY <1>1, <1>2, <1>4, <1>5, <1>6, <1>7 DEF StreamInv, StreamsHoldTheirOwn

LEMMA NextStreams == ASSUME StreamInv, [StreamNext]_streamVars PROVE StreamInv'
<1>0. at \in [Streams -> StreamSteps] BY DEF StreamInv
<1>1. CASE UNCHANGED streamVars
    <2>1. UNCHANGED <<at, ungreeted>> /\ KeepStreams BY <1>1 DEF streamVars, KeepStreams
    <2> QED BY <1>0, <2>1, SlotsStay
<1>2. ASSUME NEW c \in Streams, RefuseStream(c) PROVE StreamInv'
    <2>1. at' = [at EXCEPT ![c] = "refused"] /\ at[c] = "new" /\ KeepStreams /\ UNCHANGED ungreeted
        BY <1>2 DEF RefuseStream
    <2>2. at' \in [Streams -> StreamSteps] BY <1>0, <2>1 DEF StreamSteps
    <2>3. /\ \A d \in Streams : (at'[d] \in {"new", "refused"}) <=> (at[d] \in {"new", "refused"})
          /\ \A d \in Streams : at[d] = "done" => at'[d] = "done"
        BY <1>0, <2>1
    <2> QED BY <2>1, <2>2, <2>3, SlotsStay
<1>3. ASSUME NEW c \in Streams, SubscribeFails(c) PROVE StreamInv'
    BY <1>3, FailStreamsHolds DEF SubscribeFails
<1>4. ASSUME NEW c \in Streams, ClientCloses(c) PROVE StreamInv'
    <2>1. {c} \in SUBSET StartedStreams BY <1>4 DEF ClientCloses, StartedStreams
    <2> QED BY <1>0, <1>4, <2>1, CloseStreams DEF ClientCloses
<1>5. ASSUME NEW c \in Streams, Heartbeat(c) PROVE StreamInv'
    <2>1. {c} \in SUBSET StartedStreams
        BY <1>5 DEF Heartbeat, StreamInv, StartedStreams, OpenedStreams
    <2> QED BY <1>0, <1>5, <2>1, CloseStreams DEF Heartbeat
<1>6. CASE Dispatch
    <2>1. PICK T \in SUBSET listeners : Close(T) BY <1>6 DEF Dispatch
    <2>2. T \in SUBSET StartedStreams BY DEF StreamInv, StartedStreams, OpenedStreams
    <2> QED BY <1>0, <1>6, <2>1, <2>2, CloseStreams DEF Dispatch
<1>7. CASE Connects
    <2>1. KeepStreams /\ UNCHANGED ungreeted BY <1>7 DEF Connects
    <2>2. at' = [c \in Streams |-> IF at[c] = "connecting" THEN AfterConnect("ready") ELSE at[c]]
        BY <1>7 DEF Connects
    <2>3. AfterConnect("ready") \in {"subscribed", "subscribing", "rejected"} BY DEF AfterConnect
    <2>4. at' \in [Streams -> StreamSteps] BY <1>0, <2>2, <2>3 DEF StreamSteps
    <2> QED BY <1>0, <2>1, <2>2, <2>3, <2>4, SlotsStay
<1>8. CASE ConnectFails \/ SubscriberEnds
    BY <1>8, FailStreamsHolds DEF ConnectFails, SubscriberEnds
<1>9. CASE RedisDrops BY <1>0, <1>9, SlotsStay DEF RedisDrops
<1> QED BY <1>1, <1>2, <1>3, <1>4, <1>5, <1>6, <1>7, <1>8, <1>9, StartStreamHolds,
       SubscribesHolds, OnModuleDestroyHolds DEF StreamNext

(* Whatever closes a stream, when and how often, in a process with any     *)
(* number of them: its slot is freed once and it keeps nothing.            *)
THEOREM StreamsAlwaysHoldTheirOwn == StreamSpec => []StreamsHoldTheirOwn
<1>1. StreamInv => StreamsHoldTheirOwn BY DEF StreamInv
<1> QED BY <1>1, InitStreams, NextStreams, PTL DEF StreamSpec

-----------------------------------------------------------------------------
(* Trace spans.  The spans that wait are the last that came, those of the  *)
(* running export come right before them, and every earlier one has been   *)
(* taken by the collector or was lost.                                     *)
Batch == IF Len(flushes) = 0 THEN <<>> ELSE flushes[1].batch
Consecutive(s, after) == \A i \in 1 .. Len(s) : s[i] = after + i
Increasing(s) == \A i, j \in 1 .. Len(s) : i < j => s[i] < s[j]
Accounted(q, b, e, l, r) ==
  /\ q \in Seq(Nat) /\ b \in Seq(Nat) /\ e \in Seq(Nat) /\ r \in Nat
  /\ Len(q) + Len(b) <= r
  /\ Consecutive(q, r - Len(q))
  /\ Consecutive(b, r - Len(q) - Len(b))
  /\ Increasing(e)
  /\ ToSet(e) \cap l = {}
  /\ ToSet(e) \cup l = 1 .. r - Len(q) - Len(b)

TraceInv ==
  /\ flushes \in Seq([batch : Seq(Nat), remaining : Nat])
  /\ Len(flushes) <= 1
  /\ flushInFlight <=> Len(flushes) = 1
  /\ Accounted(queue, Batch, exported, lost, recorded)

(* Flattening a sequence of one sequence gives that one.                   *)
LEMMA FlattenOne == ASSUME NEW S, NEW s \in Seq(S), Len(s) = 1 PROVE FlattenSeq(s) = s[1]
<1> DEFINE f == CHOOSE f : f = [i \in 1 .. Len(s) |-> IF i = 1 THEN s[i] ELSE f[i - 1] \o s[i]]
<1> DEFINE g == [i \in {1} |-> s[1]]
<1>1. FlattenSeq(s) = f[Len(s)] BY DEF FlattenSeq
<1>2. 1 .. Len(s) = {1} OBVIOUS
<1>3. g = [i \in 1 .. Len(s) |-> IF i = 1 THEN s[i] ELSE g[i - 1] \o s[i]]
    <2>1. \A i \in {1} : (IF i = 1 THEN s[i] ELSE g[i - 1] \o s[i]) = s[1] OBVIOUS
    <2> QED BY <1>2, <2>1
<1> HIDE DEF g
<1>4. f = [i \in 1 .. Len(s) |-> IF i = 1 THEN s[i] ELSE f[i - 1] \o s[i]] BY <1>3
<1> HIDE DEF f
<1>5. f[1] = s[1] BY <1>2, <1>4
<1> QED BY <1>1, <1>5

LEMMA InFlightIsBatch == ASSUME TraceInv PROVE Exporting = Batch
<1> DEFINE s == [i \in DOMAIN flushes |-> flushes[i].batch]
<1>1. flushes \in Seq([batch : Seq(Nat), remaining : Nat]) /\ Len(flushes) \in {0, 1}
    <2>1. flushes \in Seq([batch : Seq(Nat), remaining : Nat]) BY DEF TraceInv
    <2>2. PICK n \in Nat : n = Len(flushes) BY <2>1, LenProperties
    <2>3. n <= 1 BY <2>2 DEF TraceInv
    <2>4. n \in {0, 1} BY ONLY <2>3, n \in Nat
    <2> QED BY <2>1, <2>2, <2>4
<1>2. s \in Seq(Seq(Nat)) /\ Len(s) = Len(flushes)
    <2>0. \A i \in 1 .. Len(flushes) : flushes[i] \in [batch : Seq(Nat), remaining : Nat]
        BY <1>1, ElementOfSeq
    <2>1. \A i \in 1 .. Len(flushes) : flushes[i].batch \in Seq(Nat) BY <2>0
    <2>2. s = [i \in 1 .. Len(flushes) |-> flushes[i].batch] BY <1>1
    <2> QED BY <1>1, <2>1, <2>2, IsASeq
<1>3. Exporting = FlattenSeq(s) BY DEF Exporting
<1>4. CASE Len(flushes) = 0
    <2>1. s = <<>> BY <1>2, <1>4, EmptySeq
    <2> QED BY <1>2, <1>3, <1>4, <2>1 DEF FlattenSeq, Batch
<1>5. CASE Len(flushes) = 1
    <2>1. s[1] = flushes[1].batch BY <1>1, <1>5
    <2> HIDE DEF s
    <2> QED BY <1>2, <1>3, <1>5, <2>1, FlattenOne DEF Batch
<1> QED BY <1>1, <1>4, <1>5

(* A span that is recorded is the last.                                    *)
LEMMA RecordedSpan ==
  ASSUME NEW q, NEW b, NEW e, NEW l, NEW r, Accounted(q, b, e, l, r)
  PROVE  Accounted(Append(q, r + 1), b, e, l, r + 1)
<1>1. q \in Seq(Nat) /\ b \in Seq(Nat) /\ r \in Nat BY DEF Accounted
<1>2. Append(q, r + 1) \in Seq(Nat) /\ Len(Append(q, r + 1)) = Len(q) + 1 BY <1>1
<1>3. Consecutive(Append(q, r + 1), r - Len(q))
    <2>1. \A i \in 1 .. Len(q) : q[i] = (r - Len(q)) + i BY DEF Accounted, Consecutive
    <2>2. \A i \in 1 .. Len(q) : Append(q, r + 1)[i] = q[i] BY <1>1
    <2>3. Append(q, r + 1)[Len(q) + 1] = r + 1 BY <1>1
    <2>4. Len(q) \in Nat /\ r + 1 = (r - Len(q)) + (Len(q) + 1) BY <1>1
    <2> SUFFICES ASSUME NEW i \in 1 .. Len(q) + 1 PROVE Append(q, r + 1)[i] = (r - Len(q)) + i
        BY <1>2 DEF Consecutive
    <2>5. i \in 1 .. Len(q) \/ i = Len(q) + 1 BY <2>4
    <2> QED BY <2>1, <2>2, <2>3, <2>4, <2>5
<1>4. /\ (r + 1) - (Len(q) + 1) = r - Len(q)
      /\ Len(q) + 1 + Len(b) <= r + 1
    BY <1>1 DEF Accounted
<1> QED BY <1>1, <1>2, <1>3, <1>4 DEF Accounted

(* A batch is the front of the queue.                                      *)
LEMMA TakenBatch ==
  ASSUME NEW q, NEW e, NEW l, NEW r, Accounted(q, <<>>, e, l, r), NEW n \in 0 .. Len(q)
  PROVE  Accounted(SubSeq(q, n + 1, Len(q)), SubSeq(q, 1, n), e, l, r)
<1>1. q \in Seq(Nat) /\ r \in Nat /\ Len(q) \in Nat /\ Len(q) <= r BY DEF Accounted
<1> DEFINE rest == SubSeq(q, n + 1, Len(q)) front == SubSeq(q, 1, n)
<1>2. rest \in Seq(Nat) /\ Len(rest) = Len(q) - n /\ \A i \in 1 .. Len(q) - n : rest[i] = q[n + i]
    BY <1>1
<1>3. front \in Seq(Nat) /\ Len(front) = n /\ \A i \in 1 .. n : front[i] = q[i] BY <1>1
<1> HIDE DEF rest, front
<1>4. Consecutive(rest, r - Len(rest))
    BY <1>1, <1>2 DEF Accounted, Consecutive
<1>5. Consecutive(front, r - Len(rest) - Len(front))
    BY <1>1, <1>2, <1>3 DEF Accounted, Consecutive
<1>6. r - Len(rest) - Len(front) = r - Len(q) /\ r - Len(q) - 0 = r - Len(q)
    BY <1>1, <1>2, <1>3
<1>7. Len(rest) + Len(front) <= r BY <1>1, <1>2, <1>3
<1>8. Accounted(rest, front, e, l, r)
    BY <1>1, <1>2, <1>3, <1>4, <1>5, <1>6, <1>7 DEF Accounted
<1> QED BY <1>8 DEF rest, front

(* An export that settles: its spans are exported or lost.                 *)
LEMMA SettledBatch ==
  ASSUME NEW q, NEW b, NEW e, NEW l, NEW r, Accounted(q, b, e, l, r)
  PROVE  /\ Accounted(q, <<>>, e \o b, l, r)
         /\ Accounted(q, <<>>, e, l \cup ToSet(b), r)
<1> DEFINE mark == r - Len(q) - Len(b)
<1>1. /\ q \in Seq(Nat) /\ b \in Seq(Nat) /\ e \in Seq(Nat) /\ r \in Nat
      /\ Len(q) \in Nat /\ Len(b) \in Nat /\ mark \in Nat /\ Len(q) + 0 <= r
    BY DEF Accounted
<1>2. ToSet(b) = mark + 1 .. mark + Len(b)
    <2>1. \A i \in 1 .. Len(b) : b[i] = mark + i BY DEF Accounted, Consecutive
    <2>2. \A x \in mark + 1 .. mark + Len(b) : x - mark \in 1 .. Len(b) /\ x = mark + (x - mark)
        BY <1>1
    <2>3. DOMAIN b = 1 .. Len(b) BY <1>1
    <2>4. \A i \in 1 .. Len(b) : mark + i \in mark + 1 .. mark + Len(b) BY <1>1
    <2> HIDE DEF mark
    <2> QED BY <2>1, <2>2, <2>3, <2>4 DEF ToSet
<1>3. ToSet(e) \cup l = 1 .. mark /\ ToSet(e) \cap l = {} BY DEF Accounted
<1>4. r - Len(q) - 0 = mark + Len(b) BY <1>1
<1>5. (1 .. mark) \cup (mark + 1 .. mark + Len(b)) = 1 .. mark + Len(b) BY <1>1
<1>6. (1 .. mark) \cap (mark + 1 .. mark + Len(b)) = {} BY <1>1
<1>7. \A i \in 1 .. Len(e) : e[i] \in 1 .. mark BY <1>1, <1>3 DEF ToSet
<1> DEFINE all == e \o b
<1>8. /\ all \in Seq(Nat) /\ Len(all) = Len(e) + Len(b)
      /\ \A i \in 1 .. Len(e) + Len(b) : all[i] = IF i <= Len(e) THEN e[i] ELSE b[i - Len(e)]
    BY <1>1
<1> HIDE DEF all
<1>late. ASSUME NEW k \in 1 .. Len(all), ~(k <= Len(e))
         PROVE  k - Len(e) \in 1 .. Len(b) /\ all[k] = b[k - Len(e)]
    <2>1. PICK m \in Nat, n \in Nat : m = Len(e) /\ n = Len(b) BY <1>1
    <2>2. k \in 1 .. m + n /\ ~(k <= m) BY <1>8, <1>late, <2>1
    <2>3. k - m \in 1 .. n BY ONLY <2>1, <2>2
    <2>4. all[k] = b[k - m] BY <1>8, <2>1, <2>2
    <2> QED BY <2>1, <2>3, <2>4
<1>9. Increasing(all)
    <2> SUFFICES ASSUME NEW i \in 1 .. Len(all), NEW j \in 1 .. Len(all), i < j
                 PROVE  all[i] < all[j]
        BY DEF Increasing
    <2>0. Len(e) \in Nat BY <1>1
    <2>1. \A k \in 1 .. Len(b) : b[k] = mark + k BY DEF Accounted, Consecutive
    <2>2. CASE j <= Len(e)
        <3>1. i \in 1 .. Len(e) /\ j \in 1 .. Len(e) /\ all[i] = e[i] /\ all[j] = e[j]
            BY <1>1, <1>8, <2>0, <2>2
        <3>2. e[i] < e[j] BY <3>1 DEF Accounted, Increasing
        <3> QED BY <3>1, <3>2
    <2>3. CASE i > Len(e)
        <3>0. ~(i <= Len(e)) /\ ~(j <= Len(e)) BY <1>8, <2>0, <2>3
        <3>1. /\ i - Len(e) \in 1 .. Len(b) /\ j - Len(e) \in 1 .. Len(b)
              /\ all[i] = b[i - Len(e)] /\ all[j] = b[j - Len(e)]
            BY <1>late, <3>0
        <3>2. all[i] = mark + (i - Len(e)) /\ all[j] = mark + (j - Len(e)) BY <2>1, <3>1
        <3> QED BY <1>1, <2>0, <3>2
    <2>4. CASE i <= Len(e) /\ j > Len(e)
        <3>1. all[i] = e[i] /\ e[i] \in 1 .. mark BY <1>7, <1>8, <2>0, <2>4
        <3>2. j - Len(e) \in 1 .. Len(b) /\ all[j] = b[j - Len(e)]
            <4>1. ~(j <= Len(e)) BY <1>8, <2>0, <2>4
            <4> QED BY <1>late, <4>1
        <3>3. all[j] = mark + (j - Len(e)) BY <2>1, <3>2
        <3> QED BY <1>1, <2>0, <3>1, <3>2, <3>3
    <2> QED BY <1>8, <2>0, <2>2, <2>3, <2>4
<1>10. ToSet(all) = ToSet(e) \cup ToSet(b)
    <2>1. DOMAIN e = 1 .. Len(e) /\ DOMAIN b = 1 .. Len(b) /\ DOMAIN all = 1 .. Len(all) BY <1>1, <1>8
    <2>2. \A i \in 1 .. Len(e) : i \in 1 .. Len(all) /\ all[i] = e[i] BY <1>1, <1>8
    <2>3. \A i \in 1 .. Len(b) : Len(e) + i \in 1 .. Len(all) /\ all[Len(e) + i] = b[i]
        <3> SUFFICES ASSUME NEW i \in 1 .. Len(b)
                     PROVE  Len(e) + i \in 1 .. Len(all) /\ all[Len(e) + i] = b[i]
            OBVIOUS
        <3>1. /\ Len(e) \in Nat /\ Len(e) + i \in 1 .. Len(e) + Len(b) /\ (Len(e) + i) - Len(e) = i
              /\ ~(Len(e) + i <= Len(e))
            BY <1>1
        <3>2. PICK k : k = Len(e) + i OBVIOUS
        <3>3. all[k] = b[k - Len(e)] BY <1>8, <3>1, <3>2
        <3> QED BY <1>8, <3>1, <3>2, <3>3
    <2>4. \A i \in 1 .. Len(all) : \/ i \in 1 .. Len(e) /\ all[i] = e[i]
                                   \/ i - Len(e) \in 1 .. Len(b) /\ all[i] = b[i - Len(e)]
        <3> SUFFICES ASSUME NEW i \in 1 .. Len(all), i <= Len(e)
                     PROVE  i \in 1 .. Len(e) /\ all[i] = e[i]
            BY <1>late
        <3> QED BY <1>1, <1>8
    <2> QED BY <2>1, <2>2, <2>3, <2>4 DEF ToSet
<1> DEFINE none == <<>>
<1>11. none \in Seq(Nat) /\ Len(none) = 0 /\ Consecutive(none, r - Len(q) - Len(none))
    BY DEF Consecutive
<1>12. Consecutive(q, r - Len(q)) /\ Increasing(e) BY DEF Accounted
<1> HIDE DEF none, mark
<1>13. /\ ToSet(all) \cap l = {} /\ ToSet(all) \cup l = 1 .. r - Len(q) - 0
       /\ ToSet(e) \cap (l \cup ToSet(b)) = {} /\ ToSet(e) \cup (l \cup ToSet(b)) = 1 .. r - Len(q) - 0
    BY <1>2, <1>3, <1>4, <1>5, <1>6, <1>10
<1>14. Accounted(q, none, all, l, r) /\ Accounted(q, none, e, l \cup ToSet(b), r)
    BY <1>1, <1>8, <1>9, <1>11, <1>12, <1>13 DEF Accounted
<1> QED BY <1>14 DEF none, all

(* What flushPending takes: a batch of at least one span from what waits.  *)
LEMMA TakenIsFront ==
  ASSUME NEW q \in Seq(Nat), NEW pending \in Nat
  PROVE  \E n \in 0 .. Len(q) :
           /\ Taken(pending, q).batch = SubSeq(q, 1, n)
           /\ Taken(pending, q).rest = SubSeq(q, n + 1, Len(q))
           /\ Taken(pending, q).remaining = pending - n
           /\ n <= pending
<1> DEFINE n == Shorter(Shorter(MaxBatchSize, pending), Len(q))
<1>1. n \in 0 .. Len(q) /\ n <= pending
    <2>1. MaxBatchSize \in Nat /\ Len(q) \in Nat BY TraceAssumption
    <2> QED BY <2>1 DEF Shorter
<1>2. Taken(pending, q) = [batch |-> SubSeq(q, 1, n), remaining |-> pending - n,
                           rest |-> SubSeq(q, n + 1, Len(q))]
    BY DEF Taken
<1> HIDE DEF n
<1> QED BY <1>1, <1>2

LEMMA InitTrace == TraceInit => TraceInv
<1> SUFFICES ASSUME TraceInit PROVE TraceInv OBVIOUS
<1> DEFINE none == <<>>
<1>1. /\ queue = none /\ flushes = none /\ exported = none /\ recorded = 0 /\ lost = {}
      /\ flushInFlight = FALSE
    BY DEF TraceInit
<1>2. Len(none) = 0 /\ none \in Seq(Nat) /\ none \in Seq([batch : Seq(Nat), remaining : Nat])
      /\ DOMAIN none = {}
    OBVIOUS
<1>3. ToSet(none) = {} BY <1>2 DEF ToSet
<1> HIDE DEF none
<1>4. Accounted(none, none, none, {}, 0)
    BY <1>2, <1>3 DEF Accounted, Consecutive, Increasing
<1>5. Batch = none BY <1>1, <1>2 DEF Batch, none
<1> QED BY <1>1, <1>2, <1>4, <1>5 DEF TraceInv

(* Adding a flush to none: the batch is that of the new one.               *)
LEMMA OneFlush ==
  ASSUME NEW b \in Seq(Nat), NEW m \in Nat, NEW F, F = <<[batch |-> b, remaining |-> m]>>
  PROVE  F \in Seq([batch : Seq(Nat), remaining : Nat]) /\ Len(F) = 1 /\ F[1].batch = b
OBVIOUS

(* flush() of a queue that is accounted for, with or without a new span.   *)
LEMMA FlushHolds ==
  ASSUME TraceInv, NEW q, Flush(q), Accounted(q, Batch, exported, lost, recorded'),
         UNCHANGED <<exported, lost>>
  PROVE  TraceInv'
<1> USE DEF TraceInv
<1>1. CASE flushInFlight \/ q = <<>>
    <2>1. queue' = q /\ UNCHANGED <<flushes, flushInFlight>> BY <1>1 DEF Flush, FlushNow
    <2>2. Batch' = Batch BY <2>1 DEF Batch
    <2> QED BY <2>1, <2>2
<1>2. CASE ~flushInFlight /\ q # <<>>
    <2>1. q \in Seq(Nat) /\ Len(q) \in Nat BY DEF Accounted
    <2>2. PICK n \in 0 .. Len(q) :
            /\ Taken(Len(q), q).batch = SubSeq(q, 1, n)
            /\ Taken(Len(q), q).rest = SubSeq(q, n + 1, Len(q))
            /\ Taken(Len(q), q).remaining = Len(q) - n
        BY <2>1, TakenIsFront
    <2>3. /\ queue' = SubSeq(q, n + 1, Len(q)) /\ flushInFlight' = TRUE
          /\ flushes' = Append(flushes, [batch |-> SubSeq(q, 1, n), remaining |-> Len(q) - n])
        BY <1>2, <2>2 DEF Flush, FlushNow
    <2>4. Len(flushes) = 0 /\ flushes = <<>>
        <3>1. PICK k \in Nat : k = Len(flushes) BY LenProperties
        <3>2. k <= 1 /\ k # 1 BY <1>2, <3>1
        <3>3. k = 0 BY ONLY <3>2, k \in Nat
        <3> QED BY <3>1, <3>3, EmptySeq
    <2>5. Batch = <<>> BY <2>4 DEF Batch
    <2>6. Accounted(queue', SubSeq(q, 1, n), exported, lost, recorded') BY <2>3, <2>5, TakenBatch
    <2>7. flushes' = <<[batch |-> SubSeq(q, 1, n), remaining |-> Len(q) - n]>> BY <2>3, <2>4
    <2>8. SubSeq(q, 1, n) \in Seq(Nat) /\ Len(q) - n \in Nat BY <2>1, <2>6 DEF Accounted
    <2>9. /\ flushes' \in Seq([batch : Seq(Nat), remaining : Nat]) /\ Len(flushes') = 1
          /\ flushes'[1].batch = SubSeq(q, 1, n)
        BY <2>7, <2>8, OneFlush
    <2>10. Batch' = SubSeq(q, 1, n) BY <2>9 DEF Batch
    <2> QED BY <2>3, <2>6, <2>9, <2>10
<1> QED BY <1>1, <1>2

LEMMA RecordSpanHolds == ASSUME TraceInv, RecordSpan PROVE TraceInv'
<1>1. recorded' = recorded + 1 /\ UNCHANGED <<exported, lost>> BY DEF RecordSpan
<1> DEFINE q == Append(queue, recorded')
<1>2. Accounted(q, Batch, exported, lost, recorded') BY <1>1, RecordedSpan DEF TraceInv
<1>3. CASE Len(q) >= MaxBatchSize
    <2>1. Flush(q) BY <1>3 DEF RecordSpan
    <2> QED BY <1>1, <1>2, <2>1, FlushHolds
<1>4. CASE ~(Len(q) >= MaxBatchSize)
    <2>1. queue' = q /\ UNCHANGED <<flushes, flushInFlight>> BY <1>4 DEF RecordSpan
    <2>2. Batch' = Batch BY <2>1 DEF Batch
    <2> HIDE DEF q
    <2> QED BY <1>1, <1>2, <2>1, <2>2 DEF TraceInv
<1> QED BY <1>3, <1>4

LEMMA ExportBatchHolds ==
  ASSUME TraceInv, NEW i \in DOMAIN flushes, ExportBatch(i) PROVE TraceInv'
<1>1. flushes \in Seq([batch : Seq(Nat), remaining : Nat]) BY DEF TraceInv
<1>2. i = 1 /\ Len(flushes) = 1 /\ flushInFlight
    <2>1. PICK n \in Nat : n = Len(flushes) BY <1>1, LenProperties
    <2>2. n <= 1 BY <2>1 DEF TraceInv
    <2>3. i \in 1 .. n BY <1>1, <2>1, LenProperties
    <2>4. i = 1 /\ n = 1 BY ONLY <2>2, <2>3, n \in Nat
    <2> QED BY <2>1, <2>4 DEF TraceInv
<1>3. Batch = flushes[1].batch BY <1>2 DEF Batch
<1>4. flushes[1] \in [batch : Seq(Nat), remaining : Nat]
    <2>1. 1 \in 1 .. Len(flushes) BY ONLY <1>2
    <2> QED BY <1>1, <2>1, ElementOfSeq
<1>5. queue \in Seq(Nat) /\ flushes[1].remaining \in Nat BY <1>4 DEF TraceInv, Accounted
<1>6. PICK ok \in BOOLEAN :
        /\ exported' = IF ok THEN exported \o Batch ELSE exported
        /\ lost' = IF ok THEN lost ELSE lost \cup ToSet(Batch)
        /\ LET t == Taken(flushes[1].remaining, queue) IN
           IF t.batch = <<>>
           THEN /\ flushes' = RemoveAt(flushes, 1) /\ flushInFlight' = FALSE /\ UNCHANGED queue
           ELSE /\ flushes' = [flushes EXCEPT ![1] = [batch |-> t.batch, remaining |-> t.remaining]]
                /\ queue' = t.rest /\ UNCHANGED flushInFlight
        /\ recorded' = recorded
    BY <1>2, <1>3 DEF ExportBatch, EndOfFlush
<1>7. Accounted(queue, <<>>, exported', lost', recorded)
    BY <1>6, SettledBatch DEF TraceInv
<1>8. PICK n \in 0 .. Len(queue) :
        /\ Taken(flushes[1].remaining, queue).batch = SubSeq(queue, 1, n)
        /\ Taken(flushes[1].remaining, queue).rest = SubSeq(queue, n + 1, Len(queue))
        /\ Taken(flushes[1].remaining, queue).remaining = flushes[1].remaining - n
        /\ n <= flushes[1].remaining
    BY <1>5, TakenIsFront
<1>9. CASE SubSeq(queue, 1, n) = <<>>
    <2>1. /\ flushes' = RemoveAt(flushes, 1) /\ flushInFlight' = FALSE /\ queue' = queue
          /\ recorded' = recorded
        BY <1>6, <1>8, <1>9
    <2>2. flushes' = <<>> BY <1>1, <1>2, <2>1 DEF RemoveAt
    <2>3. Batch' = <<>> BY <2>2 DEF Batch
    <2>4. Accounted(queue', Batch', exported', lost', recorded') BY <1>7, <2>1, <2>3
    <2>5. flushes' \in Seq([batch : Seq(Nat), remaining : Nat]) /\ Len(flushes') = 0 BY <2>2
    <2> QED BY <2>1, <2>4, <2>5 DEF TraceInv
<1>10. CASE SubSeq(queue, 1, n) # <<>>
    <2> DEFINE b == SubSeq(queue, 1, n) f == [batch |-> b, remaining |-> flushes[1].remaining - n]
    <2>1. /\ flushes' = [flushes EXCEPT ![1] = f] /\ queue' = SubSeq(queue, n + 1, Len(queue))
          /\ flushInFlight' = flushInFlight /\ recorded' = recorded
        BY <1>6, <1>8, <1>10
    <2>2. Accounted(queue', b, exported', lost', recorded') BY <1>7, <2>1, TakenBatch
    <2>3. b \in Seq(Nat) BY <2>2 DEF Accounted
    <2>4. flushes[1].remaining - n \in Nat BY <1>5, <1>8
    <2>5. f \in [batch : Seq(Nat), remaining : Nat] /\ f.batch = b BY <2>3, <2>4
    <2> HIDE DEF f, b
    <2>6. flushes' \in Seq([batch : Seq(Nat), remaining : Nat]) /\ Len(flushes') = 1 /\ flushes'[1] = f
        <3>1. 1 \in 1 .. Len(flushes) BY ONLY <1>2
        <3> DEFINE g == [flushes EXCEPT ![1] = f]
        <3>2. /\ g \in Seq([batch : Seq(Nat), remaining : Nat]) /\ Len(g) = Len(flushes)
              /\ \A j \in 1 .. Len(flushes) : g[j] = IF j = 1 THEN f ELSE flushes[j]
            BY ONLY <1>1, <2>5, <3>1, ExceptSeq
        <3>3. g[1] = f BY <3>1, <3>2
        <3>4. flushes' = g BY <2>1
        <3> HIDE DEF g
        <3> QED BY <1>2, <3>2, <3>3, <3>4
    <2>7. Batch' = b BY <2>5, <2>6 DEF Batch
    <2> QED BY <1>2, <2>1, <2>2, <2>6, <2>7 DEF TraceInv
<1> QED BY <1>9, <1>10

LEMMA NextTrace == ASSUME TraceInv, [TraceNext]_traceVars PROVE TraceInv'
<1>1. CASE UNCHANGED traceVars \/ StopExporter
    <2>1. UNCHANGED <<queue, recorded, flushes, flushInFlight, exported, lost>>
        BY <1>1 DEF traceVars, StopExporter
    <2>2. Batch' = Batch BY <2>1 DEF Batch
    <2> QED BY <2>1, <2>2 DEF TraceInv
<1>2. CASE FlushTimer \/ DrainQueue
    <2>1. Flush(queue) /\ UNCHANGED <<recorded, exported, lost>> BY <1>2 DEF FlushTimer, DrainQueue
    <2> QED BY <2>1, FlushHolds DEF TraceInv
<1> QED BY <1>1, <1>2, RecordSpanHolds, ExportBatchHolds DEF TraceNext

(* The history, the running export and the queue are the spans in order.   *)
LEMMA AccountedInOrder == ASSUME TraceInv PROVE SpansLeaveOnceInOrder
<1> DEFINE sent == exported \o Batch all == sent \o queue none == <<>>
<1>1. Accounted(queue, Batch, exported, lost, recorded) BY DEF TraceInv
<1>2. Accounted(queue, none, sent, lost, recorded) BY <1>1, SettledBatch
<1>3. /\ queue \in Seq(Nat) /\ Len(queue) \in Nat /\ Len(queue) <= recorded /\ recorded \in Nat
      /\ Consecutive(queue, recorded - Len(queue)) /\ Increasing(sent) /\ sent \in Seq(Nat)
      /\ ToSet(sent) \cap lost = {} /\ ToSet(sent) \cup lost = 1 .. recorded - Len(queue)
    BY <1>2 DEF Accounted
<1> HIDE DEF sent, none
<1>4. Accounted(none, queue, sent, lost, recorded)
    <2>1. Len(none) = 0 /\ none \in Seq(Nat) BY DEF none
    <2> QED BY <1>3, <2>1 DEF Accounted, Consecutive
<1>5. Accounted(none, <<>>, all, lost, recorded) BY <1>4, SettledBatch
<1>6. /\ all \in Seq(Nat) /\ Increasing(all) /\ ToSet(all) \cap lost = {}
      /\ ToSet(all) \cup lost = 1 .. recorded
    <2>1. Len(none) = 0 /\ Len(<<>>) = 0 BY DEF none
    <2> QED BY <1>3, <1>5, <2>1 DEF Accounted
<1>7. Handled = all BY InFlightIsBatch DEF Handled, sent
<1>8. DOMAIN all = 1 .. Len(all) BY <1>6
<1> HIDE DEF all
<1> QED BY <1>6, <1>7, <1>8 DEF SpansLeaveOnceInOrder, Increasing

(* Whatever the sizes of queue and batch, however exports settle and       *)
(* whenever the exporter is stopped, each recorded span is in one place,   *)
(* and spans leave in the order they came.                                 *)
THEOREM SpansAlwaysLeaveOnceInOrder == TraceSpec => []SpansLeaveOnceInOrder
<1> QED BY InitTrace, NextTrace, AccountedInOrder, PTL DEF TraceSpec

-----------------------------------------------------------------------------
(* Every set of numbers has a least one: the oldest active sender is there. *)
LEMMA NatMin ==
  ASSUME NEW S \in SUBSET Nat, S # {} PROVE \E m \in S : \A x \in S : m <= x
<1>1. PICK m \in S : \A x \in S : ~(<<x, m>> \in OpToRel(<, Nat))
    BY NatLessThanWellFounded, WFMin, Zenon
<1>2. \A x \in S : ~(x < m) BY <1>1 DEF OpToRel
<1> QED BY <1>2

-----------------------------------------------------------------------------
(* The sender registry.  What a request does is excused by the races it    *)
(* was in; otherwise it relies on this: a write finds no rival in the      *)
(* index, active senders stay active, the WABA it checked stays its        *)
(* tenant's, and at the commit it either brings an active default, sees    *)
(* one, or leaves the table's default alone.                               *)
Call(c) == request[c].call
Writing(c) == request[c].pc \in {"select", "clear", "review", "fallback", "promote", "commit"}
Mine(c) == {n \in PhoneNumbers : locker[n] = c}
TakesOut(call) == call.op = "update" /\ call.active = FALSE
Excused == \E pair \in raced : \E c \in pair : TakesOut(Call(c))
WabaRaced(w) == \E pair \in raced : \A c \in pair : Call(c).waba = w
Clash(v, r) == ActiveDefault(v) /\ ActiveDefault(r) /\ v.tenant = r.tenant
NoRivals(c, n, r) ==
  \A m \in PhoneNumbers \ {n} :
    ~Clash(Visible(c, m), r) /\ (locker[m] # c => ~Clash(draft[m], r))
HasActive(t) == \E n \in PhoneNumbers : senders[n] # Nil /\ senders[n].tenant = t /\ senders[n].active

PhoneSteps == {"owner", "begin", "select", "clear", "review", "fallback", "promote", "commit",
               "done", "failed"}
IsRequest(q) ==
  \/ q = [pc |-> "idle"]
  \/ /\ q = [pc |-> q.pc, call |-> q.call, targets |-> q.targets, isDefault |-> q.isDefault]
     /\ q.pc \in PhoneSteps
     /\ q.call \in PhoneCalls
     /\ q.targets \in SUBSET PhoneNumbers
     /\ q.isDefault \in BOOLEAN \cup {Nil}
SenderTypes ==
  /\ senders \in [PhoneNumbers -> SenderRows \cup {Nil}]
  /\ draft \in [PhoneNumbers -> SenderRows \cup {Nil}]
  /\ locker \in [PhoneNumbers -> Callers \cup {Nil}]
  /\ \A n \in PhoneNumbers : locker[n] = Nil <=> draft[n] = Nil
  /\ request = [c \in Callers |-> request[c]] /\ \A c \in Callers : IsRequest(request[c])
RacesKnown ==
  /\ raced \in SUBSET SUBSET Callers
  /\ \A pair \in raced : \A c \in pair : request[c].pc # "idle"
  /\ \A c, d \in Callers : c # d /\ Open(c) /\ Open(d) => {c, d} \in raced

OneDefault == \A n, m \in PhoneNumbers : Clash(senders[n], senders[m]) => n = m
ActiveHasDefault ==
  \A n \in PhoneNumbers :
    senders[n] # Nil /\ senders[n].active
      => \E m \in PhoneNumbers : ActiveDefault(senders[m]) /\ senders[m].tenant = senders[n].tenant
OneOwner(w) ==
  \A n, m \in PhoneNumbers :
    senders[n] # Nil /\ senders[m] # Nil /\ senders[n].waba = w /\ senders[m].waba = w => senders[n].tenant = senders[m].tenant
DraftsFit == \A n \in PhoneNumbers : locker[n] # Nil => NoRivals(locker[n], n, draft[n])

OwnRow(c, n) ==
  /\ Writing(c)
  /\ draft[n].tenant = Call(c).tenant
  /\ senders[n] = Nil => Call(c).op = "create" /\ draft[n].waba = Call(c).waba
  /\ senders[n] # Nil => /\ senders[n].tenant = Call(c).tenant
                         /\ draft[n].waba \in {senders[n].waba, Call(c).waba}
                         /\ senders[n].active /\ ~TakesOut(Call(c)) => draft[n].active
IsTenants(c, n) == senders[n] # Nil /\ senders[n].tenant = Call(c).tenant
Aims(c) ==
  /\ request[c].pc \in {"clear", "promote"} => \A n \in request[c].targets : IsTenants(c, n)
  /\ Writing(c) /\ Call(c).op = "update" => IsTenants(c, Call(c).id)
  /\ request[c].pc \in {"review", "fallback", "promote"} => Call(c).op = "update"
  /\ request[c].pc = "clear" /\ Call(c).op = "create" => request[c].isDefault \in BOOLEAN
  /\ request[c].pc \in {"owner", "begin", "select"} => request[c].targets = {} /\ Mine(c) = {}
  /\ request[c].pc = "select" /\ Call(c).op = "create" => request[c].isDefault = TRUE
Owner(c) ==
  Writing(c) \/ request[c].pc = "begin" =>
    \A n \in PhoneNumbers :
      senders[n] # Nil /\ senders[n].waba # Nil /\ senders[n].waba = Call(c).waba => senders[n].tenant = Call(c).tenant

Brings(c) == \E n \in Mine(c) : ActiveDefault(draft[n])
SeesOne(c) ==
  \A n \in Actives(c, Call(c).tenant) :
    \E m \in Actives(c, Call(c).tenant) : Visible(c, m).isDefault
LeavesOne(c) ==
  \A n \in Mine(c) : ~ActiveDefault(senders[n]) /\ (draft[n].active => HasActive(Call(c).tenant))
Settles(c) ==
  \/ Brings(c)
  \/ TakesOut(Call(c)) /\ SeesOne(c)
  \/ ~TakesOut(Call(c)) /\ LeavesOne(c)
Relies(c) ==
  /\ request[c].pc = "clear" /\ Call(c).op = "create" /\ request[c].isDefault = FALSE
       => request[c].targets = {} /\ Mine(c) = {} /\ HasActive(Call(c).tenant)
  /\ request[c].pc = "promote" => \A n \in request[c].targets : Visible(c, n).active
  /\ request[c].pc = "commit" => Settles(c)

TableInv ==
  /\ OneDefault /\ DraftsFit
  /\ ~Excused => ActiveHasDefault
  /\ \A w \in Wabas : ~WabaRaced(w) => OneOwner(w)
CallerInv(c) ==
  /\ \A n \in Mine(c) : OwnRow(c, n)
  /\ Aims(c)
  /\ ~WabaRaced(Call(c).waba) => Owner(c)
  /\ ~Excused => Relies(c)
SenderInv == SenderTypes /\ RacesKnown /\ TableInv /\ \A c \in Callers : CallerInv(c)

LEMMA AtMostOne ==
  ASSUME NEW S, \A x, y \in S : x = y PROVE Cardinality(S) <= 1
<1>1. CASE S = {} BY <1>1, FS_EmptySet
<1>2. CASE S # {}
    <2>1. PICK x \in S : TRUE BY <1>2
    <2>2. S = {x} BY <2>1
    <2> QED BY <2>2, FS_Singleton
<1> QED BY <1>1, <1>2

LEMMA SendersInvResolve == ASSUME SenderInv PROVE SendersResolve
<1>1. OneActiveDefault
    <2> SUFFICES ASSUME NEW t \in Tenants
                 PROVE  Cardinality({n \in TenantRows(t) : ActiveDefault(senders[n])}) <= 1
        BY DEF OneActiveDefault
    <2>1. \A n, m \in {n \in TenantRows(t) : ActiveDefault(senders[n])} : n = m
        BY DEF SenderInv, TableInv, OneDefault, Clash, TenantRows
    <2> QED BY <2>1, AtMostOne
<1>2. DefaultIsKept
    <2> SUFFICES ASSUME NEW t \in Tenants, NEW n \in TenantRows(t), senders[n].active,
                        ~RacedWith(LAMBDA call : call.op = "update" /\ call.active = FALSE)
                 PROVE  \E m \in TenantRows(t) : ActiveDefault(senders[m])
        BY DEF DefaultIsKept
    <2>1. ~Excused BY DEF RacedWith, Excused, TakesOut, Call
    <2>2. PICK m \in PhoneNumbers : ActiveDefault(senders[m]) /\ senders[m].tenant = senders[n].tenant
        BY <2>1 DEF SenderInv, TableInv, ActiveHasDefault, TenantRows
    <2> QED BY <2>2 DEF TenantRows, ActiveDefault
<1>3. WabaHasOneOwner
    <2> SUFFICES ASSUME NEW w \in Wabas, ~WabaRaced(w)
                 PROVE  Cardinality(FindTenantIdByWabaId(w)) <= 1
        BY DEF WabaHasOneOwner, WabaRaced, Call
    <2>1. OneOwner(w) BY DEF SenderInv, TableInv
    <2>2. \A x, y \in FindTenantIdByWabaId(w) : x = y BY <2>1 DEF OneOwner, FindTenantIdByWabaId
    <2> QED BY <2>2, AtMostOne
<1> QED BY <1>1, <1>2, <1>3 DEF SendersResolve

LEMMA InitSenders == SenderInit => SenderInv
<1> SUFFICES ASSUME SenderInit PROVE SenderInv OBVIOUS
<1>1. /\ draft = [n \in PhoneNumbers |-> Nil] /\ locker = [n \in PhoneNumbers |-> Nil] /\ raced = {}
      /\ request = [c \in Callers |-> [pc |-> "idle"]]
    BY DEF SenderInit
<1>2. IsRegistry(senders) BY SenderAssumption DEF SenderInit
<1>3. SenderTypes BY <1>1, <1>2 DEF SenderTypes, IsRegistry, IsRequest
<1>4. RacesKnown BY <1>1 DEF RacesKnown, Open
<1>5. TableInv
    <2>1. OneDefault /\ ActiveHasDefault
        BY <1>2 DEF IsRegistry, OneDefault, ActiveHasDefault, Clash, ActiveDefault
    <2>2. \A w \in Wabas : w # Nil BY SenderAssumption
    <2>3. \A w \in Wabas : OneOwner(w) BY <1>2, <2>2 DEF IsRegistry, OneOwner
    <2>4. DraftsFit BY <1>1 DEF DraftsFit
    <2> QED BY <2>1, <2>3, <2>4 DEF TableInv
<1>6. ASSUME NEW c \in Callers PROVE CallerInv(c)
    <2>1. c # Nil BY SenderAssumption
    <2>2. Mine(c) = {} BY <1>1, <2>1 DEF Mine
    <2> QED BY <1>1, <2>2 DEF CallerInv, Aims, Owner, Relies, Writing
<1> QED BY <1>3, <1>4, <1>5, <1>6 DEF SenderInv

-----------------------------------------------------------------------------
(* What a step of one request leaves of the others.                        *)
OthersStay(c) ==
  /\ request' = [d \in Callers |-> request'[d]]
  /\ \A d \in Callers \ {c} : request'[d] = request[d]
Moves(c, pc, T, i) ==
  /\ OthersStay(c) /\ IsRequest(request'[c]) /\ Call(c)' = Call(c)
  /\ request'[c].pc = pc /\ request'[c].targets = T /\ request'[c].isDefault = i

LEMMA StartedRequest ==
  ASSUME SenderInv, NEW c \in Callers, NEW q, q = request[c], q.pc # "idle"
  PROVE  /\ q = [pc |-> q.pc, call |-> q.call, targets |-> q.targets, isDefault |-> q.isDefault]
         /\ q.call \in PhoneCalls /\ q.targets \in SUBSET PhoneNumbers
         /\ q.isDefault \in BOOLEAN \cup {Nil}
<1>1. IsRequest(q) BY DEF SenderInv, SenderTypes
<1>2. q # [pc |-> "idle"] OBVIOUS
<1> QED BY <1>1, <1>2 DEF IsRequest

LEMMA RequestMoves ==
  ASSUME SenderInv, NEW c \in Callers, request[c].pc # "idle",
         NEW pc \in PhoneSteps,
         NEW T \in SUBSET PhoneNumbers, NEW i \in BOOLEAN \cup {Nil},
         \/ request' = [request EXCEPT ![c].pc = pc] /\ T = request[c].targets /\ i = request[c].isDefault
         \/ /\ request' = [request EXCEPT ![c].targets = T]
            /\ pc = request[c].pc /\ i = request[c].isDefault
         \/ request' = [request EXCEPT ![c].pc = pc, ![c].targets = T] /\ i = request[c].isDefault
         \/ request' = [request EXCEPT ![c].targets = T, ![c].pc = pc] /\ i = request[c].isDefault
         \/ request' = [request EXCEPT ![c].pc = pc, ![c].isDefault = i] /\ T = request[c].targets
  PROVE  Moves(c, pc, T, i)
<1>1. PICK q : q = request[c] OBVIOUS
<1>2. /\ q = [pc |-> q.pc, call |-> q.call, targets |-> q.targets, isDefault |-> q.isDefault]
      /\ q.call \in PhoneCalls
    BY <1>1, StartedRequest
<1>3. PICK s : s = [pc |-> pc, call |-> q.call, targets |-> T, isDefault |-> i] OBVIOUS
<1>4. request = [d \in Callers |-> request[d]] BY DEF SenderInv, SenderTypes
<1>5. ASSUME request' = [request EXCEPT ![c].pc = pc], T = request[c].targets, i = request[c].isDefault
     PROVE  request' = [request EXCEPT ![c] = s]
    <2>1. s = [q EXCEPT !.pc = pc] BY <1>1, <1>2, <1>3, <1>5
    <2> QED BY <1>1, <1>4, <1>5, <2>1
<1>6. ASSUME request' = [request EXCEPT ![c].targets = T], pc = request[c].pc, i = request[c].isDefault
     PROVE  request' = [request EXCEPT ![c] = s]
    <2>1. s = [q EXCEPT !.targets = T] BY <1>1, <1>2, <1>3, <1>6
    <2> QED BY <1>1, <1>4, <1>6, <2>1
<1>7. ASSUME request' = [request EXCEPT ![c].pc = pc, ![c].targets = T], i = request[c].isDefault
     PROVE  request' = [request EXCEPT ![c] = s]
    <2>1. s = [q EXCEPT !.pc = pc, !.targets = T]
        <3>1. PICK q1 : q1 = [q EXCEPT !.pc = pc] OBVIOUS
        <3>2. q1 = [pc |-> pc, call |-> q.call, targets |-> q.targets, isDefault |-> i]
            BY <1>1, <1>2, <1>7, <3>1
        <3>3. s = [q1 EXCEPT !.targets = T] BY ONLY <1>3, <3>2
        <3> QED BY ONLY <3>1, <3>3
    <2> QED BY <1>1, <1>4, <1>7, <2>1
<1>8. ASSUME request' = [request EXCEPT ![c].targets = T, ![c].pc = pc], i = request[c].isDefault
     PROVE  request' = [request EXCEPT ![c] = s]
    <2>1. s = [q EXCEPT !.targets = T, !.pc = pc]
        <3>1. PICK q1 : q1 = [q EXCEPT !.targets = T] OBVIOUS
        <3>2. q1 = [pc |-> q.pc, call |-> q.call, targets |-> T, isDefault |-> i]
            BY <1>1, <1>2, <1>8, <3>1
        <3>3. s = [q1 EXCEPT !.pc = pc] BY ONLY <1>3, <3>2
        <3> QED BY ONLY <3>1, <3>3
    <2> QED BY <1>1, <1>4, <1>8, <2>1
<1>9. ASSUME request' = [request EXCEPT ![c].pc = pc, ![c].isDefault = i], T = request[c].targets
     PROVE  request' = [request EXCEPT ![c] = s]
    <2>1. s = [q EXCEPT !.pc = pc, !.isDefault = i]
        <3>1. PICK q1 : q1 = [q EXCEPT !.pc = pc] OBVIOUS
        <3>2. q1 = [pc |-> pc, call |-> q.call, targets |-> T, isDefault |-> q.isDefault]
            BY <1>1, <1>2, <1>9, <3>1
        <3>3. s = [q1 EXCEPT !.isDefault = i] BY ONLY <1>3, <3>2
        <3> QED BY ONLY <3>1, <3>3
    <2> QED BY <1>1, <1>4, <1>9, <2>1
<1>10. request' = [request EXCEPT ![c] = s] BY <1>5, <1>6, <1>7, <1>8, <1>9
<1>11. request'[c] = s /\ OthersStay(c) BY <1>4, <1>10 DEF OthersStay
<1>12. IsRequest(s) /\ s.call = q.call /\ s.pc = pc /\ s.targets = T /\ s.isDefault = i
    BY <1>2, <1>3 DEF IsRequest
<1> QED BY <1>1, <1>11, <1>12 DEF Moves, Call

RacesGrow == (Excused => Excused') /\ \A w : WabaRaced(w) => WabaRaced(w)'

LEMMA RacesStay ==
  ASSUME SenderInv, NEW c \in Callers, OthersStay(c), Call(c)' = Call(c), UNCHANGED raced,
         Open(c)' => Open(c), request'[c].pc # "idle"
  PROVE  RacesKnown' /\ RacesGrow
<1>1. \A d \in Callers : Call(d)' = Call(d) BY DEF OthersStay, Call
<1>2. raced \in SUBSET SUBSET Callers BY DEF SenderInv, RacesKnown
<1>3. RacesGrow BY <1>1, <1>2 DEF RacesGrow, Excused, WabaRaced
<1>4. \A d \in Callers : (Open(d)' => Open(d)) /\ (request[d].pc # "idle" => request'[d].pc # "idle")
    BY DEF OthersStay, Open
<1> QED BY <1>2, <1>3, <1>4 DEF SenderInv, RacesKnown

(* Two open requests have raced, so what one of them does excuses both.    *)
LEMMA OpenHaveRaced ==
  ASSUME SenderInv, NEW c \in Callers, NEW d \in Callers, c # d, Open(c), Open(d)
  PROVE  /\ ~Excused => ~TakesOut(Call(c)) /\ ~TakesOut(Call(d))
         /\ Call(c).waba = Call(d).waba => WabaRaced(Call(c).waba)
<1>1. {c, d} \in raced BY DEF SenderInv, RacesKnown
<1> QED BY <1>1 DEF Excused, WabaRaced

LEMMA FitsNext ==
  ASSUME \A n \in PhoneNumbers : \A d, v : d = locker'[n] /\ d # Nil /\ v = draft'[n]
           => \A m \in PhoneNumbers \ {n} :
                ~Clash(Visible(d, m)', v) /\ (locker'[m] # d => ~Clash(draft'[m], v))
  PROVE  DraftsFit'
<1> SUFFICES ASSUME NEW n \in PhoneNumbers, (locker[n] # Nil)' PROVE NoRivals(locker[n], n, draft[n])'
    BY DEF DraftsFit
<1> QED BY DEF NoRivals, Visible, Clash, ActiveDefault

LEMMA OtherKept ==
  ASSUME SenderInv, NEW d \in Callers, UNCHANGED senders, request'[d] = request[d], RacesGrow,
         \A n \in PhoneNumbers :
           (locker'[n] = d <=> locker[n] = d) /\ (locker[n] = d => draft'[n] = draft[n])
  PROVE  CallerInv(d)'
<1> USE DEF SenderInv
<1>1. Mine(d)' = Mine(d) /\ Call(d)' = Call(d) /\ (Writing(d)' <=> Writing(d))
    BY DEF Mine, Call, Writing
<1>2. \A n \in PhoneNumbers : Visible(d, n)' = Visible(d, n) BY DEF Visible
<1>3. \A t : (HasActive(t)' <=> HasActive(t)) /\ Actives(d, t)' = Actives(d, t)
    BY <1>2 DEF HasActive, Actives
<1>4. \A n \in Mine(d) : OwnRow(d, n) => OwnRow(d, n)'
    BY <1>1 DEF OwnRow, Mine
<1>5. Aims(d)' BY <1>1 DEF CallerInv, Aims, IsTenants
<1>6. Owner(d) => Owner(d)' BY <1>1 DEF Owner
<1>7. Settles(d) => Settles(d)'
    <2>1. Brings(d) => Brings(d)' BY <1>1 DEF Brings, Mine
    <2>2. SeesOne(d) => SeesOne(d)'
        <3>1. Actives(d, Call(d).tenant)' = Actives(d, Call(d).tenant) BY <1>1, <1>3
        <3>2. Actives(d, Call(d).tenant) \subseteq PhoneNumbers BY DEF Actives
        <3> QED BY <1>2, <3>1, <3>2 DEF SeesOne
    <2>3. LeavesOne(d) => LeavesOne(d)' BY <1>1, <1>3 DEF LeavesOne, Mine
    <2> QED BY <1>1, <2>1, <2>2, <2>3 DEF Settles
<1>8. request[d].pc = "promote" /\ (\A n \in request[d].targets : Visible(d, n).active)
        => \A n \in request[d].targets : Visible(d, n)'.active
    <2>1. request[d].pc = "promote" => request[d].targets \subseteq PhoneNumbers BY StartedRequest
    <2> QED BY <1>2, <2>1
<1>9. Relies(d) => Relies(d)' BY <1>1, <1>3, <1>7, <1>8 DEF Relies
<1> QED BY <1>1, <1>4, <1>5, <1>6, <1>9 DEF CallerInv, RacesGrow

LEMMA TableKept ==
  ASSUME SenderInv, UNCHANGED senders, RacesGrow, DraftsFit' PROVE TableInv'
<1>1. OneDefault' /\ (ActiveHasDefault => ActiveHasDefault') /\ \A w : OneOwner(w) => OneOwner(w)'
    BY DEF SenderInv, TableInv, OneDefault, ActiveHasDefault, OneOwner
<1> QED BY <1>1 DEF SenderInv, TableInv, RacesGrow

(* A step that only moves a request on.                                    *)
LEMMA RequestStep ==
  ASSUME SenderInv, NEW c \in Callers, OthersStay(c), IsRequest(request'[c]), RacesKnown', RacesGrow,
         UNCHANGED <<senders, draft, locker>>, CallerInv(c)'
  PROVE  SenderInv'
<1>1. SenderTypes' BY DEF SenderInv, SenderTypes, OthersStay
<1>2. DraftsFit' BY DEF SenderInv, TableInv, DraftsFit, NoRivals, Visible
<1>3. TableInv' BY <1>2, TableKept
<1>4. ASSUME NEW d \in Callers PROVE CallerInv(d)'
    BY OtherKept DEF SenderInv, OthersStay
<1> QED BY <1>1, <1>3, <1>4 DEF SenderInv

(* A transaction that fails: its rows are as they were.                    *)
LEMMA FailHolds ==
  ASSUME SenderInv, NEW c \in Callers, Open(c), Fail(c), UNCHANGED <<senders, raced>> PROVE SenderInv'
<1>1. PICK T \in SUBSET PhoneNumbers : T = request[c].targets BY StartedRequest DEF Open
<1>2. PICK i \in BOOLEAN \cup {Nil} : i = request[c].isDefault BY StartedRequest DEF Open
<1>3. request' = [request EXCEPT ![c].pc = "failed"] BY DEF Fail, MoveTo
<1>4. Moves(c, "failed", T, i) BY <1>1, <1>2, <1>3, RequestMoves DEF Open, PhoneSteps
<1>5. RacesKnown' /\ RacesGrow BY <1>4, RacesStay DEF Moves, Open
<1>6. \A n \in PhoneNumbers :
        /\ locker'[n] = (IF locker[n] = c THEN Nil ELSE locker[n])
        /\ draft'[n] = (IF locker[n] = c THEN Nil ELSE draft[n])
    BY DEF Fail
<1>7. c # Nil BY SenderAssumption
<1>8. SenderTypes'
    <2>1. draft' \in [PhoneNumbers -> SenderRows \cup {Nil}] /\ locker' \in [PhoneNumbers -> Callers \cup {Nil}]
        BY DEF Fail, SenderInv, SenderTypes
    <2>2. \A n \in PhoneNumbers : locker'[n] = Nil <=> draft'[n] = Nil
        BY <1>6 DEF SenderInv, SenderTypes
    <2> QED BY <1>4, <2>1, <2>2 DEF SenderInv, SenderTypes, Moves, OthersStay
<1>9. DraftsFit'
    <2>1. ASSUME NEW n \in PhoneNumbers, NEW d, d = locker'[n], d # Nil,
                 NEW v, v = draft'[n], NEW m \in PhoneNumbers \ {n}
          PROVE  ~Clash(Visible(d, m)', v) /\ (locker'[m] # d => ~Clash(draft'[m], v))
        <3>1. d = locker[n] /\ v = draft[n] /\ d # c BY <1>6, <2>1
        <3>2. NoRivals(d, n, v) BY <2>1, <3>1 DEF SenderInv, TableInv, DraftsFit
        <3>3. Visible(d, m)' = Visible(d, m) BY <1>6, <2>1, <3>1 DEF Visible
        <3>4. ~Clash(Nil, v) BY DEF Clash, ActiveDefault
        <3> QED BY <1>6, <3>2, <3>3, <3>4 DEF NoRivals
    <2> QED BY <2>1, FitsNext
<1>10. TableInv' BY <1>5, <1>9, TableKept
<1>11. ASSUME NEW d \in Callers PROVE CallerInv(d)'
    <2>1. CASE d = c
        <3>1. Mine(c)' = {} BY <1>6, <1>7 DEF Mine
        <3>2. request'[c].pc = "failed" BY <1>4 DEF Moves
        <3> QED BY <2>1, <3>1, <3>2 DEF CallerInv, Aims, Owner, Relies, Writing
    <2>2. CASE d # c
        <3>1. d # Nil /\ request'[d] = request[d] BY <1>4, <2>2, SenderAssumption DEF Moves, OthersStay
        <3> QED BY <1>5, <1>6, <2>2, <3>1, OtherKept DEF SenderInv
    <2> QED BY <2>1, <2>2
<1> QED BY <1>5, <1>8, <1>10, <1>11 DEF SenderInv

(* A write of a row that is free, past the index.                          *)
LEMMA IndexPasses ==
  ASSUME NEW c, NEW n, NEW r, ~IndexWaits(c, n, r), ~IndexRefuses(c, n, r)
  PROVE  NoRivals(c, n, r)
<1>1. IndexRivals(c, n, r) = {} BY DEF IndexRefuses
<1>2. CASE ~ActiveDefault(r) BY <1>2 DEF NoRivals, Clash
<1>3. CASE ActiveDefault(r) BY <1>1, <1>3 DEF IndexRivals, NoRivals, Clash
<1> QED BY <1>2, <1>3

LEMMA WriteHolds ==
  ASSUME SenderInv, NEW c \in Callers, NEW n \in PhoneNumbers, Free(c, n), NEW r \in SenderRows,
         WriteRow(c, n, r), NoRivals(c, n, r), NEW pc, NEW T, NEW i, Moves(c, pc, T, i), Open(c),
         pc # "idle", UNCHANGED <<senders, raced>>, RacesGrow => CallerInv(c)'
  PROVE  SenderInv'
<1>1. /\ draft'[n] = r /\ locker'[n] = c
      /\ \A m \in PhoneNumbers \ {n} : draft'[m] = draft[m] /\ locker'[m] = locker[m]
    BY DEF WriteRow, SenderInv, SenderTypes
<1>2. c # Nil /\ r # Nil /\ locker[n] \in {Nil, c} BY SenderAssumption DEF Free
<1>3. RacesKnown' /\ RacesGrow BY RacesStay DEF Moves, Open
<1>4. SenderTypes'
    <2>1. draft' \in [PhoneNumbers -> SenderRows \cup {Nil}] /\ locker' \in [PhoneNumbers -> Callers \cup {Nil}]
        BY DEF WriteRow, SenderInv, SenderTypes
    <2>2. \A m \in PhoneNumbers : locker'[m] = Nil <=> draft'[m] = Nil
        BY <1>1, <1>2 DEF SenderInv, SenderTypes
    <2> QED BY <2>1, <2>2 DEF SenderInv, SenderTypes, Moves, OthersStay
<1>5. DraftsFit'
    <2> SUFFICES ASSUME NEW k \in PhoneNumbers, NEW d, d = locker'[k], d # Nil,
                        NEW v, v = draft'[k], NEW m \in PhoneNumbers \ {k}
                 PROVE  ~Clash(Visible(d, m)', v) /\ (locker'[m] # d => ~Clash(draft'[m], v))
        BY FitsNext
    <2>1. CASE k = n
        <3>1. Visible(c, m)' = Visible(c, m) BY <1>1, <2>1 DEF Visible
        <3> QED BY <1>1, <2>1, <3>1 DEF NoRivals
    <2>2. CASE k # n
        <3>1. d = locker[k] /\ v = draft[k] BY <1>1, <2>2
        <3>2. NoRivals(d, k, v) BY <3>1 DEF SenderInv, TableInv, DraftsFit
        <3>3. CASE m # n
            <4>1. Visible(d, m)' = Visible(d, m) BY <1>1, <3>1, <3>3 DEF Visible
            <4> QED BY <1>1, <3>1, <3>2, <3>3, <4>1 DEF NoRivals
        <3>4. CASE m = n /\ d = c
            <4>1. Visible(c, n)' = r /\ Visible(c, k) = v BY <1>1, <3>1, <3>4 DEF Visible
            <4>2. ~Clash(v, r) BY <2>2, <4>1 DEF NoRivals
            <4> QED BY <1>1, <3>1, <3>4, <4>1, <4>2 DEF Clash
        <3>5. CASE m = n /\ d # c
            <4>1. Visible(d, n)' = senders[n] /\ Visible(d, n) = senders[n]
                BY <1>1, <1>2, <3>1, <3>5 DEF Visible
            <4>2. ~Clash(senders[n], v) BY <3>2, <3>5, <4>1 DEF NoRivals
            <4>3. ~Clash(v, r) BY <2>2, <3>1, <3>5 DEF NoRivals
            <4> QED BY <1>1, <3>1, <3>5, <4>1, <4>2, <4>3 DEF Clash
        <3> QED BY <3>3, <3>4, <3>5
    <2> QED BY <2>1, <2>2
<1>6. TableInv' BY <1>3, <1>5, TableKept
<1>7. ASSUME NEW d \in Callers, d # c PROVE CallerInv(d)'
    <2>1. d # Nil /\ request'[d] = request[d] BY <1>7, SenderAssumption DEF Moves, OthersStay
    <2>2. \A m \in PhoneNumbers :
            (locker'[m] = d <=> locker[m] = d) /\ (locker[m] = d => draft'[m] = draft[m])
        BY <1>1, <1>2, <1>7, <2>1
    <2> QED BY <1>3, <2>1, <2>2, OtherKept DEF SenderInv
<1> QED BY <1>3, <1>4, <1>6, <1>7 DEF SenderInv

-----------------------------------------------------------------------------
(* A caller that does not write holds no row.                              *)
LEMMA HoldsNone ==
  ASSUME SenderInv, NEW c \in Callers, ~Writing(c) PROVE Mine(c) = {}
BY DEF SenderInv, CallerInv, OwnRow

LEMMA CallFields ==
  ASSUME SenderInv, NEW c \in Callers, request[c].pc # "idle", NEW call, call = Call(c)
  PROVE  /\ call.op \in {"create", "update"} /\ call.id \in PhoneNumbers /\ call.tenant \in Tenants
         /\ call.active \in BOOLEAN \cup {Nil} /\ call.isDefault \in BOOLEAN \cup {Nil}
         /\ call.waba \in Wabas \cup {Nil}
BY StartedRequest, SenderAssumption DEF Call

(* A caller whose request only moves on, its rows and the table as before. *)
LEMMA MovesOn ==
  ASSUME SenderInv, NEW c \in Callers, NEW pc, NEW T, NEW i, Moves(c, pc, T, i), pc # "idle",
         Open(c), UNCHANGED <<senders, draft, locker, raced>>,
         RacesKnown' /\ RacesGrow => CallerInv(c)'
  PROVE  SenderInv'
<1>1. RacesKnown' /\ RacesGrow BY RacesStay DEF Moves, Open
<1> QED BY <1>1, RequestStep DEF Moves

LEMMA StartStep ==
  ASSUME SenderInv, NEW c \in Callers, StartRequest(c) PROVE SenderInv'
<1>1. PICK call \in PhoneCalls :
        LET taken == call.op = "create" /\ senders[call.id] # Nil IN
        request' = [request EXCEPT ![c] = [pc |-> IF taken THEN "failed" ELSE "owner",
                                           call |-> call, targets |-> {}, isDefault |-> Nil]]
    BY DEF StartRequest
<1>2. PICK pc \in {"failed", "owner"} :
        request' = [request EXCEPT ![c] = [pc |-> pc, call |-> call, targets |-> {}, isDefault |-> Nil]]
    BY <1>1
<1>3. request = [d \in Callers |-> request[d]] BY DEF SenderInv, SenderTypes
<1>4. /\ OthersStay(c) /\ request'[c].pc = pc
      /\ request'[c] = [pc |-> pc, call |-> call, targets |-> {}, isDefault |-> Nil]
    BY <1>2, <1>3 DEF OthersStay
<1>5. IsRequest(request'[c]) BY <1>4 DEF IsRequest, PhoneSteps
<1>6. /\ request[c].pc = "idle" /\ UNCHANGED <<senders, draft, locker>>
      /\ raced' = raced \cup {{c, d} : d \in {d \in Callers \ {c} : Open(d)}}
    BY DEF StartRequest
<1>7. \A pair \in raced : pair \subseteq Callers /\ c \notin pair
    BY <1>6 DEF SenderInv, RacesKnown
<1>8. RacesGrow
    <2>1. \A d \in Callers \ {c} : Call(d)' = Call(d) BY <1>4 DEF OthersStay, Call
    <2> QED BY <1>6, <1>7, <2>1 DEF RacesGrow, Excused, WabaRaced
<1>9. RacesKnown'
    <2>1. raced' \in SUBSET SUBSET Callers BY <1>6 DEF SenderInv, RacesKnown
    <2>2. \A d \in Callers \ {c} : request'[d] = request[d] /\ (Open(d)' <=> Open(d))
        BY <1>4 DEF OthersStay, Open
    <2>3. \A pair \in raced' : \A d \in pair : request'[d].pc # "idle"
        BY <1>4, <1>6, <1>7, <2>2 DEF SenderInv, RacesKnown, Open
    <2>4. \A d, e \in Callers : d # e /\ Open(d)' /\ Open(e)' => {d, e} \in raced'
        BY <1>6, <2>2 DEF SenderInv, RacesKnown
    <2> QED BY <2>1, <2>3, <2>4 DEF RacesKnown
<1>10. CallerInv(c)'
    <2>1. Mine(c) = {} BY <1>6, HoldsNone DEF Writing
    <2>2. Mine(c)' = {} BY <1>6, <2>1 DEF Mine
    <2> QED BY <1>4, <2>2 DEF CallerInv, Aims, Owner, Relies, Writing
<1> QED BY <1>4, <1>5, <1>6, <1>8, <1>9, <1>10, RequestStep

LEMMA AssertStep ==
  ASSUME SenderInv, NEW c \in Callers, AssertWabaOwnership(c) PROVE SenderInv'
<1>1. PICK call : call = Call(c) OBVIOUS
<1>2. PICK pc \in {"failed", "begin"} :
        pc = (IF OwnedByAnother(call) THEN "failed" ELSE "begin")
    OBVIOUS
<1>3. request[c].pc = "owner" /\ request' = [request EXCEPT ![c].pc = pc]
    BY <1>1, <1>2 DEF AssertWabaOwnership, MoveTo, Call
<1>4. PICK T \in SUBSET PhoneNumbers : T = request[c].targets BY <1>3, StartedRequest
<1>5. PICK i \in BOOLEAN \cup {Nil} : i = request[c].isDefault BY <1>3, StartedRequest
<1>6. Moves(c, pc, T, i) BY <1>3, <1>4, <1>5, RequestMoves DEF PhoneSteps
<1>7. Mine(c) = {} /\ UNCHANGED <<senders, draft, locker, raced>>
    BY <1>3, HoldsNone DEF Writing, AssertWabaOwnership
<1>8. /\ Mine(c)' = {} /\ request'[c].pc = pc /\ Call(c)' = call
      /\ request'[c].targets = {}
    BY <1>1, <1>3, <1>4, <1>6, <1>7 DEF Mine, Moves, SenderInv, CallerInv, Aims
<1>9. Owner(c)' BY <1>2, <1>7, <1>8 DEF Owner, OwnedByAnother, Writing
<1>10. CallerInv(c)' BY <1>2, <1>8, <1>9 DEF CallerInv, Aims, Relies, Writing
<1> QED BY <1>3, <1>6, <1>7, <1>10, MovesOn DEF Open

LEMMA CreateStep ==
  ASSUME SenderInv, NEW c \in Callers, CreateBegins(c) PROVE SenderInv'
<1>1. PICK call : call = Call(c) OBVIOUS
<1>2. PICK i \in BOOLEAN : i = (Actives(c, call.tenant) = {} \/ call.isDefault = TRUE) OBVIOUS
<1>3. PICK pc \in {"select", "clear"} : pc = IF i THEN "select" ELSE "clear" OBVIOUS
<1>4. /\ request[c].pc = "begin" /\ call.op = "create"
      /\ request' = [request EXCEPT ![c].pc = pc, ![c].isDefault = i]
      /\ UNCHANGED <<senders, draft, locker, raced>>
    BY <1>1, <1>2, <1>3 DEF CreateBegins, Call
<1>5. request[c].targets = {} BY <1>4 DEF SenderInv, CallerInv, Aims
<1>6. Moves(c, pc, {}, i) BY <1>3, <1>4, <1>5, RequestMoves DEF PhoneSteps
<1>7. Mine(c) = {} BY <1>4, HoldsNone DEF Writing
<1>8. /\ Mine(c)' = {} /\ Call(c)' = call /\ request'[c].pc = pc /\ request'[c].targets = {}
      /\ request'[c].isDefault = i
    BY <1>1, <1>4, <1>6, <1>7 DEF Mine, Moves
<1>9. Aims(c)' BY <1>3, <1>4, <1>8 DEF Aims
<1>10. Relies(c)'
    <2>1. \A n \in PhoneNumbers : Visible(c, n) = senders[n] BY <1>7 DEF Visible, Mine
    <2>2. ~i => \E n \in PhoneNumbers : n \in Actives(c, call.tenant) BY <1>2 DEF Actives
    <2>3. ~i => HasActive(call.tenant)' BY <1>4, <2>1, <2>2 DEF Actives, HasActive
    <2> QED BY <1>3, <1>8, <2>3 DEF Relies
<1>11. RacesGrow => (~WabaRaced(Call(c).waba)' => Owner(c)')
    <2>1. Owner(c) => Owner(c)' BY <1>1, <1>4, <1>8 DEF Owner
    <2> QED BY <1>1, <1>8, <2>1 DEF SenderInv, CallerInv, RacesGrow
<1>12. RacesGrow => CallerInv(c)' BY <1>8, <1>9, <1>10, <1>11 DEF CallerInv
<1> QED BY <1>3, <1>4, <1>6, <1>12, MovesOn DEF Open

LEMMA UpdateBeginStep ==
  ASSUME SenderInv, NEW c \in Callers, UpdateBegins(c) PROVE SenderInv'
<1>1. PICK call : call = Call(c) OBVIOUS
<1>2. PICK pc \in {"failed", "select", "clear"} :
        /\ request[c].pc = "begin" /\ call.op = "update" /\ UNCHANGED <<senders, draft, locker, raced>>
        /\ request' = [request EXCEPT ![c].pc = pc]
        /\ pc # "failed" => Visible(c, call.id) # Nil /\ Visible(c, call.id).tenant = call.tenant
    BY <1>1 DEF UpdateBegins, MoveTo, Call
<1>3. request[c].targets = {} BY <1>2 DEF SenderInv, CallerInv, Aims
<1>4. PICK i \in BOOLEAN \cup {Nil} : i = request[c].isDefault BY <1>2, StartedRequest
<1>5. Mine(c) = {} BY <1>2, HoldsNone DEF Writing
<1>6. Moves(c, pc, {}, i) BY <1>2, <1>3, <1>4, RequestMoves DEF PhoneSteps
<1>7. Mine(c)' = {} /\ Call(c)' = call /\ request'[c].pc = pc /\ request'[c].targets = {}
    BY <1>1, <1>2, <1>5, <1>6 DEF Mine, Moves
<1>8. CASE pc = "failed"
    <2>1. CallerInv(c)' BY <1>7, <1>8 DEF CallerInv, Aims, Owner, Relies, Writing
    <2> QED BY <1>2, <1>6, <2>1, MovesOn DEF Open
<1>9. CASE pc # "failed"
    <2>1. call.id \in PhoneNumbers BY <1>1, <1>2, CallFields
    <2>2. Visible(c, call.id) = senders[call.id] BY <1>5, <2>1 DEF Visible, Mine
    <2>3. Aims(c)' BY <1>2, <1>7, <1>9, <2>2 DEF Aims, IsTenants
    <2>4. Relies(c)' BY <1>2, <1>7 DEF Relies
    <2>5. RacesGrow => (~WabaRaced(Call(c).waba)' => Owner(c)')
        <3>1. Owner(c) => Owner(c)' BY <1>1, <1>2, <1>7 DEF Owner
        <3> QED BY <1>1, <1>7, <3>1 DEF SenderInv, CallerInv, RacesGrow
    <2>6. RacesGrow => CallerInv(c)' BY <1>7, <2>3, <2>4, <2>5 DEF CallerInv
    <2> QED BY <1>2, <1>6, <2>6, MovesOn DEF Open
<1> QED BY <1>8, <1>9

(* The defaults a transaction finds before its first write are its tenant's. *)
LEMMA SelectStep ==
  ASSUME SenderInv, NEW c \in Callers, SelectDefaults(c) PROVE SenderInv'
<1>1. PICK call : call = Call(c) OBVIOUS
<1>2. PICK T : T \subseteq Defaults(c, call.tenant)
               /\ request' = [request EXCEPT ![c].pc = "clear", ![c].targets = T]
    BY <1>1 DEF SelectDefaults, Call
<1>3. request[c].pc = "select" /\ UNCHANGED <<senders, draft, locker, raced>> BY DEF SelectDefaults
<1>4. T \in SUBSET PhoneNumbers BY <1>2 DEF Defaults
<1>5. PICK i \in BOOLEAN \cup {Nil} : i = request[c].isDefault BY <1>3, StartedRequest
<1>6. Moves(c, "clear", T, i) BY <1>2, <1>3, <1>4, <1>5, RequestMoves DEF PhoneSteps
<1>7. /\ CallerInv(c) /\ Mine(c) = {} /\ (call.op = "create" => i = TRUE)
      /\ (call.op = "update" => IsTenants(c, call.id))
    BY <1>1, <1>3, <1>5 DEF SenderInv, CallerInv, Aims, Writing
<1>8. /\ Mine(c)' = {} /\ Call(c)' = call /\ request'[c].pc = "clear" /\ request'[c].targets = T
      /\ request'[c].isDefault = i
    BY <1>1, <1>3, <1>6, <1>7 DEF Mine, Moves
<1>9. Aims(c)'
    <2>1. \A n \in PhoneNumbers : Visible(c, n) = senders[n] BY <1>7 DEF Visible, Mine
    <2>2. \A n \in T : IsTenants(c, n)' BY <1>2, <1>3, <1>8, <2>1 DEF IsTenants, Defaults
    <2>3. call.op = "update" => IsTenants(c, Call(c).id)' BY <1>1, <1>3, <1>7, <1>8 DEF IsTenants
    <2> QED BY <1>7, <1>8, <2>2, <2>3 DEF Aims
<1>10. Relies(c)' BY <1>7, <1>8 DEF Relies
<1>11. RacesGrow => (~WabaRaced(Call(c).waba)' => Owner(c)')
    <2>1. Owner(c) => Owner(c)' BY <1>1, <1>3, <1>8 DEF Owner, Writing
    <2> QED BY <1>1, <1>7, <1>8, <2>1 DEF CallerInv, RacesGrow
<1>12. RacesGrow => CallerInv(c)' BY <1>8, <1>9, <1>10, <1>11 DEF CallerInv
<1> QED BY <1>3, <1>6, <1>12, MovesOn DEF Open

-----------------------------------------------------------------------------
(* The rows a transaction sees, and what is its own among them.            *)
LEMMA SeenRow ==
  ASSUME SenderInv, NEW c \in Callers, NEW n \in PhoneNumbers, IsTenants(c, n), NEW v, v = Visible(c, n)
  PROVE  /\ v \in SenderRows /\ v.tenant = Call(c).tenant
         /\ v.waba \in {senders[n].waba, Call(c).waba}
         /\ senders[n].active /\ ~TakesOut(Call(c)) => v.active
<1>1. senders[n] \in SenderRows /\ senders[n].tenant = Call(c).tenant BY DEF IsTenants, SenderInv, SenderTypes
<1>2. CASE locker[n] = c
    <2>1. draft[n] \in SenderRows BY <1>2, SenderAssumption DEF SenderInv, SenderTypes
    <2>2. OwnRow(c, n) BY <1>2 DEF SenderInv, CallerInv, Mine
    <2>3. senders[n] # Nil BY DEF IsTenants
    <2> QED BY <1>2, <2>1, <2>2, <2>3 DEF OwnRow, Visible
<1>3. CASE locker[n] # c BY <1>1, <1>3 DEF Visible
<1> QED BY <1>2, <1>3

(* What a write of a row of its tenant leaves of the writer's own part.    *)
LEMMA OwnAfterWrite ==
  ASSUME SenderInv, NEW c \in Callers, Writing(c), NEW n \in PhoneNumbers, NEW r \in SenderRows,
         WriteRow(c, n, r), NEW pc \in {"clear", "review", "promote", "commit"}, NEW T, NEW i,
         Moves(c, pc, T, i), UNCHANGED senders,
         r.tenant = Call(c).tenant,
         senders[n] = Nil => Call(c).op = "create" /\ r.waba = Call(c).waba,
         senders[n] # Nil => /\ senders[n].tenant = Call(c).tenant
                             /\ r.waba \in {senders[n].waba, Call(c).waba}
                             /\ senders[n].active /\ ~TakesOut(Call(c)) => r.active
  PROVE  /\ Mine(c)' = Mine(c) \cup {n} /\ draft'[n] = r
         /\ \A m \in Mine(c)' : OwnRow(c, m)'
         /\ RacesGrow => (~WabaRaced(Call(c).waba)' => Owner(c)')
         /\ Call(c).op = "update" => IsTenants(c, Call(c).id)'
<1>1. /\ draft'[n] = r /\ locker'[n] = c
      /\ \A m \in PhoneNumbers \ {n} : draft'[m] = draft[m] /\ locker'[m] = locker[m]
    BY DEF WriteRow, SenderInv, SenderTypes
<1>2. Mine(c)' = Mine(c) \cup {n} BY <1>1 DEF Mine
<1>3. Writing(c)' /\ Call(c)' = Call(c) BY DEF Moves, Writing
<1>4. PICK call : call = Call(c) OBVIOUS
<1>5. ASSUME NEW m \in Mine(c)' PROVE OwnRow(c, m)'
    <2>1. CASE m = n BY <1>1, <1>3, <2>1 DEF OwnRow
    <2>2. CASE m # n
        <3>1. m \in Mine(c) /\ m \in PhoneNumbers BY <1>2, <2>2 DEF Mine
        <3>2. OwnRow(c, m) /\ draft'[m] = draft[m] BY <1>1, <2>2, <3>1 DEF SenderInv, CallerInv
        <3> QED BY <1>3, <3>2 DEF OwnRow
    <2> QED BY <2>1, <2>2
<1>6. Owner(c) => Owner(c)' BY <1>3 DEF Owner
<1>7. RacesGrow => (~WabaRaced(Call(c).waba)' => Owner(c)')
    <2>1. WabaRaced(Call(c).waba)' = WabaRaced(call.waba)' BY <1>3, <1>4
    <2> QED BY <1>4, <1>6, <2>1 DEF SenderInv, CallerInv, RacesGrow
<1>8. Call(c).op = "update" => IsTenants(c, Call(c).id)'
    BY <1>3 DEF SenderInv, CallerInv, Aims, IsTenants
<1> QED BY <1>1, <1>2, <1>5, <1>7, <1>8

LEMMA ClearStep ==
  ASSUME SenderInv, NEW c \in Callers, ClearDefault(c) PROVE SenderInv'
<1>1. PICK n \in request[c].targets :
        /\ Free(c, n)
        /\ request' = [request EXCEPT ![c].targets = @ \ {n}]
        /\ IF Visible(c, n).isDefault
           THEN WriteRow(c, n, [Visible(c, n) EXCEPT !.isDefault = FALSE])
           ELSE UNCHANGED <<draft, locker>>
    BY DEF ClearDefault
<1>2. request[c].pc = "clear" /\ UNCHANGED <<senders, raced>> BY DEF ClearDefault
<1>3. request[c].targets \in SUBSET PhoneNumbers BY <1>2, StartedRequest
<1>4. PICK T \in SUBSET PhoneNumbers : T = request[c].targets \ {n} BY <1>3
<1>5. PICK i \in BOOLEAN \cup {Nil} : i = request[c].isDefault BY <1>2, StartedRequest
<1>6. request' = [request EXCEPT ![c].targets = T] BY <1>1, <1>4
<1>7. Moves(c, "clear", T, i) BY <1>2, <1>5, <1>6, RequestMoves DEF PhoneSteps
<1>8. /\ request'[c].pc = "clear" /\ request'[c].targets = T /\ request'[c].isDefault = i
      /\ Call(c)' = Call(c)
    BY <1>7 DEF Moves
<1>9. Writing(c) /\ Open(c) BY <1>2 DEF Writing, Open
<1>10. Aims(c)'
    <2>1. \A m \in T : IsTenants(c, m)' BY <1>2, <1>4, <1>8 DEF SenderInv, CallerInv, Aims, IsTenants
    <2>2. Call(c).op = "update" => IsTenants(c, Call(c).id)'
        BY <1>2, <1>8, <1>9 DEF SenderInv, CallerInv, Aims, IsTenants
    <2>3. Call(c).op = "create" => i \in BOOLEAN BY <1>2, <1>5 DEF SenderInv, CallerInv, Aims
    <2> QED BY <1>8, <2>1, <2>2, <2>3, Zenon DEF Aims
<1>11. ~Excused => Relies(c)'
    <2>1. ~Excused => ~(Call(c).op = "create" /\ i = FALSE)
        BY <1>1, <1>2, <1>5 DEF SenderInv, CallerInv, Relies
    <2> QED BY <1>8, <2>1 DEF Relies
<1>12. n \in PhoneNumbers /\ IsTenants(c, n) BY <1>1, <1>2, <1>3 DEF SenderInv, CallerInv, Aims
<1>13. CASE Visible(c, n).isDefault
    <2>1. PICK v : v = Visible(c, n) OBVIOUS
    <2>2. /\ v \in SenderRows /\ v.tenant = Call(c).tenant /\ v.waba \in {senders[n].waba, Call(c).waba}
          /\ senders[n].active /\ ~TakesOut(Call(c)) => v.active
        BY <1>12, <2>1, SeenRow
    <2>3. PICK r : r = [v EXCEPT !.isDefault = FALSE] OBVIOUS
    <2>4. /\ r \in SenderRows /\ r.isDefault = FALSE /\ r.tenant = v.tenant /\ r.active = v.active
          /\ r.waba = v.waba
        BY <2>2, <2>3 DEF SenderRows
    <2>5. WriteRow(c, n, r) BY <1>1, <1>13, <2>1, <2>3
    <2>6. NoRivals(c, n, r) BY <2>4 DEF NoRivals, Clash, ActiveDefault
    <2>7. senders[n] # Nil /\ senders[n].tenant = Call(c).tenant BY <1>12 DEF IsTenants
    <2>8. /\ \A m \in Mine(c)' : OwnRow(c, m)'
          /\ RacesGrow => (~WabaRaced(Call(c).waba)' => Owner(c)')
        BY <1>2, <1>7, <1>9, <1>12, <2>2, <2>4, <2>5, <2>7, OwnAfterWrite
    <2>9. RacesGrow => CallerInv(c)' BY <1>10, <1>11, <2>8 DEF CallerInv, RacesGrow
    <2> QED BY <1>1, <1>2, <1>7, <1>9, <1>12, <2>4, <2>5, <2>6, <2>9, WriteHolds
<1>14. CASE ~Visible(c, n).isDefault
    <2>1. UNCHANGED <<draft, locker>> BY <1>1, <1>14
    <2>2. Mine(c)' = Mine(c) /\ Writing(c)' BY <1>8, <2>1 DEF Mine, Writing
    <2>3. \A m \in Mine(c) : OwnRow(c, m)'
        BY <1>2, <1>8, <2>1, <2>2 DEF SenderInv, CallerInv, OwnRow
    <2>4. Owner(c) => Owner(c)' BY <1>2, <1>8, <1>9 DEF Owner
    <2>5. RacesGrow => (~WabaRaced(Call(c).waba)' => Owner(c)')
        <3>1. PICK call : call = Call(c) OBVIOUS
        <3>2. WabaRaced(Call(c).waba)' = WabaRaced(call.waba)' BY <1>8, <3>1
        <3> QED BY <2>4, <3>1, <3>2 DEF SenderInv, CallerInv, RacesGrow
    <2>6. RacesGrow => CallerInv(c)' BY <1>10, <1>11, <2>2, <2>3, <2>5 DEF CallerInv, RacesGrow
    <2> QED BY <1>2, <1>7, <1>9, <2>1, <2>6, MovesOn
<1> QED BY <1>13, <1>14

LEMMA InsertStep ==
  ASSUME SenderInv, NEW c \in Callers, InsertSender(c) PROVE SenderInv'
<1>1. PICK call : call = Call(c) OBVIOUS
<1>2. PICK i : i = request[c].isDefault OBVIOUS
<1>3. PICK r : r = [tenant |-> call.tenant, active |-> TRUE, waba |-> call.waba, isDefault |-> i] OBVIOUS
<1>4. /\ request[c].pc = "clear" /\ request[c].targets = {} /\ call.op = "create" /\ Free(c, call.id)
      /\ UNCHANGED <<senders, raced>>
      /\ IF senders[call.id] # Nil THEN Fail(c) ELSE Put(c, call.id, r, "commit")
    BY <1>1, <1>2, <1>3 DEF InsertSender, Call
<1>5. Open(c) /\ Writing(c) BY <1>4 DEF Open, Writing
<1>6. CASE Fail(c) BY <1>4, <1>5, <1>6, FailHolds
<1>7. CASE ~Fail(c)
    <2>1. /\ senders[call.id] = Nil /\ WriteRow(c, call.id, r) /\ MoveTo(c, "commit")
          /\ ~IndexWaits(c, call.id, r) /\ ~IndexRefuses(c, call.id, r)
        BY <1>4, <1>7 DEF Put
    <2>2. i \in BOOLEAN BY <1>1, <1>2, <1>4 DEF SenderInv, CallerInv, Aims
    <2>3. call.id \in PhoneNumbers /\ call.tenant \in Tenants /\ call.waba \in Wabas \cup {Nil}
        BY <1>1, <1>4, CallFields
    <2>4. /\ r \in SenderRows /\ r.tenant = call.tenant /\ r.waba = call.waba /\ r.active = TRUE
          /\ r.isDefault = i
        BY <1>3, <2>2, <2>3 DEF SenderRows
    <2>5. r # Nil BY <2>4, SenderAssumption
    <2>6. PICK T \in SUBSET PhoneNumbers : T = request[c].targets BY <1>4, StartedRequest
    <2>7. Moves(c, "commit", T, i) BY <1>2, <1>4, <2>1, <2>2, <2>6, RequestMoves DEF MoveTo, PhoneSteps
    <2>8. request'[c].pc = "commit" /\ Call(c)' = call BY <1>1, <2>7 DEF Moves
    <2>9. NoRivals(c, call.id, r) BY <2>1, IndexPasses
    <2>10. /\ Mine(c)' = Mine(c) \cup {call.id} /\ draft'[call.id] = r
           /\ \A m \in Mine(c)' : OwnRow(c, m)'
           /\ RacesGrow => (~WabaRaced(Call(c).waba)' => Owner(c)')
        BY <1>1, <1>4, <1>5, <2>1, <2>3, <2>4, <2>7, OwnAfterWrite
    <2>11. Aims(c)' BY <1>4, <2>8 DEF Aims
    <2>12. ~Excused => Relies(c)'
        <3> SUFFICES ASSUME ~Excused PROVE Settles(c)' BY <2>8 DEF Relies
        <3>1. CASE i
            <4>1. Brings(c)' BY <2>4, <2>5, <2>10, <3>1 DEF Brings, ActiveDefault
            <4> QED BY <4>1 DEF Settles
        <3>2. CASE ~i
            <4>1. i = FALSE BY <2>2, <3>2
            <4>2. Mine(c) = {} /\ HasActive(call.tenant)
                BY <1>1, <1>2, <1>4, <4>1 DEF SenderInv, CallerInv, Relies
            <4>3. HasActive(Call(c).tenant)' BY <1>4, <2>8, <4>2 DEF HasActive
            <4>4. LeavesOne(c)' BY <1>4, <2>1, <2>10, <4>2, <4>3 DEF LeavesOne, ActiveDefault
            <4>5. ~TakesOut(Call(c))' BY <1>4, <2>8 DEF TakesOut
            <4> QED BY <4>4, <4>5 DEF Settles
        <3> QED BY <3>1, <3>2
    <2>13. RacesGrow => CallerInv(c)' BY <2>10, <2>11, <2>12 DEF CallerInv, RacesGrow
    <2> QED BY <1>4, <1>5, <2>1, <2>3, <2>4, <2>7, <2>9, <2>13, WriteHolds
<1> QED BY <1>6, <1>7

LEMMA UpdateStep ==
  ASSUME SenderInv, NEW c \in Callers, UpdateSender(c) PROVE SenderInv'
<1>1. PICK call : call = Call(c) OBVIOUS
<1>2. PICK n : n = call.id OBVIOUS
<1>3. PICK v : v = Visible(c, n) OBVIOUS
<1>4. PICK a : a = IF call.active # Nil THEN call.active ELSE v.active OBVIOUS
<1>5. PICK w : w = IF call.waba # Nil THEN call.waba ELSE v.waba OBVIOUS
<1>6. PICK b : b = IF call.isDefault # Nil THEN call.isDefault
                   ELSE IF call.active = FALSE THEN FALSE ELSE v.isDefault
    OBVIOUS
<1>7. PICK r : r = [v EXCEPT !.active = a, !.waba = w, !.isDefault = b] OBVIOUS
<1>8. /\ request[c].pc = "clear" /\ request[c].targets = {} /\ call.op = "update"
      /\ Put(c, n, r, "review") /\ UNCHANGED <<senders, raced>>
    BY <1>1, <1>2, <1>3, <1>4, <1>5, <1>6, <1>7 DEF UpdateSender, Call
<1>9. Open(c) /\ Writing(c) BY <1>8 DEF Open, Writing
<1>10. CASE Fail(c) BY <1>8, <1>9, <1>10, FailHolds
<1>11. CASE ~Fail(c)
    <2>1. /\ WriteRow(c, n, r) /\ MoveTo(c, "review") /\ Free(c, n)
          /\ ~IndexWaits(c, n, r) /\ ~IndexRefuses(c, n, r)
        BY <1>8, <1>11 DEF Put
    <2>2. /\ n \in PhoneNumbers /\ call.active \in BOOLEAN \cup {Nil}
          /\ call.isDefault \in BOOLEAN \cup {Nil} /\ call.waba \in Wabas \cup {Nil}
        BY <1>1, <1>2, <1>8, CallFields
    <2>3. IsTenants(c, n) BY <1>1, <1>2, <1>8, <1>9 DEF SenderInv, CallerInv, Aims
    <2>4. /\ v \in SenderRows /\ v.tenant = call.tenant /\ v.waba \in {senders[n].waba, call.waba}
          /\ senders[n].active /\ ~TakesOut(call) => v.active
        BY <1>1, <1>3, <2>2, <2>3, SeenRow
    <2>5. v.active \in BOOLEAN /\ v.isDefault \in BOOLEAN /\ v.waba \in Wabas \cup {Nil} /\ v.tenant \in Tenants
        BY <2>4 DEF SenderRows
    <2>6. a \in BOOLEAN /\ b \in BOOLEAN /\ w \in Wabas \cup {Nil} /\ w \in {senders[n].waba, call.waba}
        BY <1>4, <1>5, <1>6, <2>2, <2>4, <2>5
    <2>7. r = [tenant |-> v.tenant, active |-> a, isDefault |-> b, waba |-> w]
        <3>1. v = [tenant |-> v.tenant, active |-> v.active, isDefault |-> v.isDefault, waba |-> v.waba]
            BY <2>4 DEF SenderRows
        <3>2. PICK v1 : v1 = [v EXCEPT !.active = a] OBVIOUS
        <3>3. v1 = [tenant |-> v.tenant, active |-> a, isDefault |-> v.isDefault, waba |-> v.waba]
            BY ONLY <3>1, <3>2
        <3>4. PICK v2 : v2 = [v1 EXCEPT !.waba = w] OBVIOUS
        <3>5. v2 = [tenant |-> v.tenant, active |-> a, isDefault |-> v.isDefault, waba |-> w]
            BY ONLY <3>3, <3>4
        <3>6. r = [v2 EXCEPT !.isDefault = b] BY ONLY <1>7, <3>2, <3>4
        <3> QED BY ONLY <3>5, <3>6
    <2>8. r \in SenderRows /\ r.tenant = call.tenant /\ r.waba = w /\ r.active = a
        BY <2>4, <2>5, <2>6, <2>7 DEF SenderRows
    <2>9. senders[n].active /\ ~TakesOut(call) => r.active
        BY <1>4, <1>8, <2>2, <2>4, <2>8 DEF TakesOut
    <2>10. senders[n] # Nil /\ senders[n].tenant = call.tenant BY <1>1, <2>3 DEF IsTenants
    <2>11. PICK T \in SUBSET PhoneNumbers : T = request[c].targets BY <1>8, StartedRequest
    <2>12. PICK i \in BOOLEAN \cup {Nil} : i = request[c].isDefault BY <1>8, StartedRequest
    <2>13. Moves(c, "review", T, i) BY <1>8, <2>1, <2>11, <2>12, RequestMoves DEF MoveTo, PhoneSteps
    <2>14. request'[c].pc = "review" /\ Call(c)' = call BY <1>1, <2>13 DEF Moves
    <2>15. NoRivals(c, n, r) BY <2>1, IndexPasses
    <2>16. /\ \A m \in Mine(c)' : OwnRow(c, m)'
           /\ RacesGrow => (~WabaRaced(Call(c).waba)' => Owner(c)')
           /\ IsTenants(c, Call(c).id)'
        BY <1>1, <1>8, <1>9, <2>1, <2>2, <2>6, <2>8, <2>9, <2>10, <2>13, OwnAfterWrite
    <2>17. Aims(c)' BY <1>8, <2>14, <2>16 DEF Aims
    <2>18. Relies(c)' BY <2>14 DEF Relies
    <2>19. RacesGrow => CallerInv(c)' BY <2>16, <2>17, <2>18 DEF CallerInv
    <2> QED BY <1>8, <1>9, <2>1, <2>2, <2>8, <2>13, <2>15, <2>19, WriteHolds
<1> QED BY <1>10, <1>11

(* Nothing to promote: the transaction sees an active default, or nothing  *)
(* that is active.                                                         *)
LEMMA NothingToPromote ==
  ASSUME SenderInv, NEW c \in Callers,
         \/ \E n \in Actives(c, Call(c).tenant) : Visible(c, n).isDefault
         \/ Oldest(c) = {}
  PROVE  SeesOne(c)
<1> DEFINE A == Actives(c, Call(c).tenant)
<1>1. CASE \E n \in A : Visible(c, n).isDefault BY <1>1 DEF SeesOne
<1>2. CASE Oldest(c) = {}
    <2>1. {n \in A : \A m \in A : n <= m} = {} BY <1>2 DEF Oldest, Call
    <2>2. A \in SUBSET Nat BY SenderAssumption DEF Actives
    <2>3. A = {} BY <2>1, <2>2, NatMin
    <2> QED BY <2>3 DEF SeesOne
<1> QED BY <1>1, <1>2

(* An update that deactivates nothing and sees an active default brings it *)
(* itself or leaves the one of the table.                                  *)
LEMMA SeenIsSettled ==
  ASSUME SenderInv, NEW c \in Callers, SeesOne(c), Writing(c), Call(c).op = "update" PROVE Settles(c)
<1>1. PICK t : t = Call(c).tenant OBVIOUS
<1>2. \A n \in Mine(c) : n \in PhoneNumbers /\ OwnRow(c, n) /\ Visible(c, n) = draft[n]
                           /\ draft[n] # Nil /\ senders[n] # Nil /\ draft[n].tenant = t
    BY <1>1, SenderAssumption DEF Mine, Visible, SenderInv, SenderTypes, CallerInv, OwnRow
<1>3. SUFFICES ASSUME ~Brings(c), ~TakesOut(Call(c)) PROVE LeavesOne(c) BY DEF Settles
<1>4. CASE Actives(c, t) = {}
    <2>1. \A n \in Mine(c) : ~draft[n].active BY <1>2, <1>4 DEF Actives
    <2>2. \A n \in Mine(c) : ~senders[n].active BY <1>2, <1>3, <2>1 DEF OwnRow
    <2> QED BY <2>1, <2>2 DEF LeavesOne, ActiveDefault
<1>5. CASE Actives(c, t) # {}
    <2>1. PICK m \in Actives(c, t) : Visible(c, m).isDefault BY <1>1, <1>5 DEF SeesOne
    <2>2. m \in PhoneNumbers /\ ActiveDefault(Visible(c, m)) /\ Visible(c, m).tenant = t
        BY <2>1 DEF Actives, ActiveDefault
    <2>3. m \notin Mine(c) BY <1>2, <1>3, <2>2 DEF Brings
    <2>4. ActiveDefault(senders[m]) /\ senders[m].tenant = t BY <2>2, <2>3 DEF Visible, Mine
    <2>5. HasActive(t) BY <2>2, <2>4 DEF HasActive, ActiveDefault
    <2>6. \A n \in Mine(c) : ~ActiveDefault(senders[n])
        <3> SUFFICES ASSUME NEW n \in Mine(c), ActiveDefault(senders[n]) PROVE FALSE OBVIOUS
        <3>1. senders[n].tenant = t BY <1>1, <1>2 DEF OwnRow
        <3>2. Clash(senders[n], senders[m]) BY <2>4, <3>1 DEF Clash
        <3>3. n = m BY <1>2, <2>2, <3>2 DEF SenderInv, TableInv, OneDefault
        <3> QED BY <2>3, <3>3
    <2> QED BY <1>1, <2>5, <2>6 DEF LeavesOne
<1> QED BY <1>4, <1>5

(* The two queries after the update, one for an active default and one for *)
(* the oldest active sender.                                               *)
LEMMA ReviewStep ==
  ASSUME SenderInv, NEW c \in Callers, ReviewDefault(c) \/ FindFallback(c) PROVE SenderInv'
<1>1. PICK call : call = Call(c) OBVIOUS
<1>2. request[c].pc \in {"review", "fallback"} BY DEF ReviewDefault, FindFallback
<1>3. PICK T \in SUBSET PhoneNumbers, pc \in {"commit", "fallback", "promote"} :
        /\ \/ request' = [request EXCEPT ![c].pc = pc] /\ T = request[c].targets
           \/ request' = [request EXCEPT ![c].targets = T, ![c].pc = pc]
        /\ pc = "commit" => SeesOne(c)
        /\ pc = "promote" => T \subseteq Actives(c, call.tenant)
    <2>1. CASE ReviewDefault(c)
        <3>1. PICK T : T = request[c].targets /\ T \in SUBSET PhoneNumbers BY <1>2, StartedRequest
        <3>2. PICK pc \in {"commit", "fallback"} :
                pc = IF \E n \in Actives(c, Call(c).tenant) : Visible(c, n).isDefault
                       THEN "commit" ELSE "fallback"
            OBVIOUS
        <3>3. request' = [request EXCEPT ![c].pc = pc] BY <2>1, <3>2 DEF ReviewDefault, MoveTo, Call
        <3> QED BY <3>1, <3>2, <3>3, NothingToPromote
    <2>2. CASE FindFallback(c)
        <3>1. PICK T : T = Oldest(c) OBVIOUS
        <3>2. PICK pc \in {"commit", "promote"} : pc = IF T = {} THEN "commit" ELSE "promote" OBVIOUS
        <3>3. request' = [request EXCEPT ![c].targets = T, ![c].pc = pc]
            BY <2>2, <3>1, <3>2 DEF FindFallback
        <3>4. T \subseteq Actives(c, call.tenant) /\ T \in SUBSET PhoneNumbers
            BY <1>1, <3>1 DEF Oldest, Call, Actives
        <3> QED BY <3>1, <3>2, <3>3, <3>4, NothingToPromote
    <2> QED BY <2>1, <2>2
<1>4. UNCHANGED <<senders, draft, locker, raced>> BY DEF ReviewDefault, FindFallback
<1>5. Open(c) /\ Writing(c) /\ call.op = "update"
    BY <1>1, <1>2 DEF Open, Writing, SenderInv, CallerInv, Aims
<1>6. pc = "promote" => \A n \in T : n \in PhoneNumbers /\ n \in Actives(c, call.tenant)
    BY <1>3
<1>7. PICK i \in BOOLEAN \cup {Nil} : i = request[c].isDefault BY <1>2, StartedRequest
<1>8. Moves(c, pc, T, i)
    <2>1. pc \in PhoneSteps /\ request[c].pc # "idle" BY <1>2 DEF PhoneSteps
    <2>2. CASE request' = [request EXCEPT ![c].pc = pc] /\ T = request[c].targets
        BY <1>7, <2>1, <2>2, RequestMoves
    <2>3. CASE request' = [request EXCEPT ![c].targets = T, ![c].pc = pc]
        BY <1>7, <2>1, <2>3, RequestMoves
    <2> QED BY <1>3, <2>2, <2>3
<1>9. request'[c].pc = pc /\ request'[c].targets = T /\ Call(c)' = call BY <1>1, <1>8 DEF Moves
<1>10. Mine(c)' = Mine(c) /\ Writing(c)' BY <1>3, <1>4, <1>9 DEF Mine, Writing
<1>11. \A m \in Mine(c) : OwnRow(c, m) BY DEF SenderInv, CallerInv
<1>12. \A m \in Mine(c) : OwnRow(c, m)' BY <1>1, <1>4, <1>9, <1>10, <1>11 DEF OwnRow
<1>13. Aims(c)'
    <2>1. ASSUME NEW n \in T, pc = "promote" PROVE IsTenants(c, n)'
        <3>1. n \in PhoneNumbers /\ Visible(c, n) # Nil /\ Visible(c, n).tenant = call.tenant
            BY <1>6, <2>1 DEF Actives
        <3>2. senders[n] # Nil /\ senders[n].tenant = call.tenant
            BY <1>1, <1>5, <1>11, <3>1 DEF Visible, Mine, OwnRow
        <3> QED BY <1>4, <1>9, <3>2 DEF IsTenants
    <2>2. IsTenants(c, Call(c).id)'
        BY <1>1, <1>4, <1>5, <1>9 DEF SenderInv, CallerInv, Aims, IsTenants
    <2> QED BY <1>3, <1>5, <1>9, <2>1, <2>2 DEF Aims
<1>14. RacesGrow => (~WabaRaced(Call(c).waba)' => Owner(c)')
    <2>1. Owner(c) => Owner(c)' BY <1>1, <1>4, <1>5, <1>9 DEF Owner
    <2> QED BY <1>1, <1>9, <2>1 DEF SenderInv, CallerInv, RacesGrow
<1>15. Relies(c)'
    <2>1. CASE pc = "commit"
        <3>1. Settles(c) BY <1>1, <1>3, <1>5, <2>1, SeenIsSettled
        <3>2. Settles(c)' BY <1>1, <1>4, <1>9, <1>10, <3>1
            DEF Settles, Brings, SeesOne, LeavesOne, Actives, Visible, HasActive, Mine
        <3> QED BY <1>9, <2>1, <3>2 DEF Relies
    <2>2. CASE pc = "promote"
        <3>1. \A n \in T : Visible(c, n)'.active BY <1>4, <1>6, <2>2 DEF Actives, Visible
        <3> QED BY <1>9, <2>2, <3>1 DEF Relies
    <2>3. CASE pc = "fallback" BY <1>9, <2>3 DEF Relies
    <2> QED BY <2>1, <2>2, <2>3
<1>16. RacesGrow => CallerInv(c)' BY <1>10, <1>12, <1>13, <1>14, <1>15 DEF CallerInv
<1> QED BY <1>3, <1>4, <1>5, <1>8, <1>16, MovesOn

LEMMA PromoteStep ==
  ASSUME SenderInv, NEW c \in Callers, PromoteFallback(c) PROVE SenderInv'
<1>1. PICK n \in request[c].targets : Put(c, n, [Visible(c, n) EXCEPT !.isDefault = TRUE], "commit")
    BY DEF PromoteFallback
<1>2. request[c].pc = "promote" /\ UNCHANGED <<senders, raced>> BY DEF PromoteFallback
<1>3. Open(c) /\ Writing(c) /\ Call(c).op = "update"
    BY <1>2 DEF Open, Writing, SenderInv, CallerInv, Aims
<1>4. PICK v : v = Visible(c, n) OBVIOUS
<1>5. PICK r : r = [v EXCEPT !.isDefault = TRUE] OBVIOUS
<1>6. CASE Fail(c) BY <1>2, <1>3, <1>6, FailHolds
<1>7. CASE ~Fail(c)
    <2>1. /\ WriteRow(c, n, r) /\ MoveTo(c, "commit") /\ Free(c, n)
          /\ ~IndexWaits(c, n, r) /\ ~IndexRefuses(c, n, r)
        BY <1>1, <1>4, <1>5, <1>7 DEF Put
    <2>2. request[c].targets \in SUBSET PhoneNumbers BY <1>2, StartedRequest
    <2>3. n \in PhoneNumbers /\ IsTenants(c, n) BY <1>1, <1>2, <2>2 DEF SenderInv, CallerInv, Aims
    <2>4. /\ v \in SenderRows /\ v.tenant = Call(c).tenant /\ v.waba \in {senders[n].waba, Call(c).waba}
          /\ senders[n].active /\ ~TakesOut(Call(c)) => v.active
        BY <1>4, <2>3, SeenRow
    <2>5. /\ r \in SenderRows /\ r.isDefault = TRUE /\ r.tenant = v.tenant /\ r.active = v.active
          /\ r.waba = v.waba
        BY <1>5, <2>4 DEF SenderRows
    <2>6. senders[n] # Nil /\ senders[n].tenant = Call(c).tenant /\ r # Nil
        BY <2>3, <2>5, SenderAssumption DEF IsTenants
    <2>7. PICK T \in SUBSET PhoneNumbers : T = request[c].targets BY <2>2
    <2>8. PICK i \in BOOLEAN \cup {Nil} : i = request[c].isDefault BY <1>2, StartedRequest
    <2>9. Moves(c, "commit", T, i) BY <1>2, <2>1, <2>7, <2>8, RequestMoves DEF MoveTo, PhoneSteps
    <2>10. request'[c].pc = "commit" /\ Call(c)' = Call(c) BY <2>9 DEF Moves
    <2>11. NoRivals(c, n, r) BY <2>1, IndexPasses
    <2>12. /\ Mine(c)' = Mine(c) \cup {n} /\ draft'[n] = r
           /\ \A m \in Mine(c)' : OwnRow(c, m)'
           /\ RacesGrow => (~WabaRaced(Call(c).waba)' => Owner(c)')
           /\ IsTenants(c, Call(c).id)'
        BY <1>2, <1>3, <2>1, <2>3, <2>4, <2>5, <2>6, <2>9, OwnAfterWrite
    <2>13. Aims(c)' BY <2>10, <2>12 DEF Aims
    <2>14. ~Excused => Relies(c)'
        <3> SUFFICES ASSUME ~Excused PROVE Settles(c)' BY <2>10 DEF Relies
        <3>1. r.active BY <1>1, <1>2, <1>4, <2>5 DEF SenderInv, CallerInv, Relies
        <3>2. Brings(c)' BY <2>5, <2>6, <2>12, <3>1 DEF Brings, ActiveDefault
        <3> QED BY <3>2 DEF Settles
    <2>15. RacesGrow => CallerInv(c)' BY <2>12, <2>13, <2>14 DEF CallerInv, RacesGrow
    <2> QED BY <1>2, <1>3, <2>1, <2>3, <2>5, <2>9, <2>11, <2>15, WriteHolds
<1> QED BY <1>6, <1>7

-----------------------------------------------------------------------------
(* A commit publishes the transaction's rows.  Everybody else's rows stay; *)
(* a row keeps its tenant, and stays active unless the request took it out. *)
LEMMA CommitStep ==
  ASSUME SenderInv, NEW c \in Callers, CommitSender(c) PROVE SenderInv'
<1>1. PICK call : call = Call(c) OBVIOUS
<1>2. PICK t : t = call.tenant OBVIOUS
<1>3. request[c].pc = "commit" /\ MoveTo(c, "done") /\ UNCHANGED raced BY DEF CommitSender
<1>4. /\ senders' = [n \in PhoneNumbers |-> Visible(c, n)]
      /\ locker' = [n \in PhoneNumbers |-> IF locker[n] = c THEN Nil ELSE locker[n]]
      /\ draft' = [n \in PhoneNumbers |-> IF locker[n] = c THEN Nil ELSE draft[n]]
    BY DEF CommitSender
<1>5. \A n \in PhoneNumbers :
        /\ locker[n] = c => senders'[n] = draft[n] /\ locker'[n] = Nil /\ draft'[n] = Nil
        /\ locker[n] # c => senders'[n] = senders[n] /\ locker'[n] = locker[n] /\ draft'[n] = draft[n]
    BY <1>4 DEF Visible
<1>6. Open(c) /\ Writing(c) /\ c # Nil BY <1>3, SenderAssumption DEF Open, Writing
<1>7. PICK T \in SUBSET PhoneNumbers : T = request[c].targets BY <1>3, StartedRequest
<1>8. PICK i \in BOOLEAN \cup {Nil} : i = request[c].isDefault BY <1>3, StartedRequest
<1>9. Moves(c, "done", T, i) BY <1>3, <1>7, <1>8, RequestMoves DEF MoveTo, PhoneSteps
<1>10. /\ request'[c].pc = "done" /\ Call(c)' = call /\ OthersStay(c) /\ IsRequest(request'[c])
    BY <1>1, <1>9 DEF Moves
<1>11. RacesKnown' /\ RacesGrow BY <1>1, <1>3, <1>6, <1>10, RacesStay
<1>12. \A n \in PhoneNumbers : locker[n] = c =>
         /\ draft[n] \in SenderRows /\ draft[n] # Nil /\ draft[n].tenant = t
         /\ senders[n] = Nil => draft[n].waba = call.waba
         /\ senders[n] # Nil => /\ senders[n].tenant = t /\ draft[n].waba \in {senders[n].waba, call.waba}
                                /\ senders[n].active /\ ~TakesOut(call) => draft[n].active
    BY <1>1, <1>2, SenderAssumption DEF SenderInv, SenderTypes, CallerInv, Mine, OwnRow
<1>13. \A n \in PhoneNumbers : senders[n] # Nil =>
         /\ senders'[n] # Nil /\ senders'[n].tenant = senders[n].tenant
         /\ senders[n].active /\ ~TakesOut(call) => senders'[n].active
    BY <1>5, <1>12
<1>14. SenderTypes'
    <2>1. /\ senders' \in [PhoneNumbers -> SenderRows \cup {Nil}]
          /\ draft' \in [PhoneNumbers -> SenderRows \cup {Nil}]
          /\ locker' \in [PhoneNumbers -> Callers \cup {Nil}]
        BY <1>4 DEF SenderInv, SenderTypes, Visible
    <2>2. \A n \in PhoneNumbers : locker'[n] = Nil <=> draft'[n] = Nil
        BY <1>5 DEF SenderInv, SenderTypes
    <2>3. \A d \in Callers : IsRequest(request'[d])
        BY <1>10 DEF OthersStay, SenderInv, SenderTypes
    <2> QED BY <1>10, <2>1, <2>2, <2>3 DEF SenderTypes, OthersStay
<1>15. OneDefault'
    <2> SUFFICES ASSUME NEW n \in PhoneNumbers, NEW m \in PhoneNumbers, n # m
                 PROVE  ~Clash(senders'[n], senders'[m])
        BY DEF OneDefault
    <2>1. CASE locker[n] # c /\ locker[m] # c BY <1>5, <2>1 DEF SenderInv, TableInv, OneDefault
    <2>2. ASSUME NEW j \in PhoneNumbers, NEW k \in PhoneNumbers, j # k, locker[j] = c
          PROVE  ~Clash(senders'[j], senders'[k])
        <3>1. NoRivals(c, j, draft[j]) BY <1>6, <2>2 DEF SenderInv, TableInv, DraftsFit
        <3>2. ~Clash(Visible(c, k), draft[j]) BY <2>2, <3>1 DEF NoRivals
        <3> QED BY <1>4, <1>5, <2>2, <3>2 DEF Clash
    <2>3. CASE locker[n] = c BY <2>2, <2>3
    <2>4. CASE locker[m] = c
        <3>1. ~Clash(senders'[m], senders'[n]) BY <2>2, <2>4
        <3> QED BY <3>1 DEF Clash
    <2> QED BY <2>1, <2>3, <2>4
<1>16. DraftsFit'
    <2> SUFFICES ASSUME NEW k \in PhoneNumbers, NEW d, d = locker'[k], d # Nil,
                        NEW v, v = draft'[k], NEW m \in PhoneNumbers \ {k}
                 PROVE  ~Clash(Visible(d, m)', v) /\ (locker'[m] # d => ~Clash(draft'[m], v))
        BY FitsNext
    <2>1. locker[k] = d /\ d # c /\ v = draft[k] BY <1>5
    <2>2. NoRivals(d, k, v) BY <2>1 DEF SenderInv, TableInv, DraftsFit
    <2>3. ~Clash(Visible(d, m), v) /\ (locker[m] # d => ~Clash(draft[m], v)) /\ ~Clash(Nil, v)
        BY <2>2 DEF NoRivals, Clash, ActiveDefault
    <2>4. CASE locker[m] = c
        <3>1. locker'[m] = Nil /\ draft'[m] = Nil /\ senders'[m] = draft[m] BY <1>5, <2>4
        <3>2. Visible(d, m)' = draft[m] BY <3>1 DEF Visible
        <3> QED BY <2>1, <2>3, <2>4, <3>1, <3>2
    <2>5. CASE locker[m] # c
        <3>1. locker'[m] = locker[m] /\ draft'[m] = draft[m] /\ senders'[m] = senders[m] BY <1>5, <2>5
        <3>2. Visible(d, m)' = Visible(d, m) BY <3>1 DEF Visible
        <3> QED BY <2>3, <3>1, <3>2
    <2> QED BY <2>4, <2>5
<1>17. ~Excused => ActiveHasDefault'
    <2> SUFFICES ASSUME ~Excused, NEW n \in PhoneNumbers, senders'[n] # Nil, senders'[n].active
                 PROVE  \E m \in PhoneNumbers : ActiveDefault(senders'[m]) /\ senders'[m].tenant = senders'[n].tenant
        BY DEF ActiveHasDefault
    <2>1. \A k \in PhoneNumbers : senders[k] # Nil /\ senders[k].active
            => \E m \in PhoneNumbers : ActiveDefault(senders[m]) /\ senders[m].tenant = senders[k].tenant
        BY DEF SenderInv, TableInv, ActiveHasDefault
    <2>2. CASE senders'[n].tenant # t
        <3>1. senders'[n] = senders[n] BY <1>5, <1>12, <2>2
        <3>2. PICK m \in PhoneNumbers : ActiveDefault(senders[m]) /\ senders[m].tenant = senders[n].tenant
            BY <2>1, <3>1
        <3>3. senders[m] # Nil /\ senders[m].tenant # t BY <2>2, <3>1, <3>2 DEF ActiveDefault
        <3>4. senders'[m] = senders[m] BY <1>5, <1>12, <3>3
        <3> QED BY <3>1, <3>2, <3>4
    <2>3. CASE senders'[n].tenant = t
        <3>1. Settles(c) BY <1>3 DEF SenderInv, CallerInv, Relies
        <3>2. CASE Brings(c)
            <4>1. PICK m \in Mine(c) : ActiveDefault(draft[m]) BY <3>2 DEF Brings
            <4>2. m \in PhoneNumbers /\ locker[m] = c BY DEF Mine
            <4> QED BY <1>5, <1>12, <2>3, <4>1, <4>2
        <3>3. CASE SeesOne(c)
            <4>1. n \in Actives(c, t) BY <1>4, <2>3 DEF Actives
            <4>2. PICK m \in Actives(c, t) : Visible(c, m).isDefault
                BY <1>1, <1>2, <3>3, <4>1 DEF SeesOne
            <4> QED BY <1>4, <2>3, <4>2 DEF Actives, ActiveDefault
        <3>4. CASE LeavesOne(c)
            <4>1. HasActive(t)
                <5>1. CASE locker[n] = c
                    BY <1>1, <1>2, <1>5, <3>4, <5>1 DEF LeavesOne, Mine
                <5>2. CASE locker[n] # c BY <1>5, <2>3, <5>2 DEF HasActive
                <5> QED BY <5>1, <5>2
            <4>2. PICK m \in PhoneNumbers : ActiveDefault(senders[m]) /\ senders[m].tenant = t
                BY <2>1, <4>1 DEF HasActive
            <4>3. locker[m] # c BY <3>4, <4>2 DEF LeavesOne, Mine
            <4> QED BY <1>5, <2>3, <4>2, <4>3
        <3> QED BY <3>1, <3>2, <3>3, <3>4 DEF Settles
    <2> QED BY <2>2, <2>3
<1>18. ASSUME NEW w \in Wabas, ~WabaRaced(w) PROVE OneOwner(w)'
    <2>1. OneOwner(w) /\ w # Nil BY <1>18, SenderAssumption DEF SenderInv, TableInv
    <2>2. CASE call.waba # w
        <3>1. \A n \in PhoneNumbers : senders'[n] # Nil /\ senders'[n].waba = w
                => senders[n] # Nil /\ senders[n].waba = w /\ senders[n].tenant = senders'[n].tenant
            BY <1>5, <1>12, <2>2
        <3> QED BY <2>1, <3>1 DEF OneOwner
    <2>3. CASE call.waba = w
        <3>1. Owner(c) BY <1>1, <1>18, <2>3 DEF SenderInv, CallerInv
        <3>2. \A n \in PhoneNumbers : senders'[n] # Nil /\ senders'[n].waba = w => senders'[n].tenant = t
            BY <1>1, <1>2, <1>5, <1>6, <1>12, <2>1, <2>3, <3>1 DEF Owner
        <3> QED BY <3>2 DEF OneOwner
    <2> QED BY <2>2, <2>3
<1>19. TableInv' BY <1>11, <1>15, <1>16, <1>17, <1>18 DEF TableInv, RacesGrow
<1>20. CallerInv(c)'
    <2>1. Mine(c)' = {} BY <1>5, <1>6 DEF Mine
    <2> QED BY <1>10, <2>1 DEF CallerInv, Aims, Owner, Relies, Writing
<1>21. ASSUME NEW d \in Callers, d # c PROVE CallerInv(d)'
    <2>1. PICK own : own = Call(d) OBVIOUS
    <2>2. CallerInv(d) /\ request'[d] = request[d] /\ Call(d)' = own /\ d # Nil
        BY <1>10, <1>21, <2>1, SenderAssumption DEF OthersStay, Call, SenderInv
    <2>3. Mine(d)' = Mine(d) /\ (Writing(d)' <=> Writing(d)) BY <1>5, <1>21, <2>2 DEF Mine, Writing
    <2>4. \A n \in Mine(d) : n \in PhoneNumbers /\ senders'[n] = senders[n] /\ draft'[n] = draft[n]
        BY <1>5, <1>21 DEF Mine
    <2>5. \A n \in Mine(d)' : OwnRow(d, n)' BY <2>1, <2>2, <2>3, <2>4 DEF CallerInv, OwnRow
    <2>6. \A n \in PhoneNumbers : IsTenants(d, n) => IsTenants(d, n)'
        BY <1>13, <2>1, <2>2 DEF IsTenants
    <2>7. Aims(d)'
        <3>1. request[d].pc \in {"clear", "promote"} => request[d].targets \subseteq PhoneNumbers
            BY StartedRequest
        <3>2. Writing(d) => own.id \in PhoneNumbers BY <2>1, CallFields DEF Writing
        <3>3. request'[d].pc \in {"clear", "promote"}
                => \A n \in request'[d].targets : IsTenants(d, n)'
            BY <2>2, <2>6, <3>1 DEF CallerInv, Aims
        <3>4. Writing(d)' /\ own.op = "update" => IsTenants(d, own.id)'
            BY <2>1, <2>2, <2>3, <2>6, <3>2 DEF CallerInv, Aims
        <3>5. IsTenants(d, Call(d).id)' <=> IsTenants(d, own.id)' BY <2>2 DEF IsTenants
        <3> QED BY <2>1, <2>2, <2>3, <3>3, <3>4, <3>5 DEF CallerInv, Aims
    <2>8. ASSUME ~WabaRaced(own.waba) PROVE Owner(d)'
        <3> SUFFICES ASSUME Writing(d) \/ request[d].pc = "begin", NEW n \in PhoneNumbers,
                            senders'[n] # Nil, senders'[n].waba # Nil, senders'[n].waba = own.waba
                     PROVE  senders'[n].tenant = own.tenant
            BY <2>2, <2>3 DEF Owner
        <3>1. Owner(d) BY <2>1, <2>2, <2>8 DEF CallerInv
        <3>2. Open(d) BY DEF Open, Writing
        <3>3. call.waba # own.waba BY <1>1, <1>6, <1>21, <2>1, <2>8, <3>2, OpenHaveRaced
        <3>4. senders[n] # Nil /\ senders[n].waba = own.waba /\ senders[n].tenant = senders'[n].tenant
            BY <1>5, <1>12, <3>3
        <3> QED BY <2>1, <3>1, <3>4 DEF Owner
    <2>9. ASSUME ~Excused PROVE Relies(d)'
        <3> SUFFICES ASSUME request[d].pc \in {"clear", "promote", "commit"} PROVE Relies(d)'
            BY <2>2 DEF Relies
        <3>1. Relies(d) BY <2>2, <2>9 DEF CallerInv
        <3>2. Open(d) BY DEF Open
        <3>3. ~TakesOut(call) /\ ~TakesOut(own) BY <1>1, <1>6, <1>21, <2>1, <2>9, <3>2, OpenHaveRaced
        <3>4. HasActive(own.tenant) => HasActive(own.tenant)' BY <1>13, <3>3 DEF HasActive
        <3>5. request[d].pc = "promote" => \A n \in request[d].targets : Visible(d, n)'.active
            <4> SUFFICES ASSUME request[d].pc = "promote", NEW n \in request[d].targets
                         PROVE  Visible(d, n)'.active
                OBVIOUS
            <4>1. n \in PhoneNumbers BY StartedRequest
            <4>2. senders[n] # Nil /\ Visible(d, n).active
                BY <2>2, <3>1 DEF CallerInv, Aims, IsTenants, Relies
            <4>3. CASE locker[n] = d
                <5>1. Visible(d, n)' = Visible(d, n) BY <1>5, <1>21, <4>1, <4>3 DEF Visible
                <5> QED BY <4>2, <5>1
            <4>4. CASE locker[n] # d
                <5>1. Visible(d, n) = senders[n] /\ Visible(d, n)' = senders'[n]
                    BY <1>5, <2>2, <4>1, <4>4 DEF Visible
                <5> QED BY <1>13, <3>3, <4>1, <4>2, <5>1
            <4> QED BY <4>3, <4>4
        <3>6. request[d].pc = "commit" => Settles(d)'
            <4> SUFFICES ASSUME request[d].pc = "commit" PROVE Settles(d)' OBVIOUS
            <4>1. Brings(d) \/ LeavesOne(d) BY <2>1, <3>1, <3>3 DEF Relies, Settles
            <4>2. Brings(d) => Brings(d)' BY <2>3, <2>4 DEF Brings
            <4>3. LeavesOne(d) => LeavesOne(d)' BY <2>1, <2>2, <2>3, <2>4, <3>4 DEF LeavesOne
            <4>4. ~TakesOut(Call(d))' BY <2>2, <3>3 DEF TakesOut
            <4> QED BY <4>1, <4>2, <4>3, <4>4 DEF Settles
        <3>7. HasActive(Call(d).tenant)' <=> HasActive(own.tenant)' BY <2>2 DEF HasActive
        <3> QED BY <2>1, <2>2, <2>3, <3>1, <3>4, <3>5, <3>6, <3>7 DEF Relies
    <2>10. WabaRaced(Call(d).waba)' <=> WabaRaced(own.waba)' BY <2>2
    <2> QED BY <1>11, <2>5, <2>7, <2>8, <2>9, <2>10 DEF CallerInv, RacesGrow
<1> QED BY <1>11, <1>14, <1>19, <1>20, <1>21 DEF SenderInv

LEMMA AbortStep ==
  ASSUME SenderInv, NEW c \in Callers, AbortSender(c) PROVE SenderInv'
BY FailHolds DEF AbortSender, InTransaction

LEMMA SenderStays ==
  ASSUME SenderInv, UNCHANGED senderVars PROVE SenderInv'
<1>1. UNCHANGED <<senders, draft, locker, request, raced>> BY DEF senderVars
<1>2. SenderTypes' BY <1>1 DEF SenderInv, SenderTypes
<1>3. RacesKnown' BY <1>1 DEF SenderInv, RacesKnown, Open
<1>4. RacesGrow BY <1>1 DEF RacesGrow, Excused, WabaRaced, Call
<1>5. DraftsFit' BY <1>1 DEF SenderInv, TableInv, DraftsFit, NoRivals, Visible
<1>6. TableInv' BY <1>1, <1>4, <1>5, TableKept
<1>7. \A d \in Callers : CallerInv(d)' BY <1>1, <1>4, OtherKept
<1> QED BY <1>2, <1>3, <1>6, <1>7 DEF SenderInv

LEMMA NextSenders == SenderInv /\ [SenderNext]_senderVars => SenderInv'
<1> SUFFICES ASSUME SenderInv, [SenderNext]_senderVars PROVE SenderInv' OBVIOUS
<1>1. CASE UNCHANGED senderVars BY <1>1, SenderStays
<1>2. ASSUME NEW c \in Callers,
             \/ StartRequest(c) \/ AssertWabaOwnership(c) \/ CreateBegins(c) \/ UpdateBegins(c)
             \/ SelectDefaults(c) \/ ClearDefault(c) \/ InsertSender(c) \/ UpdateSender(c)
             \/ ReviewDefault(c) \/ FindFallback(c) \/ PromoteFallback(c) \/ CommitSender(c) \/ AbortSender(c)
      PROVE  SenderInv'
    BY <1>2, StartStep, AssertStep, CreateStep, UpdateBeginStep, SelectStep, ClearStep, InsertStep, UpdateStep,
       ReviewStep, PromoteStep, CommitStep, AbortStep
<1> QED BY <1>1, <1>2 DEF SenderNext

(***************************************************************************)
(* PhoneNumbersService under any number of concurrent create and update    *)
(* requests: no tenant ever has two active default senders; one with       *)
(* active senders keeps a default unless a request that takes a sender out *)
(* ran together with another; and a WABA keeps one tenant unless two       *)
(* requests for it ran together.                                           *)
(***************************************************************************)
THEOREM SendersAlwaysResolve == SenderSpec => []SendersResolve
<1>1. SenderSpec => []SenderInv BY InitSenders, NextSenders, PTL DEF SenderSpec
<1>2. SenderInv => SendersResolve BY SendersInvResolve
<1> QED BY <1>1, <1>2, PTL
=============================================================================
