----------------------------- MODULE TraceExporter -----------------------------
(***************************************************************************)
(* OtlpTraceExporterService: a bounded queue of spans that one flush at a  *)
(* time exports in batches, and the drain at shutdown.  Each action is     *)
(* what runs between two awaits.  Spans are numbered as they are recorded. *)
(***************************************************************************)
EXTENDS Naturals, Sequences, SequencesExt

CONSTANTS MaxQueueSize, MaxBatchSize,
          MaxSpans       \* bound: spans recorded

VARIABLES queue,         \* spans that wait
          recorded,      \* spans taken into the queue so far
          flushes,       \* running flushPending calls: batch and spans left
          flushInFlight, \* the field of that name is set
          shuttingDown,
          drained,       \* onModuleDestroy has returned
          exported,      \* history: spans the collector took, in order
          lost           \* history: spans of failed exports

traceVars == <<queue, recorded, flushes, flushInFlight, shuttingDown, drained, exported, lost>>

ASSUME TraceAssumption ==
  /\ MaxQueueSize \in Nat \ {0} /\ MaxBatchSize \in 1 .. MaxQueueSize /\ MaxSpans \in Nat

TraceInit ==
  /\ queue = <<>> /\ recorded = 0 /\ flushes = <<>> /\ flushInFlight = FALSE
  /\ shuttingDown = FALSE /\ drained = FALSE /\ exported = <<>> /\ lost = {}

Shorter(m, n) == IF m < n THEN m ELSE n

(***************************************************************************)
(* flushPending, from one await to the next: take a batch of what was      *)
(* queued when the flush began.                                            *)
(***************************************************************************)
Taken(pending, q) ==
  LET n == Shorter(Shorter(MaxBatchSize, pending), Len(q)) IN
  [batch |-> SubSeq(q, 1, n), remaining |-> pending - n, rest |-> SubSeq(q, n + 1, Len(q))]

(***************************************************************************)
(* flush(): nothing to do, one already running, or a new one that takes    *)
(* its first batch at once.                                                *)
(***************************************************************************)
FlushNow(q) ==
  IF q = <<>> THEN queue' = q /\ UNCHANGED <<flushes, flushInFlight>>
  ELSE LET t == Taken(Len(q), q) IN
       /\ queue' = t.rest
       /\ flushes' = Append(flushes, [batch |-> t.batch, remaining |-> t.remaining])
       /\ flushInFlight' = TRUE
Flush(q) ==
  IF flushInFlight THEN queue' = q /\ UNCHANGED <<flushes, flushInFlight>> ELSE FlushNow(q)

-----------------------------------------------------------------------------
(* recordSpan of a sampled, well-timed span: dropped when the queue is     *)
(* full or the exporter stops, and a full batch is flushed.                *)
TakesSpans == ~shuttingDown
RecordSpan ==
  /\ TakesSpans
  /\ recorded < MaxSpans
  /\ Len(queue) < MaxQueueSize
  /\ recorded' = recorded + 1
  /\ LET q == Append(queue, recorded') IN
       IF Len(q) >= MaxBatchSize THEN Flush(q)
       ELSE queue' = q /\ UNCHANGED <<flushes, flushInFlight>>
  /\ UNCHANGED <<shuttingDown, drained, exported, lost>>

FlushTimer ==
  /\ ~shuttingDown
  /\ Flush(queue)
  /\ UNCHANGED <<recorded, shuttingDown, drained, exported, lost>>

(* exportBatch settles, by an answer or its timeout; then the next batch   *)
(* or the end of the flush, whose finally clears the field.                *)
EndOfFlushOnSuccess(ok) == IF ok THEN FALSE ELSE TRUE
EndOfFlush(ok) == FALSE
ExportBatch(i) ==
  \E ok \in BOOLEAN :
    LET f == flushes[i]
        t == Taken(f.remaining, queue)
    IN  /\ exported' = IF ok THEN exported \o f.batch ELSE exported
        /\ lost' = IF ok THEN lost ELSE lost \cup ToSet(f.batch)
        /\ IF t.batch = <<>>
           THEN /\ flushes' = RemoveAt(flushes, i)
                /\ flushInFlight' = EndOfFlush(ok)
                /\ UNCHANGED queue
           ELSE /\ flushes' = [flushes EXCEPT ![i] = [batch |-> t.batch, remaining |-> t.remaining]]
                /\ queue' = t.rest
                /\ UNCHANGED flushInFlight
        /\ UNCHANGED <<recorded, shuttingDown, drained>>

(* onModuleDestroy: stop recording, wait for the flush that runs, and      *)
(* flush until nothing waits.                                              *)
StopExporter ==
  /\ ~shuttingDown
  /\ shuttingDown' = TRUE
  /\ UNCHANGED <<queue, recorded, flushes, flushInFlight, drained, exported, lost>>

DrainQueue ==
  /\ shuttingDown /\ ~drained
  /\ ~flushInFlight
  /\ Flush(queue)
  /\ drained' = (queue = <<>>)
  /\ UNCHANGED <<recorded, shuttingDown, exported, lost>>

TraceNext ==
  \/ RecordSpan \/ FlushTimer \/ StopExporter \/ DrainQueue
  \/ \E i \in DOMAIN flushes : ExportBatch(i)

TraceSpec == TraceInit /\ [][TraceNext]_traceVars

TraceFairness ==
  /\ WF_traceVars(DrainQueue)
  /\ WF_traceVars(\E i \in DOMAIN flushes : ExportBatch(i))

-----------------------------------------------------------------------------
Exporting == FlattenSeq([i \in DOMAIN flushes |-> flushes[i].batch])
Handled == exported \o Exporting \o queue

(***************************************************************************)
(* Every recorded span is exported, lost with a failed batch, on its way   *)
(* or waiting, in exactly one of these places, and spans leave in the      *)
(* order they came: two flushes never share the queue.                     *)
(***************************************************************************)
SpansLeaveOnceInOrder ==
  /\ \A i, j \in DOMAIN Handled : i < j => Handled[i] < Handled[j]
  /\ ToSet(Handled) \cap lost = {}
  /\ ToSet(Handled) \cup lost = 1 .. recorded

(***************************************************************************)
(* Shutdown is not held up: exports settle, so the drain ends, also when   *)
(* every export fails, and from then on no span waits and no export runs.  *)
(***************************************************************************)
ShutdownDrains == shuttingDown ~> [](drained /\ queue = <<>> /\ flushes = <<>>)
=============================================================================
