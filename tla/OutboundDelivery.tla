--------------------------- MODULE OutboundDelivery ---------------------------
(***************************************************************************)
(* The durable outbound pipeline: a message and its outbox event are       *)
(* committed together; API replicas publish the event to RabbitMQ; worker  *)
(* replicas take the jobs, lease the message, call Meta and record the     *)
(* answer; delivery receipts then move the status on.                      *)
(*                                                                         *)
(* One action is one await: between two of them any other process may run, *)
(* a process may die, a lease may run out.  Time is not counted.  A lease  *)
(* is "none", "live" or "expired", a live one may expire at any moment     *)
(* (the wait for a rate slot has no upper bound), and the delays of the    *)
(* retry queues and of the outbox backoff are arbitrary.                   *)
(***************************************************************************)
EXTENDS MessageStatus, FiniteSets

CONSTANTS
    Messages,        \* logical outbound messages
    Workers,         \* worker replicas, each with one delivery in flight
    Publishers,      \* API replicas that flush the outbox
    Classes,         \* traffic classes, one queue each
    ClassOf,         \* the persisted traffic class of every message
    Legacy,          \* messages queued by a release without traffic queues
    LegacyClass,     \* the class the consumer of the legacy queue assumes
    MaxRetries,      \* retryDelays().length
    MaxFaults,       \* bound on crashes, database errors, lost answers
    MaxDisconnects,  \* bound on broker-side closes of a worker's connection
    None             \* "null"

ASSUME PipelineAssumption ==
    /\ IsFiniteSet(Workers)
    /\ ClassOf \in [Messages -> Classes]
    /\ Legacy \subseteq Messages
    /\ LegacyClass \in Classes
    /\ MaxRetries \in Nat
    /\ MaxFaults \in Nat
    /\ MaxDisconnects \in Nat
    /\ None \notin Messages
    /\ None \notin Workers
    /\ None \notin [msg : Messages, cls : Classes, attempt : Nat]

Jobs == [msg : Messages, cls : Classes, attempt : 0 .. MaxRetries]

VARIABLES
    status,             \* Message.status, or "ABSENT"
    providerMessageId,  \* 0, or which of Meta's acceptances was recorded
    lease,              \* Message.processingLeaseUntil
    published,          \* OutboxEvent.publishedAt is set
    eventLease,         \* OutboxEvent.processingLeaseUntil
    phase,              \* where a publisher's flush stands
    batch,              \* the events it has claimed and not finished
    current,            \* the event it is publishing
    queue,              \* how many copies of a job RabbitMQ holds
    pc,                 \* where a worker's handler stands
    job,                \* its unacknowledged delivery
    held,               \* an acceptance it has not recorded yet, or 0
    channel,            \* "open", "closed" (process alive) or "down"
    accepted,           \* how often Meta took the message (provider's state)
    faults,             \* faults spent
    disconnects,        \* broker-side closes spent
    owner,              \* history: the worker whose claim is current
    excused,            \* history: lost acceptances and overrun leases
    severed             \* history: a delivery was taken back from a live handler

messageVars == <<status, providerMessageId, lease>>
outboxVars  == <<published, eventLease, phase, batch, current>>
workerVars  == <<pc, job, held, channel>>
budgetVars  == <<faults, disconnects>>
historyVars == <<owner, excused, severed>>
vars == <<messageVars, outboxVars, queue, workerVars, accepted, budgetVars, historyVars>>

Lease == {"none", "live", "expired"}
Phase == {"idle", "publish", "mark", "release"}
PC == {"idle", "claim", "lost", "won", "prepare", "slot", "send", "record",
       "markRetryable", "markFailed", "retry", "exhausted", "markExhausted",
       "defer", "dead", "ack"}

TypeOK ==
    /\ status \in [Messages -> Status \cup {"ABSENT"}]
    /\ providerMessageId \in [Messages -> Nat]
    /\ lease \in [Messages -> Lease]
    /\ published \in [Messages -> BOOLEAN]
    /\ eventLease \in [Messages -> Lease]
    /\ phase \in [Publishers -> Phase]
    /\ batch \in [Publishers -> SUBSET Messages]
    /\ current \in [Publishers -> Messages \cup {None}]
    /\ queue \in [Jobs -> Nat]
    /\ pc \in [Workers -> PC]
    /\ job \in [Workers -> Jobs \cup {None}]
    /\ held \in [Workers -> Nat]
    /\ channel \in [Workers -> {"open", "closed", "down"}]
    /\ accepted \in [Messages -> Nat]
    /\ faults \in Nat
    /\ disconnects \in Nat
    /\ owner \in [Messages -> Workers \cup {None}]
    /\ excused \in [Messages -> Nat]
    /\ severed \in [Messages -> BOOLEAN]

-----------------------------------------------------------------------------
(* A message of an earlier release is already QUEUED, its event published, *)
(* its job on the legacy queue, which every worker consumes as LegacyClass.*)
LegacyJob(m) == [msg |-> m, cls |-> LegacyClass, attempt |-> 0]
FirstJob(m)  == [msg |-> m, cls |-> ClassOf[m], attempt |-> 0]

Init ==
    /\ status = [m \in Messages |-> IF m \in Legacy THEN "QUEUED" ELSE "ABSENT"]
    /\ providerMessageId = [m \in Messages |-> 0]
    /\ lease = [m \in Messages |-> "none"]
    /\ published = [m \in Messages |-> m \in Legacy]
    /\ eventLease = [m \in Messages |-> "none"]
    /\ phase = [p \in Publishers |-> "idle"]
    /\ batch = [p \in Publishers |-> {}]
    /\ current = [p \in Publishers |-> None]
    /\ queue = [j \in Jobs |-> IF j.msg \in Legacy /\ j = LegacyJob(j.msg) THEN 1 ELSE 0]
    /\ pc = [w \in Workers |-> "idle"]
    /\ job = [w \in Workers |-> None]
    /\ held = [w \in Workers |-> 0]
    /\ channel = [w \in Workers |-> "open"]
    /\ accepted = [m \in Messages |-> 0]
    /\ faults = 0
    /\ disconnects = 0
    /\ owner = [m \in Messages |-> None]
    /\ excused = [m \in Messages |-> 0]
    /\ severed = [m \in Messages |-> FALSE]

Fault == faults < MaxFaults /\ faults' = faults + 1 /\ UNCHANGED disconnects

-----------------------------------------------------------------------------
(* MessagesService.create: the message row and its outbox event commit in  *)
(* one transaction.                                                        *)
Create(m) ==
    /\ status[m] = "ABSENT"
    /\ status' = [status EXCEPT ![m] = "QUEUED"]
    /\ UNCHANGED <<providerMessageId, lease, outboxVars, queue, workerVars,
                   accepted, budgetVars, historyVars>>

-----------------------------------------------------------------------------
(* OutboxPublisherService.                                                 *)

ClaimableEvent(m) ==
    /\ status[m] # "ABSENT"
    /\ ~published[m]
    /\ eventLease[m] # "live"

(* claimEvents: some of the due events, none that another replica leases.  *)
ClaimEvents(p) ==
    /\ phase[p] = "idle"
    /\ \E S \in SUBSET {m \in Messages : ClaimableEvent(m)} :
         /\ S # {}
         /\ eventLease' = [m \in Messages |-> IF m \in S THEN "live" ELSE eventLease[m]]
         /\ batch' = [batch EXCEPT ![p] = S]
         /\ phase' = [phase EXCEPT ![p] = "publish"]
    /\ UNCHANGED <<messageVars, published, current, queue, workerVars,
                   accepted, budgetVars, historyVars>>

(* The next event of the batch is published, and the broker confirms.      *)
Publish(p, m) ==
    /\ phase[p] = "publish" /\ m \in batch[p]
    /\ queue' = [queue EXCEPT ![FirstJob(m)] = @ + 1]
    /\ phase' = [phase EXCEPT ![p] = "mark"]
    /\ current' = [current EXCEPT ![p] = m]
    /\ UNCHANGED <<messageVars, published, eventLease, batch, workerVars,
                   accepted, budgetVars, historyVars>>

(* The broker is unreachable: nothing is queued and the event is retried.  *)
PublishFails(p, m) ==
    /\ phase[p] = "publish" /\ m \in batch[p]
    /\ phase' = [phase EXCEPT ![p] = "release"]
    /\ current' = [current EXCEPT ![p] = m]
    /\ UNCHANGED <<messageVars, published, eventLease, batch, queue, workerVars,
                   accepted, budgetVars, historyVars>>

(* The broker took the job and waitForConfirms failed all the same.        *)
PublishUnconfirmed(p, m) ==
    /\ phase[p] = "publish" /\ m \in batch[p]
    /\ Fault
    /\ queue' = [queue EXCEPT ![FirstJob(m)] = @ + 1]
    /\ phase' = [phase EXCEPT ![p] = "release"]
    /\ current' = [current EXCEPT ![p] = m]
    /\ UNCHANGED <<messageVars, published, eventLease, batch, workerVars,
                   accepted, historyVars>>

(* The loop of flush goes on with the rest of the batch.                   *)
NextEvent(p) ==
    /\ batch' = [batch EXCEPT ![p] = @ \ {current[p]}]
    /\ current' = [current EXCEPT ![p] = None]
    /\ phase' = [phase EXCEPT ![p] = IF batch[p] = {current[p]} THEN "idle" ELSE "publish"]

MarkPublished(p) ==
    /\ phase[p] = "mark"
    /\ published' = [published EXCEPT ![current[p]] = TRUE]
    /\ eventLease' = [eventLease EXCEPT ![current[p]] = "none"]
    /\ NextEvent(p)
    /\ UNCHANGED <<messageVars, queue, workerVars, accepted, budgetVars, historyVars>>

MarkPublishedFails(p) ==
    /\ phase[p] = "mark"
    /\ Fault
    /\ phase' = [phase EXCEPT ![p] = "release"]
    /\ UNCHANGED <<messageVars, published, eventLease, batch, current, queue,
                   workerVars, accepted, historyVars>>

(* The catch block: nextAttemptAt moves on and the lease is dropped, by id *)
(* alone, whoever holds it now.                                            *)
ReleaseEvent(p) ==
    /\ phase[p] = "release"
    /\ eventLease' = [eventLease EXCEPT ![current[p]] = "none"]
    /\ NextEvent(p)
    /\ UNCHANGED <<messageVars, published, queue, workerVars, accepted,
                   budgetVars, historyVars>>

(* The process dies, or an error escapes publish and ends the flush: the   *)
(* events it had claimed stay leased.                                      *)
FlushAborts(p) ==
    /\ phase[p] # "idle"
    /\ Fault
    /\ phase' = [phase EXCEPT ![p] = "idle"]
    /\ batch' = [batch EXCEPT ![p] = {}]
    /\ current' = [current EXCEPT ![p] = None]
    /\ UNCHANGED <<messageVars, published, eventLease, queue, workerVars,
                   accepted, historyVars>>

EventLeaseExpires(m) ==
    /\ eventLease[m] = "live"
    /\ eventLease' = [eventLease EXCEPT ![m] = "expired"]
    /\ UNCHANGED <<messageVars, published, phase, batch, current, queue,
                   workerVars, accepted, budgetVars, historyVars>>

-----------------------------------------------------------------------------
(* The queue consumer and MessageDispatcherService.dispatch.               *)

Msg(w) == job[w].msg
Goto(w, label) == pc' = [pc EXCEPT ![w] = label]

(* Prefetched from an open channel; the handler starts at its claim.       *)
Deliver(w, j) ==
    /\ pc[w] = "idle" /\ channel[w] = "open"
    /\ queue[j] > 0
    /\ queue' = [queue EXCEPT ![j] = @ - 1]
    /\ job' = [job EXCEPT ![w] = j]
    /\ Goto(w, "claim")
    /\ UNCHANGED <<messageVars, outboxVars, held, channel, accepted, budgetVars, historyVars>>

(* Mutants of Claimable: a PROCESSING row is claimed whatever its lease,   *)
(* or is never claimed again.                                              *)
ClaimableDespiteLease(m) ==
    /\ providerMessageId[m] = 0
    /\ status[m] \in {"CREATED", "QUEUED", "PROCESSING"}
ClaimableOnce(m) ==
    /\ providerMessageId[m] = 0
    /\ status[m] \in {"CREATED", "QUEUED"}

(* The WHERE of claimMessage.                                              *)
Claimable(m) ==
    /\ providerMessageId[m] = 0
    /\ \/ status[m] \in {"CREATED", "QUEUED"}
       \/ status[m] = "PROCESSING" /\ lease[m] # "live"

ClaimMessage(w) ==
    /\ pc[w] = "claim"
    /\ IF Claimable(Msg(w))
       THEN /\ status' = [status EXCEPT ![Msg(w)] = "PROCESSING"]
            /\ lease' = [lease EXCEPT ![Msg(w)] = "live"]
            /\ owner' = [owner EXCEPT ![Msg(w)] = w]
            /\ Goto(w, "won")
       ELSE Goto(w, "lost") /\ UNCHANGED <<status, lease, owner>>
    /\ UNCHANGED <<providerMessageId, outboxVars, queue, job, held, channel,
                   accepted, budgetVars, excused, severed>>

(* Mutant of ReloadLost: a job that lost its claim is never deferred.      *)
LostIsAcknowledged(w) ==
    /\ pc[w] = "lost"
    /\ Goto(w, "ack")
    /\ UNCHANGED <<messageVars, outboxVars, queue, job, held, channel,
                   accepted, budgetVars, historyVars>>

(* The claim changed no row; the row is read again to find out why.        *)
ReloadLost(w) ==
    /\ pc[w] = "lost"
    /\ Goto(w, IF /\ providerMessageId[Msg(w)] = 0
                  /\ status[Msg(w)] = "PROCESSING"
               THEN "defer" ELSE "ack")
    /\ UNCHANGED <<messageVars, outboxVars, queue, job, held, channel,
                   accepted, budgetVars, historyVars>>

(* Mutant of ReloadWon: the class of the job is not compared.              *)
ClassNotCompared(w) ==
    /\ pc[w] = "won"
    /\ Goto(w, "prepare")
    /\ UNCHANGED <<messageVars, outboxVars, queue, job, held, channel,
                   accepted, budgetVars, historyVars>>

(* A job of the wrong class is failed before Meta is called.               *)
ReloadWon(w) ==
    /\ pc[w] = "won"
    /\ Goto(w, IF ClassOf[Msg(w)] # job[w].cls THEN "markFailed" ELSE "prepare")
    /\ UNCHANGED <<messageVars, outboxVars, queue, job, held, channel,
                   accepted, budgetVars, historyVars>>

(* The PROCESSING status event is written and the sender resolved.         *)
ResolveSender(w) ==
    /\ pc[w] = "prepare"
    /\ \E next \in {"slot", "markFailed"} : Goto(w, next)
    /\ UNCHANGED <<messageVars, outboxVars, queue, job, held, channel,
                   accepted, budgetVars, historyVars>>

(* waitForOutboundSlot returns, or throws when Redis is unavailable.       *)
WaitForOutboundSlot(w) ==
    /\ pc[w] = "slot"
    /\ \E next \in {"send", "markRetryable"} : Goto(w, next)
    /\ UNCHANGED <<messageVars, outboxVars, queue, job, held, channel,
                   accepted, budgetVars, historyVars>>

(* Meta takes the message and answers with an id.                          *)
SendAccepted(w) ==
    /\ pc[w] = "send"
    /\ accepted' = [accepted EXCEPT ![Msg(w)] = @ + 1]
    /\ held' = [held EXCEPT ![w] = accepted[Msg(w)] + 1]
    /\ Goto(w, "record")
    /\ UNCHANGED <<messageVars, outboxVars, queue, job, channel, budgetVars, historyVars>>

(* Mutant of SendAcceptedWithoutId: the missing id is not noticed.         *)
MissingIdRecorded(w) ==
    /\ pc[w] = "send"
    /\ Fault
    /\ accepted' = [accepted EXCEPT ![Msg(w)] = @ + 1]
    /\ held' = [held EXCEPT ![w] = None]
    /\ Goto(w, "record")
    /\ UNCHANGED <<messageVars, outboxVars, queue, job, channel, historyVars>>

(* Meta takes the message and answers without a usable id: not retryable.  *)
SendAcceptedWithoutId(w) ==
    /\ pc[w] = "send"
    /\ Fault
    /\ accepted' = [accepted EXCEPT ![Msg(w)] = @ + 1]
    /\ held' = [held EXCEPT ![w] = accepted[Msg(w)] + 1]
    /\ Goto(w, "markFailed")
    /\ UNCHANGED <<messageVars, outboxVars, queue, job, channel, historyVars>>

(* Meta takes the message and the answer never arrives: retryable.         *)
SendAnswerLost(w) ==
    /\ pc[w] = "send"
    /\ Fault
    /\ accepted' = [accepted EXCEPT ![Msg(w)] = @ + 1]
    /\ excused' = [excused EXCEPT ![Msg(w)] = @ + 1]
    /\ Goto(w, "markRetryable")
    /\ UNCHANGED <<messageVars, outboxVars, queue, job, held, channel, owner, severed>>

(* Meta does not take it: 4xx is final, 408, 429, 5xx and no connection    *)
(* are retryable (isRetryable).                                            *)
SendRefused(w) ==
    /\ pc[w] = "send"
    /\ \E next \in {"markRetryable", "markFailed"} : Goto(w, next)
    /\ UNCHANGED <<messageVars, outboxVars, queue, job, held, channel,
                   accepted, budgetVars, historyVars>>

(* Every write that ends an attempt is by id alone: it does not ask whether*)
(* the lease is still this worker's.                                       *)
EndAttempt(m, s) ==
    /\ status' = [status EXCEPT ![m] = s]
    /\ lease' = [lease EXCEPT ![m] = "none"]
    /\ owner' = [owner EXCEPT ![m] = None]

RecordSubmitted(w) ==
    /\ pc[w] = "record"
    /\ EndAttempt(Msg(w), "SUBMITTED")
    /\ providerMessageId' = [providerMessageId EXCEPT ![Msg(w)] = held[w]]
    /\ held' = [held EXCEPT ![w] = 0]
    /\ Goto(w, "ack")
    /\ UNCHANGED <<outboxVars, queue, job, channel, accepted, budgetVars, excused, severed>>

(* The update throws; the catch block treats it like a mapping error.      *)
RecordFails(w) ==
    /\ pc[w] = "record"
    /\ Fault
    /\ Goto(w, "markFailed")
    /\ UNCHANGED <<messageVars, outboxVars, queue, job, held, channel, accepted, historyVars>>

MarkRetryableFailure(w) ==
    /\ pc[w] = "markRetryable"
    /\ EndAttempt(Msg(w), "QUEUED")
    /\ Goto(w, "retry")
    /\ UNCHANGED <<providerMessageId, outboxVars, queue, job, held, channel,
                   accepted, budgetVars, excused, severed>>

MarkFailed(w) ==
    /\ pc[w] \in {"markFailed", "markExhausted"}
    /\ EndAttempt(Msg(w), "FAILED")
    /\ held' = [held EXCEPT ![w] = 0]
    /\ Goto(w, "dead")
    /\ UNCHANGED <<providerMessageId, outboxVars, queue, job, channel,
                   accepted, budgetVars, excused, severed>>

(* markRetryExhausted reads the row; its write is a later await.           *)
MarkRetryExhausted(w) ==
    /\ pc[w] = "exhausted"
    /\ Goto(w, IF \/ status[Msg(w)] \in TERMINAL_OR_SUBMITTED_STATUSES
                  \/ status[Msg(w)] = "PROCESSING" /\ lease[Msg(w)] = "live"
               THEN "dead" ELSE "markExhausted")
    /\ UNCHANGED <<messageVars, outboxVars, queue, job, held, channel,
                   accepted, budgetVars, historyVars>>

-----------------------------------------------------------------------------
(* processDelivery after the handler returned.  Every call on a channel    *)
(* that the broker closed throws: see ChannelClosedCrash.                  *)

(* Mutant of ScheduleRetry: x-retry-count is not incremented.              *)
RetryNotCounted(w) ==
    /\ pc[w] = "retry"
    /\ job[w].attempt < MaxRetries
    /\ channel[w] = "open"
    /\ queue' = [queue EXCEPT ![job[w]] = @ + 1]
    /\ Goto(w, "ack")
    /\ UNCHANGED <<messageVars, outboxVars, job, held, channel, accepted, budgetVars, historyVars>>

ScheduleRetry(w) ==
    /\ pc[w] = "retry"
    /\ job[w].attempt < MaxRetries
    /\ channel[w] = "open"
    /\ queue' = [queue EXCEPT ![[job[w] EXCEPT !.attempt = @ + 1]] = @ + 1]
    /\ Goto(w, "ack")
    /\ UNCHANGED <<messageVars, outboxVars, job, held, channel, accepted, budgetVars, historyVars>>

RetriesExhausted(w) ==
    /\ pc[w] = "retry"
    /\ job[w].attempt >= MaxRetries
    /\ Goto(w, "exhausted")
    /\ UNCHANGED <<messageVars, outboxVars, queue, job, held, channel,
                   accepted, budgetVars, historyVars>>

(* The same attempt again, from the shortest retry queue.                  *)
ScheduleDeferredRetry(w) ==
    /\ pc[w] = "defer"
    /\ channel[w] = "open"
    /\ queue' = [queue EXCEPT ![job[w]] = @ + 1]
    /\ Goto(w, "ack")
    /\ UNCHANGED <<messageVars, outboxVars, job, held, channel, accepted, budgetVars, historyVars>>

(* The dead-letter queue is only read by operators.                        *)
PublishDeadLetter(w) ==
    /\ pc[w] = "dead"
    /\ channel[w] = "open"
    /\ Goto(w, "ack")
    /\ UNCHANGED <<messageVars, outboxVars, queue, job, held, channel,
                   accepted, budgetVars, historyVars>>

Ack(w) ==
    /\ pc[w] = "ack"
    /\ channel[w] = "open"
    /\ Goto(w, "idle")
    /\ job' = [job EXCEPT ![w] = None]
    /\ UNCHANGED <<messageVars, outboxVars, queue, held, channel, accepted, budgetVars, historyVars>>

-----------------------------------------------------------------------------
(* What interrupts a handler.                                              *)

(* The handler of w is gone: its claim has no owner, and an acceptance it  *)
(* had not recorded is lost.                                               *)
DropHandler(w) ==
    /\ Goto(w, "idle")
    /\ job' = [job EXCEPT ![w] = None]
    /\ held' = [held EXCEPT ![w] = 0]
    /\ owner' = [m \in Messages |-> IF owner[m] = w THEN None ELSE owner[m]]
    /\ excused' = [m \in Messages |->
                     IF held[w] # 0 /\ m = Msg(w) THEN excused[m] + 1 ELSE excused[m]]
    /\ UNCHANGED <<messageVars, outboxVars, accepted, severed>>

(* A database or broker call throws (at "ack": the copy was queued and its *)
(* confirm failed): the delivery is negatively acknowledged and goes back  *)
(* to its queue.  Errors at "slot", "send" and "record" are caught.        *)
HandlerThrows(w) ==
    /\ pc[w] \in PC \ {"idle", "slot", "send", "record"}
    /\ channel[w] = "open"
    /\ Fault
    /\ queue' = [queue EXCEPT ![job[w]] = @ + 1]
    /\ DropHandler(w)
    /\ UNCHANGED channel

(* The worker process dies; RabbitMQ requeues what it had not acknowledged.*)
Crash(w) ==
    /\ channel[w] # "down"
    /\ Fault
    /\ queue' = IF pc[w] # "idle" /\ channel[w] = "open"
                THEN [queue EXCEPT ![job[w]] = @ + 1] ELSE queue
    /\ channel' = [channel EXCEPT ![w] = "down"]
    /\ DropHandler(w)

(* The orchestrator starts the process again: it connects and consumes.    *)
Restart(w) ==
    /\ channel[w] = "down"
    /\ channel' = [channel EXCEPT ![w] = "open"]
    /\ UNCHANGED <<messageVars, outboxVars, queue, pc, job, held, accepted,
                   budgetVars, historyVars>>

(* The broker closes the connection (a restart, an operator): the delivery *)
(* goes back to its queue while the handler runs on.  The "close" listener *)
(* only forgets the channels; nothing subscribes again.                    *)
ConnectionClosed(w) ==
    /\ channel[w] = "open"
    /\ disconnects < MaxDisconnects
    /\ disconnects' = disconnects + 1
    /\ channel' = [channel EXCEPT ![w] = "closed"]
    /\ IF pc[w] = "idle"
       THEN UNCHANGED <<queue, severed>>
       ELSE /\ queue' = [queue EXCEPT ![job[w]] = @ + 1]
            /\ severed' = [severed EXCEPT ![Msg(w)] = TRUE]
    /\ UNCHANGED <<messageVars, outboxVars, pc, job, held, accepted, faults,
                   owner, excused>>

(* The first use of the closed channel throws, so does the nack in the     *)
(* catch block, and the rejection nobody handles ends the process.         *)
ChannelClosedCrash(w) ==
    /\ channel[w] = "closed"
    /\ \/ pc[w] \in {"defer", "dead", "ack"}
       \/ pc[w] = "retry" /\ job[w].attempt < MaxRetries
    /\ channel' = [channel EXCEPT ![w] = "down"]
    /\ DropHandler(w)
    /\ UNCHANGED <<queue, budgetVars>>

(* Time passes.  If the claiming worker is still at it, its lease is overrun. *)
LeaseExpires(m) ==
    /\ lease[m] = "live"
    /\ lease' = [lease EXCEPT ![m] = "expired"]
    /\ owner' = [owner EXCEPT ![m] = None]
    /\ excused' = [excused EXCEPT ![m] = IF owner[m] = None THEN @ ELSE @ + 1]
    /\ UNCHANGED <<status, providerMessageId, outboxVars, queue, workerVars,
                   accepted, budgetVars, severed>>

(* WebhookStatusService.applyStatus: a receipt finds the row by its        *)
(* provider id, in any order and any number of times; a receipt for an id  *)
(* no row carries changes nothing.                                         *)
ApplyStatus(m, target) ==
    /\ providerMessageId[m] # 0
    /\ ShouldApplyStatus(status[m], target)
    /\ status' = [status EXCEPT ![m] = target]
    /\ UNCHANGED <<providerMessageId, lease, outboxVars, queue, workerVars,
                   accepted, budgetVars, historyVars>>

-----------------------------------------------------------------------------
PublisherStep(p) ==
    \/ ClaimEvents(p)
    \/ \E m \in Messages : Publish(p, m) \/ PublishFails(p, m) \/ PublishUnconfirmed(p, m)
    \/ MarkPublished(p) \/ MarkPublishedFails(p)
    \/ ReleaseEvent(p) \/ FlushAborts(p)

HandlerStep(w) ==
    \/ ClaimMessage(w) \/ ReloadLost(w) \/ ReloadWon(w)
    \/ ResolveSender(w) \/ WaitForOutboundSlot(w)
    \/ SendAccepted(w) \/ SendAcceptedWithoutId(w) \/ SendAnswerLost(w) \/ SendRefused(w)
    \/ RecordSubmitted(w) \/ RecordFails(w)
    \/ MarkRetryableFailure(w) \/ MarkFailed(w) \/ MarkRetryExhausted(w)
    \/ ScheduleRetry(w) \/ RetriesExhausted(w) \/ ScheduleDeferredRetry(w)
    \/ PublishDeadLetter(w) \/ Ack(w) \/ ChannelClosedCrash(w)

Interruption(w) ==
    HandlerThrows(w) \/ Crash(w) \/ Restart(w) \/ ConnectionClosed(w)

Next ==
    \/ \E m \in Messages : Create(m) \/ EventLeaseExpires(m) \/ LeaseExpires(m)
    \/ \E m \in Messages, s \in ReceiptStatus : ApplyStatus(m, s)
    \/ \E p \in Publishers : PublisherStep(p)
    \/ \E w \in Workers, j \in Jobs : Deliver(w, j)
    \/ \E w \in Workers : HandlerStep(w) \/ Interruption(w)

Spec == Init /\ [][Next]_vars

(* A poll timer fires again, the broker is not away for ever and serves    *)
(* its queues in turn, a promise settles or times out, the orchestrator    *)
(* restarts a dead process, a lease ends: each of these happens in the     *)
(* end.  Refusals, faults and receipts need not.                           *)
Fairness ==
    /\ \A m \in Messages : WF_vars(EventLeaseExpires(m)) /\ WF_vars(LeaseExpires(m))
    /\ \A p \in Publishers :
         /\ WF_vars(ClaimEvents(p))
         /\ SF_vars(\E m \in Messages : Publish(p, m))
         /\ WF_vars(MarkPublished(p))
         /\ WF_vars(ReleaseEvent(p))
    /\ \A j \in Jobs : SF_vars(\E w \in Workers : Deliver(w, j))
    /\ \A w \in Workers : WF_vars(HandlerStep(w)) /\ WF_vars(Restart(w))

FairSpec == Spec /\ Fairness

-----------------------------------------------------------------------------
(* Accepted by the API, and neither handed to Meta nor given up.           *)
Unsettled(m) ==
    /\ status[m] \in {"CREATED", "QUEUED", "PROCESSING"}
    /\ providerMessageId[m] = 0

(* Something that will make a worker look at m again: its event is still   *)
(* to be published, or a job of it is queued or unacknowledged.            *)
Holds(w, m) == pc[w] # "idle" /\ channel[w] = "open" /\ Msg(w) = m

InCustody(m) ==
    \/ ~published[m]
    \/ \E j \in Jobs : j.msg = m /\ queue[j] > 0
    \/ \E w \in Workers : Holds(w, m)

(* No accepted message is forgotten: while it is neither recorded as       *)
(* submitted nor failed, an outbox event or a job will bring a worker back *)
(* to it, whatever crashed in between.  The one exception is a message     *)
(* whose delivery the broker took back from a handler that ran on.         *)
NoMessageStranded ==
    \A m \in Messages : Unsettled(m) /\ ~severed[m] => InCustody(m)

(* Meta takes a message a second time only where an earlier acceptance was *)
(* lost before it was recorded, or a lease ran out under a live worker:    *)
(* duplicate jobs, redeliveries and outbox republication add nothing.      *)
DuplicatesExcused ==
    \A m \in Messages : accepted[m] <= 1 + excused[m]

(* A message whose job sits in the queue of another class is never sent,   *)
(* through any number of retries, deferrals and redeliveries of that job.  *)
MismatchFailsClosed ==
    \A m \in Legacy : ClassOf[m] # LegacyClass => accepted[m] = 0

(* Every accepted message ends up submitted or failed and stays so, and    *)
(* its jobs drain: retries and deferrals do not go on for ever.            *)
Settles ==
    \A m \in Messages : status[m] # "ABSENT" ~> []~Unsettled(m)

QueueDrains ==
    <>[](\A j \in Jobs : queue[j] = 0)

-----------------------------------------------------------------------------
(* The inductive invariant behind NoMessageStranded and DuplicatesExcused. *)

(* From the claim until the write that ends the attempt.                   *)
Attempting == {"won", "prepare", "slot", "send", "record", "markRetryable", "markFailed"}

(* A handler runs exactly while it has a delivery; once its channel is     *)
(* closed the message counts as severed.                                   *)
HandlerInv ==
    \A w \in Workers :
        /\ pc[w] = "idle" => job[w] = None
        /\ pc[w] # "idle" => job[w] \in Jobs
        /\ pc[w] # "idle" /\ channel[w] # "open" => severed[Msg(w)]
        /\ held[w] # 0 => pc[w] \in {"record", "markFailed"}
        /\ pc[w] = "record" => held[w] # 0

(* A current claim belongs to a worker at work on the message.             *)
OwnerInv ==
    \A m \in Messages :
        /\ owner[m] # None =>
             /\ status[m] = "PROCESSING" /\ lease[m] = "live"
             /\ pc[owner[m]] \in Attempting /\ Msg(owner[m]) = m
        /\ status[m] = "PROCESSING" => providerMessageId[m] = 0

(* Who may still call Meta for m: workers inside an attempt that have no   *)
(* acceptance in hand, and one more worker if nobody's claim is current.   *)
Contenders(m) == {w \in Workers : pc[w] \in Attempting /\ held[w] = 0 /\ Msg(w) = m}

Unclaimed(m) ==
    /\ providerMessageId[m] = 0
    /\ \/ status[m] \in {"ABSENT", "CREATED", "QUEUED"}
       \/ status[m] = "PROCESSING" /\ owner[m] = None

Potential(m) ==
    accepted[m] + Cardinality(Contenders(m)) + (IF Unclaimed(m) THEN 1 ELSE 0)

PotentialInv == \A m \in Messages : Potential(m) <= 1 + excused[m]

(* An event that is not published yet, by nobody who already queued it.    *)
EventKeeps(m) ==
    /\ ~published[m]
    /\ \A p \in Publishers : ~(phase[p] = "mark" /\ current[p] = m)

(* The handlers that cannot drop m: those of a QUEUED message will claim   *)
(* it or write to it; those of a PROCESSING one also may defer it.         *)
QueuedKeepers ==
    {"claim", "defer", "retry", "exhausted", "markExhausted"} \cup Attempting
ProcessingKeepers == {"claim", "lost", "defer"} \cup Attempting

KeptBy(m, labels) ==
    \/ EventKeeps(m)
    \/ \E j \in Jobs : j.msg = m /\ queue[j] > 0
    \/ \E w \in Workers : channel[w] = "open" /\ pc[w] \in labels /\ Msg(w) = m

CustodyInv ==
    \A m \in Messages :
        /\ status[m] = "ABSENT" =>
             /\ ~published[m]
             /\ \A p \in Publishers : m \notin batch[p] /\ current[p] # m
        /\ providerMessageId[m] = 0 /\ ~severed[m] =>
             /\ status[m] \in {"CREATED", "QUEUED"} => KeptBy(m, QueuedKeepers)
             /\ status[m] = "PROCESSING" => KeptBy(m, ProcessingKeepers)

IInv == TypeOK /\ HandlerInv /\ OwnerInv /\ PotentialInv /\ CustodyInv

-----------------------------------------------------------------------------
(* What the repository says of the pipeline and the code does not keep.    *)

(* docs/testing.md: "an active processing lease prevents concurrent        *)
(* duplicate provider sends".                                              *)
LeaseExcludesConcurrentSends ==
    \A m \in Messages : lease[m] = "live" =>
        \A v, w \in Workers :
            /\ pc[v] = "send" /\ Msg(v) = m
            /\ pc[w] = "send" /\ Msg(w) = m
            => v = w

(* docs/testing.md: "temporary RabbitMQ unavailability does not lose       *)
(* accepted work".                                                         *)
AcceptedWorkSurvivesBroker ==
    \A m \in Messages : Unsettled(m) => InCustody(m)
==============================================================================
