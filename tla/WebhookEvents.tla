--------------------------- MODULE WebhookEvents ---------------------------
(***************************************************************************)
(* Provider webhooks, from the row the controller stores to the rows the   *)
(* processors write.  Every API replica runs a processor: it leases the    *)
(* oldest pending events, and for each one stores the inbound messages,    *)
(* applies the template updates, applies the delivery receipts and marks   *)
(* the event processed.  An exception sends the event back with a delay; a crash or  *)
(* a slow processor leaves it to whoever claims it once its lease is over. *)
(* So an event is worked on several times, even by two processors at once. *)
(*                                                                         *)
(* An inbound message writes the conversation through RecordInbound, the   *)
(* action of module ConversationSla, inside its own transaction.           *)
(***************************************************************************)
EXTENDS ConversationSla, MessageStatus, Sequences, FiniteSets, FiniteSetsExt

CONSTANTS
  Events,         \* webhook deliveries, redeliveries included
  Payload,        \* the items of each delivery, in the order of its changes
  Inbounds,       \* provider ids of inbound messages
  SentAt,         \* the provider's timestamp of each
  Outbounds,      \* outbound messages the receipts are about
  Processors,
  BatchSizes,     \* values of WEBHOOK_PROCESSOR_BATCH_SIZE, at least 1
  ServiceWindow,  \* 24 hours, in units of the clock
  MaxFaults,      \* bound on crashes and failed statements
  Nobody          \* no event

ItemKinds == {"inbound", "template", "receipt"}

ASSUME WebhookConstants ==
  /\ SentAt \in [Inbounds -> Time]
  /\ ServiceWindow \in Nat \ {0}
  /\ MaxFaults \in Nat
  /\ BatchSizes \subseteq Nat \ {0}
  /\ Nobody \notin Events
  /\ \A e \in Events : \A i \in DOMAIN Payload[e] :
       LET item == Payload[e][i]
       IN /\ i \in Nat /\ item.kind \in ItemKinds
          /\ item.kind = "inbound" => item.id \in Inbounds
          /\ item.kind = "receipt" => item.id \in Outbounds /\ item.status \in ReceiptStatus

VARIABLES
  batchSize,   \* WEBHOOK_PROCESSOR_BATCH_SIZE of the replicas
  received,    \* WebhookEvent rows, by receivedAt
  processed,   \* WebhookEvent.processed
  leased,      \* events with a processingLeaseUntil in the future
  delayed,     \* events with a nextAttemptAt in the future
  proc,        \* per processor: batch left, event, positions left in it, step
  stored,      \* inbound Message rows, by provider id
  contact,     \* Contact.lastInboundAt and serviceWindowExpiresAt
  templates,   \* MessageTemplate.status, by name
  outbound,    \* Message.status of the outbound messages
  logged,      \* MessageStatusEvent rows of the receipts
  early,       \* history: receipts dropped because no row had the provider id
  seen,        \* history: messages stored when the conversation was last read
  faults       \* crashes and failures spent

eventVars == <<batchSize, received, processed, leased, delayed>>
dataVars == <<stored, contact, templates, outbound, logged, early, seen>>
webhookVars == <<eventVars, dataVars, proc, faults>>

Idle == [todo |-> {}, event |-> Nobody, left |-> {}, step |-> "next"]

WebhookInit ==
  /\ batchSize \in BatchSizes
  /\ received = <<>> /\ processed = {} /\ leased = {} /\ delayed = {}
  /\ proc = [p \in Processors |-> Idle]
  /\ stored = {} /\ seen = {}
  /\ contact = [lastInboundAt |-> None, serviceWindowExpiresAt |-> None]
  /\ templates = [x \in {} |-> ""]
  /\ outbound = [o \in Outbounds |-> "PROCESSING"]
  /\ logged = {} /\ early = {}
  /\ faults = 0

-----------------------------------------------------------------------------
(* The three services run one after the other: each walks the whole payload*)
(* for its own kind of item, and skips what it cannot read.                *)
OfKind(e, k) == {i \in DOMAIN Payload[e] : Payload[e][i].kind = k}
Work(e) == OfKind(e, "inbound") \cup OfKind(e, "template") \cup OfKind(e, "receipt")

Pass == [inbound |-> 1, template |-> 2, receipt |-> 3]
Before(a, i, b, j) == Pass[a] < Pass[b] \/ (a = b /\ i < j)

Item(p, i) == Payload[proc[p].event][i]

(* The walk of p has come to position i, and the item there is of kind k.  *)
AtItem(p, i, k) ==
  /\ proc[p].event # Nobody
  /\ i \in proc[p].left
  /\ Item(p, i).kind = k
  /\ \A j \in proc[p].left : ~Before(Item(p, j).kind, j, k, i)

NextItem(p, i) == proc' = [proc EXCEPT ![p].left = @ \ {i}, ![p].step = "item"]

(* Mutant: the exception is swallowed and the event taken for done.         *)
SwallowError(p) == proc' = [proc EXCEPT ![p].left = {}, ![p].step = "item"]

Raise(p) == proc' = [proc EXCEPT ![p].step = "failed"]

-----------------------------------------------------------------------------
(* WebhooksController.receive.                                             *)
Receive(e) ==
  /\ e \notin Range(received)
  /\ received' = Append(received, e)
  /\ UNCHANGED <<batchSize, processed, leased, delayed, dataVars, proc, faults, slaVars>>

(* claimEvents, while no earlier poll is running (the flag "processing"):  *)
(* the first batchSize rows by receivedAt, whether or not they have failed *)
(* before.                                                                 *)
Claimable == (Range(received) \ processed) \ (leased \cup delayed)
ReceivedBefore(e) == {received[i] : i \in {i \in DOMAIN received :
                        \E j \in DOMAIN received : i < j /\ received[j] = e}}

(* Mutant: ORDER BY "receivedAt" DESC.                                      *)
NewestFirst == {e \in Claimable : Cardinality({f \in Claimable : e \in ReceivedBefore(f)}) < batchSize}
OldestFirst == {e \in Claimable : Cardinality(Claimable \cap ReceivedBefore(e)) < batchSize}

ClaimEvents(p) ==
  /\ proc[p] = Idle
  /\ OldestFirst # {}
  /\ leased' = leased \cup OldestFirst
  /\ proc' = [proc EXCEPT ![p].todo = OldestFirst]
  /\ UNCHANGED <<batchSize, received, processed, delayed, dataVars, faults, slaVars>>

(* The loop of processPending; RETURNING gives the batch in no order.      *)
TakeEvent(p, e) ==
  /\ proc[p].event = Nobody
  /\ e \in proc[p].todo
  /\ proc' = [proc EXCEPT ![p] = [todo |-> @.todo \ {e}, event |-> e, left |-> Work(e),
                                  step |-> "item"]]
  /\ UNCHANGED <<eventVars, dataVars, faults, slaVars>>

(* InboundMessageService: an unknown or missing phone_number_id throws; a  *)
(* message that is stored already is skipped.                              *)
FindDuplicate(p, i) ==
  /\ AtItem(p, i, "inbound") /\ proc[p].step = "item"
  /\ IF ~Item(p, i).known THEN Raise(p)
     ELSE IF Item(p, i).id \in stored THEN NextItem(p, i)
     ELSE proc' = [proc EXCEPT ![p].step = "write"]
  /\ UNCHANGED <<eventVars, dataVars, faults, slaVars>>

(* Contact upsert and the guarded updateMany that follows it.              *)
TouchContact(t) ==
  contact' = IF contact.lastInboundAt < t
             THEN [lastInboundAt |-> t, serviceWindowExpiresAt |-> t + ServiceWindow]
             ELSE contact

(* Mutant: no unique provider id, the lookup alone guards the write.        *)
WriteInboundUnguarded(p, i) ==
  /\ AtItem(p, i, "inbound") /\ proc[p].step = "write"
  /\ stored' = stored \cup {Item(p, i).id}
  /\ TouchContact(SentAt[Item(p, i).id])
  /\ RecordInbound(SentAt[Item(p, i).id])
  /\ NextItem(p, i)
  /\ UNCHANGED <<eventVars, templates, outbound, logged, early, seen, faults>>

(* The rest of the transaction.  The unique provider id makes it fail when *)
(* another processor stored the message since; the failure rolls the       *)
(* contact and the conversation back and the message counts as a duplicate.*)
WriteInbound(p, i) ==
  /\ AtItem(p, i, "inbound") /\ proc[p].step = "write"
  /\ IF Item(p, i).id \in stored
     THEN UNCHANGED <<stored, contact, slaVars>>
     ELSE /\ stored' = stored \cup {Item(p, i).id}
          /\ TouchContact(SentAt[Item(p, i).id])
          /\ RecordInbound(SentAt[Item(p, i).id])
  /\ NextItem(p, i)
  /\ UNCHANGED <<eventVars, templates, outbound, logged, early, seen, faults>>

(* TemplateStatusWebhookService: the WABA must belong to one tenant.       *)
ApplyTemplateStatus(p, i) ==
  /\ AtItem(p, i, "template") /\ proc[p].step = "item"
  /\ IF ~Item(p, i).known
     THEN Raise(p) /\ UNCHANGED templates
     ELSE /\ templates' = [n \in DOMAIN templates \cup {Item(p, i).id} |->
                             IF n = Item(p, i).id THEN Item(p, i).status ELSE templates[n]]
          /\ NextItem(p, i)
  /\ UNCHANGED <<eventVars, stored, contact, outbound, logged, early, seen, faults,
                 slaVars>>

(* WebhookStatusService.applyStatus: a receipt whose provider id is in no  *)
(* row is ignored, otherwise it is logged and applied by rank.             *)
HasProviderId(o) == outbound[o] # "PROCESSING"
ApplyStatus(p, i) ==
  LET o == Item(p, i).id
      s == Item(p, i).status
  IN /\ AtItem(p, i, "receipt") /\ proc[p].step = "item"
     /\ IF HasProviderId(o)
        THEN /\ logged' = logged \cup {<<o, s>>}
             /\ outbound' = [outbound EXCEPT ![o] = IF ShouldApplyStatus(@, s)
                                                    THEN s ELSE @]
             /\ UNCHANGED early
        ELSE /\ early' = early \cup {<<o, s>>}
             /\ UNCHANGED <<logged, outbound>>
     /\ NextItem(p, i)
     /\ UNCHANGED <<eventVars, stored, contact, templates, seen, faults, slaVars>>

(* The last statement of processWebhookEvent, whoever holds the lease.     *)
MarkProcessed(p) ==
  LET e == proc[p].event
  IN /\ e # Nobody
     /\ proc[p].step = "item" /\ proc[p].left = {}
     /\ processed' = processed \cup {e}
     /\ leased' = leased \ {e}
     /\ proc' = [proc EXCEPT ![p] = [Idle EXCEPT !.todo = proc[p].todo]]
     /\ UNCHANGED <<batchSize, received, delayed, dataVars, faults, slaVars>>

(* The catch of one event: delayed, its lease given up, the loop goes on.  *)
RetryLater(p) ==
  LET e == proc[p].event
  IN /\ proc[p].step = "failed"
     /\ delayed' = delayed \cup {e}
     /\ leased' = leased \ {e}
     /\ proc' = [proc EXCEPT ![p] = [Idle EXCEPT !.todo = proc[p].todo]]
     /\ UNCHANGED <<batchSize, received, processed, dataVars, faults, slaVars>>

(* A statement fails, and its transaction with it.                         *)
StatementFails(p) ==
  /\ faults < MaxFaults
  /\ proc[p].step \in {"item", "write"}
  /\ Raise(p)
  /\ faults' = faults + 1
  /\ UNCHANGED <<eventVars, dataVars, slaVars>>

(* The catch's own statement fails and ends the poll, or the process dies: *)
(* the rest of the batch is left to its leases.                            *)
AbandonBatch(p) ==
  /\ faults < MaxFaults
  /\ proc[p] # Idle
  /\ proc' = [proc EXCEPT ![p] = Idle]
  /\ faults' = faults + 1
  /\ UNCHANGED <<eventVars, dataVars, slaVars>>

LeaseExpires(e) ==
  /\ e \in leased
  /\ leased' = leased \ {e}
  /\ UNCHANGED <<batchSize, received, processed, delayed, dataVars, proc, faults, slaVars>>

DelayEnds(e) ==
  /\ e \in delayed
  /\ delayed' = delayed \ {e}
  /\ UNCHANGED <<batchSize, received, processed, leased, dataVars, proc, faults, slaVars>>

(* The worker commits the provider id of a message it has sent; receipts   *)
(* for it may have arrived before.                                         *)
CommitSubmitted(o) ==
  /\ outbound[o] = "PROCESSING"
  /\ outbound' = [outbound EXCEPT ![o] = "SUBMITTED"]
  /\ UNCHANGED <<eventVars, stored, contact, templates, logged, early, seen, proc,
                 faults, slaVars>>

ReadConversation ==
  /\ MarkRead
  /\ seen' = stored
  /\ UNCHANGED <<eventVars, stored, contact, templates, outbound, logged, early, proc,
                 faults>>

ProcessorStep(p) ==
  \/ ClaimEvents(p)
  \/ \E e \in Events : TakeEvent(p, e)
  \/ \E i \in proc[p].left : \/ FindDuplicate(p, i) \/ WriteInbound(p, i)
                             \/ ApplyTemplateStatus(p, i) \/ ApplyStatus(p, i)
  \/ MarkProcessed(p) \/ RetryLater(p)

WebhookNext ==
  \/ \E e \in Events : Receive(e) \/ LeaseExpires(e) \/ DelayEnds(e)
  \/ \E p \in Processors : ProcessorStep(p) \/ StatementFails(p) \/ AbandonBatch(p)
  \/ \E o \in Outbounds : CommitSubmitted(o)
  \/ ReadConversation

(* The processors and the rest of the system on one row; a conversation is *)
(* read through ReadConversation, which keeps the history.                 *)
ConversationNext ==
  \/ WebhookNext
  \/ RowStep /\ UNCHANGED <<webhookVars, unread>>
ConversationSpec ==
  SlaInit /\ WebhookInit /\ [][ConversationNext]_<<webhookVars, slaVars>>

(* A live replica polls on a timer and its awaits return; clocks advance.  *)
WebhookFairness ==
  /\ \A p \in Processors : WF_<<webhookVars, slaVars>>(ProcessorStep(p))
  /\ \A e \in Events : /\ WF_<<webhookVars, slaVars>>(LeaseExpires(e))
                       /\ WF_<<webhookVars, slaVars>>(DelayEnds(e))

-----------------------------------------------------------------------------
(* Properties.                                                             *)

(* What inbound messages leave behind depends on which are stored and not  *)
(* on how often or in which order they came, however their events were     *)
(* redelivered, retried or processed twice at once: each counts once as    *)
(* unread since the conversation was last read, the service window runs    *)
(* from the latest, and conversation and contact agree on when that was.   *)
InboundCountsOnce ==
  stored # {} =>
    LET latest == Max({SentAt[m] : m \in stored})
    IN /\ unread = Cardinality(stored \ seen)
       /\ contact.lastInboundAt = latest
       /\ contact.serviceWindowExpiresAt = latest + ServiceWindow
       /\ lastInboundAt = latest

(* An event marked processed has nothing left undone, whatever failed on   *)
(* the way: its messages are stored and its receipts logged.  The one      *)
(* receipt that is lost is the one that came before the provider id of its *)
(* message was committed.                                                  *)
ProcessedIsComplete ==
  \A e \in processed : \A i \in DOMAIN Payload[e] :
    LET item == Payload[e][i]
    IN CASE item.kind = "inbound"  -> item.id \in stored
         [] item.kind = "template" -> item.id \in DOMAIN templates
         [] item.kind = "receipt"  -> <<item.id, item.status>> \in logged \cup early

(* Receipts other than FAILED commute: the status of a message is the      *)
(* highest one logged, in whatever order the events came.                  *)
ReceiptsCommute ==
  \A o \in Outbounds :
    LET got == {s \in ReceiptStatus : <<o, s>> \in logged}
    IN HasProviderId(o) /\ "FAILED" \notin got =>
         STATUS_RANK[outbound[o]] = Max({STATUS_RANK[s] : s \in got \cup {"SUBMITTED"}})

(* Every event whose senders and business accounts are registered is       *)
(* eventually processed, next to events that fail for ever, as long as     *)
(* fewer of those than fit in a batch were received before it.  With more, *)
(* claimEvents may give every poll to the old failing events: they come    *)
(* back after 60 seconds at the latest and are then first in line again.   *)
Healthy(e) == \A i \in DOMAIN Payload[e] :
                Payload[e][i].kind # "receipt" => Payload[e][i].known
Crowded(e) == Cardinality({f \in ReceivedBefore(e) : ~Healthy(f)}) >= batchSize
EventsAreProcessed ==
  \A e \in Events :
    Healthy(e) => (e \in Range(received) ~> e \in processed \/ Crowded(e))
=============================================================================
