# TLA+ models of the WhatsApp messaging API

Models, model-checking runs and machine-checked proofs for the backend in
`src/src` (NestJS, PostgreSQL through Prisma, RabbitMQ, Redis, Meta's Graph
API). Every definition is a translation of the TypeScript named for it in
`PROJECT.json` ("map"); documents are only quoted where they disagree with it.

## The system

An API process (several replicas) and a worker process (several replicas) share
one PostgreSQL database, one RabbitMQ broker and one Redis.

| Part | State it keeps | Operations | Talks to |
|---|---|---|---|
| Message acceptance (`messages/`) | `Message`, `OutboxEvent` rows | `create`: idempotency lookup, consent policy, sender, template, then one transaction | contacts, templates, phone numbers, inbox |
| Outbox (`outbox/`) | event lease, `publishedAt` | poll: claim, publish with confirm, mark or release | queue |
| Queue (`queue/`) | a queue per traffic class, retry queues, dead queues, the legacy queue | publish, consume, ack, nack, retry, defer, dead-letter | broker |
| Worker (`worker/`) | message status, lease, provider id | `dispatch`, `markRetryExhausted` | rate limiter, Meta client |
| Rate limiter (`worker/`) | counters per second in Redis | reserve a slot, wait | Redis |
| Receipts and webhooks (`webhooks/`) | `WebhookEvent`, message status | leased polling, receipts, inbound messages, template status | inbox, contacts, templates |
| Campaigns (`campaigns/`) | campaign, recipients, counters | create, launch, pause, resume, cancel; poll: promote, claim, process, refresh | message acceptance |
| Contacts (`contacts/`) | consent and its history, service window | create, update, recordConsent | |
| Shared inbox (`inbox/`) | conversations, agents, teams, skills, SLA | update, claim, route, release, read, escalate | messages, webhooks |
| Media (`media/`) | assets, binaries, scan results | upload, scan, retention | storage, Meta |
| Templates, senders, segments | configuration rows | synchronise, create, update, resolve | Meta |
| API keys, audit, operations, health, observability | records and reports | | |

What is hard about it:

- **Leases and time.** Messages, outbox events, recipients and webhook events
  are claimed by leases. A lease may run out under a live process, and most of
  the writes that end the work are by id and do not ask who holds the lease.
- **At-least-once delivery.** Every job can be redelivered, duplicated by a
  failed confirm, or republished by a second replica.
- **The provider boundary.** Meta may have accepted what the worker could not
  record.
- **State read before an await and used after it:** the reread after a lost
  claim, the campaign status loaded with a recipient, the three steps of
  `refreshStats`, `resume`, `markRetryExhausted`, the time of a reply, the
  consent of a contact, the owner of a WABA, a page of Meta's templates.
- **Transactions that meet on rows**: which lock they take first, and what
  PostgreSQL shows them after they waited for it.
- **Deliveries out of order**: receipts, inbound messages, consent decisions,
  template updates, answers of Redis and of clamd.
- **Loops over untrusted files**, by lengths the files declare.
- **Broker connections** that close under a running handler.

The list of hazards with their lines is in `PROJECT.json`.

What makes each part correct: an accepted message is never forgotten and is
duplicated only where the provider boundary or an overrun lease makes it
unavoidable (pipeline); a class mismatch is never sent (queue); retries are
bounded (queue); outcomes are final, counters are never ahead, COMPLETED means
done, a sent message is accounted for (campaigns); at most one message per
idempotency key, and none for a contact that refused throughout (acceptance);
an event is applied completely and each item once, in whatever order (webhooks);
the deadline of a conversation is fixed and is met or escalated (SLA); capacity,
skills and holders are respected by every assignment (inbox); no slot beyond the
limit and a reserve for OTP (rate limiter); one default sender, one owner of a
WABA, no living template marked DELETED (tenant configuration); no binary
without a row, no usable asset without its binary, no file passed unscanned (a
reply that clamd cuts short is the exception, see scan_cut) or with a structure its format does not allow (media); what a stream or a span
holds is released once (event streams, traces).

## Modules

| Module | Models |
|---|---|
| `MessageStatus` | statuses, ranks, `shouldApplyStatus` |
| `OutboundDelivery` | acceptance commit, outbox publishers, queues, worker handlers, Meta's answers, receipts, crashes, connection closes |
| `Campaign` | one campaign: lifecycle requests, processor replicas, `refreshStats`, crashes, leases |
| `IdempotentAcceptance` | what `POST /messages` promises: the abstract specification |
| `MessageAcceptance` | `MessagesService.create` await by await, consent, service window; implements the former |
| `RateLimiter` | `waitForOutboundSlot` against the counters of one second |
| `ConversationSla` | the row of a conversation: activity, unread counter, response cycle, escalation |
| `WebhookEvents` | events, processors, inbound messages, receipts; extends `ConversationSla` and `MessageStatus`, whose steps it takes |
| `InboxAssignment` | update, claim, route, release under row locks; agents, teams, skills |
| `SenderRegistry` | phone numbers: default flag and WABA under concurrent requests |
| `TemplateCatalog` | template sync against webhooks and changes at Meta |
| `MediaAsset` | upload saga, registry row, binary, reconciliation, purge |
| `MalwareScan` | one scan against clamd, event by event |
| `ImageInspection`, `AudioInspection`, `FrameInspection`, `DocumentInspection` | the structure walkers, and the grammar each is compared with |
| `MediaInspection` | one file read by the walker of its type; extends the four |
| `InboxRealtime` | the event streams of a process and their Redis subscription |
| `TraceExporter` | span queue, flushes, shutdown |
| `OutboundDeliveryProofs`, `CampaignProofs` | theorems of `OutboundDelivery`, `Campaign` |
| `AcceptanceProofs` | theorems of `MessageAcceptance` and `RateLimiter` |
| `ConversationProofs` | theorems of `ConversationSla` and `WebhookEvents` |
| `TenantProofs` | theorems of `InboxAssignment` and `TemplateCatalog` |
| `MediaProofs` | theorems of `MediaAsset` and `MalwareScan` |
| `InspectionProofs` | theorems of `MediaInspection` |
| `ServicesProofs` | theorems of `InboxRealtime`, `TraceExporter` and `SenderRegistry` |
| `MC*` | instances, inputs and symmetry for TLC |

How they meet. `MessageAcceptance` is the inside of the single step `Create` of
`OutboundDelivery` and `CreateMessage` of `Campaign`; what those rely on (one
message per key, none without an outbox event) is what it is shown to keep.
`WebhookEvents` drives `ConversationSla` and uses the status rule that
`OutboundDelivery` uses too. `RateLimiter` is the inside of
`WaitForOutboundSlot`. Parts that share no state are checked together in one run
(`MCServices`, `MCTenant`, `MCConversation`), which asks one question per initial
state: a variable holds the part that moves, the others stand still. The media parts
are set up in `MCMedia`, which `MCServices` extends and whose own specifications two of
the violated properties are checked of.

### OutboundDelivery

State: the columns `status`, `providerMessageId`, `processingLeaseUntil` of a
message; `publishedAt` and the lease of its event; each publisher's position in
`flush`; the number of copies of each job the broker holds (work, retry and
legacy queues together: a retry queue only delays); each worker's position in
its handler, its unacknowledged delivery, its channel. One action is one await.
A job is `(message, class, x-retry-count)`. A legacy job is consumed as
TRANSACTIONAL, whatever the message.

Abstractions. Payloads, traces and error texts are dropped. A lease is none,
live or expired and may expire at any moment; backoff and retry delays are
arbitrary. `waitForOutboundSlot` returns or throws at any time (see `RateLimiter`).
`providerMessageId` is a number: which of Meta's acceptances was recorded. A
worker has one delivery in hand: a prefetch of n behaves as n workers, except
that one process holds them all, so a crash of the process is n single crashes.
Malformed jobs, which nothing here publishes, are left out.

Three history variables let properties speak of causes: `owner` (the worker
whose claim is current), `excused` (acceptances lost before they were recorded
and leases overrun under their owner), `severed` (the broker took the delivery
from a running handler).

Assumptions about libraries: RabbitMQ redelivers what a closed connection had
not acknowledged, and a confirmed persistent job stays; a close requested by the
broker makes amqplib emit "close" without "error"; a later call on that
channel throws, and a rejected promise that nobody handles ends a Node process.

### Campaign

State: the campaign's status and whether its start time is due; per contact the
recipient's status, `attemptCount` and lease, and whether a message with the
recipient's idempotency key exists; the snapshot behind the counters; the
position and local variables of each processor replica and each lifecycle
request. A claim is fenced in the code by the timestamp in
`processingLeaseUntil`. A recipient is reclaimed only after that time has passed,
so timestamps of its claims differ and `attemptCount`, incremented by each,
stands for them. Counters are cardinalities of the snapshot `stats`.

Abstractions. The audience is any set of contacts. Sender and template checks
(`configurationError`) and the errors of `messages.create` come out either way.
The transactions of `launch`, `cancel` and `failCampaign` are atomic: a row a
replica takes between two statements of one is a row it took before it.
`nextAttemptAt` is an arbitrary wait.

A free `LeaseExpires` applies to claims nobody works on any more; a lease that
runs out under a working replica, a database error and a crash are faults,
bounded by `MaxFaults`.

### MessageAcceptance and IdempotentAcceptance

The abstract specification has the accepted requests and the answers: a request
is accepted at one instant, at most once for its key, and every answer but a
refusal names the message of its key. In the detailed one a call looks the key
up, checks policy, sender and template, commits, or finds the winner's row after
a failed commit. A commit may fail, or succeed and lose its acknowledgement.
Consent decisions of several instants are recorded in any order meanwhile, and
the service window, the sender and the template change. `KeepsPromise` is the
refinement (`accepted` is the set of messages). `AcceptedWasAllowed` says how far
the check before the transaction reaches: an opt-out between the two does not
stop the message, one that held throughout does. Whether a contact agreed is
computed from the decisions themselves, latest instant first, so a consent
recorded late must not override a newer refusal.

### RateLimiter

One sender and the keys of one second. A worker reads its clock and asks Redis;
the answer is about that second even if it comes up to `MaxLag` later. Shares are
whole percents. The counters expire by the `Ttl` of the script. `OtpHeadroom` is
what the comment in `reservationShares` says is preserved; `Math.max(1, ...)` takes
the last slot at small limits, so it is stated from a limit of 10 on, and from 3 on
with the default shares.

### ConversationSla and WebhookEvents

The row's timestamps are small integers and `None` is NULL, below every time as
in the code's `COALESCE`. A reply carries the time `create` took before its
transaction, a move the start of its transaction; both may be older than what
has been committed when they write. The table's check constraint is the invariant
`CycleCheckHolds`: if it could refuse a row, an inbound message would be retried
for ever. An event is a sequence of inbound messages, template updates and
receipts. A poll leases the oldest `batchSize` events it may
claim (`OldestFirst`), whether or not they failed before; its processor applies the
items one transaction at a time, and releases by id. The three services walk the payload one after the other; a walk is
the set of positions it has left, taken in the order `Before`. Leases expire at any time, processors crash and throw, providers
redeliver, and a message of an unknown number fails for ever.

What the order and the limit of a claim do to progress is stated in
`EventsAreProcessed`: an event that can be processed eventually is, unless a whole
batch of events that fail for ever was received before it (`Crowded`). The code does
not exclude that case: failing events come back after at most a minute and are the
oldest, so a healthy event behind `batchSize` of them waits whenever they are all due
at each poll. Whether they are depends on how long their failing takes against the
retry delay, which the model leaves open; the property therefore excuses the case,
and the repository's documents claim nothing about it.

### InboxAssignment

One action is one SQL statement. A statement that waits for a row is not enabled;
what PostgreSQL would find a deadlock (`Cycle`) has a victim that rolls back.
Locks: conversation, agent, team, members in the order the code takes them, the
shared locks of skills, and the key-share locks of foreign keys. Writes become
visible at the commit. Two histories: `reopened` (a conversation that became
active again while assigned, which no admission counts) and `peak` (the highest
limit of an agent).

### SenderRegistry and TemplateCatalog

Read committed, as PostgreSQL does it: a transaction reads committed rows and its
own, a write waits for the row and looks again. One action is one query: looking for
an active sender, choosing the rows of an `updateMany`, each of its writes, looking for
a default and looking for the fallback are steps of their own. The partial unique index on
active defaults is `IndexRivals`. Requests that ran at one time are remembered in
`raced`. The tables a run starts from have one active default per tenant with
active senders and one tenant per WABA (`SenderAssumption`), as the requests leave
them when nothing races. `SendersResolve` has three parts: `OneActiveDefault` holds without
exception, `DefaultIsKept` and `WabaHasOneOwner` up to the races the code leaves
open. A sync lists Meta's
templates page by page while they change, writes in one transaction and marks the
rest DELETED; updates arrive late and in any order, and one of an unknown id finds
its row by name (`Seen`). A sync that nothing overtook
repairs the table (`QuietSyncAgrees`), and none marks a template that was there
all along (`DeletedWasGone`), also not when the listing stops at the page limit.

### MediaAsset and MalwareScan

An asset is its upload, its row and its storage key, which carry one fresh id. The
saga reserves the row, stages the binary, calls Meta and finalizes; any step may
fail, lose its answer or be the last before a crash. Maintenance of several
replicas reads a batch and then acts on what it read. Time is the pair of flags
`stale` and `expired`. An upload that outlives the stale threshold is marked
`slow`: it may leave an orphan binary, which `BinariesMatchRows` excuses, but it
never becomes usable (`OutcomeIsFinal`). The scan takes socket events, writes and the
timer in any order.

clamd's reply is a sequence of tokens: `OK` stands for these two letters wherever a word
begins with them, so also inside a signature name, and `text` for other bytes. It ends
in NUL, a newline or neither, and arrives in pieces that may end within a word. The data
handler waits for a NUL or a newline and reads what comes before the NUL; the end
handler reads whatever there is. `SaysOk` and `SaysFound` are the two regular
expressions. `CleanMeansScanned` holds but for a connection that clamd ends within its
reply (`Cut`); `CutRepliesAreRefused`, which is what `docs/media-upload.md` says, is
violated there (run scan_cut).

### Media inspection

A file is a sequence of units chosen as it is read (a chunk, a segment, a page, a
frame, a box, a token, a directory entry), each with what the loop looks at;
`lead` holds facts about the file as a whole, such as its size. The loops are
steps. The references they are compared with are declarative: a file of these
units is accepted exactly when it is a sentence of the format, numbers follow on
(`VerdictIsGrammar`), and lengths tile the file (`LengthsTileTheFile`). Checksums
are right or wrong. Opus packets are encoded by a small encoder and decoded by the
code's rules. Limits of the code (pages, frames, entries) are constants, lowered so
that files reach them. What units and leads may be (`UnitTypes`, `LeadTypes`) is
what the code has parsed before it looks at them: field widths, non-negative
lengths, a granule that is a signed number.

The directory of an office package has a number of entries and a size in bytes, both
with their limits, and its records must fill it exactly.

The frame walks of ADTS, MPEG and AMR stop at their limit and then require fewer
frames, so `LengthsTileTheFile` is stated with at most `MAX_FRAMES - 1` frames, which is
what the code does; `docs/media-audio-structure-validation.md` says "at most 100,000
frames", which is `DocumentedFrameLimit`, violated in run frame_limit.

### InboxRealtime and TraceExporter

What runs between two awaits is one step. A stream takes a slot, awaits the shared
subscription, greets and sets its heartbeat; it may be closed at any of these
points. A heartbeat set after a failed greeting is never cleared:
`StreamsHoldTheirOwn` excuses exactly that. Spans are numbered as queued; a span
that finds the queue full is dropped.

## Runs

`tlc -workers 2 -config <cfg> <module>`. All finish in about three minutes.

| Run | cfg | Instance | Shows |
|---|---|---|---|
| outbound | `Outbound` | 2 messages of 2 classes, one on the legacy queue; 2 workers, 1 publisher, 1 retry, 1 fault, 1 close | types, nothing stranded, duplicates excused, a mismatch never sent |
| outbound_liveness | `OutboundLiveness` | 1 message, 2 workers, 1 retry, 1 fault, fair | every message settles for good, queues drain |
| campaign_safety | `CampaignSafety` | 2 contacts, 2 replicas, 2 requests, 1 pause, 1 fault | COMPLETED means done, outcomes are final, messages accounted for, leftovers were in flight |
| campaign_liveness | `CampaignLiveness` | 2 replicas, fair: 1 contact with 2 faults and 1 pause, 2 contacts without either | recipients settle while the campaign runs; without faults and pauses it ends |
| conversation | `Conversation` | *row*: 1 team, 1 reply, 1 move, 3 instants. *events*: 2 events with 3 messages and 2 receipts, 2 processors, batches of 1, 1 fault. *backlog*: 2 failing events and a healthy one received in any order, batches of 2. Fair | the SLA cycle is well formed, its deadline fixed, overdue ones escalated; items applied once, in any order, and completely; events processed unless a batch of failing ones is older |
| tenant | `Tenant` | *inbox*: 2 conversations, 2 agents, 2 teams, 2 requests at a time, 3 in all, 1 change. *templates*: 3 templates, 2 syncs, 2 changes, 1 update | capacity, skills, holders, deadlocks; deletions and repair |
| services | `Services` | *acceptance*: 3 calls, 2 of one key, 2 decisions. *rate*: 2 workers, 4 configurations. *senders*: 2 requests, 4 tables. *streams*: 3 for 2 slots. *traces*: queue of 3, 6 spans. *asset*: 1 asset, 2 replicas, 2 faults. *content*: files of up to a few units of each type. *scan*: 2 chunks, names with and without OK. Fair | the refinement, consent, limits, defaults and ownership, slots, spans in order, drain; binaries and rows agree and are reclaimed; walkers accept what the grammar does; clean means scanned |
| lease_overrun | `LeaseOverrun` | no fault | *violated*: two workers send under one live lease |
| broker_close | `BrokerClose` | 1 close | *violated*: an accepted message has neither event nor job |
| campaign_crash | `CampaignCrash` | 1 crash, fair | *violated*: RUNNING for ever |
| scan_cut | `ScanCut` | 2 chunks, error texts without OK | *violated*: an infected file passes on a reply cut inside a signature name |
| frame_limit | `FrameLimit` | walks that stop at 2 frames | *violated*: a well-formed file of exactly the maximum is refused |

Why these bounds. Two workers are what a race for one message needs; messages
only meet through free workers, and the proofs cover any number. One retry
reaches both a scheduled and an exhausted retry. Two recipients and two replicas
let one replica count while the other works. Two requests at a time are what a
cycle of locks between an update and a route needs; the third in all finds what
the first two left. Two decisions of two instants and one tie are all orders of
consent. Two syncs can overlap and be followed by a quiet one. Two events that
share a message give the duplicate race, and four items one failure before, between
and after writes; two failing events fill a batch of two, one does not. One asset suffices because assets meet only in the capacity
check, which `docs/media-storage-admission.md` says cannot exclude races. File limits are reached and
exceeded by one unit. Deadlock is not checked: when all work is done, everything
may stop. Symmetry is used only in runs without temporal liveness.

The five violated properties are statements of the repository's documents. The
findings in `PROJECT.json` quote them. `NoMessageStranded` and
`DuplicatesExcused` say what does hold: their exceptions (`severed`, `excused`)
are exactly these cases, as `Cut` is for `CleanMeansScanned` and the lower limit for
`LengthsTileTheFile`. `MessageIsAccounted` excuses the recipients a fault or
an overrun lease hit, because a committed message whose answer is lost may end
as FAILED.

### Fairness

Weak fairness of a handler's or a poll's next step: promises settle (HTTP calls
have a timeout, database calls return or throw) and `setInterval` fires again.
Weak fairness of lease expiry and of a schedule becoming due: time passes. Weak
fairness of a worker's restart: the orchestrator's restart policy. Strong
fairness of publishing: the broker is not unreachable at every attempt. Strong
fairness per job of its delivery: the broker serves its queues in turn. No
fairness for receipts, faults, pauses or cancellation. `CampaignEnds` is stated
of behaviours without faults and pauses because with them it is false (campaign_crash; a
pause while the last recipient is in flight, followed by a resume, has the same
effect).

In the other runs, weak fairness of the next step of what has started: a webhook
processor's poll, an upload, a maintenance round and the SLA scan (`setInterval`),
an export (it has a timeout) and the drain loop. Time brings lease ends, retry
delays and expiry. No fairness for callers, crashes, faults, redeliveries, changes
of configuration or clients that leave; nothing temporal is claimed of calls to
`create`, of scans or of streams.

## Proofs

`tlapm <module>` for the eight modules with `Proofs` in their name. The theorems
hold for any sets of messages, workers (finite), publishers, contacts, replicas,
requests, agents, teams, skills, senders, templates, assets, streams and events and
for any number of retries, faults, closes, pauses, instants, pages, pieces of a
reply and spans. They assume what the modules name: `PipelineAssumption`,
`CampaignAssumption`, `AcceptanceConstants`, `RateAssumption`, `SlaConstants`,
`WebhookConstants`, `InboxAssumption`, `CatalogAssumption`, `MediaAssumption`,
`ScanAssumption`, `StreamAssumption`, `TraceAssumption`, `SenderAssumption`, and for
the inspections `UnitTypes`, `LeadTypes` and `LimitTypes`, which TLC evaluates in the
runs. Every safety property and every action property of the passing runs is a
theorem. Each inductive invariant was checked with TLC before its proof.

**`TypeCorrect`.** Types, with `HandlerInv`: a handler has a delivery exactly
while it runs, and an unrecorded acceptance only at `record` and `markFailed`.

**`DuplicatesAreExcused`.** `DuplicatesExcused` alone is not inductive: a worker
about to call Meta would break it. `PotentialInv` counts everyone who may still
call: acceptances so far, plus workers inside an attempt without an acceptance
in hand, plus one if the message is unclaimed, is at most one plus the excuses.
A claim moves one unit from "unclaimed" to "contender", a send from contender to
acceptance, a lease that expires under its owner adds a unit on both sides.
`OwnerInv` ties the current claim to a worker at work, so that a message with a
live, owned lease is not also unclaimed.

**`MessagesAreKept`.** `NoMessageStranded` is not inductive either: a handler that
is about to acknowledge would keep the message in custody. `CustodyInv` says who
really keeps it: a QUEUED message by an event nobody has queued yet, a queued
job, or a handler that will claim or write; a PROCESSING one also by a handler
that may defer it, and by the lost claim that will.

**`MismatchNeverSent`.** `Misrouted`: all jobs of a message on the legacy queue are
of the legacy class, so every handler of one leaves at the comparison with the
message's own class, before it prepares a send; and its event, published by the
earlier release, is not published again.

**`CompletionIsSound`, `OutcomesFinal`.** `CountInv`: what was counted as final
is still so when it is written (`StillSo`), because every step moves recipients
forward only (`Forward`); launching is the one exception, and `DraftInv` says
that nobody works on a draft. That counters never run ahead of the rows
(`StatsNeverAhead`) is a conjunct of `CountInv`.

**`MessagesAccounted`.** `ClaimInv`: a claim in hand that no fault has hit is
current, its lease live, and no other replica's. So whoever creates the message
is alone with the recipient, and whoever is about to give it up has seen that
there is no message (`MessageInv`).

**`LeftoversWereInFlight`.** `EndedInv`: after the end, whatever is PENDING or
PROCESSING was PROCESSING when it came.

**`Refinement`, `AnsweredWhenDoneAlways`.** Every step of `create` is a step of
`IdempotentAcceptance` or a stutter: the commit is `Accept`, with or without its
answer, the two lookups are `Answer`, the failures are `Refuse`. The invariant
needed is that a call is unanswered exactly while it runs and that its own message
exists only once it tried to commit; without it a second commit of one call
could not be told from a stutter.

**`AcceptedWasAllowedAlways`.** `ConsentInv`: a contact that reads as opted in has an
opt-in no other decision is later than (`ConsentFollows`), whatever order decisions
came in, so what the policy check reads is an agreement that held during the call.

**`CheckNeverRefuses`, `WaitingIsUnanswered`, `DeadlineNeverMoves`.** The check on
the cycle and "a waiting cycle has no reply" are inductive together with the
types. The first needs that policies are positive and that a response is recorded
only at or after the start of its cycle; the second that starting a cycle, in
order or late, looks at the last reply. The deadline theorem is the action
property that follows from both. `RowHoldsUnderProcessors` says the same of the
composition, where inbound messages write the row.

**`EachInboundCountsOnce`, `ProcessedIsDone`, `ReceiptsAlwaysCommute`.**
`ConversationInv` joins three invariants to that of the row. `EventInv`: whatever a
processor's walk has left behind is done, and what is done stays so (`Grows`), also
when a second processor walks the same event. `CountInv`: the counter is the number
of stored messages not yet seen, and contact and conversation carry the latest
time. `ReceiptInv`: the rank of the status is the highest logged.

**`InboxInvariant`, `CapacityAlwaysHonoured`, `AdmissionsStayQualified`,
`HoldersAlwaysRespected`.** `InboxInv` says what a transaction relies on at each
statement because it holds the rows: nobody has the conversation (`NobodyHasIt`),
and each agent it may still give it to (`Prospects`) is ready, skilled and has
room. `Exclusive` (two transactions share no agent and no conversation) is what
keeps one admission from using up the room the other has counted.

**`DeadlocksNeedTeamMoves`.** In a smallest circle everybody is waited for, so
without a team move everybody in it is a route that locks members. Whoever waits for
the one whose next member is least waits for an agent below that member, because
members are locked in ascending order: a contradiction. The least element of a set
of numbers comes from `WFMin` (`NatMin`), so the circle may have any length.

**`QuietSyncsAgree`, `DeletedWasAlwaysGone`.** `CatalogInv`: rows held by an open
sync are locked and names are unique across committed and pending versions, so a
name has one row; a listing covers every id up to its cursor, or the id was gone
(`ListedOrGone`, by `PageIsPrefix`); and a sync that nothing overtook has listed
what Meta has and written what it listed (`Undisturbed`). A free row for a new
template exists by counting (`FreeSlotExists`).

**`BinariesAlwaysMatchRows`, `OutcomesAreFinal`.** `MediaInv` relates upload, row
and binary of each asset (`Fits`), and says of every replica that what it read of
an asset is still so when it acts (`JobInv`): given up stays given up, past expiry
stays past expiry, an item without a key gets none.

**`ScanFailsClosed`.** For any set of signature names and error texts, which may have
`OK` anywhere in them, a whole reply whose last word is `OK` is clamd's answer to a whole,
clean file (`EndsInOk`), because a signature is followed by `FOUND` and an error text by
more text. `ScanInv` adds that a terminator is the last
token of a reply (`TerminatorIsLast`), so once it has come there is no word to come
(`NoWordAfter`) and what is read is the whole reply. At the end of the connection a word
is missing exactly when the reply was `Cut`.

**`StreamsAlwaysHoldTheirOwn`.** `StreamInv`: closers are among the streams that
hold a slot, listeners and timers among those that were opened, so what a close
frees was held and is freed once.

**`SpansAlwaysLeaveOnceInOrder`.** `TraceInv`: at most one flush is in flight, and
the queue ends with the last span recorded, the batch in flight comes right before
it, and everything before that was exported, in order, or lost (`Accounted`).

**`SendersAlwaysResolve`.** `SenderInv`. No version of a row, committed or drafted,
clashes with another in the index (`OneDefault`, `DraftsFit`). A request relies on
what only a race named by the property can take from it (`Relies`): two requests
that are open together have raced (`OpenHaveRaced`), so while nothing is excused
nobody else takes a sender out, and active rows stay active. At its commit a
request brings an active default, or sees one after taking a sender out, or leaves
the table's default alone (`Settles`); and the WABA it asked for is still its
tenant's (`Owner`) unless another request for the same WABA was open with it.

**`LimitIsKept`, `HeadroomIsKept`.** `RateInv`: no key of the second expires while
it can still be asked for (the lag is shorter than a second, `MaxLag` in
`RateAssumption`), so the counters agree with the history, and each class keeps
within its share while slots are reserved. The arithmetic of the shares
(`SharesLeaveASlot`) is a lemma of its own.

**`InspectionIsInductive`, `VerdictsAreGrammars`, `LengthsTile`.** That a loop and a
grammar agree on the files TLC enumerates says little of a file of a thousand pages,
so this is proved for every file, every limit and every type. `InspectionInv` has
one part per type (`PngPart`, `OggPart`, ...), which says that the state the loop carries
stands for exactly what the units read so far say: `ok` is "no legal file begins
otherwise", and while it is `TRUE` each field is the fact of the file it summarises
(the number of pages, whether the stream with this serial left a packet open, the
offset as a sum of lengths, in frames, boxes and the directory of a package). The verdict at the end follows from it alone.

- *Induction over the file* is the induction of the specification: one unit per step.
  What remains is to say how each operator of a reference changes when one unit is
  appended, which is what most lemmas are (`OggExtends`, `OpusExtends`, `LacingAppend`).
- *Induction inside an operator* (a fold, a recursive function, a concatenation) comes from
  the least counterexample: `NatMin` is `WFMin` on the naturals, `UpTo` the induction up to
  a bound for a *set* of positions, which needs no operator as a parameter. `FoldExists`
  builds the function a fold of the community modules chooses, so that `Total`,
  `StreamOf`, `FlattenSeq` and the Opus loops have their recursion equations.
- *ADIF.* The header is at most 135 bits and 16 programs of at most 2460 bits, well below
  the 65536 bytes the code reads, so that limit never decides and is not in the reference.
- *Opus packets.* The encoder's lengths and padding are read back byte by byte
  (`LengthsMatch`, `PaddingSkipped`) for any number of frames and any padding: with delta
  bytes more or less, all of them are the last frame's (`VariableTiles`) or shared
  (`ConstantTiles`), and the loops refuse exactly when that frame's size is negative.

Two things the proofs changed. The reference for Opus took any negative granule on a
page that ends no packet; the code takes -1 only, and the reference now says so. The padding
loop of the model was cut off after four bytes, which no enumerated packet
reached; it now runs over the packet, as in the code.

Only model-checked. Liveness (`Settles`, `QueueDrains`, `RecipientsSettle`,
`CampaignEnds`, `OverdueIsEscalated`, `EventsAreProcessed`, `BinariesAreReclaimed`,
`ShutdownDrains`: fairness is out of the prover's reach) and the violated
properties.

## Not modelled

`PROJECT.json` lists every part with its status and, for what is only partly
modelled, what is left out.

- Request controllers, guards, API keys, scopes and audit: filters and
  append-only records without interaction between steps.
- Segments and canned responses: one row and one statement per request; the
  revision check of a canned response is in the statement's condition.
- Campaign personalization, request mapping to Meta, webhook parsing, S3
  signatures: conversions no property here is about.
- Analytics, operations reports, health, metrics, configuration checks: read-only.
- Notes, and the creation of agents, teams, skills and contacts: new rows that
  nothing refers to yet.
- Publishing of realtime events (best effort, errors are logged).
- `scripts/`: release and capacity tooling around the system, not part of it.

Worth doing next: an abstract at-least-once delivery specification that
`OutboundDelivery` implements, step by step.
