-------------------------------- MODULE Campaign --------------------------------
(***************************************************************************)
(* One marketing campaign: its lifecycle, which API requests drive, and    *)
(* the processor replicas that turn its recipients into messages.          *)
(*                                                                         *)
(* One action is one await of a replica or of an API request.  A claim on  *)
(* a recipient is fenced by the timestamp in processingLeaseUntil; a       *)
(* recipient is claimed again only after that time, so no two claims of it *)
(* carry the same one, and attemptCount, which every claim increments,     *)
(* stands for it.                                                          *)
(***************************************************************************)
EXTENDS Integers, FiniteSets

CONSTANTS
    Contacts,      \* the tenant's contacts
    Processors,    \* API replicas running the campaign processor
    Requests,      \* lifecycle requests being served, by any replica
    MaxAttempts,   \* CAMPAIGN_RECIPIENT_MAX_ATTEMPTS
    MaxFaults,     \* bound on crashes, database errors, overrun leases
    MaxPauses,     \* bound on pause requests
    None           \* "null"

ASSUME CampaignAssumption ==
    /\ MaxAttempts \in Nat \ {0}
    /\ MaxFaults \in Nat
    /\ MaxPauses \in Nat
    /\ Requests \cap Processors = {}
    /\ None \notin [contact : Contacts, attempt : Nat]

Actors == Processors \cup Requests

CampaignStatus == {"DRAFT", "SCHEDULED", "RUNNING", "PAUSED", "COMPLETED", "CANCELLED", "FAILED"}
TerminalCampaign == {"COMPLETED", "CANCELLED", "FAILED"}

(* "NONE": the contact is not in the launch snapshot.                      *)
Terminal == {"QUEUED", "SKIPPED", "FAILED", "CANCELLED"}
RecipientStatus == {"NONE", "PENDING", "PROCESSING"} \cup Terminal

Claims == [contact : Contacts, attempt : Nat]

VARIABLES
    status,     \* Campaign.status
    due,        \* scheduledAt is absent or in the past
    recipient,  \* CampaignRecipient.status
    attempts,   \* CampaignRecipient.attemptCount
    lease,      \* CampaignRecipient.processingLeaseUntil
    message,    \* a Message with the recipient's idempotency key exists
    stats,      \* the recipient statuses behind the campaign's counters
    pc,         \* where an actor stands
    batch,      \* claims it has yet to process
    claim,      \* the claim in hand
    seen,       \* the campaign status it loaded with the recipient
    outcome,    \* the status it is about to write
    counted,    \* the recipient statuses refreshStats has grouped
    faults,     \* faults spent
    pauses,     \* pause requests spent
    excused,    \* history: contacts a fault or an overrun lease has hit
    inFlight    \* history: recipients PROCESSING when the campaign ended

campaignVars  == <<status, due>>
recipientVars == <<recipient, attempts, lease>>
localVars     == <<pc, batch, claim, seen, outcome, counted>>
budgetVars    == <<faults, pauses>>
historyVars   == <<excused, inFlight>>
vars == <<campaignVars, recipientVars, message, stats, localVars, budgetVars, historyVars>>

Lease == {"none", "live", "expired"}
PC == {"idle", "next", "load", "existing", "fail", "reload", "create", "complete",
       "count", "stats", "finish", "resume"}

TypeOK ==
    /\ status \in CampaignStatus
    /\ due \in BOOLEAN
    /\ recipient \in [Contacts -> RecipientStatus]
    /\ attempts \in [Contacts -> Nat]
    /\ lease \in [Contacts -> Lease]
    /\ message \in [Contacts -> BOOLEAN]
    /\ stats \in [Contacts -> RecipientStatus]
    /\ pc \in [Actors -> PC]
    /\ batch \in [Actors -> SUBSET Claims]
    /\ claim \in [Actors -> Claims \cup {None}]
    /\ seen \in [Actors -> CampaignStatus \cup {None}]
    /\ outcome \in [Actors -> RecipientStatus \cup CampaignStatus \cup {None}]
    /\ counted \in [Actors -> [Contacts -> RecipientStatus]]
    /\ faults \in Nat
    /\ pauses \in Nat
    /\ excused \in SUBSET Contacts
    /\ inFlight \in SUBSET Contacts

NoRecipients == [c \in Contacts |-> "NONE"]

(* CampaignsService.create: a draft, with or without a future start.       *)
Init ==
    /\ status = "DRAFT"
    /\ due \in BOOLEAN
    /\ recipient = NoRecipients
    /\ attempts = [c \in Contacts |-> 0]
    /\ lease = [c \in Contacts |-> "none"]
    /\ message = [c \in Contacts |-> FALSE]
    /\ stats = NoRecipients
    /\ pc = [a \in Actors |-> "idle"]
    /\ batch = [a \in Actors |-> {}]
    /\ claim = [a \in Actors |-> None]
    /\ seen = [a \in Actors |-> None]
    /\ outcome = [a \in Actors |-> None]
    /\ counted = [a \in Actors |-> NoRecipients]
    /\ faults = 0
    /\ pauses = 0
    /\ excused = {}
    /\ inFlight = {}

Fault == faults < MaxFaults /\ faults' = faults + 1 /\ UNCHANGED pauses
Goto(a, label) == pc' = [pc EXCEPT ![a] = label]
InFlight == {c \in Contacts : recipient[c] = "PROCESSING"}

(* Mutant of EndCampaign: the PENDING recipients are left as they are.     *)
EndLeavesPending(s) ==
    /\ status' = s
    /\ inFlight' = InFlight
    /\ UNCHANGED <<due, recipientVars>>

(* The campaign ends, and with it its PENDING recipients.                  *)
EndCampaign(s) ==
    /\ status' = s
    /\ recipient' = [c \in Contacts |-> IF recipient[c] = "PENDING" THEN s ELSE recipient[c]]
    /\ lease' = [c \in Contacts |-> IF recipient[c] = "PENDING" THEN "none" ELSE lease[c]]
    /\ inFlight' = InFlight
    /\ UNCHANGED <<due, attempts>>

-----------------------------------------------------------------------------
(* Lifecycle requests.                                                     *)

(* launch: one repeatable-read transaction under the campaign's row lock   *)
(* snapshots the contacts that are opted in at that moment.                *)
Launch ==
    /\ status = "DRAFT"
    /\ \E audience \in SUBSET Contacts :
         /\ recipient' = [c \in Contacts |-> IF c \in audience THEN "PENDING" ELSE "NONE"]
         /\ status' = IF audience = {} THEN "COMPLETED"
                      ELSE IF due THEN "RUNNING" ELSE "SCHEDULED"
    /\ UNCHANGED <<due, attempts, lease, message, stats, localVars, budgetVars, historyVars>>

Pause ==
    /\ status \in {"RUNNING", "SCHEDULED"}
    /\ pauses < MaxPauses
    /\ pauses' = pauses + 1
    /\ status' = "PAUSED"
    /\ UNCHANGED <<due, recipientVars, message, stats, localVars, faults, historyVars>>

(* resume reads the campaign, then updates it where it is still PAUSED.    *)
ResumeRead(r) ==
    /\ pc[r] = "idle" /\ status = "PAUSED"
    /\ outcome' = [outcome EXCEPT ![r] = IF due THEN "RUNNING" ELSE "SCHEDULED"]
    /\ Goto(r, "resume")
    /\ UNCHANGED <<campaignVars, recipientVars, message, stats, batch, claim, seen,
                   counted, budgetVars, historyVars>>

ResumeWrite(r) ==
    /\ pc[r] = "resume"
    /\ status' = IF status = "PAUSED" THEN outcome[r] ELSE status
    /\ outcome' = [outcome EXCEPT ![r] = None]
    /\ Goto(r, "idle")
    /\ UNCHANGED <<due, recipientVars, message, stats, batch, claim, seen, counted,
                   budgetVars, historyVars>>

(* cancel: the transaction, then refreshStats.                             *)
Cancel(r) ==
    /\ pc[r] = "idle"
    /\ status \in {"DRAFT", "SCHEDULED", "RUNNING", "PAUSED"}
    /\ EndCampaign("CANCELLED")
    /\ Goto(r, "count")
    /\ UNCHANGED <<message, stats, batch, claim, seen, outcome, counted, budgetVars, excused>>

BecomesDue ==
    /\ ~due
    /\ due' = TRUE
    /\ UNCHANGED <<status, recipientVars, message, stats, localVars, budgetVars, historyVars>>

-----------------------------------------------------------------------------
(* CampaignProcessorService.processPending.                                *)

PromoteScheduledCampaigns(p) ==
    /\ pc[p] = "idle"
    /\ status = "SCHEDULED" /\ due
    /\ status' = "RUNNING"
    /\ UNCHANGED <<due, recipientVars, message, stats, localVars, budgetVars, historyVars>>

(* Mutant of Claimable: an expired claim is never taken over.              *)
ClaimablePendingOnly(c) ==
    recipient[c] = "PENDING" /\ lease[c] # "live" /\ status = "RUNNING"

Claimable(c) ==
    \/ recipient[c] = "PENDING" /\ lease[c] # "live" /\ status = "RUNNING"
    \/ recipient[c] = "PROCESSING" /\ lease[c] = "expired"

(* claimRecipients: SKIP LOCKED and LIMIT may leave some out.              *)
ClaimRecipients(p) ==
    /\ pc[p] = "idle"
    /\ \E S \in SUBSET {c \in Contacts : Claimable(c)} :
         /\ S # {}
         /\ recipient' = [c \in Contacts |-> IF c \in S THEN "PROCESSING" ELSE recipient[c]]
         /\ attempts' = [c \in Contacts |-> IF c \in S THEN attempts[c] + 1 ELSE attempts[c]]
         /\ lease' = [c \in Contacts |-> IF c \in S THEN "live" ELSE lease[c]]
         /\ batch' = [batch EXCEPT ![p] =
                        {[contact |-> c, attempt |-> attempts[c] + 1] : c \in S}]
    /\ Goto(p, "next")
    /\ UNCHANGED <<campaignVars, message, stats, claim, seen, outcome, counted,
                   budgetVars, historyVars>>

(* Mutant of NextRecipient: no refreshStats after the batch.               *)
StatsNotRefreshed(p) ==
    /\ pc[p] = "next"
    /\ \/ \E k \in batch[p] :
            /\ claim' = [claim EXCEPT ![p] = k]
            /\ batch' = [batch EXCEPT ![p] = @ \ {k}]
            /\ Goto(p, "load")
       \/ /\ batch[p] = {}
          /\ claim' = [claim EXCEPT ![p] = None]
          /\ Goto(p, "idle")
          /\ UNCHANGED batch
    /\ UNCHANGED <<campaignVars, recipientVars, message, stats, seen, outcome, counted,
                   budgetVars, historyVars>>

(* The loop over the batch, and refreshStats once it is done.              *)
NextRecipient(p) ==
    /\ pc[p] = "next"
    /\ \/ \E k \in batch[p] :
            /\ claim' = [claim EXCEPT ![p] = k]
            /\ batch' = [batch EXCEPT ![p] = @ \ {k}]
            /\ Goto(p, "load")
       \/ /\ batch[p] = {}
          /\ claim' = [claim EXCEPT ![p] = None]
          /\ Goto(p, "count")
          /\ UNCHANGED batch
    /\ UNCHANGED <<campaignVars, recipientVars, message, stats, seen, outcome, counted,
                   budgetVars, historyVars>>

Contact(p) == claim[p].contact

(* processRecipient loads the recipient with its campaign.                 *)
LoadRecipient(p) ==
    /\ pc[p] = "load"
    /\ seen' = [seen EXCEPT ![p] = status]
    /\ Goto(p, "existing")
    /\ UNCHANGED <<campaignVars, recipientVars, message, stats, batch, claim, outcome,
                   counted, budgetVars, historyVars>>

(* completeForCampaignState.                                               *)
ForCampaignState(s) ==
    CASE s = "CANCELLED" -> "CANCELLED"
      [] s = "FAILED"    -> "FAILED"
      [] s = "COMPLETED" -> "CANCELLED"
      [] OTHER           -> "PENDING"

(* retryOrFail.                                                            *)
RetryOrFail(k) == IF k.attempt >= MaxAttempts THEN "FAILED" ELSE "PENDING"

ToComplete(p, s) ==
    /\ outcome' = [outcome EXCEPT ![p] = s]
    /\ Goto(p, "complete")

(* Mutant of FindExistingMessage: the campaign's state is asked first.     *)
StateBeforeMessage(p) ==
    /\ pc[p] = "existing"
    /\ IF seen[p] # "RUNNING" THEN ToComplete(p, ForCampaignState(seen[p]))
       ELSE IF message[Contact(p)] THEN ToComplete(p, "QUEUED")
       ELSE \E next \in {"create", "fail"} : Goto(p, next) /\ UNCHANGED outcome
    /\ seen' = [seen EXCEPT ![p] = None]
    /\ UNCHANGED <<campaignVars, recipientVars, message, stats, batch, claim, counted,
                   budgetVars, historyVars>>

(* A message of an earlier claim is linked before anything else is asked;  *)
(* then the state the campaign was loaded in decides, then its sender and  *)
(* template (configurationError), which may have changed since launch.     *)
FindExistingMessage(p) ==
    /\ pc[p] = "existing"
    /\ IF message[Contact(p)] THEN ToComplete(p, "QUEUED")
       ELSE IF seen[p] # "RUNNING" THEN ToComplete(p, ForCampaignState(seen[p]))
       ELSE \E next \in {"create", "fail"} : Goto(p, next) /\ UNCHANGED outcome
    /\ seen' = [seen EXCEPT ![p] = None]
    /\ UNCHANGED <<campaignVars, recipientVars, message, stats, batch, claim, counted,
                   budgetVars, historyVars>>

(* failCampaign, and what the caller does with its answer.                 *)
FailCampaign(p) ==
    /\ pc[p] = "fail"
    /\ IF status \in {"RUNNING", "SCHEDULED"}
       THEN EndCampaign("FAILED") /\ ToComplete(p, "FAILED")
       ELSE Goto(p, "reload") /\ UNCHANGED <<campaignVars, recipientVars, outcome, inFlight>>
    /\ UNCHANGED <<message, stats, batch, claim, seen, counted, budgetVars, excused>>

ReloadCampaign(p) ==
    /\ pc[p] = "reload"
    /\ ToComplete(p, ForCampaignState(status))
    /\ UNCHANGED <<campaignVars, recipientVars, message, stats, batch, claim, seen,
                   counted, budgetVars, historyVars>>

(* MessagesService.create under the recipient's idempotency key: the row   *)
(* is inserted, or the one a concurrent claim inserted is returned.        *)
CreateMessage(p) ==
    /\ pc[p] = "create"
    /\ message' = [message EXCEPT ![Contact(p)] = TRUE]
    /\ ToComplete(p, "QUEUED")
    /\ UNCHANGED <<campaignVars, recipientVars, stats, batch, claim, seen, counted,
                   budgetVars, historyVars>>

(* It throws and inserts nothing: consent is gone or a value is missing    *)
(* (SKIPPED), the template or sender is refused (fail), anything else      *)
(* (retry).  A message that another claim inserted meanwhile is not seen.  *)
CreateRefused(p) ==
    /\ pc[p] = "create"
    /\ \/ \E s \in {"SKIPPED", RetryOrFail(claim[p])} : ToComplete(p, s)
       \/ Goto(p, "fail") /\ UNCHANGED outcome
    /\ UNCHANGED <<campaignVars, recipientVars, message, stats, batch, claim, seen,
                   counted, budgetVars, historyVars>>

(* A database error anywhere in processRecipient, or after the message was *)
(* committed: it is caught and the claim is retried or failed.             *)
ProcessingError(p) ==
    /\ pc[p] \in {"load", "existing", "fail", "reload", "create", "complete"}
    /\ Fault
    /\ \/ UNCHANGED message
       \/ pc[p] = "create" /\ message' = [message EXCEPT ![Contact(p)] = TRUE]
    /\ ToComplete(p, RetryOrFail(claim[p]))
    /\ seen' = [seen EXCEPT ![p] = None]
    /\ excused' = excused \cup {Contact(p)}
    /\ UNCHANGED <<campaignVars, recipientVars, stats, batch, claim, counted, inFlight>>

Current(k) ==
    recipient[k.contact] = "PROCESSING" /\ attempts[k.contact] = k.attempt

(* Mutant of CompleteClaim: the write is by id, without the lease.         *)
CompleteUnfenced(p) ==
    /\ pc[p] = "complete"
    /\ recipient' = [recipient EXCEPT ![Contact(p)] = outcome[p]]
    /\ lease' = [lease EXCEPT ![Contact(p)] = "none"]
    /\ outcome' = [outcome EXCEPT ![p] = None]
    /\ Goto(p, "next")
    /\ UNCHANGED <<campaignVars, attempts, message, stats, batch, claim, seen, counted,
                   budgetVars, historyVars>>

(* completeClaim: only where the row still carries this claim's lease.     *)
CompleteClaim(p) ==
    /\ pc[p] = "complete"
    /\ IF Current(claim[p])
       THEN /\ recipient' = [recipient EXCEPT ![Contact(p)] = outcome[p]]
            /\ lease' = [lease EXCEPT ![Contact(p)] = "none"]
       ELSE UNCHANGED <<recipient, lease>>
    /\ outcome' = [outcome EXCEPT ![p] = None]
    /\ Goto(p, "next")
    /\ UNCHANGED <<campaignVars, attempts, message, stats, batch, claim, seen, counted,
                   budgetVars, historyVars>>

-----------------------------------------------------------------------------
(* CampaignsService.refreshStats: three awaits.                            *)

CountRecipients(a) ==
    /\ pc[a] = "count"
    /\ counted' = [counted EXCEPT ![a] = recipient]
    /\ Goto(a, "stats")
    /\ UNCHANGED <<campaignVars, recipientVars, message, stats, batch, claim, seen,
                   outcome, budgetVars, historyVars>>

Unfinished(r) == \E c \in Contacts : r[c] \in {"PENDING", "PROCESSING"}

(* Mutant of WriteStats: only PENDING keeps the campaign open.             *)
ProcessingIgnored(a) ==
    /\ pc[a] = "stats"
    /\ stats' = counted[a]
    /\ Goto(a, IF \E c \in Contacts : counted[a][c] = "PENDING" THEN "idle" ELSE "finish")
    /\ counted' = [counted EXCEPT ![a] = NoRecipients]
    /\ UNCHANGED <<campaignVars, recipientVars, message, batch, claim, seen, outcome,
                   budgetVars, historyVars>>

WriteStats(a) ==
    /\ pc[a] = "stats"
    /\ stats' = counted[a]
    /\ Goto(a, IF Unfinished(counted[a]) THEN "idle" ELSE "finish")
    /\ counted' = [counted EXCEPT ![a] = NoRecipients]
    /\ UNCHANGED <<campaignVars, recipientVars, message, batch, claim, seen, outcome,
                   budgetVars, historyVars>>

CompleteCampaign(a) ==
    /\ pc[a] = "finish"
    /\ status' = IF status = "RUNNING" THEN "COMPLETED" ELSE status
    /\ Goto(a, "idle")
    /\ UNCHANGED <<due, recipientVars, message, stats, batch, claim, seen, outcome,
                   counted, budgetVars, historyVars>>

-----------------------------------------------------------------------------
(* The process dies, or an error ends the poll: the rest of the batch stays*)
(* leased and the counters are not refreshed.                              *)
PollAborts(a) ==
    /\ pc[a] # "idle"
    /\ Fault
    /\ Goto(a, "idle")
    /\ batch' = [batch EXCEPT ![a] = {}]
    /\ claim' = [claim EXCEPT ![a] = None]
    /\ seen' = [seen EXCEPT ![a] = None]
    /\ outcome' = [outcome EXCEPT ![a] = None]
    /\ counted' = [counted EXCEPT ![a] = NoRecipients]
    /\ UNCHANGED <<campaignVars, recipientVars, message, stats, historyVars>>

(* The claims a replica still has to finish.                               *)
Working == {"load", "existing", "fail", "reload", "create", "complete"}
Held(p) == batch[p] \cup (IF pc[p] \in Working THEN {claim[p]} ELSE {})
HasHolder(c) == \E p \in Processors : \E k \in Held(p) : k.contact = c /\ Current(k)

(* A lease whose replica is gone runs out; one whose replica is still at   *)
(* work may, and that is counted as a fault.                               *)
LeaseExpires(c) ==
    /\ lease[c] = "live" /\ ~HasHolder(c)
    /\ lease' = [lease EXCEPT ![c] = "expired"]
    /\ UNCHANGED <<campaignVars, recipient, attempts, message, stats, localVars,
                   budgetVars, historyVars>>

LeaseOverrun(c) ==
    /\ lease[c] = "live" /\ HasHolder(c)
    /\ Fault
    /\ lease' = [lease EXCEPT ![c] = "expired"]
    /\ excused' = excused \cup {c}
    /\ UNCHANGED <<campaignVars, recipient, attempts, message, stats, localVars, inFlight>>

-----------------------------------------------------------------------------
Request ==
    \/ Launch \/ Pause \/ BecomesDue
    \/ \E r \in Requests : ResumeRead(r) \/ ResumeWrite(r) \/ Cancel(r)

RefreshStats(a) == CountRecipients(a) \/ WriteStats(a) \/ CompleteCampaign(a)

ProcessorStep(p) ==
    \/ NextRecipient(p) \/ LoadRecipient(p) \/ FindExistingMessage(p)
    \/ FailCampaign(p) \/ ReloadCampaign(p)
    \/ CreateMessage(p) \/ CreateRefused(p) \/ CompleteClaim(p)

Next ==
    \/ Request
    \/ \E a \in Actors : RefreshStats(a) \/ PollAborts(a)
    \/ \E p \in Processors :
         \/ PromoteScheduledCampaigns(p) \/ ClaimRecipients(p)
         \/ ProcessorStep(p) \/ ProcessingError(p)
    \/ \E c \in Contacts : LeaseExpires(c) \/ LeaseOverrun(c)

Spec == Init /\ [][Next]_vars

(* The poll timer fires again, awaits return, leases and schedules run     *)
(* out.  Nobody has to pause, resume or cancel.                            *)
Fairness ==
    /\ WF_vars(BecomesDue)
    /\ \A r \in Requests : WF_vars(ResumeWrite(r))
    /\ \A a \in Actors : WF_vars(RefreshStats(a))
    /\ \A p \in Processors :
         /\ WF_vars(PromoteScheduledCampaigns(p))
         /\ WF_vars(ClaimRecipients(p))
         /\ WF_vars(ProcessorStep(p))
    /\ \A c \in Contacts : WF_vars(LeaseExpires(c))

FairSpec == Spec /\ Fairness

-----------------------------------------------------------------------------
(* A campaign is COMPLETED only when every recipient of it has an outcome, *)
(* although refreshStats counts them in one await and writes COMPLETED two *)
(* awaits later.                                                           *)
CompletedMeansDone ==
    status = "COMPLETED" => ~Unfinished(recipient)

(* A recipient for whom a message was committed is being processed or is   *)
(* QUEUED, never SKIPPED, FAILED, CANCELLED or back to PENDING, unless a   *)
(* database error or an overrun lease hit that very recipient.             *)
MessageIsAccounted ==
    \A c \in Contacts :
        message[c] => recipient[c] \in {"PROCESSING", "QUEUED"} \/ c \in excused

(* Only a message that exists is ever reported as QUEUED.                  *)
QueuedHasMessage ==
    \A c \in Contacts : recipient[c] = "QUEUED" => message[c]

(* The counters may be stale but never ahead: whatever order replicas      *)
(* write them in, an outcome that was counted is the recipient's outcome.  *)
StatsNeverAhead ==
    \A c \in Contacts : stats[c] \in Terminal => recipient[c] = stats[c]

(* A cancelled or failed campaign leaves a recipient PENDING only if a     *)
(* replica had it in hand when the campaign ended.                         *)
PendingWasInFlight ==
    status \in {"CANCELLED", "FAILED"} =>
        \A c \in Contacts : recipient[c] = "PENDING" => c \in inFlight

(* Outcomes are final: no late claim, pause, resume or refresh changes the *)
(* outcome of a recipient or of the campaign.                              *)
OutcomesAreFinal ==
    [][/\ status \in TerminalCampaign => status' = status
       /\ \A c \in Contacts : recipient[c] \in Terminal => recipient'[c] = recipient[c]]_vars

(* While the campaign runs, every recipient gets an outcome, crashed       *)
(* replicas and expired leases included.                                   *)
RecipientsSettle ==
    \A c \in Contacts :
        recipient[c] \in {"PENDING", "PROCESSING"} /\ status = "RUNNING"
            ~> recipient[c] \in Terminal \/ status # "RUNNING"

(* A running campaign comes to an end, whichever replica finishes last,    *)
(* unless a fault or a pause comes between.                                *)
CampaignEnds == status = "RUNNING" ~> status # "RUNNING" \/ faults > 0 \/ pauses > 0

-----------------------------------------------------------------------------
(* The inductive invariant behind the safety properties.                   *)

(* What an actor carries while it stands at a label.                       *)
LocalInv ==
    /\ \A p \in Processors :
         /\ pc[p] # "resume"
         /\ pc[p] \in Working => claim[p] \in Claims /\ claim[p] \notin batch[p]
         /\ pc[p] = "existing" => seen[p] \in CampaignStatus
         /\ pc[p] = "complete" => outcome[p] \in Terminal \cup {"PENDING"}
         /\ pc[p] = "complete" /\ outcome[p] = "QUEUED" => message[Contact(p)]
    /\ \A r \in Requests :
         /\ pc[r] \in {"idle", "resume", "count", "stats", "finish"}
         /\ pc[r] = "resume" => outcome[r] \in {"RUNNING", "SCHEDULED"}
         /\ batch[r] = {}

(* A draft has no recipients and nobody works on it.                       *)
DraftInv ==
    status = "DRAFT" => recipient = NoRecipients /\ \A a \in Actors : pc[a] = "idle"

(* What was counted is still so wherever it was final.                     *)
StillSo(r) ==
    \A c \in Contacts : r[c] \in Terminal \cup {"NONE"} => recipient[c] = r[c]

CountInv ==
    /\ \A a \in Actors :
         /\ pc[a] = "stats" => StillSo(counted[a])
         /\ pc[a] = "finish" => ~Unfinished(recipient)
    /\ StatsNeverAhead

(* A claim in hand is current, and nobody else's, until a fault hits it.   *)
ClaimInv ==
    \A p \in Processors : \A k \in Held(p) :
        /\ k.attempt <= attempts[k.contact]
        /\ k.contact \notin excused => Current(k) /\ lease[k.contact] = "live"
        /\ \A q \in Processors : k \in Held(q) => q = p

(* Whoever is about to create or to give up has seen that there is no      *)
(* message.                                                                *)
MessageInv ==
    \A p \in Processors :
        LET c == Contact(p) IN
        /\ pc[p] \in {"fail", "reload", "create"} /\ message[c] => c \in excused
        /\ pc[p] = "complete" /\ message[c] => outcome[p] = "QUEUED" \/ c \in excused

EndedInv ==
    status \in {"CANCELLED", "FAILED"} =>
        \A c \in Contacts : recipient[c] \in {"PENDING", "PROCESSING"} => c \in inFlight

IInv ==
    /\ TypeOK /\ LocalInv /\ DraftInv /\ CountInv /\ ClaimInv /\ MessageInv /\ EndedInv
    /\ CompletedMeansDone /\ MessageIsAccounted /\ QueuedHasMessage

-----------------------------------------------------------------------------
(* What the repository says of campaigns and the code does not keep.       *)

(* README.md: "Recipient processing uses leases and FOR UPDATE SKIP LOCKED,*)
(* allowing multiple replicas and crash recovery."                         *)
CampaignRecoversFromCrash == status = "RUNNING" ~> status # "RUNNING"
==================================================================================
