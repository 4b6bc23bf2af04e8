-------------------------- MODULE MessageAcceptance --------------------------
(***************************************************************************)
(* MessagesService.create, one action for each await: the lookup of the    *)
(* idempotency key, the outbound policy, sender and template, the          *)
(* transaction, and the lookup after a failed one.  Meanwhile the contact's*)
(* consent and service window, the sender and the template change.         *)
(***************************************************************************)
EXTENDS Naturals, Sequences, FiniteSets

CONSTANTS
  Requests, KeyOf, NoKey, Unanswered, Refused,
  TypeOf,        \* "TEMPLATE" or "TEXT", for each request
  Decisions,     \* consent decisions: occurredAt and status
  MaxDecisions,  \* bound on the decisions recorded
  MaxChanges     \* bound on changes of window, sender and template

ASSUME AcceptanceConstants ==
  /\ Unanswered \notin Requests
  /\ Refused \notin Requests /\ Refused # Unanswered
  /\ TypeOf \in [Requests -> {"TEMPLATE", "TEXT"}]
  /\ Decisions \subseteq [occurredAt : Nat, status : {"OPTED_IN", "OPTED_OUT"}]
  /\ MaxDecisions \in Nat
  /\ MaxChanges \in Nat

VARIABLES
  messages,    \* Message rows, named by the request that wrote them
  answer,      \* the answer of each request
  pc,          \* where each call of create() is
  consent,     \* Contact.consentStatus
  decisions,   \* ContactConsentEvent rows, in the order they were written
  windowOpen,  \* Contact.serviceWindowExpiresAt is in the future
  senderActive,
  approved,    \* the template is synced and APPROVED
  changes,     \* changes spent
  wasAllowed   \* history: the contact agreed at some moment of the call

acceptanceVars == <<messages, answer, pc, consent, decisions, windowOpen, senderActive, approved,
          changes, wasAllowed>>
contactVars == <<consent, decisions, windowOpen>>
configVars == <<senderActive, approved, changes>>

AcceptanceInit ==
  /\ messages = {}
  /\ answer = [r \in Requests |-> Unanswered]
  /\ pc = [r \in Requests |-> "idle"]
  /\ consent = "UNKNOWN" /\ decisions = <<>>
  /\ windowOpen \in BOOLEAN
  /\ senderActive \in BOOLEAN /\ approved \in BOOLEAN
  /\ changes = 0
  /\ wasAllowed = [r \in Requests |-> FALSE]

-----------------------------------------------------------------------------
(* The row findFirst finds for the key of r.                               *)
Existing(r) == {m \in messages : KeyOf[r] # NoKey /\ KeyOf[m] = KeyOf[r]}

Goto(r, l) == pc' = [pc EXCEPT ![r] = l] /\ UNCHANGED answer
Return(r, a) ==
  /\ pc' = [pc EXCEPT ![r] = "done"]
  /\ answer' = [answer EXCEPT ![r] = a]

(* OutboundPolicyService.assertAllowed for the type of r.                  *)
Allowed(r) == IF TypeOf[r] = "TEMPLATE" THEN consent = "OPTED_IN" ELSE windowOpen

(* The decision that occurred last, of equals the one written last.        *)
LatestDecision(d) ==
  \E i \in DOMAIN decisions :
    /\ decisions[i].status = d
    /\ \A j \in DOMAIN decisions :
         \/ decisions[j].occurredAt < decisions[i].occurredAt
         \/ decisions[j].occurredAt = decisions[i].occurredAt /\ j <= i

(* What the contact agreed to, as wasAllowed remembers it.                 *)
Agreed(r) == IF TypeOf[r] = "TEMPLATE" THEN LatestDecision("OPTED_IN") ELSE windowOpen

FindExisting(r) ==
  /\ pc[r] = "idle"
  /\ \/ \E m \in Existing(r) : Return(r, m)
     \/ Existing(r) = {} /\ Goto(r, "policy")
  /\ wasAllowed' = [wasAllowed EXCEPT ![r] = Agreed(r)]
  /\ UNCHANGED <<messages, contactVars, configVars>>

AssertAllowed(r) ==
  /\ pc[r] = "policy"
  /\ IF Allowed(r) THEN Goto(r, "resolve") ELSE Return(r, Refused)
  /\ UNCHANGED <<messages, contactVars, configVars, wasAllowed>>

(* resolveForTenant and, for a template, its business account and approval.*)
Resolve(r) ==
  /\ pc[r] = "resolve"
  /\ IF senderActive /\ (TypeOf[r] = "TEMPLATE" => approved)
     THEN Goto(r, "commit")
     ELSE Return(r, Refused)
  /\ UNCHANGED <<messages, contactVars, configVars, wasAllowed>>

(* Mutant: no unique index, the first lookup alone guards the key.         *)
KeyUnguarded(r) == TRUE

(* The unique index on the key.                                            *)
KeyIsFree(r) == Existing(r) = {}

Commit(r) ==
  /\ pc[r] = "commit"
  /\ KeyIsFree(r)
  /\ messages' = messages \cup {r}
  /\ Return(r, r)
  /\ UNCHANGED <<contactVars, configVars, wasAllowed>>

(* The commit reaches the database and its acknowledgement is lost.        *)
CommitAckLost(r) ==
  /\ pc[r] = "commit"
  /\ KeyIsFree(r)
  /\ messages' = messages \cup {r}
  /\ Goto(r, "caught")
  /\ UNCHANGED <<contactVars, configVars, wasAllowed>>

(* The key is taken, or the transaction fails for another reason.          *)
CommitFails(r) ==
  /\ pc[r] = "commit"
  /\ Goto(r, "caught")
  /\ UNCHANGED <<messages, contactVars, configVars, wasAllowed>>

(* The catch: a row with the key is the answer, whoever wrote it; without  *)
(* a key or a row the caller gets a ConflictException.                     *)
FindAfterFailure(r) ==
  /\ pc[r] = "caught"
  /\ \/ \E m \in Existing(r) : Return(r, m)
     \/ Existing(r) = {} /\ Return(r, Refused)
  /\ UNCHANGED <<messages, contactVars, configVars, wasAllowed>>

LookupFails(r) ==
  /\ pc[r] \in {"idle", "policy", "resolve", "caught"}
  /\ Return(r, Refused)
  /\ UNCHANGED <<messages, contactVars, configVars, wasAllowed>>

-----------------------------------------------------------------------------
(* Mutant: the decision recorded last is current.                          *)
IsLastRecorded(d) == TRUE

(* ContactsService.recordConsent, serialised by the lock on the contact:   *)
(* every decision is kept, the contact follows it unless a later one is    *)
(* known.                                                                  *)
IsCurrentDecision(d) == \A i \in DOMAIN decisions : d.occurredAt >= decisions[i].occurredAt

(* What the calls under way may rely on, after a change of the contact.    *)
Observe ==
  wasAllowed' = [r \in Requests |->
                   wasAllowed[r] \/ (pc[r] # "idle" /\ Agreed(r)')]

RecordConsent(d) ==
  /\ Len(decisions) < MaxDecisions
  /\ decisions' = Append(decisions, d)
  /\ consent' = IF IsCurrentDecision(d) THEN d.status ELSE consent
  /\ UNCHANGED windowOpen
  /\ Observe
  /\ UNCHANGED <<messages, answer, pc, configVars>>

(* An inbound message opens the window, time closes it.                    *)
ChangeWindow ==
  /\ changes < MaxChanges
  /\ windowOpen' = ~windowOpen
  /\ UNCHANGED <<consent, decisions>>
  /\ Observe
  /\ changes' = changes + 1
  /\ UNCHANGED <<messages, answer, pc, senderActive, approved>>

ChangeConfiguration ==
  /\ changes < MaxChanges
  /\ \/ senderActive' = ~senderActive /\ UNCHANGED approved
     \/ approved' = ~approved /\ UNCHANGED senderActive
  /\ changes' = changes + 1
  /\ UNCHANGED <<messages, answer, pc, contactVars, wasAllowed>>

CreateStep(r) ==
  \/ FindExisting(r) \/ AssertAllowed(r) \/ Resolve(r)
  \/ Commit(r) \/ CommitFails(r)
  \/ FindAfterFailure(r)

AcceptanceNext ==
  \/ \E r \in Requests : CreateStep(r) \/ CommitAckLost(r) \/ LookupFails(r)
  \/ \E d \in Decisions : RecordConsent(d)
  \/ ChangeWindow \/ ChangeConfiguration

AcceptanceSpec == AcceptanceInit /\ [][AcceptanceNext]_acceptanceVars

-----------------------------------------------------------------------------
(* Properties.                                                             *)

(* create() keeps its promise to every caller, whatever requests race on a *)
(* key and whatever fails: it implements IdempotentAcceptance.             *)
Promise == INSTANCE IdempotentAcceptance WITH accepted <- messages
KeepsPromise == Promise!Spec

(* A call is only unanswered while it is under way, and its own message    *)
(* can only exist once its transaction was tried.                          *)
AnsweredWhenDone ==
  \A r \in Requests :
    /\ answer[r] = Unanswered <=> pc[r] # "done"
    /\ r \in messages => pc[r] \in {"caught", "done"}

(* No message is accepted for a contact whose consent (templates: the      *)
(* decision with the latest occurredAt, in whatever order decisions were   *)
(* reported) or service window (free-form) refused it during the whole     *)
(* call.  The check runs before the transaction, so a refusal that comes   *)
(* between the two does not stop it.                                       *)
AcceptedWasAllowed == \A r \in messages : wasAllowed[r]
=============================================================================
