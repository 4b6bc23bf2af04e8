----------------------------- MODULE CampaignProofs -----------------------------
(***************************************************************************)
(* Proofs about Campaign for any set of contacts, any number of processor  *)
(* replicas, any attempt limit and any number of faults and pauses.        *)
(***************************************************************************)
EXTENDS Campaign, TLAPS

USE DEF campaignVars, recipientVars, localVars, budgetVars, historyVars

LEMMA ActorFacts ==
    /\ \A r \in Requests : r \in Actors /\ r \notin Processors
    /\ \A p \in Processors : p \in Actors /\ p \notin Requests
  BY CampaignAssumption DEF Actors

-----------------------------------------------------------------------------
(* Types, and what actors carry.                                           *)
Typed == TypeOK /\ LocalInv

LEMMA InitTyped == Init => Typed
  BY ActorFacts, CampaignAssumption DEF Init, Typed, TypeOK, LocalInv, NoRecipients, RecipientStatus,
     CampaignStatus, Lease, PC, Working, Terminal

LEMMA EndTypes ==
    ASSUME TypeOK, NEW s \in {"CANCELLED", "FAILED"}, EndCampaign(s)
    PROVE  /\ status' \in CampaignStatus /\ due' \in BOOLEAN
           /\ recipient' \in [Contacts -> RecipientStatus]
           /\ attempts' \in [Contacts -> Nat] /\ lease' \in [Contacts -> Lease]
           /\ inFlight' \in SUBSET Contacts
  BY DEF TypeOK, EndCampaign, CampaignStatus, RecipientStatus, Terminal, Lease, InFlight

LEMMA RequestTyped ==
    ASSUME Typed, Request
    PROVE  Typed'
<1> USE ActorFacts DEF Typed
<1>1. CASE Launch
  BY <1>1 DEF Launch, TypeOK, LocalInv, CampaignStatus, RecipientStatus, Contact
<1>2. CASE Pause
  BY <1>2 DEF Pause, TypeOK, LocalInv, CampaignStatus, Contact
<1>3. CASE \E r \in Requests : ResumeRead(r)
  BY <1>3 DEF ResumeRead, Goto, TypeOK, LocalInv, CampaignStatus, Contact, PC, Working
<1>4. CASE \E r \in Requests : ResumeWrite(r)
  BY <1>4 DEF ResumeWrite, Goto, TypeOK, LocalInv, CampaignStatus, Contact, PC, Working
<1>5. CASE \E r \in Requests : Cancel(r)
  <2>1. TypeOK'
    BY <1>5, EndTypes DEF Cancel, Goto, TypeOK, PC
  <2>2. LocalInv'
    BY <1>5 DEF Cancel, Goto, TypeOK, LocalInv, Contact, Working
  <2> QED
    BY <2>1, <2>2
<1>6. CASE BecomesDue
  BY <1>6 DEF BecomesDue, TypeOK, LocalInv, Contact
<1> QED
  BY <1>1, <1>2, <1>3, <1>4, <1>5, <1>6 DEF Request

LEMMA RefreshTyped ==
    ASSUME Typed, NEW a \in Actors, RefreshStats(a) \/ PollAborts(a)
    PROVE  Typed'
<1> USE ActorFacts DEF Typed, TypeOK, Goto, PC
<1>1. CASE CountRecipients(a)
  BY <1>1 DEF CountRecipients, LocalInv, Contact, Working
<1>2. CASE WriteStats(a)
  BY <1>2 DEF WriteStats, LocalInv, Contact, Working, NoRecipients, RecipientStatus
<1>3. CASE CompleteCampaign(a)
  BY <1>3 DEF CompleteCampaign, LocalInv, Contact, Working, CampaignStatus
<1>4. CASE PollAborts(a)
  BY <1>4 DEF PollAborts, Fault, LocalInv, Contact, Working, NoRecipients, RecipientStatus
<1> QED
  BY <1>1, <1>2, <1>3, <1>4 DEF RefreshStats

LEMMA RetryOutcome ==
    ASSUME NEW k
    PROVE  RetryOrFail(k) \in {"FAILED", "PENDING"}
  BY DEF RetryOrFail

LEMMA StateOutcome ==
    ASSUME NEW s
    PROVE  ForCampaignState(s) \in {"CANCELLED", "FAILED", "PENDING"}
  BY DEF ForCampaignState

(* A processor that moves to another label with a claim in hand.           *)
LEMMA GotoTyped ==
    ASSUME Typed, NEW p \in Processors, pc[p] \in Working,
           NEW label \in {"existing", "fail", "reload", "create"}, Goto(p, label),
           UNCHANGED <<claim, batch, outcome, counted>>,
           message' = message,
           seen' \in [Actors -> CampaignStatus \cup {None}],
           label = "existing" => seen'[p] \in CampaignStatus,
           \A q \in Processors \ {p} : seen'[q] = seen[q],
           status' \in CampaignStatus, due' = due, recipientVars' = recipientVars, stats' = stats,
           faults' \in Nat, pauses' \in Nat, excused' \in SUBSET Contacts,
           inFlight' \in SUBSET Contacts
    PROVE  Typed'
  BY ActorFacts DEF Typed, TypeOK, LocalInv, Goto, Contact, Working, PC

(* A processor that has decided on an outcome.                             *)
LEMMA CompleteTyped ==
    ASSUME Typed, NEW p \in Processors, pc[p] \in Working,
           NEW s \in Terminal \cup {"PENDING"}, ToComplete(p, s),
           UNCHANGED <<claim, batch, counted, stats>>,
           message' \in [Contacts -> BOOLEAN],
           \A c \in Contacts : message[c] => message'[c],
           s = "QUEUED" => message'[Contact(p)],
           seen' \in [Actors -> CampaignStatus \cup {None}],
           \A q \in Processors \ {p} : seen'[q] = seen[q],
           status' \in CampaignStatus, due' \in BOOLEAN,
           recipient' \in [Contacts -> RecipientStatus], attempts' \in [Contacts -> Nat],
           lease' \in [Contacts -> Lease],
           faults' \in Nat, pauses' \in Nat, excused' \in SUBSET Contacts,
           inFlight' \in SUBSET Contacts
    PROVE  Typed'
<1>1. TypeOK'
  BY ActorFacts DEF Typed, TypeOK, ToComplete, Goto, PC, RecipientStatus
<1>2. \A q \in Processors : pc[q] = "complete" => Contact(q) \in Contacts
  BY DEF Typed, LocalInv, Working, Claims, Contact
<1>3. LocalInv'
  BY <1>2, ActorFacts DEF Typed, TypeOK, LocalInv, ToComplete, Goto, Contact, Working
<1> QED
  BY <1>1, <1>3 DEF Typed

LEMMA ProcessorTyped ==
    ASSUME Typed, NEW p \in Processors, ProcessorStep(p)
    PROVE  Typed'
<1>1. /\ TypeOK /\ LocalInv /\ p \in Actors
      /\ pc[p] \in Working => Contact(p) \in Contacts
  BY ActorFacts DEF Typed, LocalInv, Contact, Claims
<1>2. CASE NextRecipient(p)
  <2>1. TypeOK'
    <3>1. CASE \E k \in batch[p] :
                 /\ claim' = [claim EXCEPT ![p] = k]
                 /\ batch' = [batch EXCEPT ![p] = @ \ {k}]
                 /\ Goto(p, "load")
      <4>1. PICK k \in batch[p] :
                 /\ claim' = [claim EXCEPT ![p] = k]
                 /\ batch' = [batch EXCEPT ![p] = @ \ {k}]
                 /\ Goto(p, "load")
        BY <3>1
      <4>2. k \in Claims /\ batch[p] \ {k} \in SUBSET Claims
        BY <1>1 DEF TypeOK
      <4>3. /\ claim' \in [Actors -> Claims \cup {None}]
            /\ batch' \in [Actors -> SUBSET Claims]
        BY <1>1, <4>1, <4>2 DEF TypeOK
      <4> QED
        BY <1>1, <1>2, <4>1, <4>3 DEF NextRecipient, TypeOK, Goto, PC
    <3>2. CASE claim' = [claim EXCEPT ![p] = None] /\ Goto(p, "count") /\ UNCHANGED batch
      BY <1>1, <1>2, <3>2 DEF NextRecipient, TypeOK, Goto, PC
    <3> QED
      BY <1>2, <3>1, <3>2 DEF NextRecipient
  <2>2. LocalInv'
    BY <1>1, <1>2, ActorFacts DEF NextRecipient, TypeOK, LocalInv, Goto, Working, Contact
  <2> QED
    BY <2>1, <2>2 DEF Typed
<1>3. CASE LoadRecipient(p)
  BY <1>1, <1>3, ActorFacts, GotoTyped DEF LoadRecipient, TypeOK, Working
<1>4. CASE FindExistingMessage(p)
  <2>1. /\ seen' \in [Actors -> CampaignStatus \cup {None}]
        /\ \A q \in Processors \ {p} : seen'[q] = seen[q]
    BY <1>1, <1>4, ActorFacts DEF FindExistingMessage, TypeOK
  <2>2. pc[p] \in Working
    BY <1>4 DEF FindExistingMessage, Working
  <2>3. CASE message[Contact(p)] /\ ToComplete(p, "QUEUED")
    BY <1>1, <1>4, <2>1, <2>2, <2>3, CompleteTyped DEF FindExistingMessage, TypeOK, Terminal
  <2>4. CASE ToComplete(p, ForCampaignState(seen[p]))
    BY <1>1, <1>4, <2>1, <2>2, <2>4, StateOutcome, CompleteTyped DEF FindExistingMessage, TypeOK, Terminal
  <2>5. CASE \E next \in {"create", "fail"} : Goto(p, next) /\ UNCHANGED outcome
    BY <1>1, <1>4, <2>1, <2>2, <2>5, GotoTyped DEF FindExistingMessage, TypeOK
  <2> QED
    BY <1>4, <2>3, <2>4, <2>5 DEF FindExistingMessage
<1>5. CASE FailCampaign(p)
  <2>1. pc[p] \in Working
    BY <1>5 DEF FailCampaign, Working
  <2>2. CASE status \in {"RUNNING", "SCHEDULED"}
    BY <1>1, <1>5, <2>1, <2>2, EndTypes, CompleteTyped DEF FailCampaign, TypeOK, Terminal
  <2>3. CASE status \notin {"RUNNING", "SCHEDULED"}
    BY <1>1, <1>5, <2>1, <2>3, GotoTyped DEF FailCampaign, TypeOK
  <2> QED
    BY <2>2, <2>3
<1>6. CASE ReloadCampaign(p)
  BY <1>1, <1>6, StateOutcome, CompleteTyped DEF ReloadCampaign, TypeOK, Terminal, Working
<1>7. CASE CreateMessage(p)
  BY <1>1, <1>7, CompleteTyped DEF CreateMessage, TypeOK, Terminal, Working
<1>8. CASE CreateRefused(p)
  <2>1. pc[p] \in Working
    BY <1>8 DEF CreateRefused, Working
  <2>2. CASE \E s \in {"SKIPPED", RetryOrFail(claim[p])} : ToComplete(p, s)
    BY <1>1, <1>8, <2>1, <2>2, RetryOutcome, CompleteTyped DEF CreateRefused, TypeOK, Terminal
  <2>3. CASE Goto(p, "fail") /\ UNCHANGED outcome
    BY <1>1, <1>8, <2>1, <2>3, GotoTyped DEF CreateRefused, TypeOK
  <2> QED
    BY <1>8, <2>2, <2>3 DEF CreateRefused
<1>9. CASE CompleteClaim(p)
  <2>1. Contact(p) \in Contacts /\ outcome[p] \in RecipientStatus
    BY <1>1, <1>9 DEF CompleteClaim, Working, LocalInv, RecipientStatus
  <2>2. TypeOK'
    BY <1>1, <1>9, <2>1 DEF CompleteClaim, TypeOK, Goto, PC, Lease
  <2>3. LocalInv'
    BY <1>1, <1>9, ActorFacts DEF CompleteClaim, TypeOK, LocalInv, Goto, Working, Contact
  <2> QED
    BY <2>2, <2>3 DEF Typed
<1> QED
  BY <1>2, <1>3, <1>4, <1>5, <1>6, <1>7, <1>8, <1>9 DEF ProcessorStep

LEMMA ErrorTyped ==
    ASSUME Typed, NEW p \in Processors, ProcessingError(p)
    PROVE  Typed'
<1>1. /\ TypeOK /\ LocalInv /\ p \in Actors /\ pc[p] \in Working
      /\ Contact(p) \in Contacts
  BY ActorFacts DEF Typed, LocalInv, Contact, Claims, ProcessingError, Working
<1>2. /\ message' \in [Contacts -> BOOLEAN]
      /\ \A c \in Contacts : message[c] => message'[c]
  BY <1>1 DEF ProcessingError, TypeOK
<1>3. /\ seen' \in [Actors -> CampaignStatus \cup {None}]
      /\ \A q \in Processors \ {p} : seen'[q] = seen[q]
  BY <1>1, ActorFacts DEF ProcessingError, TypeOK
<1>4. faults' \in Nat /\ pauses' \in Nat /\ excused' \in SUBSET Contacts
  BY <1>1 DEF ProcessingError, Fault, TypeOK
<1> QED
  BY <1>1, <1>2, <1>3, <1>4, RetryOutcome, CompleteTyped DEF ProcessingError, TypeOK, Terminal

LEMMA ClaimTyped ==
    ASSUME Typed, NEW p \in Processors, ClaimRecipients(p)
    PROVE  Typed'
<1>1. TypeOK /\ LocalInv /\ p \in Actors
  BY ActorFacts DEF Typed
<1>2. \A c \in Contacts : [contact |-> c, attempt |-> attempts[c] + 1] \in Claims
  BY <1>1 DEF TypeOK, Claims
<1>3. TypeOK'
  BY <1>1, <1>2 DEF ClaimRecipients, TypeOK, Goto, PC, Lease, RecipientStatus
<1>4. LocalInv'
  BY <1>1, ActorFacts DEF ClaimRecipients, TypeOK, LocalInv, Goto, Working, Contact
<1> QED
  BY <1>3, <1>4 DEF Typed

LEMMA NextTyped ==
    ASSUME Typed, [Next]_vars
    PROVE  Typed'
<1>1. CASE UNCHANGED vars
  BY <1>1 DEF vars, Typed, TypeOK, LocalInv, Contact
<1>2. CASE Request
  BY <1>2, RequestTyped
<1>3. CASE \E a \in Actors : RefreshStats(a) \/ PollAborts(a)
  BY <1>3, RefreshTyped
<1>4. CASE \E p \in Processors : PromoteScheduledCampaigns(p)
  BY <1>4 DEF PromoteScheduledCampaigns, Typed, TypeOK, LocalInv, Contact, CampaignStatus
<1>5. CASE \E p \in Processors : ClaimRecipients(p)
  BY <1>5, ClaimTyped
<1>6. CASE \E p \in Processors : ProcessorStep(p)
  BY <1>6, ProcessorTyped
<1>7. CASE \E p \in Processors : ProcessingError(p)
  BY <1>7, ErrorTyped
<1>8. CASE \E c \in Contacts : LeaseExpires(c) \/ LeaseOverrun(c)
  <2>1. TypeOK'
    <3>1. PICK c \in Contacts : LeaseExpires(c) \/ LeaseOverrun(c)
      BY <1>8
    <3>2. TypeOK
      BY DEF Typed
    <3>3. excused \cup {c} \in SUBSET Contacts
      BY <3>2 DEF TypeOK
    <3>4. CASE LeaseExpires(c)
      BY <3>2, <3>4 DEF LeaseExpires, TypeOK, Lease
    <3>5. CASE LeaseOverrun(c)
      BY <3>2, <3>3, <3>5 DEF LeaseOverrun, Fault, TypeOK, Lease
    <3> QED
      BY <3>1, <3>4, <3>5
  <2>2. LocalInv'
    BY <1>8 DEF LeaseExpires, LeaseOverrun, Typed, LocalInv, Contact
  <2> QED
    BY <2>1, <2>2 DEF Typed
<1> QED
  BY <1>1, <1>2, <1>3, <1>4, <1>5, <1>6, <1>7, <1>8 DEF Next

-----------------------------------------------------------------------------
(* Outcomes only ever move forward.                                        *)

(* What every step after the launch keeps.                                 *)
Forward ==
    /\ \A c \in Contacts :
         recipient[c] \in Terminal \cup {"NONE"} => recipient'[c] = recipient[c]
    /\ status \in TerminalCampaign => status' = status

LEMMA EndForward ==
    ASSUME TypeOK, NEW s, EndCampaign(s), status \notin TerminalCampaign
    PROVE  Forward
  BY DEF TypeOK, EndCampaign, Forward, Terminal

LEMMA CompleteForward ==
    ASSUME Typed, NEW p \in Processors, CompleteClaim(p)
    PROVE  Forward
<1>1. TypeOK /\ Contact(p) \in Contacts
  BY DEF Typed, LocalInv, CompleteClaim, Contact, Claims, Working
<1> QED
  BY <1>1 DEF TypeOK, CompleteClaim, Current, Contact, Forward, Terminal

LEMMA NextForward ==
    ASSUME Typed, [Next]_vars
    PROVE  Forward \/ Launch
<1>0. TypeOK /\ LocalInv
  BY DEF Typed
<1> USE DEF TerminalCampaign
<1>1. CASE UNCHANGED vars
  BY <1>1 DEF vars, Forward
<1>2. CASE Request
  <2>1. CASE \E r \in Requests : Cancel(r)
    BY <1>0, <2>1, EndForward DEF Cancel
  <2>2. CASE Pause \/ BecomesDue \/ \E r \in Requests : ResumeRead(r) \/ ResumeWrite(r)
    BY <1>0, <2>2 DEF Pause, ResumeRead, ResumeWrite, BecomesDue, Forward
  <2> QED
    BY <1>2, <2>1, <2>2 DEF Request
<1>3. CASE \E a \in Actors : RefreshStats(a) \/ PollAborts(a)
  BY <1>3 DEF RefreshStats, CountRecipients, WriteStats, CompleteCampaign, PollAborts, Forward
<1>4. CASE \E p \in Processors : PromoteScheduledCampaigns(p)
  BY <1>4 DEF PromoteScheduledCampaigns, Forward
<1>5. CASE \E p \in Processors : ClaimRecipients(p)
  BY <1>0, <1>5 DEF ClaimRecipients, Claimable, Forward, TypeOK, Terminal
<1>6. CASE \E p \in Processors : ProcessorStep(p)
  <2>1. PICK p \in Processors : ProcessorStep(p)
    BY <1>6
  <2>2. CASE FailCampaign(p)
    BY <1>0, <2>2, EndForward DEF FailCampaign, Forward
  <2>3. CASE CompleteClaim(p)
    BY <2>3, CompleteForward
  <2>4. CASE \/ NextRecipient(p) \/ LoadRecipient(p) \/ FindExistingMessage(p)
             \/ ReloadCampaign(p) \/ CreateMessage(p) \/ CreateRefused(p)
    BY <2>4 DEF NextRecipient, LoadRecipient, FindExistingMessage, ReloadCampaign,
       CreateMessage, CreateRefused, Forward
  <2> QED
    BY <2>1, <2>2, <2>3, <2>4 DEF ProcessorStep
<1>7. CASE \E p \in Processors : ProcessingError(p)
  BY <1>7 DEF ProcessingError, Forward
<1>8. CASE \E c \in Contacts : LeaseExpires(c) \/ LeaseOverrun(c)
  BY <1>8 DEF LeaseExpires, LeaseOverrun, Forward
<1> QED
  BY <1>1, <1>2, <1>3, <1>4, <1>5, <1>6, <1>7, <1>8 DEF Next

(* Nobody works on a draft.                                                *)
LEMMA NextDraft ==
    ASSUME Typed, DraftInv, [Next]_vars
    PROVE  DraftInv'
<1>0. TypeOK /\ LocalInv
  BY DEF Typed
<1>1. status' = "DRAFT" => status = "DRAFT"
  BY <1>0 DEF Next, vars, Request, Launch, Pause, ResumeRead, ResumeWrite, Cancel, BecomesDue,
     EndCampaign, RefreshStats, CountRecipients, WriteStats, CompleteCampaign, PollAborts,
     PromoteScheduledCampaigns, ClaimRecipients, ProcessorStep, NextRecipient, LoadRecipient,
     FindExistingMessage, FailCampaign, ReloadCampaign, CreateMessage, CreateRefused,
     CompleteClaim, ProcessingError, LeaseExpires, LeaseOverrun, LocalInv
<1>2. CASE status = "DRAFT" /\ status' = "DRAFT"
  <2>1. recipient = NoRecipients /\ \A a \in Actors : pc[a] = "idle"
    BY <1>2 DEF DraftInv
  <2>2. recipient' = recipient /\ pc' = pc
    BY <1>0, <1>2, <2>1, ActorFacts DEF Next, vars, Request, Launch, Pause, ResumeRead,
       ResumeWrite, Cancel, BecomesDue, EndCampaign, RefreshStats, CountRecipients, WriteStats,
       CompleteCampaign, PollAborts, PromoteScheduledCampaigns, ClaimRecipients, Claimable,
       ProcessorStep, NextRecipient, LoadRecipient, FindExistingMessage, FailCampaign,
       ReloadCampaign, CreateMessage, CreateRefused, CompleteClaim, ProcessingError,
       LeaseExpires, LeaseOverrun, NoRecipients
  <2> QED
    BY <2>1, <2>2 DEF DraftInv, NoRecipients
<1> QED
  BY <1>1, <1>2 DEF DraftInv

-----------------------------------------------------------------------------
(* Counting.                                                               *)

LEMMA StillSoForward ==
    ASSUME Forward, NEW r, StillSo(r)
    PROVE  StillSo(r)'
  BY DEF Forward, StillSo

LEMMA DoneForward ==
    ASSUME TypeOK, Forward, ~Unfinished(recipient)
    PROVE  ~Unfinished(recipient')
  BY DEF TypeOK, Forward, Unfinished, RecipientStatus, Terminal

LEMMA StillSoDone ==
    ASSUME NEW r \in [Contacts -> RecipientStatus], StillSo(r), ~Unfinished(r)
    PROVE  ~Unfinished(recipient)
  BY DEF StillSo, Unfinished, RecipientStatus, Terminal

(* A step that neither counts nor writes what was counted.                 *)
LEMMA CountFrame ==
    ASSUME TypeOK, CountInv, CompletedMeansDone, Forward,
           stats' = stats,
           \A a \in Actors : pc'[a] \in {"stats", "finish"} =>
               pc'[a] = pc[a] /\ counted'[a] = counted[a],
           status' = "COMPLETED" => status = "COMPLETED"
    PROVE  CountInv' /\ CompletedMeansDone'
<1>1. \A a \in Actors : pc'[a] = "stats" => StillSo(counted[a])'
  BY StillSoForward DEF CountInv, StillSo, Forward
<1>2. \A a \in Actors : pc'[a] = "finish" => ~Unfinished(recipient')
  BY DoneForward DEF CountInv
<1>3. StatsNeverAhead'
  BY DEF CountInv, StatsNeverAhead, Forward, Terminal
<1>4. CompletedMeansDone'
  BY DoneForward DEF CompletedMeansDone
<1>5. \A a \in Actors : pc'[a] = "finish" => ~Unfinished(recipient)'
  BY <1>2
<1> QED
  BY <1>1, <1>3, <1>4, <1>5 DEF CountInv, StillSo

LEMMA RefreshCounts ==
    ASSUME Typed, CountInv, CompletedMeansDone, NEW a \in Actors, RefreshStats(a)
    PROVE  CountInv' /\ CompletedMeansDone'
<1>0. TypeOK /\ recipient' = recipient
  BY DEF Typed, RefreshStats, CountRecipients, WriteStats, CompleteCampaign
<1>1. CASE CountRecipients(a)
  BY <1>0, <1>1 DEF CountRecipients, Goto, TypeOK, CountInv, CompletedMeansDone, StillSo,
     StatsNeverAhead, Unfinished
<1>2. CASE WriteStats(a)
  <2>1. StillSo(counted[a]) /\ counted[a] \in [Contacts -> RecipientStatus]
    BY <1>0, <1>2 DEF WriteStats, CountInv, TypeOK
  <2>2. ~Unfinished(counted[a]) => ~Unfinished(recipient)
    BY <2>1, StillSoDone
  <2>3. \A b \in Actors : pc'[b] = "stats" => StillSo(counted[b])'
    BY <1>0, <1>2 DEF WriteStats, Goto, TypeOK, CountInv, StillSo
  <2>4. \A b \in Actors : pc'[b] = "finish" => ~Unfinished(recipient)
    BY <1>0, <1>2, <2>2 DEF WriteStats, Goto, TypeOK, CountInv
  <2>5. StatsNeverAhead'
    BY <1>0, <1>2, <2>1 DEF WriteStats, StatsNeverAhead, StillSo
  <2> QED
    BY <1>0, <1>2, <2>3, <2>4, <2>5 DEF WriteStats, CountInv, CompletedMeansDone, Unfinished
<1>3. CASE CompleteCampaign(a)
  <2>1. ~Unfinished(recipient)
    BY <1>3 DEF CompleteCampaign, CountInv
  <2> QED
    BY <1>0, <1>3, <2>1 DEF CompleteCampaign, Goto, TypeOK, CountInv, CompletedMeansDone,
       StillSo, StatsNeverAhead, Unfinished
<1> QED
  BY <1>1, <1>2, <1>3 DEF RefreshStats

LEMMA LaunchCounts ==
    ASSUME Typed, DraftInv, CountInv, Launch
    PROVE  CountInv' /\ CompletedMeansDone'
<1>1. /\ recipient = NoRecipients /\ \A a \in Actors : pc'[a] = "idle"
      /\ stats' = stats
  BY DEF Launch, DraftInv
<1>2. \A c \in Contacts : stats[c] \notin Terminal
  BY <1>1 DEF CountInv, StatsNeverAhead, NoRecipients, Terminal
<1>3. CompletedMeansDone'
  BY DEF Launch, CompletedMeansDone, Unfinished
<1> QED
  BY <1>1, <1>2, <1>3 DEF CountInv, StatsNeverAhead

LEMMA NextCounts ==
    ASSUME Typed, DraftInv, CountInv, CompletedMeansDone, [Next]_vars
    PROVE  CountInv' /\ CompletedMeansDone'
<1>0. TypeOK /\ LocalInv
  BY DEF Typed
<1>1. CASE Launch
  BY <1>1, LaunchCounts
<1>2. CASE \E a \in Actors : RefreshStats(a)
  BY <1>2, RefreshCounts
<1>3. CASE ~Launch /\ ~(\E a \in Actors : RefreshStats(a))
  <2>1. Forward
    BY <1>3, NextForward
  <2>2. CASE UNCHANGED vars
    BY <1>0, <2>1, <2>2, CountFrame DEF vars
  <2>3. CASE \/ Pause \/ BecomesDue
             \/ \E r \in Requests : ResumeRead(r) \/ ResumeWrite(r) \/ Cancel(r)
    <3>1. stats' = stats /\ counted' = counted
      BY <2>3 DEF Pause, ResumeRead, ResumeWrite, Cancel, BecomesDue
    <3>2. \A a \in Actors : pc'[a] \in {"stats", "finish"} => pc'[a] = pc[a]
      BY <1>0, <2>3 DEF Pause, ResumeRead, ResumeWrite, Cancel, BecomesDue, Goto, TypeOK
    <3>3. status' = "COMPLETED" => status = "COMPLETED"
      BY <1>0, <2>3 DEF Pause, ResumeRead, ResumeWrite, Cancel, BecomesDue, EndCampaign, LocalInv
    <3> QED
      BY <1>0, <2>1, <3>1, <3>2, <3>3, CountFrame
  <2>4. CASE \E a \in Actors : PollAborts(a)
    <3>1. \A a \in Actors : pc'[a] \in {"stats", "finish"} =>
              pc'[a] = pc[a] /\ counted'[a] = counted[a]
      BY <1>0, <2>4 DEF PollAborts, Goto, TypeOK
    <3> QED
      BY <1>0, <2>1, <2>4, <3>1, CountFrame DEF PollAborts
  <2>5. CASE \E p \in Processors : \/ PromoteScheduledCampaigns(p) \/ ClaimRecipients(p)
                                   \/ ProcessorStep(p) \/ ProcessingError(p)
    <3>1. PICK p \in Processors : \/ PromoteScheduledCampaigns(p) \/ ClaimRecipients(p)
                                  \/ ProcessorStep(p) \/ ProcessingError(p)
      BY <2>5
    <3>2. stats' = stats /\ counted' = counted
      BY <3>1 DEF PromoteScheduledCampaigns, ClaimRecipients, ProcessorStep, ProcessingError,
         NextRecipient, LoadRecipient, FindExistingMessage, FailCampaign, ReloadCampaign,
         CreateMessage, CreateRefused, CompleteClaim
    <3>3. \A a \in Actors : pc'[a] \in {"stats", "finish"} => pc'[a] = pc[a]
      BY <1>0, <3>1 DEF PromoteScheduledCampaigns, ClaimRecipients, ProcessorStep,
         ProcessingError, NextRecipient, LoadRecipient, FindExistingMessage, FailCampaign,
         ReloadCampaign, CreateMessage, CreateRefused, CompleteClaim, ToComplete, Goto, TypeOK
    <3>4. status' = "COMPLETED" => status = "COMPLETED"
      BY <3>1 DEF PromoteScheduledCampaigns, ClaimRecipients, ProcessorStep, ProcessingError,
         NextRecipient, LoadRecipient, FindExistingMessage, FailCampaign, EndCampaign,
         ReloadCampaign, CreateMessage, CreateRefused, CompleteClaim
    <3> QED
      BY <1>0, <2>1, <3>2, <3>3, <3>4, CountFrame
  <2>6. CASE \E c \in Contacts : LeaseExpires(c) \/ LeaseOverrun(c)
    BY <1>0, <2>1, <2>6, CountFrame DEF LeaseExpires, LeaseOverrun
  <2> QED
    BY <1>3, <2>2, <2>3, <2>4, <2>5, <2>6 DEF Next, Request
<1> QED
  BY <1>1, <1>2, <1>3

LEMMA InitCounts == Init => DraftInv /\ CountInv /\ CompletedMeansDone
  BY DEF Init, DraftInv, CountInv, CompletedMeansDone, StatsNeverAhead, NoRecipients, Terminal

(* A COMPLETED campaign has no recipient without an outcome                *)
(* (CompletedMeansDone), and the counters never run ahead of the           *)
(* recipients (StatsNeverAhead), however the awaits of refreshStats in     *)
(* several replicas interleave with claims, cancellations and crashes.     *)
THEOREM CompletionIsSound == Spec => [](CompletedMeansDone /\ StatsNeverAhead)
<1> DEFINE I == Typed /\ DraftInv /\ CountInv /\ CompletedMeansDone
<1>1. Init => I
  BY InitTyped, InitCounts
<1>2. I /\ [Next]_vars => I'
  BY NextTyped, NextDraft, NextCounts
<1>3. I => CompletedMeansDone /\ StatsNeverAhead
  BY DEF CountInv
<1> HIDE DEF I
<1> QED
  BY <1>1, <1>2, <1>3, PTL DEF Spec

(* No late write changes the outcome of a recipient or of the campaign     *)
(* (OutcomesAreFinal).                                                     *)
THEOREM OutcomesFinal == Spec => OutcomesAreFinal
<1> DEFINE I == Typed /\ DraftInv
<1>1. Init => I
  BY InitTyped, InitCounts
<1>2. I /\ [Next]_vars => I'
  BY NextTyped, NextDraft
<1>3. I /\ [Next]_vars =>
        [/\ status \in TerminalCampaign => status' = status
         /\ \A c \in Contacts : recipient[c] \in Terminal => recipient'[c] = recipient[c]]_vars
  <2> SUFFICES ASSUME I, [Next]_vars
               PROVE  /\ status \in TerminalCampaign => status' = status
                      /\ \A c \in Contacts :
                           recipient[c] \in Terminal => recipient'[c] = recipient[c]
    OBVIOUS
  <2>1. CASE Forward
    BY <2>1 DEF Forward
  <2>2. CASE Launch
    BY <2>2 DEF Launch, DraftInv, NoRecipients, Terminal, TerminalCampaign
  <2> QED
    BY <2>1, <2>2, NextForward
<1> HIDE DEF I
<1> QED
  BY <1>1, <1>2, <1>3, PTL DEF Spec, OutcomesAreFinal

-----------------------------------------------------------------------------
(* Claims and messages.                                                    *)

LEMMA HeldFacts ==
    ASSUME Typed, NEW p \in Processors, NEW k \in Held(p)
    PROVE  /\ k \in Claims /\ k.contact \in Contacts /\ k.attempt \in Nat
           /\ k = [contact |-> k.contact, attempt |-> k.attempt]
<1>1. k \in Claims
  BY ActorFacts DEF Typed, TypeOK, LocalInv, Held
<1> QED
  BY <1>1 DEF Claims

LEMMA InHand ==
    ASSUME Typed, NEW p \in Processors, pc[p] \in Working
    PROVE  claim[p] \in Held(p) /\ Contact(p) \in Contacts /\ Contact(p) = claim[p].contact
  BY DEF Typed, LocalInv, Held, Contact, Claims

(* Two unharmed claims on one contact are the same claim of one replica.   *)
LEMMA SameClaim ==
    ASSUME Typed, ClaimInv, NEW p \in Processors, NEW q \in Processors,
           NEW j \in Held(p), NEW k \in Held(q),
           j.contact = k.contact, j.contact \notin excused
    PROVE  p = q /\ j = k
<1>1. Current(j) /\ Current(k)
  BY DEF ClaimInv
<1>2. j = k
  BY <1>1, HeldFacts DEF Current
<1> QED
  BY <1>2 DEF ClaimInv

(* Nobody acquires a claim, and rows that are being processed stay so.     *)
LEMMA ClaimFrame ==
    ASSUME Typed, ClaimInv,
           \A p \in Processors : Held(p)' \subseteq Held(p),
           attempts' = attempts, excused \subseteq excused',
           \A c \in Contacts : recipient[c] = "PROCESSING" /\ lease[c] = "live" /\ c \notin excused'
               => recipient'[c] = "PROCESSING" /\ lease'[c] = "live"
    PROVE  ClaimInv'
<1> SUFFICES ASSUME NEW p \in Processors, NEW k \in Held(p)'
             PROVE  /\ k.attempt <= attempts'[k.contact]
                    /\ k.contact \notin excused' => Current(k)' /\ lease'[k.contact] = "live"
                    /\ \A q \in Processors : k \in Held(q)' => q = p
  BY DEF ClaimInv
<1>1. k \in Held(p) /\ k.contact \in Contacts
  BY HeldFacts
<1> QED
  BY <1>1 DEF ClaimInv, Current

(* The same when no replica changes what it holds.                         *)
LEMMA HeldSame ==
    ASSUME Typed, NEW p \in Processors, UNCHANGED <<batch, claim>>,
           \A q \in Processors \ {p} : pc'[q] = pc[q],
           pc'[p] \in Working => pc[p] \in Working
    PROVE  \A q \in Processors : Held(q)' \subseteq Held(q)
  BY DEF Held

LEMMA EndKeepsWork ==
    ASSUME TypeOK, NEW s, EndCampaign(s)
    PROVE  /\ attempts' = attempts
           /\ \A c \in Contacts : recipient[c] # "PENDING" =>
                recipient'[c] = recipient[c] /\ lease'[c] = lease[c]
           /\ \A c \in Contacts : recipient[c] = "PENDING" => recipient'[c] = s
  BY DEF TypeOK, EndCampaign

LEMMA ClaimClaims ==
    ASSUME Typed, ClaimInv, NEW p \in Processors, ClaimRecipients(p)
    PROVE  ClaimInv'
<1>0. TypeOK /\ p \in Actors
  BY ActorFacts DEF Typed
<1>1. PICK S \in SUBSET {c \in Contacts : Claimable(c)} :
         /\ recipient' = [c \in Contacts |-> IF c \in S THEN "PROCESSING" ELSE recipient[c]]
         /\ attempts' = [c \in Contacts |-> IF c \in S THEN attempts[c] + 1 ELSE attempts[c]]
         /\ lease' = [c \in Contacts |-> IF c \in S THEN "live" ELSE lease[c]]
         /\ batch' = [batch EXCEPT ![p] =
                        {[contact |-> c, attempt |-> attempts[c] + 1] : c \in S}]
  BY DEF ClaimRecipients
<1>2. Held(p)' = {[contact |-> c, attempt |-> attempts[c] + 1] : c \in S}
  BY <1>0, <1>1 DEF ClaimRecipients, Goto, Held, TypeOK, Working
<1>3. \A q \in Processors \ {p} : Held(q)' = Held(q)
  BY <1>0, <1>1, ActorFacts DEF ClaimRecipients, Goto, Held, TypeOK
<1>4. excused' = excused
  BY DEF ClaimRecipients
<1>5. ASSUME NEW k \in Held(p)'
      PROVE  /\ k.attempt <= attempts'[k.contact]
             /\ Current(k)' /\ lease'[k.contact] = "live"
             /\ \A q \in Processors \ {p} : k \notin Held(q)
  <2>1. PICK c \in S : k = [contact |-> c, attempt |-> attempts[c] + 1]
    BY <1>2, <1>5
  <2>2. c \in Contacts /\ attempts[c] \in Nat
    BY <1>0, <2>1 DEF TypeOK
  <2>3. \A q \in Processors : k \notin Held(q)
    BY <2>1, <2>2 DEF ClaimInv
  <2> QED
    BY <1>1, <2>1, <2>2, <2>3 DEF Current
<1>6. ASSUME NEW q \in Processors \ {p}, NEW k \in Held(q)
      PROVE  /\ k.attempt <= attempts'[k.contact]
             /\ k.contact \notin excused => Current(k)' /\ lease'[k.contact] = "live"
  <2>1. k.contact \in Contacts /\ k.attempt \in Nat /\ attempts[k.contact] \in Nat
    BY <1>0, HeldFacts DEF TypeOK
  <2>2. k.attempt <= attempts'[k.contact]
    BY <1>1, <2>1 DEF ClaimInv
  <2>3. ASSUME k.contact \notin excused
        PROVE  Current(k)' /\ lease'[k.contact] = "live"
    <3>1. Current(k) /\ lease[k.contact] = "live"
      BY <2>3 DEF ClaimInv
    <3>2. k.contact \notin S
      BY <3>1 DEF Claimable, Current
    <3> QED
      BY <1>1, <2>1, <3>1, <3>2 DEF Current
  <2> QED
    BY <2>2, <2>3
<1> QED
  BY <1>3, <1>4, <1>5, <1>6 DEF ClaimInv

LEMMA CompleteClaims ==
    ASSUME Typed, ClaimInv, NEW p \in Processors, CompleteClaim(p)
    PROVE  ClaimInv'
<1>0. /\ TypeOK /\ LocalInv /\ p \in Actors /\ pc[p] \in Working
      /\ claim[p] \in Held(p) /\ Contact(p) \in Contacts /\ Contact(p) = claim[p].contact
  BY ActorFacts, InHand DEF Typed, CompleteClaim, Working
<1>1. Held(p)' = batch[p] /\ claim[p] \notin batch[p] /\ batch[p] \subseteq Held(p)
  BY <1>0 DEF CompleteClaim, Goto, Held, LocalInv, TypeOK, Working
<1>2. \A q \in Processors \ {p} : Held(q)' = Held(q)
  BY <1>0, ActorFacts DEF CompleteClaim, Goto, Held, TypeOK
<1>3. /\ attempts' = attempts /\ excused' = excused
      /\ \A c \in Contacts \ {Contact(p)} : recipient'[c] = recipient[c] /\ lease'[c] = lease[c]
  BY <1>0 DEF CompleteClaim, TypeOK
<1> SUFFICES ASSUME NEW q \in Processors, NEW k \in Held(q)'
             PROVE  /\ k.attempt <= attempts'[k.contact]
                    /\ k.contact \notin excused' => Current(k)' /\ lease'[k.contact] = "live"
                    /\ \A r \in Processors : k \in Held(r)' => r = q
  BY DEF ClaimInv
<1>4. k \in Held(q) /\ k.contact \in Contacts
  BY <1>1, <1>2, HeldFacts
<1>5. \A r \in Processors : k \in Held(r)' => r = q
  BY <1>1, <1>2, <1>4 DEF ClaimInv
<1>6. ASSUME k.contact \notin excused
      PROVE  Current(k)' /\ lease'[k.contact] = "live"
  <2>1. k.contact # Contact(p)
    BY <1>0, <1>1, <1>4, <1>6, SameClaim
  <2> QED
    BY <1>3, <1>4, <1>6, <2>1 DEF ClaimInv, Current
<1> QED
  BY <1>3, <1>4, <1>5, <1>6 DEF ClaimInv

LEMMA NextClaims ==
    ASSUME Typed, DraftInv, ClaimInv, [Next]_vars
    PROVE  ClaimInv'
<1>0. TypeOK /\ LocalInv
  BY DEF Typed
<1>1. CASE UNCHANGED vars
  BY <1>1, ClaimFrame DEF vars, Held
<1>2. CASE Request
  <2>1. \A q \in Processors : Held(q)' \subseteq Held(q)
    BY <1>0, <1>2, ActorFacts DEF Request, Launch, Pause, ResumeRead, ResumeWrite, Cancel,
       BecomesDue, Goto, Held, TypeOK
  <2>2. attempts' = attempts /\ excused' = excused
    BY <1>2 DEF Request, Launch, Pause, ResumeRead, ResumeWrite, Cancel, BecomesDue, EndCampaign
  <2>3. \A c \in Contacts : recipient[c] = "PROCESSING" =>
            recipient'[c] = "PROCESSING" /\ lease'[c] = lease[c]
    BY <1>0, <1>2, EndKeepsWork DEF Request, Launch, Pause, ResumeRead, ResumeWrite, Cancel,
       BecomesDue, DraftInv, NoRecipients
  <2> QED
    BY <2>1, <2>2, <2>3, ClaimFrame
<1>3. CASE \E a \in Actors : RefreshStats(a) \/ PollAborts(a)
  <2>1. \A q \in Processors : Held(q)' \subseteq Held(q)
    BY <1>0, <1>3, ActorFacts DEF RefreshStats, CountRecipients, WriteStats, CompleteCampaign,
       PollAborts, Goto, Held, TypeOK, Working
  <2> QED
    BY <1>3, <2>1, ClaimFrame DEF RefreshStats, CountRecipients, WriteStats, CompleteCampaign,
       PollAborts
<1>4. CASE \E p \in Processors : PromoteScheduledCampaigns(p)
  BY <1>4, ClaimFrame DEF PromoteScheduledCampaigns, Held
<1>5. CASE \E p \in Processors : ClaimRecipients(p)
  BY <1>5, ClaimClaims
<1>6. CASE \E p \in Processors : ProcessorStep(p)
  <2>1. PICK p \in Processors : ProcessorStep(p)
    BY <1>6
  <2>2. CASE NextRecipient(p)
    <3>1. \A q \in Processors : Held(q)' \subseteq Held(q)
      BY <1>0, <2>2, ActorFacts DEF NextRecipient, Goto, Held, TypeOK, Working
    <3> QED
      BY <2>2, <3>1, ClaimFrame DEF NextRecipient
  <2>3. CASE CompleteClaim(p)
    BY <2>3, CompleteClaims
  <2>4. CASE FailCampaign(p)
    <3>1. \A q \in Processors : Held(q)' \subseteq Held(q)
      BY <1>0, <2>4, ActorFacts, HeldSame DEF FailCampaign, ToComplete, Goto, TypeOK, Working
    <3>2. /\ attempts' = attempts
          /\ \A c \in Contacts : recipient[c] = "PROCESSING" =>
               recipient'[c] = "PROCESSING" /\ lease'[c] = lease[c]
      BY <1>0, <2>4, EndKeepsWork DEF FailCampaign
    <3> QED
      BY <2>4, <3>1, <3>2, ClaimFrame DEF FailCampaign
  <2>5. CASE \/ LoadRecipient(p) \/ FindExistingMessage(p) \/ ReloadCampaign(p)
             \/ CreateMessage(p) \/ CreateRefused(p)
    <3>1. \A q \in Processors : Held(q)' \subseteq Held(q)
      BY <1>0, <2>5, ActorFacts, HeldSame DEF LoadRecipient, FindExistingMessage,
         ReloadCampaign, CreateMessage, CreateRefused, ToComplete, Goto, TypeOK, Working
    <3> QED
      BY <2>5, <3>1, ClaimFrame DEF LoadRecipient, FindExistingMessage, ReloadCampaign,
         CreateMessage, CreateRefused
  <2> QED
    BY <2>1, <2>2, <2>3, <2>4, <2>5 DEF ProcessorStep
<1>7. CASE \E p \in Processors : ProcessingError(p)
  <2>1. PICK p \in Processors : ProcessingError(p)
    BY <1>7
  <2>2. \A q \in Processors : Held(q)' \subseteq Held(q)
    BY <1>0, <2>1, ActorFacts, HeldSame DEF ProcessingError, ToComplete, Goto, TypeOK, Working
  <2> QED
    BY <2>1, <2>2, ClaimFrame DEF ProcessingError
<1>8. CASE \E c \in Contacts : LeaseExpires(c) \/ LeaseOverrun(c)
  <2>1. PICK c \in Contacts : LeaseExpires(c) \/ LeaseOverrun(c)
    BY <1>8
  <2>2. CASE LeaseOverrun(c)
    <3>1. \A q \in Processors : Held(q)' \subseteq Held(q)
      BY <2>2 DEF LeaseOverrun, Held
    <3> QED
      BY <1>0, <2>2, <3>1, ClaimFrame DEF LeaseOverrun, TypeOK
  <2>3. CASE LeaseExpires(c)
    <3>1. \A p \in Processors : \A k \in Held(p) : k.contact = c => ~Current(k)
      BY <2>3 DEF LeaseExpires, HasHolder
    <3>2. \A p \in Processors : \A k \in Held(p) : k.contact \in Contacts
      BY HeldFacts
    <3> QED
      BY <1>0, <2>3, <3>1, <3>2 DEF LeaseExpires, ClaimInv, Current, Held, TypeOK
  <2> QED
    BY <2>1, <2>2, <2>3
<1> QED
  BY <1>1, <1>2, <1>3, <1>4, <1>5, <1>6, <1>7, <1>8 DEF Next

(* The messages.                                                           *)
Deciding == {"fail", "reload", "create", "complete"}

LEMMA DecidingFrame ==
    ASSUME MessageInv, message' = message, excused \subseteq excused',
           \A q \in Processors : pc'[q] \in Deciding =>
               pc'[q] = pc[q] /\ claim'[q] = claim[q] /\ outcome'[q] = outcome[q]
    PROVE  MessageInv'
  BY DEF MessageInv, Contact, Deciding

LEMMA AccountFrame ==
    ASSUME MessageIsAccounted, QueuedHasMessage, message' = message, excused \subseteq excused',
           \A c \in Contacts :
               /\ recipient[c] \in {"PROCESSING", "QUEUED"} =>
                    recipient'[c] \in {"PROCESSING", "QUEUED"}
               /\ recipient'[c] = "QUEUED" => recipient[c] = "QUEUED"
    PROVE  (MessageIsAccounted /\ QueuedHasMessage)'
  BY DEF MessageIsAccounted, QueuedHasMessage

(* One processor decides; what it decides respects the message.            *)
LEMMA DecisionFrame ==
    ASSUME Typed, MessageInv, NEW p \in Processors, claim' = claim, message' = message,
           excused' = excused,
           \A q \in Processors \ {p} : pc'[q] = pc[q] /\ outcome'[q] = outcome[q],
           message[Contact(p)] =>
               \/ Contact(p) \in excused
               \/ pc'[p] \notin Deciding
               \/ pc'[p] = "complete" /\ outcome'[p] = "QUEUED"
    PROVE  MessageInv'
  BY DEF MessageInv, Contact, Deciding

LEMMA DecisionMessages ==
    ASSUME Typed, MessageInv, NEW p \in Processors,
           \/ LoadRecipient(p) \/ FindExistingMessage(p) \/ FailCampaign(p)
           \/ ReloadCampaign(p) \/ CreateRefused(p)
    PROVE  MessageInv'
<1>0. /\ TypeOK /\ p \in Actors /\ pc[p] \in Working /\ Contact(p) \in Contacts
      /\ claim' = claim /\ message' = message /\ excused' = excused
      /\ \A q \in Processors \ {p} : pc'[q] = pc[q] /\ outcome'[q] = outcome[q]
  <2>1. TypeOK /\ p \in Actors
    BY ActorFacts DEF Typed
  <2>2. pc[p] \in Working /\ claim' = claim /\ message' = message /\ excused' = excused
    BY DEF LoadRecipient, FindExistingMessage, FailCampaign, ReloadCampaign, CreateRefused, Working
  <2>3. \A q \in Processors \ {p} : pc'[q] = pc[q] /\ outcome'[q] = outcome[q]
    BY <2>1, ActorFacts DEF LoadRecipient, FindExistingMessage, FailCampaign, ReloadCampaign,
       CreateRefused, ToComplete, Goto, TypeOK
  <2> QED
    BY <2>1, <2>2, <2>3, InHand
<1>1. CASE LoadRecipient(p)
  BY <1>0, <1>1, DecisionFrame DEF LoadRecipient, Goto, TypeOK, Deciding
<1>2. CASE FindExistingMessage(p)
  <2>1. message[Contact(p)] => pc'[p] = "complete" /\ outcome'[p] = "QUEUED"
    BY <1>0, <1>2 DEF FindExistingMessage, ToComplete, Goto, TypeOK
  <2> QED
    BY <1>0, <2>1, DecisionFrame
<1>3. CASE FailCampaign(p) \/ ReloadCampaign(p) \/ CreateRefused(p)
  <2>1. message[Contact(p)] => Contact(p) \in excused
    BY <1>3 DEF FailCampaign, ReloadCampaign, CreateRefused, MessageInv
  <2> QED
    BY <1>0, <2>1, DecisionFrame
<1> QED
  BY <1>1, <1>2, <1>3

(* A message is created by the only unharmed claim on the contact.         *)
LEMMA CreateMessages ==
    ASSUME Typed, ClaimInv, MessageInv, MessageIsAccounted, QueuedHasMessage,
           NEW p \in Processors, CreateMessage(p)
    PROVE  (MessageInv /\ MessageIsAccounted /\ QueuedHasMessage)'
<1>0. /\ TypeOK /\ p \in Actors /\ pc[p] \in Working
      /\ claim[p] \in Held(p) /\ Contact(p) \in Contacts /\ Contact(p) = claim[p].contact
  BY ActorFacts, InHand DEF Typed, CreateMessage, Working
<1>1. /\ claim' = claim /\ excused' = excused /\ recipient' = recipient
      /\ pc'[p] = "complete" /\ outcome'[p] = "QUEUED"
      /\ \A q \in Processors \ {p} : pc'[q] = pc[q] /\ outcome'[q] = outcome[q]
      /\ message'[Contact(p)]
      /\ \A c \in Contacts \ {Contact(p)} : message'[c] = message[c]
  BY <1>0, ActorFacts DEF CreateMessage, ToComplete, Goto, TypeOK
<1>2. ASSUME NEW q \in Processors \ {p}, pc[q] \in Deciding, Contact(q) = Contact(p)
      PROVE  Contact(p) \in excused
  <2>1. claim[q] \in Held(q) /\ Contact(q) = claim[q].contact
    BY <1>2, InHand DEF Deciding, Working
  <2> QED
    BY <1>0, <1>2, <2>1, SameClaim
<1>3. \A q \in Processors : pc[q] \in Deciding => Contact(q) \in Contacts
  BY InHand DEF Deciding, Working
<1>4. MessageInv'
  BY <1>1, <1>2, <1>3 DEF MessageInv, Contact, Deciding
<1>5. Contact(p) \notin excused => recipient[Contact(p)] = "PROCESSING"
  BY <1>0 DEF ClaimInv, Current
<1>6. MessageIsAccounted' /\ QueuedHasMessage'
  BY <1>1, <1>5 DEF MessageIsAccounted, QueuedHasMessage
<1> QED
  BY <1>4, <1>6

LEMMA CompleteMessages ==
    ASSUME Typed, MessageInv, MessageIsAccounted, QueuedHasMessage,
           NEW p \in Processors, CompleteClaim(p)
    PROVE  (MessageInv /\ MessageIsAccounted /\ QueuedHasMessage)'
<1>0. /\ TypeOK /\ LocalInv /\ p \in Actors /\ Contact(p) \in Contacts /\ pc[p] = "complete"
  BY ActorFacts, InHand DEF Typed, CompleteClaim, Working
<1>1. MessageInv'
  <2>1. /\ claim' = claim /\ message' = message /\ excused' = excused /\ pc'[p] = "next"
        /\ \A q \in Processors \ {p} : pc'[q] = pc[q] /\ outcome'[q] = outcome[q]
    BY <1>0, ActorFacts DEF CompleteClaim, Goto, TypeOK
  <2> QED
    BY <2>1, DecisionFrame DEF Deciding
<1>2. /\ message' = message /\ excused' = excused
      /\ \A c \in Contacts \ {Contact(p)} : recipient'[c] = recipient[c]
      /\ recipient'[Contact(p)] \in {recipient[Contact(p)], outcome[p]}
  BY <1>0 DEF CompleteClaim, TypeOK
<1>3. /\ message[Contact(p)] => outcome[p] = "QUEUED" \/ Contact(p) \in excused
      /\ outcome[p] = "QUEUED" => message[Contact(p)]
  BY <1>0 DEF MessageInv, LocalInv
<1>4. MessageIsAccounted' /\ QueuedHasMessage'
  BY <1>2, <1>3 DEF MessageIsAccounted, QueuedHasMessage
<1> QED
  BY <1>1, <1>4

LEMMA ErrorMessages ==
    ASSUME Typed, MessageInv, MessageIsAccounted, QueuedHasMessage,
           NEW p \in Processors, ProcessingError(p)
    PROVE  (MessageInv /\ MessageIsAccounted /\ QueuedHasMessage)'
<1>0. /\ TypeOK /\ p \in Actors /\ Contact(p) \in Contacts
  BY ActorFacts, InHand DEF Typed, ProcessingError, Working
<1>1. /\ claim' = claim /\ recipient' = recipient
      /\ excused' = excused \cup {Contact(p)}
      /\ \A q \in Processors \ {p} : pc'[q] = pc[q] /\ outcome'[q] = outcome[q]
      /\ \A c \in Contacts \ {Contact(p)} : message'[c] = message[c]
      /\ message[Contact(p)] => message'[Contact(p)]
  BY <1>0, ActorFacts DEF ProcessingError, ToComplete, Goto, TypeOK
<1>2. \A q \in Processors : pc[q] \in Deciding => Contact(q) \in Contacts
  BY InHand DEF Deciding, Working
<1>3. MessageInv'
  BY <1>1, <1>2 DEF MessageInv, Contact, Deciding
<1>4. MessageIsAccounted' /\ QueuedHasMessage'
  BY <1>1 DEF MessageIsAccounted, QueuedHasMessage
<1> QED
  BY <1>3, <1>4

LEMMA NextMessages ==
    ASSUME Typed, DraftInv, ClaimInv, MessageInv, MessageIsAccounted, QueuedHasMessage,
           [Next]_vars
    PROVE  (MessageInv /\ MessageIsAccounted /\ QueuedHasMessage)'
<1>0. TypeOK /\ LocalInv
  BY DEF Typed
<1>1. CASE UNCHANGED vars
  BY <1>1, DecidingFrame, AccountFrame DEF vars
<1>2. CASE Request
  <2>1. /\ message' = message /\ excused' = excused /\ claim' = claim
        /\ \A q \in Processors : pc'[q] = pc[q] /\ outcome'[q] = outcome[q]
    BY <1>0, <1>2, ActorFacts DEF Request, Launch, Pause, ResumeRead, ResumeWrite, Cancel,
       BecomesDue, Goto, TypeOK
  <2>2. \A c \in Contacts :
           /\ recipient[c] \in {"PROCESSING", "QUEUED"} => recipient'[c] = recipient[c]
           /\ recipient'[c] = "QUEUED" => recipient[c] = "QUEUED"
    BY <1>0, <1>2, EndKeepsWork DEF Request, Launch, Pause, ResumeRead, ResumeWrite, Cancel,
       BecomesDue, DraftInv, NoRecipients
  <2> QED
    BY <2>1, <2>2, DecidingFrame, AccountFrame
<1>3. CASE \E a \in Actors : RefreshStats(a) \/ PollAborts(a)
  <2>1. /\ message' = message /\ excused' = excused /\ recipient' = recipient
        /\ \A q \in Processors : pc'[q] \in Deciding =>
             pc'[q] = pc[q] /\ claim'[q] = claim[q] /\ outcome'[q] = outcome[q]
    BY <1>0, <1>3, ActorFacts DEF RefreshStats, CountRecipients, WriteStats, CompleteCampaign,
       PollAborts, Goto, TypeOK, Deciding
  <2> QED
    BY <2>1, DecidingFrame, AccountFrame
<1>4. CASE \E p \in Processors : PromoteScheduledCampaigns(p)
  BY <1>4, DecidingFrame, AccountFrame DEF PromoteScheduledCampaigns
<1>5. CASE \E p \in Processors : ClaimRecipients(p)
  <2>1. \A q \in Processors : pc'[q] \in Deciding => pc'[q] = pc[q]
    BY <1>0, <1>5, ActorFacts DEF ClaimRecipients, Goto, TypeOK, Deciding
  <2>2. \A c \in Contacts : recipient'[c] \in {recipient[c], "PROCESSING"}
    BY <1>0, <1>5 DEF ClaimRecipients, TypeOK
  <2> QED
    BY <1>5, <2>1, <2>2, DecidingFrame, AccountFrame DEF ClaimRecipients
<1>6. CASE \E p \in Processors : ProcessorStep(p)
  <2>1. PICK p \in Processors : ProcessorStep(p)
    BY <1>6
  <2>2. CASE NextRecipient(p)
    <3>1. \A q \in Processors : pc'[q] \in Deciding =>
             pc'[q] = pc[q] /\ claim'[q] = claim[q] /\ outcome'[q] = outcome[q]
      BY <1>0, <2>2, ActorFacts DEF NextRecipient, Goto, TypeOK, Deciding
    <3> QED
      BY <2>2, <3>1, DecidingFrame, AccountFrame DEF NextRecipient
  <2>3. CASE CreateMessage(p)
    BY <2>3, CreateMessages
  <2>4. CASE CompleteClaim(p)
    BY <2>4, CompleteMessages
  <2>5. CASE \/ LoadRecipient(p) \/ FindExistingMessage(p) \/ FailCampaign(p)
             \/ ReloadCampaign(p) \/ CreateRefused(p)
    <3>1. /\ message' = message /\ excused' = excused
          /\ \A c \in Contacts :
               /\ recipient[c] \in {"PROCESSING", "QUEUED"} => recipient'[c] = recipient[c]
               /\ recipient'[c] = "QUEUED" => recipient[c] = "QUEUED"
      BY <1>0, <2>5, EndKeepsWork DEF LoadRecipient, FindExistingMessage, FailCampaign,
         ReloadCampaign, CreateRefused
    <3> QED
      BY <2>5, <3>1, DecisionMessages, AccountFrame
  <2> QED
    BY <2>1, <2>2, <2>3, <2>4, <2>5 DEF ProcessorStep
<1>7. CASE \E p \in Processors : ProcessingError(p)
  BY <1>7, ErrorMessages
<1>8. CASE \E c \in Contacts : LeaseExpires(c) \/ LeaseOverrun(c)
  BY <1>8, DecidingFrame, AccountFrame DEF LeaseExpires, LeaseOverrun
<1> QED
  BY <1>1, <1>2, <1>3, <1>4, <1>5, <1>6, <1>7, <1>8 DEF Next

LEMMA InitMessages ==
    Init => ClaimInv /\ MessageInv /\ MessageIsAccounted /\ QueuedHasMessage
  BY ActorFacts DEF Init, ClaimInv, Held, Working, MessageInv, MessageIsAccounted,
     QueuedHasMessage, NoRecipients

(* A committed message is never reported as skipped, failed, cancelled or  *)
(* pending unless a fault hit its recipient (MessageIsAccounted), and      *)
(* QUEUED is only reported for a message that exists (QueuedHasMessage),   *)
(* for any number of replicas that claim, crash and reclaim.               *)
THEOREM MessagesAccounted == Spec => [](MessageIsAccounted /\ QueuedHasMessage)
<1> DEFINE I == /\ Typed /\ DraftInv /\ ClaimInv /\ MessageInv
                /\ MessageIsAccounted /\ QueuedHasMessage
<1>1. Init => I
  BY InitTyped, InitCounts, InitMessages
<1>2. I /\ [Next]_vars => I'
  BY NextTyped, NextDraft, NextClaims, NextMessages
<1>3. I => MessageIsAccounted /\ QueuedHasMessage
  OBVIOUS
<1> HIDE DEF I
<1> QED
  BY <1>1, <1>2, <1>3, PTL DEF Spec

-----------------------------------------------------------------------------
(* After the end of the campaign.                                          *)
Open == {"PENDING", "PROCESSING"}

LEMMA EndedFrame ==
    ASSUME EndedInv, inFlight' = inFlight,
           status' \in {"CANCELLED", "FAILED"} => status' = status,
           status \in {"CANCELLED", "FAILED"} =>
               \A c \in Contacts : recipient'[c] \in Open => recipient[c] \in Open
    PROVE  EndedInv'
  BY DEF EndedInv, Open

LEMMA EndEnds ==
    ASSUME TypeOK, NEW s \in {"CANCELLED", "FAILED"}, EndCampaign(s)
    PROVE  EndedInv'
  BY DEF TypeOK, EndCampaign, EndedInv, InFlight

LEMMA CompleteEnded ==
    ASSUME Typed, EndedInv, NEW p \in Processors, CompleteClaim(p)
    PROVE  EndedInv'
<1>1. TypeOK /\ Contact(p) \in Contacts
  BY InHand DEF Typed, CompleteClaim, Working
<1>2. \A c \in Contacts : recipient'[c] \in Open => recipient[c] \in Open
  BY <1>1 DEF CompleteClaim, Current, Contact, TypeOK, Open
<1> QED
  BY <1>2, EndedFrame DEF CompleteClaim

LEMMA NextEnded ==
    ASSUME Typed, DraftInv, EndedInv, [Next]_vars
    PROVE  EndedInv'
<1>0. TypeOK /\ LocalInv
  BY DEF Typed
<1>1. CASE UNCHANGED vars
  BY <1>1, EndedFrame DEF vars
<1>2. CASE \E r \in Requests : Cancel(r)
  BY <1>0, <1>2, EndEnds DEF Cancel
<1>3. CASE Launch \/ Pause \/ BecomesDue \/ \E r \in Requests : ResumeRead(r) \/ ResumeWrite(r)
  BY <1>0, <1>3, EndedFrame DEF Launch, Pause, ResumeRead, ResumeWrite, BecomesDue, LocalInv
<1>4. CASE \E a \in Actors : RefreshStats(a) \/ PollAborts(a)
  BY <1>4, EndedFrame DEF RefreshStats, CountRecipients, WriteStats, CompleteCampaign, PollAborts
<1>5. CASE \E p \in Processors : PromoteScheduledCampaigns(p)
  BY <1>5, EndedFrame DEF PromoteScheduledCampaigns
<1>6. CASE \E p \in Processors : ClaimRecipients(p)
  <2>1. \A c \in Contacts : recipient'[c] \in Open => recipient[c] \in Open
    BY <1>0, <1>6 DEF ClaimRecipients, Claimable, TypeOK, Open
  <2> QED
    BY <1>6, <2>1, EndedFrame DEF ClaimRecipients
<1>7. CASE \E p \in Processors : ProcessorStep(p)
  <2>1. PICK p \in Processors : ProcessorStep(p)
    BY <1>7
  <2>2. CASE CompleteClaim(p)
    BY <2>2, CompleteEnded
  <2>3. CASE FailCampaign(p)
    BY <1>0, <2>3, EndEnds, EndedFrame DEF FailCampaign
  <2>4. CASE \/ NextRecipient(p) \/ LoadRecipient(p) \/ FindExistingMessage(p)
             \/ ReloadCampaign(p) \/ CreateMessage(p) \/ CreateRefused(p)
    BY <2>4, EndedFrame DEF NextRecipient, LoadRecipient, FindExistingMessage,
       ReloadCampaign, CreateMessage, CreateRefused
  <2> QED
    BY <2>1, <2>2, <2>3, <2>4 DEF ProcessorStep
<1>8. CASE \E p \in Processors : ProcessingError(p)
  BY <1>8, EndedFrame DEF ProcessingError
<1>9. CASE \E c \in Contacts : LeaseExpires(c) \/ LeaseOverrun(c)
  BY <1>9, EndedFrame DEF LeaseExpires, LeaseOverrun
<1> QED
  BY <1>1, <1>2, <1>3, <1>4, <1>5, <1>6, <1>7, <1>8, <1>9 DEF Next, Request

(* After a cancellation or a failure only the recipients that replicas had *)
(* in hand at that moment can be left PENDING (PendingWasInFlight).        *)
THEOREM LeftoversWereInFlight == Spec => []PendingWasInFlight
<1> DEFINE I == Typed /\ DraftInv /\ EndedInv
<1>1. Init => I
  BY InitTyped, InitCounts DEF Init, EndedInv
<1>2. I /\ [Next]_vars => I'
  BY NextTyped, NextDraft, NextEnded
<1>3. I => PendingWasInFlight
  BY DEF EndedInv, PendingWasInFlight
<1> HIDE DEF I
<1> QED
  BY <1>1, <1>2, <1>3, PTL DEF Spec
==================================================================================
