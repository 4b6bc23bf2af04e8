-------------------------- MODULE AcceptanceProofs --------------------------
(***************************************************************************)
(* Two promises to the callers.  create() implements IdempotentAcceptance  *)
(* for every set of requests and keys; the invariant the steps need: a     *)
(* call is unanswered exactly while it is under way, and its message       *)
(* exists only once it tried to commit.  And the limits of RateLimiter     *)
(* hold for every sender, any number of workers and any length of the      *)
(* second and its phases.                                                  *)
(***************************************************************************)
EXTENDS MessageAcceptance, RateLimiter, TLAPS

IInv == /\ messages \subseteq Requests
        /\ answer \in [Requests -> Requests \cup {Unanswered, Refused}]
        /\ pc \in [Requests -> {"idle", "policy", "resolve", "commit", "caught", "done"}]
        /\ AnsweredWhenDone

(* The invariant holds initially and every step keeps it.                  *)
LEMMA InitIInv == AcceptanceInit => IInv
  BY AcceptanceConstants DEF AcceptanceInit, IInv, AnsweredWhenDone

(* A step of one call changes the program counter and the answer of that   *)
(* call alone, and both together.                                          *)
LEMMA GotoIInv ==
  ASSUME IInv, NEW r \in Requests, pc[r] # "done",
         NEW l \in {"policy", "resolve", "commit"}, Goto(r, l),
         r \notin messages, messages' = messages
  PROVE  IInv'
  BY AcceptanceConstants DEF IInv, AnsweredWhenDone, Goto

LEMMA ReturnIInv ==
  ASSUME IInv, NEW r \in Requests, pc[r] # "done",
         NEW a \in Requests \cup {Refused}, Return(r, a),
         messages' \subseteq messages \cup {r}, messages \subseteq messages'
  PROVE  IInv'
  BY AcceptanceConstants DEF IInv, AnsweredWhenDone, Return

LEMMA NextIInv == ASSUME IInv, [AcceptanceNext]_acceptanceVars PROVE IInv'
<1>1. ASSUME NEW r \in Requests, FindExisting(r) PROVE IInv'
  <2>1. pc[r] # "done" /\ r \notin messages /\ messages' = messages
    BY <1>1 DEF FindExisting, IInv, AnsweredWhenDone
  <2>2. ASSUME NEW m \in Existing(r), Return(r, m) PROVE IInv'
    BY <2>1, <2>2, ReturnIInv DEF Existing, IInv
  <2>3. ASSUME Goto(r, "policy") PROVE IInv'
    BY <2>1, <2>3, GotoIInv
  <2> QED BY <1>1, <2>2, <2>3 DEF FindExisting
<1>2. ASSUME NEW r \in Requests, AssertAllowed(r) PROVE IInv'
  <2>1. pc[r] # "done" /\ r \notin messages /\ messages' = messages
    BY <1>2 DEF AssertAllowed, IInv, AnsweredWhenDone
  <2>2. CASE Goto(r, "resolve") BY <2>1, <2>2, GotoIInv
  <2>3. CASE Return(r, Refused) BY <2>1, <2>3, ReturnIInv
  <2> QED BY <1>2, <2>2, <2>3 DEF AssertAllowed
<1>3. ASSUME NEW r \in Requests, Resolve(r) PROVE IInv'
  <2>1. pc[r] # "done" /\ r \notin messages /\ messages' = messages
    BY <1>3 DEF Resolve, IInv, AnsweredWhenDone
  <2>2. CASE Goto(r, "commit") BY <2>1, <2>2, GotoIInv
  <2>3. CASE Return(r, Refused) BY <2>1, <2>3, ReturnIInv
  <2> QED BY <1>3, <2>2, <2>3 DEF Resolve
<1>4. ASSUME NEW r \in Requests, Commit(r) PROVE IInv'
  <2>1. pc[r] # "done" /\ messages' = messages \cup {r} /\ Return(r, r)
    BY <1>4 DEF Commit
  <2> QED BY <2>1, ReturnIInv
<1>5. ASSUME NEW r \in Requests, CommitAckLost(r) PROVE IInv'
  BY <1>5, AcceptanceConstants DEF CommitAckLost, Goto, IInv, AnsweredWhenDone
<1>6. ASSUME NEW r \in Requests, CommitFails(r) PROVE IInv'
  BY <1>6, AcceptanceConstants DEF CommitFails, Goto, IInv, AnsweredWhenDone
<1>7. ASSUME NEW r \in Requests, FindAfterFailure(r) PROVE IInv'
  <2>1. pc[r] # "done" /\ messages' = messages
    BY <1>7 DEF FindAfterFailure
  <2>2. PICK a \in Requests \cup {Refused} : Return(r, a)
    BY <1>7 DEF FindAfterFailure, Existing, IInv
  <2> QED BY <2>1, <2>2, ReturnIInv
<1>8. ASSUME NEW r \in Requests, LookupFails(r) PROVE IInv'
  <2>1. pc[r] # "done" /\ messages' = messages /\ Return(r, Refused)
    BY <1>8 DEF LookupFails
  <2> QED BY <2>1, ReturnIInv
<1>9. ASSUME UNCHANGED <<messages, answer, pc>> PROVE IInv'
  BY <1>9 DEF IInv, AnsweredWhenDone
<1>10. ASSUME NEW d \in Decisions, RecordConsent(d) PROVE IInv'
  BY <1>9, <1>10 DEF RecordConsent
<1>11. CASE ChangeWindow BY <1>9, <1>11 DEF ChangeWindow
<1>12. CASE ChangeConfiguration BY <1>9, <1>12 DEF ChangeConfiguration
<1>13. CASE UNCHANGED acceptanceVars BY <1>9, <1>13 DEF acceptanceVars
<1> QED
  BY <1>1, <1>2, <1>3, <1>4, <1>5, <1>6, <1>7, <1>8, <1>10, <1>11, <1>12, <1>13
     DEF AcceptanceNext, CreateStep

(* A call is unanswered exactly while it is under way, and the message of  *)
(* a call exists only after its transaction: for every set of requests.    *)
THEOREM AnsweredWhenDoneAlways == AcceptanceSpec => []AnsweredWhenDone
<1>1. IInv => AnsweredWhenDone BY DEF IInv
<1> QED BY InitIInv, NextIInv, <1>1, PTL DEF AcceptanceSpec

-----------------------------------------------------------------------------
(* The refinement: Commit and CommitAckLost accept, the lookups answer,    *)
(* everything else refuses or does not concern the caller.                 *)

LEMMA InitPromise == AcceptanceInit => Promise!Init
  BY DEF AcceptanceInit, Promise!Init

LEMMA ReturnExisting ==
  ASSUME IInv, NEW r \in Requests, pc[r] # "done", NEW m \in Existing(r),
         Return(r, m), messages' = messages
  PROVE  Promise!Next
<1>1. m \in messages /\ m \in Requests /\ Promise!SameKey(r, m)
  BY DEF Existing, Promise!SameKey, IInv
<1>2. answer[r] = Unanswered BY DEF IInv, AnsweredWhenDone
<1>3. Promise!Answer(r, m) BY <1>1, <1>2 DEF Promise!Answer, Return
<1> QED BY <1>1, <1>3 DEF Promise!Next

LEMMA ReturnRefused ==
  ASSUME IInv, NEW r \in Requests, pc[r] # "done",
         Return(r, Refused), messages' = messages
  PROVE  Promise!Next
<1>1. answer[r] = Unanswered BY DEF IInv, AnsweredWhenDone
<1>2. Promise!Refuse(r) BY <1>1 DEF Promise!Refuse, Return
<1> QED BY <1>2 DEF Promise!Next

LEMMA CommitAccepts ==
  ASSUME IInv, NEW r \in Requests, Commit(r) \/ CommitAckLost(r)
  PROVE  Promise!Next
<1>1. pc[r] = "commit" /\ KeyIsFree(r) /\ messages' = messages \cup {r}
  BY DEF Commit, CommitAckLost
<1>2. answer[r] = Unanswered /\ r \notin messages
  BY <1>1 DEF IInv, AnsweredWhenDone
<1>3. \A m \in messages : ~Promise!SameKey(r, m)
  BY <1>1 DEF KeyIsFree, Existing, Promise!SameKey
<1>4. answer' \in {answer, [answer EXCEPT ![r] = r]}
  BY DEF Commit, CommitAckLost, Return, Goto
<1>5. Promise!Accept(r) BY <1>1, <1>2, <1>3, <1>4 DEF Promise!Accept
<1> QED BY <1>5 DEF Promise!Next

LEMMA NextPromise ==
  ASSUME IInv, [AcceptanceNext]_acceptanceVars PROVE [Promise!Next]_<<messages, answer>>
<1>1. ASSUME NEW r \in Requests, FindExisting(r) \/ FindAfterFailure(r)
      PROVE  [Promise!Next]_<<messages, answer>>
  <2>1. pc[r] # "done" /\ messages' = messages
    BY <1>1 DEF FindExisting, FindAfterFailure
  <2>2. ASSUME NEW m \in Existing(r), Return(r, m) PROVE Promise!Next
    BY <2>1, <2>2, ReturnExisting
  <2>3. ASSUME Return(r, Refused) PROVE Promise!Next
    BY <2>1, <2>3, ReturnRefused
  <2>4. ASSUME Goto(r, "policy") PROVE UNCHANGED <<messages, answer>>
    BY <2>1, <2>4 DEF Goto
  <2> QED BY <1>1, <2>2, <2>3, <2>4 DEF FindExisting, FindAfterFailure
<1>2. ASSUME NEW r \in Requests, AssertAllowed(r) \/ Resolve(r) \/ LookupFails(r)
      PROVE  [Promise!Next]_<<messages, answer>>
  <2>1. pc[r] # "done" /\ messages' = messages
    BY <1>2 DEF AssertAllowed, Resolve, LookupFails
  <2>2. Return(r, Refused) \/ UNCHANGED answer
    BY <1>2 DEF AssertAllowed, Resolve, LookupFails, Goto
  <2> QED BY <2>1, <2>2, ReturnRefused
<1>3. ASSUME NEW r \in Requests, Commit(r) \/ CommitAckLost(r)
      PROVE  [Promise!Next]_<<messages, answer>>
  BY <1>3, CommitAccepts
<1>4. ASSUME NEW r \in Requests, CommitFails(r) PROVE UNCHANGED <<messages, answer>>
  BY <1>4 DEF CommitFails, Goto
<1>5. ASSUME NEW d \in Decisions, RecordConsent(d) PROVE UNCHANGED <<messages, answer>>
  BY <1>5 DEF RecordConsent
<1>6. CASE ChangeWindow BY <1>6 DEF ChangeWindow
<1>7. CASE ChangeConfiguration BY <1>7 DEF ChangeConfiguration
<1>8. CASE UNCHANGED acceptanceVars BY <1>8 DEF acceptanceVars
<1> QED BY <1>1, <1>2, <1>3, <1>4, <1>5, <1>6, <1>7, <1>8 DEF AcceptanceNext, CreateStep

(* create() implements the specification of idempotent acceptance: one     *)
(* message for a key, and no answer that names another.                    *)
THEOREM Refinement == AcceptanceSpec => KeepsPromise
<1>1. AcceptanceInit => Promise!Init BY InitPromise
<1>2. IInv /\ [AcceptanceNext]_acceptanceVars => [Promise!Next]_<<messages, answer>> BY NextPromise
<1>3. AcceptanceSpec => []IInv BY InitIInv, NextIInv, PTL DEF AcceptanceSpec
<1> QED BY <1>1, <1>2, <1>3, PTL DEF AcceptanceSpec, KeepsPromise, Promise!Spec
-----------------------------------------------------------------------------
(* What was accepted was allowed.  The contact's consentStatus is OPTED_IN *)
(* only when the decision that occurred last says so, in whatever order    *)
(* the decisions were reported; so what assertAllowed sees the contact     *)
(* agreed to, and a call past that check keeps it on record.               *)

DecisionsOK == decisions \in Seq(Decisions)

ConsentFollows == consent = "OPTED_IN" => LatestDecision("OPTED_IN")

Recorded(r) ==
  /\ pc[r] \in {"policy", "resolve", "commit", "caught"} /\ Agreed(r) => wasAllowed[r]
  /\ pc[r] \in {"resolve", "commit", "caught"} => wasAllowed[r]
  /\ r \in messages => wasAllowed[r]

ConsentInv ==
  /\ DecisionsOK
  /\ ConsentFollows
  /\ windowOpen \in BOOLEAN
  /\ wasAllowed \in [Requests -> BOOLEAN]
  /\ \A r \in Requests : Recorded(r)

LEMMA InitConsent == AcceptanceInit => ConsentInv
  BY DEF AcceptanceInit, ConsentInv, DecisionsOK, ConsentFollows, Recorded

(* A decision that is not current occurred before another, and so before   *)
(* the latest: it does not replace it.                                     *)
LEMMA LatestStays ==
  ASSUME DecisionsOK, ConsentFollows, NEW d \in Decisions, RecordConsent(d)
  PROVE  DecisionsOK' /\ ConsentFollows'
<1> DEFINE n == Len(decisions)
<1>1. d \in [occurredAt : Nat, status : {"OPTED_IN", "OPTED_OUT"}]
  BY AcceptanceConstants
<1>2. /\ decisions' = Append(decisions, d) /\ DecisionsOK'
      /\ n \in Nat /\ DOMAIN decisions = 1..n /\ DOMAIN decisions' = 1..(n + 1)
      /\ decisions'[n + 1] = d
      /\ \A i \in 1..n : decisions'[i] = decisions[i] /\ decisions[i] \in Decisions
  BY DEF RecordConsent, DecisionsOK
<1>3. \A i \in 1..n : decisions[i].occurredAt \in Nat
  BY <1>2, AcceptanceConstants
<1> SUFFICES ASSUME consent' = "OPTED_IN" PROVE LatestDecision("OPTED_IN")'
  BY <1>2 DEF ConsentFollows
<1>4. CASE IsCurrentDecision(d)
  <2>1. d.status = "OPTED_IN" BY <1>4 DEF RecordConsent
  <2>2. \A j \in 1..n : d.occurredAt >= decisions[j].occurredAt
    BY <1>2, <1>4 DEF IsCurrentDecision
  <2>3. \A j \in 1..(n + 1) :
          \/ decisions'[j].occurredAt < decisions'[n + 1].occurredAt
          \/ decisions'[j].occurredAt = decisions'[n + 1].occurredAt /\ j <= n + 1
    <3> TAKE j \in 1..(n + 1)
    <3>1. CASE j = n + 1 BY <3>1, <1>2
    <3>2. CASE j \in 1..n BY <3>2, <1>1, <1>2, <1>3, <2>2
    <3> QED BY <3>1, <3>2, <1>2
  <2> QED BY <1>2, <2>1, <2>3 DEF LatestDecision
<1>5. CASE ~IsCurrentDecision(d)
  <2>1. consent = "OPTED_IN" BY <1>5 DEF RecordConsent
  <2>2. PICK i \in 1..n :
          /\ decisions[i].status = "OPTED_IN"
          /\ \A j \in 1..n :
               \/ decisions[j].occurredAt < decisions[i].occurredAt
               \/ decisions[j].occurredAt = decisions[i].occurredAt /\ j <= i
    BY <2>1, <1>2 DEF ConsentFollows, LatestDecision
  <2>3. PICK k \in 1..n : ~(d.occurredAt >= decisions[k].occurredAt)
    BY <1>2, <1>5 DEF IsCurrentDecision
  <2>4. d.occurredAt < decisions[i].occurredAt
    BY <1>1, <1>3, <2>2, <2>3
  <2>5. \A j \in 1..(n + 1) :
          \/ decisions'[j].occurredAt < decisions'[i].occurredAt
          \/ decisions'[j].occurredAt = decisions'[i].occurredAt /\ j <= i
    <3> TAKE j \in 1..(n + 1)
    <3>1. CASE j = n + 1 BY <3>1, <1>2, <2>4
    <3>2. CASE j \in 1..n BY <3>2, <1>2, <2>2
    <3> QED BY <3>1, <3>2, <1>2
  <2>6. i \in 1..(n + 1) /\ decisions'[i].status = "OPTED_IN" BY <1>2, <2>2
  <2> QED BY <1>2, <2>5, <2>6 DEF LatestDecision
<1> QED BY <1>4, <1>5

(* What assertAllowed sees, the contact agreed to.                         *)
LEMMA AllowedAgreed ==
  ASSUME ConsentFollows, NEW r \in Requests, Allowed(r) PROVE Agreed(r)
  BY DEF ConsentFollows, Allowed, Agreed

(* A step of the contact keeps what is on record and adds what it agrees   *)
(* to now.                                                                 *)
LEMMA ObserveRecords ==
  ASSUME ConsentInv, IInv, Observe, UNCHANGED <<messages, pc>>
  PROVE  wasAllowed' \in [Requests -> BOOLEAN] /\ \A r \in Requests : Recorded(r)'
<1>1. wasAllowed' \in [Requests -> BOOLEAN]
  BY DEF Observe, ConsentInv
<1>2. ASSUME NEW r \in Requests PROVE Recorded(r)'
  <2>1. wasAllowed'[r] <=> wasAllowed[r] \/ (pc[r] # "idle" /\ Agreed(r)')
    BY DEF Observe
  <2>2. Recorded(r) BY DEF ConsentInv
  <2> QED BY <2>1, <2>2 DEF Recorded
<1> QED BY <1>1, <1>2

(* Steps of a call leave the contact alone.                                *)
LEMMA ContactStays ==
  ASSUME UNCHANGED contactVars
  PROVE  /\ DecisionsOK => DecisionsOK'
         /\ ConsentFollows => ConsentFollows'
         /\ windowOpen' = windowOpen
         /\ \A r \in Requests : Agreed(r)' <=> Agreed(r)
  BY DEF contactVars, DecisionsOK, ConsentFollows, LatestDecision, Agreed

(* A step of one call that leaves wasAllowed as it is: enough that the     *)
(* call itself is still on record.                                         *)
LEMMA CallRecords ==
  ASSUME ConsentInv, IInv, NEW r \in Requests, NEW l,
         pc' = [pc EXCEPT ![r] = l],
         messages' \subseteq messages \cup {r},
         UNCHANGED contactVars, UNCHANGED wasAllowed,
         Recorded(r)'
  PROVE  ConsentInv'
<1>1. ASSUME NEW q \in Requests, q # r PROVE Recorded(q)'
  <2>1. Recorded(q) BY DEF ConsentInv
  <2>2. pc'[q] = pc[q] /\ (q \in messages' => q \in messages)
    BY <1>1 DEF IInv
  <2>3. Agreed(q)' <=> Agreed(q) BY ContactStays
  <2> QED BY <2>1, <2>2, <2>3 DEF Recorded
<1> QED BY <1>1, ContactStays DEF ConsentInv

LEMMA NextConsent ==
  ASSUME IInv, ConsentInv, [AcceptanceNext]_acceptanceVars PROVE ConsentInv'
<1>0. ASSUME NEW r \in Requests
      PROVE  Recorded(r) /\ pc[r] \in {"idle", "policy", "resolve", "commit", "caught", "done"}
             /\ (r \in messages => pc[r] \in {"caught", "done"})
  BY DEF ConsentInv, IInv, AnsweredWhenDone
<1>1. ASSUME NEW r \in Requests, FindExisting(r) PROVE ConsentInv'
  <2>1. /\ pc[r] = "idle" /\ r \notin messages /\ messages' = messages
        /\ wasAllowed' = [wasAllowed EXCEPT ![r] = Agreed(r)]
        /\ UNCHANGED contactVars
    BY <1>1, <1>0 DEF FindExisting
  <2>2. PICK l \in {"policy", "done"} : pc' = [pc EXCEPT ![r] = l]
    BY <1>1 DEF FindExisting, Goto, Return
  <2>3. Agreed(r) \in BOOLEAN
    <3>1. LatestDecision("OPTED_IN") \in BOOLEAN BY DEF LatestDecision
    <3> QED BY <3>1 DEF Agreed, ConsentInv
  <2>4. wasAllowed' \in [Requests -> BOOLEAN] /\ wasAllowed'[r] = Agreed(r)
    BY <2>1, <2>3 DEF ConsentInv
  <2>5. Recorded(r)'
    <3>1. pc'[r] \in {"policy", "done"} /\ r \notin messages' BY <2>1, <2>2 DEF IInv
    <3>2. Agreed(r)' <=> Agreed(r) BY <2>1, ContactStays
    <3> QED BY <2>4, <3>1, <3>2 DEF Recorded
  <2>6. ASSUME NEW q \in Requests, q # r PROVE Recorded(q)'
    <3>1. pc'[q] = pc[q] /\ wasAllowed'[q] = wasAllowed[q] /\ messages' = messages
      BY <2>1, <2>2, <2>6 DEF IInv, ConsentInv
    <3>2. Agreed(q)' <=> Agreed(q) BY <2>1, ContactStays
    <3> QED BY <1>0, <3>1, <3>2 DEF Recorded
  <2> QED BY <2>1, <2>4, <2>5, <2>6, ContactStays DEF ConsentInv
<1>2. ASSUME NEW r \in Requests, AssertAllowed(r) PROVE ConsentInv'
  <2>1. /\ pc[r] = "policy" /\ r \notin messages /\ messages' = messages
        /\ UNCHANGED contactVars /\ UNCHANGED wasAllowed
    BY <1>2, <1>0 DEF AssertAllowed
  <2>2. CASE Allowed(r)
    <3>1. wasAllowed[r] BY <2>1, <2>2, <1>0, AllowedAgreed DEF ConsentInv, Recorded
    <3>2. Recorded(r)' BY <2>1, <3>1 DEF Recorded
    <3>3. pc' = [pc EXCEPT ![r] = "resolve"] BY <1>2, <2>2 DEF AssertAllowed, Goto
    <3> QED BY <2>1, <3>2, <3>3, CallRecords
  <2>3. CASE ~Allowed(r)
    <3>1. pc' = [pc EXCEPT ![r] = "done"] BY <1>2, <2>3 DEF AssertAllowed, Return
    <3>2. pc'[r] = "done" BY <3>1 DEF IInv
    <3>3. Recorded(r)' BY <2>1, <3>2 DEF Recorded
    <3> QED BY <2>1, <3>1, <3>3, CallRecords
  <2> QED BY <2>2, <2>3
(* Past the check a call is on record, wherever it goes from there.        *)
<1>3. ASSUME NEW r \in Requests, NEW l, pc[r] \in {"resolve", "commit", "caught"},
             pc' = [pc EXCEPT ![r] = l], messages' \subseteq messages \cup {r},
             UNCHANGED contactVars, UNCHANGED wasAllowed
      PROVE  ConsentInv'
  <2>1. Recorded(r)' BY <1>0, <1>3 DEF Recorded
  <2> QED BY <1>3, <2>1, CallRecords
<1>4. ASSUME NEW r \in Requests, Resolve(r) PROVE ConsentInv'
  BY <1>3, <1>4 DEF Resolve, Goto, Return
<1>5. ASSUME NEW r \in Requests, Commit(r) \/ CommitAckLost(r) \/ CommitFails(r)
      PROVE  ConsentInv'
  BY <1>3, <1>5 DEF Commit, CommitAckLost, CommitFails, Goto, Return
<1>6. ASSUME NEW r \in Requests, FindAfterFailure(r) PROVE ConsentInv'
  BY <1>3, <1>6 DEF FindAfterFailure, Return
<1>7. ASSUME NEW r \in Requests, LookupFails(r) PROVE ConsentInv'
  <2>1. /\ pc' = [pc EXCEPT ![r] = "done"] /\ messages' = messages
        /\ UNCHANGED contactVars /\ UNCHANGED wasAllowed
    BY <1>7 DEF LookupFails, Return
  <2>2. pc'[r] = "done" BY <2>1 DEF IInv
  <2>3. Recorded(r)' BY <1>0, <2>1, <2>2 DEF Recorded
  <2> QED BY <2>1, <2>3, CallRecords
<1>8. ASSUME NEW d \in Decisions, RecordConsent(d) PROVE ConsentInv'
  <2>1. Observe /\ UNCHANGED <<messages, pc>> /\ UNCHANGED windowOpen
    BY <1>8 DEF RecordConsent
  <2> QED BY <1>8, <2>1, LatestStays, ObserveRecords DEF ConsentInv
<1>9. CASE ChangeWindow
  <2>1. /\ Observe /\ UNCHANGED <<messages, pc>> /\ UNCHANGED <<consent, decisions>>
        /\ windowOpen' \in BOOLEAN
    BY <1>9 DEF ChangeWindow
  <2>2. DecisionsOK' /\ ConsentFollows'
    BY <2>1 DEF ConsentInv, DecisionsOK, ConsentFollows, LatestDecision
  <2> QED BY <2>1, <2>2, ObserveRecords DEF ConsentInv
<1>10. CASE UNCHANGED <<messages, pc, contactVars, wasAllowed>>
  <2>1. ASSUME NEW r \in Requests PROVE Recorded(r)'
    BY <1>0, <1>10, ContactStays DEF Recorded
  <2> QED BY <1>10, <2>1, ContactStays DEF ConsentInv
<1>11. CASE ChangeConfiguration BY <1>10, <1>11 DEF ChangeConfiguration
<1>12. CASE UNCHANGED acceptanceVars BY <1>10, <1>12 DEF acceptanceVars, contactVars
<1> QED
  BY <1>1, <1>2, <1>4, <1>5, <1>6, <1>7, <1>8, <1>9, <1>11, <1>12
     DEF AcceptanceNext, CreateStep

(* Every accepted message was allowed at a moment of its call, by the      *)
(* decision that occurred last or by the service window: for every set of  *)
(* requests, every sequence of decisions and any number of changes.        *)
THEOREM AcceptedWasAllowedAlways == AcceptanceSpec => []AcceptedWasAllowed
<1>1. IInv /\ ConsentInv => AcceptedWasAllowed
  BY DEF IInv, ConsentInv, Recorded, AcceptedWasAllowed
<1> QED BY InitIInv, NextIInv, InitConsent, NextConsent, <1>1, PTL DEF AcceptanceSpec

-----------------------------------------------------------------------------

Lasts(key) == key.count > 0 => key.expires >= 2 * Second

(* No key of the second expires while it can still be asked for, so the    *)
(* counters agree with the history; each class keeps within its share of   *)
(* the reservation phase.                                                  *)
RateInv ==
  /\ RateTypeOK
  /\ Lasts(total)
  /\ \A k \in RateClasses : Lasts(classTotal[k])
  /\ total.count = admitted
  /\ admitted <= Limit
  /\ \A k \in RateClasses : reserved[k] <= classTotal[k].count
  /\ \A k \in RateClasses : reserved[k] <= ReservedClassLimit(k)

(* A counter that lasts beyond the second is read as it stands.            *)
LEMMA LiveKey ==
  ASSUME NEW key \in Counters, Lasts(key), clock \in Clocks
  PROVE  Count(key) = key.count
<1>1. clock < 2 * Second
  BY RateAssumption DEF Clocks
<1> QED
  BY <1>1, RateAssumption DEF Count, Lasts, Counters, Clocks

(* INCR adds one to such a counter, and it still lasts.                    *)
LEMMA IncrKey ==
  ASSUME NEW key \in Counters, Lasts(key), clock \in Clocks
  PROVE  Incr(key) \in Counters /\ Incr(key).count = key.count + 1 /\ Lasts(Incr(key))
<1>1. Count(key) = key.count
  BY LiveKey
<1>2. clock \in Nat
  BY RateAssumption DEF Clocks
<1>3. CASE Count(key) = 0
  BY <1>1, <1>2, <1>3, RateAssumption DEF Incr, Lasts, Counters, Ttl
<1>4. CASE Count(key) # 0
  <2>1. Incr(key) = [key EXCEPT !.count = @ + 1]
    BY <1>4 DEF Incr
  <2> QED
    BY <1>1, <1>4, <2>1, RateAssumption DEF Lasts, Counters
<1> QED
  BY <1>3, <1>4

(* The limit in force is a positive number, and so is a class's share.     *)
LEMMA LimitIsPositive ==
  ASSUME sender \in Senders
  PROVE  Limit \in Nat \ {0}
BY RateAssumption DEF Limit

LEMMA SharesAreBounded ==
  ASSUME sender \in Senders
  PROVE  /\ ReservationShares["TRANSACTIONAL"] \in 1 .. 89
         /\ ReservationShares["MARKETING"] \in 1 .. 89
         /\ ReservationShares["TRANSACTIONAL"] + ReservationShares["MARKETING"] <= 90
<1>1. sender.transactional \in Int /\ sender.marketing \in Int
  BY RateAssumption
<1>2. /\ Share(sender.transactional, 60) \in 1 .. 100
      /\ Share(sender.marketing, 20) \in 1 .. 100
  BY <1>1 DEF Share
<1> QED
  BY <1>2 DEF ReservationShares

LEMMA ReservedIsNatural ==
  ASSUME sender \in Senders, NEW k \in RateClasses
  PROVE  ReservedClassLimit(k) \in Nat
<1>1. CASE k = "OTP"
  BY <1>1, LimitIsPositive DEF ReservedClassLimit
<1>2. CASE k # "OTP"
  <2>1. ReservationShares[k] \in 1 .. 89
    BY <1>2, SharesAreBounded DEF RateClasses
  <2> DEFINE product == Limit * ReservationShares[k]
  <2>2. product \in Nat
    BY <2>1, LimitIsPositive
  <2> HIDE DEF product
  <2>3. product \div 100 \in Nat
    BY <2>2
  <2> QED
    BY <1>2, <2>3 DEF ReservedClassLimit, AtLeastOne, product
<1> QED
  BY <1>1, <1>2

(* The arithmetic of the reservation phase: the shares of the two classes, *)
(* each raised to one slot at least, leave a slot.                         *)
LEMMA SharesLeaveASlot ==
  ASSUME NEW L \in Nat, NEW t \in 1 .. 89, NEW m \in 1 .. 89, t + m <= 90,
         L >= 10 \/ (L >= 3 /\ t = 60 /\ m = 20)
  PROVE  AtLeastOne((L * t) \div 100) + AtLeastOne((L * m) \div 100) < L
<1> DEFINE x == L * t
           y == L * m
<1>1. x \in Nat /\ y \in Nat
  OBVIOUS
<1>2. x + y = L * (t + m)
  OBVIOUS
<1>3. L * (t + m) <= L * 90
  OBVIOUS
<1>4. x <= L * 89 /\ y <= L * 89
  OBVIOUS
<1>5. t = 60 /\ m = 20 => x = 60 * L /\ y = 20 * L
  OBVIOUS
<1> HIDE DEF x, y
<1>6. AtLeastOne(x \div 100) + AtLeastOne(y \div 100) < L
  BY <1>1, <1>2, <1>3, <1>4, <1>5, SMT DEF AtLeastOne
<1> QED
  BY <1>6 DEF x, y

-----------------------------------------------------------------------------
LEMMA RateInitInv == RateInit => RateInv
<1> SUFFICES ASSUME RateInit PROVE RateInv
  OBVIOUS
<1>1. RateTypeOK
  BY RateAssumption DEF RateInit, RateTypeOK, Clocks, Calls, Counters, NoCounter
<1>2. Limit \in Nat \ {0}
  BY LimitIsPositive DEF RateInit
<1>3. \A k \in RateClasses : ReservedClassLimit(k) \in Nat
  BY ReservedIsNatural DEF RateInit
<1> QED
  BY <1>1, <1>2, <1>3 DEF RateInit, RateInv, Lasts, NoCounter

(* A slot is reserved: both counters are as the history says, so neither   *)
(* the limit nor the class's share is passed.                              *)
LEMMA ReserveSlotInv ==
  ASSUME RateInv, NEW w \in RateWorkers, ReserveSlot(w)
  PROVE  RateInv'
<1> DEFINE k == call[w].class
           at == call[w].at
<1>1. call[w] \in Calls /\ call[w].pc = "eval"
  BY DEF RateInv, RateTypeOK, ReserveSlot
<1>2. k \in RateClasses /\ at \in 0 .. Second - 1
  BY <1>1 DEF Calls, RateIdle
<1>3. /\ total' = Incr(total)
      /\ classTotal' = [classTotal EXCEPT ![k] = Incr(@)]
      /\ admitted' = admitted + 1
      /\ reserved' = IF CanBorrow(at) THEN reserved ELSE [reserved EXCEPT ![k] = @ + 1]
      /\ call' = [call EXCEPT ![w] = RateIdle]
      /\ sender' = sender /\ clock' = clock
      /\ Count(total) < Limit
      /\ Count(classTotal[k]) < ClassLimit(at, k)
  BY DEF ReserveSlot
<1> HIDE DEF k, at
<1>4. /\ total \in Counters /\ classTotal[k] \in Counters /\ clock \in Clocks
      /\ Lasts(total) /\ Lasts(classTotal[k])
  BY <1>2 DEF RateInv, RateTypeOK
<1>5. Incr(total) \in Counters /\ Incr(total).count = total.count + 1 /\ Lasts(Incr(total))
  BY <1>4, IncrKey
<1>6. /\ Incr(classTotal[k]) \in Counters /\ Incr(classTotal[k]).count = classTotal[k].count + 1
      /\ Lasts(Incr(classTotal[k]))
  BY <1>4, IncrKey
<1>7. Count(total) = total.count /\ Count(classTotal[k]) = classTotal[k].count
  BY <1>4, LiveKey
<1>8. RateTypeOK'
  BY <1>2, <1>3, <1>5, <1>6 DEF RateInv, RateTypeOK, Calls
<1>9. Limit' = Limit /\ \A c \in RateClasses : ReservedClassLimit(c)' = ReservedClassLimit(c)
  BY <1>3 DEF Limit, ReservedClassLimit, ReservationShares
<1>10. Limit \in Nat /\ \A c \in RateClasses : ReservedClassLimit(c) \in Nat
  BY LimitIsPositive, ReservedIsNatural DEF RateInv, RateTypeOK
<1>11. Lasts(total)'
  BY <1>3, <1>5 DEF Lasts
<1>12. \A c \in RateClasses : Lasts(classTotal[c])'
  BY <1>2, <1>3, <1>6 DEF Lasts, RateInv, RateTypeOK
<1>13. (total.count = admitted /\ admitted <= Limit)'
  BY <1>3, <1>5, <1>7, <1>9, <1>10, <1>4 DEF RateInv, RateTypeOK, Counters
<1>14. \A c \in RateClasses : reserved'[c] <= classTotal'[c].count
  <2> TAKE c \in RateClasses
  <2>1. reserved[c] \in Nat /\ classTotal[c].count \in Nat /\ reserved[c] <= classTotal[c].count
    BY DEF RateInv, RateTypeOK, Counters
  <2>2. reserved'[c] <= IF c = k THEN reserved[c] + 1 ELSE reserved[c]
    BY <1>3, <2>1 DEF RateInv, RateTypeOK
  <2>3. classTotal'[c].count = IF c = k THEN classTotal[c].count + 1 ELSE classTotal[c].count
    BY <1>2, <1>3, <1>6 DEF RateInv, RateTypeOK
  <2>4. reserved'[c] \in Nat
    BY <1>8 DEF RateTypeOK
  <2> QED
    BY <2>1, <2>2, <2>3, <2>4
<1>15. \A c \in RateClasses : reserved'[c] <= ReservedClassLimit(c)
  <2> TAKE c \in RateClasses
  <2>1. reserved[c] \in Nat /\ reserved[c] <= ReservedClassLimit(c) /\ ReservedClassLimit(c) \in Nat
    BY <1>10 DEF RateInv, RateTypeOK
  <2>2. CASE CanBorrow(at) \/ c # k
    BY <1>3, <2>1, <2>2 DEF RateInv, RateTypeOK
  <2>3. CASE ~CanBorrow(at) /\ c = k
    <3>1. classTotal[k].count < ReservedClassLimit(k)
      BY <1>3, <1>7, <2>3 DEF ClassLimit
    <3>2. reserved[k] <= classTotal[k].count /\ classTotal[k].count \in Nat
      BY <1>2, <1>4 DEF RateInv, Counters
    <3>3. reserved'[k] = reserved[k] + 1
      BY <1>2, <1>3, <2>3 DEF RateInv, RateTypeOK
    <3> QED
      BY <2>1, <2>3, <3>1, <3>2, <3>3
  <2> QED
    BY <2>2, <2>3
<1> QED
  BY <1>3, <1>8, <1>9, <1>11, <1>12, <1>13, <1>14, <1>15 DEF RateInv

(* The other steps move calls or the clock and leave the counters alone.   *)
LEMMA QuietStepInv ==
  ASSUME RateInv, UNCHANGED <<sender, total, classTotal, admitted, reserved>>, RateTypeOK'
  PROVE  RateInv'
<1>1. Limit' = Limit /\ \A c \in RateClasses : ReservedClassLimit(c)' = ReservedClassLimit(c)
  BY DEF Limit, ReservedClassLimit, ReservationShares
<1> QED
  BY <1>1 DEF RateInv, Lasts

LEMMA RateStepInv == RateInv /\ [RateNext]_rateVars => RateInv'
<1> SUFFICES ASSUME RateInv, [RateNext]_rateVars PROVE RateInv'
  OBVIOUS
<1>t. RateTypeOK
  BY DEF RateInv
<1>c. clock \in Nat /\ Clocks \subseteq Nat
  BY <1>t, RateAssumption DEF RateTypeOK, Clocks
<1>1. ASSUME NEW w \in RateWorkers, WaitForOutboundSlot(w) PROVE RateInv'
  <2>1. RateTypeOK'
    BY <1>t, <1>1, <1>c, RateAssumption DEF RateTypeOK, WaitForOutboundSlot, Attempt, Calls
  <2> QED
    BY <1>1, <2>1, QuietStepInv DEF WaitForOutboundSlot
<1>2. ASSUME NEW w \in RateWorkers, RedisFails(w) PROVE RateInv'
  <2>1. RateTypeOK'
    BY <1>t, <1>2 DEF RateTypeOK, RedisFails, Calls
  <2> QED
    BY <1>2, <2>1, QuietStepInv DEF RedisFails
<1>3. ASSUME NEW w \in RateWorkers, ReserveSlot(w) PROVE RateInv'
  BY <1>3, ReserveSlotInv
<1>4. ASSUME NEW w \in RateWorkers, NoSlot(w) PROVE RateInv'
  <2>1. call[w] \in Calls /\ call[w].pc = "eval"
    BY <1>t, <1>4 DEF RateTypeOK, NoSlot
  <2>2. call[w].class \in RateClasses /\ call[w].at \in 0 .. Second - 1
    BY <2>1 DEF Calls, RateIdle
  <2>3. clock + (IF CanBorrow(call[w].at) THEN Second ELSE Reservation) - call[w].at \in Nat
    BY <1>c, <2>2, RateAssumption DEF CanBorrow
  <2>4. call' = [call EXCEPT ![w] = [pc |-> "sleep", class |-> call[w].class,
                    wake |-> clock + (IF CanBorrow(call[w].at) THEN Second ELSE Reservation) - call[w].at]]
    BY <1>4 DEF NoSlot
  <2>5. RateTypeOK'
    BY <1>t, <1>4, <2>2, <2>3, <2>4 DEF RateTypeOK, NoSlot, Calls
  <2> QED
    BY <1>4, <2>5, QuietStepInv DEF NoSlot
<1>5. ASSUME NEW w \in RateWorkers, Awake(w) PROVE RateInv'
  <2>1. call[w] \in Calls /\ call[w].pc = "sleep"
    BY <1>t, <1>5 DEF RateTypeOK, Awake
  <2>2. call[w].class \in RateClasses
    BY <2>1 DEF Calls, RateIdle
  <2>3. RateTypeOK'
    BY <1>t, <1>5, <1>c, <2>2, RateAssumption DEF RateTypeOK, Awake, Attempt, Calls
  <2> QED
    BY <1>5, <2>3, QuietStepInv DEF Awake
<1>6. CASE RateTick
  <2>1. RateTypeOK'
    BY <1>t, <1>6 DEF RateTypeOK, RateTick
  <2> QED
    BY <1>6, <2>1, QuietStepInv DEF RateTick
<1>7. CASE UNCHANGED rateVars
  <2>1. RateTypeOK'
    BY <1>t, <1>7 DEF RateTypeOK, rateVars
  <2> QED
    BY <1>7, <2>1, QuietStepInv DEF rateVars
<1> QED
  BY <1>1, <1>2, <1>3, <1>4, <1>5, <1>6, <1>7 DEF RateNext

LEMMA RateInvAlways == RateSpec => []RateInv
BY RateInitInv, RateStepInv, PTL DEF RateSpec

-----------------------------------------------------------------------------
(* waitForOutboundSlot never gives out more slots for a second than the    *)
(* sender's limit, for any number of workers, as long as Redis answers     *)
(* within a second of the clock reading.                                   *)
THEOREM LimitIsKept == RateSpec => []SecondWithinLimit
<1>1. RateInv => SecondWithinLimit
  BY DEF RateInv, SecondWithinLimit
<1> QED
  BY <1>1, RateInvAlways, PTL

(* reservationShares leaves OTP a slot in the reservation phase, for every *)
(* limit of 10 or more and every pair of configured shares.                *)
THEOREM HeadroomIsKept == RateSpec => []OtpHeadroom
<1>1. RateInv => OtpHeadroom
  <2> SUFFICES ASSUME RateInv,
                      Limit >= 10 \/ (Limit >= 3 /\ ReservationShares = DefaultShares)
               PROVE  reserved["TRANSACTIONAL"] + reserved["MARKETING"] < Limit
    BY DEF OtpHeadroom
  <2>1. sender \in Senders
    BY DEF RateInv, RateTypeOK
  <2>2. Limit \in Nat
    BY <2>1, LimitIsPositive
  <2> DEFINE t == ReservationShares["TRANSACTIONAL"]
             m == ReservationShares["MARKETING"]
  <2>3. t \in 1 .. 89 /\ m \in 1 .. 89 /\ t + m <= 90
    BY <2>1, SharesAreBounded
  <2>4. Limit >= 10 \/ (Limit >= 3 /\ t = 60 /\ m = 20)
    BY DEF DefaultShares
  <2> HIDE DEF t, m
  <2>5. AtLeastOne((Limit * t) \div 100) + AtLeastOne((Limit * m) \div 100) < Limit
    BY <2>2, <2>3, <2>4, SharesLeaveASlot
  <2>6. /\ ReservedClassLimit("TRANSACTIONAL") = AtLeastOne((Limit * t) \div 100)
        /\ ReservedClassLimit("MARKETING") = AtLeastOne((Limit * m) \div 100)
    BY DEF ReservedClassLimit, t, m
  <2>7. /\ ReservedClassLimit("TRANSACTIONAL") \in Nat
        /\ ReservedClassLimit("MARKETING") \in Nat
    BY <2>1, ReservedIsNatural DEF RateClasses
  <2>8. /\ reserved["TRANSACTIONAL"] \in Nat /\ reserved["MARKETING"] \in Nat
        /\ reserved["TRANSACTIONAL"] <= ReservedClassLimit("TRANSACTIONAL")
        /\ reserved["MARKETING"] <= ReservedClassLimit("MARKETING")
    BY DEF RateInv, RateTypeOK, RateClasses
  <2> QED
    BY <2>2, <2>5, <2>6, <2>7, <2>8
<1> QED
  BY <1>1, RateInvAlways, PTL
=============================================================================
