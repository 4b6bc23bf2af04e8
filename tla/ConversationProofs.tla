------------------------- MODULE ConversationProofs -------------------------
(***************************************************************************)
(* The row of a conversation never breaks the check on its SLA cycle, a    *)
(* cycle that waits has no reply, and its deadline does not move: for      *)
(* every set of teams, policies and concurrent calls and every length of   *)
(* time.  The three are inductive together with the types.                 *)
(*                                                                         *)
(* The second half is about the processors that feed the row: whatever is  *)
(* redelivered, retried, abandoned or processed twice at once, an inbound  *)
(* message counts once, a processed event has nothing left undone, and     *)
(* receipts other than FAILED commute.                                     *)
(***************************************************************************)
EXTENDS WebhookEvents, FiniteSetTheorems, TLAPS

IInv == SlaTypeOK /\ CycleCheckHolds /\ WaitingHasNoReply

LEMMA InitIInv == SlaInit => IInv
  BY SlaConstants
     DEF SlaInit, IInv, SlaTypeOK, CycleCheckHolds, WaitingHasNoReply, Time, None

(* The four timestamps of the cycle, apart from the rest of the row.       *)
CycleOK ==
  /\ startedAt \in Time \cup {None}
  /\ dueAt \in Nat \cup {None}
  /\ respondedAt \in Time \cup {None}
  /\ escalatedAt \in Time \cup {None}
  /\ CycleCheckHolds

(* Starting, clearing or keeping a cycle leaves a well-formed one.         *)
LEMMA StartCycleOK ==
  ASSUME NEW t \in Time, NEW p \in Policies, StartCycle(t, p) PROVE CycleOK'
<1>1. p \in Nat /\ p > 0 /\ t \in Nat BY SlaConstants DEF Time
<1>2. t + p \in Nat /\ t + p > t BY <1>1
<1> QED BY <1>1, <1>2 DEF StartCycle, CycleOK, CycleCheckHolds, None

LEMMA ClearCycleOK == ASSUME ClearCycle PROVE CycleOK'
  BY DEF ClearCycle, CycleOK, CycleCheckHolds, None

LEMMA KeepCycleOK == ASSUME CycleOK, UNCHANGED cycleVars PROVE CycleOK'
  BY DEF CycleOK, CycleCheckHolds, cycleVars

LEMMA LatestTime ==
  ASSUME NEW a \in Time \cup {None}, NEW t \in Time
  PROVE  Latest(a, t) \in Time /\ Latest(a, t) >= a /\ Latest(a, t) >= t
  BY SlaConstants DEF Latest, Time, None

LEMMA IInvCycle == IInv => CycleOK
  BY DEF IInv, SlaTypeOK, CycleOK

LEMMA InboundIInv == ASSUME IInv, NEW t \in Time, RecordInbound(t) PROVE IInv'
<1> DEFINE p == ResponseSlaMinutes
<1>1. p \in Policies \cup {None}
  BY DEF IInv, SlaTypeOK, ResponseSlaMinutes
<1>2. \/ StartsResponseSlaCycle(t) /\ p \in Policies /\ StartCycle(t, p)
      \/ ClearCycle
      \/ ~StartsResponseSlaCycle(t) /\ UNCHANGED cycleVars
  BY <1>1 DEF RecordInbound
<1>3. CycleOK' BY <1>2, IInvCycle, StartCycleOK, ClearCycleOK, KeepCycleOK
<1>4. lastInboundAt' \in Time /\ lastInboundAt' >= lastInboundAt
  BY LatestTime DEF RecordInbound, IInv, SlaTypeOK
<1>5. SlaTypeOK'
  BY <1>3, <1>4 DEF CycleOK, IInv, SlaTypeOK, RecordInbound, ConversationStatus
<1>6. WaitingHasNoReply'
  <2>1. lastOutboundAt' = lastOutboundAt /\ lastOutboundAt \in Time \cup {None}
    BY DEF RecordInbound, IInv, SlaTypeOK
  <2>2. CASE StartsResponseSlaCycle(t) /\ StartCycle(t, p)
    BY <2>1, <2>2 DEF StartsResponseSlaCycle, StartCycle, WaitingHasNoReply, Time, None
  <2>3. CASE ClearCycle BY <2>3 DEF ClearCycle, WaitingHasNoReply
  <2>4. CASE UNCHANGED cycleVars
    BY <2>1, <2>4, <1>4, SlaConstants
       DEF IInv, SlaTypeOK, WaitingHasNoReply, cycleVars, Time, None
  <2> QED BY <1>2, <2>2, <2>3, <2>4
<1> QED BY <1>3, <1>5, <1>6 DEF IInv, CycleOK

LEMMA CommitReplyIInv == ASSUME IInv, NEW r \in Replies, CommitReply(r) PROVE IInv'
<1> DEFINE t == acceptedAt[r]
<1>1. t \in Time BY DEF IInv, SlaTypeOK, CommitReply
<1>2. \/ ClearCycle
      \/ /\ UNCHANGED <<startedAt, dueAt, escalatedAt>>
         /\ status # "RESOLVED"
         /\ respondedAt' = IF ClosesResponseSlaCycle(t) THEN t ELSE respondedAt
  BY DEF CommitReply, RecordOutbound
<1>3. CycleOK'
  <2>1. CASE ClearCycle BY <2>1, ClearCycleOK
  <2>2. CASE /\ UNCHANGED <<startedAt, dueAt, escalatedAt>>
             /\ respondedAt' = IF ClosesResponseSlaCycle(t) THEN t ELSE respondedAt
    BY <1>1, <2>2, IInvCycle
       DEF CycleOK, CycleCheckHolds, ClosesResponseSlaCycle, Time, None
  <2> QED BY <1>2, <2>1, <2>2
<1>4. lastOutboundAt' = Latest(lastOutboundAt, t) /\ lastOutboundAt' \in Time
  BY <1>1, LatestTime DEF CommitReply, RecordOutbound, IInv, SlaTypeOK
<1>5. status' \in ConversationStatus \cup {"NONE"}
  BY DEF CommitReply, RecordOutbound, ConversationStatus
<1>6. acceptedAt' \in [Replies -> Time \cup {None}]
  BY DEF CommitReply, IInv, SlaTypeOK
<1>7. SlaTypeOK'
  BY <1>3, <1>4, <1>5, <1>6 DEF CycleOK, IInv, SlaTypeOK, CommitReply
<1>8. WaitingHasNoReply'
  <2>1. lastInboundAt' = lastInboundAt /\ lastInboundAt \in Time \cup {None}
        /\ lastOutboundAt \in Time \cup {None} /\ startedAt \in Time \cup {None}
    BY DEF CommitReply, IInv, SlaTypeOK
  <2>2. CASE ClearCycle BY <2>2 DEF ClearCycle, WaitingHasNoReply
  <2>3. CASE /\ UNCHANGED <<startedAt, dueAt, escalatedAt>>
             /\ status # "RESOLVED"
             /\ respondedAt' = IF ClosesResponseSlaCycle(t) THEN t ELSE respondedAt
    BY <1>1, <1>4, <2>1, <2>3, SlaConstants
       DEF IInv, WaitingHasNoReply, CycleCheckHolds, ClosesResponseSlaCycle, Latest,
           Time, None
  <2> QED BY <1>2, <2>2, <2>3
<1> QED BY <1>3, <1>7, <1>8 DEF IInv, CycleOK

LEMMA UpdateIInv ==
  ASSUME IInv, NEW m \in Movers, NEW tm \in Teams \cup {NoTeam, "KEEP"},
         NEW s \in ConversationStatus \cup {"KEEP"}, UpdateConversation(m, tm, s)
  PROVE  IInv'
<1>1. begunAt[m] \in Time BY DEF IInv, SlaTypeOK, UpdateConversation
<1>2. \/ UNCHANGED cycleVars
      \/ /\ lastInboundAt > lastOutboundAt
         /\ \E p \in Policies : StartCycle(begunAt[m], p)
  BY DEF UpdateConversation, ApplyConversationTeamResponseSla, IInv, SlaTypeOK
<1>3. CycleOK' BY <1>1, <1>2, IInvCycle, StartCycleOK, KeepCycleOK
<1>4. team' \in Teams \cup {NoTeam} /\ status' \in ConversationStatus \cup {"NONE"}
  BY DEF UpdateConversation, FinalTeam, IInv, SlaTypeOK
<1>5. begunAt' \in [Movers -> Time \cup {None}]
  BY DEF UpdateConversation, IInv, SlaTypeOK
<1>6. SlaTypeOK'
  BY <1>3, <1>4, <1>5 DEF CycleOK, IInv, SlaTypeOK, UpdateConversation
<1>7. WaitingHasNoReply'
  <2>1. UNCHANGED <<lastInboundAt, lastOutboundAt>>
        /\ lastInboundAt \in Time \cup {None} /\ lastOutboundAt \in Time \cup {None}
    BY DEF UpdateConversation, IInv, SlaTypeOK
  <2>2. CASE UNCHANGED cycleVars
    BY <2>1, <2>2 DEF IInv, WaitingHasNoReply, cycleVars
  <2>3. CASE lastInboundAt > lastOutboundAt
    BY <2>1, <2>3 DEF WaitingHasNoReply, Time, None
  <2> QED BY <1>2, <2>2, <2>3
<1> QED BY <1>3, <1>6, <1>7 DEF IInv, CycleOK

LEMMA EscalateIInv == ASSUME IInv, EscalateOverdue PROVE IInv'
  BY SlaConstants DEF EscalateOverdue, IInv, SlaTypeOK, CycleCheckHolds,
                      WaitingHasNoReply, Time, None

(* The steps that leave the cycle and the activity of the row alone.       *)
LEMMA OtherIInv ==
  ASSUME IInv, UNCHANGED <<lastInboundAt, lastOutboundAt, cycleVars>>, SlaTypeOK'
  PROVE  IInv'
  BY DEF IInv, CycleCheckHolds, WaitingHasNoReply, cycleVars

LEMMA OtherTypes ==
  ASSUME IInv,
         \/ \E r \in Replies : AcceptReply(r) \/ ReplyFails(r)
         \/ \E m \in Movers : BeginUpdate(m)
         \/ MarkRead
         \/ \E tm \in Teams, p \in Policies \cup {None} : UpdateTeamPolicy(tm, p)
         \/ Tick
         \/ UNCHANGED slaVars
  PROVE  SlaTypeOK' /\ UNCHANGED <<lastInboundAt, lastOutboundAt, cycleVars>>
<1> USE SlaConstants DEF IInv, SlaTypeOK, cycleVars, Time, None
<1>1. ASSUME NEW r \in Replies, AcceptReply(r) \/ ReplyFails(r)
      PROVE  SlaTypeOK' /\ UNCHANGED <<lastInboundAt, lastOutboundAt, cycleVars>>
  BY <1>1 DEF AcceptReply, ReplyFails
<1>2. ASSUME NEW m \in Movers, BeginUpdate(m)
      PROVE  SlaTypeOK' /\ UNCHANGED <<lastInboundAt, lastOutboundAt, cycleVars>>
  BY <1>2 DEF BeginUpdate
<1>3. CASE MarkRead BY <1>3 DEF MarkRead
<1>4. ASSUME NEW tm \in Teams, NEW p \in Policies \cup {None}, UpdateTeamPolicy(tm, p)
      PROVE  SlaTypeOK' /\ UNCHANGED <<lastInboundAt, lastOutboundAt, cycleVars>>
  BY <1>4 DEF UpdateTeamPolicy
<1>5. CASE Tick BY <1>5 DEF Tick
<1>6. CASE UNCHANGED slaVars BY <1>6 DEF slaVars
<1> QED BY <1>1, <1>2, <1>3, <1>4, <1>5, <1>6

LEMMA RowIInv == ASSUME IInv, RowStep \/ UNCHANGED slaVars PROVE IInv'
  BY CommitReplyIInv, UpdateIInv, EscalateIInv, OtherTypes, OtherIInv DEF RowStep

LEMMA NextIInv == ASSUME IInv, [SlaNext]_slaVars PROVE IInv'
  BY InboundIInv, RowIInv DEF SlaNext, Inbound

LEMMA AlwaysIInv == SlaSpec => []IInv
  BY InitIInv, NextIInv, PTL DEF SlaSpec

(* PostgreSQL's check on the SLA cycle never refuses a write of the        *)
(* conversation, so no inbound message is rejected because of it.          *)
THEOREM CheckNeverRefuses == SlaSpec => []CycleCheckHolds
<1>1. IInv => CycleCheckHolds BY DEF IInv
<1> QED BY <1>1, AlwaysIInv, PTL

(* No reply to the current turn is left uncounted by recordOutbound.       *)
THEOREM WaitingIsUnanswered == SlaSpec => []WaitingHasNoReply
<1>1. IInv => WaitingHasNoReply BY DEF IInv
<1> QED BY <1>1, AlwaysIInv, PTL

-----------------------------------------------------------------------------
(* The deadline: only a message of the customer and a move could set it,   *)
(* and both find the waiting cycle's deadline in place.                    *)
LEMMA DeadlineStepHolds ==
  ASSUME IInv, [SlaNext]_slaVars PROVE DeadlineStep
<1> SUFFICES ASSUME Waiting, Waiting'
             PROVE  /\ startedAt' = startedAt
                    /\ dueAt' = dueAt
                    /\ escalatedAt # None => escalatedAt' = escalatedAt
  BY DEF DeadlineStep
<1>1. dueAt # None /\ status # "RESOLVED" /\ respondedAt = None
  BY SlaConstants DEF Waiting, IInv, SlaTypeOK, CycleCheckHolds, None, Time
<1>2. ASSUME NEW t \in Time, Inbound(t) PROVE UNCHANGED cycleVars
  BY <1>1, <1>2 DEF Inbound, RecordInbound, StartsResponseSlaCycle
<1>3. ASSUME NEW r \in Replies, CommitReply(r)
      PROVE  UNCHANGED <<startedAt, dueAt, escalatedAt>>
  BY <1>1, <1>3 DEF CommitReply, RecordOutbound
<1>4. ASSUME NEW m \in Movers, NEW tm \in Teams \cup {NoTeam, "KEEP"},
             NEW s \in ConversationStatus \cup {"KEEP"}, UpdateConversation(m, tm, s)
      PROVE  UNCHANGED cycleVars
  BY <1>1, <1>4 DEF UpdateConversation, ApplyConversationTeamResponseSla
<1>5. ASSUME EscalateOverdue
      PROVE  UNCHANGED <<startedAt, dueAt>> /\ escalatedAt = None
  BY <1>5 DEF EscalateOverdue
<1> QED
  BY <1>2, <1>3, <1>4, <1>5, OtherTypes DEF SlaNext, RowStep, cycleVars

(* While a cycle waits nothing moves its deadline or takes its escalation  *)
(* back, whoever writes the row.                                           *)
THEOREM DeadlineNeverMoves == SlaSpec => DeadlineIsFixed
<1>1. IInv /\ [SlaNext]_slaVars => [DeadlineStep]_slaVars BY DeadlineStepHolds
<1> QED BY <1>1, AlwaysIInv, PTL DEF SlaSpec, DeadlineIsFixed

-----------------------------------------------------------------------------
(* The processors.  What an item leaves behind stays: messages are never   *)
(* deleted, templates keep their rows and receipts are only added.         *)

ProcOK ==
  proc \in [Processors -> [todo : SUBSET Events, event : Events \cup {Nobody},
                           left : SUBSET Nat, step : {"next", "item", "write", "failed"}]]

DoneItem(item) ==
  CASE item.kind = "inbound"  -> item.id \in stored
    [] item.kind = "template" -> item.id \in DOMAIN templates
    [] item.kind = "receipt"  -> <<item.id, item.status>> \in logged \cup early

(* The positions p has left are of its event, the items it has passed are  *)
(* done.                                                                   *)
Walked(p) ==
  proc[p].event # Nobody =>
    /\ proc[p].left \subseteq DOMAIN Payload[proc[p].event]
    /\ \A i \in DOMAIN Payload[proc[p].event] :
         i \notin proc[p].left => DoneItem(Payload[proc[p].event][i])

EventInv ==
  /\ ProcOK
  /\ received \in Seq(Events) /\ processed \subseteq Events
  /\ \A p \in Processors : Walked(p)
  /\ ProcessedIsComplete

Grows ==
  /\ stored \subseteq stored'
  /\ DOMAIN templates \subseteq DOMAIN templates'
  /\ logged \subseteq logged' /\ early \subseteq early'

LEMMA InitEvents == SlaInit /\ WebhookInit => EventInv
  BY DEF WebhookInit, EventInv, ProcOK, Walked, ProcessedIsComplete, Idle

LEMMA DoneStays ==
  ASSUME Grows, NEW e \in Events, NEW i \in DOMAIN Payload[e], DoneItem(Payload[e][i])
  PROVE  DoneItem(Payload[e][i])'
<1>1. Payload[e][i].kind \in ItemKinds BY WebhookConstants
<1> QED BY <1>1 DEF DoneItem, Grows, ItemKinds

LEMMA CompleteMeansDone ==
  ProcessedIsComplete <=>
    \A e \in processed : \A i \in DOMAIN Payload[e] : DoneItem(Payload[e][i])
  BY DEF ProcessedIsComplete, DoneItem

(* A step: enough that the walk of a processor it moves is still right.    *)
LEMMA StepKeeps ==
  ASSUME EventInv, Grows, ProcOK', received' \in Seq(Events), processed' = processed,
         \A q \in Processors : proc'[q] = proc[q] \/ Walked(q)'
  PROVE  EventInv'
<1>1. ASSUME NEW q \in Processors, proc'[q] = proc[q] PROVE Walked(q)'
  <2>1. Walked(q) /\ proc[q].event \in Events \cup {Nobody}
    BY DEF EventInv, ProcOK
  <2> SUFFICES ASSUME proc[q].event # Nobody,
                      NEW i \in DOMAIN Payload[proc[q].event], i \notin proc[q].left
               PROVE  DoneItem(Payload[proc[q].event][i])'
    BY <1>1, <2>1 DEF Walked
  <2>2. DoneItem(Payload[proc[q].event][i]) BY <2>1 DEF Walked
  <2> QED BY <1>1, <2>1, <2>2, DoneStays
<1>2. ProcessedIsComplete'
  <2>1. \A e \in processed' : \A i \in DOMAIN Payload[e] : DoneItem(Payload[e][i])'
    BY DoneStays, CompleteMeansDone DEF EventInv
  <2> QED BY <2>1 DEF ProcessedIsComplete, DoneItem
<1> QED BY <1>1, <1>2 DEF EventInv

(* Passing position i keeps the walk right when the item there is done.    *)
LEMMA NextItemWalked ==
  ASSUME EventInv, Grows, NEW p \in Processors, NEW i \in proc[p].left,
         proc[p].event # Nobody, NextItem(p, i), UNCHANGED <<received, processed>>,
         DoneItem(Payload[proc[p].event][i])'
  PROVE  EventInv'
<1>1. /\ proc[p].event \in Events
      /\ proc'[p] = [proc[p] EXCEPT !.left = @ \ {i}, !.step = "item"]
      /\ ProcOK'
      /\ \A q \in Processors : q # p => proc'[q] = proc[q]
  BY DEF EventInv, ProcOK, NextItem
<1>2. proc'[p].event = proc[p].event /\ proc'[p].left = proc[p].left \ {i}
  BY <1>1 DEF EventInv, ProcOK
<1>3. Walked(p)'
  <2> SUFFICES ASSUME NEW j \in DOMAIN Payload[proc[p].event], j \notin proc[p].left \ {i}
               PROVE  DoneItem(Payload[proc[p].event][j])'
    BY <1>2 DEF Walked, EventInv
  <2>1. CASE j = i BY <2>1
  <2>2. CASE j # i
    <3>1. DoneItem(Payload[proc[p].event][j])
      BY <2>2 DEF EventInv, Walked
    <3> QED BY <1>1, <1>2, <3>1, DoneStays
  <2> QED BY <2>1, <2>2
<1> QED BY <1>1, <1>3, StepKeeps DEF EventInv

(* A step that changes only the progress of the walk: the event and the    *)
(* positions left stay.                                                    *)
LEMMA SameWalk ==
  ASSUME EventInv, Grows, NEW p \in Processors, NEW st \in {"write", "failed"},
         proc' = [proc EXCEPT ![p].step = st], UNCHANGED <<received, processed>>
  PROVE  EventInv'
<1>1. /\ proc'[p] = [proc[p] EXCEPT !.step = st]
      /\ ProcOK'
      /\ \A q \in Processors : q # p => proc'[q] = proc[q]
  BY DEF EventInv, ProcOK
<1>2. /\ proc'[p].event = proc[p].event /\ proc'[p].left = proc[p].left
      /\ proc[p].event \in Events \cup {Nobody}
  BY <1>1 DEF EventInv, ProcOK
<1>3. Walked(p)'
  <2> SUFFICES ASSUME proc[p].event # Nobody, NEW j \in DOMAIN Payload[proc[p].event],
                      j \notin proc[p].left
               PROVE  DoneItem(Payload[proc[p].event][j])'
    BY <1>2 DEF Walked, EventInv
  <2>1. DoneItem(Payload[proc[p].event][j]) BY DEF EventInv, Walked
  <2> QED BY <1>2, <2>1, DoneStays
<1> QED BY <1>1, <1>3, StepKeeps DEF EventInv

(* A processor without an event has no walk.                               *)
LEMMA BetweenEvents ==
  ASSUME EventInv, Grows, NEW p \in Processors, NEW t \in SUBSET Events,
         proc' = [proc EXCEPT ![p] = [Idle EXCEPT !.todo = t]],
         received' \in Seq(Events), processed' = processed
  PROVE  EventInv'
<1>1. /\ proc'[p].event = Nobody /\ ProcOK'
      /\ \A q \in Processors : q # p => proc'[q] = proc[q]
  BY DEF EventInv, ProcOK, Idle
<1> QED BY <1>1, StepKeeps DEF Walked

LEMMA ItemEvents ==
  ASSUME EventInv, NEW p \in Processors, NEW i \in proc[p].left,
         \/ FindDuplicate(p, i) \/ WriteInbound(p, i)
         \/ ApplyTemplateStatus(p, i) \/ ApplyStatus(p, i)
  PROVE  EventInv' /\ Grows
<1> DEFINE item == Item(p, i)
<1>1. proc[p].event # Nobody /\ item = Payload[proc[p].event][i] /\ UNCHANGED <<received, processed>>
  BY DEF FindDuplicate, WriteInbound, ApplyTemplateStatus, ApplyStatus, AtItem, Item, eventVars
<1>2. CASE FindDuplicate(p, i)
  <2>1. Grows /\ UNCHANGED stored BY <1>2 DEF FindDuplicate, dataVars, Grows
  <2>2. CASE Raise(p) BY <1>1, <2>1, <2>2, SameWalk DEF Raise
  <2>3. CASE proc' = [proc EXCEPT ![p].step = "write"] BY <1>1, <2>1, <2>3, SameWalk
  <2>4. CASE NextItem(p, i) /\ item.id \in stored
    <3>1. item.kind = "inbound" BY <1>2 DEF FindDuplicate, AtItem
    <3>2. proc'[p].event = proc[p].event BY <2>4 DEF NextItem, EventInv, ProcOK
    <3>3. DoneItem(Payload[proc[p].event][i])'
      BY <1>1, <2>1, <2>4, <3>1, <3>2 DEF DoneItem
    <3> QED BY <1>1, <2>1, <2>4, <3>3, NextItemWalked
  <2> QED BY <1>2, <2>1, <2>2, <2>3, <2>4 DEF FindDuplicate
<1>3. CASE WriteInbound(p, i)
  <2>1. Grows /\ item.id \in stored' /\ item.kind = "inbound" /\ NextItem(p, i)
    BY <1>3 DEF WriteInbound, AtItem, Grows
  <2>2. proc'[p].event = proc[p].event BY <2>1 DEF NextItem, EventInv, ProcOK
  <2>3. DoneItem(Payload[proc[p].event][i])' BY <1>1, <2>1, <2>2 DEF DoneItem
  <2> QED BY <1>1, <2>1, <2>3, NextItemWalked
<1>4. CASE ApplyTemplateStatus(p, i)
  <2>1. Grows /\ item.kind = "template"
    BY <1>4 DEF ApplyTemplateStatus, AtItem, Grows
  <2>2. CASE Raise(p) BY <1>1, <2>1, <2>2, SameWalk DEF Raise
  <2>3. CASE NextItem(p, i) /\ item.id \in DOMAIN templates'
    <3>1. proc'[p].event = proc[p].event BY <2>3 DEF NextItem, EventInv, ProcOK
    <3>2. DoneItem(Payload[proc[p].event][i])' BY <1>1, <2>1, <2>3, <3>1 DEF DoneItem
    <3> QED BY <1>1, <2>1, <2>3, <3>2, NextItemWalked
  <2> QED BY <1>4, <2>1, <2>2, <2>3 DEF ApplyTemplateStatus
<1>5. CASE ApplyStatus(p, i)
  <2>1. /\ Grows /\ item.kind = "receipt" /\ NextItem(p, i)
        /\ <<item.id, item.status>> \in logged' \cup early'
    BY <1>5 DEF ApplyStatus, AtItem, Grows
  <2>2. proc'[p].event = proc[p].event BY <2>1 DEF NextItem, EventInv, ProcOK
  <2>3. DoneItem(Payload[proc[p].event][i])' BY <1>1, <2>1, <2>2 DEF DoneItem
  <2> QED BY <1>1, <2>1, <2>3, NextItemWalked
<1> QED BY <1>2, <1>3, <1>4, <1>5

(* Every step of the processors.                                           *)
LEMMA NextEvents == ASSUME EventInv, WebhookNext PROVE EventInv' /\ Grows
<1>1. ASSUME NEW e \in Events, Receive(e) \/ LeaseExpires(e) \/ DelayEnds(e)
      PROVE  EventInv' /\ Grows
  <2>1. Grows /\ UNCHANGED <<proc, processed>> /\ received' \in Seq(Events)
    BY <1>1 DEF Receive, LeaseExpires, DelayEnds, dataVars, Grows, EventInv
  <2> QED BY <2>1, StepKeeps DEF EventInv, ProcOK
<1>2. ASSUME NEW o \in Outbounds, CommitSubmitted(o) PROVE EventInv' /\ Grows
  <2>1. Grows /\ UNCHANGED <<proc, processed, received>>
    BY <1>2 DEF CommitSubmitted, eventVars, Grows
  <2> QED BY <2>1, StepKeeps DEF EventInv, ProcOK
<1>3. CASE ReadConversation
  <2>1. Grows /\ UNCHANGED <<proc, processed, received>>
    BY <1>3 DEF ReadConversation, eventVars, Grows
  <2> QED BY <2>1, StepKeeps DEF EventInv, ProcOK
<1>4. ASSUME NEW p \in Processors, ClaimEvents(p) PROVE EventInv' /\ Grows
  <2>1. /\ Grows /\ UNCHANGED <<processed, received>> /\ proc[p] = Idle
        /\ proc' = [proc EXCEPT ![p].todo = OldestFirst]
    BY <1>4 DEF ClaimEvents, dataVars, Grows
  <2>2. OldestFirst \in SUBSET Events
    <3>1. Range(received) \subseteq Events BY DEF EventInv, Range
    <3> QED BY <3>1 DEF OldestFirst, Claimable
  <2>3. proc' = [proc EXCEPT ![p] = [Idle EXCEPT !.todo = OldestFirst]]
    BY <2>1 DEF EventInv, ProcOK
  <2> QED BY <2>1, <2>2, <2>3, BetweenEvents DEF EventInv
<1>5. ASSUME NEW p \in Processors, NEW e \in Events, TakeEvent(p, e)
      PROVE  EventInv' /\ Grows
  <2>1. Grows /\ UNCHANGED <<processed, received>>
    BY <1>5 DEF TakeEvent, eventVars, dataVars, Grows
  <2>2. DOMAIN Payload[e] = Work(e) /\ Work(e) \subseteq Nat
    BY WebhookConstants DEF Work, OfKind, ItemKinds
  <2>3. /\ proc'[p].event = e /\ proc'[p].left = Work(e) /\ ProcOK'
        /\ \A q \in Processors : q # p => proc'[q] = proc[q]
    BY <1>5, <2>2 DEF TakeEvent, EventInv, ProcOK
  <2>4. Walked(p)' BY <2>2, <2>3 DEF Walked
  <2> QED BY <2>1, <2>3, <2>4, StepKeeps DEF EventInv
<1>6. ASSUME NEW p \in Processors, MarkProcessed(p) PROVE EventInv' /\ Grows
  <2> DEFINE e == proc[p].event
  <2>1. /\ Grows /\ received' = received /\ processed' = processed \cup {e}
        /\ e # Nobody /\ proc[p].left = {} /\ UNCHANGED dataVars
        /\ proc' = [proc EXCEPT ![p] = [Idle EXCEPT !.todo = proc[p].todo]]
    BY <1>6 DEF MarkProcessed, dataVars, Grows
  <2>2. e \in Events /\ proc[p].todo \in SUBSET Events BY <2>1 DEF EventInv, ProcOK
  <2>3. \A i \in DOMAIN Payload[e] : DoneItem(Payload[e][i])
    BY <2>1 DEF EventInv, Walked
  <2>4. ProcOK' /\ \A q \in Processors : Walked(q)'
    <3>1. /\ proc'[p].event = Nobody /\ ProcOK'
          /\ \A q \in Processors : q # p => proc'[q] = proc[q]
      BY <2>1, <2>2 DEF EventInv, ProcOK, Idle
    <3>2. ASSUME NEW q \in Processors, q # p PROVE Walked(q)'
      <4>1. Walked(q) /\ proc'[q] = proc[q] BY <3>1, <3>2 DEF EventInv
      <4> QED BY <2>1, <4>1 DEF Walked, DoneItem, dataVars
    <3> QED BY <3>1, <3>2 DEF Walked
  <2>5. ProcessedIsComplete'
    <3>1. \A d \in processed' : \A i \in DOMAIN Payload[d] : DoneItem(Payload[d][i])
      BY <2>1, <2>3, CompleteMeansDone DEF EventInv
    <3> QED BY <2>1, <3>1 DEF ProcessedIsComplete, DoneItem, dataVars
  <2> QED BY <2>1, <2>2, <2>4, <2>5 DEF EventInv
<1>7. ASSUME NEW p \in Processors, RetryLater(p) PROVE EventInv' /\ Grows
  <2>1. /\ Grows /\ UNCHANGED <<processed, received>>
        /\ proc' = [proc EXCEPT ![p] = [Idle EXCEPT !.todo = proc[p].todo]]
    BY <1>7 DEF RetryLater, dataVars, Grows
  <2>2. PICK t \in SUBSET Events : t = proc[p].todo BY DEF EventInv, ProcOK
  <2> QED BY <2>1, <2>2, BetweenEvents DEF EventInv
<1>8. ASSUME NEW p \in Processors, StatementFails(p) PROVE EventInv' /\ Grows
  <2>1. Grows /\ UNCHANGED <<processed, received>> /\ Raise(p)
    BY <1>8 DEF StatementFails, eventVars, dataVars, Grows
  <2> QED BY <2>1, SameWalk DEF Raise
<1>9. ASSUME NEW p \in Processors, AbandonBatch(p) PROVE EventInv' /\ Grows
  <2>1. /\ Grows /\ UNCHANGED <<processed, received>>
        /\ proc' = [proc EXCEPT ![p] = [Idle EXCEPT !.todo = {}]]
    BY <1>9 DEF AbandonBatch, eventVars, dataVars, Grows, Idle
  <2>2. PICK t \in SUBSET Events : t = {} OBVIOUS
  <2> QED BY <2>1, <2>2, BetweenEvents DEF EventInv
<1> QED
  BY <1>1, <1>2, <1>3, <1>4, <1>5, <1>6, <1>7, <1>8, <1>9, ItemEvents
     DEF WebhookNext, ProcessorStep

-----------------------------------------------------------------------------
(* What the inbound messages leave behind.                                 *)

LEMMA MaxIs ==
  ASSUME NEW S \in SUBSET Int, NEW m \in S, \A y \in S : m >= y PROVE Max(S) = m
<1>1. \A x \in S : (\A y \in S : x >= y) => x = m OBVIOUS
<1> QED BY <1>1 DEF Max

(* The latest timestamp of the stored messages, None without any.          *)
IsLatest(t) ==
  IF stored = {}
  THEN t = None
  ELSE /\ \E m \in stored : SentAt[m] = t
       /\ \A m \in stored : SentAt[m] <= t

CountInv ==
  /\ stored \subseteq Inbounds /\ IsFiniteSet(stored) /\ seen \subseteq stored
  /\ unread = Cardinality(stored \ seen)
  /\ contact \in [lastInboundAt : Int, serviceWindowExpiresAt : Int]
  /\ IsLatest(lastInboundAt)
  /\ contact.lastInboundAt = lastInboundAt
  /\ stored # {} => contact.serviceWindowExpiresAt = lastInboundAt + ServiceWindow

LEMMA InitCount == SlaInit /\ WebhookInit => CountInv
  BY FS_EmptySet DEF SlaInit, WebhookInit, CountInv, IsLatest, None

LEMMA CountMeansOnce == ASSUME CountInv PROVE InboundCountsOnce
<1> SUFFICES ASSUME stored # {}
             PROVE  Max({SentAt[m] : m \in stored}) = lastInboundAt
  BY DEF InboundCountsOnce, CountInv
<1>1. {SentAt[m] : m \in stored} \in SUBSET Int
  BY WebhookConstants DEF CountInv, Time
<1>2. lastInboundAt \in {SentAt[m] : m \in stored}
  BY DEF CountInv, IsLatest
<1>3. \A y \in {SentAt[m] : m \in stored} : lastInboundAt >= y
  BY <1>1, <1>2 DEF CountInv, IsLatest
<1> QED BY <1>1, <1>2, <1>3, MaxIs

(* A message that was not stored: the write counts it and moves the times  *)
(* to its own when it is the latest.                                       *)
LEMMA WriteCounts ==
  ASSUME CountInv, NEW m \in Inbounds, m \notin stored, stored' = stored \cup {m},
         seen' = seen, TouchContact(SentAt[m]), RecordInbound(SentAt[m])
  PROVE  CountInv'
<1> DEFINE t == SentAt[m]
<1>1. t \in Time /\ t \in Nat BY WebhookConstants DEF Time
<1>2. lastInboundAt \in Int /\ (stored = {} => lastInboundAt = -1)
  BY WebhookConstants DEF CountInv, IsLatest, None
<1>3. lastInboundAt' = IF lastInboundAt < t THEN t ELSE lastInboundAt
  BY <1>1, <1>2 DEF RecordInbound, Latest
<1>4. IsLatest(lastInboundAt)'
  <2>1. \A x \in stored : SentAt[x] \in Int /\ SentAt[x] <= lastInboundAt
    BY WebhookConstants DEF CountInv, IsLatest, Time
  <2>2. stored # {} => \E x \in stored : SentAt[x] = lastInboundAt
    BY DEF CountInv, IsLatest
  <2>3. \A x \in stored' : SentAt[x] <= lastInboundAt'
    BY <1>1, <1>2, <1>3, <2>1
  <2>4. \E x \in stored' : SentAt[x] = lastInboundAt'
    BY <1>1, <1>2, <1>3, <2>2
  <2>5. stored' # {} OBVIOUS
  <2> QED BY <2>3, <2>4, <2>5 DEF IsLatest
<1>5. /\ contact' \in [lastInboundAt : Int, serviceWindowExpiresAt : Int]
      /\ contact'.lastInboundAt = lastInboundAt'
      /\ contact'.serviceWindowExpiresAt = lastInboundAt' + ServiceWindow
  BY <1>1, <1>2, <1>3, WebhookConstants DEF TouchContact, CountInv
<1>6. unread' = Cardinality(stored' \ seen')
  <2>1. IsFiniteSet(stored \ seen) BY FS_Subset DEF CountInv
  <2>2. stored' \ seen' = (stored \ seen) \cup {m} /\ m \notin stored \ seen
    BY DEF CountInv
  <2>3. Cardinality((stored \ seen) \cup {m}) = Cardinality(stored \ seen) + 1
    BY <2>1, <2>2, FS_AddElement
  <2> QED BY <2>2, <2>3 DEF RecordInbound, CountInv
<1>7. IsFiniteSet(stored') BY FS_AddElement DEF CountInv
<1> QED BY <1>4, <1>5, <1>6, <1>7 DEF CountInv

LEMMA CountStays ==
  ASSUME CountInv, UNCHANGED <<stored, seen, contact, unread, lastInboundAt>>
  PROVE  CountInv'
  BY DEF CountInv, IsLatest

LEMMA NextCount == ASSUME EventInv, CountInv, WebhookNext PROVE CountInv'
<1>1. ASSUME NEW p \in Processors, NEW i \in proc[p].left, WriteInbound(p, i)
      PROVE  CountInv'
  <2> DEFINE m == Item(p, i).id
  <2>1. CASE m \in stored
    BY <1>1, <2>1, CountStays DEF WriteInbound, slaVars
  <2>2. CASE m \notin stored
    <3>1. proc[p].event \in Events BY <1>1 DEF WriteInbound, AtItem, EventInv, ProcOK
    <3>2. i \in DOMAIN Payload[proc[p].event] /\ Payload[proc[p].event][i].kind = "inbound"
      BY <1>1 DEF WriteInbound, AtItem, Item, EventInv, Walked
    <3>3. m \in Inbounds BY <3>1, <3>2, WebhookConstants DEF Item
    <3> QED BY <1>1, <2>2, <3>3, WriteCounts DEF WriteInbound
  <2> QED BY <2>1, <2>2
<1>2. CASE ReadConversation
  <2>1. stored \ stored = {} OBVIOUS
  <2> QED BY <1>2, <2>1, FS_EmptySet DEF ReadConversation, MarkRead, CountInv, IsLatest
<1>3. CASE UNCHANGED <<stored, seen, contact, slaVars>>
  BY <1>3, CountStays DEF slaVars
<1>4. ASSUME NEW e \in Events, Receive(e) \/ LeaseExpires(e) \/ DelayEnds(e)
      PROVE  CountInv'
  BY <1>3, <1>4 DEF Receive, LeaseExpires, DelayEnds, dataVars
<1>5. ASSUME NEW o \in Outbounds, CommitSubmitted(o) PROVE CountInv'
  BY <1>3, <1>5 DEF CommitSubmitted
<1>6. ASSUME NEW p \in Processors, StatementFails(p) \/ AbandonBatch(p) \/ ClaimEvents(p)
                                   \/ MarkProcessed(p) \/ RetryLater(p)
      PROVE  CountInv'
  BY <1>3, <1>6 DEF StatementFails, AbandonBatch, ClaimEvents, MarkProcessed, RetryLater, dataVars
<1>7. ASSUME NEW p \in Processors, NEW e \in Events, TakeEvent(p, e) PROVE CountInv'
  BY <1>3, <1>7 DEF TakeEvent, dataVars
<1>8. ASSUME NEW p \in Processors, NEW i \in proc[p].left,
             FindDuplicate(p, i) \/ ApplyTemplateStatus(p, i) \/ ApplyStatus(p, i)
      PROVE  CountInv'
  BY <1>3, <1>8 DEF FindDuplicate, ApplyTemplateStatus, ApplyStatus, dataVars
<1> QED
  BY <1>1, <1>2, <1>4, <1>5, <1>6, <1>7, <1>8 DEF WebhookNext, ProcessorStep

-----------------------------------------------------------------------------
(* Receipts.  Until one says FAILED, a message has the status it was       *)
(* submitted with or one that is logged, and no logged one ranks above it. *)

Highest(o) ==
  /\ ~HasProviderId(o) => \A s \in ReceiptStatus : <<o, s>> \notin logged
  /\ HasProviderId(o) /\ <<o, "FAILED">> \notin logged =>
       /\ outbound[o] = "SUBMITTED" \/ <<o, outbound[o]>> \in logged
       /\ \A s \in ReceiptStatus : <<o, s>> \in logged =>
            STATUS_RANK[s] <= STATUS_RANK[outbound[o]]

ReceiptInv ==
  /\ outbound \in [Outbounds -> {"PROCESSING", "SUBMITTED"} \cup ReceiptStatus]
  /\ \A o \in Outbounds : Highest(o)

LEMMA Ranks ==
  /\ STATUS_RANK["SUBMITTED"] = 3 /\ STATUS_RANK["SENT"] = 4
  /\ STATUS_RANK["DELIVERED"] = 5 /\ STATUS_RANK["READ"] = 6
  BY DEF STATUS_RANK, Status

LEMMA InitReceipts == SlaInit /\ WebhookInit => ReceiptInv
  BY DEF WebhookInit, ReceiptInv, Highest, HasProviderId

LEMMA HighestMeansCommute == ASSUME ReceiptInv PROVE ReceiptsCommute
<1> SUFFICES ASSUME NEW o \in Outbounds, HasProviderId(o), <<o, "FAILED">> \notin logged
             PROVE  LET got == {s \in ReceiptStatus : <<o, s>> \in logged}
                    IN STATUS_RANK[outbound[o]]
                         = Max({STATUS_RANK[s] : s \in got \cup {"SUBMITTED"}})
  BY DEF ReceiptsCommute, ReceiptStatus
<1> DEFINE got == {s \in ReceiptStatus : <<o, s>> \in logged}
           S == {STATUS_RANK[s] : s \in got \cup {"SUBMITTED"}}
<1>1. got \subseteq {"SENT", "DELIVERED", "READ"} BY DEF ReceiptStatus
<1>2. S \in SUBSET Int
  <2>1. \A s \in {"SUBMITTED", "SENT", "DELIVERED", "READ"} : STATUS_RANK[s] \in Int
    BY Ranks
  <2>2. \A s \in got \cup {"SUBMITTED"} : STATUS_RANK[s] \in Int BY <1>1, <2>1
  <2> QED BY <2>2
<1>3. outbound[o] \in got \cup {"SUBMITTED"}
  BY DEF ReceiptInv, Highest, HasProviderId
<1>4. STATUS_RANK[outbound[o]] \in S BY <1>3
<1>5. \A s \in got \cup {"SUBMITTED"} : STATUS_RANK[outbound[o]] >= STATUS_RANK[s]
  <2>1. \A s \in got : STATUS_RANK[s] <= STATUS_RANK[outbound[o]]
    BY DEF ReceiptInv, Highest
  <2> QED BY <1>1, <1>3, <2>1, Ranks
<1>6. \A y \in S : STATUS_RANK[outbound[o]] >= y BY <1>5
<1> QED BY <1>2, <1>4, <1>6, MaxIs

(* A receipt of status s for a message with a provider id.                 *)
LEMMA ReceiptHighest ==
  ASSUME ReceiptInv, NEW o \in Outbounds, NEW s \in ReceiptStatus, HasProviderId(o),
         logged' = logged \cup {<<o, s>>},
         outbound' = [outbound EXCEPT ![o] = IF ShouldApplyStatus(@, s) THEN s ELSE @]
  PROVE  ReceiptInv'
<1>1. /\ outbound' \in [Outbounds -> {"PROCESSING", "SUBMITTED"} \cup ReceiptStatus]
      /\ outbound'[o] = IF ShouldApplyStatus(outbound[o], s) THEN s ELSE outbound[o]
      /\ \A q \in Outbounds : q # o => outbound'[q] = outbound[q]
  BY DEF ReceiptInv
<1>2. ASSUME NEW q \in Outbounds, q # o PROVE Highest(q)'
  BY <1>1, <1>2 DEF ReceiptInv, Highest, HasProviderId
<1>3. Highest(o)'
  <2>1. HasProviderId(o)' BY <1>1 DEF HasProviderId, ReceiptStatus
  <2> SUFFICES ASSUME <<o, "FAILED">> \notin logged'
               PROVE  /\ outbound'[o] = "SUBMITTED" \/ <<o, outbound'[o]>> \in logged'
                      /\ \A x \in ReceiptStatus : <<o, x>> \in logged' =>
                           STATUS_RANK[x] <= STATUS_RANK[outbound'[o]]
    BY <2>1 DEF Highest
  <2>2. s \in {"SENT", "DELIVERED", "READ"} BY DEF ReceiptStatus
  <2>3. /\ outbound[o] = "SUBMITTED" \/ <<o, outbound[o]>> \in logged
        /\ outbound[o] \in {"SUBMITTED", "SENT", "DELIVERED", "READ"}
        /\ \A x \in ReceiptStatus : <<o, x>> \in logged =>
             STATUS_RANK[x] <= STATUS_RANK[outbound[o]]
    BY DEF ReceiptInv, Highest, HasProviderId, ReceiptStatus
  <2>4. ShouldApplyStatus(outbound[o], s) <=> STATUS_RANK[s] >= STATUS_RANK[outbound[o]]
    BY <2>2, <2>3 DEF ShouldApplyStatus
  <2>5. \A x \in ReceiptStatus : <<o, x>> \in logged' =>
          x \in {"SENT", "DELIVERED", "READ"} /\ (x = s \/ <<o, x>> \in logged)
    BY DEF ReceiptStatus
  <2>6. outbound'[o] = "SUBMITTED" \/ <<o, outbound'[o]>> \in logged'
    BY <1>1, <2>3
  <2>7. ASSUME NEW x \in ReceiptStatus, <<o, x>> \in logged'
        PROVE  STATUS_RANK[x] <= STATUS_RANK[outbound'[o]]
    <3>1. STATUS_RANK[x] \in Int /\ STATUS_RANK[s] \in Int /\ STATUS_RANK[outbound[o]] \in Int
      BY <2>2, <2>3, <2>5, <2>7, Ranks
    <3>2. x = s \/ STATUS_RANK[x] <= STATUS_RANK[outbound[o]] BY <2>3, <2>5, <2>7
    <3> QED BY <1>1, <2>4, <3>1, <3>2
  <2> QED BY <2>6, <2>7
<1> QED BY <1>1, <1>2, <1>3 DEF ReceiptInv

LEMMA NextReceipts == ASSUME EventInv, ReceiptInv, WebhookNext PROVE ReceiptInv'
<1>1. CASE UNCHANGED <<outbound, logged>>
  BY <1>1 DEF ReceiptInv, Highest, HasProviderId
<1>2. ASSUME NEW p \in Processors, NEW i \in proc[p].left, ApplyStatus(p, i)
      PROVE  ReceiptInv'
  <2>1. CASE HasProviderId(Item(p, i).id)
    <3>1. proc[p].event \in Events BY <1>2 DEF ApplyStatus, AtItem, EventInv, ProcOK
    <3>2. i \in DOMAIN Payload[proc[p].event] /\ Payload[proc[p].event][i].kind = "receipt"
      BY <1>2 DEF ApplyStatus, AtItem, Item, EventInv, Walked
    <3>3. Item(p, i).id \in Outbounds /\ Item(p, i).status \in ReceiptStatus
      BY <3>1, <3>2, WebhookConstants DEF Item
    <3> QED BY <1>2, <2>1, <3>3, ReceiptHighest DEF ApplyStatus
  <2>2. CASE ~HasProviderId(Item(p, i).id) BY <1>1, <1>2, <2>2 DEF ApplyStatus
  <2> QED BY <2>1, <2>2
<1>3. ASSUME NEW o \in Outbounds, CommitSubmitted(o) PROVE ReceiptInv'
  <2>1. /\ outbound[o] = "PROCESSING" /\ logged' = logged
        /\ outbound' = [outbound EXCEPT ![o] = "SUBMITTED"]
    BY <1>3 DEF CommitSubmitted
  <2> QED BY <2>1 DEF ReceiptInv, Highest, HasProviderId
<1>4. ASSUME NEW e \in Events, Receive(e) \/ LeaseExpires(e) \/ DelayEnds(e)
      PROVE  ReceiptInv'
  BY <1>1, <1>4 DEF Receive, LeaseExpires, DelayEnds, dataVars
<1>5. CASE ReadConversation BY <1>1, <1>5 DEF ReadConversation
<1>6. ASSUME NEW p \in Processors, StatementFails(p) \/ AbandonBatch(p) \/ ClaimEvents(p)
                                   \/ MarkProcessed(p) \/ RetryLater(p)
      PROVE  ReceiptInv'
  BY <1>1, <1>6 DEF StatementFails, AbandonBatch, ClaimEvents, MarkProcessed, RetryLater, dataVars
<1>7. ASSUME NEW p \in Processors, NEW e \in Events, TakeEvent(p, e) PROVE ReceiptInv'
  BY <1>1, <1>7 DEF TakeEvent, dataVars
<1>8. ASSUME NEW p \in Processors, NEW i \in proc[p].left,
             FindDuplicate(p, i) \/ WriteInbound(p, i) \/ ApplyTemplateStatus(p, i)
      PROVE  ReceiptInv'
  BY <1>1, <1>8 DEF FindDuplicate, WriteInbound, ApplyTemplateStatus, dataVars
<1> QED
  BY <1>2, <1>3, <1>4, <1>5, <1>6, <1>7, <1>8 DEF WebhookNext, ProcessorStep

-----------------------------------------------------------------------------
(* Processors and row together.                                            *)

(* What the processors do to the row: an inbound message, a read mark or   *)
(* nothing.                                                                *)
LEMMA ProcessorsOnRow ==
  ASSUME EventInv, WebhookNext
  PROVE  UNCHANGED slaVars \/ MarkRead \/ \E t \in Time : RecordInbound(t)
<1>1. ASSUME NEW p \in Processors, NEW i \in proc[p].left, WriteInbound(p, i)
      PROVE  UNCHANGED slaVars \/ \E t \in Time : RecordInbound(t)
  <2>1. proc[p].event \in Events BY <1>1 DEF WriteInbound, AtItem, EventInv, ProcOK
  <2>2. i \in DOMAIN Payload[proc[p].event] /\ Payload[proc[p].event][i].kind = "inbound"
    BY <1>1 DEF WriteInbound, AtItem, Item, EventInv, Walked
  <2>3. SentAt[Item(p, i).id] \in Time BY <2>1, <2>2, WebhookConstants DEF Item
  <2> QED BY <1>1, <2>3 DEF WriteInbound
<1> QED
  BY <1>1 DEF WebhookNext, ProcessorStep, Receive, LeaseExpires, DelayEnds, StatementFails,
     AbandonBatch, CommitSubmitted, ReadConversation, ClaimEvents, TakeEvent,
     FindDuplicate, ApplyTemplateStatus, ApplyStatus, MarkProcessed, RetryLater

ConversationInv == IInv /\ EventInv /\ CountInv /\ ReceiptInv

LEMMA NextConversation ==
  ASSUME ConversationInv, [ConversationNext]_<<webhookVars, slaVars>>
  PROVE  ConversationInv'
<1>1. CASE WebhookNext
  <2>1. IInv'
    <3>1. CASE MarkRead BY <3>1, RowIInv DEF ConversationInv, RowStep
    <3> QED BY <1>1, <3>1, ProcessorsOnRow, InboundIInv, RowIInv DEF ConversationInv
  <2> QED BY <1>1, <2>1, NextEvents, NextCount, NextReceipts DEF ConversationInv
<1>2. CASE ((RowStep /\ UNCHANGED unread) \/ UNCHANGED slaVars) /\ UNCHANGED webhookVars
  <2>1. UNCHANGED <<received, processed, proc, stored, seen, contact, templates, outbound,
                    logged, early>>
    BY <1>2 DEF webhookVars, eventVars, dataVars
  <2>2. UNCHANGED <<unread, lastInboundAt>>
    BY <1>2 DEF slaVars, RowStep, AcceptReply, CommitReply, ReplyFails, BeginUpdate,
       UpdateConversation, MarkRead, UpdateTeamPolicy, EscalateOverdue, Tick
  <2>3. IInv' BY <1>2, RowIInv DEF ConversationInv
  <2>4. EventInv'
    <3>1. Grows /\ ProcOK' BY <2>1 DEF Grows, ConversationInv, EventInv, ProcOK
    <3> QED BY <2>1, <3>1, StepKeeps DEF ConversationInv, EventInv
  <2>5. CountInv' BY <2>1, <2>2, CountStays DEF ConversationInv
  <2>6. ReceiptInv' BY <2>1 DEF ConversationInv, ReceiptInv, Highest, HasProviderId
  <2> QED BY <2>3, <2>4, <2>5, <2>6 DEF ConversationInv
<1> QED BY <1>1, <1>2 DEF ConversationNext

LEMMA AlwaysConversation == ConversationSpec => []ConversationInv
<1>1. SlaInit /\ WebhookInit => ConversationInv
  BY InitIInv, InitEvents, InitCount, InitReceipts DEF ConversationInv
<1> QED BY <1>1, NextConversation, PTL DEF ConversationSpec

(* Redelivered, retried or processed twice at once, an inbound message     *)
(* counts once, and window and conversation follow the latest: for every   *)
(* set of deliveries, payloads and processors.                             *)
THEOREM EachInboundCountsOnce == ConversationSpec => []InboundCountsOnce
<1>1. ConversationInv => InboundCountsOnce BY CountMeansOnce DEF ConversationInv
<1> QED BY <1>1, AlwaysConversation, PTL

(* An event marked processed has nothing left undone.                      *)
THEOREM ProcessedIsDone == ConversationSpec => []ProcessedIsComplete
<1>1. ConversationInv => ProcessedIsComplete BY DEF ConversationInv, EventInv
<1> QED BY <1>1, AlwaysConversation, PTL

(* The status of a message is the highest receipt logged, whatever order   *)
(* the receipts came in.                                                   *)
THEOREM ReceiptsAlwaysCommute == ConversationSpec => []ReceiptsCommute
<1>1. ConversationInv => ReceiptsCommute BY HighestMeansCommute DEF ConversationInv
<1> QED BY <1>1, AlwaysConversation, PTL

(* With processors at work on it too, the row of the conversation is never *)
(* refused by its check, and a cycle that waits has no reply.              *)
THEOREM RowHoldsUnderProcessors ==
  ConversationSpec => [](CycleCheckHolds /\ WaitingHasNoReply)
<1>1. ConversationInv => CycleCheckHolds /\ WaitingHasNoReply
  BY DEF ConversationInv, IInv
<1> QED BY <1>1, AlwaysConversation, PTL
=============================================================================
