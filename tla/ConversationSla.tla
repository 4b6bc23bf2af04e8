------------------------- MODULE ConversationSla -------------------------
(***************************************************************************)
(* The row of one conversation: its activity timestamps, its unread        *)
(* counter and the response-SLA cycle of the current customer turn.        *)
(* Inbound and outbound activity reach it through                          *)
(* ConversationActivityService, moves between teams through                *)
(* updateConversation and the trigger of the assignment table, the         *)
(* deadline through the scanner of InboxResponseSlaEscalationService.      *)
(*                                                                         *)
(* Times are small integers; None, below every time, is SQL's NULL, which  *)
(* the code reads as minus infinity (COALESCE) wherever it compares it.    *)
(* A reply carries the time create() took before its transaction began,    *)
(* and a move carries CURRENT_TIMESTAMP, the start of its transaction:     *)
(* both may be older than what was committed since.                        *)
(***************************************************************************)
EXTENDS Integers

CONSTANTS
  Teams,          \* inbox teams the conversation can be moved to
  NoTeam,         \* no team assignment row
  Policies,       \* values of responseSlaMinutes, in units of the clock
  Replies,        \* concurrent create() calls that send a free-form reply
  Movers,         \* concurrent updateConversation() calls
  MaxTime,        \* bound of the clock
  MaxUnread       \* bound of the unread counter

None == -1

ASSUME SlaConstants ==
  /\ NoTeam \notin Teams
  /\ Policies \subseteq Nat \ {0}
  /\ MaxTime \in Nat
  /\ MaxUnread \in Nat

VARIABLES
  now,            \* the clock
  status,         \* Conversation.status, "NONE" while there is no row
  unread,         \* Conversation.unreadCount
  lastInboundAt,  \* Conversation.lastInboundAt
  lastOutboundAt, \* Conversation.lastOutboundAt
  startedAt,      \* Conversation.responseSlaStartedAt
  dueAt,          \* Conversation.responseSlaDueAt
  respondedAt,    \* Conversation.responseSlaRespondedAt
  escalatedAt,    \* Conversation.responseSlaEscalatedAt
  team,           \* ConversationTeamAssignment.teamId, or NoTeam
  slaMinutes,     \* InboxTeam.responseSlaMinutes
  acceptedAt,     \* acceptedAt of the create() calls that have not committed
  begunAt         \* start of the updateConversation() transactions

cycleVars == <<startedAt, dueAt, respondedAt, escalatedAt>>
slaVars == <<now, status, unread, lastInboundAt, lastOutboundAt, cycleVars,
             team, slaMinutes, acceptedAt, begunAt>>

Time == 0 .. MaxTime
ConversationStatus == {"OPEN", "PENDING", "RESOLVED"}
Latest(a, b) == IF a >= b THEN a ELSE b

SlaInit ==
  /\ now = 0
  /\ status = "NONE"
  /\ unread = 0
  /\ lastInboundAt = None /\ lastOutboundAt = None
  /\ startedAt = None /\ dueAt = None
  /\ respondedAt = None /\ escalatedAt = None
  /\ team = NoTeam
  /\ slaMinutes \in [Teams -> Policies \cup {None}]
  /\ acceptedAt = [r \in Replies |-> None]
  /\ begunAt = [m \in Movers |-> None]

-----------------------------------------------------------------------------
(* Mutant: the new cycle inherits the escalation of the last one.           *)
StartCycleStillEscalated(t, minutes) ==
  /\ startedAt' = t
  /\ dueAt' = t + minutes
  /\ respondedAt' = None
  /\ UNCHANGED escalatedAt

(* ConversationActivityService: one upsert for each message.  The insert   *)
(* is the update of the row of nulls: no team yet, so no cycle either.     *)
StartCycle(t, minutes) ==
  /\ startedAt' = t
  /\ dueAt' = t + minutes
  /\ respondedAt' = None
  /\ escalatedAt' = None

ClearCycle ==
  /\ startedAt' = None
  /\ dueAt' = None
  /\ respondedAt' = None
  /\ escalatedAt' = None

(* Mutant: every newer message of the customer starts a cycle.              *)
StartsCycleAgain(t) == t > lastInboundAt /\ t > lastOutboundAt

(* Mutant: only a response in time closes the cycle.                        *)
ClosesUnlessEscalated(t) ==
  /\ status # "RESOLVED"
  /\ startedAt # None /\ dueAt # None
  /\ respondedAt = None
  /\ escalatedAt = None
  /\ t >= startedAt
  /\ t > lastOutboundAt

(* The conditions of the two CASE expressions.                             *)
StartsResponseSlaCycle(t) ==
  /\ t > lastInboundAt
  /\ t > lastOutboundAt
  /\ status = "RESOLVED" \/ dueAt = None \/ respondedAt # None

ClosesResponseSlaCycle(t) ==
  /\ status # "RESOLVED"
  /\ startedAt # None /\ dueAt # None
  /\ respondedAt = None
  /\ t >= startedAt
  /\ t > lastOutboundAt

ResponseSlaMinutes == IF team = NoTeam THEN None ELSE slaMinutes[team]

RecordInbound(t) ==
  /\ status' = "OPEN"
  /\ unread' = unread + 1
  /\ lastInboundAt' = Latest(lastInboundAt, t)
  /\ IF StartsResponseSlaCycle(t)
     THEN IF ResponseSlaMinutes = None
          THEN ClearCycle
          ELSE StartCycle(t, ResponseSlaMinutes)
     ELSE UNCHANGED cycleVars
  /\ UNCHANGED <<now, lastOutboundAt, team, slaMinutes, acceptedAt, begunAt>>

RecordOutbound(t) ==
  /\ status' = "OPEN"
  /\ lastOutboundAt' = Latest(lastOutboundAt, t)
  /\ IF status = "RESOLVED"
     THEN ClearCycle
     ELSE /\ respondedAt' = IF ClosesResponseSlaCycle(t) THEN t ELSE respondedAt
          /\ UNCHANGED <<startedAt, dueAt, escalatedAt>>

(* An inbound message of the provider, delivered at or after the time its  *)
(* timestamp gives, in any order.                                          *)
Inbound(t) ==
  /\ t <= now
  /\ unread < MaxUnread
  /\ RecordInbound(t)

(* MessagesService.create takes acceptedAt, then runs the transaction that *)
(* writes the message; the transaction may also fail.                      *)
AcceptReply(r) ==
  /\ acceptedAt[r] = None
  /\ acceptedAt' = [acceptedAt EXCEPT ![r] = now]
  /\ UNCHANGED <<now, status, unread, lastInboundAt, lastOutboundAt, cycleVars,
                 team, slaMinutes, begunAt>>

CommitReply(r) ==
  /\ acceptedAt[r] # None
  /\ RecordOutbound(acceptedAt[r])
  /\ acceptedAt' = [acceptedAt EXCEPT ![r] = None]
  /\ UNCHANGED <<now, unread, lastInboundAt, team, slaMinutes, begunAt>>

ReplyFails(r) ==
  /\ acceptedAt[r] # None
  /\ acceptedAt' = [acceptedAt EXCEPT ![r] = None]
  /\ UNCHANGED <<now, status, unread, lastInboundAt, lastOutboundAt, cycleVars,
                 team, slaMinutes, begunAt>>

-----------------------------------------------------------------------------
(* InboxService.updateConversation and the trigger of the team assignment. *)

(* The UPDATE of applyConversationTeamResponseSla, for a transaction that  *)
(* began at c and assigns a team with this policy.                         *)
ApplyConversationTeamResponseSla(c, minutes) ==
  IF /\ minutes # None
     /\ status \in {"OPEN", "PENDING"}
     /\ lastInboundAt # None
     /\ lastInboundAt > lastOutboundAt
     /\ dueAt = None \/ respondedAt # None
  THEN StartCycle(c, minutes)
  ELSE UNCHANGED cycleVars

BeginUpdate(m) ==
  /\ begunAt[m] = None
  /\ begunAt' = [begunAt EXCEPT ![m] = now]
  /\ UNCHANGED <<now, status, unread, lastInboundAt, lastOutboundAt, cycleVars,
                 team, slaMinutes, acceptedAt>>

FinalTeam(assignedTeam) == IF assignedTeam = "KEEP" THEN team ELSE assignedTeam

(* The request gives a team, NoTeam or leaves the assignment alone ("KEEP")*)
(* and does the same with the status.  The assignment is written, and its  *)
(* trigger runs, before the status is.                                     *)
UpdateConversation(m, assignedTeam, newStatus) ==
  /\ begunAt[m] # None
  /\ status # "NONE"
  /\ assignedTeam # "KEEP" \/ newStatus # "KEEP"
  /\ IF assignedTeam \in Teams
     THEN ApplyConversationTeamResponseSla(begunAt[m], slaMinutes[assignedTeam])
     ELSE UNCHANGED cycleVars
  /\ team' = FinalTeam(assignedTeam)
  /\ status' = IF newStatus = "KEEP" THEN status ELSE newStatus
  /\ begunAt' = [begunAt EXCEPT ![m] = None]
  /\ UNCHANGED <<now, unread, lastInboundAt, lastOutboundAt, slaMinutes,
                 acceptedAt>>

MarkRead ==
  /\ status # "NONE"
  /\ unread' = 0
  /\ UNCHANGED <<now, status, lastInboundAt, lastOutboundAt, cycleVars, team,
                 slaMinutes, acceptedAt, begunAt>>

(* InboxTeamsService.updateTeam changes the policy of a team.              *)
UpdateTeamPolicy(tm, minutes) ==
  /\ slaMinutes' = [slaMinutes EXCEPT ![tm] = minutes]
  /\ UNCHANGED <<now, status, unread, lastInboundAt, lastOutboundAt, cycleVars,
                 team, acceptedAt, begunAt>>

(* Mutant: the scan forgets the conversations that are pending.             *)
EscalateOpen ==
  /\ status = "OPEN"
  /\ startedAt # None /\ dueAt # None
  /\ dueAt <= now
  /\ respondedAt = None
  /\ escalatedAt = None
  /\ escalatedAt' = now
  /\ UNCHANGED <<now, status, unread, lastInboundAt, lastOutboundAt, startedAt,
                 dueAt, respondedAt, team, slaMinutes, acceptedAt, begunAt>>

(* One scan, for this row: the claim and the update are one statement.     *)
EscalateOverdue ==
  /\ status \in {"OPEN", "PENDING"}
  /\ startedAt # None /\ dueAt # None
  /\ dueAt <= now
  /\ respondedAt = None
  /\ escalatedAt = None
  /\ escalatedAt' = now
  /\ UNCHANGED <<now, status, unread, lastInboundAt, lastOutboundAt, startedAt,
                 dueAt, respondedAt, team, slaMinutes, acceptedAt, begunAt>>

Tick ==
  /\ now < MaxTime
  /\ now' = now + 1
  /\ UNCHANGED <<status, unread, lastInboundAt, lastOutboundAt, cycleVars, team,
                 slaMinutes, acceptedAt, begunAt>>

(* Everything that can happen to the row other than an inbound message.    *)
RowStep ==
  \/ \E r \in Replies : AcceptReply(r) \/ CommitReply(r) \/ ReplyFails(r)
  \/ \E m \in Movers : BeginUpdate(m)
  \/ \E m \in Movers, tm \in Teams \cup {NoTeam, "KEEP"},
        s \in ConversationStatus \cup {"KEEP"} : UpdateConversation(m, tm, s)
  \/ MarkRead
  \/ \E tm \in Teams, p \in Policies \cup {None} : UpdateTeamPolicy(tm, p)
  \/ EscalateOverdue
  \/ Tick

SlaNext == RowStep \/ \E t \in Time : Inbound(t)

(* The scanner's timer fires for as long as the process lives, and the row *)
(* is skipped only while another transaction holds it.                     *)
SlaSpec == SlaInit /\ [][SlaNext]_slaVars /\ WF_slaVars(EscalateOverdue)

-----------------------------------------------------------------------------
(* Properties.                                                             *)

SlaTypeOK ==
  /\ now \in Time
  /\ status \in ConversationStatus \cup {"NONE"}
  /\ unread \in Nat
  /\ lastInboundAt \in Time \cup {None}
  /\ lastOutboundAt \in Time \cup {None}
  /\ startedAt \in Time \cup {None}
  /\ dueAt \in Nat \cup {None}
  /\ respondedAt \in Time \cup {None}
  /\ escalatedAt \in Time \cup {None}
  /\ team \in Teams \cup {NoTeam}
  /\ slaMinutes \in [Teams -> Policies \cup {None}]
  /\ acceptedAt \in [Replies -> Time \cup {None}]
  /\ begunAt \in [Movers -> Time \cup {None}]

(* No interleaving of messages, moves and scans drives the row into the    *)
(* states PostgreSQL's Conversation_responseSlaCycle_check refuses: a      *)
(* refused row would abort the transaction of an inbound message, which    *)
(* the webhook processor would then retry for ever.                        *)
CycleCheckHolds ==
  IF startedAt = None
  THEN dueAt = None /\ respondedAt = None /\ escalatedAt = None
  ELSE /\ dueAt > startedAt
       /\ respondedAt = None \/ respondedAt >= startedAt
       /\ escalatedAt = None \/ escalatedAt >= dueAt

Waiting ==
  /\ status \in {"OPEN", "PENDING"}
  /\ startedAt # None
  /\ respondedAt = None

(* A cycle that waits for a response has none: the last reply on record is *)
(* older than the cycle, or older than the customer's last message (a move *)
(* that waited for the row's lock dates its cycle back to its own start).  *)
(* recordOutbound's condition never leaves a reply to the current turn     *)
(* uncounted.                                                              *)
WaitingHasNoReply ==
  startedAt # None /\ respondedAt = None =>
    lastOutboundAt < startedAt \/ lastOutboundAt < lastInboundAt

(* While a cycle waits for its response nothing moves its deadline or      *)
(* takes its escalation back: not another inbound message, in or out of    *)
(* order, not a move to another team, not a change of the team's policy.   *)
DeadlineStep ==
  Waiting /\ Waiting' =>
    /\ startedAt' = startedAt
    /\ dueAt' = dueAt
    /\ escalatedAt # None => escalatedAt' = escalatedAt
DeadlineIsFixed == [][DeadlineStep]_slaVars

(* An overdue cycle is eventually escalated unless the conversation is     *)
(* answered or resolved first.                                             *)
Overdue == Waiting /\ dueAt <= now /\ escalatedAt = None
OverdueIsEscalated == Overdue ~> ~Overdue
=============================================================================
