---------------------------- MODULE InboxAssignment ----------------------------
(***************************************************************************)
(* Who works on which conversation of the shared inbox.  Administrative    *)
(* updates, cooperative claims and automatic routing are transactions that *)
(* lock rows (FOR UPDATE, FOR SHARE, and the FOR KEY SHARE of a foreign    *)
(* key check) in different orders while agents, teams, memberships, skills *)
(* and requirements change under them.                                     *)
(*                                                                         *)
(* One action is one statement of a transaction.  A statement that waits   *)
(* for a row lock is an action that is not enabled.  Writes become visible *)
(* at the last statement, with the commit.  A transaction that fails a     *)
(* check rolls back, which only releases its locks.  Changes of            *)
(* configuration that hold one row lock are single steps.                  *)
(***************************************************************************)
EXTENDS Naturals, FiniteSets

CONSTANTS
    Conversations,
    Agents,        \* numbers: routing prefers the lower id
    Teams,
    Skills,
    Requests,      \* concurrent transactions
    MaxLevel,      \* highest proficiency and requirement
    Updates,       \* the updates requested: setAgent, setTeam, setStatus
    Limits,        \* values of maxConcurrentConversations, null being a large one
    MaxRequests,   \* bound on transactions begun
    MaxChanges,    \* bound on changes of the configuration
    None,          \* null
    Keep           \* a field the request leaves out

ASSUME InboxAssumption ==
    /\ Agents \subseteq Nat
    /\ Limits \subseteq Nat
    /\ MaxLevel \in Nat
    /\ MaxRequests \in Nat
    /\ MaxChanges \in Nat
    /\ IsFiniteSet(Conversations)
    /\ None \notin Agents \cup Teams
    /\ Keep \notin Agents \cup Teams \cup {None}
    /\ Updates \subseteq [setAgent : Agents \cup {None, Keep}, setTeam : Teams \cup {None, Keep},
                          setStatus : {"OPEN", "PENDING", "RESOLVED", Keep}]

VARIABLES
    status,      \* Conversation.status
    assigned,    \* Conversation.assignedAgentId
    team,        \* ConversationTeamAssignment.teamId
    minLevel,    \* ConversationSkillRequirement.minLevel, 0 without a row
    agent,       \* InboxAgent: active, available, limit
    members,     \* InboxTeamMember
    teamActive,  \* InboxTeam.active
    level,       \* InboxAgentSkill.level, 0 without a row
    skillActive, \* InboxSkill.active
    tx,          \* the transaction of every request
    begun,       \* transactions begun
    changes,     \* changes of configuration spent
    reopened,    \* history: active again while it was assigned
    peak         \* history: the highest limit an agent ever had

rowVars    == <<status, assigned, team>>
configVars == <<minLevel, agent, members, teamActive, level, skillActive, changes>>
vars == <<rowVars, configVars, tx, begun, reopened, peak>>

AgentRow == [active : BOOLEAN, available : BOOLEAN, limit : Limits]

(* conv, setAgent, setTeam and setStatus are the request; target is the    *)
(* agent to be assigned, locks the agent rows held FOR UPDATE, todo and    *)
(* candidates the members routing still has to lock and may choose from.   *)
NoTransaction ==
    [at |-> "idle", op |-> "claim", conv |-> None, setAgent |-> Keep, setTeam |-> Keep,
     setStatus |-> Keep, target |-> None, locks |-> {}, todo |-> {}, candidates |-> {}]

(* A tenant whose agents, teams and skills are set up and whose            *)
(* conversations nobody has taken yet.                                     *)
Init ==
    /\ status = [c \in Conversations |-> "OPEN"]
    /\ assigned = [c \in Conversations |-> None]
    /\ team \in [Conversations -> Teams \cup {None}]
    /\ \E n \in 0 .. MaxLevel : minLevel = [c \in Conversations |-> [s \in Skills |-> n]]
    /\ \E n \in Limits :
         agent = [a \in Agents |-> [active |-> TRUE, available |-> TRUE, limit |-> n]]
    /\ members = [t \in Teams |-> Agents]
    /\ teamActive = [t \in Teams |-> TRUE]
    /\ level = [a \in Agents |-> [s \in Skills |-> MaxLevel]]
    /\ skillActive = [s \in Skills |-> TRUE]
    /\ tx = [r \in Requests |-> NoTransaction]
    /\ begun = 0
    /\ changes = 0
    /\ reopened = [c \in Conversations |-> FALSE]
    /\ peak = [a \in Agents |-> agent[a].limit]

-----------------------------------------------------------------------------
(* Row locks.  A transaction holds what it has locked until it ends.       *)

Holds(r, c) == tx[r].at \notin {"idle", "conversation"} /\ tx[r].conv = c
(* Mutant of ConversationFree: the row is read without FOR UPDATE.         *)
ConversationUnlocked(c) == TRUE
ConversationFree(c) == \A r \in Requests : ~Holds(r, c)
AgentFree(a) == \A r \in Requests : a \notin tx[r].locks

(* Routing holds the team FOR UPDATE from the moment it has it.            *)
LocksTeam(r, t) ==
    /\ tx[r].op = "route" /\ team[tx[r].conv] = t
    /\ tx[r].at \in {"lockMembers", "skills", "capacity", "write"}
(* An update that assigns another team holds it FOR KEY SHARE.             *)
MovesTo(r, t) ==
    /\ tx[r].op = "update" /\ tx[r].setTeam = t /\ team[tx[r].conv] # t
SharesTeam(r, t) == MovesTo(r, t) /\ tx[r].at = "write"

(* Skills and proficiencies stay locked FOR SHARE after the skill check.   *)
Required(c) == {s \in Skills : minLevel[c][s] > 0}
(* Mutant of SharesSkill: the requirements are read without FOR SHARE.     *)
SkillUnlocked(r, s) == FALSE
SharesSkill(r, s) ==
    /\ tx[r].at \in {"capacity", "assignTeam", "write"}
    /\ s \in Required(tx[r].conv)
    /\ tx[r].op = "update" => tx[r].setAgent \in Agents
SharesLevel(r, a, s) ==
    SharesSkill(r, s) /\ a \in tx[r].locks /\ level[a][s] > 0

Go(r, step) == tx' = [tx EXCEPT ![r].at = step]
End(r) == tx' = [tx EXCEPT ![r] = NoTransaction]

-----------------------------------------------------------------------------
(* The three transactions.                                                 *)

Begin(r) ==
    /\ tx[r].at = "idle"
    /\ begun < MaxRequests /\ begun' = begun + 1
    /\ \E c \in Conversations :
         \/ \E a \in Agents : tx' = [tx EXCEPT ![r] =
              [NoTransaction EXCEPT !.at = "conversation", !.conv = c,
               !.op = "claim", !.setAgent = a]]
         \/ tx' = [tx EXCEPT ![r] =
              [NoTransaction EXCEPT !.at = "conversation", !.conv = c, !.op = "route"]]
         \/ \E u \in Updates : tx' = [tx EXCEPT ![r] =
              [NoTransaction EXCEPT !.at = "conversation", !.conv = c, !.op = "update",
               !.setAgent = u.setAgent, !.setTeam = u.setTeam, !.setStatus = u.setStatus]]
    /\ UNCHANGED <<rowVars, configVars, reopened, peak>>

(* lockConversation, and what is read of the row under the lock.           *)
LockConversation(r) ==
    /\ tx[r].at = "conversation"
    /\ ConversationFree(tx[r].conv)
    /\ LET c == tx[r].conv IN
       \/ tx[r].op = "claim" /\ Go(r, "agent")
       \/ tx[r].op = "update" /\ Go(r, IF tx[r].setAgent \in Agents THEN "agent" ELSE "membership")
       \/ /\ tx[r].op = "route"
          /\ IF assigned[c] # None \/ team[c] = None THEN End(r) ELSE Go(r, "lockTeam")
    /\ UNCHANGED <<rowVars, configVars, begun, reopened, peak>>

NewAdmission(r) ==
    /\ tx[r].setAgent \in Agents
    /\ tx[r].setAgent # assigned[tx[r].conv]

(* lockActiveAgentCapacity and assertAgentAvailableForConversation.  A     *)
(* claim ends here when somebody, or the claimant, has the conversation.   *)
LockActiveAgent(r) ==
    /\ tx[r].at = "agent"
    /\ LET a == tx[r].setAgent IN
       /\ AgentFree(a)
       /\ IF \/ ~agent[a].active
             \/ NewAdmission(r) /\ ~agent[a].available
             \/ tx[r].op = "claim" /\ assigned[tx[r].conv] # None
          THEN End(r)
          ELSE tx' = [tx EXCEPT ![r].at = "membership", ![r].target = a, ![r].locks = {a}]
    /\ UNCHANGED <<rowVars, configVars, begun, reopened, peak>>

FinalAgent(r) == IF tx[r].setAgent = Keep THEN assigned[tx[r].conv] ELSE tx[r].setAgent
FinalTeam(r) == IF tx[r].setTeam = Keep THEN team[tx[r].conv] ELSE tx[r].setTeam

(* The team a request assigns is active, and the agent of the final pair   *)
(* one of its members.  Neither row is locked.                             *)
AssertAgentTeamMembership(r) ==
    /\ tx[r].at = "membership"
    /\ IF /\ tx[r].setTeam \in Teams => teamActive[tx[r].setTeam]
          /\ \/ tx[r].setAgent = Keep /\ tx[r].setTeam = Keep
             \/ FinalAgent(r) = None \/ FinalTeam(r) = None
             \/ FinalAgent(r) \in members[FinalTeam(r)]
       THEN Go(r, IF tx[r].setAgent \in Agents THEN "skills" ELSE "assignTeam")
       ELSE End(r)
    /\ UNCHANGED <<rowVars, configVars, begun, reopened, peak>>

Meets(a, c) == \A s \in Required(c) : level[a][s] >= minLevel[c][s]
RequirementsActive(c) == \A s \in Required(c) : skillActive[s]

(* assertAgentMeetsConversationSkills and filterAgentsByConversationSkills.*)
CheckSkills(r) ==
    /\ tx[r].at = "skills"
    /\ LET c == tx[r].conv
           fit == {a \in tx[r].candidates : Meets(a, c)} IN
       IF tx[r].op = "route"
       THEN IF fit = {} \/ ~RequirementsActive(c) THEN End(r)
            ELSE tx' = [tx EXCEPT ![r].at = "capacity", ![r].candidates = fit]
       ELSE IF ~Meets(tx[r].target, c) \/ ~RequirementsActive(c) THEN End(r)
            ELSE Go(r, IF NewAdmission(r) THEN "capacity" ELSE "assignTeam")
    /\ UNCHANGED <<rowVars, configVars, begun, reopened, peak>>

Load(a) == Cardinality({c \in Conversations : assigned[c] = a /\ status[c] # "RESOLVED"})

(* Mutant of HasCapacity: the limit itself still admits.                   *)
HasCapacityInclusive(a) == Load(a) <= agent[a].limit
HasCapacity(a) == Load(a) < agent[a].limit

(* The least loaded candidate, the lowest id among equals.                 *)
Selected(S) ==
    CHOOSE a \in S : \A b \in S : Load(a) < Load(b) \/ (Load(a) = Load(b) /\ a <= b)

(* assertAgentHasConversationCapacity, and the choice routing makes.       *)
CheckCapacity(r) ==
    /\ tx[r].at = "capacity"
    /\ LET fit == {a \in tx[r].candidates : HasCapacity(a)} IN
       CASE tx[r].op = "route" ->
              IF fit = {} THEN End(r)
              ELSE tx' = [tx EXCEPT ![r].at = "write", ![r].target = Selected(fit)]
         [] tx[r].op = "claim" ->
              IF HasCapacity(tx[r].target) THEN Go(r, "write") ELSE End(r)
         [] OTHER ->
              IF HasCapacity(tx[r].target) THEN Go(r, "assignTeam") ELSE End(r)
    /\ UNCHANGED <<rowVars, configVars, begun, reopened, peak>>

(* routeConversation locks the assigned team if it is active, then its     *)
(* active members of that moment.                                          *)
LockTeam(r) ==
    /\ tx[r].at = "lockTeam"
    /\ LET t == team[tx[r].conv]
           found == {a \in members[t] : agent[a].active} IN
       /\ \A q \in Requests : ~LocksTeam(q, t) /\ ~SharesTeam(q, t)
       /\ IF ~teamActive[t] \/ found = {} THEN End(r)
          ELSE tx' = [tx EXCEPT ![r].at = "lockMembers", ![r].todo = found]
    /\ UNCHANGED <<rowVars, configVars, begun, reopened, peak>>

(* Takes the lock on member a; a row that no longer qualifies is dropped.  *)
LockMember(r, a) ==
    /\ AgentFree(a)
    /\ LET keep == IF a \in members[team[tx[r].conv]] /\ agent[a].active THEN {a} ELSE {}
           cand == tx[r].candidates \cup keep IN
       IF tx[r].todo # {a}
       THEN tx' = [tx EXCEPT ![r].todo = @ \ {a}, ![r].locks = @ \cup {a}, ![r].candidates = cand]
       ELSE IF \A b \in cand : ~agent[b].available THEN End(r)
       ELSE tx' = [tx EXCEPT ![r].at = "skills", ![r].todo = {}, ![r].locks = @ \cup {a},
                             ![r].candidates = {b \in cand : agent[b].available}]
    /\ UNCHANGED <<rowVars, configVars, begun, reopened, peak>>

(* Mutant of LockMembers: without ORDER BY "agentId".                      *)
LockMembersInAnyOrder(r) ==
    /\ tx[r].at = "lockMembers"
    /\ \E a \in tx[r].todo : LockMember(r, a)

LockMembers(r) ==
    /\ tx[r].at = "lockMembers"
    /\ \E a \in tx[r].todo : (\A b \in tx[r].todo : a <= b) /\ LockMember(r, a)

(* The upsert of the team assignment; its foreign key needs the team row.  *)
AssignTeam(r) ==
    /\ tx[r].at = "assignTeam"
    /\ \A t \in Teams, q \in Requests : MovesTo(r, t) => ~LocksTeam(q, t)
    /\ Go(r, "write")
    /\ UNCHANGED <<rowVars, configVars, begun, reopened, peak>>

(* The conversation is updated and the transaction commits.                *)
Write(r) ==
    /\ tx[r].at = "write"
    /\ LET c == tx[r].conv
           a == IF tx[r].op = "route" THEN tx[r].target ELSE FinalAgent(r)
           s == IF tx[r].setStatus = Keep THEN status[c] ELSE tx[r].setStatus IN
       /\ status' = [status EXCEPT ![c] = s]
       /\ assigned' = [assigned EXCEPT ![c] = a]
       /\ team' = [team EXCEPT ![c] = FinalTeam(r)]
       /\ reopened' = [reopened EXCEPT ![c] =
            IF a # assigned[c] THEN FALSE ELSE @ \/ (status[c] = "RESOLVED" /\ s # "RESOLVED")]
    /\ End(r)
    /\ UNCHANGED <<configVars, begun, peak>>

-----------------------------------------------------------------------------
(* PostgreSQL ends a cycle of waiting transactions by aborting one.        *)

NextMember(r) == CHOOSE a \in tx[r].todo : \A b \in tx[r].todo : a <= b
WaitsFor(r, q) ==
    /\ q # r
    /\ CASE tx[r].at = "conversation" -> Holds(q, tx[r].conv)
         [] tx[r].at = "agent" -> tx[r].setAgent \in tx[q].locks
         [] tx[r].at = "lockTeam" ->
              LocksTeam(q, team[tx[r].conv]) \/ SharesTeam(q, team[tx[r].conv])
         [] tx[r].at = "lockMembers" -> NextMember(r) \in tx[q].locks
         [] tx[r].at = "assignTeam" -> \E t \in Teams : MovesTo(r, t) /\ LocksTeam(q, t)
         [] OTHER -> FALSE
Deadlocked(S) == S # {} /\ \A r \in S : \E q \in S : WaitsFor(r, q)
Cycle(S) == Deadlocked(S) /\ \A R \in SUBSET S : R # S => ~Deadlocked(R)

DeadlockVictim(r) ==
    /\ \E S \in SUBSET Requests : r \in S /\ Cycle(S)
    /\ End(r)
    /\ UNCHANGED <<rowVars, configVars, begun, reopened, peak>>

-----------------------------------------------------------------------------
(* Transactions that take one lock and commit.                             *)

(* releaseConversation by the agent that has it.                           *)
ReleaseConversation(c, a) ==
    /\ ConversationFree(c)
    /\ assigned[c] = a
    /\ assigned' = [assigned EXCEPT ![c] = None]
    /\ UNCHANGED <<status, team, configVars, tx, begun, reopened, peak>>

(* A message in or out opens the conversation again (recordInbound,        *)
(* recordOutbound).                                                        *)
Activity(c) ==
    /\ ConversationFree(c)
    /\ status[c] # "OPEN"
    /\ status' = [status EXCEPT ![c] = "OPEN"]
    /\ reopened' = [reopened EXCEPT ![c] = @ \/ (status[c] = "RESOLVED" /\ assigned[c] # None)]
    /\ UNCHANGED <<assigned, team, configVars, tx, begun, peak>>

Change == changes < MaxChanges /\ changes' = changes + 1 /\ UNCHANGED <<rowVars, tx, begun, reopened>>

(* setRequirement: a new row only for an active skill; removeRequirement.  *)
SetRequirement(c, s, n) ==
    /\ Change
    /\ ConversationFree(c)
    /\ minLevel[c][s] # n
    /\ n > 0 /\ minLevel[c][s] = 0 => skillActive[s]
    /\ minLevel' = [minLevel EXCEPT ![c][s] = n]
    /\ UNCHANGED <<agent, members, teamActive, level, skillActive, peak>>

UpdateAgent(a) ==
    /\ Change
    /\ AgentFree(a)
    /\ \E row \in AgentRow :
         /\ agent' = [agent EXCEPT ![a] = row]
         /\ peak' = [peak EXCEPT ![a] = IF row.limit > @ THEN row.limit ELSE @]
    /\ UNCHANGED <<minLevel, members, teamActive, level, skillActive>>

UpdateTeam(t) ==
    /\ Change
    /\ \A r \in Requests : ~LocksTeam(r, t)
    /\ teamActive' = [teamActive EXCEPT ![t] = ~@]
    /\ UNCHANGED <<minLevel, agent, members, level, skillActive, peak>>

(* The foreign keys of the new row need the agent and the team.            *)
AddMember(t, a) ==
    /\ Change
    /\ agent[a].active /\ a \notin members[t]
    /\ AgentFree(a) /\ \A r \in Requests : ~LocksTeam(r, t)
    /\ members' = [members EXCEPT ![t] = @ \cup {a}]
    /\ UNCHANGED <<minLevel, agent, teamActive, level, skillActive, peak>>

(* Routing holds the membership rows of the agents it has locked.          *)
RemoveMember(t, a) ==
    /\ Change
    /\ a \in members[t]
    /\ \A r \in Requests : ~(LocksTeam(r, t) /\ a \in tx[r].locks)
    /\ members' = [members EXCEPT ![t] = @ \ {a}]
    /\ UNCHANGED <<minLevel, agent, teamActive, level, skillActive, peak>>

UpdateSkill(s) ==
    /\ Change
    /\ \A r \in Requests : ~SharesSkill(r, s)
    /\ skillActive' = [skillActive EXCEPT ![s] = ~@]
    /\ UNCHANGED <<minLevel, agent, members, teamActive, level, peak>>

(* setAgentSkill: an existing row is updated, which the shared lock of a   *)
(* skill check delays; a new one needs an active skill and agent, and the  *)
(* agent's row for its foreign key.  removeAgentSkill deletes the row.     *)
SetAgentSkill(a, s, n) ==
    /\ Change
    /\ level[a][s] # n
    /\ IF level[a][s] > 0
       THEN \A r \in Requests : ~SharesLevel(r, a, s)
       ELSE skillActive[s] /\ agent[a].active /\ AgentFree(a)
    /\ level' = [level EXCEPT ![a][s] = n]
    /\ UNCHANGED <<minLevel, agent, members, teamActive, skillActive, peak>>

Configure ==
    \/ \E c \in Conversations, s \in Skills, n \in 0 .. MaxLevel : SetRequirement(c, s, n)
    \/ \E a \in Agents : UpdateAgent(a)
    \/ \E t \in Teams : UpdateTeam(t)
    \/ \E t \in Teams, a \in Agents : AddMember(t, a) \/ RemoveMember(t, a)
    \/ \E s \in Skills : UpdateSkill(s)
    \/ \E a \in Agents, s \in Skills, n \in 0 .. MaxLevel : SetAgentSkill(a, s, n)

Next ==
    \/ \E r \in Requests :
         \/ Begin(r) \/ LockConversation(r) \/ LockActiveAgent(r)
         \/ AssertAgentTeamMembership(r) \/ CheckSkills(r) \/ CheckCapacity(r)
         \/ LockTeam(r) \/ LockMembers(r) \/ AssignTeam(r) \/ Write(r)
         \/ DeadlockVictim(r)
    \/ \E c \in Conversations, a \in Agents : ReleaseConversation(c, a)
    \/ \E c \in Conversations : Activity(c)
    \/ Configure

Spec == Init /\ [][Next]_vars

-----------------------------------------------------------------------------
(* Properties.                                                             *)

(* Row locks keep two admissions from taking the last slot of an agent:    *)
(* apart from conversations that became active again while assigned, which *)
(* no admission counts, an agent never has more active conversations than  *)
(* the highest limit it ever had.                                          *)
CapacityHonoured ==
    \A a \in Agents :
        Cardinality({c \in Conversations :
            assigned[c] = a /\ status[c] # "RESOLVED" /\ ~reopened[c]}) <= peak[a]

(* A conversation changes hands only to an agent that is active, available *)
(* and, at the commit and not only at the check, meets every requirement   *)
(* with active skills; routing also only to a member of the team.          *)
AdmissionIsQualified(c) ==
    assigned'[c] \notin {None, assigned[c]} =>
        LET a == assigned'[c] IN
        /\ agent[a].active /\ agent[a].available
        /\ Meets(a, c) /\ RequirementsActive(c)
        /\ \A r \in Requests :
             tx[r].op = "route" /\ tx[r].conv = c /\ tx'[r].at = "idle" => a \in members[team[c]]
AdmissionsAreQualified == [][\A c \in Conversations : AdmissionIsQualified(c)]_vars

(* Neither a claim nor routing takes a conversation from an agent, however *)
(* they interleave: only an update or the holder's release does.           *)
HolderIsRespected(c, r) ==
    /\ assigned[c] # None /\ assigned'[c] # assigned[c]
    /\ tx[r].conv = c /\ tx[r].at = "write" /\ tx'[r].at = "idle"
    => tx[r].op = "update"
HoldersAreRespected ==
    [][\A c \in Conversations, r \in Requests : HolderIsRespected(c, r)]_vars

(* Agents are locked in one order, so claims and routes never wait for each*)
(* other in a circle; every deadlock has an update in it that moves its    *)
(* conversation to another team while it holds an agent.                   *)
OnlyTeamMovesDeadlock ==
    \A S \in SUBSET Requests :
        Cycle(S) => \E r \in S : tx[r].at = "assignTeam" /\ tx[r].locks # {}
===============================================================================
