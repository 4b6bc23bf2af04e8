----------------------------- MODULE TenantProofs -----------------------------
(***************************************************************************)
(* The shared inbox: for every set of agents, teams, skills, conversations *)
(* and concurrent transactions, capacity is honoured, admissions are       *)
(* qualified at the commit, holders are respected and only an update that  *)
(* moves its conversation to another team can close a circle of waiting    *)
(* transactions.                                                           *)
(*                                                                         *)
(* The invariant says what a transaction may rely on at each statement,    *)
(* because it holds the rows: the conversation, the agents it has locked,  *)
(* the skills it has checked and, for routing, the team and its members.   *)
(*                                                                         *)
(* The template catalogue: a sync marks as deleted only what was gone, and *)
(* one that nothing overtook leaves the table as Meta has it.              *)
(***************************************************************************)
EXTENDS InboxAssignment, TemplateCatalog, FiniteSetTheorems, WellFoundedInduction, TLAPS

Steps == {"idle", "conversation", "agent", "membership", "skills", "capacity",
          "lockTeam", "lockMembers", "assignTeam", "write"}
Transactions ==
    [at : Steps, op : {"claim", "route", "update"}, conv : Conversations \cup {None},
     setAgent : Agents \cup {None, Keep}, setTeam : Teams \cup {None, Keep},
     setStatus : {"OPEN", "PENDING", "RESOLVED", Keep}, target : Agents \cup {None},
     locks : SUBSET Agents, todo : SUBSET Agents, candidates : SUBSET Agents]

RowsOK ==
    /\ status \in [Conversations -> {"OPEN", "PENDING", "RESOLVED"}]
    /\ assigned \in [Conversations -> Agents \cup {None}]
    /\ team \in [Conversations -> Teams \cup {None}]
    /\ reopened \in [Conversations -> BOOLEAN]

ConfigOK ==
    /\ minLevel \in [Conversations -> [Skills -> 0 .. MaxLevel]]
    /\ agent \in [Agents -> AgentRow]
    /\ members \in [Teams -> SUBSET Agents]
    /\ level \in [Agents -> [Skills -> 0 .. MaxLevel]]
    /\ skillActive \in [Skills -> BOOLEAN]
    /\ peak \in [Agents -> Nat]
    /\ \A a \in Agents : agent[a].limit <= peak[a]

TxOK == tx \in [Requests -> Transactions]

(* What the statements behind a transaction say of its request and locks.  *)
Shape(r) ==
    /\ tx[r].at = "idle" => tx[r] = NoTransaction
    /\ tx[r].at # "idle" => tx[r].conv \in Conversations
    /\ tx[r].at # "idle" /\ tx[r].op = "claim" =>
         tx[r].setAgent \in Agents /\ tx[r].setTeam = Keep /\ tx[r].setStatus = Keep
    /\ tx[r].op = "route" =>
         tx[r].setAgent = Keep /\ tx[r].setTeam = Keep /\ tx[r].setStatus = Keep
    /\ tx[r].at \in {"idle", "conversation", "agent", "lockTeam"} =>
         tx[r].locks = {} /\ tx[r].candidates = {}
    /\ tx[r].at \in {"agent", "membership"} => tx[r].op # "route"
    /\ tx[r].at = "agent" => tx[r].setAgent \in Agents
    /\ tx[r].at \in {"lockTeam", "lockMembers"} => tx[r].op = "route"
    /\ tx[r].at = "assignTeam" => tx[r].op = "update"
    /\ tx[r].op # "route" /\ tx[r].at \in {"skills", "capacity"} => tx[r].setAgent \in Agents
    /\ tx[r].op # "route" /\ tx[r].at \in {"membership", "skills", "capacity", "assignTeam", "write"} =>
         IF tx[r].setAgent \in Agents
         THEN tx[r].locks = {tx[r].setAgent} /\ tx[r].target = tx[r].setAgent
         ELSE tx[r].locks = {}
    /\ tx[r].op = "route" => tx[r].candidates \subseteq tx[r].locks
    /\ tx[r].op = "route" /\ tx[r].at = "write" => tx[r].target \in tx[r].candidates
    /\ tx[r].at = "lockMembers" =>
         tx[r].todo # {} /\ \A a \in tx[r].locks, b \in tx[r].todo : a < b

(* The agents the transaction may still give the conversation to.          *)
Prospects(r) ==
    IF tx[r].op = "route"
    THEN IF tx[r].at = "write" THEN {tx[r].target} ELSE tx[r].candidates
    ELSE {a \in Agents : a = tx[r].setAgent}

Counted(a) ==
    {c \in Conversations : assigned[c] = a /\ status[c] # "RESOLVED" /\ ~reopened[c]}
LoadOf(a) == Cardinality(Counted(a))

(* What it has read under its locks and is still true.                     *)
NobodyHasIt(r) ==
    /\ tx[r].op = "claim" /\ tx[r].at \in {"membership", "skills", "capacity", "write"} =>
         assigned[tx[r].conv] = None
    /\ tx[r].op = "route" /\ tx[r].at \notin {"idle", "conversation"} =>
         assigned[tx[r].conv] = None /\ team[tx[r].conv] \in Teams
ProspectsReady(r) ==
    /\ tx[r].at \in {"membership", "skills", "capacity", "assignTeam", "write"} =>
         \A a \in Prospects(r) :
           agent[a].active /\ (a # assigned[tx[r].conv] => agent[a].available)
    /\ tx[r].at = "lockMembers" => \A a \in Prospects(r) : agent[a].active
    /\ tx[r].op = "route" /\ tx[r].at \notin {"idle", "conversation"} =>
         Prospects(r) \subseteq members[team[tx[r].conv]]
ProspectsSkilled(r) ==
    tx[r].at \in {"capacity", "assignTeam", "write"} =>
      \A a \in Prospects(r) : Meets(a, tx[r].conv) /\ RequirementsActive(tx[r].conv)
ProspectsHaveRoom(r) ==
    tx[r].at \in {"assignTeam", "write"} =>
      \A a \in Prospects(r) : a # assigned[tx[r].conv] => LoadOf(a) < peak[a]

(* Row locks exclude each other.                                           *)
Exclusive(r, q) ==
    r # q =>
      /\ tx[r].locks \cap tx[q].locks = {}
      /\ tx[r].at \notin {"idle", "conversation"} /\ tx[q].at \notin {"idle", "conversation"} =>
           tx[r].conv # tx[q].conv

Relies(r) ==
    Shape(r) /\ NobodyHasIt(r) /\ ProspectsReady(r) /\ ProspectsSkilled(r) /\ ProspectsHaveRoom(r)

InboxInv ==
    /\ RowsOK /\ ConfigOK /\ TxOK
    /\ \A r \in Requests : Relies(r)
    /\ \A r, q \in Requests : Exclusive(r, q)
    /\ CapacityHonoured

-----------------------------------------------------------------------------
(* Every set of numbers has a least one, so routing's choice and the next  *)
(* member to lock are well defined, for any number of agents.              *)
LEMMA NatMin ==
    ASSUME NEW S \in SUBSET Nat, S # {} PROVE \E m \in S : \A x \in S : m <= x
<1>1. PICK m \in S : \A x \in S : ~(<<x, m>> \in OpToRel(<, Nat))
    BY NatLessThanWellFounded, WFMin, Zenon
<1>2. \A x \in S : ~(x < m) BY <1>1 DEF OpToRel
<1> QED BY <1>2

LEMMA LoadIsNat == ASSUME NEW a PROVE Load(a) \in Nat /\ LoadOf(a) \in Nat /\ LoadOf(a) <= Load(a)
<1> DEFINE L == {c \in Conversations : assigned[c] = a /\ status[c] # "RESOLVED"}
<1>1. IsFiniteSet(L) BY InboxAssumption, FS_Subset
<1>2. Counted(a) \in SUBSET L BY DEF Counted
<1>3. IsFiniteSet(Counted(a)) /\ Cardinality(Counted(a)) <= Cardinality(L)
    BY <1>1, <1>2, FS_Subset
<1> QED BY <1>1, <1>3, FS_CardinalityType DEF Load, LoadOf

LEMMA SelectedIsOne == ASSUME NEW S \in SUBSET Agents, S # {} PROVE Selected(S) \in S
<1>1. PICK m \in {Load(a) : a \in S} : \A x \in {Load(a) : a \in S} : m <= x
    BY NatMin, LoadIsNat
<1> DEFINE T == {a \in S : Load(a) = m}
<1>2. T # {} /\ T \in SUBSET Nat BY <1>1, InboxAssumption
<1>3. PICK a \in T : \A b \in T : a <= b BY <1>2, NatMin
<1>4. ASSUME NEW b \in S PROVE Load(a) < Load(b) \/ (Load(a) = Load(b) /\ a <= b)
    BY <1>1, <1>3, LoadIsNat
<1> QED BY <1>3, <1>4 DEF Selected

-----------------------------------------------------------------------------
LEMMA InitInbox == Init => InboxInv
<1> SUFFICES ASSUME Init PROVE InboxInv OBVIOUS
<1>1. RowsOK /\ TxOK
    BY DEF Init, RowsOK, TxOK, NoTransaction, Transactions, Steps
<1>2. ConfigOK
    <2>1. PICK n \in Limits :
            agent = [a \in Agents |-> [active |-> TRUE, available |-> TRUE, limit |-> n]]
        BY DEF Init
    <2>2. n \in Nat BY InboxAssumption
    <2>3. agent \in [Agents -> AgentRow] BY <2>1 DEF AgentRow
    <2>4. peak \in [Agents -> Nat] /\ \A a \in Agents : agent[a].limit <= peak[a]
        BY <2>1, <2>2 DEF Init
    <2>5. MaxLevel \in 0 .. MaxLevel BY InboxAssumption
    <2> QED BY <2>3, <2>4, <2>5 DEF Init, ConfigOK
<1>3. ASSUME NEW r \in Requests PROVE Relies(r)
    BY DEF Init, Relies, Shape, NobodyHasIt, ProspectsReady, ProspectsSkilled,
           ProspectsHaveRoom, NoTransaction
<1>4. ASSUME NEW r \in Requests, NEW q \in Requests PROVE Exclusive(r, q)
    BY DEF Init, Exclusive, NoTransaction
<1>5. CapacityHonoured
    <2> SUFFICES ASSUME NEW a \in Agents PROVE LoadOf(a) <= peak[a]
        BY DEF CapacityHonoured, LoadOf, Counted
    <2>1. Counted(a) = {} BY InboxAssumption DEF Init, Counted
    <2> QED BY <1>2, <2>1, FS_EmptySet DEF LoadOf, ConfigOK
<1> QED BY <1>1, <1>2, <1>3, <1>4, <1>5 DEF InboxInv

(* A step of one transaction before its commit changes no row.             *)
dbVars == <<rowVars, configVars, reopened, peak>>

LEMMA RowsStay ==
    ASSUME UNCHANGED dbVars
    PROVE  /\ RowsOK => RowsOK'
           /\ ConfigOK => ConfigOK'
           /\ CapacityHonoured => CapacityHonoured'
    BY DEF dbVars, rowVars, configVars, RowsOK, ConfigOK, CapacityHonoured

LEMMA SkillsStay ==
    ASSUME UNCHANGED <<minLevel, level, skillActive>>, NEW a, NEW c
    PROVE  (Meets(a, c)' <=> Meets(a, c)) /\ (RequirementsActive(c)' <=> RequirementsActive(c))
    BY DEF Meets, RequirementsActive, Required

LEMMA OthersRely ==
    ASSUME UNCHANGED dbVars, NEW q \in Requests, tx'[q] = tx[q], Relies(q)
    PROVE  Relies(q)'
<1>1. UNCHANGED <<status, assigned, team, reopened, peak, agent, members, minLevel, level, skillActive>>
    BY DEF dbVars, rowVars, configVars
<1>2. Shape(q)' BY DEF Relies, Shape
<1>3. Prospects(q)' = Prospects(q) BY DEF Prospects
<1>4. NobodyHasIt(q)' BY <1>1 DEF Relies, NobodyHasIt
<1>5. ProspectsReady(q)' BY <1>1, <1>3 DEF Relies, ProspectsReady
<1>6. ProspectsSkilled(q)' BY <1>1, <1>3, SkillsStay DEF Relies, ProspectsSkilled
<1>7. \A a : LoadOf(a)' = LoadOf(a) BY <1>1 DEF LoadOf, Counted
<1>8. ProspectsHaveRoom(q)' BY <1>1, <1>3, <1>7 DEF Relies, ProspectsHaveRoom
<1> QED BY <1>2, <1>4, <1>5, <1>6, <1>8 DEF Relies

(* Row locks stay exclusive when the locks a transaction gains were free.  *)
LEMMA LocksStayExclusive ==
    ASSUME InboxInv, NEW r \in Requests,
           \A q \in Requests : q # r => tx'[q] = tx[q],
           \A a \in tx'[r].locks : a \in tx[r].locks \/ AgentFree(a),
           \/ tx'[r].at \in {"idle", "conversation"}
           \/ /\ tx'[r].conv = tx[r].conv
              /\ tx[r].at \notin {"idle", "conversation"} \/ ConversationFree(tx[r].conv)
    PROVE  \A p, q \in Requests : Exclusive(p, q)'
<1>1. ASSUME NEW q \in Requests, q # r
      PROVE  /\ tx'[r].locks \cap tx'[q].locks = {}
             /\ tx'[r].at \notin {"idle", "conversation"} /\ tx'[q].at \notin {"idle", "conversation"} =>
                  tx'[r].conv # tx'[q].conv
    <2>1. tx'[q] = tx[q] /\ Exclusive(r, q) BY <1>1 DEF InboxInv
    <2>2. tx'[r].locks \cap tx[q].locks = {}
        BY <1>1, <2>1 DEF Exclusive, AgentFree
    <2> QED BY <1>1, <2>1, <2>2 DEF Exclusive, ConversationFree, Holds
<1>2. ASSUME NEW p \in Requests, NEW q \in Requests, p # r, q # r PROVE Exclusive(p, q)'
    <2>1. Exclusive(p, q) BY DEF InboxInv
    <2> QED BY <1>2, <2>1 DEF Exclusive
<1> QED BY <1>1, <1>2 DEF Exclusive

LEMMA TransactionStep ==
    ASSUME InboxInv, UNCHANGED dbVars, NEW r \in Requests, TxOK',
           \A q \in Requests : q # r => tx'[q] = tx[q],
           Relies(r)', \A p, q \in Requests : Exclusive(p, q)'
    PROVE  InboxInv'
    BY RowsStay, OthersRely DEF InboxInv

(* Rolling back, for whatever reason.                                      *)
LEMMA EndInbox ==
    ASSUME InboxInv, UNCHANGED dbVars, NEW r \in Requests, End(r) PROVE InboxInv'
<1>1. /\ tx'[r] = NoTransaction /\ TxOK'
      /\ \A q \in Requests : q # r => tx'[q] = tx[q]
    BY DEF End, InboxInv, TxOK, NoTransaction, Transactions, Steps
<1>2. Relies(r)'
    BY <1>1 DEF Relies, Shape, NobodyHasIt, ProspectsReady, ProspectsSkilled,
           ProspectsHaveRoom, NoTransaction
<1>3. \A p, q \in Requests : Exclusive(p, q)'
    BY <1>1, LocksStayExclusive DEF NoTransaction
<1> QED BY <1>1, <1>2, <1>3, TransactionStep

(* A statement that moves r on and takes no lock.                          *)
LEMMA GoInbox ==
    ASSUME InboxInv, UNCHANGED dbVars, NEW r \in Requests, NEW step \in Steps, Go(r, step),
           tx[r].at \notin {"idle", "conversation"} \/ ConversationFree(tx[r].conv),
           Relies(r)'
    PROVE  InboxInv'
<1>1. /\ tx'[r] = [tx[r] EXCEPT !.at = step] /\ TxOK'
      /\ \A q \in Requests : q # r => tx'[q] = tx[q]
    BY DEF Go, InboxInv, TxOK, Transactions
<1>2. tx'[r].locks = tx[r].locks /\ tx'[r].conv = tx[r].conv
    BY <1>1 DEF InboxInv, TxOK, Transactions
<1>3. \A p, q \in Requests : Exclusive(p, q)' BY <1>1, <1>2, LocksStayExclusive
<1> QED BY <1>1, <1>3, TransactionStep

(* The fields of r that Go leaves alone.                                   *)
LEMMA GoFields ==
    ASSUME TxOK, NEW r \in Requests, NEW step \in Steps, Go(r, step)
    PROVE  /\ tx'[r].at = step
           /\ tx'[r].op = tx[r].op /\ tx'[r].conv = tx[r].conv
           /\ tx'[r].setAgent = tx[r].setAgent /\ tx'[r].setTeam = tx[r].setTeam
           /\ tx'[r].setStatus = tx[r].setStatus /\ tx'[r].target = tx[r].target
           /\ tx'[r].locks = tx[r].locks /\ tx'[r].todo = tx[r].todo
           /\ tx'[r].candidates = tx[r].candidates
    BY DEF Go, TxOK, Transactions

LEMMA BeginInbox == ASSUME InboxInv, NEW r \in Requests, Begin(r) PROVE InboxInv'
<1>0. UNCHANGED dbVars BY DEF Begin, dbVars
<1>1. ASSUME NEW x \in Transactions, tx' = [tx EXCEPT ![r] = x],
             x.at = "conversation", x.conv \in Conversations, x.locks = {}, x.candidates = {},
             x.op = "claim" => x.setAgent \in Agents /\ x.setTeam = Keep /\ x.setStatus = Keep,
             x.op = "route" => x.setAgent = Keep /\ x.setTeam = Keep /\ x.setStatus = Keep
      PROVE  InboxInv'
    <2>1. tx'[r] = x /\ TxOK' /\ \A q \in Requests : q # r => tx'[q] = tx[q]
        BY <1>1 DEF InboxInv, TxOK
    <2>2. Shape(r)' BY <1>1, <2>1 DEF Shape
    <2>3. NobodyHasIt(r)' BY <1>1, <2>1 DEF NobodyHasIt
    <2>4. ProspectsReady(r)' BY <1>1, <2>1 DEF ProspectsReady
    <2>5. ProspectsSkilled(r)' /\ ProspectsHaveRoom(r)'
        BY <1>1, <2>1 DEF ProspectsSkilled, ProspectsHaveRoom
    <2>6. \A p, q \in Requests : Exclusive(p, q)' BY <1>1, <2>1, LocksStayExclusive
    <2> QED BY <1>0, <2>1, <2>2, <2>3, <2>4, <2>5, <2>6, TransactionStep DEF Relies
<1>2. ASSUME NEW c \in Conversations, NEW a \in Agents, tx' = [tx EXCEPT ![r] =
               [NoTransaction EXCEPT !.at = "conversation", !.conv = c,
                !.op = "claim", !.setAgent = a]]
      PROVE  InboxInv'
    <2>1. PICK x \in Transactions : x = [NoTransaction EXCEPT !.at = "conversation",
                !.conv = c, !.op = "claim", !.setAgent = a]
        BY DEF NoTransaction, Transactions, Steps
    <2> QED BY <1>1, <1>2, <2>1 DEF NoTransaction
<1>3. ASSUME NEW c \in Conversations, tx' = [tx EXCEPT ![r] =
               [NoTransaction EXCEPT !.at = "conversation", !.conv = c, !.op = "route"]]
      PROVE  InboxInv'
    <2>1. PICK x \in Transactions : x = [NoTransaction EXCEPT !.at = "conversation",
                !.conv = c, !.op = "route"]
        BY DEF NoTransaction, Transactions, Steps
    <2> QED BY <1>1, <1>3, <2>1 DEF NoTransaction
<1>4. ASSUME NEW c \in Conversations, NEW u \in Updates, tx' = [tx EXCEPT ![r] =
               [NoTransaction EXCEPT !.at = "conversation", !.conv = c, !.op = "update",
                !.setAgent = u.setAgent, !.setTeam = u.setTeam, !.setStatus = u.setStatus]]
      PROVE  InboxInv'
    <2>1. /\ u.setAgent \in Agents \cup {None, Keep} /\ u.setTeam \in Teams \cup {None, Keep}
          /\ u.setStatus \in {"OPEN", "PENDING", "RESOLVED", Keep}
        BY InboxAssumption
    <2>2. PICK x \in Transactions : x = [NoTransaction EXCEPT !.at = "conversation",
                !.conv = c, !.op = "update", !.setAgent = u.setAgent,
                !.setTeam = u.setTeam, !.setStatus = u.setStatus]
        BY <2>1 DEF NoTransaction, Transactions, Steps
    <2> QED BY <1>1, <1>4, <2>2 DEF NoTransaction
<1> QED BY <1>2, <1>3, <1>4 DEF Begin

LEMMA LockConversationInbox ==
    ASSUME InboxInv, NEW r \in Requests, LockConversation(r) PROVE InboxInv'
<1>0. UNCHANGED dbVars BY DEF LockConversation, dbVars
<1>1. tx[r].at = "conversation" /\ Shape(r) /\ ConversationFree(tx[r].conv) /\ TxOK
    BY DEF LockConversation, InboxInv, Relies
<1>2. CASE End(r) BY <1>0, <1>2, EndInbox
<1>3. ASSUME NEW step \in {"agent", "membership", "lockTeam"}, Go(r, step),
             step = "agent" => tx[r].op # "route" /\ tx[r].setAgent \in Agents,
             step = "membership" => tx[r].op = "update" /\ tx[r].setAgent \notin Agents,
             step = "lockTeam" => /\ tx[r].op = "route"
                                  /\ assigned[tx[r].conv] = None /\ team[tx[r].conv] # None
      PROVE  InboxInv'
    <2>1. step \in Steps BY DEF Steps
    <2>2. Shape(r)' BY <1>1, <1>3, <2>1, GoFields DEF Shape
    <2>3. Prospects(r)' = Prospects(r) /\ (step = "membership" => Prospects(r) = {})
          /\ (tx[r].op = "route" => Prospects(r) = {})
        BY <1>1, <1>3, <2>1, GoFields DEF Prospects, Shape
    <2>4. assigned' = assigned /\ team' = team BY <1>0 DEF dbVars, rowVars
    <2>5. tx[r].conv \in Conversations BY <1>1 DEF Shape
    <2>6. NobodyHasIt(r)'
        BY <1>1, <1>3, <2>1, <2>4, <2>5, GoFields DEF NobodyHasIt, InboxInv, RowsOK
    <2>7. ProspectsReady(r)' /\ ProspectsSkilled(r)' /\ ProspectsHaveRoom(r)'
        <3>1. tx'[r].at = step /\ tx'[r].op = tx[r].op BY <1>1, <1>3, <2>1, GoFields
        <3>2. ProspectsReady(r)' BY <1>3, <2>3, <3>1 DEF ProspectsReady
        <3>3. ProspectsSkilled(r)' /\ ProspectsHaveRoom(r)'
            BY <1>3, <3>1 DEF ProspectsSkilled, ProspectsHaveRoom
        <3> QED BY <3>2, <3>3
    <2> QED BY <1>0, <1>1, <1>3, <2>1, <2>2, <2>6, <2>7, GoInbox DEF Relies
<1>4. CASE tx[r].op = "claim" /\ Go(r, "agent") BY <1>1, <1>3, <1>4 DEF Shape
<1>5. CASE tx[r].op = "update" /\ Go(r, IF tx[r].setAgent \in Agents THEN "agent" ELSE "membership")
    BY <1>3, <1>5
<1>6. CASE /\ tx[r].op = "route"
           /\ IF assigned[tx[r].conv] # None \/ team[tx[r].conv] = None
              THEN End(r) ELSE Go(r, "lockTeam")
    BY <1>2, <1>3, <1>6
<1> QED BY <1>4, <1>5, <1>6 DEF LockConversation

LEMMA LockActiveAgentInbox ==
    ASSUME InboxInv, NEW r \in Requests, LockActiveAgent(r) PROVE InboxInv'
<1> DEFINE a == tx[r].setAgent
<1>0. UNCHANGED dbVars BY DEF LockActiveAgent, dbVars
<1>1. tx[r].at = "agent" /\ Shape(r) /\ AgentFree(a) /\ TxOK
    BY DEF LockActiveAgent, InboxInv, Relies
<1>2. a \in Agents /\ tx[r].op # "route" /\ tx[r].conv \in Conversations BY <1>1 DEF Shape
<1>3. CASE End(r) BY <1>0, <1>3, EndInbox
<1>4. CASE /\ tx' = [tx EXCEPT ![r].at = "membership", ![r].target = a, ![r].locks = {a}]
           /\ agent[a].active /\ ~(NewAdmission(r) /\ ~agent[a].available)
           /\ ~(tx[r].op = "claim" /\ assigned[tx[r].conv] # None)
    <2>0. PICK x : x = [tx[r] EXCEPT !.at = "membership", !.target = a, !.locks = {a}]
        OBVIOUS
    <2>1. tx'[r] = x /\ TxOK' /\ \A q \in Requests : q # r => tx'[q] = tx[q]
        <3>1. x \in Transactions BY <1>1, <1>2, <2>0 DEF TxOK, Transactions, Steps
        <3>2. tx' = [tx EXCEPT ![r] = x] BY <1>1, <1>4, <2>0 DEF TxOK
        <3> QED BY <1>1, <3>1, <3>2 DEF TxOK
    <2>2. /\ tx'[r].at = "membership" /\ tx'[r].target = a /\ tx'[r].locks = {a}
          /\ tx'[r].op = tx[r].op /\ tx'[r].conv = tx[r].conv /\ tx'[r].setAgent = a
          /\ tx'[r].setTeam = tx[r].setTeam /\ tx'[r].setStatus = tx[r].setStatus
        BY <1>1, <2>0, <2>1 DEF TxOK, Transactions
    <2>3. Shape(r)' BY <1>1, <1>2, <2>2 DEF Shape
    <2>4. Prospects(r)' = {a} BY <1>2, <2>2 DEF Prospects
    <2>5. UNCHANGED <<assigned, agent>> BY <1>0 DEF dbVars, rowVars, configVars
    <2>6. NobodyHasIt(r)' BY <1>2, <1>4, <2>2, <2>5 DEF NobodyHasIt
    <2>7. ProspectsReady(r)'
        BY <1>2, <1>4, <2>2, <2>4, <2>5 DEF ProspectsReady, NewAdmission
    <2>8. ProspectsSkilled(r)' /\ ProspectsHaveRoom(r)'
        BY <2>2 DEF ProspectsSkilled, ProspectsHaveRoom
    <2>9. \A p, q \in Requests : Exclusive(p, q)'
        BY <1>1, <2>1, <2>2, LocksStayExclusive
    <2> QED BY <1>0, <2>1, <2>3, <2>6, <2>7, <2>8, <2>9, TransactionStep DEF Relies
<1> QED BY <1>3, <1>4 DEF LockActiveAgent

LEMMA MembershipInbox ==
    ASSUME InboxInv, NEW r \in Requests, AssertAgentTeamMembership(r) PROVE InboxInv'
<1>0. UNCHANGED dbVars BY DEF AssertAgentTeamMembership, dbVars
<1>1. tx[r].at = "membership" /\ Relies(r) /\ TxOK
    BY DEF AssertAgentTeamMembership, InboxInv
<1>2. CASE End(r) BY <1>0, <1>2, EndInbox
<1>3. ASSUME NEW step \in {"skills", "assignTeam"}, Go(r, step),
             step = "skills" <=> tx[r].setAgent \in Agents
      PROVE  InboxInv'
    <2>1. step \in Steps BY DEF Steps
    <2>2. Shape(r)'
        <3>1. Shape(r) /\ tx[r].op # "route" /\ (tx[r].op = "claim" => tx[r].setAgent \in Agents)
            BY <1>1 DEF Shape, Relies
        <3>2. tx[r].op \in {"claim", "route", "update"} BY <1>1 DEF TxOK, Transactions
        <3> QED BY <1>1, <1>3, <2>1, <3>1, <3>2, GoFields DEF Shape
    <2>3. /\ tx'[r].at = step /\ tx'[r].op = tx[r].op /\ tx'[r].op # "route"
          /\ tx'[r].conv = tx[r].conv
        BY <1>1, <1>3, <2>1, GoFields DEF Shape, Relies
    <2>4. Prospects(r)' = Prospects(r) /\ (step = "assignTeam" => Prospects(r) = {})
        BY <1>1, <1>3, <2>1, <2>3, GoFields DEF Prospects
    <2>5. UNCHANGED <<assigned, agent>> BY <1>0 DEF dbVars, rowVars, configVars
    <2>6. NobodyHasIt(r)'
        BY <1>1, <1>3, <2>2, <2>3, <2>5 DEF NobodyHasIt, Relies
    <2>7. ProspectsReady(r)' BY <1>1, <1>3, <2>3, <2>4, <2>5 DEF ProspectsReady, Relies
    <2>8. ProspectsSkilled(r)' /\ ProspectsHaveRoom(r)'
        BY <1>3, <2>3, <2>4 DEF ProspectsSkilled, ProspectsHaveRoom
    <2> QED BY <1>0, <1>1, <1>3, <2>1, <2>2, <2>6, <2>7, <2>8, GoInbox DEF Relies
<1>4. CASE Go(r, IF tx[r].setAgent \in Agents THEN "skills" ELSE "assignTeam")
    BY <1>3, <1>4
<1> QED BY <1>2, <1>4 DEF AssertAgentTeamMembership

(* A statement of routing: r moves on with other candidates, locks or a    *)
(* target, all of them free or its own.                                    *)
LEMMA RouteInbox ==
    ASSUME InboxInv, UNCHANGED dbVars, NEW r \in Requests, NEW x \in Transactions,
           tx' = [tx EXCEPT ![r] = x], x.conv = tx[r].conv,
           tx[r].at \notin {"idle", "conversation"},
           \A a \in x.locks : a \in tx[r].locks \/ AgentFree(a), Relies(r)'
    PROVE  InboxInv'
<1>1. tx'[r] = x /\ TxOK' /\ \A q \in Requests : q # r => tx'[q] = tx[q]
    BY DEF InboxInv, TxOK
<1>2. \A p, q \in Requests : Exclusive(p, q)' BY <1>1, LocksStayExclusive
<1> QED BY <1>1, <1>2, TransactionStep

LEMMA CheckSkillsInbox ==
    ASSUME InboxInv, NEW r \in Requests, CheckSkills(r) PROVE InboxInv'
<1> DEFINE c == tx[r].conv
           fit == {a \in tx[r].candidates : Meets(a, c)}
<1>0. UNCHANGED dbVars BY DEF CheckSkills, dbVars
<1>1. tx[r].at = "skills" /\ Relies(r) /\ TxOK BY DEF CheckSkills, InboxInv
<1>2. CASE End(r) BY <1>0, <1>2, EndInbox
<1>3. UNCHANGED <<assigned, agent, team, members, minLevel, level, skillActive>>
    BY <1>0 DEF dbVars, rowVars, configVars
<1>4. CASE /\ tx[r].op = "route" /\ RequirementsActive(c)
           /\ tx' = [tx EXCEPT ![r].at = "capacity", ![r].candidates = fit]
    <2>1. PICK x : x = [tx[r] EXCEPT !.at = "capacity", !.candidates = fit] OBVIOUS
    <2>2. x \in Transactions /\ tx' = [tx EXCEPT ![r] = x] /\ tx'[r] = x
        BY <1>1, <1>4, <2>1 DEF TxOK, Transactions, Steps
    <2>3. /\ tx'[r].at = "capacity" /\ tx'[r].op = "route" /\ tx'[r].conv = c
          /\ tx'[r].setAgent = tx[r].setAgent /\ tx'[r].setTeam = tx[r].setTeam
          /\ tx'[r].setStatus = tx[r].setStatus /\ tx'[r].locks = tx[r].locks
          /\ tx'[r].candidates = fit /\ x.conv = c /\ x.locks = tx[r].locks
        <3>1. tx[r] \in Transactions BY <1>1 DEF TxOK
        <3>2. /\ x.at = "capacity" /\ x.op = tx[r].op /\ x.conv = c /\ x.candidates = fit
              /\ x.setAgent = tx[r].setAgent /\ x.setTeam = tx[r].setTeam
              /\ x.setStatus = tx[r].setStatus /\ x.locks = tx[r].locks
            BY <2>1, <3>1 DEF Transactions
        <3> QED BY <1>4, <2>2, <3>2
    <2>4. Shape(r)' BY <1>1, <1>4, <2>3 DEF Shape, Relies
    <2>5. Prospects(r)' = fit /\ fit \subseteq Prospects(r)
        BY <1>1, <1>4, <2>3 DEF Prospects
    <2>6. NobodyHasIt(r)' BY <1>1, <1>3, <1>4, <2>3 DEF NobodyHasIt, Relies
    <2>7. ProspectsReady(r)' BY <1>1, <1>3, <1>4, <2>3, <2>5 DEF ProspectsReady, Relies
    <2>8. ProspectsSkilled(r)' BY <1>3, <1>4, <2>3, <2>5, SkillsStay DEF ProspectsSkilled
    <2>9. ProspectsHaveRoom(r)' BY <2>3 DEF ProspectsHaveRoom
    <2> QED BY <1>0, <1>1, <2>2, <2>3, <2>4, <2>6, <2>7, <2>8, <2>9, RouteInbox DEF Relies
<1>5. ASSUME NEW step \in {"capacity", "assignTeam"}, Go(r, step), tx[r].op # "route",
             step = "capacity" <=> NewAdmission(r),
             Meets(tx[r].target, c), RequirementsActive(c)
      PROVE  InboxInv'
    <2>1. step \in Steps BY DEF Steps
    <2>2. tx[r].setAgent \in Agents /\ tx[r].target = tx[r].setAgent /\ Shape(r)
        BY <1>1, <1>5 DEF Relies, Shape
    <2>3. step = "assignTeam" => tx[r].op = "update" /\ tx[r].setAgent = assigned[c]
        <3>1. tx[r].op = "claim" => assigned[c] = None BY <1>1 DEF Relies, NobodyHasIt
        <3>2. tx[r].op \in {"claim", "update"} BY <1>1, <1>5 DEF TxOK, Transactions
        <3> QED BY <1>5, <2>2, <3>1, <3>2, InboxAssumption DEF NewAdmission
    <2>4. Shape(r)' BY <1>1, <1>5, <2>1, <2>2, <2>3, GoFields DEF Shape
    <2>5. tx'[r].at = step /\ tx'[r].op = tx[r].op /\ tx'[r].conv = c
        BY <1>1, <1>5, <2>1, GoFields
    <2>6. Prospects(r)' = Prospects(r) /\ Prospects(r) = {tx[r].target}
        BY <1>1, <1>5, <2>1, <2>2, <2>5, GoFields DEF Prospects
    <2>7. NobodyHasIt(r)' BY <1>1, <1>3, <1>5, <2>3, <2>5 DEF NobodyHasIt, Relies
    <2>8. ProspectsReady(r)' BY <1>1, <1>3, <1>5, <2>5, <2>6 DEF ProspectsReady, Relies
    <2>9. ProspectsSkilled(r)' BY <1>3, <1>5, <2>5, <2>6, SkillsStay DEF ProspectsSkilled
    <2>10. ProspectsHaveRoom(r)'
        BY <1>3, <1>5, <2>2, <2>3, <2>5, <2>6 DEF ProspectsHaveRoom
    <2> QED BY <1>0, <1>1, <1>5, <2>1, <2>4, <2>7, <2>8, <2>9, <2>10, GoInbox DEF Relies
<1>6. CASE /\ tx[r].op # "route" /\ Meets(tx[r].target, c) /\ RequirementsActive(c)
           /\ Go(r, IF NewAdmission(r) THEN "capacity" ELSE "assignTeam")
    BY <1>5, <1>6
<1> QED BY <1>2, <1>4, <1>6 DEF CheckSkills

LEMMA CapacityMeansRoom ==
    ASSUME InboxInv, NEW a \in Agents, HasCapacity(a) PROVE LoadOf(a) < peak[a]
<1>1. agent[a].limit \in Nat /\ peak[a] \in Nat /\ agent[a].limit <= peak[a]
    BY InboxAssumption DEF InboxInv, ConfigOK, AgentRow
<1> QED BY <1>1, LoadIsNat DEF HasCapacity

LEMMA CheckCapacityInbox ==
    ASSUME InboxInv, NEW r \in Requests, CheckCapacity(r) PROVE InboxInv'
<1> DEFINE c == tx[r].conv
           fit == {a \in tx[r].candidates : HasCapacity(a)}
<1>0. UNCHANGED dbVars BY DEF CheckCapacity, dbVars
<1>1. tx[r].at = "capacity" /\ Relies(r) /\ TxOK BY DEF CheckCapacity, InboxInv
<1>2. CASE End(r) BY <1>0, <1>2, EndInbox
<1>3. /\ UNCHANGED <<assigned, agent, team, members, minLevel, level, skillActive, peak>>
      /\ \A a : LoadOf(a)' = LoadOf(a)
    BY <1>0 DEF dbVars, rowVars, configVars, LoadOf, Counted
<1>4. CASE /\ tx[r].op = "route" /\ fit # {}
           /\ tx' = [tx EXCEPT ![r].at = "write", ![r].target = Selected(fit)]
    <2>1. fit \in SUBSET Agents BY <1>1 DEF TxOK, Transactions
    <2>2. PICK b \in fit : b = Selected(fit) BY <1>4, <2>1, SelectedIsOne
    <2>3. PICK x : x = [tx[r] EXCEPT !.at = "write", !.target = b] OBVIOUS
    <2>4. x \in Transactions /\ tx' = [tx EXCEPT ![r] = x] /\ tx'[r] = x
        <3>1. tx[r] \in Transactions BY <1>1 DEF TxOK
        <3>2. x \in Transactions BY <2>1, <2>2, <2>3, <3>1 DEF Transactions, Steps
        <3>3. tx' = [tx EXCEPT ![r].at = "write", ![r].target = b] BY <1>4, <2>2
        <3>4. tx' = [tx EXCEPT ![r] = x] BY <1>1, <2>3, <3>3 DEF TxOK
        <3> QED BY <1>1, <3>2, <3>4 DEF TxOK
    <2>5. /\ tx'[r].at = "write" /\ tx'[r].op = "route" /\ tx'[r].conv = c
          /\ tx'[r].setAgent = tx[r].setAgent /\ tx'[r].setTeam = tx[r].setTeam
          /\ tx'[r].setStatus = tx[r].setStatus /\ tx'[r].locks = tx[r].locks
          /\ tx'[r].candidates = tx[r].candidates /\ tx'[r].target = b
          /\ x.conv = c /\ x.locks = tx[r].locks
        <3>1. tx[r] \in Transactions BY <1>1 DEF TxOK
        <3>2. /\ x.at = "write" /\ x.op = tx[r].op /\ x.conv = c /\ x.target = b
              /\ x.candidates = tx[r].candidates
              /\ x.setAgent = tx[r].setAgent /\ x.setTeam = tx[r].setTeam
              /\ x.setStatus = tx[r].setStatus /\ x.locks = tx[r].locks
            BY <2>3, <3>1 DEF Transactions
        <3> QED BY <1>4, <2>4, <3>2
    <2>6. Shape(r)' BY <1>1, <1>4, <2>2, <2>5 DEF Shape, Relies
    <2>7. Prospects(r)' = {b} /\ b \in Prospects(r)
        BY <1>1, <1>4, <2>2, <2>5 DEF Prospects
    <2>8. NobodyHasIt(r)' BY <1>1, <1>3, <1>4, <2>5 DEF NobodyHasIt, Relies
    <2>9. ProspectsReady(r)' BY <1>1, <1>3, <1>4, <2>5, <2>7 DEF ProspectsReady, Relies
    <2>10. ProspectsSkilled(r)'
        BY <1>1, <1>3, <2>5, <2>7, SkillsStay DEF ProspectsSkilled, Relies
    <2>11. ProspectsHaveRoom(r)'
        BY <1>3, <2>1, <2>2, <2>5, <2>7, CapacityMeansRoom DEF ProspectsHaveRoom
    <2> QED BY <1>0, <1>1, <2>4, <2>5, <2>6, <2>8, <2>9, <2>10, <2>11, RouteInbox DEF Relies
<1>5. ASSUME NEW step \in {"write", "assignTeam"}, Go(r, step), tx[r].op # "route",
             step = "write" <=> tx[r].op = "claim", HasCapacity(tx[r].target)
      PROVE  InboxInv'
    <2>1. step \in Steps BY DEF Steps
    <2>2. tx[r].setAgent \in Agents /\ tx[r].target = tx[r].setAgent /\ Shape(r)
          /\ tx[r].op \in {"claim", "update"}
        BY <1>1, <1>5 DEF Relies, Shape, TxOK, Transactions
    <2>3. Shape(r)' BY <1>1, <1>5, <2>1, <2>2, GoFields DEF Shape
    <2>4. tx'[r].at = step /\ tx'[r].op = tx[r].op /\ tx'[r].conv = c
        BY <1>1, <1>5, <2>1, GoFields
    <2>5. Prospects(r)' = Prospects(r) /\ Prospects(r) = {tx[r].target}
        BY <1>1, <1>5, <2>1, <2>2, <2>4, GoFields DEF Prospects
    <2>6. NobodyHasIt(r)' BY <1>1, <1>3, <1>5, <2>4 DEF NobodyHasIt, Relies
    <2>7. ProspectsReady(r)' BY <1>1, <1>3, <1>5, <2>4, <2>5 DEF ProspectsReady, Relies
    <2>8. ProspectsSkilled(r)'
        BY <1>1, <1>3, <1>5, <2>4, <2>5, SkillsStay DEF ProspectsSkilled, Relies
    <2>9. ProspectsHaveRoom(r)'
        BY <1>3, <1>5, <2>2, <2>4, <2>5, CapacityMeansRoom DEF ProspectsHaveRoom
    <2> QED BY <1>0, <1>1, <1>5, <2>1, <2>3, <2>6, <2>7, <2>8, <2>9, GoInbox DEF Relies
<1>6. CASE tx[r].op = "route" BY <1>2, <1>4, <1>6 DEF CheckCapacity
<1>7. CASE tx[r].op = "claim" BY <1>2, <1>5, <1>7 DEF CheckCapacity
<1>8. CASE tx[r].op \notin {"route", "claim"} BY <1>2, <1>5, <1>8 DEF CheckCapacity
<1> QED BY <1>6, <1>7, <1>8

LEMMA AssignTeamInbox ==
    ASSUME InboxInv, NEW r \in Requests, AssignTeam(r) PROVE InboxInv'
<1>0. UNCHANGED dbVars BY DEF AssignTeam, dbVars
<1>1. tx[r].at = "assignTeam" /\ Relies(r) /\ TxOK /\ Go(r, "write") BY DEF AssignTeam, InboxInv
<1>2. /\ UNCHANGED <<assigned, agent, team, members, minLevel, level, skillActive, peak>>
      /\ \A a : LoadOf(a)' = LoadOf(a)
    BY <1>0 DEF dbVars, rowVars, configVars, LoadOf, Counted
<1>3. "write" \in Steps BY DEF Steps
<1>4. tx[r].op = "update" BY <1>1 DEF Relies, Shape
<1>5. tx'[r].at = "write" /\ tx'[r].op = tx[r].op /\ tx'[r].conv = tx[r].conv
    BY <1>1, <1>3, GoFields
<1>6. Shape(r)' BY <1>1, <1>3, <1>4, GoFields DEF Shape, Relies
<1>7. Prospects(r)' = Prospects(r) BY <1>1, <1>3, <1>4, <1>5, GoFields DEF Prospects
<1>8. NobodyHasIt(r)' BY <1>4, <1>5 DEF NobodyHasIt
<1>9. ProspectsReady(r)' BY <1>1, <1>2, <1>4, <1>5, <1>7 DEF ProspectsReady, Relies
<1>10. ProspectsSkilled(r)'
    BY <1>1, <1>2, <1>5, <1>7, SkillsStay DEF ProspectsSkilled, Relies
<1>11. ProspectsHaveRoom(r)' BY <1>1, <1>2, <1>5, <1>7 DEF ProspectsHaveRoom, Relies
<1> QED BY <1>0, <1>1, <1>3, <1>6, <1>8, <1>9, <1>10, <1>11, GoInbox DEF Relies

LEMMA LockTeamInbox ==
    ASSUME InboxInv, NEW r \in Requests, LockTeam(r) PROVE InboxInv'
<1> DEFINE c == tx[r].conv
           found == {a \in members[team[c]] : agent[a].active}
<1>0. UNCHANGED dbVars BY DEF LockTeam, dbVars
<1>1. tx[r].at = "lockTeam" /\ Relies(r) /\ TxOK BY DEF LockTeam, InboxInv
<1>2. CASE End(r) BY <1>0, <1>2, EndInbox
<1>3. UNCHANGED <<assigned, agent, team, members>>
    BY <1>0 DEF dbVars, rowVars, configVars
<1>4. CASE found # {} /\ tx' = [tx EXCEPT ![r].at = "lockMembers", ![r].todo = found]
    <2>1. tx[r].op = "route" /\ c \in Conversations /\ team[c] \in Teams
          /\ tx[r].locks = {} /\ tx[r].candidates = {}
        BY <1>1 DEF Relies, Shape, NobodyHasIt
    <2>2. found \in SUBSET Agents BY <2>1 DEF InboxInv, ConfigOK
    <2>3. PICK x : x = [tx[r] EXCEPT !.at = "lockMembers", !.todo = found] OBVIOUS
    <2>4. tx[r] \in Transactions BY <1>1 DEF TxOK
    <2>5. /\ x.at = "lockMembers" /\ x.op = tx[r].op /\ x.conv = c /\ x.todo = found
          /\ x.candidates = tx[r].candidates /\ x.locks = tx[r].locks
          /\ x.setAgent = tx[r].setAgent /\ x.setTeam = tx[r].setTeam
          /\ x.setStatus = tx[r].setStatus /\ x \in Transactions
        BY <2>2, <2>3, <2>4 DEF Transactions, Steps
    <2>6. tx' = [tx EXCEPT ![r] = x] /\ tx'[r] = x BY <1>1, <1>4, <2>3 DEF TxOK
    <2>7. Shape(r)' BY <1>1, <1>4, <2>1, <2>5, <2>6 DEF Shape, Relies
    <2>8. Prospects(r)' = {} BY <2>1, <2>5, <2>6 DEF Prospects
    <2>9. NobodyHasIt(r)' BY <1>1, <1>3, <2>1, <2>5, <2>6 DEF NobodyHasIt, Relies
    <2>10. ProspectsReady(r)' BY <2>8 DEF ProspectsReady
    <2>11. ProspectsSkilled(r)' /\ ProspectsHaveRoom(r)'
        BY <2>5, <2>6 DEF ProspectsSkilled, ProspectsHaveRoom
    <2> QED BY <1>0, <1>1, <2>5, <2>6, <2>7, <2>9, <2>10, <2>11, RouteInbox DEF Relies
<1> QED BY <1>2, <1>4 DEF LockTeam

LEMMA LockMembersInbox ==
    ASSUME InboxInv, NEW r \in Requests, LockMembers(r) PROVE InboxInv'
<1> DEFINE c == tx[r].conv
<1>1. tx[r].at = "lockMembers" /\ Relies(r) /\ TxOK /\ tx[r] \in Transactions
    BY DEF LockMembers, InboxInv, TxOK
<1>2. PICK a \in tx[r].todo : (\A b \in tx[r].todo : a <= b) /\ LockMember(r, a)
    BY DEF LockMembers
<1> DEFINE keep == IF a \in members[team[c]] /\ agent[a].active THEN {a} ELSE {}
           cand == tx[r].candidates \cup keep
           locks == tx[r].locks \cup {a}
<1>3. UNCHANGED dbVars BY <1>2 DEF LockMember, dbVars
<1>4. UNCHANGED <<assigned, agent, team, members>>
    BY <1>3 DEF dbVars, rowVars, configVars
<1>5. /\ tx[r].op = "route" /\ Shape(r) /\ NobodyHasIt(r) /\ a \in Agents
      /\ tx[r].todo \subseteq Agents /\ tx[r].locks \subseteq Agents
      /\ tx[r].candidates \subseteq tx[r].locks
      /\ \A b \in tx[r].candidates : agent[b].active /\ b \in members[team[c]]
    BY <1>1, <1>2 DEF Relies, Shape, ProspectsReady, Prospects, Transactions
<1>6. cand \subseteq locks /\ cand \subseteq Agents
      /\ \A b \in cand : agent[b].active /\ b \in members[team[c]]
    BY <1>5
<1>7. CASE End(r) BY <1>3, <1>7, EndInbox
<1>8. ASSUME NEW step \in {"lockMembers", "skills"}, NEW todo \in SUBSET Agents,
             NEW S \in SUBSET cand, NEW x,
             x = [tx[r] EXCEPT !.at = step, !.todo = todo, !.locks = locks, !.candidates = S],
             tx' = [tx EXCEPT ![r] = x],
             step = "lockMembers" => todo # {} /\ todo = tx[r].todo \ {a},
             step = "skills" => \A b \in S : agent[b].available
      PROVE  InboxInv'
    <2>1. /\ x.at = step /\ x.op = tx[r].op /\ x.conv = c /\ x.todo = todo
          /\ x.candidates = S /\ x.locks = locks
          /\ x.setAgent = tx[r].setAgent /\ x.setTeam = tx[r].setTeam
          /\ x.setStatus = tx[r].setStatus /\ x \in Transactions
        BY <1>1, <1>5, <1>6, <1>8 DEF Transactions, Steps
    <2>2. tx'[r] = x BY <1>1, <1>8 DEF TxOK
    <2>3. step = "lockMembers" => \A l \in locks, b \in todo : l < b
        <3> SUFFICES ASSUME step = "lockMembers", NEW l \in locks, NEW b \in todo PROVE l < b
            OBVIOUS
        <3>1. l \in Nat /\ b \in Nat /\ a \in Nat /\ b \in tx[r].todo /\ b # a
            BY <1>5, <1>8, InboxAssumption
        <3>2. CASE l = a BY <1>2, <3>1, <3>2
        <3>3. CASE l \in tx[r].locks BY <1>1, <1>5, <3>1, <3>3 DEF Shape
        <3> QED BY <3>2, <3>3
    <2>4. Shape(r)' BY <1>1, <1>5, <1>6, <1>8, <2>1, <2>2, <2>3 DEF Shape
    <2>5. Prospects(r)' = S BY <1>5, <1>8, <2>1, <2>2 DEF Prospects
    <2>6. NobodyHasIt(r)' BY <1>1, <1>4, <1>5, <2>1, <2>2 DEF NobodyHasIt
    <2>7. ProspectsReady(r)' BY <1>4, <1>6, <1>8, <2>1, <2>2, <2>5 DEF ProspectsReady
    <2>8. ProspectsSkilled(r)' /\ ProspectsHaveRoom(r)'
        BY <1>8, <2>1, <2>2 DEF ProspectsSkilled, ProspectsHaveRoom
    <2>9. AgentFree(a) BY <1>2 DEF LockMember
    <2> QED BY <1>1, <1>3, <1>8, <2>1, <2>4, <2>6, <2>7, <2>8, <2>9, RouteInbox DEF Relies
<1>9. CASE /\ tx[r].todo # {a}
           /\ tx' = [tx EXCEPT ![r].todo = @ \ {a}, ![r].locks = @ \cup {a}, ![r].candidates = cand]
    <2>1. PICK x : x = [tx[r] EXCEPT !.at = "lockMembers", !.todo = tx[r].todo \ {a},
                                     !.locks = locks, !.candidates = cand]
        OBVIOUS
    <2>2. x = [tx[r] EXCEPT !.todo = tx[r].todo \ {a}, !.locks = locks, !.candidates = cand]
        BY <1>1, <2>1 DEF Transactions
    <2>3. tx' = [tx EXCEPT ![r] = x] BY <1>1, <1>9, <2>2 DEF TxOK
    <2>4. tx[r].todo \ {a} # {} /\ tx[r].todo \ {a} \in SUBSET Agents BY <1>2, <1>5, <1>9
    <2> QED BY <1>8, <2>1, <2>3, <2>4
<1>10. CASE tx' = [tx EXCEPT ![r].at = "skills", ![r].todo = {}, ![r].locks = @ \cup {a},
                             ![r].candidates = {b \in cand : agent[b].available}]
    <2> DEFINE S == {b \in cand : agent[b].available}
    <2>1. PICK x : x = [tx[r] EXCEPT !.at = "skills", !.todo = {}, !.locks = locks,
                                     !.candidates = S]
        OBVIOUS
    <2>2. tx' = [tx EXCEPT ![r] = x] BY <1>1, <1>10, <2>1 DEF TxOK
    <2>3. PICK T \in SUBSET cand, todo \in SUBSET Agents : T = S /\ todo = {} OBVIOUS
    <2>4. x = [tx[r] EXCEPT !.at = "skills", !.todo = todo, !.locks = locks, !.candidates = T]
        BY <2>1, <2>3
    <2>5. \A b \in T : agent[b].available BY <2>3
    <2> QED BY <1>8, <2>2, <2>4, <2>5
<1> QED BY <1>2, <1>7, <1>9, <1>10 DEF LockMember

-----------------------------------------------------------------------------
(* Steps that change rows.                                                 *)

Working(r) == tx[r].at \notin {"idle", "conversation"}

LEMMA ProspectsLocked ==
    ASSUME TxOK, NEW r \in Requests, Shape(r), Working(r),
           tx[r].at # "agent"
    PROVE  Prospects(r) \subseteq tx[r].locks
<1>1. tx[r] \in Transactions BY DEF TxOK
<1> QED BY <1>1 DEF Prospects, Shape, Working, Transactions, Steps

LEMMA LoadShrinks ==
    ASSUME NEW a, Counted(a)' \subseteq Counted(a) PROVE LoadOf(a)' <= LoadOf(a)
<1>1. IsFiniteSet(Counted(a)) BY InboxAssumption, FS_Subset DEF Counted
<1>2. Cardinality(Counted(a)') <= Cardinality(Counted(a)) BY <1>1, FS_Subset
<1> QED BY <1>2 DEF LoadOf

LEMMA LoadGrowsByOne ==
    ASSUME NEW a, NEW c, Counted(a)' \subseteq Counted(a) \cup {c}
    PROVE  LoadOf(a)' <= LoadOf(a) + 1
<1>1. IsFiniteSet(Counted(a)) BY InboxAssumption, FS_Subset DEF Counted
<1>2. /\ IsFiniteSet(Counted(a) \cup {c}) /\ Cardinality(Counted(a)) \in Nat
      /\ Cardinality(Counted(a) \cup {c}) <= Cardinality(Counted(a)) + 1
    <2>1. Cardinality(Counted(a)) \in Nat BY <1>1, FS_CardinalityType
    <2>2. /\ IsFiniteSet(Counted(a) \cup {c})
          /\ Cardinality(Counted(a) \cup {c})
               = IF c \in Counted(a) THEN Cardinality(Counted(a)) ELSE Cardinality(Counted(a)) + 1
        BY <1>1, FS_AddElement
    <2> QED BY <2>1, <2>2
<1>3. /\ Cardinality(Counted(a)') <= Cardinality(Counted(a) \cup {c})
      /\ Cardinality(Counted(a) \cup {c}) \in Nat /\ Cardinality(Counted(a)') \in Nat
    BY <1>2, FS_Subset, FS_CardinalityType
<1> QED BY <1>2, <1>3 DEF LoadOf

(* The write of one conversation leaves what other transactions rely on:   *)
(* they hold other conversations.                                          *)
LEMMA OthersRelyOnRows ==
    ASSUME InboxInv, NEW c, NEW q \in Requests, tx'[q] = tx[q],
           UNCHANGED <<minLevel, agent, members, level, skillActive, peak>>,
           Working(q) => tx[q].conv # c,
           \A d \in Conversations : d # c => assigned'[d] = assigned[d] /\ team'[d] = team[d],
           tx[q].at \in {"assignTeam", "write"} =>
             \A b \in Prospects(q) : LoadOf(b)' <= LoadOf(b)
    PROVE  Relies(q)'
<1>1. Relies(q) BY DEF InboxInv
<1>2. Working(q) => /\ tx[q].conv \in Conversations
                    /\ assigned'[tx[q].conv] = assigned[tx[q].conv]
                    /\ team'[tx[q].conv] = team[tx[q].conv]
    BY <1>1 DEF Relies, Shape, Working
<1>3. Prospects(q)' = Prospects(q) BY DEF Prospects
<1>4. Shape(q)' BY <1>1 DEF Relies, Shape
<1>5. NobodyHasIt(q)' BY <1>1, <1>2 DEF Relies, NobodyHasIt, Working
<1>6. ProspectsReady(q)' BY <1>1, <1>2, <1>3 DEF Relies, ProspectsReady, Working
<1>7. ProspectsSkilled(q)' BY <1>1, <1>3, SkillsStay DEF Relies, ProspectsSkilled
<1>8. ProspectsHaveRoom(q)'
    <2> SUFFICES ASSUME tx[q].at \in {"assignTeam", "write"}, NEW b \in Prospects(q),
                        b # assigned[tx[q].conv]
                 PROVE  LoadOf(b)' < peak[b]
        BY <1>2, <1>3 DEF ProspectsHaveRoom, Working
    <2>1. LoadOf(b)' <= LoadOf(b) /\ LoadOf(b) < peak[b] /\ LoadOf(b) \in Nat
        BY <1>1, LoadIsNat DEF Relies, ProspectsHaveRoom, Working
    <2>2. LoadOf(b)' \in Nat
        <3>1. IsFiniteSet(Counted(b)') BY InboxAssumption, FS_Subset DEF Counted
        <3> QED BY <3>1, FS_CardinalityType DEF LoadOf
    <2>3. peak[b] \in Nat
        <3>1. tx[q] \in Transactions BY DEF InboxInv, TxOK
        <3>2. b \in Agents
            BY <1>1, <3>1, ProspectsLocked DEF InboxInv, Relies, Working, Transactions
        <3> QED BY <3>2 DEF InboxInv, ConfigOK
    <2> QED BY <2>1, <2>2, <2>3
<1> QED BY <1>4, <1>5, <1>6, <1>7, <1>8 DEF Relies

LEMMA WriteInbox == ASSUME InboxInv, NEW r \in Requests, Write(r) PROVE InboxInv'
<1> DEFINE c == tx[r].conv
           a == IF tx[r].op = "route" THEN tx[r].target ELSE FinalAgent(r)
           s == IF tx[r].setStatus = Keep THEN status[c] ELSE tx[r].setStatus
<1>1. /\ tx[r].at = "write" /\ Relies(r) /\ tx[r] \in Transactions /\ c \in Conversations
      /\ RowsOK /\ ConfigOK
    BY DEF Write, InboxInv, TxOK, Relies, Shape
<1>2. a \in Agents \cup {None} /\ (a \in Agents /\ a # assigned[c] => a \in Prospects(r))
    BY <1>1, InboxAssumption
       DEF Relies, Shape, RowsOK, FinalAgent, Prospects, Transactions
<1>3. /\ assigned' = [assigned EXCEPT ![c] = a]
      /\ status' = [status EXCEPT ![c] = s]
      /\ team' = [team EXCEPT ![c] = FinalTeam(r)]
      /\ reopened' = [reopened EXCEPT ![c] =
            IF a # assigned[c] THEN FALSE ELSE @ \/ (status[c] = "RESOLVED" /\ s # "RESOLVED")]
      /\ End(r) /\ UNCHANGED configVars /\ UNCHANGED peak
    BY DEF Write
<1>4. RowsOK'
    <2>1. s \in {"OPEN", "PENDING", "RESOLVED"} BY <1>1 DEF RowsOK, Transactions
    <2>2. FinalTeam(r) \in Teams \cup {None}
        BY <1>1 DEF RowsOK, Transactions, FinalTeam
    <2>3. reopened' \in [Conversations -> BOOLEAN] BY <1>1, <1>3 DEF RowsOK
    <2> QED BY <1>1, <1>2, <1>3, <2>1, <2>2, <2>3 DEF RowsOK
<1>5. ConfigOK' BY <1>1, <1>3 DEF ConfigOK, configVars
<1>6. /\ tx'[r] = NoTransaction /\ TxOK' /\ \A q \in Requests : q # r => tx'[q] = tx[q]
    BY <1>3 DEF End, InboxInv, TxOK, NoTransaction, Transactions, Steps
<1>7. Relies(r)'
    BY <1>6 DEF Relies, Shape, NobodyHasIt, ProspectsReady, ProspectsSkilled,
           ProspectsHaveRoom, NoTransaction
<1>8. \A p, q \in Requests : Exclusive(p, q)'
    BY <1>6, LocksStayExclusive DEF NoTransaction
<1>9. ASSUME NEW b \in Agents, ~(b = a /\ a # assigned[c]) PROVE Counted(b)' \subseteq Counted(b)
    <2> SUFFICES ASSUME NEW d \in Counted(b)' PROVE d \in Counted(b) OBVIOUS
    <2>1. d \in Conversations /\ assigned'[d] = b /\ status'[d] # "RESOLVED" /\ ~reopened'[d]
        BY DEF Counted
    <2>2. CASE d # c BY <1>1, <1>3, <2>1, <2>2 DEF Counted, RowsOK
    <2>3. CASE d = c
        <3>1. b = a /\ a = assigned[c] /\ s # "RESOLVED"
            BY <1>1, <1>3, <1>9, <2>1, <2>3 DEF RowsOK
        <3>2. ~(reopened[c] \/ (status[c] = "RESOLVED" /\ s # "RESOLVED"))
            BY <1>1, <1>3, <2>1, <2>3, <3>1 DEF RowsOK
        <3> QED BY <1>1, <2>3, <3>1, <3>2 DEF Counted
    <2> QED BY <2>2, <2>3
<1>10. \A b \in Agents : Counted(b)' \subseteq Counted(b) \cup {c}
    BY <1>1, <1>3 DEF Counted, RowsOK
<1>11. ASSUME NEW q \in Requests, q # r PROVE Relies(q)'
    <2>1. tx'[q] = tx[q] /\ (Working(q) => tx[q].conv # c)
        BY <1>1, <1>6, <1>11 DEF InboxInv, Exclusive, Working
    <2>2. ASSUME NEW b \in Prospects(q), tx[q].at \in {"assignTeam", "write"}
          PROVE  LoadOf(b)' <= LoadOf(b)
        <3>1. b \in tx[q].locks BY <2>2, ProspectsLocked DEF InboxInv, Relies, Working
        <3>2. b \in Agents BY <3>1 DEF InboxInv, TxOK, Transactions
        <3>3. ~(b = a /\ a # assigned[c])
            <4> SUFFICES ASSUME b = a, a # assigned[c] PROVE FALSE OBVIOUS
            <4>1. b \in tx[r].locks
                BY <1>1, <1>2, <3>2, ProspectsLocked DEF InboxInv, Relies, Working
            <4> QED BY <1>11, <3>1, <4>1 DEF InboxInv, Exclusive
        <3> QED BY <1>9, <3>2, <3>3, LoadShrinks
    <2>3. \A d \in Conversations : d # c => assigned'[d] = assigned[d] /\ team'[d] = team[d]
        BY <1>1, <1>3 DEF RowsOK
    <2> QED BY <1>3, <2>1, <2>2, <2>3, OthersRelyOnRows DEF configVars
<1>12. CapacityHonoured'
    <2> SUFFICES ASSUME NEW b \in Agents PROVE LoadOf(b)' <= peak'[b]
        BY DEF CapacityHonoured, LoadOf, Counted
    <2>1. LoadOf(b) <= peak[b] /\ peak'[b] = peak[b] /\ peak[b] \in Nat
        BY <1>1, <1>3 DEF InboxInv, CapacityHonoured, LoadOf, Counted, ConfigOK
    <2>2. LoadOf(b) \in Nat /\ LoadOf(b)' \in Nat
        <3>1. IsFiniteSet(Counted(b)') BY InboxAssumption, FS_Subset DEF Counted
        <3> QED BY <3>1, FS_CardinalityType, LoadIsNat DEF LoadOf
    <2>3. CASE ~(b = a /\ a # assigned[c])
        BY <1>9, <2>1, <2>2, <2>3, LoadShrinks
    <2>4. CASE b = a /\ a # assigned[c]
        <3>1. LoadOf(b)' <= LoadOf(b) + 1 BY <1>10, <2>4, LoadGrowsByOne
        <3>2. LoadOf(b) < peak[b] BY <1>1, <1>2, <2>4 DEF Relies, ProspectsHaveRoom
        <3> QED BY <2>1, <2>2, <3>1, <3>2
    <2> QED BY <2>3, <2>4
<1> QED BY <1>4, <1>5, <1>6, <1>7, <1>8, <1>11, <1>12 DEF InboxInv

(* A row written by a transaction of one statement, while nobody holds it. *)
LEMMA FreeRowInbox ==
    ASSUME InboxInv, NEW c \in Conversations, ConversationFree(c), RowsOK',
           UNCHANGED <<minLevel, agent, members, level, skillActive, peak, tx>>,
           \A d \in Conversations : d # c => assigned'[d] = assigned[d] /\ team'[d] = team[d],
           \A b \in Agents : Counted(b)' \subseteq Counted(b)
    PROVE  InboxInv'
<1>1. ConfigOK' /\ TxOK' BY DEF InboxInv, ConfigOK, TxOK
<1>2. ASSUME NEW q \in Requests PROVE Relies(q)'
    <2>1. Working(q) => tx[q].conv # c BY DEF ConversationFree, Holds, Working
    <2>2. ASSUME NEW b \in Prospects(q), tx[q].at \in {"assignTeam", "write"}
          PROVE  LoadOf(b)' <= LoadOf(b)
        <3>1. b \in tx[q].locks BY <2>2, ProspectsLocked DEF InboxInv, Relies, Working
        <3>2. b \in Agents BY <3>1 DEF InboxInv, TxOK, Transactions
        <3> QED BY <3>2, LoadShrinks
    <2> QED BY <2>1, <2>2, OthersRelyOnRows
<1>3. \A p, q \in Requests : Exclusive(p, q)' BY DEF InboxInv, Exclusive
<1>4. CapacityHonoured'
    <2> SUFFICES ASSUME NEW b \in Agents PROVE LoadOf(b)' <= peak'[b]
        BY DEF CapacityHonoured, LoadOf, Counted
    <2>1. LoadOf(b) <= peak[b] /\ peak'[b] = peak[b] /\ peak[b] \in Nat
        BY DEF InboxInv, CapacityHonoured, LoadOf, Counted, ConfigOK
    <2>2. LoadOf(b) \in Nat /\ LoadOf(b)' \in Nat
        <3>1. IsFiniteSet(Counted(b)') BY InboxAssumption, FS_Subset DEF Counted
        <3> QED BY <3>1, FS_CardinalityType, LoadIsNat DEF LoadOf
    <2> QED BY <2>1, <2>2, LoadShrinks
<1> QED BY <1>1, <1>2, <1>3, <1>4 DEF InboxInv

LEMMA ReleaseInbox ==
    ASSUME InboxInv, NEW c \in Conversations, NEW a \in Agents, ReleaseConversation(c, a)
    PROVE  InboxInv'
<1>1. RowsOK' BY DEF ReleaseConversation, InboxInv, RowsOK
<1>2. \A d \in Conversations : d # c => assigned'[d] = assigned[d] /\ team'[d] = team[d]
    BY DEF ReleaseConversation, InboxInv, RowsOK
<1>3. \A b \in Agents : Counted(b)' \subseteq Counted(b)
    BY InboxAssumption DEF ReleaseConversation, InboxInv, RowsOK, Counted
<1> QED BY <1>1, <1>2, <1>3, FreeRowInbox DEF ReleaseConversation, configVars

LEMMA ActivityInbox ==
    ASSUME InboxInv, NEW c \in Conversations, Activity(c) PROVE InboxInv'
<1>1. RowsOK' BY DEF Activity, InboxInv, RowsOK
<1>2. ASSUME NEW b \in Agents, NEW d \in Counted(b)' PROVE d \in Counted(b)
    <2>1. d \in Conversations /\ assigned'[d] = b /\ status'[d] # "RESOLVED" /\ ~reopened'[d]
        BY <1>2 DEF Counted
    <2>2. b # None BY InboxAssumption
    <2>3. CASE d # c BY <2>1, <2>3 DEF Activity, InboxInv, RowsOK, Counted
    <2>4. CASE d = c
        <3>1. ~(reopened[c] \/ (status[c] = "RESOLVED" /\ assigned[c] # None))
            BY <2>1, <2>4 DEF Activity, InboxInv, RowsOK
        <3> QED BY <2>1, <2>2, <2>4, <3>1 DEF Activity, Counted
    <2> QED BY <2>3, <2>4
<1> QED BY <1>1, <1>2, FreeRowInbox DEF Activity, configVars

-----------------------------------------------------------------------------
(* Changes of the configuration wait for the rows a transaction relies on. *)

LEMMA ConfigureStep ==
    ASSUME InboxInv, ConfigOK', UNCHANGED <<rowVars, reopened, tx>>,
           \A a \in Agents : peak'[a] >= peak[a],
           \A q \in Requests : ProspectsReady(q)' /\ ProspectsSkilled(q)'
    PROVE  InboxInv'
<1>1. UNCHANGED <<status, assigned, team, reopened, tx>> BY DEF rowVars
<1>2. RowsOK' /\ TxOK' BY <1>1 DEF InboxInv, RowsOK, TxOK
<1>3. \A p, q \in Requests : Exclusive(p, q)' BY DEF InboxInv, Exclusive
<1>4. \A a : LoadOf(a)' = LoadOf(a) BY <1>1 DEF LoadOf, Counted
<1>5. ASSUME NEW q \in Requests PROVE Relies(q)'
    <2>1. Relies(q) BY DEF InboxInv
    <2>2. Shape(q)' /\ NobodyHasIt(q)' BY <1>1, <2>1 DEF Relies, Shape, NobodyHasIt
    <2>3. Prospects(q)' = Prospects(q) BY DEF Prospects
    <2>4. ProspectsHaveRoom(q)'
        <3> SUFFICES ASSUME tx[q].at \in {"assignTeam", "write"}, NEW b \in Prospects(q),
                            b # assigned[tx[q].conv]
                     PROVE  LoadOf(b) < peak'[b]
            BY <1>1, <1>4, <2>3 DEF ProspectsHaveRoom
        <3>1. LoadOf(b) < peak[b] /\ LoadOf(b) \in Nat
            BY <2>1, LoadIsNat DEF Relies, ProspectsHaveRoom
        <3>2. tx[q] \in Transactions BY DEF InboxInv, TxOK
        <3>3. b \in Agents
            BY <2>1, <3>2, ProspectsLocked DEF InboxInv, Relies, Working, Transactions
        <3> QED BY <3>1, <3>3 DEF InboxInv, ConfigOK
    <2> QED BY <2>2, <2>4 DEF Relies
<1>6. CapacityHonoured'
    <2> SUFFICES ASSUME NEW b \in Agents PROVE LoadOf(b) <= peak'[b]
        BY <1>4 DEF CapacityHonoured, LoadOf, Counted
    <2>1. LoadOf(b) <= peak[b] /\ peak[b] \in Nat /\ peak'[b] \in Nat
        BY DEF InboxInv, CapacityHonoured, LoadOf, Counted, ConfigOK
    <2> QED BY <2>1, LoadIsNat
<1> QED BY <1>2, <1>3, <1>5, <1>6 DEF InboxInv

(* The two facts a change of configuration could disturb, when it leaves   *)
(* agents and members, or skills, alone.                                   *)
LEMMA ReadyStays ==
    ASSUME InboxInv, UNCHANGED <<rowVars, agent, members, tx>>, NEW q \in Requests
    PROVE  ProspectsReady(q)'
<1>1. ProspectsReady(q) /\ Prospects(q)' = Prospects(q) BY DEF InboxInv, Relies, Prospects
<1> QED BY <1>1 DEF ProspectsReady, rowVars

LEMMA SkilledStays ==
    ASSUME InboxInv, UNCHANGED <<tx, minLevel, level, skillActive>>, NEW q \in Requests
    PROVE  ProspectsSkilled(q)'
<1>1. ProspectsSkilled(q) /\ Prospects(q)' = Prospects(q) BY DEF InboxInv, Relies, Prospects
<1> QED BY <1>1, SkillsStay DEF ProspectsSkilled

LEMMA SetRequirementInbox ==
    ASSUME InboxInv, NEW c \in Conversations, NEW s \in Skills, NEW n \in 0 .. MaxLevel,
           SetRequirement(c, s, n)
    PROVE  InboxInv'
<1>1. /\ UNCHANGED <<rowVars, reopened, tx, agent, members, level, skillActive, peak>>
      /\ ConversationFree(c)
      /\ minLevel' = [minLevel EXCEPT ![c][s] = n]
    BY DEF SetRequirement, Change
<1>2. ConfigOK' BY <1>1 DEF InboxInv, ConfigOK
<1>3. ASSUME NEW q \in Requests PROVE ProspectsSkilled(q)'
    <2> SUFFICES ASSUME tx[q].at \in {"capacity", "assignTeam", "write"}, NEW a \in Prospects(q)
                 PROVE  Meets(a, tx[q].conv)' /\ RequirementsActive(tx[q].conv)'
        BY <1>1 DEF ProspectsSkilled, Prospects
    <2>1. Meets(a, tx[q].conv) /\ RequirementsActive(tx[q].conv)
        BY DEF InboxInv, Relies, ProspectsSkilled
    <2>2. tx[q].conv \in Conversations /\ tx[q].conv # c
        BY <1>1 DEF ConversationFree, Holds, InboxInv, Relies, Shape
    <2>3. minLevel'[tx[q].conv] = minLevel[tx[q].conv]
        BY <1>1, <2>2 DEF InboxInv, ConfigOK
    <2> QED BY <1>1, <2>1, <2>3 DEF Meets, RequirementsActive, Required
<1>4. \A a \in Agents : peak'[a] >= peak[a] BY <1>1 DEF InboxInv, ConfigOK
<1> QED BY <1>1, <1>2, <1>3, <1>4, ReadyStays, ConfigureStep

LEMMA UpdateAgentInbox ==
    ASSUME InboxInv, NEW a \in Agents, UpdateAgent(a) PROVE InboxInv'
<1>1. PICK row \in AgentRow :
        /\ agent' = [agent EXCEPT ![a] = row]
        /\ peak' = [peak EXCEPT ![a] = IF row.limit > @ THEN row.limit ELSE @]
    BY DEF UpdateAgent
<1>2. /\ UNCHANGED <<rowVars, reopened, tx, members, level, skillActive, minLevel>>
      /\ AgentFree(a)
    BY DEF UpdateAgent, Change
<1>3. row.limit \in Nat BY InboxAssumption DEF AgentRow
<1>4. ConfigOK' /\ \A b \in Agents : peak'[b] >= peak[b]
    <2>1. ConfigOK BY DEF InboxInv
    <2>2. \A b \in Agents : peak[b] \in Nat /\ agent[b].limit \in Nat
        BY <2>1, InboxAssumption DEF ConfigOK, AgentRow
    <2>3. agent' \in [Agents -> AgentRow] /\ peak' \in [Agents -> Nat]
        BY <1>1, <1>3, <2>1, <2>2 DEF ConfigOK
    <2>4. \A b \in Agents : peak'[b] >= peak[b] /\ agent'[b].limit <= peak'[b]
        BY <1>1, <1>3, <2>1, <2>2 DEF ConfigOK
    <2> QED BY <1>2, <2>1, <2>3, <2>4 DEF ConfigOK
<1>5. ASSUME NEW q \in Requests PROVE ProspectsReady(q)'
    <2>1. ProspectsReady(q) /\ Shape(q) /\ Prospects(q)' = Prospects(q)
        BY <1>2 DEF InboxInv, Relies, Prospects
    <2>2. tx[q].at \in {"membership", "skills", "capacity", "assignTeam", "write", "lockMembers"} =>
            \A b \in Prospects(q) : agent'[b] = agent[b]
        <3>1. ASSUME tx[q].at \in {"membership", "skills", "capacity", "assignTeam", "write", "lockMembers"},
                     NEW b \in Prospects(q)
              PROVE  agent'[b] = agent[b]
            <4>1. b \in tx[q].locks BY <2>1, <3>1, ProspectsLocked DEF InboxInv, Working
            <4>2. b \in Agents /\ b # a
                BY <1>2, <4>1 DEF AgentFree, InboxInv, TxOK, Transactions
            <4> QED BY <1>1, <4>2 DEF InboxInv, ConfigOK
        <3> QED BY <3>1
    <2> QED BY <1>2, <2>1, <2>2 DEF ProspectsReady, rowVars
<1> QED BY <1>2, <1>4, <1>5, SkilledStays, ConfigureStep

LEMMA TeamInbox ==
    ASSUME InboxInv, NEW t \in Teams, NEW a,
           UpdateTeam(t) \/ (a \in Agents /\ (AddMember(t, a) \/ RemoveMember(t, a)))
    PROVE  InboxInv'
<1>1. UNCHANGED <<rowVars, reopened, tx, agent, level, skillActive, minLevel, peak>>
    BY DEF UpdateTeam, AddMember, RemoveMember, Change
<1>2. /\ members' \in [Teams -> SUBSET Agents]
      /\ \A u \in Teams : /\ members[u] \subseteq members'[u] \cup {a}
                          /\ a \in members[u] => \/ a \in members'[u]
                                                 \/ \A r \in Requests : ~(LocksTeam(r, u) /\ a \in tx[r].locks)
    <2>1. members \in [Teams -> SUBSET Agents] BY DEF InboxInv, ConfigOK
    <2>2. CASE UpdateTeam(t) BY <2>1, <2>2 DEF UpdateTeam
    <2>3. CASE a \in Agents /\ AddMember(t, a) BY <2>1, <2>3 DEF AddMember
    <2>4. CASE a \in Agents /\ RemoveMember(t, a) BY <2>1, <2>4 DEF RemoveMember
    <2> QED BY <2>2, <2>3, <2>4
<1>3. ConfigOK' BY <1>1, <1>2 DEF InboxInv, ConfigOK
<1>4. ASSUME NEW q \in Requests PROVE ProspectsReady(q)'
    <2>1. ProspectsReady(q) /\ Shape(q) /\ NobodyHasIt(q) /\ Prospects(q)' = Prospects(q)
        BY <1>1 DEF InboxInv, Relies, Prospects
    <2>2. ASSUME tx[q].op = "route", Working(q), NEW b \in Prospects(q)
          PROVE  b \in members'[team[tx[q].conv]]
        <3>1. team[tx[q].conv] \in Teams /\ b \in members[team[tx[q].conv]]
            BY <2>1, <2>2 DEF NobodyHasIt, ProspectsReady, Working
        <3>2. tx[q].at \in {"lockMembers", "skills", "capacity", "write"}
            <4>1. tx[q].at \in Steps BY DEF InboxInv, TxOK, Transactions
            <4>2. tx[q].at # "lockTeam" BY <2>1, <2>2 DEF Shape, Prospects
            <4> QED BY <2>1, <2>2, <4>1, <4>2 DEF Shape, Working, Steps
        <3>3. b \in tx[q].locks BY <2>1, <2>2, <3>2, ProspectsLocked DEF InboxInv
        <3>4. LocksTeam(q, team[tx[q].conv]) BY <2>2, <3>2 DEF LocksTeam
        <3> QED BY <1>2, <3>1, <3>3, <3>4
    <2> QED BY <1>1, <2>1, <2>2 DEF ProspectsReady, rowVars, Working
<1>5. \A b \in Agents : peak'[b] >= peak[b] BY <1>1 DEF InboxInv, ConfigOK
<1> QED BY <1>1, <1>3, <1>4, <1>5, SkilledStays, ConfigureStep

LEMMA UpdateSkillInbox ==
    ASSUME InboxInv, NEW s \in Skills, UpdateSkill(s) PROVE InboxInv'
<1>1. /\ UNCHANGED <<rowVars, reopened, tx, agent, members, level, minLevel, peak>>
      /\ \A r \in Requests : ~SharesSkill(r, s)
      /\ \A k \in Skills : k # s => skillActive'[k] = skillActive[k]
    BY DEF UpdateSkill, Change, InboxInv, ConfigOK
<1>2. ConfigOK' BY <1>1 DEF InboxInv, ConfigOK, UpdateSkill
<1>3. ASSUME NEW q \in Requests PROVE ProspectsSkilled(q)'
    <2> SUFFICES ASSUME tx[q].at \in {"capacity", "assignTeam", "write"}, NEW a \in Prospects(q)
                 PROVE  Meets(a, tx[q].conv)' /\ RequirementsActive(tx[q].conv)'
        BY <1>1 DEF ProspectsSkilled, Prospects
    <2>1. Meets(a, tx[q].conv) /\ RequirementsActive(tx[q].conv)
        BY DEF InboxInv, Relies, ProspectsSkilled
    <2>2. tx[q].op = "update" => tx[q].setAgent \in Agents BY DEF Prospects
    <2>3. s \notin Required(tx[q].conv) BY <1>1, <2>2 DEF SharesSkill
    <2> QED BY <1>1, <2>1, <2>3 DEF Meets, RequirementsActive, Required
<1>4. \A a \in Agents : peak'[a] >= peak[a] BY <1>1 DEF InboxInv, ConfigOK
<1> QED BY <1>1, <1>2, <1>3, <1>4, ReadyStays, ConfigureStep

LEMMA SetAgentSkillInbox ==
    ASSUME InboxInv, NEW b \in Agents, NEW s \in Skills, NEW n \in 0 .. MaxLevel,
           SetAgentSkill(b, s, n)
    PROVE  InboxInv'
<1>1. /\ UNCHANGED <<rowVars, reopened, tx, agent, members, skillActive, minLevel, peak>>
      /\ level[b][s] > 0 => \A r \in Requests : ~SharesLevel(r, b, s)
      /\ level' = [level EXCEPT ![b][s] = n]
    BY DEF SetAgentSkill, Change
<1>2. ConfigOK' BY <1>1 DEF InboxInv, ConfigOK
<1>3. ASSUME NEW q \in Requests PROVE ProspectsSkilled(q)'
    <2> SUFFICES ASSUME tx[q].at \in {"capacity", "assignTeam", "write"}, NEW a \in Prospects(q)
                 PROVE  Meets(a, tx[q].conv)' /\ RequirementsActive(tx[q].conv)'
        BY <1>1 DEF ProspectsSkilled, Prospects
    <2>1. Meets(a, tx[q].conv) /\ RequirementsActive(tx[q].conv) /\ tx[q].conv \in Conversations
        BY DEF InboxInv, Relies, ProspectsSkilled, Shape
    <2>2. tx[q].op = "update" => tx[q].setAgent \in Agents BY DEF Prospects
    <2>3. a \in tx[q].locks BY ProspectsLocked DEF InboxInv, Relies, Working
    <2>4. a \in Agents BY <2>3 DEF InboxInv, TxOK, Transactions
    <2>5. ASSUME NEW k \in Required(tx[q].conv) PROVE level'[a][k] = level[a][k]
        <3>1. k \in Skills /\ minLevel[tx[q].conv][k] > 0 BY <2>5 DEF Required
        <3>2. minLevel[tx[q].conv][k] \in Nat /\ level[a][k] \in Nat
            BY <2>1, <2>4, <3>1 DEF InboxInv, ConfigOK
        <3>3. level[a][k] > 0 BY <2>1, <2>5, <3>1, <3>2 DEF Meets
        <3>4. ~(a = b /\ k = s)
            BY <1>1, <2>2, <2>3, <2>5, <3>3 DEF SharesLevel, SharesSkill
        <3> QED BY <1>1, <2>4, <3>1, <3>4 DEF InboxInv, ConfigOK
    <2>6. Required(tx[q].conv)' = Required(tx[q].conv) BY <1>1 DEF Required
    <2> QED BY <1>1, <2>1, <2>5, <2>6 DEF Meets, RequirementsActive
<1>4. \A a \in Agents : peak'[a] >= peak[a] BY <1>1 DEF InboxInv, ConfigOK
<1> QED BY <1>1, <1>2, <1>3, <1>4, ReadyStays, ConfigureStep

-----------------------------------------------------------------------------
LEMMA NextInbox == ASSUME InboxInv, [Next]_vars PROVE InboxInv'
<1>1. CASE UNCHANGED vars
    <2>1. UNCHANGED <<rowVars, configVars, tx, reopened, peak>> BY <1>1 DEF vars
    <2>2. ConfigOK' BY <2>1 DEF InboxInv, ConfigOK, configVars
    <2>3. \A a \in Agents : peak'[a] >= peak[a] BY <2>1 DEF InboxInv, ConfigOK
    <2> QED BY <2>1, <2>2, <2>3, ReadyStays, SkilledStays, ConfigureStep DEF configVars
<1>2. ASSUME NEW r \in Requests, DeadlockVictim(r) PROVE InboxInv'
    BY <1>2, EndInbox DEF DeadlockVictim, dbVars
<1>3. CASE Configure
    BY <1>3, SetRequirementInbox, UpdateAgentInbox, TeamInbox, UpdateSkillInbox,
       SetAgentSkillInbox DEF Configure
<1> QED BY <1>1, <1>2, <1>3, BeginInbox, LockConversationInbox, LockActiveAgentInbox,
       MembershipInbox, CheckSkillsInbox, CheckCapacityInbox, LockTeamInbox, LockMembersInbox,
       AssignTeamInbox, WriteInbox, ReleaseInbox, ActivityInbox DEF Next

(* The rows a transaction holds keep what it has read true until it ends,  *)
(* and locks exclude each other.                                           *)
THEOREM InboxInvariant == Spec => []InboxInv
<1> QED BY InitInbox, NextInbox, PTL DEF Spec

(* Two admissions of any number of concurrent claims, updates and routings *)
(* never take the same last slot: the agent's row lock, held from the      *)
(* count to the commit, keeps the count true.                              *)
THEOREM CapacityAlwaysHonoured == Spec => []CapacityHonoured
<1>1. InboxInv => CapacityHonoured BY DEF InboxInv
<1> QED BY <1>1, InboxInvariant, PTL

-----------------------------------------------------------------------------
(* Only a commit gives a conversation to an agent, and to one of those the *)
(* transaction has locked and checked.                                     *)
LEMMA CommitsAdmit ==
    ASSUME InboxInv, Next, NEW c \in Conversations, assigned'[c] \notin {None, assigned[c]}
    PROVE  \E r \in Requests : Write(r) /\ tx[r].conv = c /\ assigned'[c] \in Prospects(r)
<1>1. assigned \in [Conversations -> Agents \cup {None}] BY DEF InboxInv, RowsOK
<1>2. ASSUME NEW r \in Requests, Write(r)
      PROVE  tx[r].conv = c /\ assigned'[c] \in Prospects(r)
    <2> DEFINE a == IF tx[r].op = "route" THEN tx[r].target ELSE FinalAgent(r)
    <2>1. /\ Relies(r) /\ tx[r] \in Transactions /\ tx[r].at = "write"
          /\ assigned' = [assigned EXCEPT ![tx[r].conv] = a]
        BY <1>2 DEF Write, InboxInv, TxOK
    <2>2. tx[r].conv \in Conversations BY <2>1 DEF Relies, Shape
    <2>3. tx[r].conv = c /\ assigned'[c] = a BY <1>1, <2>1, <2>2
    <2>4. a # None /\ a # assigned[tx[r].conv] BY <2>3
    <2>5. a \in Prospects(r)
        <3>1. CASE tx[r].op = "route" BY <2>1, <3>1 DEF Prospects
        <3>2. CASE tx[r].op # "route"
            <4>1. a = tx[r].setAgent /\ tx[r].setAgent # Keep
                BY <2>4, <3>2 DEF FinalAgent
            <4>2. tx[r].setAgent \in Agents
                BY <2>1, <2>4, <4>1 DEF Transactions
            <4> QED BY <3>2, <4>1, <4>2 DEF Prospects
        <3> QED BY <3>1, <3>2
    <2> QED BY <2>3, <2>5
<1>3. ASSUME UNCHANGED assigned PROVE FALSE BY <1>3
<1>4. ASSUME NEW d \in Conversations, NEW a \in Agents, ReleaseConversation(d, a) PROVE FALSE
    BY <1>1, <1>4 DEF ReleaseConversation
<1>5. ASSUME Configure PROVE FALSE
    BY <1>3, <1>5 DEF Configure, SetRequirement, UpdateAgent, UpdateTeam, AddMember,
       RemoveMember, UpdateSkill, SetAgentSkill, Change, rowVars
<1>6. ASSUME NEW d \in Conversations, Activity(d) PROVE FALSE BY <1>3, <1>6 DEF Activity
<1>7. ASSUME NEW r \in Requests,
             \/ Begin(r) \/ LockConversation(r) \/ LockActiveAgent(r)
             \/ AssertAgentTeamMembership(r) \/ CheckSkills(r) \/ CheckCapacity(r)
             \/ LockTeam(r) \/ LockMembers(r) \/ AssignTeam(r) \/ DeadlockVictim(r)
      PROVE  FALSE
    <2>1. UNCHANGED rowVars
        BY <1>7 DEF Begin, LockConversation, LockActiveAgent, AssertAgentTeamMembership,
           CheckSkills, CheckCapacity, LockTeam, LockMembers, LockMember, AssignTeam,
           DeadlockVictim
    <2> QED BY <1>3, <2>1 DEF rowVars
<1> QED BY <1>2, <1>4, <1>5, <1>6, <1>7 DEF Next

(* An agent that receives a conversation is active, available, a member of *)
(* the routed team and skilled at the commit, however the configuration    *)
(* changed since the statements that checked it.                           *)
THEOREM AdmissionsStayQualified == Spec => AdmissionsAreQualified
<1>1. ASSUME InboxInv, Next, NEW c \in Conversations, assigned'[c] \notin {None, assigned[c]}
      PROVE  AdmissionIsQualified(c)
    <2>1. PICK r \in Requests : Write(r) /\ tx[r].conv = c /\ assigned'[c] \in Prospects(r)
        BY <1>1, CommitsAdmit
    <2>2. tx[r].at = "write" /\ Relies(r) BY <1>1, <2>1 DEF Write, InboxInv
    <2>3. agent[assigned'[c]].active /\ agent[assigned'[c]].available
        BY <1>1, <2>1, <2>2 DEF Relies, ProspectsReady
    <2>4. Meets(assigned'[c], c) /\ RequirementsActive(c)
        BY <2>1, <2>2 DEF Relies, ProspectsSkilled
    <2>5. ASSUME NEW q \in Requests, tx[q].op = "route", tx[q].conv = c, tx'[q].at = "idle"
          PROVE  assigned'[c] \in members[team[c]]
        <3>1. CASE q = r BY <2>1, <2>2, <2>5, <3>1 DEF Relies, ProspectsReady
        <3>2. CASE q # r
            <4>1. tx'[q] = tx[q] BY <1>1, <2>1, <3>2 DEF Write, End, InboxInv, TxOK
            <4>2. tx[q] = NoTransaction BY <1>1, <2>5, <4>1 DEF InboxInv, Relies, Shape
            <4> QED BY <2>5, <4>2 DEF NoTransaction
        <3> QED BY <3>1, <3>2
    <2> QED BY <2>3, <2>4, <2>5 DEF AdmissionIsQualified
<1>2. InboxInv /\ [Next]_vars => [\A c \in Conversations : AdmissionIsQualified(c)]_vars
    BY <1>1 DEF AdmissionIsQualified
<1> QED BY <1>2, InboxInvariant, PTL DEF Spec, AdmissionsAreQualified

(* Neither a claim nor routing commits over an agent that has taken the    *)
(* conversation: what they read under the row lock is true at the commit.  *)
THEOREM HoldersAlwaysRespected == Spec => HoldersAreRespected
<1>1. ASSUME InboxInv, NEW c \in Conversations, NEW r \in Requests,
             assigned[c] # None, tx[r].conv = c, tx[r].at = "write"
      PROVE  tx[r].op = "update"
    <2>1. NobodyHasIt(r) /\ tx[r] \in Transactions BY <1>1 DEF InboxInv, Relies, TxOK
    <2> QED BY <1>1, <2>1 DEF NobodyHasIt, Transactions
<1>2. InboxInv =>
        [\A c \in Conversations, r \in Requests : HolderIsRespected(c, r)]_vars
    BY <1>1 DEF HolderIsRespected
<1> QED BY <1>2, InboxInvariant, PTL DEF HoldersAreRespected

-----------------------------------------------------------------------------
(* Circles of waiting transactions.  In the smallest circle everybody is   *)
(* waited for.                                                             *)
LEMMA EverybodyIsWaitedFor ==
    ASSUME NEW S \in SUBSET Requests, Cycle(S), NEW q \in S
    PROVE  \E r \in S : WaitsFor(r, q)
<1> SUFFICES ASSUME \A r \in S : ~WaitsFor(r, q) PROVE FALSE OBVIOUS
<1>1. \A r \in S : \E p \in S : WaitsFor(r, p) BY DEF Cycle, Deadlocked
<1>2. \A r \in S \ {q} : \E p \in S \ {q} : WaitsFor(r, p) BY <1>1
<1>3. PICK p \in S : WaitsFor(q, p) BY <1>1
<1>4. p \in S \ {q} BY <1>3 DEF WaitsFor
<1>5. Deadlocked(S \ {q}) BY <1>2, <1>4 DEF Deadlocked
<1> QED BY <1>5 DEF Cycle

(* A transaction waits at one of five statements.                          *)
LEMMA WaitingSteps ==
    ASSUME NEW r, NEW q, WaitsFor(r, q)
    PROVE  tx[r].at \in {"conversation", "agent", "lockTeam", "lockMembers", "assignTeam"}
    BY DEF WaitsFor

(* What one has that another can wait for, other than its conversation, it *)
(* has as a route that locks members or as an update that assigns a team.  *)
LEMMA WaitedForSteps ==
    ASSUME InboxInv, NEW r \in Requests, NEW q \in Requests, WaitsFor(r, q),
           tx[q].at \in {"conversation", "agent", "lockTeam", "lockMembers", "assignTeam"},
           ~(tx[q].at = "assignTeam" /\ tx[q].locks # {})
    PROVE  IF tx[r].at = "conversation" THEN tx[q].at # "conversation" ELSE tx[q].at = "lockMembers"
<1>1. Shape(q) BY DEF InboxInv, Relies
<1>2. tx[q].at # "lockMembers" => tx[q].locks = {} BY <1>1 DEF Shape
<1>3. \A t : LocksTeam(q, t) => tx[q].at = "lockMembers" BY DEF LocksTeam
<1>4. \A t : ~SharesTeam(q, t) BY DEF SharesTeam
<1>5. CASE tx[r].at = "conversation" BY <1>5 DEF WaitsFor, Holds
<1>6. CASE tx[r].at = "agent" BY <1>2, <1>6 DEF WaitsFor
<1>7. CASE tx[r].at = "lockTeam" BY <1>3, <1>4, <1>7 DEF WaitsFor
<1>8. CASE tx[r].at = "lockMembers" BY <1>2, <1>8 DEF WaitsFor
<1>9. CASE tx[r].at = "assignTeam" BY <1>3, <1>9 DEF WaitsFor
<1> QED BY <1>5, <1>6, <1>7, <1>8, <1>9, WaitingSteps

LEMMA NextMemberIsLeast ==
    ASSUME InboxInv, NEW r \in Requests, tx[r].at = "lockMembers"
    PROVE  /\ NextMember(r) \in Nat /\ NextMember(r) \in tx[r].todo
           /\ \A a \in tx[r].locks : a \in Nat /\ a < NextMember(r)
<1>1. tx[r] \in Transactions /\ Shape(r) BY DEF InboxInv, TxOK, Relies
<1>2. tx[r].todo \in SUBSET Nat /\ tx[r].todo # {} /\ tx[r].locks \in SUBSET Nat
    BY <1>1, InboxAssumption DEF Transactions, Shape
<1>3. \E a \in tx[r].todo : \A b \in tx[r].todo : a <= b BY <1>2, NatMin
<1>4. NextMember(r) \in tx[r].todo BY <1>3 DEF NextMember
<1> QED BY <1>1, <1>2, <1>4 DEF Shape

LEMMA CirclesNeedTeamMoves == ASSUME InboxInv PROVE OnlyTeamMovesDeadlock
<1> SUFFICES ASSUME NEW S \in SUBSET Requests, Cycle(S),
                    \A r \in S : ~(tx[r].at = "assignTeam" /\ tx[r].locks # {})
             PROVE  FALSE
    BY DEF OnlyTeamMovesDeadlock
<1>1. \A r \in S :
        tx[r].at \in {"conversation", "agent", "lockTeam", "lockMembers", "assignTeam"}
    BY WaitingSteps DEF Cycle, Deadlocked
<1>2. ASSUME NEW r \in S PROVE tx[r].at # "conversation"
    BY <1>1, EverybodyIsWaitedFor, WaitedForSteps
<1>3. ASSUME NEW r \in S PROVE tx[r].at = "lockMembers"
    BY <1>1, <1>2, EverybodyIsWaitedFor, WaitedForSteps
<1> DEFINE N == {NextMember(r) : r \in S}
<1>4. N \in SUBSET Nat /\ N # {}
    BY <1>3, NextMemberIsLeast DEF Cycle, Deadlocked
<1>5. PICK m \in N : \A x \in N : m <= x BY <1>4, NatMin
<1>6. PICK r \in S : NextMember(r) = m BY <1>5
<1>7. PICK p \in S : WaitsFor(p, r) BY EverybodyIsWaitedFor
<1>8. NextMember(p) \in tx[r].locks BY <1>3, <1>7 DEF WaitsFor
<1>9. NextMember(p) < m /\ NextMember(p) \in Nat BY <1>3, <1>6, <1>8, NextMemberIsLeast
<1>10. m <= NextMember(p) BY <1>5
<1> QED BY <1>4, <1>9, <1>10

(* Claims and routes, however many, never wait for each other in a circle: *)
(* agents are locked in the order of their ids, and what else they hold    *)
(* nobody in a circle waits for.                                           *)
THEOREM DeadlocksNeedTeamMoves == Spec => []OnlyTeamMovesDeadlock
<1>1. InboxInv => OnlyTeamMovesDeadlock BY CirclesNeedTeamMoves
<1> QED BY <1>1, InboxInvariant, PTL

-----------------------------------------------------------------------------
(* The template catalogue.  Rows keep their names while a transaction      *)
(* holds them and no two rows, committed or not, share one; a listing has  *)
(* every id up to its cursor or saw it gone; and a sync that nothing       *)
(* overtook has listed what Meta has, and written what it no longer has to *)
(* write.                                                                  *)
TemplateRows == [id : TemplateIds, name : Names, status : TemplateStatuses \cup {"DELETED"}]
Listing == [id : TemplateIds, name : Names, status : TemplateStatuses]
Entry(i) == [id |-> i, name |-> meta[i].name, status |-> meta[i].status]
IsSync(s) ==
  \/ s = [at |-> "idle"]
  \/ /\ s = [at |-> s.at, after |-> s.after, page |-> s.page, listed |-> s.listed, todo |-> s.todo]
     /\ s.at \in {"list", "write", "done", "failed"}
     /\ s.after \in Nat /\ s.page \in Nat
     /\ s.listed \in SUBSET Listing /\ s.todo \in SUBSET s.listed

CatalogTypes ==
  /\ meta \in [TemplateIds -> Templates \cup {Absent}]
  /\ sent \in SUBSET Listing
  /\ sync = [c \in Syncs |-> sync[c]] /\ \A c \in Syncs : IsSync(sync[c])
  /\ gone \in [Syncs -> SUBSET TemplateIds]
  /\ quiet \in SUBSET Syncs
RowTypes ==
  /\ table \in [Slots -> TemplateRows \cup {Absent}]
  /\ pending \in [Slots -> TemplateRows \cup {Absent}]
  /\ holder \in [Slots -> Syncs \cup {Absent}]
  /\ hook.at = "write" => /\ hook.update \in Listing
                          /\ hook.found \in SUBSET {n \in Slots : table[n] # Absent}
RowsLocked ==
  \A n \in Slots :
    /\ holder[n] = Absent <=> pending[n] = Absent
    /\ holder[n] # Absent => sync[holder[n]].at = "write"
    /\ pending[n] # Absent => pending[n].status # "DELETED"
    /\ table[n] # Absent /\ pending[n] # Absent => table[n].name = pending[n].name
RowNamesDiffer ==
  \A n, m \in Slots : \A v \in Versions(n), w \in Versions(m) : v.name = w.name => n = m
MetaNamesDiffer == \A i, j \in AtMeta : meta[i].name = meta[j].name => i = j
Covers(c, i) == i \in gone[c] \/ \E t \in sync[c].listed : t.id = i
ListedOrGone(c) ==
  /\ sync[c].at # "idle" => \A i \in TemplateIds : meta[i] = Absent => i \in gone[c]
  /\ sync[c].at = "list" => \A i \in TemplateIds : i <= sync[c].after => Covers(c, i)
  /\ sync[c].at = "write" => \A i \in TemplateIds : Covers(c, i)
WrittenBy(c, t) == \E n \in Slots : holder[n] = c /\ pending[n] = t
Undisturbed(c) ==
  /\ sync[c].at = "list" => sync[c].listed = {Entry(i) : i \in {j \in AtMeta : j <= sync[c].after}}
  /\ sync[c].at = "write" => /\ sync[c].listed = {Entry(i) : i \in AtMeta}
                             /\ \A t \in sync[c].listed \ sync[c].todo : WrittenBy(c, t)
  /\ sync[c].at = "done" => Agrees

CatalogInv ==
  /\ CatalogTypes /\ RowTypes
  /\ RowsLocked /\ RowNamesDiffer /\ MetaNamesDiffer
  /\ \A c \in Syncs : ListedOrGone(c)
  /\ \A c \in quiet : Undisturbed(c)

LEMMA InitCatalog == CatalogInit => CatalogInv
<1> SUFFICES ASSUME CatalogInit PROVE CatalogInv OBVIOUS
<1>1. meta \in Catalogs /\ meta \in [TemplateIds -> Templates \cup {Absent}]
    BY CatalogAssumption DEF CatalogInit
<1>2. \A i \in AtMeta : i \in TemplateIds /\ meta[i].name \in Names
    BY <1>1, CatalogAssumption DEF AtMeta, Templates
<1>3. MetaNamesDiffer BY <1>1, CatalogAssumption DEF MetaNamesDiffer, AtMeta
<1>4. PICK R \in SUBSET AtMeta :
        table = [n \in Slots |-> IF n \in R THEN [id |-> n, name |-> meta[n].name, status |-> "PENDING"]
                                 ELSE Absent]
    BY DEF CatalogInit
<1>5. R \in SUBSET Slots BY <1>2, CatalogAssumption
<1>6. /\ pending = [n \in Slots |-> Absent] /\ holder = [n \in Slots |-> Absent] /\ hook.at = "idle"
      /\ sync = [c \in Syncs |-> [at |-> "idle"]] /\ sent = {} /\ quiet = {}
      /\ gone = [c \in Syncs |-> {}]
    BY DEF CatalogInit
<1>7. table \in [Slots -> TemplateRows \cup {Absent}]
    BY <1>2, <1>4, <1>5 DEF TemplateRows, TemplateStatuses
<1>8. CatalogTypes BY <1>1, <1>6 DEF CatalogTypes, IsSync
<1>9. RowTypes /\ RowsLocked BY <1>6, <1>7 DEF RowTypes, RowsLocked
<1>10. RowNamesDiffer
    <2>1. ASSUME NEW n \in Slots, NEW v \in Versions(n) PROVE n \in AtMeta /\ v.name = meta[n].name
        BY <1>4, <1>6 DEF Versions
    <2> QED BY <1>3, <2>1 DEF RowNamesDiffer, MetaNamesDiffer
<1>11. \A c \in Syncs : ListedOrGone(c) BY <1>6 DEF ListedOrGone
<1> QED BY <1>3, <1>6, <1>8, <1>9, <1>10, <1>11 DEF CatalogInv

-----------------------------------------------------------------------------
(* A page has the templates right after the cursor and none is left out.   *)
LEMMA BelowIsFinite ==
  ASSUME NEW S \in SUBSET Nat, NEW i \in Nat, NEW k \in Nat, i <= k
  PROVE  /\ IsFiniteSet({j \in S : j < k}) /\ Cardinality({j \in S : j < k}) \in Nat
         /\ Cardinality({j \in S : j < i}) \in Nat
         /\ Cardinality({j \in S : j < i}) <= Cardinality({j \in S : j < k})
<1>0. \A j \in S : j \in Nat /\ (j < i => j < k) /\ (j < k => j <= k) OBVIOUS
<1>1. {j \in S : j < k} \in SUBSET Nat /\ \A x \in {j \in S : j < k} : x <= k BY <1>0
<1>2. IsFiniteSet({j \in S : j < k}) BY <1>1, FS_BoundedSetOfNaturals
<1>3. {j \in S : j < i} \in SUBSET {j \in S : j < k} BY <1>0
<1>4. IsFiniteSet({j \in S : j < i}) /\ Cardinality({j \in S : j < i}) <= Cardinality({j \in S : j < k})
    BY <1>2, <1>3, FS_Subset
<1> QED BY <1>2, <1>4, FS_CardinalityType

LEMMA PageIsPrefix ==
  ASSUME NEW after \in Nat, HasNext(after)
  PROVE  /\ LastOf(PageAfter(after)) \in PageAfter(after)
         /\ \A i \in PageAfter(after) : i <= LastOf(PageAfter(after))
         /\ \A i \in AtMeta : i > after /\ i <= LastOf(PageAfter(after)) => i \in PageAfter(after)
<1> DEFINE rest == {i \in AtMeta : i > after} ids == PageAfter(after)
<1>1. rest \in SUBSET Nat BY CatalogAssumption DEF AtMeta
<1>2. ids = {i \in rest : Cardinality({j \in rest : j < i}) < PageSize} BY DEF PageAfter
<1>3. PICK k \in rest : k \notin ids BY DEF HasNext
<1> HIDE DEF rest, ids
<1>4. ASSUME NEW i \in rest, NEW m \in ids, i <= m PROVE i \in ids
    <2>1. i \in Nat /\ m \in Nat /\ m \in rest BY <1>1, <1>2
    <2>2. /\ Cardinality({j \in rest : j < i}) \in Nat /\ Cardinality({j \in rest : j < m}) \in Nat
          /\ Cardinality({j \in rest : j < i}) <= Cardinality({j \in rest : j < m})
        BY <1>1, <1>4, <2>1, BelowIsFinite
    <2>3. PageSize \in Nat BY CatalogAssumption
    <2> QED BY <1>2, <2>2, <2>3
<1>5. ids # {}
    <2>1. PICK m \in rest : \A x \in rest : m <= x BY <1>1, <1>3, NatMin
    <2>0. \A x \in rest : ~(x < m) BY <1>1, <2>1
    <2>2. {j \in rest : j < m} = {} BY <2>0
    <2>3. Cardinality({j \in rest : j < m}) = 0 BY <2>2, FS_EmptySet
    <2> QED BY <1>2, <2>3, CatalogAssumption
<1>6. \A m \in ids : m \in Nat /\ m < k BY <1>1, <1>2, <1>3, <1>4
<1>7. \E m \in ids : \A j \in ids : j <= m
    <2> DEFINE D == {k - m : m \in ids}
    <2>1. D \in SUBSET Nat /\ D # {} BY <1>1, <1>3, <1>5, <1>6
    <2>2. PICK d \in D : \A x \in D : d <= x BY <2>1, NatMin
    <2>3. PICK m \in ids : d = k - m BY <2>2
    <2>4. ASSUME NEW j \in ids PROVE j <= m
        <3>1. d <= k - j BY <2>2
        <3> QED BY <1>1, <1>6, <2>3, <3>1
    <2> QED BY <2>4
<1>8. LastOf(ids) \in ids /\ \A j \in ids : j <= LastOf(ids) BY <1>7 DEF LastOf
<1>9. \A i \in AtMeta : i > after => i \in rest BY DEF rest
<1> QED BY <1>4, <1>8, <1>9 DEF ids

-----------------------------------------------------------------------------
(* Steps that leave a sync alone.                                          *)
LEMMA KeepsListed ==
  ASSUME NEW c \in Syncs, ListedOrGone(c), sync'[c] = sync[c], gone'[c] = gone[c], UNCHANGED meta
  PROVE  ListedOrGone(c)'
BY DEF ListedOrGone, Covers

LEMMA KeepsUndisturbed ==
  ASSUME NEW c \in Syncs, Undisturbed(c), sync'[c] = sync[c], UNCHANGED <<meta, table>>,
         \A n \in Slots : holder[n] = c => holder'[n] = c /\ pending'[n] = pending[n]
  PROVE  Undisturbed(c)'
<1>1. AtMeta' = AtMeta /\ (\A i : Entry(i)' = Entry(i)) /\ Agrees' = Agrees
    BY DEF AtMeta, Entry, Agrees
<1>2. \A t : WrittenBy(c, t) => WrittenBy(c, t)' BY DEF WrittenBy
<1> QED BY <1>1, <1>2 DEF Undisturbed

LEMMA ActiveSync ==
  ASSUME CatalogInv, NEW c \in Syncs, NEW s, s = sync[c], s.at # "idle"
  PROVE  /\ s = [at |-> s.at, after |-> s.after, page |-> s.page, listed |-> s.listed, todo |-> s.todo]
         /\ s.after \in Nat /\ s.page \in Nat
         /\ s.listed \in SUBSET Listing /\ s.todo \in SUBSET s.listed
<1>1. IsSync(s) BY DEF CatalogInv, CatalogTypes
<1>2. s # [at |-> "idle"] OBVIOUS
<1> QED BY <1>1, <1>2 DEF IsSync

LEMMA SyncEnds ==
  ASSUME CatalogInv, NEW c \in Syncs, sync[c].at # "idle", NEW a \in {"done", "failed"},
         sync' = [sync EXCEPT ![c].at = a]
  PROVE  /\ sync' = [d \in Syncs |-> sync'[d]] /\ sync' = [sync EXCEPT ![c] = sync'[c]]
         /\ IsSync(sync'[c]) /\ sync'[c].at = a /\ sync'[c].listed = sync[c].listed
         /\ \A d \in Syncs \ {c} : sync'[d] = sync[d]
<1>1. PICK old : old = sync[c] OBVIOUS
<1>2. /\ old = [at |-> old.at, after |-> old.after, page |-> old.page,
                listed |-> old.listed, todo |-> old.todo]
      /\ old.after \in Nat /\ old.page \in Nat
      /\ old.listed \in SUBSET Listing /\ old.todo \in SUBSET old.listed
    BY <1>1, ActiveSync
<1>3. PICK s : s = [old EXCEPT !.at = a] OBVIOUS
<1>4. s = [at |-> a, after |-> old.after, page |-> old.page, listed |-> old.listed, todo |-> old.todo]
    BY ONLY <1>2, <1>3
<1>5. IsSync(s) /\ s.at = a /\ s.listed = old.listed BY <1>2, <1>4 DEF IsSync
<1>6. sync = [d \in Syncs |-> sync[d]] BY DEF CatalogInv, CatalogTypes
<1>7. sync' = [sync EXCEPT ![c] = s] BY <1>1, <1>3
<1>8. sync'[c] = s /\ \A d \in Syncs \ {c} : sync'[d] = sync[d] BY <1>6, <1>7
<1> QED BY <1>1, <1>5, <1>6, <1>7, <1>8

(* Steps of one sync before its transaction.                               *)
LEMMA ListingStep ==
  ASSUME CatalogInv, NEW c \in Syncs, NEW s, sync' = [sync EXCEPT ![c] = s], IsSync(s),
         sync[c].at # "write", UNCHANGED <<meta, sent, table, pending, holder, hook>>,
         gone' \in [Syncs -> SUBSET TemplateIds], \A d \in Syncs \ {c} : gone'[d] = gone[d],
         quiet' \in SUBSET (quiet \cup {c}), ListedOrGone(c)', c \in quiet' => Undisturbed(c)'
  PROVE  CatalogInv'
<1>1. /\ sync' = [d \in Syncs |-> sync'[d]] /\ sync'[c] = s
      /\ \A d \in Syncs \ {c} : sync'[d] = sync[d]
    BY DEF CatalogInv, CatalogTypes
<1>2. CatalogTypes' BY <1>1 DEF CatalogInv, CatalogTypes
<1>3. RowTypes' /\ MetaNamesDiffer' BY DEF CatalogInv, RowTypes, MetaNamesDiffer, AtMeta
<1>4. RowNamesDiffer' BY DEF CatalogInv, RowNamesDiffer, Versions
<1>5. RowsLocked'
    <2>1. \A n \in Slots : holder[n] # Absent => holder[n] \in Syncs \ {c}
        BY DEF CatalogInv, RowTypes, RowsLocked
    <2> QED BY <1>1, <2>1 DEF CatalogInv, RowsLocked
<1>6. ASSUME NEW d \in Syncs PROVE ListedOrGone(d)'
    BY <1>1, KeepsListed DEF CatalogInv
<1>7. ASSUME NEW d \in quiet' PROVE Undisturbed(d)'
    BY <1>1, KeepsUndisturbed DEF CatalogInv, CatalogTypes
<1> QED BY <1>2, <1>3, <1>4, <1>5, <1>6, <1>7 DEF CatalogInv

LEMMA StartSyncHolds == ASSUME CatalogInv, NEW c \in Syncs, StartSync(c) PROVE CatalogInv'
<1> DEFINE s == [at |-> "list", after |-> 0, page |-> 0, listed |-> {}, todo |-> {}]
<1>1. /\ sync' = [sync EXCEPT ![c] = s] /\ sync[c].at = "idle" /\ quiet' = quiet \cup {c}
      /\ gone' = [gone EXCEPT ![c] = {i \in TemplateIds : meta[i] = Absent}]
      /\ UNCHANGED <<meta, sent, table, pending, holder, hook>>
    BY DEF StartSync, tableVars
<1>2. IsSync(s) BY DEF IsSync
<1>3. gone' \in [Syncs -> SUBSET TemplateIds] /\ gone'[c] = {i \in TemplateIds : meta[i] = Absent}
      /\ \A d \in Syncs \ {c} : gone'[d] = gone[d]
    BY <1>1 DEF CatalogInv, CatalogTypes
<1>4. sync'[c] = s BY <1>1 DEF CatalogInv, CatalogTypes
<1>5. \A i \in TemplateIds : ~(i <= 0) BY CatalogAssumption
<1>6. ListedOrGone(c)' BY <1>1, <1>3, <1>4, <1>5 DEF ListedOrGone
<1>7. Undisturbed(c)'
    <2>1. {j \in AtMeta' : j <= 0} = {} BY <1>5 DEF AtMeta
    <2>2. {Entry(i)' : i \in {j \in AtMeta' : j <= 0}} = {} BY <2>1
    <2> QED BY <1>4, <2>2 DEF Undisturbed
<1> HIDE DEF s
<1> QED BY <1>1, <1>2, <1>3, <1>6, <1>7, ListingStep

LEMMA SyncFailsHolds == ASSUME CatalogInv, NEW c \in Syncs, SyncFails(c) PROVE CatalogInv'
<1>1. /\ sync[c].at = "list" /\ sync' = [sync EXCEPT ![c].at = "failed"]
      /\ UNCHANGED <<meta, sent, table, pending, holder, hook, gone, quiet>>
    BY DEF SyncFails, tableVars
<1>2. PICK s : s = sync'[c] OBVIOUS
<1>3. sync' = [sync EXCEPT ![c] = s] /\ IsSync(s) /\ s.at = "failed" BY <1>1, <1>2, SyncEnds
<1>4. ListedOrGone(c)' /\ Undisturbed(c)'
    BY <1>1, <1>2, <1>3 DEF CatalogInv, ListedOrGone, Undisturbed
<1>5. gone' \in [Syncs -> SUBSET TemplateIds] /\ quiet' \in SUBSET (quiet \cup {c})
    BY <1>1 DEF CatalogInv, CatalogTypes
<1> QED BY <1>1, <1>3, <1>4, <1>5, ListingStep

LEMMA GetPageHolds == ASSUME CatalogInv, NEW c \in Syncs, GetPage(c) PROVE CatalogInv'
<1>1. PICK old : old = sync[c] OBVIOUS
<1>2. old.at = "list" /\ UNCHANGED <<meta, sent, table, pending, holder, hook, gone, quiet>>
    BY <1>1 DEF GetPage, tableVars
<1>3. old.after \in Nat /\ old.page \in Nat /\ old.listed \in SUBSET Listing
    BY <1>1, <1>2, ActiveSync
<1>4. PICK ids : ids = PageAfter(old.after) OBVIOUS
<1>5. PICK at \in {"list", "write", "failed"} : at = AfterPage(old.after, old.page + 1)
    BY DEF AfterPage
<1>6. (at = "write" => ~HasNext(old.after)) /\ (at = "list" => HasNext(old.after))
    BY <1>5 DEF AfterPage
<1>7. PICK after : after = IF HasNext(old.after) THEN LastOf(ids) ELSE old.after OBVIOUS
<1>8. PICK listed : listed = old.listed \cup {Entry(i) : i \in ids} OBVIOUS
<1>9. PICK s : s = [at |-> at, page |-> old.page + 1, after |-> after, listed |-> listed, todo |-> listed]
    OBVIOUS
<1>10. sync' = [sync EXCEPT ![c] = s] /\ sync'[c] = s
    BY <1>1, <1>4, <1>5, <1>7, <1>8, <1>9 DEF GetPage, Entry, CatalogInv, CatalogTypes
<1>11. ids \subseteq AtMeta /\ AtMeta \subseteq TemplateIds /\ TemplateIds \subseteq Nat
    BY <1>4, CatalogAssumption DEF PageAfter, AtMeta
<1>12. \A i \in ids : i > old.after BY <1>4 DEF PageAfter
<1>13. \A i \in AtMeta : Entry(i) \in Listing /\ Entry(i).id = i
    BY <1>11, CatalogAssumption DEF CatalogInv, CatalogTypes, AtMeta, Entry, Listing, Templates
<1>14. after \in Nat BY <1>3, <1>4, <1>7, <1>11, PageIsPrefix
<1>15. IsSync(s) BY <1>3, <1>8, <1>9, <1>11, <1>13, <1>14 DEF IsSync
<1>16. at = "list" => /\ ids = {i \in AtMeta : i > old.after /\ i <= after} /\ old.after < after
    BY <1>3, <1>4, <1>6, <1>7, <1>11, <1>12, PageIsPrefix
<1>17. at = "write" => ids = {i \in AtMeta : i > old.after}
    BY <1>4, <1>6, <1>11, <1>12 DEF HasNext
<1>18. s.at = at /\ s.after = after /\ s.listed = listed /\ s.todo = listed BY <1>9
<1>19. ListedOrGone(c)'
    <2>1. \A i \in TemplateIds : meta[i] = Absent => i \in gone[c]
        BY <1>1, <1>2 DEF CatalogInv, ListedOrGone
    <2>2. ASSUME NEW i \in TemplateIds, i <= old.after PROVE i \in gone[c] \/ \E t \in listed : t.id = i
        BY <1>1, <1>2, <1>8, <2>2 DEF CatalogInv, ListedOrGone, Covers
    <2>3. ASSUME NEW i \in TemplateIds, i \in ids \/ meta[i] = Absent
          PROVE  i \in gone[c] \/ \E t \in listed : t.id = i
        BY <1>8, <1>11, <1>13, <2>1, <2>3
    <2>4. ASSUME NEW i \in TemplateIds PROVE i > old.after \/ i <= old.after
        <3>1. i \in Nat BY <1>11
        <3> QED BY <1>3, <3>1
    <2>5. ASSUME at = "list", NEW i \in TemplateIds, i <= after
          PROVE  i \in gone[c] \/ \E t \in listed : t.id = i
        BY <1>16, <2>2, <2>3, <2>4, <2>5 DEF AtMeta
    <2>6. ASSUME at = "write", NEW i \in TemplateIds
          PROVE  i \in gone[c] \/ \E t \in listed : t.id = i
        BY <1>17, <2>2, <2>3, <2>4, <2>6 DEF AtMeta
    <2> QED BY <1>2, <1>10, <1>18, <2>1, <2>5, <2>6 DEF ListedOrGone, Covers
<1>20. ASSUME c \in quiet' PROVE Undisturbed(c)'
    <2>1. old.listed = {Entry(i) : i \in {j \in AtMeta : j <= old.after}}
        BY <1>1, <1>2, <1>20 DEF CatalogInv, Undisturbed
    <2>2. AtMeta' = AtMeta /\ \A i : Entry(i)' = Entry(i) BY <1>2 DEF AtMeta, Entry
    <2>3. at = "list" => {j \in AtMeta : j <= after} = {j \in AtMeta : j <= old.after} \cup ids
        <3>1. ASSUME at = "list", NEW j \in AtMeta
              PROVE  j <= after <=> j <= old.after \/ (j > old.after /\ j <= after)
            <4>1. j \in Nat /\ old.after < after BY <1>11, <1>16, <3>1
            <4> QED BY <1>3, <1>14, <4>1
        <3> QED BY <1>11, <1>16, <3>1
    <2>4. at = "write" => AtMeta = {j \in AtMeta : j <= old.after} \cup ids
        <3>1. ASSUME NEW j \in AtMeta PROVE j <= old.after \/ j > old.after
            <4>1. j \in Nat BY <1>11
            <4> QED BY <1>3, <4>1
        <3> QED BY <1>11, <1>17, <3>1
    <2>5. at = "list" => listed = {Entry(i) : i \in {j \in AtMeta : j <= after}} BY <1>8, <2>1, <2>3
    <2>6. at = "write" => listed = {Entry(i) : i \in AtMeta} BY <1>8, <2>1, <2>4
    <2> QED BY <1>10, <1>18, <2>2, <2>5, <2>6 DEF Undisturbed
<1>21. gone' \in [Syncs -> SUBSET TemplateIds] /\ quiet' \in SUBSET (quiet \cup {c})
    BY <1>2 DEF CatalogInv, CatalogTypes
<1> QED BY <1>1, <1>2, <1>10, <1>15, <1>19, <1>20, <1>21, ListingStep

-----------------------------------------------------------------------------
(* Names of rows stay different when no row gets a name it did not have.   *)
LEMMA NamesStayDifferent ==
  ASSUME RowNamesDiffer, \A n \in Slots : \A v \in Versions(n)' : \E w \in Versions(n) : w.name = v.name
  PROVE  RowNamesDiffer'
BY DEF RowNamesDiffer

(* Rows are no more than names, so one slot is free.                       *)
LEMMA FreeSlotExists == ASSUME CatalogInv PROVE FreeSlot \in Slots /\ Versions(FreeSlot) = {}
<1>1. ASSUME \A n \in Slots : Versions(n) # {} PROVE FALSE
    <2> DEFINE version(n) == CHOOSE v \in Versions(n) : TRUE
               f == [n \in Slots |-> version(n).name]
    <2>1. ASSUME NEW n \in Slots PROVE version(n) \in Versions(n) BY <1>1
    <2>2. ASSUME NEW n \in Slots, NEW v \in Versions(n) PROVE v.name \in Names
        BY DEF CatalogInv, RowTypes, Versions, TemplateRows
    <2> HIDE DEF version
    <2>3. f \in [Slots -> Names] BY <2>1, <2>2
    <2>4. ASSUME NEW n \in Slots, NEW m \in Slots, f[n] = f[m] PROVE n = m
        <3>1. version(n).name = version(m).name BY <2>4
        <3> QED BY <2>1, <3>1 DEF CatalogInv, RowNamesDiffer
    <2> HIDE DEF f
    <2>5. \E n, m \in Slots : n # m /\ f[n] = f[m]
        <3>1. IsFiniteSet(Slots) /\ IsFiniteSet(Names) /\ Cardinality(Names) < Cardinality(Slots)
            BY CatalogAssumption
        <3> QED BY ONLY <2>3, <3>1, FS_PigeonHole
    <2> QED BY <2>4, <2>5
<1>2. \E n \in Slots : Versions(n) = {} BY <1>1
<1> QED BY <1>2 DEF FreeSlot

(* The row an upsert writes has the name, or is free when nobody has it.   *)
LEMMA TargetFits ==
  ASSUME CatalogInv, NEW c, NEW name \in Names
  PROVE  /\ Target(c, name) \in Slots
         /\ \/ Seen(c, Target(c, name)) # Absent /\ Seen(c, Target(c, name)).name = name
            \/ /\ Versions(Target(c, name)) = {}
               /\ \A n \in Slots : Seen(c, n) # Absent => Seen(c, n).name # name
<1> DEFINE P(n) == Seen(c, n) # Absent /\ Seen(c, n).name = name
<1>1. CASE \E n \in WithName(c, name) : P(n)
    <2>1. Target(c, name) = CHOOSE n \in WithName(c, name) : P(n) BY <1>1 DEF Target
    <2>2. Target(c, name) \in WithName(c, name) /\ P(Target(c, name)) BY <1>1, <2>1
    <2> QED BY <2>2 DEF WithName
<1>2. CASE ~\E n \in WithName(c, name) : P(n)
    <2>1. Target(c, name) = FreeSlot BY <1>2 DEF Target
    <2>2. \A n \in Slots : P(n) => n \in WithName(c, name) BY DEF WithName
    <2> QED BY <1>2, <2>1, <2>2, FreeSlotExists
<1> QED BY <1>1, <1>2

LEMMA SeenIsVersion ==
  ASSUME CatalogInv, NEW c, NEW n \in Slots
  PROVE  /\ Seen(c, n) # Absent => Seen(c, n) \in Versions(n)
         /\ Seen(c, n) \in TemplateRows \cup {Absent}
         /\ table[n] # Absent => Seen(c, n) # Absent
BY DEF CatalogInv, RowTypes, RowsLocked, Seen, Versions

(* A transaction that rolls back.                                          *)
LEMMA RollbackHolds ==
  ASSUME CatalogInv, NEW c \in Syncs, sync[c].at = "write", Rollback(c),
         sync' = [sync EXCEPT ![c].at = "failed"], UNCHANGED <<meta, sent, hook, gone, quiet>>
  PROVE  CatalogInv'
<1>1. /\ sync' = [d \in Syncs |-> sync'[d]] /\ IsSync(sync'[c]) /\ sync'[c].at = "failed"
      /\ \A d \in Syncs \ {c} : sync'[d] = sync[d]
    BY SyncEnds
<1>2. CatalogTypes' BY <1>1 DEF CatalogInv, CatalogTypes
<1>3. \A n \in Slots :
        /\ holder'[n] = (IF holder[n] = c THEN Absent ELSE holder[n])
        /\ pending'[n] = (IF holder[n] = c THEN Absent ELSE pending[n])
        /\ table'[n] = table[n]
    BY DEF Rollback
<1>4. RowTypes' BY DEF CatalogInv, RowTypes, Rollback
<1>5. RowsLocked'
    <2> SUFFICES ASSUME NEW n \in Slots
                 PROVE  /\ holder'[n] = Absent <=> pending'[n] = Absent
                        /\ holder'[n] # Absent => sync'[holder'[n]].at = "write"
                        /\ pending'[n] # Absent => pending'[n].status # "DELETED"
                        /\ table'[n] # Absent /\ pending'[n] # Absent => table'[n].name = pending'[n].name
        BY DEF RowsLocked
    <2>1. c # Absent /\ holder[n] \in Syncs \cup {Absent}
        BY CatalogAssumption DEF CatalogInv, RowTypes
    <2> QED BY <1>1, <1>3, <2>1 DEF CatalogInv, RowsLocked
<1>6. RowNamesDiffer'
    <2>1. ASSUME NEW n \in Slots PROVE Versions(n)' \subseteq Versions(n) BY <1>3 DEF Versions
    <2> QED BY <2>1, NamesStayDifferent DEF CatalogInv
<1>7. MetaNamesDiffer' BY DEF CatalogInv, MetaNamesDiffer, AtMeta
<1>8. ASSUME NEW d \in Syncs PROVE ListedOrGone(d)'
    <2>1. CASE d = c BY <1>1, <2>1 DEF CatalogInv, ListedOrGone
    <2> QED BY <1>1, <2>1, KeepsListed DEF CatalogInv
<1>9. ASSUME NEW d \in quiet' PROVE Undisturbed(d)'
    <2>1. CASE d = c BY <1>1, <2>1 DEF Undisturbed
    <2>2. CASE d # c
        <3>1. d \in Syncs /\ sync'[d] = sync[d] BY <1>1, <2>2 DEF CatalogInv, CatalogTypes
        <3>2. UNCHANGED <<meta, table>> BY DEF Rollback
        <3> QED BY <1>3, <2>2, <3>1, <3>2, KeepsUndisturbed DEF CatalogInv
    <2> QED BY <2>1, <2>2
<1> QED BY <1>2, <1>4, <1>5, <1>6, <1>7, <1>8, <1>9 DEF CatalogInv

LEMMA NextIsListed ==
  ASSUME CatalogInv, NEW c \in Syncs, sync[c].at = "write", sync[c].todo # {}
  PROVE  NextListed(c) \in sync[c].todo /\ NextListed(c) \in Listing
<1>1. PICK todo : todo = sync[c].todo OBVIOUS
<1>2. todo \in SUBSET Listing BY <1>1, ActiveSync
<1>3. {t.id : t \in todo} \in SUBSET Nat /\ {t.id : t \in todo} # {}
    <2>1. \A t \in todo : t.id \in Nat BY <1>2, CatalogAssumption DEF Listing
    <2>2. todo # {} BY <1>1
    <2> QED BY <2>1, <2>2
<1>4. PICK m \in {t.id : t \in todo} : \A x \in {t.id : t \in todo} : m <= x BY <1>3, NatMin
<1>5. \E t \in todo : \A u \in todo : t.id <= u.id BY <1>4
<1>6. NextListed(c) \in todo BY <1>1, <1>5 DEF NextListed
<1> QED BY <1>1, <1>2, <1>6

(* An upsert writes one row, which nobody else holds and whose name was    *)
(* its own or nobody's.                                                    *)
LEMMA UpsertHolds == ASSUME CatalogInv, NEW c \in Syncs, Upsert(c) PROVE CatalogInv'
<1>1. PICK t : t = NextListed(c) OBVIOUS
<1>2. /\ sync[c].at = "write" /\ ~UpsertWaits(c, t)
      /\ UNCHANGED <<meta, sent, hook, gone, quiet>>
    BY <1>1 DEF Upsert
<1>3. t \in sync[c].todo /\ t \in Listing BY <1>1, NextIsListed DEF Upsert
<1>4. CASE UpsertRefused(c, t) BY <1>1, <1>2, <1>4, RollbackHolds DEF Upsert
<1>5. CASE ~UpsertRefused(c, t)
    <2>1. PICK k : k = Target(c, t.name) OBVIOUS
    <2>2. t.name \in Names /\ t \in TemplateRows /\ t # Absent /\ t.status # "DELETED"
        BY <1>3, CatalogAssumption DEF Listing, TemplateRows, TemplateStatuses
    <2>3. /\ k \in Slots
          /\ \/ Seen(c, k) # Absent /\ Seen(c, k).name = t.name
             \/ /\ Versions(k) = {}
                /\ \A n \in Slots : Seen(c, n) # Absent => Seen(c, n).name # t.name
        BY <2>1, <2>2, TargetFits
    <2>4. /\ pending' = [pending EXCEPT ![k] = t] /\ holder' = [holder EXCEPT ![k] = c]
          /\ table' = table /\ sync' = [sync EXCEPT ![c].todo = @ \ {t}]
        BY <1>1, <1>5, <2>1 DEF Upsert
    <2>5. /\ pending'[k] = t /\ holder'[k] = c
          /\ \A n \in Slots \ {k} : pending'[n] = pending[n] /\ holder'[n] = holder[n]
        BY <2>3, <2>4 DEF CatalogInv, RowTypes
    <2>6. \A n \in Slots : \A v \in Versions(n) : v.name = t.name => holder[n] \in {Absent, c}
        <3>1. ASSUME NEW n \in Slots, NEW v \in Versions(n), v.name = t.name
              PROVE  n \in WithName(c, t.name)
            <4>1. v # Absent BY DEF Versions
            <4> QED BY <3>1, <4>1 DEF WithName
        <3> QED BY <1>2, <3>1 DEF UpsertWaits, Locked
    <2>7. holder[k] \in {Absent, c}
        <3>1. CASE Versions(k) = {} BY <2>3, <3>1 DEF CatalogInv, RowsLocked, Versions
        <3>2. CASE Seen(c, k) # Absent /\ Seen(c, k).name = t.name
            BY <2>3, <2>6, <3>2, SeenIsVersion
        <3> QED BY <2>3, <3>1, <3>2
    <2>8. /\ sync' = [d \in Syncs |-> sync'[d]] /\ IsSync(sync'[c]) /\ sync'[c].at = "write"
          /\ sync'[c].listed = sync[c].listed /\ sync'[c].todo = sync[c].todo \ {t}
          /\ \A d \in Syncs \ {c} : sync'[d] = sync[d]
        <3>1. PICK old : old = sync[c] OBVIOUS
        <3>2. /\ old = [at |-> old.at, after |-> old.after, page |-> old.page,
                        listed |-> old.listed, todo |-> old.todo]
              /\ old.at = "write" /\ old.after \in Nat /\ old.page \in Nat
              /\ old.listed \in SUBSET Listing /\ old.todo \in SUBSET old.listed
            BY <1>2, <3>1, ActiveSync
        <3>3. PICK s : s = [old EXCEPT !.todo = @ \ {t}] OBVIOUS
        <3>4. s = [at |-> "write", after |-> old.after, page |-> old.page,
                   listed |-> old.listed, todo |-> old.todo \ {t}]
            BY ONLY <3>2, <3>3
        <3>5. IsSync(s) /\ s.at = "write" /\ s.listed = old.listed /\ s.todo = old.todo \ {t}
            BY <3>2, <3>4 DEF IsSync
        <3>6. sync = [d \in Syncs |-> sync[d]] BY DEF CatalogInv, CatalogTypes
        <3>7. sync' = [sync EXCEPT ![c] = s] BY <2>4, <3>1, <3>3
        <3>8. sync'[c] = s /\ \A d \in Syncs \ {c} : sync'[d] = sync[d] BY <3>6, <3>7
        <3> QED BY <3>1, <3>5, <3>6, <3>7, <3>8
    <2>9. CatalogTypes' BY <1>2, <2>8 DEF CatalogInv, CatalogTypes
    <2>10. RowTypes' BY <1>2, <2>2, <2>4 DEF CatalogInv, RowTypes
    <2>11. ASSUME NEW n \in Slots, NEW v \in Versions(n), v.name = t.name PROVE n = k
        <3>1. CASE Seen(c, k) # Absent /\ Seen(c, k).name = t.name
            BY <2>3, <2>11, <3>1, SeenIsVersion DEF CatalogInv, RowNamesDiffer
        <3>2. CASE \A m \in Slots : Seen(c, m) # Absent => Seen(c, m).name # t.name
            <4>1. holder[n] \in {Absent, c} BY <2>6, <2>11
            <4>2. v # Absent /\ v \in {table[n], pending[n]} BY <2>11 DEF Versions
            <4>3. Seen(c, n) # Absent /\ Seen(c, n).name = t.name
                BY <2>11, <4>1, <4>2 DEF CatalogInv, RowsLocked, Seen
            <4> QED BY <3>2, <4>3
        <3> QED BY <2>3, <3>1, <3>2
    <2>12. RowNamesDiffer'
        <3>1. ASSUME NEW n \in Slots, NEW v \in Versions(n)' PROVE (n = k /\ v = t) \/ v \in Versions(n)
            BY <2>4, <2>5 DEF Versions
        <3> SUFFICES ASSUME NEW n \in Slots, NEW m \in Slots, NEW v \in Versions(n)',
                            NEW w \in Versions(m)', v.name = w.name
                     PROVE  n = m
            BY DEF RowNamesDiffer
        <3> QED BY <2>11, <3>1 DEF CatalogInv, RowNamesDiffer
    <2>13. RowsLocked'
        <3> SUFFICES ASSUME NEW n \in Slots
                     PROVE  /\ holder'[n] = Absent <=> pending'[n] = Absent
                            /\ holder'[n] # Absent => sync'[holder'[n]].at = "write"
                            /\ pending'[n] # Absent => pending'[n].status # "DELETED"
                            /\ table'[n] # Absent /\ pending'[n] # Absent => table'[n].name = pending'[n].name
            BY DEF RowsLocked
        <3>1. c # Absent /\ holder[n] \in Syncs \cup {Absent}
            BY CatalogAssumption DEF CatalogInv, RowTypes
        <3>2. CASE n = k
            <4>1. table[k] # Absent => table[k].name = t.name
                <5>1. CASE Versions(k) = {} BY <5>1 DEF Versions
                <5>2. CASE Seen(c, k) # Absent /\ Seen(c, k).name = t.name
                    BY <2>3, <5>2 DEF CatalogInv, RowsLocked, Seen
                <5> QED BY <2>3, <5>1, <5>2
            <4> QED BY <2>2, <2>4, <2>5, <2>8, <3>1, <3>2, <4>1
        <3>3. CASE n # k BY <2>4, <2>5, <2>8, <3>1, <3>3 DEF CatalogInv, RowsLocked
        <3> QED BY <3>2, <3>3
    <2>14. MetaNamesDiffer' BY <1>2 DEF CatalogInv, MetaNamesDiffer, AtMeta
    <2>15. ASSUME NEW d \in Syncs PROVE ListedOrGone(d)'
        <3>1. CASE d = c BY <1>2, <2>8, <3>1 DEF CatalogInv, ListedOrGone, Covers
        <3> QED BY <1>2, <2>8, <3>1, KeepsListed DEF CatalogInv
    <2>16. ASSUME NEW d \in quiet' PROVE Undisturbed(d)'
        <3>0. d \in Syncs /\ Undisturbed(d) BY <1>2 DEF CatalogInv, CatalogTypes
        <3>1. CASE d = c
            <4>1. ASSUME NEW u \in sync[c].listed \ (sync[c].todo \ {t}) PROVE WrittenBy(c, u)'
                <5>1. CASE u = t BY <2>3, <2>5, <5>1 DEF WrittenBy
                <5>2. CASE u # t
                    <6>1. PICK n \in Slots : holder[n] = c /\ pending[n] = u
                        BY <1>2, <3>0, <3>1, <4>1, <5>2 DEF Undisturbed, WrittenBy
                    <6>2. n # k
                        <7>1. u.name # t.name
                            <8>1. PICK i \in AtMeta : u = Entry(i) BY <1>2, <3>0, <3>1, <4>1 DEF Undisturbed
                            <8>2. sync[c].todo \in SUBSET sync[c].listed BY <1>2, ActiveSync
                            <8>3. PICK j \in AtMeta : t = Entry(j)
                                BY <1>2, <1>3, <3>0, <3>1, <8>2 DEF Undisturbed
                            <8>4. i # j BY <5>2, <8>1, <8>3
                            <8>5. meta[i].name # meta[j].name BY <8>4 DEF CatalogInv, MetaNamesDiffer
                            <8> QED BY <8>1, <8>3, <8>5 DEF Entry
                        <7>2. u # Absent /\ u \in Versions(n) BY <6>1, CatalogAssumption
                                DEF CatalogInv, RowsLocked, Versions
                        <7>3. Seen(c, n) = u BY <6>1, <7>2 DEF CatalogInv, RowsLocked, Seen
                        <7> QED BY <2>3, <7>1, <7>2, <7>3
                    <6> QED BY <2>5, <6>1, <6>2 DEF WrittenBy
                <5> QED BY <5>1, <5>2
            <4>2. AtMeta' = AtMeta /\ \A i : Entry(i)' = Entry(i) BY <1>2 DEF AtMeta, Entry
            <4> QED BY <1>2, <2>8, <3>0, <3>1, <4>1, <4>2 DEF Undisturbed
        <3>2. CASE d # c
            <4>1. \A n \in Slots : holder[n] = d => holder'[n] = d /\ pending'[n] = pending[n]
                BY <2>5, <2>7, <3>0, <3>2, CatalogAssumption
            <4> QED BY <1>2, <2>4, <2>8, <3>0, <3>2, <4>1, KeepsUndisturbed
        <3> QED BY <3>1, <3>2
    <2> QED BY <2>9, <2>10, <2>12, <2>13, <2>14, <2>15, <2>16 DEF CatalogInv
<1> QED BY <1>4, <1>5

(* What a commit makes of a row, and that every row it marks was gone.     *)
LEMMA CommitRows ==
  ASSUME CatalogInv, NEW c \in Syncs, MarkDeletedAndCommit(c), NEW n \in Slots
  PROVE  /\ holder'[n] = (IF holder[n] = c THEN Absent ELSE holder[n])
         /\ pending'[n] = (IF holder[n] = c THEN Absent ELSE pending[n])
         /\ Seen(c, n) = Absent => table'[n] = Absent
         /\ n \notin Unlisted(c) => table'[n] = Seen(c, n)
         /\ n \in Unlisted(c) => table'[n] = [Seen(c, n) EXCEPT !.status = "DELETED"]
         /\ Seen(c, n) # Absent =>
              /\ table'[n] \in TemplateRows /\ Seen(c, n) \in TemplateRows
              /\ table'[n].name = Seen(c, n).name /\ table'[n].id = Seen(c, n).id
<1>1. Seen(c, n) \in TemplateRows \cup {Absent} BY SeenIsVersion
<1>2. n \in Unlisted(c) => Seen(c, n) # Absent BY DEF Unlisted
<1>3. table'[n] = IF n \in Unlisted(c) THEN [Seen(c, n) EXCEPT !.status = "DELETED"] ELSE Seen(c, n)
    BY DEF MarkDeletedAndCommit
<1>4. PICK v : v = Seen(c, n) OBVIOUS
<1>5. v \in TemplateRows => /\ [v EXCEPT !.status = "DELETED"] \in TemplateRows
                            /\ [v EXCEPT !.status = "DELETED"].name = v.name
                            /\ [v EXCEPT !.status = "DELETED"].id = v.id
    BY DEF TemplateRows
<1> QED BY <1>1, <1>2, <1>3, <1>4, <1>5 DEF MarkDeletedAndCommit

LEMMA CommitHolds ==
  ASSUME CatalogInv, NEW c \in Syncs, MarkDeletedAndCommit(c) PROVE CatalogInv'
<1>1. /\ sync[c].at = "write" /\ sync[c].todo = {} /\ sync' = [sync EXCEPT ![c].at = "done"]
      /\ UNCHANGED <<meta, sent, hook, gone>> /\ quiet' = quiet \cap {c}
    BY DEF MarkDeletedAndCommit
<1>2. /\ sync' = [d \in Syncs |-> sync'[d]] /\ IsSync(sync'[c]) /\ sync'[c].at = "done"
      /\ \A d \in Syncs \ {c} : sync'[d] = sync[d]
    BY <1>1, SyncEnds
<1>3. CatalogTypes' BY <1>1, <1>2 DEF CatalogInv, CatalogTypes
<1>4. RowTypes'
    <2>1. \A n \in Slots : table'[n] \in TemplateRows \cup {Absent} BY CommitRows
    <2>2. \A n \in Slots : table[n] # Absent => table'[n] # Absent
        <3>1. ASSUME NEW n \in Slots, table[n] # Absent PROVE table'[n] # Absent
            <4>1. Seen(c, n) # Absent BY <3>1, SeenIsVersion
            <4>2. table'[n] \in TemplateRows BY <4>1, CommitRows
            <4> QED BY <4>2, CatalogAssumption DEF TemplateRows
        <3> QED BY <3>1
    <2>3. /\ table' \in [Slots -> TemplateRows \cup {Absent}]
          /\ pending' \in [Slots -> TemplateRows \cup {Absent}]
          /\ holder' \in [Slots -> Syncs \cup {Absent}]
        BY <2>1 DEF MarkDeletedAndCommit, CatalogInv, RowTypes
    <2> QED BY <1>1, <2>2, <2>3 DEF CatalogInv, RowTypes
<1>5. RowsLocked'
    <2> SUFFICES ASSUME NEW n \in Slots
                 PROVE  /\ holder'[n] = Absent <=> pending'[n] = Absent
                        /\ holder'[n] # Absent => sync'[holder'[n]].at = "write"
                        /\ pending'[n] # Absent => pending'[n].status # "DELETED"
                        /\ table'[n] # Absent /\ pending'[n] # Absent => table'[n].name = pending'[n].name
        BY DEF RowsLocked
    <2>1. c # Absent /\ holder[n] \in Syncs \cup {Absent}
        BY CatalogAssumption DEF CatalogInv, RowTypes
    <2>2. /\ holder'[n] = (IF holder[n] = c THEN Absent ELSE holder[n])
          /\ pending'[n] = (IF holder[n] = c THEN Absent ELSE pending[n])
        BY CommitRows
    <2>3. CASE holder[n] = c BY <2>2, <2>3
    <2>4. CASE holder[n] # c
        <3>1. Seen(c, n) = table[n] BY <2>4 DEF Seen
        <3>2. table'[n] # Absent => table[n] # Absent /\ table'[n].name = table[n].name
            <4>1. CASE table[n] = Absent
                <5>1. Seen(c, n) = Absent BY <3>1, <4>1
                <5> QED BY <5>1, CommitRows
            <4>2. CASE table[n] # Absent
                <5>1. Seen(c, n) # Absent BY <3>1, <4>2
                <5>2. table'[n].name = Seen(c, n).name BY <5>1, CommitRows
                <5> QED BY <3>1, <4>2, <5>2
            <4> QED BY <4>1, <4>2
        <3> QED BY <1>2, <2>1, <2>2, <2>4, <3>2 DEF CatalogInv, RowsLocked
    <2> QED BY <2>3, <2>4
<1>6. RowNamesDiffer'
    <2>1. ASSUME NEW n \in Slots, NEW v \in Versions(n)' PROVE \E w \in Versions(n) : w.name = v.name
        <3>1. v # Absent /\ v \in {table'[n], pending'[n]} BY DEF Versions
        <3>2. CASE v = table'[n]
            <4>1. Seen(c, n) # Absent /\ v.name = Seen(c, n).name BY <3>1, <3>2, CommitRows
            <4> QED BY <4>1, SeenIsVersion
        <3>3. CASE v = pending'[n]
            <4>1. v = pending[n] BY <3>1, <3>3, CommitRows
            <4> QED BY <3>1, <4>1 DEF Versions
        <3> QED BY <3>1, <3>2, <3>3
    <2> QED BY <2>1, NamesStayDifferent DEF CatalogInv
<1>7. MetaNamesDiffer' BY <1>1 DEF CatalogInv, MetaNamesDiffer, AtMeta
<1>8. ASSUME NEW d \in Syncs PROVE ListedOrGone(d)'
    <2>1. CASE d = c BY <1>1, <1>2, <2>1 DEF CatalogInv, ListedOrGone
    <2> QED BY <1>1, <1>2, <2>1, KeepsListed DEF CatalogInv
<1>9. ASSUME NEW d \in quiet' PROVE Undisturbed(d)'
    <2>1. d = c /\ Undisturbed(c) BY <1>1 DEF CatalogInv
    <2>2. sync[c].listed = {Entry(i) : i \in AtMeta} /\ \A t \in sync[c].listed : WrittenBy(c, t)
        BY <1>1, <2>1 DEF Undisturbed
    <2>3. {t.id : t \in sync[c].listed} = AtMeta
        <3>1. \A i \in AtMeta : Entry(i).id = i BY DEF Entry
        <3> QED BY <2>2, <3>1
    <2>4. AtMeta' = AtMeta BY <1>1 DEF AtMeta
    <2>5. ASSUME NEW i \in AtMeta
          PROVE  \E n \in Slots : table'[n] = [id |-> i, name |-> meta[i].name, status |-> meta[i].status]
        <3>1. PICK n \in Slots : holder[n] = c /\ pending[n] = Entry(i) BY <2>2 DEF WrittenBy
        <3>2. c # Absent /\ Entry(i).id = i BY CatalogAssumption DEF Entry
        <3>3. Seen(c, n) = Entry(i) BY <3>1, <3>2 DEF Seen
        <3>4. n \notin Unlisted(c) BY <2>3, <3>2, <3>3 DEF Unlisted
        <3>5. table'[n] = Entry(i) BY <3>3, <3>4, CommitRows
        <3> QED BY <3>5 DEF Entry
    <2>6. ASSUME NEW n \in Slots, table'[n] # Absent, table'[n].id \notin AtMeta
          PROVE  table'[n].status = "DELETED"
        <3>1. PICK v : v = Seen(c, n) OBVIOUS
        <3>2. v # Absent /\ v \in TemplateRows /\ v.id \notin AtMeta BY <2>6, <3>1, CommitRows
        <3>3. CASE n \in Unlisted(c)
            <4>1. table'[n] = [v EXCEPT !.status = "DELETED"] BY <3>1, <3>3, CommitRows
            <4> QED BY <3>2, <4>1 DEF TemplateRows
        <3>4. CASE n \notin Unlisted(c)
            <4>1. v.status = "DELETED" BY <2>3, <3>1, <3>2, <3>4 DEF Unlisted
            <4> QED BY <3>1, <3>4, <4>1, CommitRows
        <3> QED BY <3>3, <3>4
    <2>7. Agrees' BY <1>1, <2>4, <2>5, <2>6 DEF Agrees
    <2> QED BY <1>2, <2>1, <2>7 DEF Undisturbed
<1> QED BY <1>3, <1>4, <1>5, <1>6, <1>7, <1>8, <1>9 DEF CatalogInv

LEMMA MetaChangesHolds == ASSUME CatalogInv, MetaChanges PROVE CatalogInv'
<1>1. /\ quiet' = {} /\ UNCHANGED <<table, pending, holder, sync, hook>>
      /\ gone' = [c \in Syncs |-> gone[c] \cup {i \in TemplateIds : meta'[i] = Absent}]
    BY DEF MetaChanges, tableVars
<1>2. PICK i \in TemplateIds :
        \/ /\ meta[i] = Absent
           /\ \E n \in Names \ {meta[j].name : j \in AtMeta} :
                meta' = [meta EXCEPT ![i] = [name |-> n, status |-> "PENDING"]]
           /\ UNCHANGED sent
        \/ /\ i \in AtMeta
           /\ \E s \in {"APPROVED", "REJECTED"} :
                /\ meta' = [meta EXCEPT ![i].status = s]
                /\ sent' = sent \cup {[id |-> i, name |-> meta[i].name, status |-> s]}
        \/ i \in AtMeta /\ meta' = [meta EXCEPT ![i] = Absent] /\ UNCHANGED sent
    <2>1. \A i \in TemplateIds : i >= i BY CatalogAssumption
    <2> QED BY <2>1 DEF MetaChanges
<1>3. meta \in [TemplateIds -> Templates \cup {Absent}] /\ sent \in SUBSET Listing
    BY DEF CatalogInv, CatalogTypes
<1> DEFINE Fits == /\ meta' \in [TemplateIds -> Templates \cup {Absent}] /\ sent' \in SUBSET Listing
                   /\ MetaNamesDiffer'
<1>4. Fits
    <2>1. ASSUME NEW n \in Names \ {meta[j].name : j \in AtMeta}, UNCHANGED sent,
                 meta' = [meta EXCEPT ![i] = [name |-> n, status |-> "PENDING"]]
          PROVE  Fits
        <3>1. PICK t : t = [name |-> n, status |-> "PENDING"] OBVIOUS
        <3>2. t \in Templates /\ t.name = n BY <3>1 DEF Templates, TemplateStatuses
        <3>3. meta' = [meta EXCEPT ![i] = t] BY <2>1, <3>1
        <3>4. meta' \in [TemplateIds -> Templates \cup {Absent}] BY <1>3, <3>2, <3>3
        <3>5. /\ meta'[i] = t /\ AtMeta' \subseteq AtMeta \cup {i}
              /\ \A j \in AtMeta' \ {i} : j \in AtMeta /\ meta'[j] = meta[j]
            BY <1>3, <3>3 DEF AtMeta
        <3>6. MetaNamesDiffer' BY <3>2, <3>5 DEF CatalogInv, MetaNamesDiffer
        <3> QED BY <1>3, <2>1, <3>4, <3>6
    <2>2. ASSUME i \in AtMeta, NEW s \in {"APPROVED", "REJECTED"}, meta' = [meta EXCEPT ![i].status = s],
                 sent' = sent \cup {[id |-> i, name |-> meta[i].name, status |-> s]}
          PROVE  Fits
        <3>1. PICK t \in Templates : t = meta[i] BY <1>3, <2>2 DEF AtMeta
        <3>2. PICK u : u = [t EXCEPT !.status = s] OBVIOUS
        <3>3. u \in Templates /\ u.name = t.name /\ u # Absent
            BY <3>2, CatalogAssumption DEF Templates, TemplateStatuses
        <3>4. meta' = [meta EXCEPT ![i] = u] BY <2>2, <3>1, <3>2
        <3>5. /\ meta' \in [TemplateIds -> Templates \cup {Absent}] /\ AtMeta' = AtMeta
              /\ \A j \in AtMeta : meta'[j].name = meta[j].name
            BY <1>3, <2>2, <3>1, <3>3, <3>4 DEF AtMeta
        <3>6. MetaNamesDiffer' BY <3>5 DEF CatalogInv, MetaNamesDiffer
        <3>7. [id |-> i, name |-> meta[i].name, status |-> s] \in Listing
            BY <3>1 DEF Listing, Templates, TemplateStatuses
        <3> QED BY <1>3, <2>2, <3>5, <3>6, <3>7
    <2>3. ASSUME meta' = [meta EXCEPT ![i] = Absent], UNCHANGED sent PROVE Fits
        BY <1>3, <2>3 DEF CatalogInv, MetaNamesDiffer, AtMeta
    <2> QED BY <1>2, <2>1, <2>2, <2>3
<1>5. gone' \in [Syncs -> SUBSET TemplateIds] BY <1>1 DEF CatalogInv, CatalogTypes
<1>6. CatalogTypes' BY <1>1, <1>4, <1>5 DEF CatalogInv, CatalogTypes
<1>7. RowTypes' /\ RowsLocked' BY <1>1 DEF CatalogInv, RowTypes, RowsLocked
<1>8. RowNamesDiffer' BY <1>1 DEF CatalogInv, RowNamesDiffer, Versions
<1>9. ASSUME NEW c \in Syncs PROVE ListedOrGone(c)'
    BY <1>1 DEF CatalogInv, ListedOrGone, Covers
<1> QED BY <1>1, <1>4, <1>6, <1>7, <1>8, <1>9 DEF CatalogInv

LEMMA FindByProviderHolds == ASSUME CatalogInv, FindByProvider PROVE CatalogInv'
<1>1. UNCHANGED <<meta, sent, table, pending, holder, sync, gone, quiet>>
    BY DEF FindByProvider, tableVars
<1>2. PICK e \in sent : hook' = [at |-> "write", update |-> e,
                                 found |-> {n \in Slots : table[n] # Absent /\ table[n].id = e.id}]
    BY DEF FindByProvider
<1>3. RowTypes' BY <1>1, <1>2 DEF CatalogInv, CatalogTypes, RowTypes
<1>4. CatalogTypes' /\ RowsLocked' /\ RowNamesDiffer' /\ MetaNamesDiffer'
    BY <1>1 DEF CatalogInv, CatalogTypes, RowsLocked, RowNamesDiffer, Versions, MetaNamesDiffer, AtMeta
<1>5. \A c \in Syncs : ListedOrGone(c)' BY <1>1, KeepsListed DEF CatalogInv
<1>6. \A c \in quiet' : Undisturbed(c)' BY <1>1, KeepsUndisturbed DEF CatalogInv, CatalogTypes
<1> QED BY <1>3, <1>4, <1>5, <1>6 DEF CatalogInv

(* A status update writes one row that nobody holds, and never a name that *)
(* another row has.                                                        *)
LEMMA ApplyHolds == ASSUME CatalogInv, ApplyProviderStatusUpdate PROVE CatalogInv'
<1>1. /\ UNCHANGED <<meta, sent, pending, holder, sync, gone>> /\ quiet' = {} /\ hook'.at = "idle"
      /\ hook.at = "write"
    BY DEF ApplyProviderStatusUpdate
<1>2. PICK e \in Listing : e = hook.update BY <1>1 DEF CatalogInv, RowTypes
<1>3. hook.found \in SUBSET {n \in Slots : table[n] # Absent} BY <1>1 DEF CatalogInv, RowTypes
<1>4. PICK n : n = IF hook.found # {} THEN CHOOSE r \in hook.found : TRUE ELSE Target(Absent, e.name)
    OBVIOUS
<1>5. PICK id : id = IF hook.found # {} THEN table[n].id ELSE e.id OBVIOUS
<1>6. PICK rivals : rivals = (WithName(Absent, e.name) \cup WithId(Absent, id)) \ {n} OBVIOUS
<1>7. e.name \in Names /\ e.id \in TemplateIds /\ e.status \in TemplateStatuses BY DEF Listing
<1>8. n \in Slots /\ id \in TemplateIds
    <2>1. CASE hook.found # {}
        <3>1. n \in hook.found BY <1>4, <2>1
        <3>2. n \in Slots /\ table[n] \in TemplateRows BY <1>3, <3>1 DEF CatalogInv, RowTypes
        <3> QED BY <1>5, <2>1, <3>2 DEF TemplateRows
    <2>2. CASE hook.found = {} BY <1>4, <1>5, <1>7, <2>2, TargetFits
    <2> QED BY <2>1, <2>2
<1>9. holder[n] = Absent /\ pending[n] = Absent
    BY <1>2, <1>4, <1>8 DEF ApplyProviderStatusUpdate, CatalogInv, RowsLocked
<1>10. table' = IF rivals # {} THEN table
                ELSE [table EXCEPT ![n] = [id |-> id, name |-> e.name, status |-> e.status]]
    BY <1>2, <1>4, <1>5, <1>6 DEF ApplyProviderStatusUpdate
<1>11. CatalogTypes' /\ MetaNamesDiffer' BY <1>1 DEF CatalogInv, CatalogTypes, MetaNamesDiffer, AtMeta
<1>12. \A c \in Syncs : ListedOrGone(c)' BY <1>1, KeepsListed DEF CatalogInv
<1>13. CASE rivals # {}
    <2>1. table' = table BY <1>10, <1>13
    <2>2. RowTypes' /\ RowsLocked' /\ RowNamesDiffer'
        BY <1>1, <2>1 DEF CatalogInv, RowTypes, RowsLocked, RowNamesDiffer, Versions
    <2> QED BY <1>1, <1>11, <1>12, <2>2 DEF CatalogInv
<1>14. CASE rivals = {}
    <2>1. PICK v : v = [id |-> id, name |-> e.name, status |-> e.status] OBVIOUS
    <2>2. v \in TemplateRows /\ v.name = e.name BY <1>7, <1>8, <2>1 DEF TemplateRows
    <2>3. table' = [table EXCEPT ![n] = v] BY <1>10, <1>14, <2>1
    <2>4. RowTypes' BY <1>1, <2>2, <2>3 DEF CatalogInv, RowTypes
    <2>5. table'[n] = v /\ \A m \in Slots \ {n} : table'[m] = table[m]
        BY <1>8, <2>3 DEF CatalogInv, RowTypes
    <2>6. RowsLocked' BY <1>1, <1>9, <2>5 DEF CatalogInv, RowsLocked
    <2>7. ASSUME NEW m \in Slots \ {n}, NEW w \in Versions(m) PROVE w.name # e.name
        <3>1. w # Absent BY DEF Versions
        <3>2. m \notin WithName(Absent, e.name) BY <1>6, <1>14
        <3> QED BY <3>1, <3>2 DEF WithName
    <2>8. \A m \in Slots \ {n} : Versions(m)' = Versions(m) BY <1>1, <2>5 DEF Versions
    <2>9. Versions(n)' \subseteq {v} BY <1>1, <1>9, <2>5 DEF Versions
    <2>10. RowNamesDiffer'
        <3> SUFFICES ASSUME NEW a \in Slots, NEW b \in Slots, NEW x \in Versions(a)',
                            NEW y \in Versions(b)', x.name = y.name
                     PROVE  a = b
            BY DEF RowNamesDiffer
        <3> QED BY <2>2, <2>7, <2>8, <2>9 DEF CatalogInv, RowNamesDiffer
    <2> QED BY <1>1, <1>11, <1>12, <2>4, <2>6, <2>10 DEF CatalogInv
<1> QED BY <1>13, <1>14

LEMMA NextCatalog == ASSUME CatalogInv, [CatalogNext]_catalogVars PROVE CatalogInv'
<1>1. CASE UNCHANGED catalogVars
    <2>1. UNCHANGED <<meta, sent, table, pending, holder, sync, hook, gone, quiet>>
        BY <1>1 DEF catalogVars
    <2>2. CatalogTypes' /\ RowTypes' /\ RowsLocked' /\ RowNamesDiffer' /\ MetaNamesDiffer'
        BY <2>1 DEF CatalogInv, CatalogTypes, RowTypes, RowsLocked, RowNamesDiffer, Versions,
                    MetaNamesDiffer, AtMeta
    <2>3. \A c \in Syncs : ListedOrGone(c)' BY <2>1, KeepsListed DEF CatalogInv
    <2>4. \A c \in quiet' : Undisturbed(c)' BY <2>1, KeepsUndisturbed DEF CatalogInv, CatalogTypes
    <2> QED BY <2>2, <2>3, <2>4 DEF CatalogInv
<1>2. ASSUME NEW c \in Syncs, AbortSync(c) PROVE CatalogInv'
    BY <1>2, RollbackHolds DEF AbortSync
<1> QED BY <1>1, <1>2, MetaChangesHolds, FindByProviderHolds, ApplyHolds, StartSyncHolds, GetPageHolds,
       SyncFailsHolds, UpsertHolds, CommitHolds DEF CatalogNext

(* A sync that nothing overtook leaves the table as Meta has it, for any   *)
(* number of templates, pages, syncs, transactions and late updates.       *)
THEOREM QuietSyncsAgree == CatalogSpec => []QuietSyncAgrees
<1>1. CatalogInv => QuietSyncAgrees BY DEF CatalogInv, Undisturbed, QuietSyncAgrees
<1> QED BY <1>1, InitCatalog, NextCatalog, PTL DEF CatalogSpec

(* Only the commit of a sync ends it, and what it marks it did not list.   *)
LEMMA MarkedWasGone ==
  ASSUME CatalogInv, CatalogNext, NEW n \in Slots, NEW c \in Syncs,
         sync[c].at = "write", sync'[c].at = "done",
         table'[n] # Absent, table'[n].status = "DELETED", table'[n] # table[n]
  PROVE  table'[n].id \in gone[c]
<1>0. sync = [d \in Syncs |-> sync[d]] BY DEF CatalogInv, CatalogTypes
<1>1. MarkDeletedAndCommit(c)
    <2>1. sync' # sync OBVIOUS
    <2>2. ASSUME NEW d \in Syncs, StartSync(d) \/ GetPage(d) \/ SyncFails(d) \/ Upsert(d) \/ AbortSync(d)
          PROVE  sync'[c].at # "done"
        <3>1. CASE d # c
            <4>1. sync'[c] = sync[c]
                BY <1>0, <2>2, <3>1 DEF StartSync, GetPage, SyncFails, Upsert, AbortSync
            <4> QED BY <4>1
        <3>2. CASE d = c
            <4>1. ~StartSync(c) /\ ~GetPage(c) /\ ~SyncFails(c) BY DEF StartSync, GetPage, SyncFails
            <4>2. PICK old : old = sync[c] OBVIOUS
            <4>3. sync'[c] = [old EXCEPT !.at = "failed"] \/ \E t : sync'[c] = [old EXCEPT !.todo = @ \ {t}]
                BY <1>0, <2>2, <3>2, <4>1, <4>2 DEF Upsert, AbortSync
            <4>4. old = [at |-> old.at, after |-> old.after, page |-> old.page,
                         listed |-> old.listed, todo |-> old.todo] /\ old.at = "write"
                BY <4>2, ActiveSync
            <4> QED BY <4>3, <4>4
        <3> QED BY <3>1, <3>2
    <2>3. ASSUME NEW d \in Syncs, d # c, MarkDeletedAndCommit(d) PROVE FALSE
        BY <1>0, <2>3 DEF MarkDeletedAndCommit
    <2> QED BY <2>1, <2>2, <2>3 DEF CatalogNext, MetaChanges, FindByProvider, ApplyProviderStatusUpdate
<1>2. PICK v : v = Seen(c, n) OBVIOUS
<1>3. v # Absent /\ v \in TemplateRows /\ table'[n].id = v.id BY <1>1, <1>2, CommitRows
<1>4. n \in Unlisted(c)
    <2> SUFFICES ASSUME n \notin Unlisted(c) PROVE FALSE OBVIOUS
    <2>1. table'[n] = v BY <1>1, <1>2, CommitRows
    <2>2. v = pending[n] BY <1>2, <2>1 DEF Seen
    <2> QED BY <1>3, <2>1, <2>2 DEF CatalogInv, RowsLocked
<1>5. v.id \in TemplateIds /\ v.id \notin {t.id : t \in sync[c].listed}
    BY <1>2, <1>3, <1>4 DEF Unlisted, TemplateRows
<1> QED BY <1>3, <1>5 DEF CatalogInv, ListedOrGone, Covers

(* What a sync marks DELETED was missing at Meta at some moment since the  *)
(* sync began, however its listing was paged, raced or cut short.          *)
THEOREM DeletedWasAlwaysGone == CatalogSpec => DeletedWasGone
<1> DEFINE Step == \A n \in Slots, c \in Syncs :
                     /\ sync[c].at = "write" /\ sync'[c].at = "done"
                     /\ table'[n] # Absent /\ table'[n].status = "DELETED" /\ table'[n] # table[n]
                     => table'[n].id \in gone[c]
<1>1. CatalogInv /\ [CatalogNext]_catalogVars => [Step]_catalogVars BY MarkedWasGone
<1>2. CatalogSpec => [][Step]_catalogVars
    BY <1>1, InitCatalog, NextCatalog, PTL DEF CatalogSpec
<1> QED BY <1>2 DEF DeletedWasGone
===============================================================================
