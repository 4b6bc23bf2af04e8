-------------------------------- MODULE MCTenant --------------------------------
(* Two parts of a tenant's workspace that share nothing: who works on      *)
(* which conversation, and the catalogue of message templates.             *)
EXTENDS InboxAssignment, TemplateCatalog, TLC

VARIABLE part

-----------------------------------------------------------------------------
(* Status changes, agent changes, and moves of the pair of agent and team. *)
SmallUpdates ==
    [setAgent : {Keep}, setTeam : {Keep}, setStatus : {"OPEN", "RESOLVED"}]
    \cup [setAgent : {1, None}, setTeam : {Keep}, setStatus : {Keep}]
    \cup [setAgent : {1}, setTeam : Teams, setStatus : {Keep}]

(* Two templates at Meta and an id for one that is new or takes a name     *)
(* over, or three templates, which are more than the page limit allows.    *)
Template(i) == CASE i = 1 -> [name |-> "welcome", status |-> "APPROVED"]
                 [] i = 2 -> [name |-> "receipt", status |-> "PENDING"]
                 [] i = 3 -> [name |-> "reminder", status |-> "APPROVED"]
SmallCatalogs ==
    {[i \in TemplateIds |-> IF i <= n THEN Template(i) ELSE Absent] : n \in {2, 3}}

Replicas == Permutations(Requests) \cup Permutations(Conversations)
            \cup Permutations(Teams) \cup Permutations(Syncs)

-----------------------------------------------------------------------------
TenantInit ==
    /\ part \in {"inbox", "templates"}
    /\ Init
    /\ CatalogInit
    /\ part = "inbox" => meta[3] = Absent /\ \A n \in Slots : table[n] = Absent
    /\ part = "templates" => \A c \in Conversations : team[c] = None /\ \A s \in Skills : minLevel[c][s] = 0

TenantNext ==
    /\ UNCHANGED part
    /\ \/ part = "inbox" /\ Next /\ UNCHANGED catalogVars
       \/ part = "templates" /\ CatalogNext /\ UNCHANGED vars

TenantSpec == TenantInit /\ [][TenantNext]_<<vars, catalogVars, part>>
===============================================================================
