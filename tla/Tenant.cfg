\* Two requests at a time, three in all, over two conversations, two agents and
\* two teams; one change of an agent, a team or a skill.
\* Two syncs of two or three templates on pages of one, two changes at Meta,
\* one status update.
SPECIFICATION TenantSpec
CONSTANTS
    Conversations = {c1, c2}
    Agents = {1, 2}
    Teams = {t1, t2}
    Skills = {s1}
    Requests = {r1, r2}
    MaxLevel = 1
    Updates <- SmallUpdates
    Limits = {1}
    MaxRequests = 3
    MaxChanges = 1
    None = None
    Keep = Keep
    TemplateIds = {1, 2, 3}
    Names = {"welcome", "receipt", "reminder"}
    Catalogs <- SmallCatalogs
    Syncs = {y1, y2}
    PageSize = 1
    MaxPages = 2
    Slots = {1, 2, 3, 4}
    MaxMetaChanges = 2
    MaxUpdates = 1
    Absent = Absent
SYMMETRY Replicas
INVARIANTS
    CapacityHonoured
    OnlyTeamMovesDeadlock
    QuietSyncAgrees
PROPERTIES
    AdmissionsAreQualified
    HoldersAreRespected
    DeletedWasGone
CHECK_DEADLOCK FALSE
