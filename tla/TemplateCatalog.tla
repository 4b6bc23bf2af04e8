---------------------------- MODULE TemplateCatalog ----------------------------
(***************************************************************************)
(* TemplatesService and MetaTemplateClient.listTemplates: the local copy   *)
(* of a WABA's message templates.  A sync lists Meta's templates page by   *)
(* page while they change, then writes them in one transaction and marks   *)
(* what it did not list as DELETED; meanwhile status webhooks, late and    *)
(* out of order, write the same rows.  Each action is one request or one   *)
(* query (PostgreSQL, read committed: rows written stay locked until the   *)
(* transaction ends, and unique keys wait for open transactions).          *)
(***************************************************************************)
EXTENDS Naturals, FiniteSets

CONSTANTS TemplateIds,    \* Meta's ids, numbered as Meta hands them out
          Names,          \* name and language of a template
          Catalogs,       \* what Meta has at the start
          Syncs,          \* sync requests
          PageSize,       \* templates on a page
          MaxPages,       \* the page safety limit
          Slots,          \* rows the table can hold
          MaxMetaChanges, \* bound: changes at Meta
          MaxUpdates,     \* bound: status updates handled
          Absent          \* no row, no template, no transaction

VARIABLES meta,           \* template of each id at Meta
          sent,           \* status updates Meta has sent; any may come again
          table,          \* committed rows
          pending,        \* row versions of open transactions
          holder,         \* the sync whose transaction holds a row
          sync,           \* each sync
          hook,           \* the status update being applied
          metaChanges, updates,
          gone,           \* history: ids not at Meta at some moment since a
                          \* sync began
          quiet           \* history: syncs since whose start nothing else
                          \* changed Meta or the table

catalogVars == <<meta, sent, table, pending, holder, sync, hook, metaChanges, updates, gone, quiet>>
tableVars == <<table, pending, holder>>

TemplateStatuses == {"PENDING", "APPROVED", "REJECTED"}
Templates == [name : Names, status : TemplateStatuses]

ASSUME CatalogAssumption ==
  /\ TemplateIds \subseteq Nat \ {0}
  /\ TemplateIds \subseteq Slots
  /\ IsFiniteSet(Names) /\ IsFiniteSet(Slots) /\ Cardinality(Names) < Cardinality(Slots)
  /\ PageSize \in Nat \ {0} /\ MaxPages \in Nat \ {0}
  /\ Absent \notin Templates \cup Syncs
  /\ Absent \notin [id : TemplateIds, name : Names, status : TemplateStatuses \cup {"DELETED"}]
  /\ Catalogs \subseteq [TemplateIds -> Templates \cup {Absent}]
  /\ \A start \in Catalogs : \A i, j \in TemplateIds :
       start[i] # Absent /\ start[j] # Absent /\ start[i].name = start[j].name => i = j

AtMeta == {i \in TemplateIds : meta[i] # Absent}

CatalogInit ==
  /\ meta \in Catalogs
  /\ sent = {}
  /\ \E rows \in {{}, AtMeta} :    \* never synced, or synced before their review
       table = [n \in Slots |-> IF n \in rows THEN [id |-> n, name |-> meta[n].name, status |-> "PENDING"]
                                ELSE Absent]
  /\ pending = [n \in Slots |-> Absent]
  /\ holder = [n \in Slots |-> Absent]
  /\ sync = [c \in Syncs |-> [at |-> "idle"]]
  /\ hook = [at |-> "idle"]
  /\ metaChanges = 0 /\ updates = 0
  /\ gone = [c \in Syncs |-> {}]
  /\ quiet = {}

-----------------------------------------------------------------------------
(* Meta creates, reviews and deletes templates; a name may come back with  *)
(* a new id.                                                               *)
MetaChanges ==
  /\ metaChanges < MaxMetaChanges
  /\ metaChanges' = metaChanges + 1
  /\ \E i \in TemplateIds :
       \/ /\ \A j \in TemplateIds : j >= i => meta[j] = Absent
          /\ \E n \in Names \ {meta[j].name : j \in AtMeta} :
               meta' = [meta EXCEPT ![i] = [name |-> n, status |-> "PENDING"]]
          /\ UNCHANGED sent
       \/ /\ i \in AtMeta
          /\ \E s \in {"APPROVED", "REJECTED"} \ {meta[i].status} :
               /\ meta' = [meta EXCEPT ![i].status = s]
               /\ sent' = sent \cup {[id |-> i, name |-> meta[i].name, status |-> s]}
       \/ /\ i \in AtMeta
          /\ meta' = [meta EXCEPT ![i] = Absent]
          /\ UNCHANGED sent
  /\ gone' = [c \in Syncs |-> gone[c] \cup {i \in TemplateIds : meta'[i] = Absent}]
  /\ quiet' = {}
  /\ UNCHANGED <<tableVars, sync, hook, updates>>

-----------------------------------------------------------------------------
(* sync: listTemplates, one page at a time, by cursor.                     *)
StartSync(c) ==
  /\ sync[c].at = "idle"
  /\ sync' = [sync EXCEPT ![c] = [at |-> "list", after |-> 0, page |-> 0, listed |-> {}, todo |-> {}]]
  /\ gone' = [gone EXCEPT ![c] = {i \in TemplateIds : meta[i] = Absent}]
  /\ quiet' = quiet \cup {c}
  /\ UNCHANGED <<meta, sent, tableVars, hook, metaChanges, updates>>

PageAfter(after) ==
  LET rest == {i \in AtMeta : i > after} IN
  {i \in rest : Cardinality({j \in rest : j < i}) < PageSize}
HasNext(after) == \E i \in AtMeta : i > after /\ i \notin PageAfter(after)
LastOf(ids) == CHOOSE i \in ids : \A j \in ids : j <= i

LimitIsTheEnd(after, page) == IF HasNext(after) /\ page < MaxPages THEN "list" ELSE "write"
AfterPage(after, page) ==
  IF ~HasNext(after) THEN "write" ELSE IF page < MaxPages THEN "list" ELSE "failed"
GetPage(c) ==
  LET s == sync[c]
      ids == PageAfter(s.after)
      listed == s.listed \cup {[id |-> i, name |-> meta[i].name, status |-> meta[i].status] : i \in ids}
  IN  /\ s.at = "list"
      /\ sync' = [sync EXCEPT ![c] = [at |-> AfterPage(s.after, s.page + 1), page |-> s.page + 1,
                                      after |-> IF HasNext(s.after) THEN LastOf(ids) ELSE s.after,
                                      listed |-> listed, todo |-> listed]]
      /\ UNCHANGED <<meta, sent, tableVars, hook, metaChanges, updates, gone, quiet>>

(* A page fails: an HTTP error or timeout, a malformed body, a next page   *)
(* without a cursor or with one that was seen; or another tenant has one   *)
(* of the templates.                                                       *)
SyncFails(c) ==
  /\ sync[c].at = "list"
  /\ sync' = [sync EXCEPT ![c].at = "failed"]
  /\ UNCHANGED <<meta, sent, tableVars, hook, metaChanges, updates, gone, quiet>>

-----------------------------------------------------------------------------
Seen(c, n) == IF holder[n] # Absent /\ holder[n] = c THEN pending[n] ELSE table[n]
Versions(n) == {table[n], pending[n]} \ {Absent}
Locked(c, n) == holder[n] \notin {Absent, c}

(* The rows that are, or may come to be, in the way of a unique value.     *)
WithName(c, name) == {n \in Slots : \E v \in {Seen(c, n)} \cup Versions(n) : v # Absent /\ v.name = name}
WithId(c, id) == {n \in Slots : \E v \in {Seen(c, n)} \cup Versions(n) : v # Absent /\ v.id = id}
FreeSlot == CHOOSE n \in Slots : Versions(n) = {}

(* The row that an upsert by name writes; it waits for rows in its way.    *)
Target(c, name) ==
  IF \E n \in WithName(c, name) : Seen(c, n) # Absent /\ Seen(c, n).name = name
  THEN CHOOSE n \in WithName(c, name) : Seen(c, n) # Absent /\ Seen(c, n).name = name
  ELSE FreeSlot
UpsertWaits(c, t) ==
  \E n \in WithName(c, t.name) \cup (WithId(c, t.id) \ {Target(c, t.name)}) : Locked(c, n)
UpsertRefused(c, t) ==
  \E n \in Slots \ {Target(c, t.name)} : Seen(c, n) # Absent /\ Seen(c, n).id = t.id

Rollback(c) ==
  /\ holder' = [n \in Slots |-> IF holder[n] = c THEN Absent ELSE holder[n]]
  /\ pending' = [n \in Slots |-> IF holder[n] = c THEN Absent ELSE pending[n]]
  /\ UNCHANGED table

NextListed(c) == CHOOSE t \in sync[c].todo : \A u \in sync[c].todo : t.id <= u.id
Upsert(c) ==
  LET t == NextListed(c) IN
  /\ sync[c].at = "write"
  /\ sync[c].todo # {}
  /\ ~UpsertWaits(c, t)
  /\ IF UpsertRefused(c, t)
     THEN Rollback(c) /\ sync' = [sync EXCEPT ![c].at = "failed"]
     ELSE /\ pending' = [pending EXCEPT ![Target(c, t.name)] = t]
          /\ holder' = [holder EXCEPT ![Target(c, t.name)] = c]
          /\ sync' = [sync EXCEPT ![c].todo = @ \ {t}]
          /\ UNCHANGED table
  /\ UNCHANGED <<meta, sent, hook, metaChanges, updates, gone, quiet>>

(* updateMany: what is visible and was not listed is DELETED; the commit.  *)
NothingIsUnlisted(c) == {}
Unlisted(c) ==
  {n \in Slots : /\ Seen(c, n) # Absent /\ Seen(c, n).status # "DELETED"
                 /\ Seen(c, n).id \notin {t.id : t \in sync[c].listed}}
MarkDeletedAndCommit(c) ==
  /\ sync[c].at = "write"
  /\ sync[c].todo = {}
  /\ \A n \in Unlisted(c) : ~Locked(c, n)
  /\ table' = [n \in Slots |-> IF n \in Unlisted(c) THEN [Seen(c, n) EXCEPT !.status = "DELETED"]
                               ELSE Seen(c, n)]
  /\ holder' = [n \in Slots |-> IF holder[n] = c THEN Absent ELSE holder[n]]
  /\ pending' = [n \in Slots |-> IF holder[n] = c THEN Absent ELSE pending[n]]
  /\ sync' = [sync EXCEPT ![c].at = "done"]
  /\ quiet' = quiet \cap {c}
  /\ UNCHANGED <<meta, sent, hook, metaChanges, updates, gone>>

(* The transaction times out, fails, or is the victim of a deadlock.       *)
AbortSync(c) ==
  /\ sync[c].at = "write"
  /\ Rollback(c)
  /\ sync' = [sync EXCEPT ![c].at = "failed"]
  /\ UNCHANGED <<meta, sent, hook, metaChanges, updates, gone, quiet>>

-----------------------------------------------------------------------------
(* applyProviderStatusUpdate: find the row by provider id, then write it   *)
(* by row id, or upsert by name.                                           *)
FindByProvider ==
  /\ hook.at = "idle"
  /\ updates < MaxUpdates
  /\ updates' = updates + 1
  /\ \E e \in sent :
       hook' = [at |-> "write", update |-> e,
                found |-> {n \in Slots : table[n] # Absent /\ table[n].id = e.id}]
  /\ UNCHANGED <<meta, sent, tableVars, sync, metaChanges, gone, quiet>>

ApplyProviderStatusUpdate ==
  LET e == hook.update
      n == IF hook.found # {} THEN CHOOSE r \in hook.found : TRUE ELSE Target(Absent, e.name)
      id == IF hook.found # {} THEN table[n].id ELSE e.id
      rivals == (WithName(Absent, e.name) \cup WithId(Absent, id)) \ {n}
  IN  /\ hook.at = "write"
      /\ \A r \in rivals \cup {n} : holder[r] = Absent
      /\ table' = IF rivals # {} THEN table     \* P2002: the event is retried
                  ELSE [table EXCEPT ![n] = [id |-> id, name |-> e.name, status |-> e.status]]
      /\ hook' = [at |-> "idle"]
      /\ quiet' = {}
      /\ UNCHANGED <<meta, sent, pending, holder, sync, metaChanges, updates, gone>>

CatalogNext ==
  \/ MetaChanges \/ FindByProvider \/ ApplyProviderStatusUpdate
  \/ \E c \in Syncs :
       \/ StartSync(c) \/ GetPage(c) \/ SyncFails(c)
       \/ Upsert(c) \/ MarkDeletedAndCommit(c) \/ AbortSync(c)

CatalogSpec == CatalogInit /\ [][CatalogNext]_catalogVars

-----------------------------------------------------------------------------
(***************************************************************************)
(* A sync marks a template DELETED only if Meta was without it at some     *)
(* moment since the sync began: a listing that was cut short, by the page  *)
(* limit or by a failure, deletes nothing.                                 *)
(***************************************************************************)
DeletedWasGone ==
  [][\A n \in Slots, c \in Syncs :
       /\ sync[c].at = "write" /\ sync'[c].at = "done"
       /\ table'[n] # Absent /\ table'[n].status = "DELETED" /\ table'[n] # table[n]
       => table'[n].id \in gone[c]]_catalogVars

(***************************************************************************)
(* A sync that nothing overtook leaves the table as Meta has it, whatever  *)
(* late updates and earlier syncs had made of the rows: a template with    *)
(* its id and status, and every other row DELETED.                         *)
(***************************************************************************)
Agrees ==
  /\ \A i \in AtMeta : \E n \in Slots :
       table[n] = [id |-> i, name |-> meta[i].name, status |-> meta[i].status]
  /\ \A n \in Slots : table[n] # Absent /\ table[n].id \notin AtMeta => table[n].status = "DELETED"
QuietSyncAgrees == \A c \in quiet : sync[c].at = "done" => Agrees
=============================================================================
