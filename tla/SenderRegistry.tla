---------------------------- MODULE SenderRegistry ----------------------------
(***************************************************************************)
(* PhoneNumbersService: the senders of the tenants, their default flag and *)
(* their WABA, under concurrent create and update requests.  Each action   *)
(* is one query, or what a query that writes several rows does to one of   *)
(* them.  A transaction reads committed rows and its own writes, locks the *)
(* rows it writes until it ends, and a write waits for the lock and then   *)
(* looks at the row again (PostgreSQL, read committed).                    *)
(***************************************************************************)
EXTENDS Naturals, FiniteSets

CONSTANTS PhoneNumbers,  \* provider phone number ids, numbered by createdAt
          Tenants, Wabas,
          Registries,    \* tables the run starts from
          PhoneCalls,    \* requests: create or update, with their arguments
          Callers,       \* concurrent requests
          Nil            \* an argument or a row that is absent

VARIABLES senders,       \* committed rows
          draft,         \* row versions of open transactions
          locker,        \* the transaction that holds a row
          request,       \* each caller's request
          raced          \* history: pairs of requests that ran at one time

senderVars == <<senders, draft, locker, request, raced>>

SenderRows == [tenant : Tenants, active : BOOLEAN, isDefault : BOOLEAN, waba : Wabas \cup {Nil}]
ActiveDefault(r) == r # Nil /\ r.active /\ r.isDefault

(***************************************************************************)
(* A table to start from: a tenant with active senders has one active      *)
(* default, and a WABA has one tenant.                                     *)
(***************************************************************************)
IsRegistry(start) ==
  /\ start \in [PhoneNumbers -> SenderRows \cup {Nil}]
  /\ \A n, m \in {k \in PhoneNumbers : start[k] # Nil} :
       /\ ActiveDefault(start[n]) /\ ActiveDefault(start[m]) /\ start[n].tenant = start[m].tenant => n = m
       /\ start[n].waba # Nil /\ start[n].waba = start[m].waba => start[n].tenant = start[m].tenant
  /\ \A n \in PhoneNumbers :
       start[n] # Nil /\ start[n].active
         => \E m \in PhoneNumbers : ActiveDefault(start[m]) /\ start[m].tenant = start[n].tenant

ASSUME SenderAssumption ==
  /\ PhoneNumbers \subseteq Nat
  /\ Nil \notin Callers \cup Wabas \cup BOOLEAN \cup SenderRows
  /\ PhoneCalls \subseteq [op : {"create", "update"}, id : PhoneNumbers, tenant : Tenants,
                           active : BOOLEAN \cup {Nil}, isDefault : BOOLEAN \cup {Nil},
                           waba : Wabas \cup {Nil}]
  /\ \A start \in Registries : IsRegistry(start)

SenderInit ==
  /\ senders \in Registries
  /\ draft = [n \in PhoneNumbers |-> Nil]
  /\ locker = [n \in PhoneNumbers |-> Nil]
  /\ request = [c \in Callers |-> [pc |-> "idle"]]
  /\ raced = {}

Open(c) == request[c].pc \notin {"idle", "done", "failed"}
InTransaction(c) == Open(c) /\ request[c].pc \notin {"owner", "begin"}

Visible(c, n) == IF locker[n] = c THEN draft[n] ELSE senders[n]

MoveTo(c, pc) == request' = [request EXCEPT ![c].pc = pc]
Fail(c) ==
  /\ MoveTo(c, "failed")
  /\ locker' = [n \in PhoneNumbers |-> IF locker[n] = c THEN Nil ELSE locker[n]]
  /\ draft' = [n \in PhoneNumbers |-> IF locker[n] = c THEN Nil ELSE draft[n]]
Free(c, n) == locker[n] \in {Nil, c}
WriteRow(c, n, r) ==
  /\ draft' = [draft EXCEPT ![n] = r]
  /\ locker' = [locker EXCEPT ![n] = c]

(***************************************************************************)
(* The partial unique index on active defaults: a new version waits for an *)
(* open transaction that holds another active default, and then fails on   *)
(* one that is there.                                                      *)
(***************************************************************************)
NoIndex(c, n, r) == {}
IndexRivals(c, n, r) ==
  IF ~ActiveDefault(r) THEN {}
  ELSE {m \in PhoneNumbers \ {n} :
          \E v \in {Visible(c, m), IF locker[m] = c THEN Nil ELSE draft[m]} :
            ActiveDefault(v) /\ v.tenant = r.tenant}
IndexWaits(c, n, r) == \E m \in IndexRivals(c, n, r) : ~Free(c, m)
IndexRefuses(c, n, r) == IndexRivals(c, n, r) # {} /\ ~IndexWaits(c, n, r)

(* One write: it waits for the row and the index, and fails on a duplicate. *)
Put(c, n, r, next) ==
  /\ Free(c, n)
  /\ ~IndexWaits(c, n, r)
  /\ IF IndexRefuses(c, n, r) THEN Fail(c)
     ELSE WriteRow(c, n, r) /\ MoveTo(c, next)

-----------------------------------------------------------------------------
(* A request arrives; create looks for its phone number id first.          *)
StartRequest(c) ==
  /\ request[c].pc = "idle"
  /\ \E call \in PhoneCalls :
       LET taken == call.op = "create" /\ senders[call.id] # Nil IN
       request' = [request EXCEPT ![c] = [pc |-> IF taken THEN "failed" ELSE "owner",
                                          call |-> call, targets |-> {}, isDefault |-> Nil]]
  /\ raced' = raced \cup {{c, d} : d \in {d \in Callers \ {c} : Open(d)}}
  /\ UNCHANGED <<senders, draft, locker>>

(* assertWabaOwnership: a read outside the transaction.                    *)
OwnedByAnother(call) ==
  /\ call.waba # Nil
  /\ \E n \in PhoneNumbers :
       senders[n] # Nil /\ senders[n].waba = call.waba /\ senders[n].tenant # call.tenant
AssertWabaOwnership(c) ==
  /\ request[c].pc = "owner"
  /\ MoveTo(c, IF OwnedByAnother(request[c].call) THEN "failed" ELSE "begin")
  /\ UNCHANGED <<senders, draft, locker, raced>>

Defaults(c, tenant) ==
  {n \in PhoneNumbers : Visible(c, n) # Nil /\ Visible(c, n).tenant = tenant
                          /\ Visible(c, n).isDefault}
Actives(c, tenant) ==
  {n \in PhoneNumbers : Visible(c, n) # Nil /\ Visible(c, n).tenant = tenant
                          /\ Visible(c, n).active}

(* create: the first active sender becomes the default.                    *)
CreateBegins(c) ==
  LET call == request[c].call
      isDefault == Actives(c, call.tenant) = {} \/ call.isDefault = TRUE
  IN  /\ request[c].pc = "begin"
      /\ call.op = "create"
      /\ request' = [request EXCEPT ![c].pc = IF isDefault THEN "select" ELSE "clear",
                                    ![c].isDefault = isDefault]
      /\ UNCHANGED <<senders, draft, locker, raced>>

(* update: the row, and the rule about inactive defaults.                  *)
UpdateBegins(c) ==
  LET call == request[c].call
      existing == Visible(c, call.id)
      willBeActive == IF call.active # Nil THEN call.active ELSE existing.active
      requestedDefault == IF call.isDefault # Nil THEN call.isDefault
                          ELSE IF call.active = FALSE THEN FALSE ELSE existing.isDefault
  IN  /\ request[c].pc = "begin"
      /\ call.op = "update"
      /\ IF existing = Nil \/ existing.tenant # call.tenant \/ (call.isDefault = TRUE /\ ~willBeActive)
         THEN MoveTo(c, "failed")
         ELSE MoveTo(c, IF requestedDefault /\ willBeActive THEN "select" ELSE "clear")
      /\ UNCHANGED <<senders, draft, locker, raced>>

(* updateMany: the rows it finds to clear; then each one is locked, and    *)
(* written if it still matches.                                            *)
SelectDefaults(c) ==
  LET call == request[c].call
      kept == IF call.op = "update" THEN {call.id} ELSE {}
  IN  /\ request[c].pc = "select"
      /\ request' = [request EXCEPT ![c].pc = "clear",
                                    ![c].targets = Defaults(c, call.tenant) \ kept]
      /\ UNCHANGED <<senders, draft, locker, raced>>

ClearDefault(c) ==
  /\ request[c].pc = "clear"
  /\ \E n \in request[c].targets :
       /\ Free(c, n)
       /\ request' = [request EXCEPT ![c].targets = @ \ {n}]
       /\ IF Visible(c, n).isDefault
          THEN WriteRow(c, n, [Visible(c, n) EXCEPT !.isDefault = FALSE])
          ELSE UNCHANGED <<draft, locker>>
  /\ UNCHANGED <<senders, raced>>

InsertSender(c) ==
  LET call == request[c].call IN
  /\ request[c].pc = "clear"
  /\ request[c].targets = {}
  /\ call.op = "create"
  /\ Free(c, call.id)
  /\ IF senders[call.id] # Nil THEN Fail(c)
     ELSE Put(c, call.id, [tenant |-> call.tenant, active |-> TRUE, waba |-> call.waba,
                           isDefault |-> request[c].isDefault], "commit")
  /\ UNCHANGED <<senders, raced>>

UpdateSender(c) ==
  LET call == request[c].call
      r == Visible(c, call.id)
      isDefault == IF call.isDefault # Nil THEN call.isDefault
                   ELSE IF call.active = FALSE THEN FALSE ELSE r.isDefault
  IN  /\ request[c].pc = "clear"
      /\ request[c].targets = {}
      /\ call.op = "update"
      /\ Put(c, call.id, [r EXCEPT !.active = IF call.active # Nil THEN call.active ELSE @,
                                   !.waba = IF call.waba # Nil THEN call.waba ELSE @,
                                   !.isDefault = isDefault], "review")
      /\ UNCHANGED <<senders, raced>>

ReviewDefault(c) ==
  /\ request[c].pc = "review"
  /\ MoveTo(c, IF \E n \in Actives(c, request[c].call.tenant) : Visible(c, n).isDefault
               THEN "commit" ELSE "fallback")
  /\ UNCHANGED <<senders, draft, locker, raced>>

(* No active default was left: the oldest active sender is to become it.   *)
Oldest(c) ==
  LET actives == Actives(c, request[c].call.tenant) IN
  {n \in actives : \A m \in actives : n <= m}
FindFallback(c) ==
  /\ request[c].pc = "fallback"
  /\ request' = [request EXCEPT ![c].targets = Oldest(c),
                                ![c].pc = IF Oldest(c) = {} THEN "commit" ELSE "promote"]
  /\ UNCHANGED <<senders, draft, locker, raced>>

PromoteFallback(c) ==
  /\ request[c].pc = "promote"
  /\ \E n \in request[c].targets :
       Put(c, n, [Visible(c, n) EXCEPT !.isDefault = TRUE], "commit")
  /\ UNCHANGED <<senders, raced>>

CommitSender(c) ==
  /\ request[c].pc = "commit"
  /\ senders' = [n \in PhoneNumbers |-> Visible(c, n)]
  /\ locker' = [n \in PhoneNumbers |-> IF locker[n] = c THEN Nil ELSE locker[n]]
  /\ draft' = [n \in PhoneNumbers |-> IF locker[n] = c THEN Nil ELSE draft[n]]
  /\ MoveTo(c, "done")
  /\ UNCHANGED raced

(* The transaction times out, fails, or is the victim of a deadlock.       *)
AbortSender(c) ==
  /\ InTransaction(c)
  /\ Fail(c)
  /\ UNCHANGED <<senders, raced>>

SenderNext ==
  \E c \in Callers :
    \/ StartRequest(c) \/ AssertWabaOwnership(c) \/ CreateBegins(c) \/ UpdateBegins(c)
    \/ SelectDefaults(c) \/ ClearDefault(c) \/ InsertSender(c) \/ UpdateSender(c)
    \/ ReviewDefault(c) \/ FindFallback(c) \/ PromoteFallback(c) \/ CommitSender(c) \/ AbortSender(c)

SenderSpec == SenderInit /\ [][SenderNext]_senderVars

-----------------------------------------------------------------------------
TenantRows(t) == {n \in PhoneNumbers : senders[n] # Nil /\ senders[n].tenant = t}
RacedWith(P(_)) == \E pair \in raced : \E c \in pair : P(request[c].call)

(***************************************************************************)
(* A tenant never has two active default senders, whichever requests meet: *)
(* resolveForTenant has one answer.                                        *)
(***************************************************************************)
OneActiveDefault ==
  \A t \in Tenants : Cardinality({n \in TenantRows(t) : ActiveDefault(senders[n])}) <= 1

(***************************************************************************)
(* A tenant with active senders has an active default, unless requests ran *)
(* at one time and one of them took a sender out of service: only then may *)
(* update promote a sender that is no longer active, and leave none.       *)
(***************************************************************************)
DefaultIsKept ==
  \A t \in Tenants :
    (\E n \in TenantRows(t) : senders[n].active)
      => \/ \E n \in TenantRows(t) : ActiveDefault(senders[n])
         \/ RacedWith(LAMBDA call : call.op = "update" /\ call.active = FALSE)

(***************************************************************************)
(* A WABA belongs to one tenant, unless two requests that ran at one time  *)
(* both passed assertWabaOwnership; findTenantIdByWabaId then refuses it.  *)
(***************************************************************************)
FindTenantIdByWabaId(w) ==
  {senders[n].tenant : n \in {n \in PhoneNumbers : senders[n] # Nil /\ senders[n].waba = w}}
WabaHasOneOwner ==
  \A w \in Wabas :
    \/ Cardinality(FindTenantIdByWabaId(w)) <= 1
    \/ \E pair \in raced : \A c \in pair : request[c].call.waba = w

(***************************************************************************)
(* resolveForTenant and findTenantIdByWabaId have one answer where there   *)
(* should be one, up to the races named above.                             *)
(***************************************************************************)
SendersResolve == OneActiveDefault /\ DefaultIsKept /\ WabaHasOneOwner
=============================================================================
