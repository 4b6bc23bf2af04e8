------------------------ MODULE IdempotentAcceptance ------------------------
(***************************************************************************)
(* What POST /messages promises its callers.  A request is accepted at one *)
(* instant, at most once for its idempotency key, and every answer other   *)
(* than a refusal names the one message accepted for the key.  A caller    *)
(* that is refused, or never answered, may ask again with the same key.    *)
(***************************************************************************)
CONSTANTS
  Requests,   \* calls of create()
  KeyOf,      \* the idempotency key of each, or NoKey
  NoKey,
  Unanswered,
  Refused

VARIABLES
  accepted,   \* the requests whose message exists
  answer      \* what each caller was told: a message, Refused or Unanswered

SameKey(r, m) == KeyOf[r] # NoKey /\ KeyOf[m] = KeyOf[r]

Init ==
  /\ accepted = {}
  /\ answer = [r \in Requests |-> Unanswered]

Accept(r) ==
  /\ answer[r] = Unanswered
  /\ r \notin accepted
  /\ \A m \in accepted : ~SameKey(r, m)
  /\ accepted' = accepted \cup {r}
  /\ answer' \in {answer, [answer EXCEPT ![r] = r]}

Answer(r, m) ==
  /\ answer[r] = Unanswered
  /\ m \in accepted
  /\ m = r \/ SameKey(r, m)
  /\ answer' = [answer EXCEPT ![r] = m]
  /\ UNCHANGED accepted

Refuse(r) ==
  /\ answer[r] = Unanswered
  /\ answer' = [answer EXCEPT ![r] = Refused]
  /\ UNCHANGED accepted

Next == \E r \in Requests :
          Accept(r) \/ Refuse(r) \/ \E m \in Requests : Answer(r, m)

Spec == Init /\ [][Next]_<<accepted, answer>>
=============================================================================
