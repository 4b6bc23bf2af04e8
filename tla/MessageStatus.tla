---------------------------- MODULE MessageStatus ----------------------------
(***************************************************************************)
(* The vocabulary every other module shares: the message statuses, their   *)
(* rank, and the rule by which a delivery receipt may change a status.     *)
(***************************************************************************)
EXTENDS Integers

(* Statuses an outbound message can be in.  "ABSENT" stands for a row that *)
(* is not in the database yet.  CREATED, CANCELLED and EXPIRED are in the  *)
(* enum; no code path writes them to an outbound message.                  *)
Status == {"CREATED", "QUEUED", "PROCESSING", "SUBMITTED", "SENT",
           "DELIVERED", "READ", "FAILED", "CANCELLED", "EXPIRED"}

(* A worker that meets one of these acknowledges its job without sending.  *)
TERMINAL_OR_SUBMITTED_STATUSES ==
    {"SUBMITTED", "SENT", "DELIVERED", "READ", "FAILED", "CANCELLED", "EXPIRED"}

(* STATUS_RANK, with the fallback -1 of "?? -1" for the unranked statuses. *)
STATUS_RANK ==
    [s \in Status |-> CASE s = "CREATED"    -> 0
                        [] s = "QUEUED"     -> 1
                        [] s = "PROCESSING" -> 2
                        [] s = "SUBMITTED"  -> 3
                        [] s = "SENT"       -> 4
                        [] s = "DELIVERED"  -> 5
                        [] s = "READ"       -> 6
                        [] OTHER            -> -1]

(* The statuses mapStatus can produce from a provider receipt.             *)
ReceiptStatus == {"SENT", "DELIVERED", "READ", "FAILED"}

(* Mutant: the last receipt wins, whatever its rank.                       *)
ShouldApplyLatest(current, target) ==
    IF target = "FAILED"
    THEN current \notin {"READ", "DELIVERED"}
    ELSE current \notin {"FAILED", "CANCELLED", "EXPIRED"}

ShouldApplyStatus(current, target) ==
    IF target = "FAILED"
    THEN current \notin {"READ", "DELIVERED"}
    ELSE /\ current \notin {"FAILED", "CANCELLED", "EXPIRED"}
         /\ STATUS_RANK[target] >= STATUS_RANK[current]
==============================================================================
