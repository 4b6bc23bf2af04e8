---------------------------- MODULE MCConversation ----------------------------
(* Three questions over one set of variables: the row of a conversation     *)
(* under every interleaving of messages, moves and scans; the processors    *)
(* that feed it, with the row left to them; and a backlog of failing events *)
(* as large as their batch.                                                 *)
EXTENDS WebhookEvents

CONSTANTS e1, e2, e3, e4, e5, i1, i2, i3, o1
VARIABLE question

In(m, ok) == [kind |-> "inbound", id |-> m, known |-> ok]
Template(s) == [kind |-> "template", id |-> "promo", known |-> TRUE, status |-> s]
Receipt(s) == [kind |-> "receipt", id |-> o1, status |-> s]

(* Receipts in the wrong order and a message; its redelivery with an older  *)
(* message and one for a number nobody registered, which fails for ever;    *)
(* two more that fail for ever, and one that does not.                      *)
Deliveries ==
  [e \in Events |->
     CASE e = e1 -> <<Receipt("READ"), In(i1, TRUE), Template("APPROVED"), Receipt("SENT")>>
       [] e = e2 -> <<In(i1, TRUE), In(i2, TRUE), In(i3, FALSE)>>
       [] e \in {e3, e4} -> <<In(i3, FALSE)>>
       [] e = e5 -> <<Template("APPROVED")>>]

Timestamps == [m \in Inbounds |-> IF m = i1 THEN 1 ELSE 0]

Init ==
  /\ SlaInit /\ WebhookInit
  /\ question \in {"row", "events", "backlog"}
  /\ question # "row" => slaMinutes = [t \in Teams |-> None]
  /\ batchSize = (IF question = "backlog" THEN 2 ELSE 1)

(* The backlog is worked on without faults and without outbound messages.   *)
Next ==
  /\ UNCHANGED question
  /\ \/ question = "row" /\ SlaNext /\ UNCHANGED webhookVars
     \/ question = "events" /\ WebhookNext /\ Range(received') \subseteq {e1, e2}
     \/ /\ question = "backlog" /\ WebhookNext /\ Range(received') \subseteq {e3, e4, e5}
        /\ UNCHANGED <<outbound, faults>>

Spec == /\ Init /\ [][Next]_<<slaVars, webhookVars, question>>
        /\ WF_<<slaVars, webhookVars>>(EscalateOverdue /\ UNCHANGED webhookVars)
        /\ WebhookFairness
===============================================================================
