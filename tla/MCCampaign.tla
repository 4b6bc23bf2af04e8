------------------------------- MODULE MCCampaign -------------------------------
(* Small instances of Campaign for TLC.                                    *)
EXTENDS Campaign, TLC

Replicas == Permutations(Processors) \cup Permutations(Contacts) \cup Permutations(Requests)

(* Liveness: one recipient amid faults and pauses, or all of them without. *)
First == CHOOSE c \in Contacts : TRUE
Audience == {c \in Contacts : recipient[c] # "NONE"}
Bounded == Audience \subseteq {First} \/ (Audience = Contacts /\ faults + pauses = 0)

BoundedSpec == Init /\ [][Next /\ Bounded']_vars /\ Fairness
==================================================================================
