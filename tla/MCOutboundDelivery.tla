-------------------------- MODULE MCOutboundDelivery --------------------------
(* Small instances of OutboundDelivery for TLC.                            *)
EXTENDS OutboundDelivery, TLC

CONSTANTS m1, m2

(* m1 is new and transactional; m2 waits on the legacy queue, whose        *)
(* consumer takes every job for TRANSACTIONAL, and is a marketing message. *)
TwoClasses == {"TRANSACTIONAL", "MARKETING"}
ClassOfBoth == [m \in Messages |-> IF m = m1 THEN "TRANSACTIONAL" ELSE "MARKETING"]
OneClass == {"TRANSACTIONAL"}
ClassOfOne == [m \in Messages |-> "TRANSACTIONAL"]

Replicas == Permutations(Workers) \cup Permutations(Publishers)
==============================================================================
