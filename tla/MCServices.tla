------------------------------ MODULE MCServices ------------------------------
(* Parts of the processes that share nothing: the acceptance of messages,  *)
(* the rate limiter, the sender registry, the inbox event streams, the     *)
(* trace exporter, and the three questions about media.                    *)
EXTENDS MessageAcceptance, RateLimiter, SenderRegistry, InboxRealtime, TraceExporter, MCMedia

CONSTANTS r1, r2, r3, k1, ada, bob, biz

-----------------------------------------------------------------------------
(* Two calls that share a key, and one without a key.                      *)
MCKeyOf == [r \in Requests |-> IF r = r3 THEN NoKey ELSE k1]
MCTypeOf == [r \in Requests |-> IF r = r2 THEN "TEXT" ELSE "TEMPLATE"]
MCDecisions == [occurredAt : {1, 2}, status : {"OPTED_IN", "OPTED_OUT"}]

(* Limits at which the shares leave no slot for OTP, the least at which    *)
(* they do, an unusable limit, and shares that are unusable or too large.  *)
Config(l, t, m) == [limit |-> l, transactional |-> t, marketing |-> m]
MCSenders == {Config(1, 60, 20), Config(3, 60, 20), Config(0, 0, 20), Config(2, 80, 30)}

(* A tenant with three senders, one with a spare, two tenants, none yet.   *)
Sender(t, active, isDefault) ==
  [tenant |-> t, active |-> active, isDefault |-> isDefault, waba |-> Nil]
MCRegistries ==
  {<<Sender(ada, TRUE, TRUE), Sender(ada, TRUE, FALSE), Sender(ada, TRUE, FALSE)>>,
   <<Sender(ada, TRUE, TRUE), Sender(ada, FALSE, FALSE), Nil>>,
   <<Sender(ada, TRUE, TRUE), Sender(bob, TRUE, TRUE), Nil>>,
   <<Nil, Nil, Nil>>}
MCPhoneCalls ==
  [op : {"create"}, id : {2, 3}, tenant : {ada}, active : {Nil}, isDefault : {Nil, TRUE}, waba : {Nil}]
  \cup [op : {"create"}, id : {3}, tenant : {ada, bob}, active : {Nil}, isDefault : {Nil}, waba : {biz}]
  \cup [op : {"update"}, id : 1 .. 2, tenant : {ada}, active : {Nil, TRUE, FALSE},
        isDefault : {Nil, TRUE, FALSE}, waba : {Nil}]
  \cup [op : {"update"}, id : 1 .. 2, tenant : {ada, bob}, active : {Nil}, isDefault : {Nil}, waba : {biz}]

MCTenantOf == [c \in Streams |-> IF c = 3 THEN bob ELSE ada]

-----------------------------------------------------------------------------
Init ==
  /\ question \in {"acceptance", "rate", "senders", "streams", "traces", "asset", "content", "scan"}
  /\ AcceptanceInit /\ RateInit /\ SenderInit /\ StreamInit /\ TraceInit /\ MediaStates
  /\ question # "acceptance" => ~windowOpen /\ ~senderActive /\ ~approved
  /\ question # "rate" => sender = Config(1, 60, 20)
  /\ question # "senders" => senders = <<Nil, Nil, Nil>>

Next ==
  /\ UNCHANGED question
  /\ \/ /\ question = "acceptance" /\ AcceptanceNext
        /\ UNCHANGED <<rateVars, senderVars, streamVars, traceVars, allMediaVars>>
     \/ /\ question = "rate" /\ RateNext
        /\ UNCHANGED <<acceptanceVars, senderVars, streamVars, traceVars, allMediaVars>>
     \/ /\ question = "senders" /\ SenderNext
        /\ UNCHANGED <<acceptanceVars, rateVars, streamVars, traceVars, allMediaVars>>
     \/ /\ question = "streams" /\ StreamNext
        /\ UNCHANGED <<acceptanceVars, rateVars, senderVars, traceVars, allMediaVars>>
     \/ /\ question = "traces" /\ TraceNext
        /\ UNCHANGED <<acceptanceVars, rateVars, senderVars, streamVars, allMediaVars>>
     \/ /\ MediaSteps
        /\ UNCHANGED <<acceptanceVars, rateVars, senderVars, streamVars, traceVars>>

Spec == /\ Init /\ [][Next]_<<acceptanceVars, rateVars, senderVars, streamVars,
                                 traceVars, allMediaVars, question>>
        /\ TraceFairness /\ AssetFairness
=============================================================================
